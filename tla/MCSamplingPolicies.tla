------------------------- MODULE MCSamplingPolicies -------------------------
(***************************************************************************)
(* TLC instances of the tail sampler's policies: a filter of every kind,   *)
(* policies with sub-policies, and three traces.  A part of MCPipeline;    *)
(* by itself for what the code does not keep.                              *)
(***************************************************************************)
EXTENDS SamplingPolicies, TLC

Attr(int, str) == [int |-> int, str |-> str]
Svc(v)  == "svc" :> Attr(0, v)
HttpCode(c) == "code" :> Attr(c, "")
Res(attrs) == [resource |-> TRUE, attrs |-> attrs]
Sent(attrs, status, start, end) ==
    [resource |-> FALSE, attrs |-> attrs, status |-> status, start |-> start, end |-> end, state |-> <<>>]

MCTraces ==
    [a |-> [hash |-> 1, items |-> <<Res(Svc("x1")), Sent(HttpCode(5), "OK", 1, 2), Sent(<<>>, "ERROR", 4, 5)>>],
     b |-> [hash |-> 3, items |-> <<Res(<<>>), Sent(Svc("x2"), "OK", 4, 5),
                                    Res(Svc("y")), Sent(Svc("x1"), "OK", 1, 2), Sent(Svc(""), "OK", 2, 2)>>],
     c |-> [hash |-> 0, items |-> <<Res(Svc("y")), [Sent(HttpCode(0), "UNSET", 1, 2) EXCEPT !.state = "k" :> "v"]>>]]

MCRegexMatches == {<<"x.*", "x1">>, <<"x.*", "x2">>}

Str(root, regex, invert, values) ==
    [kind |-> "string", root |-> root, key |-> "svc", values |-> values,
     regex |-> regex, invert |-> invert, cacheSize |-> 2]
Num(root) == [kind |-> "numeric", root |-> root, key |-> "code", min |-> 4, max |-> 6]
Pol(root, op, filters, subs, percent, priority) ==
    [kind |-> "policy", root |-> root, op |-> op, filters |-> filters, subs |-> subs,
     percent |-> percent, priority |-> priority]
Re(root) == [Str(root, TRUE, FALSE, {"x.*"}) EXCEPT !.cacheSize = IF root THEN 2 ELSE 1]
Inv(root) == Str(root, FALSE, TRUE, {"y", ""})

MCPolicies ==
    [re     |-> Re(TRUE),
     inv    |-> Inv(TRUE),
     num    |-> Num(TRUE),
     lat    |-> [kind |-> "latency", root |-> TRUE, threshold |-> 4],
     rate   |-> [kind |-> "rate", root |-> TRUE, spansPerSecond |-> 4],
     and    |-> [kind |-> "and", root |-> TRUE, subs |-> <<"cnt", "notY", "prob", "never">>],
     cnt    |-> [kind |-> "count", root |-> FALSE, minSpans |-> 2],
     notY   |-> Inv(FALSE),
     prob   |-> [kind |-> "probabilistic", root |-> FALSE, percent |-> 50],
     never  |-> [kind |-> "never", root |-> FALSE],
     comp   |-> [kind |-> "composite", root |-> TRUE, subs |-> <<"err", "st", "always">>,
                 maxTotal |-> 3, allocated |-> [err |-> 2, st |-> 1, always |-> 4]],
     err    |-> [kind |-> "status", root |-> FALSE, codes |-> {"ERROR"}],
     st     |-> [kind |-> "state", root |-> FALSE, key |-> "k", values |-> {"v"}],
     always |-> [kind |-> "always", root |-> FALSE],
     top    |-> Pol(TRUE, "or", <<"topRe", "topNum">>, <<"p1", "p2">>, 100, 1),
     topRe  |-> Re(FALSE),
     topNum |-> Num(FALSE),
     p1     |-> Pol(FALSE, "and", <<"p1Re", "p1Num">>, <<>>, 0, 2),
     p1Re   |-> Re(FALSE),
     p1Num  |-> Num(FALSE),
     p2     |-> Pol(FALSE, "or", <<"p2Re", "p2Num">>, <<>>, 50, 1),
     p2Re   |-> Re(FALSE),
     p2Num  |-> Num(FALSE),
     none   |-> Pol(TRUE, "or", <<"noneInv">>, <<>>, 0, 1),
     noneInv |-> Inv(FALSE),
     but    |-> Pol(TRUE, "and", <<"butRe", "butInv">>, <<>>, 100, 1),
     butRe  |-> Re(FALSE),
     butInv |-> Inv(FALSE)]

=============================================================================

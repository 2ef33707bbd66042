--------------------------- MODULE MCLogsPipeline ---------------------------
(***************************************************************************)
(* A pipeline with a router in front of two chains, one of regex parsers   *)
(* with caches and one of operators on JSON, and two calls of ProcessLogs  *)
(* that run at the same time: a part of MCPipeline.                        *)
(***************************************************************************)
EXTENDS LogsPipeline

CONSTANT one   \* a number among the scalars

MCSize       == "ra" :> 2 @@ "rb" :> 1
MCWorkers    == {"c1", "c2"} \X (1..3)
MCNumbers    == one :> "1"
MCWhole      == {one}
MCHex        == {"ab", "cd"}
MCTimes      == "noon" :> 12
MCSeverities == "err" :> 17
MCSevText    == 0 :> "" @@ 17 :> "ERROR"
MCJson ==
  "j1" :> (<<"k">> :> "j" @@ <<"n">> :> one @@ <<"msg">> :> "hello" @@ <<"t">> :> "noon"
           @@ <<"s", "lib">> :> "sdk" @@ <<"s", "tid">> :> "ab")
MCMatches ==
  "ra" :> ("t1" :> (<<"a">> :> "x") @@ "t2" :> (<<"a">> :> "y") @@ "j1" :> NoMatch)
  @@ "rb" :> ("t1" :> (<<"lvl">> :> "err") @@ "t2" :> (<<"lvl">> :> "?") @@ "j1" :> NoMatch)

In(in, path) == [in |-> in, path |-> path, json |-> TRUE]
If(f, v)     == [is |-> "equals", field |-> f, equals |-> v]
Op(type, onError, output) == [type |-> type, if |-> NoExpr, onError |-> onError, output |-> output]

ids == [trace_id |-> In("attrs", <<"j", "s.tid">>), span_id |-> In("attrs", <<"j", "n">>)]

MCOps ==
  LET ra == [from |-> In("body", <<>>), to |-> In("attrs", <<>>)]
      rb == [from |-> In("body", <<>>), to |-> In("attrs", <<"b">>),
             severity |-> [from |-> In("attrs", <<"b", "lvl">>), overwriteText |-> TRUE]]
      mv == [from |-> In("attrs", <<"a">>), to |-> In("res", <<"a">>)]
      add == [from |-> In("body", <<"k">>), to |-> In("attrs", <<"k">>)]
      cp == [from |-> In("body", <<"n">>), to |-> In("attrs", <<"n">>)]
      js == [from |-> In("body", <<>>), to |-> In("attrs", <<"j">>),
             flatten |-> TRUE, paths |-> TRUE, depth |-> 1, prefix |-> "",
             trace |-> [from |-> ids], scopeName |-> [from |-> In("attrs", <<"j", "s.lib">>)]]
      toRegex == [when |-> If(In("attrs", <<"kind">>), "rx"), outputs |-> <<"ra">>,
                  label |-> [to |-> In("attrs", <<"route">>), value |-> Scalar("rx")]]
      toJson == [when |-> If(In("body", <<"k">>), "j"), outputs |-> <<"add", "tid">>]
  IN [router |-> [type |-> "router", routes |-> <<toRegex, toJson>>, default |-> <<"noop">>],
      ra |-> Op("regex", "send", <<"rb">>) @@ ra,
      rb |-> Op("regex", "drop", <<"mv">>) @@ rb,
      mv |-> Op("move", "send", <<>>) @@ mv,
      add |-> Op("add", "send", <<"cp">>) @@ add,
      cp |-> [Op("copy", "send", <<"js">>) EXCEPT !.if = If(In("attrs", <<"k">>), "j")] @@ cp,
      js |-> Op("json", "send_quiet", <<"nz">>) @@ js,
      nz |-> Op("normalize", "send", <<"tm">>),
      tm |-> Op("time", "send", <<"sv">>) @@ [from |-> In("body", <<"t">>)],
      sv |-> Op("severity", "send", <<"rm">>) @@ [from |-> In("body", <<"t">>), overwriteText |-> FALSE],
      rm |-> Op("remove", "send", <<>>) @@ [from |-> In("attrs", <<"n">>)],
      tid |-> Op("trace", "drop_quiet", <<"noop">>) @@ [from |-> ids],
      noop |-> Op("noop", "send", <<>>)]

LogRecord(text, kind, res, scope) ==
  [body |-> Scalar(text), attrs |-> <<"kind">> :> kind, res |-> <<"host">> :> res, scope |-> scope,
   ts |-> 0, sev |-> 0, sevText |-> "", trace |-> [i \in {"trace_id", "span_id"} |-> ""]]

MCBatches ==
  "c1" :> <<LogRecord("t1", "rx", "h1", "s1"), LogRecord("j1", "js", "h1", "s2"), LogRecord("t1", "rx", "h1", "s2")>>
  @@ "c2" :> <<LogRecord("t2", "rx", "h1", "s1"), LogRecord("t1", "rx", "h2", "s1")>>
=============================================================================

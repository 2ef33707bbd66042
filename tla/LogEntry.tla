------------------------------ MODULE LogEntry ------------------------------
(***************************************************************************)
(* The entries of the logs pipeline and what its operators make of them.   *)
(*                                                                         *)
(* A value is a function from the paths of its leaves to scalars: a scalar *)
(* has the one path <<>>, a map has longer ones, and the empty map is a    *)
(* leaf of its own.  Body, attributes and resource of an entry are values. *)
(* Texts are names; what a text is as JSON, as a time or as hexadecimal    *)
(* digits is given by constants.  Lists, and nested maps that two values   *)
(* share, are left out.                                                    *)
(*                                                                         *)
(* A field is [in, path, json]; json tells this repository's body field,   *)
(* which looks into a body that is JSON text, from that of the stanza      *)
(* package of contrib, which does not.                                     *)
(***************************************************************************)
EXTENDS Integers, Sequences, SequencesExt, TLC

CONSTANTS
  Json,        \* [text -> value] for the texts that are JSON objects
  Numbers,     \* [scalar that is not a string -> its text]
  Whole,       \* those of them that are of type int, or float64 without a fraction
  Hex,         \* the texts that are hexadecimal digits
  Times,       \* [text -> timestamp] for the texts the time layout accepts
  Severities,  \* [text -> severity] of the severity parsers
  Default,     \* the severity that a text without a mapping has
  SevText      \* [severity -> its name], "" for Default

Scalar(s) == << >> :> s
EmptyMap  == Scalar("{}")
Nil       == Scalar("nil")
IsMap(v)  == v = EmptyMap \/ <<>> \notin DOMAIN v
IsText(v) == ~IsMap(v) /\ v # Nil /\ v[<<>>] \notin DOMAIN Numbers
\* fmt.Sprintf("%v", v)
Sprint(v) == IF IsMap(v) THEN "map[]"
             ELSE IF v[<<>>] \in DOMAIN Numbers THEN Numbers[v[<<>>]] ELSE v[<<>>]

TempKey == "__signozlogspipelineprocessor_internal__parsedBodyJson"

-----------------------------------------------------------------------------
(* Values                                                                  *)

Under(v, p) == {x \in DOMAIN v : IsPrefix(p, x)}
Has(v, p)   == Under(v, p) # {}
Rest(p, x)  == SubSeq(x, Len(p) + 1, Len(x))
Sub(v, p)   == [q \in {Rest(p, x) : x \in Under(v, p)} |-> v[p \o q]]

\* w takes the place of what is at p; a scalar on the way there makes way for a map.
Graft(v, p, w) ==
  LET kept == {x \in DOMAIN v : ~IsPrefix(p, x) /\ ~IsPrefix(x, p)}
  IN [x \in kept \cup {p \o q : q \in DOMAIN w} |->
        IF x \in kept THEN v[x] ELSE w[Rest(p, x)]]

\* The keys of the map w replace the same keys of the map old.
MergeMaps(old, w) ==
  LET keys == {x[1] : x \in DOMAIN w \ {<<>>}}
      kept == {x \in DOMAIN old \ {<<>>} : x[1] \notin keys}
  IN [x \in kept \cup (DOMAIN w \ {<<>>}) |-> IF x \in kept THEN old[x] ELSE w[x]]

OrEmpty(m)  == IF DOMAIN m = {} THEN EmptyMap ELSE m
AsMap(v)    == IF DOMAIN v # {} /\ IsMap(v) THEN v ELSE EmptyMap
Merge(v, p, w) == Graft(v, p, OrEmpty(MergeMaps(AsMap(Sub(v, p)), w)))

SetAt(v, p, w) == IF IsMap(w) THEN Merge(v, p, w) ELSE Graft(v, p, w)

\* A map that loses its last key is an empty map.
Without(v, p) == [x \in DOMAIN v \ Under(v, p) |-> v[x]]
Refill(v, p)  == IF Has(v, p) THEN v ELSE Graft(v, p, EmptyMap)
DeleteAt(v, p) == IF p = <<>> THEN Nil ELSE Refill(Without(v, p), Front(p))

-----------------------------------------------------------------------------
(* Fields                                                                  *)

LooksInside(f) == f.in = "body" /\ f.json /\ f.path # <<>>

\* A text body that is JSON is parsed once; the result is kept in an attribute.
Caching(e) ==
  IF IsText(e.body) /\ ~Has(e.attrs, <<TempKey>>) /\ e.body[<<>>] \in DOMAIN Json
  THEN [e EXCEPT !.attrs = Graft(@, <<TempKey>>, Json[e.body[<<>>]])]
  ELSE e

Kept(e, cached) ==
  IF IsMap(e.body) THEN e.body
  ELSE IF Has(cached.attrs, <<TempKey>>) THEN Sub(cached.attrs, <<TempKey>>) ELSE Nil
ParseBodyJson(e) == Kept(e, Caching(e))

Read(e, f) == IF LooksInside(f) THEN Caching(e) ELSE e

\* Get: the value, if the field exists.
Or(parsed, body)  == IF parsed = Nil THEN body ELSE parsed
At(v, p)          == [exists |-> Has(v, p), value |-> Sub(v, p)]
Get(e, f)         == At(IF LooksInside(f) THEN Or(ParseBodyJson(e), e.body) ELSE e[f.in], f.path)
Put(e, f, v)      == [e EXCEPT ![f.in] = SetAt(@, f.path, v)]

-----------------------------------------------------------------------------
(* Expressions: one reference to a field, compared to a scalar.            *)

NoExpr == [is |-> "none"]

\* Member access on anything but a map is an error, a key that is not there is nil; a
\* body that is not JSON is a nil map, which has no keys.
Access(root, p) ==
  [fails |-> p # <<>> /\ ~(Has(root, Front(p)) /\ IsMap(Sub(root, Front(p)))),
   value |-> IF Has(root, p) THEN Sub(root, p) ELSE Nil]
Eval(e, f) == Access(IF LooksInside(f) THEN Or(ParseBodyJson(e), EmptyMap) ELSE e[f.in], f.path)
IsTrue(r, x) == ~r.fails /\ r.value = Scalar(x.equals)
Holds(e, x)  == IsTrue(Eval(e, x.field), x)

-----------------------------------------------------------------------------
(* Operators.  A result is the entry and whether there was an error; r is  *)
(* the entry after it was read, x what was found in it.                    *)

Result(e, ok) == [entry |-> e, ok |-> ok]
Done(e) == Result(e, TRUE)

Added(o, r, x) == IF x.fails THEN Result(r, FALSE) ELSE Done(Put(r, o.to, x.value))
AddValue(o, e) ==
  IF "value" \in DOMAIN o THEN Done(Put(e, o.to, o.value))
  ELSE Added(o, Read(e, o.from), Eval(e, o.from))

\* Also what remains of move when the field has been deleted.
Copied(o, r, x) == IF x.exists THEN Done(Put(r, o.to, x.value)) ELSE Result(r, FALSE)
Copy(o, e) == Copied(o, Read(e, o.from), Get(e, o.from))

\* move and remove do not look into text.
Deleted(e, f) == IF Has(e[f.in], f.path) THEN [e EXCEPT ![f.in] = DeleteAt(@, f.path)] ELSE e
Move(o, e) == Copied(o, Deleted(e, o.from), At(e[o.from.in], o.from.path))

RemoveField(o, e) ==
  IF o.from.path = <<>> /\ o.from.in # "body" THEN Done([e EXCEPT ![o.from.in] = EmptyMap])
  ELSE Result(Deleted(e, o.from), Has(e[o.from.in], o.from.path))

TimeOf(r, x) ==
  IF x.exists /\ IsText(x.value) /\ x.value[<<>>] \in DOMAIN Times
  THEN Done([r EXCEPT !.ts = Times[x.value[<<>>]]]) ELSE Result(r, FALSE)
ParseTime(o, e) == TimeOf(Read(e, o.from), Get(e, o.from))

Severity(o, r, text, sev) ==
  [r EXCEPT !.sev = sev, !.sevText = IF o.overwriteText /\ sev # Default THEN SevText[sev] ELSE text]
Find(text) == IF text \in DOMAIN Severities THEN Severities[text] ELSE Default
\* A number is a severity only as an int or as a whole float64.
HasSeverity(v) == IsText(v) \/ (<<>> \in DOMAIN v /\ v[<<>>] \in Whole)
SeverityOf(o, r, x) ==
  IF x.exists /\ HasSeverity(x.value)
  THEN Done(Severity(o, r, Sprint(x.value), Find(Sprint(x.value)))) ELSE Result(r, FALSE)
ParseSeverity(o, e) == SeverityOf(o, Read(e, o.from), Get(e, o.from))

\* A field that is missing empties the id, one that is not hexadecimal does and is an error.
Hexadecimal(x) == x.exists /\ Sprint(x.value) \in Hex
TraceOf(r, x) ==
  Result([r EXCEPT !.trace = [i \in DOMAIN x |-> IF Hexadecimal(x[i]) THEN Sprint(x[i].value) ELSE ""]],
         \A i \in DOMAIN x : x[i].exists => Hexadecimal(x[i]))
ParseTrace(o, e) ==
  TraceOf(IF \E i \in DOMAIN o.from : LooksInside(o.from[i]) THEN Caching(e) ELSE e,
          [i \in DOMAIN o.from |-> Get(e, o.from[i])])

\* What is not a string is written back to its field, which makes a map of a JSON text.
ScopeOf(o, r, x) ==
  IF ~x.exists THEN Result(r, FALSE)
  ELSE IF IsText(x.value) THEN Done([r EXCEPT !.scope = x.value[<<>>]])
  ELSE Result(Put(r, o.from, x.value), FALSE)
ParseScopeName(o, e) == ScopeOf(o, Read(e, o.from), Get(e, o.from))

-----------------------------------------------------------------------------
(* Normalisation of the body                                               *)

Message == <<"message">>

AsBody(v) ==
  IF IsMap(v) THEN v
  ELSE IF IsText(v) /\ v[<<>>] \in DOMAIN Json THEN Json[v[<<>>]]
  ELSE Message :> v[<<>>]

\* The keys of a message that is a map move up; an empty message goes.
Lifted(b, m) ==
  FoldLeft(LAMBDA a, k : SetAt(a, <<k>>, Sub(m, <<k>>)), b, SetToSeq({x[1] : x \in DOMAIN m \ {<<>>}}))
NoEmptyMessage(b) == IF Sub(b, Message) = EmptyMap THEN DeleteAt(b, Message) ELSE b
LiftMessage(b) ==
  IF Has(b, Message) /\ IsMap(Sub(b, Message)) THEN NoEmptyMessage(Lifted(b, Sub(b, Message))) ELSE b

\* log, or else msg, becomes the message when it is a string.
Rename(b, p) == DeleteAt(Graft(b, Message, Sub(b, p)), p)
Adopt(b, found) == IF Has(b, Message) \/ found = <<>> THEN b ELSE Rename(b, <<found[1]>>)
AdoptMessage(b) ==
  Adopt(b, SelectSeq(<<"log", "msg">>, LAMBDA k : Has(b, <<k>>) /\ IsText(Sub(b, <<k>>))))

\* The type of a message is asked for before and after it may have changed; nil has none.
Panics(b) == \E m \in {b, LiftMessage(b)} : Has(m, Message) /\ Sub(m, Message) = Nil

Format(b) == IF Has(b, Message) THEN Graft(b, Message, Scalar(Sprint(Sub(b, Message)))) ELSE b
Normalize(b) == Format(AdoptMessage(LiftMessage(b)))

-----------------------------------------------------------------------------
(* Parsers                                                                 *)

\* Keys are joined up to the depth, an empty map above it is lost.
Flatten(o, v) ==
  LET joined(x) == SubSeq(x, 1, IF Len(x) > o.depth THEN o.depth + 1 ELSE Len(x))
      key(x) == IF o.paths THEN FoldLeft(LAMBDA a, k : IF a = "" THEN k ELSE a \o "." \o k, o.prefix, joined(x))
                ELSE Last(joined(x))
      kept == {x \in DOMAIN v : v[x] # "{}" \/ Len(x) > o.depth}
      path(x) == <<key(x)>> \o Rest(joined(x), x)
  IN OrEmpty([y \in {path(x) : x \in kept} |-> v[CHOOSE x \in kept : path(x) = y]])

Parsed(v) ==
  IF IsMap(v) THEN v ELSE IF IsText(v) /\ v[<<>>] \in DOMAIN Json THEN Json[v[<<>>]] ELSE Nil
Flattened(o, v) == IF v # Nil /\ o.flatten THEN Flatten(o, v) ELSE v
ParseJson(o, v) == Flattened(o, Parsed(v))

\* The body is replaced, and every embedded parser runs, whatever the ones before it have
\* returned.
Both(r, s) == Result(s.entry, r.ok /\ s.ok)
NewBody(r, x) == IF x.exists THEN [r EXCEPT !.body = x.value] ELSE r
Embedded(o, r, name) ==
  CASE name \notin DOMAIN o -> r
    [] name = "body"      -> Done(NewBody(Read(r.entry, o.body), Get(r.entry, o.body)))
    [] name = "time"      -> Both(r, ParseTime(o.time, r.entry))
    [] name = "severity"  -> Both(r, ParseSeverity(o.severity, r.entry))
    [] name = "trace"     -> Both(r, ParseTrace(o.trace, r.entry))
    [] name = "scopeName" -> Both(r, ParseScopeName(o.scopeName, r.entry))

\* parsed is Nil when the parse function fails.
ParseWith(o, e, parsed) ==
  IF parsed = Nil THEN Result(Read(e, o.from), FALSE)
  ELSE FoldLeft(LAMBDA r, name : Embedded(o, r, name), Done(Put(Read(e, o.from), o.to, parsed)),
                <<"body", "time", "severity", "trace", "scopeName">>)
=============================================================================

--------------------------- MODULE StructuredSpan ---------------------------
(***************************************************************************)
(* newStructuredSpanV3 of the traces exporter: a span becomes the row that *)
(* is written, with typed attribute maps, tag rows, events, references and *)
(* the columns taken from well-known attributes.                           *)
(*                                                                         *)
(* A value is [type, text]: its text is AsString.  A map (nested maps and  *)
(* lists are maps of their paths) is [type |-> "map", leaves].  Attributes *)
(* are a sequence of [key, value] with distinct keys.                      *)
(***************************************************************************)
EXTENDS Integers, SequencesExt, FiniteSetsExt, TLC

CONSTANTS Atoi,      \* [the texts that are integers -> the integer's own text]
          Hostname   \* [the texts that parse as a URL -> its host]

IsValidFloat(v) == v.text \notin {"NaN", "+Inf", "-Inf"}

DataType(v) == CASE v.type \in {"double", "int"} -> "float64"
                 [] v.type = "bool" -> "bool"
                 [] OTHER -> "string"

\* The leaves under their full names.
FlattenJSON(v, prefix) ==
  [i \in DOMAIN v.leaves |-> [key |-> prefix \o "." \o v.leaves[i].key, value |-> v.leaves[i].value]]

Put(map, key, text) == (key :> text) @@ map

\* One attribute into the map of its type and into the tag rows; a float that is not valid into neither.
AddScalar(maps, a) ==
  IF a.value.type = "double" /\ ~IsValidFloat(a.value) THEN maps
  ELSE LET t == DataType(a.value)
       IN [maps EXCEPT ![t] = Put(@, a.key, a.value.text),
                       !.tags = Append(@, [key |-> a.key, tagType |-> "tag", dataType |-> t])]

AddAttribute(maps, a) ==
  IF a.value.type = "map" THEN FoldLeft(AddScalar, maps, FlattenJSON(a.value, a.key)) ELSE AddScalar(maps, a)

SpanAttributes(attrs) ==
  FoldLeft(AddAttribute, ("string" :> <<>>) @@ ("float64" :> <<>>) @@ ("bool" :> <<>>) @@ ("tags" :> <<>>), attrs)

AsStrings(attrs) == FoldLeft(LAMBDA m, a : Put(m, a.key, a.value.text), <<>>, attrs)

\* The attributes of a resource are strings; those of the workspace are not billed.
ResourceAttributes(attrs, excluded) ==
  LET flat(a) == IF a.value.type = "map" THEN FlattenJSON(a.value, a.key) ELSE <<a>>
      kept == SelectSeq(attrs, LAMBDA a : a.key \notin excluded)
  IN AsStrings(FlattenSeq([i \in DOMAIN kept |-> flat(kept[i])]))

ServiceName(resource) ==
  LET i == SelectInSeq(resource, LAMBDA a : a.key = "service.name")
  IN CASE i = 0 -> "<nil-service-name>"
       [] i # 0 /\ resource[i].value.type = "string" -> resource[i].value.text
       [] OTHER -> ""

\* The parent comes first: an array always has a length, so that there is a parent even without an id.
References(span) ==
  <<[traceId |-> span.traceId, spanId |-> span.parentSpanId, refType |-> "CHILD_OF"]>>
  \o [i \in DOMAIN span.links |->
        [traceId |-> span.links[i].traceId, spanId |-> span.links[i].spanId, refType |-> "FOLLOWS_FROM"]]

\* The group of an exception is the hash of what it has in common.
Events(span, service, lowCardinal) ==
  LET event(e) == [name |-> e.name, time |-> e.time, attrs |-> AsStrings(e.attrs), error |-> e.name = "exception"]
      of(e, k) == IF k \in DOMAIN event(e).attrs THEN event(e).attrs[k] ELSE ""
      group(e) == CASE e.name # "exception" -> ""
                    [] e.name = "exception" /\ lowCardinal -> service \o of(e, "exception.type")
                    [] OTHER -> service \o of(e, "exception.type") \o of(e, "exception.message")
  IN [i \in DOMAIN span.events |-> [event |-> event(span.events[i]), group |-> group(span.events[i])]]

----------------------------------------------------------------------------
(* Columns of well-known attributes                                        *)

PossibleHostAttr == {"http.host", "server.address", "client.address", "http.request.header.host", "net.peer.name"}
UrlKeys == {"http.url", "url.full"}
MethodKeys == {"http.method", "http.request.method"}

Str(v) == IF v.type = "string" THEN v.text ELSE ""

\* A status is an integer or the text of one.
StatusCode(v) ==
  CASE v.type = "int" -> v.text
    [] v.type = "string" /\ v.text \in DOMAIN Atoi -> Atoi[v.text]
    [] OTHER -> "0"

\* The URL of a client span gives a host when no attribute has.
PopulateUrl(c, client, v) ==
  LET host == IF Str(v) \in DOMAIN Hostname THEN Hostname[Str(v)] ELSE Str(v)
  IN IF client THEN [c EXCEPT !.httpUrl = Str(v), !.externalUrl = host, !.host = IF @ = "" THEN host ELSE @]
     ELSE [c EXCEPT !.httpUrl = Str(v)]

PopulateCustomAttrs(attrs, client) ==
  LET column(c, a) ==
        CASE a.key \in {"http.status_code", "http.response.status_code", "rpc.grpc.status_code"} ->
               [c EXCEPT !.status = StatusCode(a.value)]
          [] a.key = "rpc.jsonrpc.error_code" -> [c EXCEPT !.status = Str(a.value)]
          [] a.key \in UrlKeys -> PopulateUrl(c, client, a.value)
          [] a.key \in MethodKeys ->
               [c EXCEPT !.method = Str(a.value), !.externalMethod = IF client THEN Str(a.value) ELSE @]
          [] a.key \in PossibleHostAttr -> [c EXCEPT !.host = Str(a.value)]
          [] a.key \in {"db.name", "db.namespace"} -> [c EXCEPT !.dbName = Str(a.value)]
          [] a.key \in {"db.operation", "db.operation.name"} -> [c EXCEPT !.dbOperation = Str(a.value)]
          [] OTHER -> c
  IN FoldLeft(column, [status |-> "", httpUrl |-> "", externalUrl |-> "", method |-> "", externalMethod |-> "",
                       host |-> "", dbName |-> "", dbOperation |-> ""], attrs)

\* The context's flags say whether the parent is remote, if they say anything.
IsRemote(flags) == CASE ~flags.known -> "unknown" [] flags.known /\ flags.remote -> "yes" [] OTHER -> "no"

NewStructuredSpan(span, resource, excluded, lowCardinal) ==
  [attrs |-> SpanAttributes(span.attrs),
   resources |-> ResourceAttributes(resource, {}),
   billable |-> ResourceAttributes(resource, excluded),
   references |-> References(span),
   service |-> ServiceName(resource),
   events |-> Events(span, ServiceName(resource), lowCardinal),
   columns |-> PopulateCustomAttrs(span.attrs, span.kind = "3"),
   isRemote |-> IsRemote(span.flags),
   hasError |-> span.error]
=============================================================================

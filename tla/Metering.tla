------------------------------ MODULE Metering ------------------------------
(***************************************************************************)
(* pkg/metering: what is billed, counted before the data is written; the   *)
(* bytes of spans and log records, and the samples of metrics.  It repeats *)
(* what the exporters do with the data (modules StructuredSpan,            *)
(* MetricsBatch), in other words.                                          *)
(*                                                                         *)
(* Strings are counted by their length: texts that JSON escapes (quotes,   *)
(* angle brackets) are not among the payloads.                             *)
(***************************************************************************)
EXTENDS StructuredSpan, MetricsBatch

CONSTANTS Payloads,    \* [signal |-> "traces" | "metrics" | "logs", ...]
          Excluded,    \* the resource attributes that match ^signoz.workspace.*
          ExcludedMetrics  \* the names that match ^(signoz|otelcol).*

VARIABLES payload

Total(seq) == FoldLeft(+, 0, seq)

----------------------------------------------------------------------------
(* Sizes of JSON texts                                                     *)

\* An object or an array of texts with these sizes.
Enclosed(sizes) == 2 + Total(sizes) + IF sizes = <<>> THEN 0 ELSE Len(sizes) - 1

JsonMap(map, quotes) ==
  LET keys == SetToSeq(DOMAIN map)
  IN Enclosed([i \in DOMAIN keys |-> Len(keys[i]) + 3 + Len(map[keys[i]]) + quotes])

\* A field of a structure with omitempty: nothing when it is empty.
Field(key, size, quotes) == IF size = 0 THEN <<>> ELSE <<Len(key) + 3 + size + quotes>>

JsonRef(r) == Enclosed(Field("traceId", Len(r.traceId), 2) \o Field("spanId", Len(r.spanId), 2)
                       \o Field("refType", Len(r.refType), 2))
RefQuotes(r) == 4 * Cardinality({f \in DOMAIN r : r[f] # ""})

JsonEvent(e) == Enclosed(Field("name", Len(e.name), 2) \o Field("timeUnixNano", IF e.time = "0" THEN 0 ELSE Len(e.time), 0)
                         \o Field("attributeMap", IF e.attrs = <<>> THEN 0 ELSE JsonMap(e.attrs, 2), 0)
                         \o Field("isError", IF e.error THEN 4 ELSE 0, 0))
EventQuotes(e) ==
  (IF e.name = "" THEN 0 ELSE 4) + (IF e.time = "0" THEN 0 ELSE 2) + (IF e.error THEN 2 ELSE 0)
  + (IF e.attrs = <<>> THEN 0 ELSE 2 + 4 * Cardinality(DOMAIN e.attrs))

\* A text within a text: its quotes are escaped.
SizeOfOtelSpanRefs(refs) ==
  Enclosed([i \in DOMAIN refs |-> JsonRef(refs[i])]) + Total([i \in DOMAIN refs |-> RefQuotes(refs[i])])

SizeOfEvents(events) ==
  Enclosed([i \in DOMAIN events |-> JsonEvent(events[i].event) + EventQuotes(events[i].event) + 2])

----------------------------------------------------------------------------
(* Spans                                                                   *)

\* The sizer's own way through the attributes: a float that is not valid is left out, but not one
\* within a map; then the numbers cannot be marshalled and count nothing.
SizeOfNumberStringBool(attrs) ==
  LET flat(a) == IF a.value.type = "map" THEN FlattenJSON(a.value, a.key)
                 ELSE IF a.value.type = "double" /\ ~IsValidFloat(a.value) THEN <<>> ELSE <<a>>
      all == FlattenSeq([i \in DOMAIN attrs |-> flat(attrs[i])])
      of(t) == FoldLeft(LAMBDA m, a : IF DataType(a.value) = t THEN Put(m, a.key, a.value.text) ELSE m, <<>>, all)
      invalid == \E i \in DOMAIN all : all[i].value.type = "double" /\ ~IsValidFloat(all[i].value)
  IN [number |-> IF invalid THEN 0 ELSE JsonMap(of("float64"), 0),
      string |-> JsonMap(of("string"), 2), bool |-> JsonMap(of("bool"), 0)]

\* Key, value, colon and comma, and the quotes of a string.
TotalSizeIfKeyExists(key, size, extra) == IF size = 0 THEN 0 ELSE Len(key) + 2 + size + extra

\* Mutant of TotalSizeIfKeyExistsAndValueIsMapOrSlice: an empty map counts.
TotalSizeOfAnyMap(key, size, extra) == IF size = 0 THEN 0 ELSE Len(key) + 2 + size + extra

TotalSizeIfKeyExistsAndValueIsMapOrSlice(key, size, extra) == IF size <= 2 THEN 0 ELSE Len(key) + 2 + size + extra

\* The service's name is counted as JSON, with its quotes, so that an empty one has a size.
SizeOfSpan(span, resource) ==
  LET attrs == SizeOfNumberStringBool(span.attrs)
      value(key, text, extra) == TotalSizeIfKeyExists(key, Len(text), extra)
      map(key, size, extra) == TotalSizeIfKeyExistsAndValueIsMapOrSlice(key, size, extra)
  IN 2 + map("resources_string", JsonMap(ResourceAttributes(resource, Excluded), 2), 2)
       + value("startTimeUnixNano", span.start, 2) + value("spanId", span.spanId, 4)
       + value("traceId", span.traceId, 4) + value("traceState", span.traceState, 4)
       + value("parentSpanId", span.parentSpanId, 4)
       + value("flags", IF span.flags.text = "0" THEN "" ELSE span.flags.text, 2)
       + value("name", span.name, 4) + value("kind", span.kind, 2) + value("spanKind", span.spanKind, 4)
       + map("attributes_string", attrs.string, 2) + map("attributes_bool", attrs.bool, 2)
       + map("attributes_number", attrs.number, 2)
       + TotalSizeIfKeyExists("serviceName", Len(ServiceName(resource)) + 2, 2)
       + map("event", SizeOfEvents(Events(span, ServiceName(resource), FALSE)), 2)
       + map("references", SizeOfOtelSpanRefs(References(span)), 4) - 1

SpanSizePerResource(p) == Total([i \in DOMAIN p.spans |-> SizeOfSpan(p.spans[i], p.resource)])

\* The exporter's own measure: the structured span as JSON.
WrittenSize(span, resource) ==
  LET row == NewStructuredSpan(span, resource, Excluded, FALSE)
      text(key, t) == Field(key, Len(t), 2)
      number(key, t) == Field(key, IF t = "0" THEN 0 ELSE Len(t), 0)
      map(key, m, quotes) == Field(key, IF m = <<>> THEN 0 ELSE JsonMap(m, quotes), 0)
  IN Enclosed(FlattenSeq(<<number("startTimeUnixNano", span.start), text("traceId", span.traceId),
        text("spanId", span.spanId), text("traceState", span.traceState), text("parentSpanId", span.parentSpanId),
        number("flags", span.flags.text), text("name", span.name), number("kind", span.kind),
        text("spanKind", span.spanKind), map("attributes_string", row.attrs["string"], 2),
        map("attributes_number", row.attrs["float64"], 0), map("attributes_bool", row.attrs["bool"], 0),
        map("resources_string", row.billable, 2),
        Field("event", IF row.events = <<>> THEN 0 ELSE SizeOfEvents(row.events), 0),
        text("serviceName", row.service), Field("references", SizeOfOtelSpanRefs(row.references), 2)>>))

----------------------------------------------------------------------------
(* Logs and metrics                                                        *)

\* AsRaw as JSON: strings are quoted, the others are not.
JsonAny(attrs) ==
  Enclosed([i \in DOMAIN attrs |-> Len(attrs[i].key) + 3 + Len(attrs[i].value.text)
                                   + IF attrs[i].value.type = "string" THEN 2 ELSE 0])

Billable(attrs) == SelectSeq(attrs, LAMBDA a : a.key \notin Excluded)

LogSizePerResource(p) ==
  Total([i \in DOMAIN p.records |-> JsonAny(Billable(p.resource)) + JsonAny(Billable(p.records[i].attrs))
                                    + Len(p.records[i].body)])

\* recordSize of the logs exporter: only the resource is rid of the workspace's attributes.
RecordSize(r, resource) == JsonAny(Billable(resource)) + JsonAny(r.attrs) + Len(r.body)

Has(field) == IF field = None THEN 0 ELSE 1

\* Every bucket and quantile is a sample, and every other number of the point.
SamplesOf(m, dp) ==
  CASE m.type \in {"gauge", "sum"} -> 1
    [] m.type \in {"histogram", "exphistogram"} -> Len(dp.buckets) + 1 + Has(dp.sum) + Has(dp.min) + Has(dp.max)
    [] m.type = "summary" -> Len(dp.quantiles) + 2

CountPerResource(p) ==
  LET counted == SelectSeq(p.metrics, LAMBDA m : m.name \notin ExcludedMetrics)
  IN Total([i \in DOMAIN counted |->
        Total([j \in DOMAIN counted[i].points |-> SamplesOf(counted[i], counted[i].points[j])])])

WrittenSamples(p) == Len(PrepareBatch(p.metrics, <<>>, [attrs |-> <<>>, names |-> <<>>], TRUE).samples)

----------------------------------------------------------------------------

NoPayload == [signal |-> "none"]

MtInit == payload = NoPayload
MtNext == payload = NoPayload /\ payload' \in Payloads

\* Spans that the sizer measures field by field like the exporter's JSON: with a kind and a start,
\* and without a float that is not valid inside a map.
Measurable(span) ==
  /\ span.kind # "0" /\ span.start # "0"
  /\ \A i \in DOMAIN span.attrs : span.attrs[i].value.type = "map" =>
       \A j \in DOMAIN span.attrs[i].value.leaves : IsValidFloat(span.attrs[i].value.leaves[j].value)

\* Metrics of which every number is a sample: written at all, and histograms with their buckets.
Countable(m) ==
  /\ m.name \notin ExcludedMetrics /\ m.type # "exphistogram"
  /\ \A i \in DOMAIN m.points :
       LET dp == m.points[i]
       IN CASE m.type \in {"gauge", "sum"} -> dp.value # NaN
            [] m.type = "histogram" -> NaN \notin {dp.sum, dp.min, dp.max} /\ Len(dp.buckets) = Len(dp.bounds) + 1
            [] m.type = "summary" -> dp.sum # NaN /\ \A j \in DOMAIN dp.quantiles : dp.quantiles[j][2] # NaN

\* What is billed is what is written: the size that the meter adds up for a span is that of the
\* exporter's JSON, and it counts the sample rows of the metrics exporter, although neither uses the
\* code of the other.  Of spans whose service has an empty name the meter counts the field that the
\* exporter leaves out; they are not claimed.
BilledIsWritten ==
  /\ /\ payload.signal = "traces" /\ ServiceName(payload.resource) # ""
     /\ \A i \in DOMAIN payload.spans : Measurable(payload.spans[i])
     =>
       SpanSizePerResource(payload) = Total([i \in DOMAIN payload.spans |-> WrittenSize(payload.spans[i], payload.resource)])
  /\ payload.signal = "metrics" /\ (\A i \in DOMAIN payload.metrics : Countable(payload.metrics[i])) =>
       CountPerResource(payload) = WrittenSamples(payload)
  /\ payload.signal = "logs" /\ (\A i \in DOMAIN payload.records : Billable(payload.records[i].attrs) = payload.records[i].attrs) =>
       LogSizePerResource(payload) = Total([i \in DOMAIN payload.records |-> RecordSize(payload.records[i], payload.resource)])

=============================================================================

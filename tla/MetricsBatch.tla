---------------------------- MODULE MetricsBatch ----------------------------
(***************************************************************************)
(* prepareBatch of exporter/signozclickhousemetrics: how the data points   *)
(* of a metric become rows of the sample, series, metadata and exponential *)
(* histogram tables.                                                       *)
(*                                                                         *)
(* A metric is [name, type, temporality, monotonic, points]; a point has   *)
(* the fields of its type and "attrs", a function.  The name of a row is   *)
(* <<name, suffix>>.  Hashes are taken to be free of collisions: the hash  *)
(* of a fingerprint is what goes into it.                                  *)
(***************************************************************************)
EXTENDS Integers, Sequences, SequencesExt, FiniteSetsExt, TLC

CONSTANTS NaN,    \* the float that is not a number
          None,   \* an optional field that is not set
          Now     \* time.Now

-----------------------------------------------------------------------------
(* Fingerprints *)

NewFingerprint(typ, offset, attrs, extras) ==
    [type |-> typ, offset |-> offset, attrs |-> extras @@ attrs]

Hash(f) == <<f.offset, f.attrs>>

HashWithName(f, name) == <<Hash(f), name>>

\* The fingerprint of a point below its scope.
PointFingerprint(scope, attrs, extras) == NewFingerprint("point", Hash(scope), attrs, extras)

Temporality(t) == "__temporality__" :> t

-----------------------------------------------------------------------------
(* A batch: sequences of rows, in the order they are added *)

EmptyBatch == [samples |-> <<>>, ts |-> <<>>, metadata |-> <<>>, expHist |-> <<>>]

Join(a, b) == [t \in DOMAIN EmptyBatch |-> a[t] \o b[t]]

JoinAll(batches) == FoldLeft(Join, EmptyBatch, batches)

\* addMetadata: one row per attribute; the times default to now when there was
\* no point to take them from.
AddMetadata(name, m, typ, temporality, f, first, last) ==
    LET seen == IF first = None THEN <<Now, Now>> ELSE <<first, last>>
        row(k) == [name |-> name, temporality |-> temporality, type |-> typ,
                   monotonic |-> m.monotonic, attrName |-> k, attrType |-> f.type,
                   value |-> f.attrs[k], first |-> seen[1], last |-> seen[2]]
        keys == SetToSeq(DOMAIN f.attrs)
    IN  [EmptyBatch EXCEPT !.metadata = [i \in DOMAIN keys |-> row(keys[i])]]

\* A sample (or an exponential histogram) with its metadata and its series.
AddPoint(table, name, m, typ, temporality, f, dp, value) ==
    Join([EmptyBatch EXCEPT
            ![table] = <<[name |-> name, temporality |-> temporality, value |-> value,
                          fingerprint |-> HashWithName(f, name), unixMilli |-> dp.ts]>>,
            !.ts = <<[name |-> name, temporality |-> temporality, type |-> typ,
                      monotonic |-> m.monotonic, fingerprint |-> HashWithName(f, name),
                      unixMilli |-> dp.ts, attrs |-> f.attrs]>>],
         AddMetadata(name, m, typ, temporality, f, dp.ts, dp.ts))

\* Resource and scope metadata come after the points, with the times of all of
\* them, skipped points included.
AddParents(name, m, typ, temporality, resource, scope) ==
    LET times == {m.points[i].ts : i \in DOMAIN m.points}
        first == IF times = {} THEN None ELSE Min(times)
        last  == IF times = {} THEN 0 ELSE Max(times)
    IN  Join(AddMetadata(name, m, typ, temporality, resource, first, last),
             AddMetadata(name, m, typ, temporality, scope, first, last))

EachPoint(m, Rows(_)) == JoinAll([i \in DOMAIN m.points |-> Rows(m.points[i])])

-----------------------------------------------------------------------------
(* Gauges and sums *)

NumberPoint(m, temporality, scope, dp) ==
    IF dp.value = NaN THEN EmptyBatch
    ELSE AddPoint("samples", <<m.name, "">>, m, m.type, temporality,
                  PointFingerprint(scope, dp.attrs, Temporality(temporality)), dp, dp.value)

\* Gauges have no temporality and are not monotonic.
ProcessGauge(gauge, resource, scope) ==
    LET m == [gauge EXCEPT !.monotonic = FALSE]
        point(dp) == NumberPoint(m, "unspecified", scope, dp)
    IN  Join(EachPoint(m, point),
             AddParents(<<m.name, "">>, m, m.type, "unspecified", resource, scope))

ProcessSum(m, resource, scope) ==
    LET point(dp) == NumberPoint(m, m.temporality, scope, dp)
    IN  Join(EachPoint(m, point),
             AddParents(<<m.name, "">>, m, m.type, m.temporality, resource, scope))

-----------------------------------------------------------------------------
(* Histograms and exponential histograms *)

\* The value, type and temporality of the row for a suffix.
SuffixValue(dp, suffix) ==
    CASE suffix = ".count" -> dp.count
      [] suffix = ".sum" -> dp.sum
      [] suffix = ".min" -> dp.min
      [] suffix = ".max" -> dp.max

SuffixType(suffix) == IF suffix \in {".count", ".sum"} THEN "sum" ELSE "gauge"

SuffixTemporality(m, suffix) ==
    IF suffix \in {".count", ".sum"} THEN m.temporality ELSE "unspecified"

\* addSample of processHistogram.
HistogramSample(m, scope, dp, suffix) ==
    LET t == SuffixTemporality(m, suffix)
    IN  AddPoint("samples", <<m.name, suffix>>, m, SuffixType(suffix), t,
                 PointFingerprint(scope, dp.attrs, Temporality(t)), dp, SuffixValue(dp, suffix))

\* addSample of processExponentialHistogram: the fingerprint has the
\* temporality of the metric, the row that of the sample.
ExpHistogramSample(m, scope, dp, suffix) ==
    AddPoint("samples", <<m.name, suffix>>, m, SuffixType(suffix), SuffixTemporality(m, suffix),
             PointFingerprint(scope, dp.attrs, Temporality(m.temporality)), dp,
             SuffixValue(dp, suffix))

\* addBucketSample: cumulative counts, up to the shorter of the two slices,
\* then all of them under le=+Inf.
BucketSamples(m, scope, dp) ==
    LET le(bound, value) ==
            AddPoint("samples", <<m.name, ".bucket">>, m, m.type, m.temporality,
                     PointFingerprint(scope, dp.attrs,
                                      ("le" :> bound) @@ Temporality(m.temporality)), dp, value)
        n == Min({Len(dp.bounds), Len(dp.buckets)})
        cumulative(i) == FoldLeft(+, 0, SubSeq(dp.buckets, 1, i))
    IN  Join(JoinAll([i \in 1..n |-> le(ToString(dp.bounds[i]), cumulative(i))]),
             le("+Inf", dp.count))

\* A point with a number that is not one is skipped; sum, min and max are
\* optional.
HistogramPoint(dp, Sample(_), rest) ==
    IF NaN \in {dp.sum, dp.min, dp.max} THEN EmptyBatch
    ELSE LET has(field, suffix) == IF field = None THEN EmptyBatch ELSE Sample(suffix)
         IN  JoinAll(<<Sample(".count"), has(dp.sum, ".sum"), has(dp.min, ".min"),
                       has(dp.max, ".max"), rest>>)

HistogramParents(m, resource, scope, suffixes) ==
    JoinAll([i \in DOMAIN suffixes |->
        AddParents(<<m.name, suffixes[i]>>, m, SuffixType(suffixes[i]),
                   SuffixTemporality(m, suffixes[i]), resource, scope)])

ProcessHistogram(h, resource, scope) ==
    LET m == [h EXCEPT !.monotonic = TRUE]
        point(dp) == LET sample(suffix) == HistogramSample(m, scope, dp, suffix)
                     IN  HistogramPoint(dp, sample, BucketSamples(m, scope, dp))
    IN  JoinAll(<<EachPoint(m, point),
                  HistogramParents(m, resource, scope, <<".count", ".sum", ".min", ".max">>),
                  AddParents(<<m.name, ".bucket">>, m, m.type, m.temporality, resource, scope)>>)

\* addDDSketchSample: the buckets become one sketch.
DDSketch(m, scope, dp) ==
    AddPoint("expHist", <<m.name, "">>, m, m.type, m.temporality,
             PointFingerprint(scope, dp.attrs, Temporality(m.temporality)), dp,
             [count |-> dp.count, sum |-> dp.sum, positive |-> dp.buckets])

\* Only when it is enabled, and only delta temporality.
ProcessExponentialHistogram(h, resource, scope, enabled) ==
    IF ~enabled \/ h.temporality # "delta" THEN EmptyBatch
    ELSE LET m == [h EXCEPT !.monotonic = TRUE]
             point(dp) == LET sample(suffix) == ExpHistogramSample(m, scope, dp, suffix)
                          IN  HistogramPoint(dp, sample, DDSketch(m, scope, dp))
         IN  Join(EachPoint(m, point),
                  HistogramParents(m, resource, scope, <<".count", ".sum", ".min", ".max">>))

-----------------------------------------------------------------------------
(* Summaries *)

SummarySample(m, scope, dp, suffix) ==
    AddPoint("samples", <<m.name, suffix>>, m, "sum", m.temporality,
             PointFingerprint(scope, dp.attrs, Temporality(m.temporality)), dp,
             SuffixValue(dp, suffix))

QuantileSamples(m, scope, dp) ==
    JoinAll([i \in DOMAIN dp.quantiles |->
        AddPoint("samples", <<m.name, ".quantile">>, m, m.type, m.temporality,
                 PointFingerprint(scope, dp.attrs, ("quantile" :> ToString(dp.quantiles[i][1]))
                                                   @@ Temporality(m.temporality)),
                 dp, dp.quantiles[i][2])])

\* Summaries are cumulative; one quantile that is not a number drops the point.
ProcessSummary(s, resource, scope) ==
    LET m == [s EXCEPT !.temporality = "cumulative", !.monotonic = TRUE]
        bad(dp) == dp.sum = NaN \/ \E i \in DOMAIN dp.quantiles : dp.quantiles[i][2] = NaN
        point(dp) == IF bad(dp) THEN EmptyBatch
                     ELSE JoinAll(<<SummarySample(m, scope, dp, ".count"),
                                    SummarySample(m, scope, dp, ".sum"),
                                    QuantileSamples(m, scope, dp)>>)
    IN  JoinAll(<<EachPoint(m, point),
                  AddParents(<<m.name, ".count">>, m, "sum", m.temporality, resource, scope),
                  AddParents(<<m.name, ".sum">>, m, "sum", m.temporality, resource, scope),
                  AddParents(<<m.name, ".quantile">>, m, m.type, m.temporality, resource, scope)>>)

-----------------------------------------------------------------------------
\* prepareBatch for the metrics of one scope of one resource; the names of the
\* scope (name, version, schema) go into its fingerprint.
PrepareBatch(metrics, resourceAttrs, scopeInfo, enableExpHist) ==
    LET resource == NewFingerprint("resource", <<>>, resourceAttrs, <<>>)
        scope    == NewFingerprint("scope", Hash(resource), scopeInfo.attrs, scopeInfo.names)
        rows(m)  == CASE m.type = "gauge" -> ProcessGauge(m, resource, scope)
                      [] m.type = "sum" -> ProcessSum(m, resource, scope)
                      [] m.type = "histogram" -> ProcessHistogram(m, resource, scope)
                      [] m.type = "summary" -> ProcessSummary(m, resource, scope)
                      [] m.type = "exphistogram" ->
                             ProcessExponentialHistogram(m, resource, scope, enableExpHist)
                      [] OTHER -> EmptyBatch
    IN  JoinAll([i \in DOMAIN metrics |-> rows(metrics[i])])

=============================================================================

----------------------------- MODULE Transaction -----------------------------
(***************************************************************************)
(* The transaction of the prometheus receiver: what a scrape appends       *)
(* (samples, native histograms, stale markers) is grouped into metric      *)
(* families and comes out as OTLP metrics.                                 *)
(*                                                                         *)
(* A transaction belongs to one goroutine, so that a scrape (its appends   *)
(* and its commit) is one step.  A name is [base, suffix]; labels are a    *)
(* function without the name; a hash is what is hashed.  Conversions of    *)
(* seconds and milliseconds, help texts and units are left out.            *)
(***************************************************************************)
EXTENDS Integers, FiniteSets, SequencesExt, FiniteSetsExt

CONSTANTS
  Series,      \* what a target may expose: [name, labels, value, hist, st, exemplar]
  Metadata,    \* the target's metadata: [name -> type]
  Target,      \* the labels of the target: job and instance
  External,    \* the external labels
  Stale,       \* the NaN of stale markers
  Garbage,     \* what the conversion of a NaN to an unsigned integer gives
  ParseFloat,  \* [the boundaries of buckets and quantiles, as strings -> numbers]
  Inf,         \* the number of "+Inf", above all others
  Pages,       \* the sets of series that it may expose at once
  None, MaxTransactions

VARIABLES
  live,        \* the series of the last scrape that the scrape loop tracks
  body,        \* the last scrape's series, in their order
  gone,        \* the series the last scrape marked stale
  out,         \* the metrics the last commit has sent
  txLeft

txVars == <<live, body, gone, out, txLeft>>

ScopeIdLabels == {"otel_scope_name", "otel_scope_version", "otel_scope_schema_url"}
ScopeLabels == ScopeIdLabels \cup {"otel_scope_x"}
InfoMetrics == {[base |-> "target", suffix |-> "_info"], [base |-> "otel_scope", suffix |-> "_info"]}
Trimmable == {"_bucket", "_count", "_sum", "_total", "_info", "_created"}
Internal == {[base |-> "up", suffix |-> ""], [base |-> "scrape_duration_seconds", suffix |-> ""]}

Without(f, ks) == [x \in DOMAIN f \ ks |-> f[x]]
Only(f, ks) == [x \in DOMAIN f \cap ks |-> f[x]]
Over(f, g) == [x \in DOMAIN f \cup DOMAIN g |-> IF x \in DOMAIN f THEN f[x] ELSE g[x]]
With(f, k, v) == [x \in DOMAIN f \cup {k} |-> IF x = k THEN v ELSE f[x]]
Else(f, k, d) == IF k \in DOMAIN f THEN f[k] ELSE d

----------------------------------------------------------------------------
(* Names and metadata                                                      *)

NormalizeMetricName(n) == IF n.suffix \in Trimmable THEN [n EXCEPT !.suffix = ""] ELSE n

\* The metadata of a metric, by its name or by the name without the suffix, and the family's name.
MetadataForMetric(n) ==
  LET short == NormalizeMetricName(n)
      found(of, name) == [family |-> of, type |-> Metadata[of], name |-> name]
  IN CASE n \in Internal -> [family |-> n, type |-> "gauge", name |-> n]
       [] n \in DOMAIN Metadata -> found(n, n)
       [] n \notin DOMAIN Metadata /\ short \in DOMAIN Metadata ->
            CASE Metadata[short] = "counter" /\ n.suffix = "_created" -> found(short, [short EXCEPT !.suffix = "_total"])
              [] Metadata[short] = "counter" /\ n.suffix # "_created" -> found(short, n)
              [] OTHER -> found(short, short)
       [] OTHER -> [family |-> n, type |-> "unknown", name |-> n]

IsCounterCreatedLine(n) ==
  /\ n.suffix = "_created"
  /\ Else(Metadata, NormalizeMetricName(n), "none") = "counter"

ConvToMetricType(type, exponential) ==
  CASE type = "counter" -> "sum"
    [] type \in {"gauge", "unknown"} -> "gauge"
    [] type = "histogram" -> IF exponential THEN "exponential" ELSE "histogram"
    [] type = "summary" -> "summary"
    [] type = "info" -> "sum"
    [] OTHER -> "empty"

FamilyFrom(md, native, nhcb) ==
  [name |-> md.name, family |-> md.family, groups |-> <<>>,
   type |-> ConvToMetricType(IF native THEN "histogram" ELSE md.type, native /\ ~nhcb)]

NewMetricFamily(n, native, nhcb) == FamilyFrom(MetadataForMetric(n), native, nhcb)

IncludesMetric(mf, n) ==
  CASE mf.type = "sum" -> NormalizeMetricName(n) = mf.family
    [] mf.type = "gauge" -> n = mf.name
    [] OTHER -> NormalizeMetricName(n) = mf.name

----------------------------------------------------------------------------
(* Groups: the series that make one data point.                            *)

NotUsefulLabels(type) ==
  {"job", "instance", "__scheme__"} \cup (IF type = "histogram" THEN {"le"} ELSE {})
                                    \cup (IF type = "summary" THEN {"quantile"} ELSE {})

GetSeriesRef(labels, type) == Without(labels, NotUsefulLabels(type) \cup ScopeLabels)

LoadMetricGroupOrCreate(mf, ref, labels) ==
  IF ref \in DOMAIN mf.groups THEN mf
  ELSE [mf EXCEPT !.groups = With(@, ref,
          [type |-> mf.type, labels |-> labels, count |-> None, sum |-> None, created |-> 0,
           value |-> None, hist |-> None, complex |-> {}, nhcb |-> FALSE, exemplars |-> 0])]

\* The label that makes a bucket or a quantile; without it the sample is refused.
GetBoundary(type, labels) ==
  CASE type = "histogram" -> Else(ParseFloat, Else(labels, "le", ""), None)
    [] type = "summary" -> Else(ParseFloat, Else(labels, "quantile", ""), None)
    [] OTHER -> None

\* The group after a float sample, or the group itself when the sample is refused.
AddSeries(mf, g, n, labels, v) ==
  LET created == n = [mf.family EXCEPT !.suffix = "_created"]
      b == GetBoundary(mf.type, labels)
  IN CASE mf.type \in {"histogram", "summary"} ->
            CASE n.suffix = "_sum" -> [g EXCEPT !.sum = v]
              [] n.suffix = "_count" -> [g EXCEPT !.count = v]
              [] n.suffix \notin {"_sum", "_count"} /\ created -> [g EXCEPT !.created = v]
              [] OTHER -> IF b = None THEN g ELSE [g EXCEPT !.complex = @ \cup {<<b, v>>}]
       [] mf.type = "exponential" -> IF created THEN [g EXCEPT !.created = v] ELSE g
       [] mf.type = "sum" /\ created -> [g EXCEPT !.created = v]
       [] OTHER -> [g EXCEPT !.value = v]

IsNHCB(s) == s.hist # None /\ "custom" \in DOMAIN s.hist

\* A native histogram, exponential or with custom buckets; the type of the family decides.
AddExponentialHistogramSeries(g, h) ==
  IF g.type # "exponential" THEN g ELSE [g EXCEPT !.count = h.count, !.sum = h.sum, !.hist = h]

AddNHCBSeries(g, h) ==
  IF g.type # "histogram" THEN g
  ELSE [g EXCEPT !.nhcb = TRUE, !.count = h.count, !.sum = h.sum, !.hist = h]

----------------------------------------------------------------------------
(* Groups become data points.                                              *)

Unsigned(x) == IF x = Stale THEN Garbage ELSE x
Minus(x, y) == IF x = Stale \/ y = Stale THEN Stale ELSE x - y
IsStale(g) == g.sum = Stale \/ g.count = Stale

\* Mutant of PopulateAttributes: the boundary of a bucket is left in.
PopulateAttributesAll(type, labels) ==
  LET ls == Without(labels, NotUsefulLabels("gauge") \cup ScopeLabels)
  IN Only(ls, {l \in DOMAIN ls : ls[l] # ""})

PopulateAttributes(type, labels) ==
  LET ls == Without(labels, NotUsefulLabels(type) \cup ScopeLabels)
  IN Only(ls, {l \in DOMAIN ls : ls[l] # ""})

SortPoints(g) == SetToSortSeq(g.complex, LAMBDA p, q : p[1] < q[1])

\* Deltas of native buckets, span after span; a later span skips its offset with zeros.
ConvertDeltaBuckets(spans, deltas) ==
  LET span(acc, s) ==
        FoldLeft(LAMBDA a, i : [a EXCEPT !.n = @ + deltas[a.i], !.i = @ + 1,
                                         !.counts = Append(@, a.n + deltas[a.i])],
                 [acc EXCEPT !.counts = IF acc.first THEN @ ELSE @ \o [j \in 1..s[1] |-> 0],
                             !.first = FALSE],
                 [j \in 1..s[2] |-> j])
  IN FoldLeft(span, [counts |-> <<>>, n |-> 0, i |-> 1, first |-> TRUE], spans).counts

\* The same for custom buckets, into a slice with one place per bound and one more.
ConvertNHCBDeltaBuckets(h) ==
  LET step(a) == [a EXCEPT !.n = @ + h.deltas[a.i], !.i = @ + 1, !.at = @ + 1,
                           !.counts[a.at] = a.n + h.deltas[a.i]]
      span(acc, s) == FoldLeft(LAMBDA a, j : IF a.at > Len(a.counts) \/ a.i > Len(h.deltas) THEN a ELSE step(a),
                               [acc EXCEPT !.at = @ + s[1]], [j \in 1..s[2] |-> j])
  IN FoldLeft(span, [counts |-> [i \in 1..(Len(h.custom) + 1) |-> 0], n |-> 0, i |-> 1, at |-> 1],
              h.spans).counts

\* Mutant of ClassicBuckets: the last bucket has the total.
ClassicBucketsTotal(g) ==
  LET points == SortPoints(g)
      bounds == SelectSeq(points, LAMBDA p : p[1] # Inf)
      upTo(i) == IF i = 0 THEN 0 ELSE bounds[i][2]
      last == Len(bounds) + 1
  IN [bounds |-> [i \in 1..Len(bounds) |-> bounds[i][1]],
      counts |-> [i \in 1..last |->
          IF IsStale(g) THEN 0
          ELSE IF i = last THEN g.count ELSE Unsigned(Minus(upTo(i), upTo(i - 1)))]]

\* Cumulative buckets become counts; the last is what the total leaves, and a final +Inf is not
\* a bound of its own.
ClassicBuckets(g) ==
  LET points == SortPoints(g)
      bounds == SelectSeq(points, LAMBDA p : p[1] # Inf)
      upTo(i) == IF i = 0 THEN 0 ELSE bounds[i][2]
      last == Len(bounds) + 1
  IN [bounds |-> [i \in 1..Len(bounds) |-> bounds[i][1]],
      counts |-> [i \in 1..last |->
          IF IsStale(g) THEN 0
          ELSE Unsigned(Minus(IF i = last THEN g.count ELSE upTo(i), upTo(i - 1)))]]

Point(g, type, more) ==
  Over(more, [attrs |-> PopulateAttributes(type, g.labels), start |-> g.created, exemplars |-> g.exemplars])

CountAndSum(g) == IF IsStale(g) THEN [stale |-> TRUE] ELSE [stale |-> FALSE, count |-> g.count, sum |-> g.sum]

ToDistributionPoint(g) ==
  LET buckets == IF g.nhcb THEN [bounds |-> g.hist.custom, counts |-> ConvertNHCBDeltaBuckets(g.hist)]
                 ELSE ClassicBuckets(g)
  IN IF g.count = None \/ (g.nhcb /\ g.hist.custom = <<>>) THEN {}
     ELSE {Point(g, "histogram", Over(CountAndSum(g), buckets))}

ToExponentialHistogramDataPoints(g) ==
  IF g.count = None THEN {}
  ELSE {Point(g, "histogram",
          IF g.hist.sum = Stale THEN [stale |-> TRUE]
          ELSE Over(CountAndSum(g), [scale |-> g.hist.schema,
                                     offset |-> IF g.hist.spans = <<>> THEN 0 ELSE g.hist.spans[1][1] - 1,
                                     counts |-> ConvertDeltaBuckets(g.hist.spans, g.hist.deltas)]))}

ToSummaryPoint(g) ==
  LET value(p) == IF IsStale(g) THEN 0 ELSE p[2]
  IN IF g.count = None THEN {}
     ELSE {Point(g, "summary", Over(CountAndSum(g), [quantiles |-> {<<p[1], value(p)>> : p \in g.complex}]))}

ToNumberDataPoint(g) ==
  IF g.value = None THEN {}
  ELSE {Point([g EXCEPT !.created = IF g.type = "sum" THEN @ ELSE 0], "gauge",
              [stale |-> g.value = Stale, value |-> IF g.value = Stale THEN 0 ELSE g.value])}

\* appendMetric: a family without a point is not sent.
AppendMetric(mf) ==
  LET points(g) == CASE mf.type = "histogram" -> ToDistributionPoint(g)
                     [] mf.type = "summary" -> ToSummaryPoint(g)
                     [] mf.type = "exponential" -> ToExponentialHistogramDataPoints(g)
                     [] OTHER -> ToNumberDataPoint(g)
      all == UNION {points(mf.groups[ref]) : ref \in DOMAIN mf.groups}
  IN IF all = {} THEN {}
     ELSE {[name |-> mf.name, type |-> IF mf.type = "empty" THEN "gauge" ELSE mf.type, points |-> all]}

----------------------------------------------------------------------------
(* The transaction                                                         *)

NewTransaction == [families |-> <<>>, resources |-> <<>>, scopes |-> <<>>, tracked |-> {}]

GetJobAndInstance(labels) ==
  [l \in {"job", "instance"} |-> IF Else(labels, l, "") # "" THEN labels[l] ELSE Target[l]]

\* The resource of the sample's job and instance is made when it is first seen.
InitTransaction(tx, key) ==
  IF key \in DOMAIN tx.resources THEN tx ELSE [tx EXCEPT !.resources = With(@, key, key)]

\* The attributes of a scope count by their hash, which is zero without any.
GetScopeID(labels) == Only(labels, ScopeLabels)

AddScopeAttributesFromLabels(tx, key, scope) ==
  IF "otel_scope_x" \notin DOMAIN scope \/ <<key, scope>> \in DOMAIN tx.scopes THEN tx
  ELSE [tx EXCEPT !.scopes = With(@, <<key, scope>>, Only(scope, {"otel_scope_x"}))]

\* The name a family may be known by when it is not the metric's own.
FamilyName(n, short) ==
  CASE n \in DOMAIN Metadata -> n
    [] IsCounterCreatedLine(n) -> [short EXCEPT !.suffix = "_total"]
    [] OTHER -> short

\* The place of a metric's family: by its own name, else by the name without the suffix if the
\* family there includes it, else the place of a new one.
FamilyAt(families, n, own, short, new) ==
  IF own \in DOMAIN families THEN own
  ELSE IF short \in DOMAIN families /\ IncludesMetric(families[short], n) THEN short ELSE new

Place(key, s, name) == <<key, GetScopeID(s.labels), s.hist # None, name>>

FamilyOf(tx, key, s) ==
  FamilyAt(tx.families, s.name, Place(key, s, s.name),
           Place(key, s, FamilyName(s.name, NormalizeMetricName(s.name))),
           Place(key, s, MetadataForMetric(s.name).name))

\* A family that a metric is not included in gives way to the new one.
GetOrCreateMetricFamily(tx, place, s) ==
  IF place \in DOMAIN tx.families /\ (place[4] = s.name \/ IncludesMetric(tx.families[place], s.name)) THEN tx
  ELSE [tx EXCEPT !.families = With(@, place, NewMetricFamily(s.name, s.hist # None, IsNHCB(s)))]

\* The group after the series, a float or a native histogram.
AddToGroup(mf, ref, s) ==
  LET timed == [mf.groups[ref] EXCEPT !.created = IF s.st # 0 THEN s.st ELSE @]
  IN [mf EXCEPT !.groups[ref] = CASE s.hist = None -> AddSeries(mf, timed, s.name, s.labels, s.value)
                                  [] IsNHCB(s) -> AddNHCBSeries(timed, s.hist)
                                  [] OTHER -> AddExponentialHistogramSeries(timed, s.hist)]

AddToFamily(mf, ref, s) == AddToGroup(LoadMetricGroupOrCreate(mf, ref, s.labels), ref, s)

AddDatapoint(tx, place, s) ==
  [GetOrCreateMetricFamily(tx, place, s) EXCEPT
     !.families[place] = AddToFamily(@, GetSeriesRef(s.labels, @.type), s)]

\* target_info and otel_scope_info become attributes.
AddTargetInfo(tx, key, labels) ==
  [tx EXCEPT !.resources[key] = Over(Without(labels, {"job", "instance"}), @)]

\* It describes the scope of the samples without attributes of their own.
AddScopeInfo(tx, key, labels) ==
  [tx EXCEPT !.scopes = With(@, <<key, Only(labels, ScopeIdLabels)>>,
                             Without(labels, ScopeIdLabels \cup {"job", "instance"}))]

\* Mutant of NativeHistogramStaleness: a marker is always a float sample.
NativeHistogramStalenessNever(s) == FALSE

\* A stale marker is a float: for a histogram with metadata under its own name it is stored as an
\* exponential histogram.
NativeHistogramStaleness(s) == s.value = Stale /\ Else(Metadata, s.name, "none") = "histogram"

StaleHistogram == [count |-> 0, sum |-> Stale, schema |-> 0, spans |-> <<>>, deltas |-> <<>>]

Stored(s) == IF s.hist = None /\ NativeHistogramStaleness(s) THEN [s EXCEPT !.hist = StaleHistogram] ELSE s

AddSampleDatapoint(tx, key, s) ==
  CASE s.name = [base |-> "target", suffix |-> "_info"] -> AddTargetInfo(tx, key, s.labels)
    [] s.name = [base |-> "otel_scope", suffix |-> "_info"] -> AddScopeInfo(tx, key, s.labels)
    [] OTHER -> AddDatapoint(AddScopeAttributesFromLabels(tx, key, GetScopeID(s.labels)),
                             FamilyOf(tx, key, s), s)

AddExemplar(mf, ref) ==
  IF ref \notin DOMAIN mf.groups THEN mf ELSE [mf EXCEPT !.groups[ref].exemplars = @ + 1]

AddExemplarAt(tx, place, s) ==
  [GetOrCreateMetricFamily(tx, place, s) EXCEPT
     !.families[place] = AddExemplar(@, GetSeriesRef(s.labels, @.type))]

\* An exemplar goes to the group of the sample's own labels, if there is one.
AppendExemplar(tx, key, s) ==
  AddExemplarAt(AddScopeAttributesFromLabels(tx, key, GetScopeID(s.labels)), FamilyOf(tx, key, s), s)

\* The external labels win.
AppendValue(tx, key, s) == AddSampleDatapoint(InitTransaction(tx, key), key, Stored([s EXCEPT !.labels = Over(External, @)]))

Exemplars(tx, key, s) == IF s.exemplar THEN AppendExemplar(InitTransaction(tx, key), key, s) ELSE tx

\* The family does not take the sample: a bucket or quantile without its boundary, a histogram of
\* another kind.
Refuses(mf, s) ==
  CASE s.hist = None -> /\ mf.type \in {"histogram", "summary"} /\ s.name.suffix \notin {"_sum", "_count"}
                        /\ s.name # [mf.family EXCEPT !.suffix = "_created"]
                        /\ GetBoundary(mf.type, s.labels) = None
    [] IsNHCB(s) -> mf.type # "histogram"
    [] OTHER -> mf.type # "exponential"

FamilyFor(tx, key, s) == GetOrCreateMetricFamily(tx, FamilyOf(tx, key, s), s).families[FamilyOf(tx, key, s)]

\* Append returns a reference, not zero, by which the loop can track the series.
ReturnsRef(tx, key, s) ==
  s.name \notin InfoMetrics /\ (s.hist = None => ~NativeHistogramStaleness(s)) /\ ~Refuses(FamilyFor(tx, key, s), s)

Tracked(tx, key, s) ==
  IF ReturnsRef(tx, key, [s EXCEPT !.labels = Over(External, @)]) THEN tx.tracked \cup {s} ELSE tx.tracked

\* Append: the sample, then its exemplars.
AppendSeries(tx, s) ==
  LET key == GetJobAndInstance(Over(External, s.labels))
  IN [Exemplars(AppendValue(tx, key, s), GetJobAndInstance(s.labels), s) EXCEPT !.tracked = Tracked(tx, key, s)]

\* getMetrics: a resource or a scope without metrics is not sent; the scope of samples without labels
\* of a scope is the receiver's, without attributes.
GetMetrics(tx) ==
  UNION {{[resource |-> tx.resources[p[1]], scope |-> p[2],
           scopeAttrs |-> IF p[2] = <<>> THEN <<>> ELSE Else(tx.scopes, <<p[1], p[2]>>, <<>>), metric |-> m] :
              m \in AppendMetric(tx.families[p])} : p \in DOMAIN tx.families}

----------------------------------------------------------------------------
(* A scrape: its samples, then a stale marker for each series that the     *)
(* last scrape had and this one has not.                                   *)

Marker(s) == [s EXCEPT !.value = Stale, !.hist = None, !.st = 0, !.exemplar = FALSE]

Appended(tx, samples) == FoldLeft(AppendSeries, tx, samples)
Marked(tx, markers) == Appended(tx, [i \in DOMAIN markers |-> Marker(markers[i])])

\* The loop tracks a series that it knew or has got a reference for; markers come in any order.
TxScrape(samples) ==
  LET markers == SetToSeq(live \ ToSet(samples))
      tx == Appended(NewTransaction, samples)
  IN /\ out' = GetMetrics(Marked(tx, markers))
     /\ live' = ToSet(samples) \cap (live \cup tx.tracked)
     /\ body' = samples
     /\ gone' = ToSet(markers)

TxInit == live = {} /\ body = <<>> /\ gone = {} /\ out = {} /\ txLeft = MaxTransactions

TxNext == /\ txLeft > 0 /\ txLeft' = txLeft - 1
          /\ \E exposed \in Pages : TxScrape(SetToSeq(exposed))

----------------------------------------------------------------------------
(* Properties.                                                             *)

\* What is sent does not depend on the order of the series in the body, although the first series
\* of a family makes it, and the first of a group makes the data point.
OrderIndependent ==
  \A order \in SetToSeqs(ToSet(body)) :
    GetMetrics(Marked(Appended(NewTransaction, order), Reverse(SetToSeq(gone)))) = out

Same(m, k) == /\ m.scope = k.scope /\ m.metric.name = k.metric.name /\ m.metric.type = k.metric.type
              /\ \A l \in {"job", "instance"} : m.resource[l] = k.resource[l]

\* Of a step: a data point none of whose series is exposed any more is marked, in the new metrics
\* its metric has a point with its attributes and no recorded value.  (Histograms with custom
\* buckets are left out: their markers go out as exponential histograms.)
MarksGonePoints ==
  \A m \in out : \A p \in m.metric.points :
    ~p.stale /\ (\A i \in DOMAIN body' : NormalizeMetricName(body'[i].name).base # m.metric.name.base)
             /\ (\A s \in live : s.hist # None => "custom" \notin DOMAIN s.hist) =>
      \E k \in out' : Same(m, k) /\ \E q \in k.metric.points : q.attrs = p.attrs /\ q.stale

SumOf(counts) == FoldLeft(LAMBDA a, b : a + b, 0, counts)

AddsUp(p) ==
  \/ p.stale
  \/ Garbage \notin ToSet(p.counts) /\ SumOf(p.counts) = p.count /\ \A i \in DOMAIN p.counts : p.counts[i] >= 0

\* The bucket counts of a histogram's point add up to its count, whatever buckets are exposed, in
\* whatever order and as whatever kind of histogram, as long as no bucket alone has gone.
BucketsAddUp ==
  (\A s \in gone : s.name.suffix # "_bucket") =>
    \A m \in out : m.metric.type \in {"histogram", "exponential"} => \A p \in m.metric.points : AddsUp(p)
=============================================================================

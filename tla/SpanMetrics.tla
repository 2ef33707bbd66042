---------------------------- MODULE SpanMetrics ----------------------------
(***************************************************************************)
(* signozspanmetricsprocessor: calls and latencies of the spans that pass, *)
(* aggregated under a key per metric, exported at every tick.              *)
(*                                                                         *)
(* One lock covers the aggregation of a batch and the building of an       *)
(* export, so each is one step; the export itself runs after the unlock.   *)
(* Histograms are counts (their sums and buckets move with the count,      *)
(* exemplars are left out), and the attributes of a span are functions     *)
(* from names to values.                                                   *)
(***************************************************************************)
EXTENDS Integers, FiniteSets, SequencesExt

CONSTANTS Spans,           \* spans that may pass: records with svc, op, kind, attrs, resource,
                           \* bucket, old
          Dimensions,      \* the dimensions of the configuration, a sequence of names
          Excluded,        \* services of the exclude patterns
          Configs,         \* records of delta, the temporality, and exp, exponential histograms
          CacheSize, MaxServices, MaxOperations,
          MaxSpans, MaxBuilds

ASSUME SpanMetricsAssumption == MaxServices \in Nat /\ MaxOperations \in Nat

VARIABLES
  config,      \* one of Configs
  acc,         \* services: serviceToOperations; cache and hist: per metric
  exporting,   \* the built metrics that are on their way to the consumers
  life,        \* "started", "stopping" (done is closed), "ended" (Shutdown has returned)
  left         \* how many spans and builds are left in the run

smVars == <<config, acc, exporting, life, left>>

Metrics == {"latency", "exp", "call", "external", "db"}
Overflow == "overflow"
Code == "http.status_code"
StableCode == "http.response.status_code"

Empty == <<>>
With(f, k, v) == [x \in DOMAIN f \cup {k} |-> IF x = k THEN v ELSE f[x]]
Less(f, ks) == [x \in DOMAIN f \ ks |-> f[x]]

\* The dimensions of each metric.
DimensionsOf(m) ==
  CASE m \in {"latency", "exp"} -> Dimensions
    [] m \in {"call", "external"} -> <<Code>> \o Dimensions
    [] m = "db" -> <<"db.system", "db.name">> \o Dimensions

----------------------------------------------------------------------------
(* The cache of dimensions: an LRU list, oldest first, and what it has     *)
(* evicted since the last build.                                           *)

NewCache == [lru |-> <<>>, evicted |-> {}, dims |-> Empty]

MoveToBack(lru, k) ==
  IF ~Contains(lru, k) THEN Append(lru, k)
  ELSE LET at == CHOOSE i \in DOMAIN lru : lru[i] = k
       IN [i \in DOMAIN lru |-> IF i < at THEN lru[i] ELSE IF i < Len(lru) THEN lru[i + 1] ELSE k]

AddItem(c, k, dims) ==
  LET lru  == MoveToBack(c.lru, k)
      over == Len(lru) > CacheSize
  IN [lru |-> IF over THEN Tail(lru) ELSE lru,
      evicted |-> IF over THEN c.evicted \cup {Head(lru)} ELSE c.evicted,
      dims |-> With(c.dims, k, dims)]

HasItem(c, k) == Contains(c.lru, k) \/ k \in c.evicted

\* Get moves the key to the front; an evicted item is revived, which may evict another one.
GetItem(c, k) ==
  IF Contains(c.lru, k) THEN [c EXCEPT !.lru = MoveToBack(@, k)]
  ELSE IF k \in c.evicted THEN AddItem([c EXCEPT !.evicted = @ \ {k}], k, c.dims[k])
  ELSE c

RemoveEvictedItems(c) == [c EXCEPT !.evicted = {}, !.dims = Less(@, c.evicted)]

----------------------------------------------------------------------------
(* Keys and dimensions.                                                    *)

\* The value of a dimension, as a sequence that is empty when there is none: of the span (with
\* the new name of the status code), else of the resource.
GetDimensionValue(d, span) ==
  IF d \in DOMAIN span.attrs THEN <<span.attrs[d]>>
  ELSE IF d = Code /\ StableCode \in DOMAIN span.attrs THEN <<span.attrs[StableCode]>>
  ELSE IF d \in DOMAIN span.resource THEN <<span.resource[d]>>
  ELSE <<>>

\* The custom metrics repeat the value under the resource prefix when the resource has the name.
FoundInResource(d, span) ==
  /\ d \in DOMAIN span.resource
  /\ d \in DOMAIN span.attrs \/ ~(d = Code /\ StableCode \in DOMAIN span.attrs)

GetDimensionValueWithResource(d, span) ==
  LET v == GetDimensionValue(d, span) IN IF FoundInResource(d, span) THEN v \o v ELSE v

\* The names a span is counted under, while the limits leave room.
ServiceName(services, span) ==
  IF Cardinality(DOMAIN services) > MaxServices THEN Overflow ELSE span.svc

SpanName(services, span) ==
  LET svc == ServiceName(services, span)
  IN IF svc \in DOMAIN services /\ Cardinality(services[svc]) > MaxOperations
     THEN Overflow ELSE span.op

\* The time bucket of the span's start is part of the key for delta temporality only.
AddTimeToKeyBuf(span) == IF config.delta THEN <<span.bucket>> ELSE <<>>

BuildKey(services, span, ds) ==
  <<ServiceName(services, span), SpanName(services, span), span.kind>>
     \o FoldLeft(LAMBDA vs, d : vs \o GetDimensionValue(d, span), <<>>, ds)

\* buildKey counts the names it has used.
Tracked(services, span) ==
  LET svc == ServiceName(services, span)
      ops == IF svc \in DOMAIN services THEN services[svc] ELSE {}
  IN With(services, svc, ops \cup {SpanName(services, span)})

\* The dimensions of a new key; the names are taken after the key was counted.
BuildDimensionKVs(services, span, ds) ==
  [names |-> <<ServiceName(services, span), SpanName(services, span), span.kind>>,
   values |-> [i \in 1..Len(ds) |-> GetDimensionValueWithResource(ds[i], span)]]

BuildCustomKey(span, ds, extra) ==
  <<span.svc>> \o extra \o FoldLeft(LAMBDA vs, d : vs \o GetDimensionValueWithResource(d, span), <<>>, ds)

BuildCustomDimensionKVs(span, ds, extra) ==
  [names |-> <<span.svc>> \o extra,
   values |-> [i \in 1..Len(ds) |-> GetDimensionValueWithResource(ds[i], span)]]

----------------------------------------------------------------------------
(* Aggregation.                                                            *)

\* cache and update of one metric: a miss caches the dimensions, the histogram counts the span.
Count(a, m, key, dims) ==
  LET c == a.cache[m]
      h == a.hist[m]
  IN [a EXCEPT !.cache[m] = IF HasItem(c, key) THEN GetItem(c, key) ELSE AddItem(c, key, dims),
               !.hist[m] = With(h, key, IF key \in DOMAIN h THEN h[key] + 1 ELSE 1)]

\* latency, its exponential histogram and calls: buildMetricKey, then the cache, then the update.
CountSpan(a, m, span) ==
  LET ds  == DimensionsOf(m)
      key == AddTimeToKeyBuf(span) \o BuildKey(a.services, span, ds)
      b   == [a EXCEPT !.services = Tracked(@, span)]
  IN Count(b, m, key, BuildDimensionKVs(b.services, span, ds))

CountCustom(a, m, span, extra) ==
  LET ds == DimensionsOf(m)
  IN Count(a, m, AddTimeToKeyBuf(span) \o BuildCustomKey(span, ds, extra),
           BuildCustomDimensionKVs(span, ds, extra))

\* The first peer address a span has: a pair of an address and a port, which may be missing.
PeerNames == <<<<"net.peer.name", "net.peer.port">>, <<"server.address", "server.port">>,
               <<"net.peer.ip", "net.peer.port">>, <<"net.sock.peer.addr", "net.sock.peer.port">>,
               <<"network.peer.address", "network.peer.port">>>>

Values(attrs, names) == FoldLeft(LAMBDA vs, n : IF n \in DOMAIN attrs THEN Append(vs, attrs[n]) ELSE vs, <<>>, names)

GetPeerAddress(attrs) ==
  LET found == SelectSeq(PeerNames, LAMBDA p : p[1] \in DOMAIN attrs)
  IN IF found = <<>> THEN <<>> ELSE Values(attrs, Head(found))

\* The remote address of a span, empty when it has none: service and method of an RPC, the HTTP
\* host, the peer, the host of the URL (none if it cannot be parsed), or the peer service.
GetRemoteAddress(attrs) ==
  LET has(n)    == n \in DOMAIN attrs
      rpc       == Values(attrs, <<"rpc.service", "rpc.method">>)
      peer      == GetPeerAddress(attrs)
      transport == IF has("net.transport") THEN attrs["net.transport"] ELSE ""
      url       == Values(attrs, <<"http.url", "url.full">>)
  IN CASE has("rpc.system") -> IF rpc # <<>> THEN rpc ELSE peer
       [] ~has("rpc.system") /\ has("http.host") -> <<attrs["http.host"]>>
       [] ~has("rpc.system") /\ ~has("http.host") /\ peer # <<>> ->
            IF transport = "unix" /\ transport = "pipe" THEN <<>> ELSE peer
       [] OTHER -> IF url # <<>> THEN IF Head(url) = "unparsable" THEN <<>> ELSE <<Head(url)>>
                   ELSE Values(attrs, <<"peer.service">>)

ShouldSkip(span) == span.svc \in Excluded

AggregateMetricsForSpan(a, span) ==
  LET remote  == GetRemoteAddress(span.attrs)
      latency == CountSpan(a, "latency", span)
      exp     == IF config.exp THEN CountSpan(latency, "exp", span) ELSE latency
      call    == CountSpan(exp, "call", span)
      ext     == IF span.kind = "client" /\ remote # <<>>
                 THEN CountCustom(call, "external", span, remote) ELSE call
  IN IF span.old \/ ShouldSkip(span) THEN a
     ELSE IF span.kind # "server" /\ "db.system" \in DOMAIN span.attrs
     THEN CountCustom(ext, "db", span, <<>>)
     ELSE ext

\* aggregateMetrics: the spans of a resource without a service name are passed over.
AggregateMetrics(a, span) == IF span.svc = "" THEN a ELSE AggregateMetricsForSpan(a, span)

\* ConsumeTraces under the lock; the batch is then forwarded whatever was counted.
ConsumeTraces(span) ==
  /\ left.spans > 0
  /\ acc' = AggregateMetrics(acc, span)
  /\ left' = [left EXCEPT !.spans = @ - 1]
  /\ UNCHANGED <<config, exporting, life>>

----------------------------------------------------------------------------
(* The export.                                                             *)

\* collect* of one metric, in the order the map is ranged over: every data point takes its
\* dimensions from the cache, and one that has none ends the build.
CollectPoint(m, st, k) ==
  IF st.err \/ ~HasItem(st.cache, k) THEN [st EXCEPT !.err = TRUE]
  ELSE [st EXCEPT !.points = @ \cup {[key |-> k, dims |-> st.cache.dims[k], count |-> acc.hist[m][k]]},
                  !.cache = GetItem(@, k)]

Collect(m, order) ==
  LET st[n \in 0..Len(order)] ==
        IF n = 0 THEN [cache |-> acc.cache[m], points |-> {}, err |-> FALSE]
        ELSE CollectPoint(m, st[n - 1], order[n])
  IN st[Len(order)]

CollectOrder == <<"call", "latency", "external", "db", "exp">>

\* The metrics whose collection an earlier error has not prevented.
Reached(out, m) == \A i, j \in 1..5 : i < j /\ CollectOrder[j] = m => ~out[CollectOrder[i]].err

\* Mutant of AfterBuild: the evicted items are kept until the next build, their histograms are not asked.
AfterBuildKeeping(cache, hist) == [cache |-> RemoveEvictedItems(cache), hist |-> hist]

\* After a build the evicted items go, and with them the histograms that are not in the LRU list.
AfterBuild(cache, hist) ==
  [cache |-> RemoveEvictedItems(cache), hist |-> Less(hist, DOMAIN hist \ ToSet(cache.lru))]

ResetAccumulatedMetrics(a) ==
  [a EXCEPT !.cache = [m \in Metrics |-> NewCache], !.hist = [m \in Metrics |-> Empty]]

\* buildMetrics: a build that fails changes nothing but the order of the lists; one that succeeds
\* forgets what was evicted, and everything for delta temporality.
BuildMetrics(out) ==
  LET kept == [m \in Metrics |-> AfterBuild(out[m].cache, acc.hist[m])]
      next == [acc EXCEPT !.cache = [m \in Metrics |-> kept[m].cache], !.hist = [m \in Metrics |-> kept[m].hist]]
  IN IF \E m \in Metrics : out[m].err
     THEN [acc EXCEPT !.cache = [m \in Metrics |-> IF Reached(out, m) THEN out[m].cache ELSE @[m]]]
     ELSE IF config.delta THEN ResetAccumulatedMetrics(next) ELSE next

Nothing == [m \in Metrics |-> {}]
NotExporting == [busy |-> FALSE, points |-> Nothing]

\* The orders in which a map may be ranged over.  With delta temporality everything is reset
\* afterwards, and one order stands for all.
Ranges(S) == IF config.delta THEN {SetToSeq(S)} ELSE SetToSeqs(S)

\* exportMetrics under the lock, at a tick.
ExportMetrics ==
  /\ life # "ended" /\ ~exporting.busy /\ left.builds > 0
  /\ \E a \in Ranges(DOMAIN acc.hist["latency"]), b \in Ranges(DOMAIN acc.hist["exp"]),
        c \in Ranges(DOMAIN acc.hist["call"]), d \in Ranges(DOMAIN acc.hist["external"]),
        e \in Ranges(DOMAIN acc.hist["db"]) :
       LET order == [latency |-> a, exp |-> b, call |-> c, external |-> d, db |-> e]
           out   == [m \in Metrics |-> Collect(m, order[m])]
       IN /\ acc' = BuildMetrics(out)
          /\ exporting' = [busy |-> TRUE,
                           points |-> IF \E m \in Metrics : out[m].err THEN Nothing
                                      ELSE [m \in Metrics |-> out[m].points]]
  /\ left' = [left EXCEPT !.builds = @ - 1]
  /\ UNCHANGED <<config, life>>

\* ConsumeMetrics, after the unlock: an error of a consumer is only logged, what was built is gone.
ConsumeMetrics ==
  /\ exporting.busy
  /\ exporting' = NotExporting
  /\ UNCHANGED <<config, acc, life, left>>

\* Shutdown stops the ticker and closes done; there is no last export ...
SmShutdown ==
  /\ life = "started"
  /\ life' = "stopping"
  /\ UNCHANGED <<config, acc, exporting, left>>

\* ... the goroutine returns when it comes to see done, and Shutdown after it.
SmShutdownReturns ==
  /\ life = "stopping" /\ ~exporting.busy
  /\ life' = "ended"
  /\ UNCHANGED <<config, acc, exporting, left>>

SmInit ==
  /\ config \in Configs
  /\ acc = [services |-> Empty, cache |-> [m \in Metrics |-> NewCache], hist |-> [m \in Metrics |-> Empty]]
  /\ exporting = NotExporting
  /\ life = "started"
  /\ left = [spans |-> MaxSpans, builds |-> MaxBuilds]

SmNext ==
  \/ \E span \in Spans : ConsumeTraces(span)
  \/ ExportMetrics
  \/ ConsumeMetrics
  \/ SmShutdown \/ SmShutdownReturns

SmSpec == SmInit /\ [][SmNext]_smVars

----------------------------------------------------------------------------
(* Properties.                                                             *)

\* However the lists evict and revive, in whatever order a build ranges over the maps, every
\* histogram has its dimensions, in the list or among the evicted items: no build fails, which
\* would export nothing and keep everything.
BuildNeverFails == \A m \in Metrics : \A k \in DOMAIN acc.hist[m] : HasItem(acc.cache[m], k)

\* The limits bound what the exporter stores: the data points of a build name at most MaxServices
\* services and the overflow, and for each at most MaxOperations operations and the overflow.  The
\* overflow has one operation more: the span that crosses the limit on services is named after it
\* before it is tracked there (processor.go:1176-1183, 1249-1262).
NamesAreBounded ==
  \A m \in {"latency", "exp", "call"} :
    LET names == {acc.cache[m].dims[k].names : k \in DOMAIN acc.cache[m].dims}
    IN /\ Cardinality({n[1] : n \in names}) <= MaxServices + 1
       /\ \A svc \in {n[1] : n \in names} :
            Cardinality({n[2] : n \in {x \in names : x[1] = svc}})
              <= MaxOperations + (IF svc = Overflow THEN 2 ELSE 1)

\* The caches hold what the histograms need and no more than the limits allow.
CachesAreSound == BuildNeverFails /\ NamesAreBounded

=============================================================================

----------------------------- MODULE Exporters ------------------------------
(***************************************************************************)
(* The exporters of logs, traces and metrics, which all implement the same *)
(* Sink.  They share no state, so a behaviour is one of one exporter: the  *)
(* initial value of exporter says which, and the variables of the others   *)
(* do not change.                                                          *)
(***************************************************************************)
EXTENDS LogsExporter

CONSTANTS TracePushes, Spans, TracePushOf, TraceResourceOf, TraceKeyOf, TraceOld, Exceptions,
          MaxTraceFailures,
          MetricPushes, RowsOf, Internal, MaxMetricFailures

VARIABLES exporter, push, table, skip, cache, conn, usage

T == INSTANCE TracesExporter WITH
        Pushes <- TracePushes,
        PushOf <- TracePushOf,
        ResourceOf <- TraceResourceOf,
        KeyOf <- TraceKeyOf,
        Old <- TraceOld,
        MaxFailures <- MaxTraceFailures

M == INSTANCE MetricsExporter WITH
        Pushes <- MetricPushes,
        MaxFailures <- MaxMetricFailures

\* Batches are finite, and failures are counted from zero.
SpansAreFinite == IsFiniteSet(Spans) /\ MaxTraceFailures \in Nat

RowsAreFinite ==
    /\ MaxMetricFailures \in Nat
    /\ \A p \in MetricPushes : IsFiniteSet(RowsOf[p].samples)

ASSUME ExportersAssumption == SpansAreFinite /\ RowsAreFinite

-----------------------------------------------------------------------------

IsLogs    == exporter = "logs"
IsTraces  == exporter = "traces"
IsMetrics == exporter = "metrics"

otherVars == <<push, table, skip, cache, conn, usage>>
logsVars  == <<pc, ctxDone, groupVars, batchVars, tableVars>>
exportersVars == <<vars, exporter, otherVars>>

ExportersInit ==
    \/ /\ exporter = "logs" /\ Init
       /\ push = <<>> /\ table = <<>> /\ skip = {} /\ cache = {} /\ conn = TRUE /\ usage = <<>>
    \/ exporter = "traces" /\ T!Init /\ Idle /\ cache = {}
    \/ /\ exporter = "metrics" /\ M!Init /\ Idle
       /\ keysCache = {} /\ rfCache = {} /\ skip = {} /\ fetcher = "done"

ExportersNext ==
    \/ IsLogs /\ Next /\ UNCHANGED <<exporter, otherVars>>
    \/ IsTraces /\ T!Next /\ UNCHANGED <<exporter, logsVars, cache>>
    \/ IsMetrics /\ M!Next /\ UNCHANGED <<exporter, logsVars, keysCache, rfCache, skip, fetcher>>

ExportersSpec == ExportersInit /\ [][ExportersNext]_exportersVars

-----------------------------------------------------------------------------

Sink == INSTANCE Sink WITH
           Batches <- Pushes \cup TracePushes \cup MetricPushes,
           stored <- IF IsLogs THEN StoredBatches
                     ELSE IF IsTraces THEN T!StoredBatches ELSE M!StoredBatches,
           acked <- IF IsLogs THEN AckedBatches
                    ELSE IF IsTraces THEN T!AckedBatches ELSE M!AckedBatches,
           open <- IF IsLogs THEN sd # "down" ELSE conn

\* All three exporters are at-least-once sinks: with producers and writers that
\* run in parallel and fail one by one, retries of failed batches and a Shutdown
\* at any moment, a push returns nil only for a batch whose records (spans and
\* exceptions, samples and exponential histograms) are stored, and nothing is
\* written or acknowledged after the connection is closed.  One exception: a logs
\* batch that ClickHouse refuses with code 252 is dropped, though its push returns
\* nil; it does not count as acknowledged.
ImplementsSink == Sink!Spec

\* Shutdown of the traces exporter flushes the usage of every push it has
\* waited for: when it is over, and no call failed, the last row of the usage
\* table has all of it.
UsageIsReported == IsTraces => T!UsageIsReported

\* Without a failing call, the series of an acknowledged sample are in the
\* series table when all pushes have returned, whichever of two pushes with the
\* series has appended it and put it into the cache.
StoredSampleHasSeries == IsMetrics => M!StoredSampleHasSeries
=============================================================================

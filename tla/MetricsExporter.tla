-------------------------- MODULE MetricsExporter --------------------------
(***************************************************************************)
(* The metrics exporter of exporter/signozclickhousemetrics: concurrent    *)
(* PushMetrics calls that write the four tables in parallel, the cache of  *)
(* series they share, the usage collector, and Shutdown, which stops the   *)
(* cache and the usage collector before it waits for the pushes.           *)
(*                                                                         *)
(* A push has the rows that prepareBatch (module MetricsBatch) makes of a  *)
(* batch of metrics.                                                       *)
(***************************************************************************)
EXTENDS UsageCollector

CONSTANTS Pushes,
          RowsOf,       \* [Pushes -> [samples, ts, expHist, metadata : sets]]
          Internal,     \* samples of the product's own metrics: not billed
          MaxFailures   \* bound: calls of ClickHouse that fail

Writers == {"samples", "ts", "expHist", "metadata"}
Series  == UNION {RowsOf[p].ts : p \in Pushes}

VARIABLES push,     \* [Pushes -> the frame of PushMetrics]
          table,    \* the rows in ClickHouse, per table
          cache,    \* series (with the hour) that have been appended
          conn,     \* the connection is open
          closed,   \* closeChan is closed
          sd,       \* control of Shutdown
          failures

vars == <<push, table, cache, conn, closed, sd, usage, failures>>

Returned == {"idle", "ok", "err"}

TypeOK ==
    /\ UsageType
    /\ push \in [Pushes -> [pc : Returned \cup {"check", "write"},
                            writer : [Writers -> {"run", "send", "ok", "err"}],
                            newTs : SUBSET Series]]
    /\ DOMAIN table = Writers
    /\ cache \subseteq Series
    /\ conn \in BOOLEAN /\ closed \in BOOLEAN
    /\ sd \in {"up", "usage", "close", "wait", "down"}
    /\ failures \in 0..MaxFailures

Frame == [pc |-> "idle", writer |-> [w \in Writers |-> "ok"], newTs |-> {}]

\* NewClickHouseExporter and Start.
Init ==
    /\ UsageInit
    /\ push = [p \in Pushes |-> Frame]
    /\ table = [t \in Writers |-> {}]
    /\ cache = {}
    /\ conn = TRUE /\ closed = FALSE
    /\ sd = "up"
    /\ failures = 0

Fault == \/ failures < MaxFailures /\ failures' = failures + 1
         \/ ~conn /\ UNCHANGED failures

Works == conn /\ UNCHANGED failures

Insert(t, rows) == table' = [table EXCEPT ![t] = @ \cup rows]

\* A Send that reports an error may have inserted its rows all the same.
MaybeInsert(t, rows) == IF conn THEN Insert(t, rows) \/ UNCHANGED table ELSE UNCHANGED table

-----------------------------------------------------------------------------
(* PushMetrics and writeBatch *)

\* wg.Add(1); the helper retries a failed batch until it is shut down itself.
Begin(p) ==
    /\ push[p].pc = "idle" \/ (push[p].pc = "err" /\ ~closed)
    /\ push' = [push EXCEPT ![p] = [Frame EXCEPT !.pc = "check"]]
    /\ UNCHANGED <<table, cache, conn, closed, sd, usage, failures>>

Return(p, result) == push' = [push EXCEPT ![p] = [Frame EXCEPT !.pc = result]]

Refuse(p) ==
    /\ push[p].pc = "check" /\ closed
    /\ Return(p, "err")
    /\ UNCHANGED <<table, cache, conn, closed, sd, usage, failures>>

\* prepareBatch; a goroutine per table is started, and one without rows has
\* nothing to do.
StartWriters(p) ==
    /\ push[p].pc = "check" /\ ~closed
    /\ push' = [push EXCEPT ![p].pc = "write",
                            ![p].writer = [w \in Writers |->
                                IF RowsOf[p][w] = {} THEN "ok" ELSE "run"]]
    /\ UNCHANGED <<table, cache, conn, closed, sd, usage, failures>>

\* Mutant of AppendTimeSeries: the cache has the series of a push that skips them.
AppendTimeSeriesOnce(p) ==
    /\ push[p].writer["ts"] = "run"
    /\ \/ /\ Works
          /\ push' = [push EXCEPT ![p].writer["ts"] = "send",
                                  ![p].newTs = IF cache = {} THEN RowsOf[p].ts ELSE {}]
          /\ cache' = cache \cup RowsOf[p].ts
       \/ /\ Fault
          /\ push' = [push EXCEPT ![p].writer["ts"] = "err"]
          /\ \E some \in SUBSET RowsOf[p].ts : cache' = cache \cup some
    /\ UNCHANGED <<table, conn, closed, sd, usage>>

\* writeTimeSeries: a series the cache does not have is appended and cached.
AppendTimeSeries(p) ==
    /\ push[p].writer["ts"] = "run"
    /\ \/ /\ Works
          /\ push' = [push EXCEPT ![p].writer["ts"] = "send", ![p].newTs = RowsOf[p].ts \ cache]
          /\ cache' = cache \cup RowsOf[p].ts
       \/ /\ Fault
          /\ push' = [push EXCEPT ![p].writer["ts"] = "err"]
          /\ \E some \in SUBSET RowsOf[p].ts : cache' = cache \cup some
    /\ UNCHANGED <<table, conn, closed, sd, usage>>

SendTimeSeries(p) ==
    /\ push[p].writer["ts"] = "send"
    /\ \/ /\ Works
          /\ Insert("ts", push[p].newTs)
          /\ push' = [push EXCEPT ![p].writer["ts"] = "ok"]
       \/ /\ Fault
          /\ MaybeInsert("ts", push[p].newTs)
          /\ push' = [push EXCEPT ![p].writer["ts"] = "err"]
    /\ UNCHANGED <<cache, conn, closed, sd, usage>>

\* writeSamples: the usage of all samples that are billed is recorded before
\* the samples are sent.
AppendSamples(p) ==
    /\ push[p].writer["samples"] = "run"
    /\ \/ /\ Works
          /\ Record(Cardinality(RowsOf[p].samples \ Internal))
          /\ push' = [push EXCEPT ![p].writer["samples"] = "send"]
       \/ /\ Fault
          /\ push' = [push EXCEPT ![p].writer["samples"] = "err"]
          /\ UNCHANGED usage
    /\ UNCHANGED <<table, cache, conn, closed, sd>>

SendSamples(p) ==
    /\ push[p].writer["samples"] = "send"
    /\ \/ /\ Works
          /\ Insert("samples", RowsOf[p].samples)
          /\ push' = [push EXCEPT ![p].writer["samples"] = "ok"]
       \/ /\ Fault
          /\ MaybeInsert("samples", RowsOf[p].samples)
          /\ push' = [push EXCEPT ![p].writer["samples"] = "err"]
    /\ UNCHANGED <<cache, conn, closed, sd, usage>>

WriteExpHist(p) ==
    /\ push[p].writer["expHist"] = "run"
    /\ \/ /\ Works
          /\ Insert("expHist", RowsOf[p].expHist)
          /\ push' = [push EXCEPT ![p].writer["expHist"] = "ok"]
       \/ /\ Fault
          /\ MaybeInsert("expHist", RowsOf[p].expHist)
          /\ push' = [push EXCEPT ![p].writer["expHist"] = "err"]
    /\ UNCHANGED <<cache, conn, closed, sd, usage>>

\* writeMetadata: an error is only logged.
WriteMetadata(p) ==
    /\ push[p].writer["metadata"] = "run"
    /\ \/ Works /\ Insert("metadata", RowsOf[p].metadata)
       \/ Fault /\ MaybeInsert("metadata", RowsOf[p].metadata)
    /\ push' = [push EXCEPT ![p].writer["metadata"] = "ok"]
    /\ UNCHANGED <<cache, conn, closed, sd, usage>>

\* The four results have come: the errors are joined.
WritersDone(p) ==
    /\ push[p].pc = "write"
    /\ \A w \in Writers : push[p].writer[w] \in {"ok", "err"}
    /\ Return(p, IF \E w \in Writers : push[p].writer[w] = "err" THEN "err" ELSE "ok")
    /\ UNCHANGED <<table, cache, conn, closed, sd, usage, failures>>

PushStep(p) ==
    \/ Refuse(p) \/ StartWriters(p) \/ AppendTimeSeries(p) \/ SendTimeSeries(p)
    \/ AppendSamples(p) \/ SendSamples(p) \/ WriteExpHist(p) \/ WriteMetadata(p)
    \/ WritersDone(p)

\* An entry of the cache outlives its ttl; the cleanup ends with Stop.
Expire ==
    /\ sd = "up"
    /\ \E s \in cache : cache' = cache \ {s}
    /\ UNCHANGED <<push, table, conn, closed, sd, usage, failures>>

-----------------------------------------------------------------------------
(* Shutdown: the cache and the usage collector first, then the pushes. *)

StopUsage ==
    /\ sd = "up"
    /\ UsageStop
    /\ sd' = "usage"
    /\ UNCHANGED <<push, table, cache, conn, closed, failures>>

CloseChan ==
    /\ sd = "usage" /\ UsageStopped
    /\ sd' = "wait"
    /\ closed' = TRUE
    /\ UNCHANGED <<push, table, cache, conn, usage, failures>>

\* wg.Wait returns and the connection is closed.
WaitPushes ==
    /\ sd = "wait"
    /\ \A p \in Pushes : push[p].pc \in Returned
    /\ sd' = "down"
    /\ conn' = FALSE
    /\ UNCHANGED <<push, table, cache, closed, usage, failures>>

ReaderTick ==
    /\ UsageTick
    /\ UNCHANGED <<push, table, cache, conn, closed, sd, failures>>

ReaderExport ==
    /\ \/ Works /\ UsageExported(TRUE)
       \/ Fault /\ UsageExported(FALSE)
    /\ UNCHANGED <<push, table, cache, conn, closed, sd>>

Next ==
    \/ \E p \in Pushes : Begin(p) \/ PushStep(p)
    \/ Expire \/ StopUsage \/ CloseChan \/ WaitPushes \/ ReaderTick \/ ReaderExport

Spec == Init /\ [][Next]_vars
-----------------------------------------------------------------------------
(* Properties.                                                             *)

\* The rows a push answers for; those of series are subject to the cache.
StoredBatches == {p \in Pushes : /\ RowsOf[p].samples \subseteq table["samples"]
                                 /\ RowsOf[p].expHist \subseteq table["expHist"]}

AckedBatches == {p \in Pushes : push[p].pc = "ok"}

\* Without a failing call, a sample that is stored has its series in the series
\* table when all pushes have returned, whichever of two pushes with the series
\* has appended it.
StoredSampleHasSeries ==
    failures = 0 /\ (\A p \in Pushes : push[p].pc \in Returned) =>
        \A p \in AckedBatches : RowsOf[p].ts \subseteq table["ts"]
=============================================================================

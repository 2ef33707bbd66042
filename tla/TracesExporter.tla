--------------------------- MODULE TracesExporter ---------------------------
(***************************************************************************)
(* The traces exporter of exporter/clickhousetracesexporter: concurrent    *)
(* pushTraceDataV3 calls, each with three writer goroutines, the caches of *)
(* attribute keys and of resource fingerprints they share, the goroutine   *)
(* that fetches the keys to skip, the usage collector, and Shutdown.       *)
(*                                                                         *)
(* A push is one batch of spans; the exporter helper (external) calls      *)
(* pushTraceData again for a batch that came back with an error.           *)
(***************************************************************************)
EXTENDS UsageCollector

CONSTANTS Pushes,
          Spans,
          PushOf,       \* [Spans -> Pushes]: the batch a span is in
          ResourceOf,   \* its resource, with the time bucket of its start
          KeyOf,        \* an attribute key it has
          Old,          \* spans older than maxAllowedDataAgeDays
          Exceptions,   \* spans with an exception event
          MaxFailures   \* bound: calls of ClickHouse that fail

Keys      == {KeyOf[s] : s \in Spans}
Resources == {ResourceOf[s] : s \in Spans}

VARIABLES push,      \* [Pushes -> the frame of pushTraceDataV3]
          table,     \* the rows in ClickHouse, per table
          keysCache, rfCache,
          skip,      \* shouldSkipKeyValue
          fetcher,   \* the goroutine started by NewSpanWriter
          conn,      \* the connection is open
          closed,    \* closeChan is closed
          sd,        \* control of Shutdown
          failures

runVars  == <<keysCache, rfCache, skip, fetcher, conn, closed, sd>>
vars     == <<push, table, runVars, usage, failures>>

Writers  == {"index", "error", "tag"}
Tables   == {"spans", "exceptions", "keys", "values", "resources"}
Returned == {"idle", "ok", "err"}

\* The spans of a batch that are in the allowed time window, and what the
\* rest of the call does with them.
BatchOfSpans(p)  == {s \in Spans \ Old : PushOf[s] = p}
ResourcesSeen(p) == {ResourceOf[s] : s \in BatchOfSpans(p)}
KeysOf(p)        == {KeyOf[s] : s \in BatchOfSpans(p)}

TypeOK ==
    /\ UsageType
    /\ push \in [Pushes -> [pc : Returned \cup {"check", "write", "resources", "send"},
                            writer : [Writers -> {"run", "values", "keys", "ok", "err"}],
                            newKeys : SUBSET Keys, newValues : SUBSET Keys,
                            newResources : SUBSET Resources]]
    /\ DOMAIN table = Tables
    /\ keysCache \subseteq Keys
    /\ rfCache \subseteq Resources
    /\ skip \subseteq Keys
    /\ fetcher \in {"query", "wait", "ended"}
    /\ conn \in BOOLEAN /\ closed \in BOOLEAN
    /\ sd \in {"up", "wait", "usage", "flush", "down"}
    /\ failures \in 0..MaxFailures

Frame == [pc |-> "idle", writer |-> [w \in Writers |-> "ok"], newKeys |-> {},
          newValues |-> {}, newResources |-> {}]

\* newExporter and NewSpanWriter: the fetching goroutine has been started.
Init ==
    /\ UsageInit
    /\ push = [p \in Pushes |-> Frame]
    /\ table = [t \in Tables |-> {}]
    /\ keysCache = {} /\ rfCache = {} /\ skip = {}
    /\ fetcher = "query"
    /\ conn = TRUE /\ closed = FALSE
    /\ sd = "up"
    /\ failures = 0

\* A call of ClickHouse fails: by its own, or because the connection is closed.
Fault == \/ failures < MaxFailures /\ failures' = failures + 1
         \/ ~conn /\ UNCHANGED failures

Works == conn /\ UNCHANGED failures

Insert(t, rows) == table' = [table EXCEPT ![t] = @ \cup rows]

\* A Send that reports an error may have inserted its rows all the same.
MaybeInsert(t, rows) == IF conn THEN Insert(t, rows) \/ UNCHANGED table ELSE UNCHANGED table

-----------------------------------------------------------------------------
(* pushTraceDataV3 *)

\* wg.Add(1); the helper retries a failed batch until it is shut down itself.
Begin(p) ==
    /\ push[p].pc = "idle" \/ (push[p].pc = "err" /\ ~closed)
    /\ push' = [push EXCEPT ![p] = [Frame EXCEPT !.pc = "check"]]
    /\ UNCHANGED <<table, runVars, usage, failures>>

Return(p, result) == push' = [push EXCEPT ![p] = [Frame EXCEPT !.pc = result]]

Refuse(p) ==
    /\ push[p].pc = "check" /\ closed
    /\ Return(p, "err")
    /\ UNCHANGED <<table, runVars, usage, failures>>

\* The spans become rows and WriteBatchOfSpansV3 starts its goroutines.
BuildBatch(p) ==
    /\ push[p].pc = "check" /\ ~closed
    /\ push' = [push EXCEPT ![p].pc = "write", ![p].writer = [w \in Writers |-> "run"]]
    /\ UNCHANGED <<table, runVars, usage, failures>>

\* writeIndexBatchV3 and writeErrorBatchV3: prepare, append, Send.
WriteRows(p, w, t, rows) ==
    /\ push[p].writer[w] = "run"
    /\ \/ /\ Works
          /\ Insert(t, rows)
          /\ push' = [push EXCEPT ![p].writer[w] = "ok"]
       \/ /\ Fault
          /\ MaybeInsert(t, rows)
          /\ push' = [push EXCEPT ![p].writer[w] = "err"]
    /\ UNCHANGED <<runVars, usage>>

WriteIndexBatch(p) == WriteRows(p, "index", "spans", BatchOfSpans(p))
WriteErrorBatch(p) == WriteRows(p, "error", "exceptions", BatchOfSpans(p) \cap Exceptions)

\* writeTagBatchV3: keys the cache does not have are appended and cached at
\* once; values of keys that are not to be skipped are appended.
TagAppend(p) ==
    /\ push[p].writer["tag"] = "run"
    /\ Works
    /\ push' = [push EXCEPT ![p].writer["tag"] = "values",
                            ![p].newKeys = KeysOf(p) \ keysCache,
                            ![p].newValues = KeysOf(p) \ skip]
    /\ keysCache' = keysCache \cup KeysOf(p)
    /\ UNCHANGED <<table, rfCache, skip, fetcher, conn, closed, sd, usage>>

\* A PrepareBatch or an Append fails, some keys already in the cache.
TagAppendFails(p) ==
    /\ push[p].writer["tag"] = "run"
    /\ Fault
    /\ push' = [push EXCEPT ![p].writer["tag"] = "err"]
    /\ \E some \in SUBSET KeysOf(p) : keysCache' = keysCache \cup some
    /\ UNCHANGED <<table, rfCache, skip, fetcher, conn, closed, sd, usage>>

\* The values are sent, then the keys.
TagSend(p) ==
    /\ push[p].writer["tag"] \in {"values", "keys"}
    /\ LET t    == push[p].writer["tag"]
           rows == IF t = "values" THEN push[p].newValues ELSE push[p].newKeys
       IN  \/ /\ Works
              /\ Insert(t, rows)
              /\ push' = [push EXCEPT ![p].writer["tag"] = IF @ = "values" THEN "keys" ELSE "ok"]
           \/ /\ Fault
              /\ MaybeInsert(t, rows)
              /\ push' = [push EXCEPT ![p].writer["tag"] = "err"]
    /\ UNCHANGED <<runVars, usage>>

\* Mutant of WritersDone: only the first error that can come is waited for.
WritersDoneEarly(p) ==
    /\ push[p].pc = "write"
    /\ push[p].writer["index"] \in {"ok", "err"} \/ push[p].writer["error"] \in {"ok", "err"}
    /\ Record(Cardinality(BatchOfSpans(p)))
    /\ IF "err" \in {push[p].writer["index"], push[p].writer["error"]}
         THEN Return(p, "err")
         ELSE push' = [push EXCEPT ![p].pc = "resources"]
    /\ UNCHANGED <<table, runVars, failures>>

\* wg.Wait returns: usage is recorded whatever the writers say; an error of
\* the index or of the error writer is returned, one of the tag writer is not.
WritersDone(p) ==
    /\ push[p].pc = "write"
    /\ \A w \in Writers : push[p].writer[w] \in {"ok", "err"}
    /\ Record(Cardinality(BatchOfSpans(p)))
    /\ IF "err" \in {push[p].writer["index"], push[p].writer["error"]}
         THEN Return(p, "err")
         ELSE push' = [push EXCEPT ![p].pc = "resources"]
    /\ UNCHANGED <<table, runVars, failures>>

\* WriteResourcesV3: a fingerprint the cache does not have is appended, and
\* the cache has it before the rows are sent.
AppendResources(p) ==
    /\ push[p].pc = "resources"
    /\ Works
    /\ push' = [push EXCEPT ![p].pc = "send", ![p].newResources = ResourcesSeen(p) \ rfCache]
    /\ rfCache' = rfCache \cup ResourcesSeen(p)
    /\ UNCHANGED <<table, keysCache, skip, fetcher, conn, closed, sd, usage>>

PrepareResourcesFails(p) ==
    /\ push[p].pc = "resources"
    /\ Fault
    /\ Return(p, "err")
    /\ UNCHANGED <<table, runVars, usage>>

SendResources(p) ==
    /\ push[p].pc = "send"
    /\ \/ Works /\ Insert("resources", push[p].newResources) /\ Return(p, "ok")
       \/ Fault /\ MaybeInsert("resources", push[p].newResources) /\ Return(p, "err")
    /\ UNCHANGED <<runVars, usage>>

PushStep(p) ==
    \/ Refuse(p) \/ BuildBatch(p) \/ WriteIndexBatch(p) \/ WriteErrorBatch(p)
    \/ TagAppend(p) \/ TagAppendFails(p) \/ TagSend(p) \/ WritersDone(p)
    \/ AppendResources(p) \/ PrepareResourcesFails(p) \/ SendResources(p)

\* An entry of a cache outlives its ttl.
Expire ==
    /\ \/ \E k \in keysCache : keysCache' = keysCache \ {k} /\ UNCHANGED rfCache
       \/ \E r \in rfCache : rfCache' = rfCache \ {r} /\ UNCHANGED keysCache
    /\ UNCHANGED <<push, table, skip, fetcher, conn, closed, sd, usage, failures>>

-----------------------------------------------------------------------------
(* fetchShouldSkipKeys *)

\* The query: keys with too many values.  When it fails the set is empty.
Fetch ==
    /\ fetcher = "query"
    /\ \/ Works /\ \E many \in SUBSET table["values"] : skip' = many
       \/ Fault /\ skip' = {}
    /\ fetcher' = "wait"
    /\ UNCHANGED <<push, table, keysCache, rfCache, conn, closed, sd, usage>>

\* A tick; one may be left in the channel when Stop has stopped the ticker.
FetchTick ==
    /\ fetcher = "wait"
    /\ fetcher' = "query"
    /\ UNCHANGED <<push, table, keysCache, rfCache, skip, conn, closed, sd, usage, failures>>

FetcherEnds ==
    /\ fetcher = "wait"
    /\ sd = "down"
    /\ fetcher' = "ended"
    /\ UNCHANGED <<push, table, keysCache, rfCache, skip, conn, closed, sd, usage, failures>>

-----------------------------------------------------------------------------
(* Shutdown and the usage collector *)

CloseChan ==
    /\ sd = "up"
    /\ sd' = "wait"
    /\ closed' = TRUE
    /\ UNCHANGED <<push, table, keysCache, rfCache, skip, fetcher, conn, usage, failures>>

\* s.wg.Wait returns.
WaitPushes ==
    /\ sd = "wait"
    /\ \A p \in Pushes : push[p].pc \in Returned
    /\ sd' = "usage"
    /\ UNCHANGED <<push, table, keysCache, rfCache, skip, fetcher, conn, closed, usage, failures>>

StopUsage ==
    /\ sd = "usage"
    /\ UsageStop
    /\ sd' = "flush"
    /\ UNCHANGED <<push, table, keysCache, rfCache, skip, fetcher, conn, closed, failures>>

\* Writer.Close: the caches are stopped, done is closed, then the connection.
CloseWriter ==
    /\ sd = "flush" /\ UsageStopped
    /\ sd' = "down"
    /\ conn' = FALSE
    /\ UNCHANGED <<push, table, keysCache, rfCache, skip, fetcher, closed, usage, failures>>

ReaderTick ==
    /\ UsageTick
    /\ UNCHANGED <<push, table, runVars, failures>>

ReaderExport ==
    /\ \/ Works /\ UsageExported(TRUE)
       \/ Fault /\ UsageExported(FALSE)
    /\ UNCHANGED <<push, table, runVars>>

ShutdownStep == WaitPushes \/ StopUsage \/ CloseWriter

Next ==
    \/ \E p \in Pushes : Begin(p) \/ PushStep(p)
    \/ Expire \/ Fetch \/ FetchTick \/ FetcherEnds
    \/ CloseChan \/ ShutdownStep \/ ReaderTick \/ ReaderExport

\* Goroutines are scheduled and ClickHouse answers, with an error at worst;
\* wg.Wait and Stop are served although pushes and readings keep coming, and
\* a select that is ready on done again and again takes it.
Fairness ==
    /\ \A p \in Pushes : WF_vars(PushStep(p))
    /\ WF_vars(Fetch) /\ SF_vars(FetcherEnds)
    /\ SF_vars(ShutdownStep) /\ WF_vars(ReaderExport)

Spec == Init /\ [][Next]_vars

FairSpec == Spec /\ Fairness
-----------------------------------------------------------------------------
(* Properties.                                                             *)

\* The rows a batch is made of: its spans and their exceptions.
StoredBatches == {p \in Pushes : /\ BatchOfSpans(p) \subseteq table["spans"]
                                 /\ BatchOfSpans(p) \cap Exceptions \subseteq table["exceptions"]}

AckedBatches  == {p \in Pushes : push[p].pc = "ok"}

\* When Shutdown is over and no call failed, the last row of the usage table
\* has the usage of every push.
UsageIsReported ==
    sd = "down" /\ failures = 0 => usage.reported = usage.recorded

=============================================================================

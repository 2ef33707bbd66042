---------------------------- MODULE LogsExporter ----------------------------
(***************************************************************************)
(* The logs exporter of exporter/clickhouselogsexporter/exporter.go:       *)
(* concurrent pushLogsData calls, each with an errgroup of producers and   *)
(* one consumer around recordStream, the limiter they share, the caches of *)
(* keys and of resource fingerprints, the parallel sends, the goroutine    *)
(* that fetches the keys to skip, and Shutdown.                            *)
(*                                                                         *)
(* A Push is one batch of logs; the exporter helper (external) calls       *)
(* pushLogsData again for a batch that came back with an error.  The       *)
(* statements for attribute keys, resource keys and field values are one   *)
(* statement "keys" here: they are filled and sent in the same places.     *)
(***************************************************************************)
EXTENDS Naturals, Sequences, FiniteSets

CONSTANTS Pushes,
          Records,      \* numbered in the order of the loops
          PushOf,       \* [Records -> Pushes]: the batch a record is in
          ResourceOf,   \* its resource (with the time bucket)
          KeyOf,        \* an attribute key it has
          Old,          \* records older than maxAllowedDataAgeDays
          Cap,          \* utils.Concurrency(): limiter and recordStream
          MaxFailures   \* bound: failing calls and cancelled contexts

Resources == {ResourceOf[r] : r \in Records}
Keys      == {KeyOf[r] : r \in Records}

ASSUME LogsExporterAssumption ==
    /\ Records \subseteq Nat
    /\ PushOf \in [Records -> Pushes]
    /\ DOMAIN ResourceOf = Records
    /\ DOMAIN KeyOf = Records
    /\ Old \subseteq Records
    /\ Cap \in Nat \ {0}
    /\ MaxFailures \in Nat

VARIABLES pc,          \* control of each pushLogsData
          ctxDone,     \* its context is cancelled
          cancelled,   \* groupCtx is done
          groupErr,    \* the errgroup has an error
          todo,        \* records the producer loop has not reached
          prod,        \* the producer goroutine of each record
          stream,      \* recordStream
          closer,      \* the goroutine that closes it
          consumer,    \* the consumer goroutine
          rows,        \* records appended to insertLogsStmt
          newKeys,     \* keys appended to the key statements
          seen,        \* resourcesSeen
          newRes,      \* resources appended to insertResourcesStmt
          pending,     \* statements whose Send has not returned
          sendErr,     \* the first error on chErr
          keysCache,
          rfCache,
          logs,        \* ClickHouse: the rows of the logs table,
          keys,        \* of the key tables
          resources,   \* and of the resource table
          closed,      \* closeChan is closed
          fetcher,     \* the goroutine of fetchShouldSkipKeys
          sd,          \* control of Shutdown
          failures     \* calls that failed, contexts that were cancelled

groupVars  == <<cancelled, groupErr, todo, prod, stream, closer, consumer>>
batchVars  == <<rows, newKeys, seen, newRes, pending, sendErr>>
cacheVars  == <<keysCache, rfCache>>
tableVars  == <<logs, keys, resources>>
runVars    == <<closed, fetcher, sd>>
lifeVars   == <<runVars, failures>>
vars       == <<pc, ctxDone, groupVars, batchVars, cacheVars, tableVars, lifeVars>>

Statements == {"logs", "resources", "keys"}
Returned   == {"ok", "err", "dropped"}
Outside    == Returned \cup {"idle"}      \* not counted by e.wg
RecordsOf(p) == {r \in Records : PushOf[r] = p}

TypeOK ==
    /\ pc \in [Pushes -> Outside \cup {"check", "prepare", "loop", "wait", "resources", "send"}]
    /\ ctxDone \in [Pushes -> BOOLEAN]
    /\ cancelled \in [Pushes -> BOOLEAN]
    /\ groupErr \in [Pushes -> BOOLEAN]
    /\ todo \in [Pushes -> SUBSET Records]
    /\ prod \in [Records -> {"none", "run", "send"}]
    /\ \A p \in Pushes : stream[p] \in Seq(RecordsOf(p)) /\ Len(stream[p]) <= Cap
    /\ closer \in [Pushes -> {"off", "wait", "closed"}]
    /\ consumer \in [Pushes -> {"off", "run"}]
    /\ rows \in [Pushes -> SUBSET Records]
    /\ newKeys \in [Pushes -> SUBSET Keys]
    /\ seen \in [Pushes -> SUBSET Resources]
    /\ newRes \in [Pushes -> SUBSET Resources]
    /\ pending \in [Pushes -> SUBSET Statements]
    /\ sendErr \in [Pushes -> {"nil", "err", "code252"}]
    /\ keysCache \subseteq Keys
    /\ rfCache \subseteq Resources
    /\ logs \subseteq Records
    /\ keys \subseteq Keys
    /\ resources \subseteq Resources
    /\ closed \in BOOLEAN
    /\ fetcher \in {"wait", "fetch", "done"}
    /\ sd \in {"up", "wait", "down"}
    /\ failures \in 0..MaxFailures

Idle ==
    /\ pc = [p \in Pushes |-> "idle"]
    /\ ctxDone = [p \in Pushes |-> FALSE]
    /\ cancelled = [p \in Pushes |-> FALSE]
    /\ groupErr = [p \in Pushes |-> FALSE]
    /\ todo = [p \in Pushes |-> {}]
    /\ prod = [r \in Records |-> "none"]
    /\ stream = [p \in Pushes |-> <<>>]
    /\ closer = [p \in Pushes |-> "off"]
    /\ consumer = [p \in Pushes |-> "off"]
    /\ rows = [p \in Pushes |-> {}]
    /\ newKeys = [p \in Pushes |-> {}]
    /\ seen = [p \in Pushes |-> {}]
    /\ newRes = [p \in Pushes |-> {}]
    /\ pending = [p \in Pushes |-> {}]
    /\ sendErr = [p \in Pushes |-> "nil"]
    /\ logs = {}
    /\ keys = {}
    /\ resources = {}

\* newExporter and Start: the first fetch is over, the ticker goroutine runs.
Init ==
    /\ Idle
    /\ keysCache = {}
    /\ rfCache = {}
    /\ closed = FALSE
    /\ fetcher = "wait"
    /\ sd = "up"
    /\ failures = 0

-----------------------------------------------------------------------------
(* pushLogsData and the beginning of pushToClickhouse *)

\* A call fails that could have succeeded.
Fault ==
    /\ failures < MaxFailures
    /\ failures' = failures + 1

\* With a context that is done every call fails.
FaultOrDone(p) == Fault \/ (ctxDone[p] /\ UNCHANGED failures)

Goto(p, label) == pc' = [pc EXCEPT ![p] = label]

\* wg.Add(1); the helper calls for a new batch or for one that failed, which
\* it retries until it is shut down itself, before the exporter is.
Begin(p) ==
    /\ pc[p] = "idle" \/ (pc[p] = "err" /\ ~closed)
    /\ Goto(p, "check")
    /\ ctxDone' = [ctxDone EXCEPT ![p] = FALSE]
    /\ UNCHANGED <<groupVars, batchVars, cacheVars, tableVars, lifeVars>>

\* The call returns: wg.Done, and its frame is gone.
Return(p, result) ==
    /\ Goto(p, result)
    /\ ctxDone' = [ctxDone EXCEPT ![p] = FALSE]
    /\ cancelled' = [cancelled EXCEPT ![p] = FALSE]
    /\ groupErr' = [groupErr EXCEPT ![p] = FALSE]
    /\ todo' = [todo EXCEPT ![p] = {}]
    /\ stream' = [stream EXCEPT ![p] = <<>>]
    /\ closer' = [closer EXCEPT ![p] = "off"]
    /\ consumer' = [consumer EXCEPT ![p] = "off"]
    /\ rows' = [rows EXCEPT ![p] = {}]
    /\ newKeys' = [newKeys EXCEPT ![p] = {}]
    /\ seen' = [seen EXCEPT ![p] = {}]
    /\ newRes' = [newRes EXCEPT ![p] = {}]
    /\ pending' = [pending EXCEPT ![p] = {}]
    /\ sendErr' = [sendErr EXCEPT ![p] = "nil"]
    /\ UNCHANGED prod

\* Shutdown has been called: an error.
CheckClosed(p) ==
    /\ pc[p] = "check"
    /\ closed
    /\ Return(p, "err")
    /\ UNCHANGED <<cacheVars, tableVars, lifeVars>>

Check(p) ==
    /\ pc[p] = "check"
    /\ ~closed
    /\ Goto(p, "prepare")
    /\ UNCHANGED <<ctxDone, groupVars, batchVars, cacheVars, tableVars, lifeVars>>

\* The four PrepareBatch calls, then the errgroup and its consumer.
Prepare(p) ==
    /\ pc[p] = "prepare"
    /\ Goto(p, "loop")
    /\ todo' = [todo EXCEPT ![p] = RecordsOf(p)]
    /\ consumer' = [consumer EXCEPT ![p] = "run"]
    /\ cancelled' = [cancelled EXCEPT ![p] = ctxDone[p]]
    /\ UNCHANGED <<ctxDone, groupErr, prod, stream, closer, batchVars, cacheVars, tableVars,
                   lifeVars>>

PrepareFails(p) ==
    /\ pc[p] = "prepare"
    /\ FaultOrDone(p)
    /\ Return(p, "err")
    /\ UNCHANGED <<cacheVars, tableVars, runVars>>

\* The deadline of the push passes, or the helper is shut down.
Timeout(p) ==
    /\ Fault
    /\ pc[p] \notin Outside
    /\ ctxDone' = [ctxDone EXCEPT ![p] = TRUE]
    /\ cancelled' = [cancelled EXCEPT ![p] = @ \/ pc[p] \in {"loop", "wait"}]
    /\ UNCHANGED <<pc, groupErr, todo, prod, stream, closer, consumer, batchVars, cacheVars,
                   tableVars, runVars>>

-----------------------------------------------------------------------------
(* Producers *)

Slots == Cardinality({r \in Records : prod[r] # "none"})

\* The loop acquires a slot of the limiter and starts the record's goroutine.
Spawn(p) ==
    /\ pc[p] = "loop"
    /\ Slots < Cap
    /\ \E r \in todo[p] :
          /\ \A s \in todo[p] : r <= s
          /\ todo' = [todo EXCEPT ![p] = @ \ {r}]
          /\ prod' = [prod EXCEPT ![r] = "run"]
    /\ UNCHANGED <<pc, ctxDone, cancelled, groupErr, stream, closer, consumer, batchVars,
                   cacheVars, tableVars, lifeVars>>

\* Mutant of LoopEnds: nobody closes recordStream.
LoopEndsNotClosing(p) ==
    /\ pc[p] = "loop"
    /\ todo[p] = {} \/ cancelled[p]
    /\ Goto(p, "wait")
    /\ UNCHANGED <<ctxDone, groupVars, batchVars, cacheVars, tableVars, lifeVars>>

\* The loop is over, or groupCtx.Done breaks it; the closer is started.
LoopEnds(p) ==
    /\ pc[p] = "loop"
    /\ todo[p] = {} \/ cancelled[p]
    /\ Goto(p, "wait")
    /\ closer' = [closer EXCEPT ![p] = "wait"]
    /\ UNCHANGED <<ctxDone, cancelled, groupErr, todo, prod, stream, consumer, batchVars,
                   cacheVars, tableVars, lifeVars>>

\* A goroutine of the group returns an error: the first one cancels groupCtx.
Abort(p) ==
    /\ groupErr' = [groupErr EXCEPT ![p] = TRUE]
    /\ cancelled' = [cancelled EXCEPT ![p] = TRUE]

\* The record is too old, or its id cannot be generated.
Skip(r) ==
    /\ prod[r] = "run"
    /\ \/ r \in Old /\ UNCHANGED <<groupErr, cancelled, failures>>
       \/ r \notin Old /\ Fault /\ Abort(PushOf[r])
    /\ prod' = [prod EXCEPT ![r] = "none"]
    /\ UNCHANGED <<pc, ctxDone, todo, stream, closer, consumer, batchVars, cacheVars,
                   tableVars, runVars>>

\* getOrCreateFingerprint; the record is ready for the stream.
Fingerprint(r) ==
    /\ prod[r] = "run"
    /\ r \notin Old
    /\ seen' = [seen EXCEPT ![PushOf[r]] = @ \cup {ResourceOf[r]}]
    /\ prod' = [prod EXCEPT ![r] = "send"]
    /\ UNCHANGED <<pc, ctxDone, cancelled, groupErr, todo, stream, closer, consumer, rows,
                   newKeys, newRes, pending, sendErr, cacheVars, tableVars, lifeVars>>

\* recordStream <- record: it blocks while the channel is full, whatever
\* groupCtx says; then the slot is released.
Send(r) ==
    /\ prod[r] = "send"
    /\ Len(stream[PushOf[r]]) < Cap
    /\ stream' = [stream EXCEPT ![PushOf[r]] = Append(@, r)]
    /\ prod' = [prod EXCEPT ![r] = "none"]
    /\ UNCHANGED <<pc, ctxDone, cancelled, groupErr, todo, closer, consumer, batchVars,
                   cacheVars, tableVars, lifeVars>>

ProducerStep(r) == Skip(r) \/ Fingerprint(r) \/ Send(r)

Produced(p) == \A r \in RecordsOf(p) : prod[r] = "none"

\* producersWG.Wait, then close(recordStream).
CloseStream(p) ==
    /\ closer[p] = "wait"
    /\ Produced(p)
    /\ closer' = [closer EXCEPT ![p] = "closed"]
    /\ UNCHANGED <<pc, ctxDone, cancelled, groupErr, todo, prod, stream, consumer, batchVars,
                   cacheVars, tableVars, lifeVars>>

-----------------------------------------------------------------------------
(* The consumer *)

\* addAttrsToAttributeKeysStatement: a key the cache does not have is
\* appended, and the cache has it from now on.
AddKey(p, k) ==
    /\ newKeys' = [newKeys EXCEPT ![p] = IF k \in keysCache THEN @ ELSE @ \cup {k}]
    /\ keysCache' = keysCache \cup {k}

Consume(p) ==
    /\ consumer[p] = "run"
    /\ stream[p] # <<>>
    /\ LET r == Head(stream[p])
       IN  /\ AddKey(p, KeyOf[r])
           /\ rows' = [rows EXCEPT ![p] = @ \cup {r}]
    /\ stream' = [stream EXCEPT ![p] = Tail(@)]
    /\ UNCHANGED <<pc, ctxDone, cancelled, groupErr, todo, prod, closer, consumer, seen,
                   newRes, pending, sendErr, rfCache, tableVars, lifeVars>>

\* An Append fails, after the key has gone into the cache: the consumer ends.
ConsumeFails(p) ==
    /\ Fault
    /\ consumer[p] = "run"
    /\ stream[p] # <<>>
    /\ AddKey(p, KeyOf[Head(stream[p])])
    /\ stream' = [stream EXCEPT ![p] = Tail(@)]
    /\ consumer' = [consumer EXCEPT ![p] = "off"]
    /\ Abort(p)
    /\ UNCHANGED <<pc, ctxDone, todo, prod, closer, rows, seen, newRes, pending, sendErr,
                   rfCache, tableVars, runVars>>

\* groupCtx is done, or the channel is closed and empty.
ConsumerEnds(p) ==
    /\ consumer[p] = "run"
    /\ cancelled[p] \/ (closer[p] = "closed" /\ stream[p] = <<>>)
    /\ consumer' = [consumer EXCEPT ![p] = "off"]
    /\ UNCHANGED <<pc, ctxDone, cancelled, groupErr, todo, prod, stream, closer, batchVars,
                   cacheVars, tableVars, lifeVars>>

\* group.Wait returns.
GroupDone(p) ==
    /\ pc[p] = "wait"
    /\ consumer[p] = "off"
    /\ Produced(p)
    /\ IF groupErr[p]
         THEN Return(p, "err")
         ELSE Goto(p, "resources") /\ UNCHANGED <<ctxDone, groupVars, batchVars>>
    /\ UNCHANGED <<cacheVars, tableVars, lifeVars>>

-----------------------------------------------------------------------------
(* The rest of pushToClickhouse *)

\* Resources the cache does not have are appended, and it has them from now
\* on; then the statements are sent in parallel.  PrepareBatch needs a context
\* that is not done.
AppendResources(p) ==
    /\ pc[p] = "resources"
    /\ ~ctxDone[p]
    /\ newRes' = [newRes EXCEPT ![p] = seen[p] \ rfCache]
    /\ rfCache' = rfCache \cup seen[p]
    /\ pending' = [pending EXCEPT ![p] = Statements]
    /\ Goto(p, "send")
    /\ UNCHANGED <<ctxDone, groupVars, rows, newKeys, seen, sendErr, keysCache, tableVars, lifeVars>>

\* PrepareBatch fails, or an Append does after some resources were cached.
AppendResourcesFails(p) ==
    /\ pc[p] = "resources"
    /\ \/ ctxDone[p] /\ UNCHANGED <<rfCache, failures>>
       \/ Fault /\ \E some \in SUBSET seen[p] : rfCache' = rfCache \cup some
    /\ Return(p, "err")
    /\ UNCHANGED <<keysCache, tableVars, runVars>>

Inserted(p, t) ==
    /\ logs' = IF t = "logs" THEN logs \cup rows[p] ELSE logs
    /\ keys' = IF t = "keys" THEN keys \cup newKeys[p] ELSE keys
    /\ resources' = IF t = "resources" THEN resources \cup newRes[p] ELSE resources

\* Mutant of SendStatement: the statement for resources is not sent.
SendStatementLess(p) ==
    /\ pc[p] = "send"
    /\ \E t \in pending[p] :
          /\ IF t = "resources" THEN UNCHANGED tableVars ELSE Inserted(p, t)
          /\ pending' = [pending EXCEPT ![p] = @ \ {t}]
    /\ UNCHANGED <<pc, ctxDone, groupVars, rows, newKeys, seen, newRes, sendErr, cacheVars,
                   lifeVars>>

\* send: one of the parallel Send calls returns.
SendStatement(p) ==
    /\ pc[p] = "send"
    /\ \E t \in pending[p] :
          /\ Inserted(p, t)
          /\ pending' = [pending EXCEPT ![p] = @ \ {t}]
    /\ UNCHANGED <<pc, ctxDone, groupVars, rows, newKeys, seen, newRes, sendErr, cacheVars,
                   lifeVars>>

\* It returns an error; the rows may be there all the same.  The first error
\* on chErr is the one that counts.
SendStatementFails(p) ==
    /\ pc[p] = "send"
    /\ FaultOrDone(p)
    /\ \E t \in pending[p], e \in {"err", "code252"} :
          /\ Inserted(p, t) \/ UNCHANGED tableVars
          /\ pending' = [pending EXCEPT ![p] = @ \ {t}]
          /\ sendErr' = [sendErr EXCEPT ![p] = IF @ = "nil" THEN e ELSE @]
    /\ UNCHANGED <<pc, ctxDone, groupVars, rows, newKeys, seen, newRes, cacheVars, runVars>>

\* The sends are over.  Too many partitions (code 252): the batch is dropped.
PushDone(p) ==
    /\ pc[p] = "send"
    /\ pending[p] = {}
    /\ Return(p, CASE sendErr[p] = "nil" -> "ok"
                   [] sendErr[p] = "err" -> "err"
                   [] sendErr[p] = "code252" -> "dropped")
    /\ UNCHANGED <<cacheVars, tableVars, lifeVars>>

\* The goroutine of the call; its consumer.
MainStep(p) ==
    \/ CheckClosed(p) \/ Check(p) \/ Prepare(p) \/ PrepareFails(p) \/ LoopEnds(p) \/ GroupDone(p)
    \/ AppendResources(p) \/ AppendResourcesFails(p)
    \/ SendStatement(p) \/ SendStatementFails(p) \/ PushDone(p)

ConsumerStep(p) == Consume(p) \/ ConsumeFails(p) \/ ConsumerEnds(p)

-----------------------------------------------------------------------------
(* fetchShouldSkipKeys and Shutdown *)

Fetch ==
    /\ fetcher = "wait"
    /\ fetcher' = "fetch"
    /\ UNCHANGED <<pc, ctxDone, groupVars, batchVars, cacheVars, tableVars, closed, sd, failures>>

\* doFetchShouldSkipKeys is over; an error of the query is only logged.
FetchReturns ==
    /\ fetcher = "fetch"
    /\ fetcher' = "wait"
    /\ UNCHANGED <<pc, ctxDone, groupVars, batchVars, cacheVars, tableVars, closed, sd, failures>>

\* closeChan ends the goroutine.
FetcherEnds ==
    /\ fetcher = "wait"
    /\ closed
    /\ fetcher' = "done"
    /\ UNCHANGED <<pc, ctxDone, groupVars, batchVars, cacheVars, tableVars, closed, sd, failures>>

Shutdown ==
    /\ sd = "up"
    /\ sd' = "wait"
    /\ closed' = TRUE
    /\ UNCHANGED <<pc, ctxDone, groupVars, batchVars, cacheVars, tableVars, fetcher, failures>>

\* e.wg.Wait returns: the caches are stopped and the connection is closed.
ShutdownEnd ==
    /\ sd = "wait"
    /\ fetcher = "done"
    /\ \A p \in Pushes : pc[p] \in Outside
    /\ sd' = "down"
    /\ UNCHANGED <<pc, ctxDone, groupVars, batchVars, cacheVars, tableVars, closed, fetcher, failures>>

Next ==
    \/ \E p \in Pushes :
          Begin(p) \/ Timeout(p) \/ Spawn(p) \/ MainStep(p) \/ ConsumerStep(p) \/ CloseStream(p)
    \/ \E r \in Records : ProducerStep(r)
    \/ Fetch \/ FetchReturns \/ FetcherEnds \/ Shutdown \/ ShutdownEnd

\* Goroutines are scheduled and ClickHouse answers; a goroutine that waits for
\* the limiter or the channel is served in its turn, and a select that is
\* ready on closeChan again and again takes it.  When batches come and
\* when the exporter is shut down is up to the collector.
Fairness ==
    /\ \A p \in Pushes : /\ WF_vars(MainStep(p)) /\ SF_vars(Spawn(p))
                          /\ WF_vars(ConsumerStep(p)) /\ WF_vars(CloseStream(p))
    /\ \A r \in Records : SF_vars(ProducerStep(r))
    /\ WF_vars(FetchReturns) /\ SF_vars(FetcherEnds) /\ SF_vars(ShutdownEnd)

Spec == Init /\ [][Next]_vars

FairSpec == Spec /\ Fairness

-----------------------------------------------------------------------------
(* Properties.                                                              *)

\* The batches whose new records are all stored, and the ones whose push has
\* returned nil because of that: the mapping to Sink.  (A batch that ClickHouse
\* refuses with code 252 is dropped: pushLogsData returns nil for it, too.)
StoredBatches == {p \in Pushes : RecordsOf(p) \ Old \subseteq logs}
AckedBatches  == {p \in Pushes : pc[p] = "ok"}

\* As long as nothing fails, Shutdown ends; and so does every push in flight, which
\* Shutdown, that may be called at any time, waits for.
PushAndShutdownEnd == (sd = "wait") ~> (sd = "down" \/ failures > 0)

\* As long as nothing fails, the row of a resource that is in the fingerprint
\* cache gets into the resource table, whichever push has appended it: another
\* push may skip it because of the cache before that.
CachedResourceIsStored ==
    \A x \in Resources : (x \in rfCache) ~> (x \in resources \/ failures > 0)

\* Documented ("Error occurr in either producer or consumer; both will exit
\* with the help of groupCtx.Done()"): an error ends the whole push.
AbortEndsThePush ==
    \A p \in Pushes : cancelled[p] ~> (pc[p] \in Outside \cup {"resources", "send"})
=============================================================================

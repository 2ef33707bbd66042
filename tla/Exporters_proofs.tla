------------------------- MODULE Exporters_proofs --------------------------
(***************************************************************************)
(* Proofs about the exporters of logs, traces and metrics, for any         *)
(* batches, concurrency and number of failing calls: their types, that     *)
(* each is the at-least-once sink of module Sink, that the traces exporter *)
(* reports all its usage before it is down, and that the metrics exporter  *)
(* does not lose a series to its cache.                                    *)
(*                                                                         *)
(* Logs first.  A push returns nil long after its records were given       *)
(* away: to producer goroutines, to recordStream, to the statement, to     *)
(* ClickHouse.  The invariant PushInv follows them: until something aborts *)
(* the push no record is lost between these places (NothingIsLost), each   *)
(* place is empty when the next stage begins (LoopIsOver,                  *)
(* ProducersAreDone, ConsumerIsOver), and a push that was aborted cannot   *)
(* get to its Send calls, since group.Wait returns the error or the        *)
(* context is done (AbortHasACause).                                       *)
(***************************************************************************)
EXTENDS Exporters, SequenceTheorems, FiniteSetTheorems, TLAPS

-----------------------------------------------------------------------------
(* The logs exporter                                                       *)


\* The mapping to Sink: an aged record needs no row, and closing the connection
\* at the end of Shutdown closes the sink.
S == INSTANCE Sink WITH
        Batches <- Pushes,
        stored <- StoredBatches,
        acked <- AckedBatches,
        open <- sd # "down"

LogsImplementsSink == S!Spec

Grouped == {"loop", "wait", "resources", "send"}   \* the errgroup exists

InStream(p) == {stream[p][i] : i \in DOMAIN stream[p]}

LgType ==
  /\ TypeOK
  /\ stream \in [Pushes -> Seq(Records)]

\* Before the errgroup is made and after the call has returned there is no frame.
FrameIsGone(p) ==
  pc[p] \notin Grouped =>
    /\ ~cancelled[p] /\ ~groupErr[p]
    /\ todo[p] = {} /\ stream[p] = <<>> /\ closer[p] = "off" /\ consumer[p] = "off"
    /\ rows[p] = {} /\ pending[p] = {} /\ sendErr[p] = "nil"

\* groupCtx is done because of an error of the group or because of its parent.
AbortHasACause(p) == cancelled[p] => groupErr[p] \/ ctxDone[p]

\* A record that needs a row is on its way to the statement.
NothingIsLost(p) ==
  pc[p] \in Grouped /\ ~cancelled[p] =>
    \A r \in RecordsOf(p) \ Old :
      r \in todo[p] \/ prod[r] # "none" \/ r \in InStream(p) \/ r \in rows[p]

\* The loop hands out the records of the batch, all of them unless the group is
\* cancelled.
LoopIsOver(p) ==
  /\ todo[p] \subseteq RecordsOf(p)
  /\ pc[p] \in Grouped \ {"loop"} => todo[p] = {} \/ cancelled[p]

\* The stream is closed after the loop, when no producer is left; group.Wait
\* and producersWG.Wait wait for them.
ProducersAreDone(p) ==
  /\ closer[p] # "off" => pc[p] # "loop"
  /\ closer[p] = "closed" => Produced(p)
  /\ pc[p] \notin {"loop", "wait"} => Produced(p)

\* The consumer ends because it is told to, or at the end of the stream.
ConsumerIsOver(p) ==
  /\ pc[p] \in Grouped /\ consumer[p] = "off" =>
       cancelled[p] \/ (closer[p] = "closed" /\ stream[p] = <<>>)
  /\ pc[p] \in {"resources", "send"} => consumer[p] = "off" /\ ~groupErr[p]

\* All rows are in the statement before the Send calls.
AllAppended(p) == pc[p] = "send" => RecordsOf(p) \ Old \subseteq rows[p]

\* The logs statement has been sent without an error.
RowsAreSent(p) ==
  pc[p] = "send" /\ "logs" \notin pending[p] /\ sendErr[p] = "nil" => rows[p] \subseteq logs

\* An acknowledged batch is stored.
AckedIsStored(p) == pc[p] = "ok" => RecordsOf(p) \ Old \subseteq logs

PushInv(p) ==
  /\ FrameIsGone(p) /\ AbortHasACause(p) /\ NothingIsLost(p) /\ LoopIsOver(p)
  /\ ProducersAreDone(p) /\ ConsumerIsOver(p) /\ AllAppended(p) /\ RowsAreSent(p)
  /\ AckedIsStored(p)

\* After Shutdown no push gets beyond the look at closeChan.
DownIsQuiet ==
  /\ sd # "up" => closed
  /\ sd = "down" => \A p \in Pushes : pc[p] \in Outside \cup {"check"}

LgInv == LgType /\ (\A p \in Pushes : PushInv(p)) /\ DownIsQuiet

-----------------------------------------------------------------------------
(* Types *)

\* A function with one value replaced is of the same set.
LEMMA Replaced ==
  ASSUME NEW D, NEW R, NEW f \in [D -> R], NEW d \in D, NEW v \in R
  PROVE  [f EXCEPT ![d] = v] \in [D -> R]
  OBVIOUS

\* What Append and Tail do to the stream.
LEMMA StreamEnds ==
  ASSUME NEW R, NEW s \in Seq(R), NEW r \in R
  PROVE  /\ Append(s, r) \in Seq(R) /\ Len(Append(s, r)) = Len(s) + 1
         /\ s # <<>> => Head(s) \in R /\ Tail(s) \in Seq(R) /\ Len(Tail(s)) = Len(s) - 1
  OBVIOUS

\* Failing calls are counted.
LEMMA FailuresType ==
  ASSUME LgType, UNCHANGED failures \/ Fault
  PROVE  failures' \in 0..MaxFailures
  BY LogsExporterAssumption DEF LgType, TypeOK, Fault

\* The frame of a call that returns.
LEMMA ReturnType ==
  ASSUME LgType, NEW p \in Pushes, NEW result \in Returned, Return(p, result),
         keysCache' \subseteq Keys, rfCache' \subseteq Resources,
         UNCHANGED <<tableVars, runVars>>, UNCHANGED failures \/ Fault
  PROVE  LgType'
<1>1. failures' \in 0..MaxFailures
  BY FailuresType
<1>2. Len(<<>>) = 0 /\ <<>> \in Seq(Records) /\ <<>> \in Seq(RecordsOf(p)) /\ Len(<<>>) <= Cap
  BY LogsExporterAssumption DEF RecordsOf
<1> HIDE DEF Fault
<1>3. QED
  BY <1>1, <1>2, Replaced
  DEF LgType, TypeOK, Goto, Return, Outside, tableVars, runVars

\* Steps of a push keep the types.
LEMMA PushKeepsTypes ==
  ASSUME LgType, NEW p \in Pushes,
         Begin(p) \/ Timeout(p) \/ Spawn(p) \/ MainStep(p) \/ ConsumerStep(p) \/ CloseStream(p)
  PROVE  LgType'
<1> USE DEF vars, groupVars, batchVars, cacheVars, tableVars, runVars, lifeVars, Goto
<1>a. Records \subseteq Nat /\ Cap \in Nat
  BY LogsExporterAssumption
<1>b. \A x \in RecordsOf(p) : x \in Records /\ KeyOf[x] \in Keys /\ ResourceOf[x] \in Resources
  BY LogsExporterAssumption DEF RecordsOf, Keys, Resources
<1>c. RecordsOf(p) \subseteq Records
  BY DEF RecordsOf
<1>d. stream[p] \in Seq(RecordsOf(p)) /\ stream[p] \in Seq(Records) /\ Len(stream[p]) <= Cap
  BY DEF LgType, TypeOK
<1>1. CASE Begin(p) 
  BY <1>1 DEF LgType, TypeOK, Outside, Begin
<1>2. CASE Timeout(p)
  <2>1. failures' \in 0..MaxFailures
    BY <1>2, FailuresType DEF Timeout
  <2>2. (cancelled[p] \/ pc[p] \in {"loop", "wait"}) \in BOOLEAN
    BY Zenon
  <2>3. cancelled' \in [Pushes -> BOOLEAN] /\ ctxDone' \in [Pushes -> BOOLEAN]
    BY <1>2, <2>2 DEF Timeout, LgType, TypeOK
  <2>4. QED
    BY <1>2, <2>1, <2>3 DEF LgType, TypeOK, Timeout
<1>3. CASE Spawn(p)
  <2>1. PICK r \in todo[p] : /\ todo' = [todo EXCEPT ![p] = @ \ {r}]
                             /\ prod' = [prod EXCEPT ![r] = "run"]
    BY <1>3 DEF Spawn
  <2>2. r \in Records
    BY <2>1 DEF LgType, TypeOK
  <2>3. QED
    BY <1>3, <2>1, <2>2 DEF LgType, TypeOK, Spawn
<1>4. CASE CheckClosed(p)
  BY <1>4, ReturnType DEF LgType, TypeOK, CheckClosed, Returned
<1>5. CASE Check(p)
  BY <1>5 DEF LgType, TypeOK, Check
<1>6. CASE Prepare(p)
  BY <1>6, <1>c DEF LgType, TypeOK, Prepare
<1>7. CASE PrepareFails(p)
  BY <1>7, ReturnType DEF LgType, TypeOK, PrepareFails, Returned, FaultOrDone
<1>8. CASE LoopEnds(p)
  BY <1>8 DEF LgType, TypeOK, LoopEnds
<1>9. CASE GroupDone(p)
  <2>1. CASE groupErr[p]
    BY <1>9, <2>1, ReturnType DEF LgType, TypeOK, GroupDone, Returned
  <2>2. CASE ~groupErr[p]
    BY <1>9, <2>2 DEF LgType, TypeOK, GroupDone
  <2>3. QED BY <2>1, <2>2
<1>10. CASE AppendResources(p)
  BY <1>10 DEF LgType, TypeOK, AppendResources
<1>11. CASE AppendResourcesFails(p)
  <2>1. rfCache' \subseteq Resources
    BY <1>11 DEF LgType, TypeOK, AppendResourcesFails
  <2>2. QED
    BY <1>11, <2>1, ReturnType DEF LgType, TypeOK, AppendResourcesFails, Returned
<1>12. CASE SendStatement(p)
  <2>1. PICK t \in pending[p] : Inserted(p, t) /\ pending' = [pending EXCEPT ![p] = @ \ {t}]
    BY <1>12 DEF SendStatement
  <2>2. logs' \subseteq Records /\ keys' \subseteq Keys /\ resources' \subseteq Resources
    BY <2>1 DEF LgType, TypeOK, Inserted
  <2>3. QED
    BY <1>12, <2>1, <2>2 DEF LgType, TypeOK, SendStatement
<1>13. CASE SendStatementFails(p)
  <2>1. PICK t \in pending[p], e \in {"err", "code252"} :
               /\ Inserted(p, t) \/ UNCHANGED tableVars
               /\ pending' = [pending EXCEPT ![p] = @ \ {t}]
               /\ sendErr' = [sendErr EXCEPT ![p] = IF @ = "nil" THEN e ELSE @]
    BY <1>13 DEF SendStatementFails
  <2>2. logs' \subseteq Records /\ keys' \subseteq Keys /\ resources' \subseteq Resources
    BY <2>1 DEF LgType, TypeOK, Inserted
  <2>3. failures' \in 0..MaxFailures
    BY <1>13, FailuresType DEF SendStatementFails, FaultOrDone
  <2>4. QED
    BY <1>13, <2>1, <2>2, <2>3 DEF LgType, TypeOK, SendStatementFails
<1>14. CASE PushDone(p)
  <2>1. PICK result \in Returned : Return(p, result)
    BY <1>14 DEF LgType, TypeOK, PushDone, Returned
  <2>2. QED
    BY <1>14, <2>1, ReturnType DEF LgType, TypeOK, PushDone
<1>15. ASSUME stream[p] # <<>>, stream' = [stream EXCEPT ![p] = Tail(@)]
       PROVE  /\ Head(stream[p]) \in RecordsOf(p)
              /\ stream' \in [Pushes -> Seq(Records)]
              /\ \A q \in Pushes : stream'[q] \in Seq(RecordsOf(q)) /\ Len(stream'[q]) <= Cap
  <2>1. Tail(stream[p]) \in Seq(Records)
    BY <1>15, <1>d, StreamEnds
  <2>2. Head(stream[p]) \in RecordsOf(p) /\ Tail(stream[p]) \in Seq(RecordsOf(p))
        /\ Len(Tail(stream[p])) <= Cap
    BY <1>15, <1>a, <1>d, StreamEnds, LenProperties
  <2>3. QED
    BY <1>15, <2>1, <2>2 DEF LgType, TypeOK
<1>16. CASE Consume(p)
  <2>1. /\ newKeys' = [newKeys EXCEPT ![p] = IF KeyOf[Head(stream[p])] \in keysCache THEN @
                                             ELSE @ \cup {KeyOf[Head(stream[p])]}]
        /\ keysCache' = keysCache \cup {KeyOf[Head(stream[p])]}
        /\ rows' = [rows EXCEPT ![p] = @ \cup {Head(stream[p])}]
    BY <1>16 DEF Consume, AddKey
  <2>2. newKeys' \in [Pushes -> SUBSET Keys] /\ keysCache' \subseteq Keys
        /\ rows' \in [Pushes -> SUBSET Records]
    BY <1>16, <1>15, <1>b, <2>1 DEF LgType, TypeOK, Consume
  <2>3. QED
    BY <1>16, <1>15, <2>2 DEF LgType, TypeOK, Consume
<1>17. CASE ConsumeFails(p)
  <2>1. /\ newKeys' = [newKeys EXCEPT ![p] = IF KeyOf[Head(stream[p])] \in keysCache THEN @
                                             ELSE @ \cup {KeyOf[Head(stream[p])]}]
        /\ keysCache' = keysCache \cup {KeyOf[Head(stream[p])]}
    BY <1>17 DEF ConsumeFails, AddKey
  <2>2. newKeys' \in [Pushes -> SUBSET Keys] /\ keysCache' \subseteq Keys
    BY <1>17, <1>15, <1>b, <2>1 DEF LgType, TypeOK, ConsumeFails
  <2>3. failures' \in 0..MaxFailures
    BY <1>17, FailuresType DEF ConsumeFails
  <2>4. QED
    BY <1>17, <1>15, <2>2, <2>3 DEF LgType, TypeOK, ConsumeFails, Abort
<1>18. CASE ConsumerEnds(p)
  BY <1>18 DEF LgType, TypeOK, ConsumerEnds
<1>19. CASE CloseStream(p)
  BY <1>19 DEF LgType, TypeOK, CloseStream
<1>20. QED
  BY <1>1, <1>2, <1>3, <1>4, <1>5, <1>6, <1>7, <1>8, <1>9, <1>10, <1>11, <1>12, <1>13, <1>14,
     <1>16, <1>17, <1>18, <1>19 DEF MainStep, ConsumerStep

\* So do steps of a producer and of the other goroutines.
LEMMA ProducerKeepsTypes ==
  ASSUME LgType, NEW r \in Records, ProducerStep(r)
  PROVE  LgType'
<1> USE DEF groupVars, batchVars, cacheVars, tableVars, runVars, lifeVars
<1> DEFINE p == PushOf[r]
<1>a. p \in Pushes /\ r \in RecordsOf(p) /\ ResourceOf[r] \in Resources
  BY LogsExporterAssumption DEF RecordsOf, Resources
<1>1. CASE Skip(r)
  <2>1. failures' \in 0..MaxFailures
    BY <1>1, FailuresType DEF Skip
  <2>2. CASE r \in Old
    BY <1>1, <2>1, <2>2 DEF LgType, TypeOK, Skip
  <2>3. CASE r \notin Old
    BY <1>1, <1>a, <2>1, <2>3 DEF LgType, TypeOK, Skip, Abort
  <2>4. QED BY <2>2, <2>3
<1>2. CASE Fingerprint(r)
  <2>1. seen' \in [Pushes -> SUBSET Resources]
    BY <1>2, <1>a DEF LgType, TypeOK, Fingerprint
  <2>2. QED
    BY <1>2, <2>1 DEF LgType, TypeOK, Fingerprint
<1>3. CASE Send(r)
  <2> HIDE DEF p
  <2>1. /\ stream' = [stream EXCEPT ![p] = Append(stream[p], r)]
        /\ Len(stream[p]) < Cap /\ stream[p] \in Seq(RecordsOf(p)) /\ stream[p] \in Seq(Records)
    BY <1>3, <1>a DEF LgType, TypeOK, Send, p
  <2>2. Append(stream[p], r) \in Seq(RecordsOf(p)) /\ Append(stream[p], r) \in Seq(Records)
        /\ Len(Append(stream[p], r)) <= Cap
    BY <2>1, <1>a, StreamEnds, LenProperties, LogsExporterAssumption
  <2>3. /\ stream' \in [Pushes -> Seq(Records)]
        /\ \A q \in Pushes : stream'[q] \in Seq(RecordsOf(q)) /\ Len(stream'[q]) <= Cap
    BY <1>a, <2>1, <2>2 DEF LgType, TypeOK
  <2>4. prod' \in [Records -> {"none", "run", "send"}]
    BY <1>3 DEF LgType, TypeOK, Send
  <2>5. QED
    BY <1>3, <2>3, <2>4 DEF LgType, TypeOK, Send
<1>4. QED
  BY <1>1, <1>2, <1>3 DEF ProducerStep

\* The goroutine that fetches the keys to skip and Shutdown keep the types of the pushes'
\* state: they write only the fetcher's and the exporter's own fields.
LEMMA OthersKeepTypes ==
  ASSUME LgType,
         Fetch \/ FetchReturns \/ FetcherEnds \/ Shutdown \/ ShutdownEnd \/ UNCHANGED vars
  PROVE  LgType'
  BY DEF LgType, TypeOK, vars, groupVars, batchVars, cacheVars, tableVars, runVars, lifeVars,
         Fetch, FetchReturns, FetcherEnds, Shutdown, ShutdownEnd

-----------------------------------------------------------------------------
(* The invariant of a push *)

\* A step in which a push takes no part.
NotOf(q) ==
  /\ pc'[q] = pc[q] /\ ctxDone'[q] = ctxDone[q] /\ cancelled'[q] = cancelled[q]
  /\ groupErr'[q] = groupErr[q] /\ todo'[q] = todo[q] /\ stream'[q] = stream[q]
  /\ closer'[q] = closer[q] /\ consumer'[q] = consumer[q] /\ rows'[q] = rows[q]
  /\ pending'[q] = pending[q] /\ sendErr'[q] = sendErr[q]
  /\ \A r \in RecordsOf(q) : prod'[r] = prod[r]
  /\ logs \subseteq logs'

\* It does not break the invariant of that push.
LEMMA OtherPush ==
  ASSUME NEW q \in Pushes, PushInv(q), NotOf(q)
  PROVE  PushInv(q)'
<1>1. InStream(q)' = InStream(q)
  BY DEF NotOf, InStream
<1>2. Produced(q)' = Produced(q)
  BY DEF NotOf, Produced
<1>3. RecordsOf(q) \ Old \subseteq logs => RecordsOf(q) \ Old \subseteq logs'
  BY DEF NotOf
<1>4. FrameIsGone(q)' /\ AbortHasACause(q)' /\ LoopIsOver(q)' /\ ProducersAreDone(q)'
      /\ ConsumerIsOver(q)' /\ AllAppended(q)' /\ RowsAreSent(q)' /\ AckedIsStored(q)'
  BY <1>2, <1>3
  DEF PushInv, NotOf, FrameIsGone, AbortHasACause, LoopIsOver, ProducersAreDone,
      ConsumerIsOver, AllAppended, RowsAreSent, AckedIsStored
<1>5. NothingIsLost(q)'
  BY <1>1 DEF PushInv, NotOf, NothingIsLost, RecordsOf
<1>6. QED
  BY <1>4, <1>5 DEF PushInv

\* A call that returns leaves nothing behind.
LEMMA ReturnStep ==
  ASSUME LgType, NEW p \in Pushes, PushInv(p), pc[p] \notin {"loop", "wait"} \/ Produced(p),
         NEW result \in Returned, Return(p, result), logs \subseteq logs',
         result = "ok" => RecordsOf(p) \ Old \subseteq logs'
  PROVE  PushInv(p)' /\ \A q \in Pushes \ {p} : NotOf(q)
<1>1. \A q \in Pushes \ {p} : NotOf(q)
  BY DEF LgType, TypeOK, Return, Goto, NotOf
<1>2. /\ pc'[p] = result /\ result \notin Grouped
      /\ ~cancelled'[p] /\ ~groupErr'[p] /\ todo'[p] = {} /\ stream'[p] = <<>>
      /\ closer'[p] = "off" /\ consumer'[p] = "off" /\ rows'[p] = {}
      /\ pending'[p] = {} /\ sendErr'[p] = "nil"
  BY DEF LgType, TypeOK, Return, Goto, Grouped, Returned
<1>3. Produced(p)'
  BY DEF PushInv, ProducersAreDone, Return, Produced
<1>4. PushInv(p)'
  BY <1>2, <1>3
  DEF PushInv, FrameIsGone, AbortHasACause, NothingIsLost, LoopIsOver, ProducersAreDone,
      ConsumerIsOver, AllAppended, RowsAreSent, AckedIsStored, Grouped
<1>5. QED
  BY <1>1, <1>4

\* Begin and the goroutine of the call up to group.Wait.
LEMMA MainSteps ==
  ASSUME LgType, NEW p \in Pushes, PushInv(p),
         Begin(p) \/ CheckClosed(p) \/ Check(p) \/ Prepare(p) \/ PrepareFails(p) \/ Timeout(p)
         \/ Spawn(p) \/ LoopEnds(p) \/ GroupDone(p)
  PROVE  PushInv(p)' /\ \A q \in Pushes \ {p} : NotOf(q)
<1> USE DEF groupVars, batchVars, cacheVars, tableVars, runVars, lifeVars, Goto
<1>a. Returned = {"ok", "err", "dropped"} /\ "err" \in Returned
  BY DEF Returned
<1>1. CASE Begin(p)
  BY <1>1
  DEF Begin, LgType, TypeOK, NotOf, PushInv, FrameIsGone, AbortHasACause, NothingIsLost,
      LoopIsOver, ProducersAreDone, ConsumerIsOver, AllAppended, RowsAreSent, AckedIsStored,
      Grouped, Produced
<1>2. CASE CheckClosed(p)
  BY <1>2, <1>a, ReturnStep DEF CheckClosed
<1>3. CASE Check(p)
  BY <1>3
  DEF Check, LgType, TypeOK, NotOf, PushInv, FrameIsGone, AbortHasACause, NothingIsLost,
      LoopIsOver, ProducersAreDone, ConsumerIsOver, AllAppended, RowsAreSent, AckedIsStored,
      Grouped, Produced
<1>4. CASE Prepare(p)
  BY <1>4
  DEF Prepare, LgType, TypeOK, NotOf, PushInv, FrameIsGone, AbortHasACause, NothingIsLost,
      LoopIsOver, ProducersAreDone, ConsumerIsOver, AllAppended, RowsAreSent, AckedIsStored,
      Grouped, Produced
<1>5. CASE PrepareFails(p)
  BY <1>5, <1>a, ReturnStep DEF PrepareFails
<1>6. CASE Timeout(p)
  <2>1. cancelled'[p] = (cancelled[p] \/ pc[p] \in {"loop", "wait"}) /\ ctxDone'[p] = TRUE
        /\ \A q \in Pushes \ {p} : cancelled'[q] = cancelled[q] /\ ctxDone'[q] = ctxDone[q]
    BY <1>6 DEF Timeout, LgType, TypeOK
  <2>2. InStream(p)' = InStream(p)
    BY <1>6 DEF Timeout, InStream
  <2>3. QED
    BY <1>6, <2>1, <2>2
    DEF Timeout, NotOf, PushInv, FrameIsGone, AbortHasACause, NothingIsLost,
        LoopIsOver, ProducersAreDone, ConsumerIsOver, AllAppended, RowsAreSent, AckedIsStored,
        Grouped, Produced
<1>7. CASE Spawn(p)
  <2>1. PICK r \in todo[p] : /\ todo' = [todo EXCEPT ![p] = @ \ {r}]
                             /\ prod' = [prod EXCEPT ![r] = "run"]
    BY <1>7 DEF Spawn
  <2>2. r \in RecordsOf(p) /\ r \in Records /\ PushOf[r] = p
    BY <2>1 DEF PushInv, LoopIsOver, RecordsOf
  <2>3. \A q \in Pushes \ {p} : NotOf(q)
    BY <1>7, <2>1, <2>2 DEF Spawn, LgType, TypeOK, NotOf, RecordsOf
  <2>4. InStream(p)' = InStream(p)
    BY <1>7 DEF Spawn, InStream
  <2>5. todo'[p] = todo[p] \ {r} /\ \A x \in Records : prod'[x] = IF x = r THEN "run" ELSE prod[x]
    BY <2>1, <2>2 DEF LgType, TypeOK
  <2>6. NothingIsLost(p)'
    BY <1>7, <2>4, <2>5 DEF Spawn, PushInv, NothingIsLost, RecordsOf
  <2>7. QED
    BY <1>7, <2>3, <2>5, <2>6
    DEF Spawn, PushInv, FrameIsGone, AbortHasACause, LoopIsOver, ProducersAreDone,
        ConsumerIsOver, AllAppended, RowsAreSent, AckedIsStored, Grouped
<1>8. CASE LoopEnds(p)
  <2>1. InStream(p)' = InStream(p)
    BY <1>8 DEF LoopEnds, InStream
  <2>2. QED
    BY <1>8, <2>1
    DEF LoopEnds, LgType, TypeOK, NotOf, PushInv, FrameIsGone, AbortHasACause, NothingIsLost,
        LoopIsOver, ProducersAreDone, ConsumerIsOver, AllAppended, RowsAreSent, AckedIsStored,
        Grouped, Produced
<1>9. CASE GroupDone(p)
  <2>1. CASE groupErr[p]
    BY <1>9, <2>1, <1>a, ReturnStep DEF GroupDone
  <2>2. CASE ~groupErr[p]
    <3>1. InStream(p)' = InStream(p)
      BY <1>9, <2>2 DEF GroupDone, InStream
    <3>2. QED
      BY <1>9, <2>2, <3>1
      DEF GroupDone, LgType, TypeOK, NotOf, PushInv, FrameIsGone, AbortHasACause, NothingIsLost,
          LoopIsOver, ProducersAreDone, ConsumerIsOver, AllAppended, RowsAreSent, AckedIsStored,
          Grouped, Produced
  <2>3. QED BY <2>1, <2>2
<1>10. QED
  BY <1>1, <1>2, <1>3, <1>4, <1>5, <1>6, <1>7, <1>8, <1>9

\* The rest of pushToClickhouse.
LEMMA SendSteps ==
  ASSUME LgType, NEW p \in Pushes, PushInv(p),
         AppendResources(p) \/ AppendResourcesFails(p) \/ SendStatement(p)
         \/ SendStatementFails(p) \/ PushDone(p)
  PROVE  PushInv(p)' /\ \A q \in Pushes \ {p} : NotOf(q)
<1> USE DEF groupVars, batchVars, cacheVars, tableVars, runVars, lifeVars, Goto
<1>1. CASE AppendResources(p)
  <2>1. ~cancelled[p]
    BY <1>1 DEF AppendResources, PushInv, AbortHasACause, ConsumerIsOver
  <2>2. todo[p] = {} /\ Produced(p) /\ stream[p] = <<>>
    BY <1>1, <2>1
    DEF AppendResources, PushInv, LoopIsOver, ProducersAreDone, ConsumerIsOver, Grouped
  <2>3. InStream(p) = {}
    BY <2>2 DEF InStream
  <2>4. RecordsOf(p) \ Old \subseteq rows[p]
    BY <1>1, <2>1, <2>2, <2>3
    DEF AppendResources, PushInv, NothingIsLost, Produced, Grouped
  <2>5. InStream(p)' = InStream(p)
    BY <1>1 DEF AppendResources, InStream
  <2>6. QED
    BY <1>1, <2>4, <2>5
    DEF AppendResources, LgType, TypeOK, NotOf, PushInv, FrameIsGone, AbortHasACause,
        NothingIsLost, LoopIsOver, ProducersAreDone, ConsumerIsOver, AllAppended, RowsAreSent,
        AckedIsStored, Grouped, Produced, Statements
<1>2. CASE AppendResourcesFails(p)
  BY <1>2, ReturnStep DEF AppendResourcesFails, Returned
<1>3. ASSUME NEW t \in pending[p], pending' = [pending EXCEPT ![p] = @ \ {t}], pc[p] = "send",
             UNCHANGED <<pc, ctxDone, groupVars, rows>>, logs \subseteq logs',
             sendErr' \in [Pushes -> {"nil", "err", "code252"}],
             \A q \in Pushes \ {p} : sendErr'[q] = sendErr[q],
             sendErr'[p] = "nil" => sendErr[p] = "nil" /\ (t = "logs" => rows[p] \subseteq logs')
      PROVE  PushInv(p)' /\ \A q \in Pushes \ {p} : NotOf(q)
  <2>1. InStream(p)' = InStream(p)
    BY <1>3 DEF InStream
  <2>2. pending'[p] = pending[p] \ {t}
    BY <1>3 DEF LgType, TypeOK
  <2>3. RowsAreSent(p)'
    BY <1>3, <2>2 DEF PushInv, RowsAreSent
  <2>4. QED
    BY <1>3, <2>1, <2>3
    DEF LgType, TypeOK, NotOf, PushInv, FrameIsGone, AbortHasACause, NothingIsLost, LoopIsOver,
        ProducersAreDone, ConsumerIsOver, AllAppended, AckedIsStored, Grouped, Produced
<1>4. CASE SendStatement(p)
  <2>1. PICK t \in pending[p] : Inserted(p, t) /\ pending' = [pending EXCEPT ![p] = @ \ {t}]
    BY <1>4 DEF SendStatement
  <2>2. logs \subseteq logs' /\ (t = "logs" => rows[p] \subseteq logs')
    BY <2>1 DEF Inserted
  <2>3. QED
    BY <1>3, <1>4, <2>1, <2>2 DEF SendStatement, LgType, TypeOK
<1>5. CASE SendStatementFails(p)
  <2>1. PICK t \in pending[p], e \in {"err", "code252"} :
               /\ Inserted(p, t) \/ UNCHANGED tableVars
               /\ pending' = [pending EXCEPT ![p] = @ \ {t}]
               /\ sendErr' = [sendErr EXCEPT ![p] = IF @ = "nil" THEN e ELSE @]
    BY <1>5 DEF SendStatementFails
  <2>2. logs \subseteq logs'
    BY <2>1 DEF Inserted
  <2>3. sendErr' \in [Pushes -> {"nil", "err", "code252"}] /\ sendErr'[p] # "nil"
        /\ \A q \in Pushes \ {p} : sendErr'[q] = sendErr[q]
    BY <2>1 DEF LgType, TypeOK
  <2>4. QED
    BY <1>3, <1>5, <2>1, <2>2, <2>3 DEF SendStatementFails
<1>6. CASE PushDone(p)
  <2>1. PICK result \in Returned : Return(p, result) /\ (result = "ok" => sendErr[p] = "nil")
    BY <1>6 DEF LgType, TypeOK, PushDone, Returned
  <2>2. result = "ok" => RecordsOf(p) \ Old \subseteq logs
    BY <1>6, <2>1 DEF PushDone, PushInv, AllAppended, RowsAreSent
  <2>3. QED
    BY <1>6, <2>1, <2>2, ReturnStep DEF PushDone
<1>7. QED
  BY <1>1, <1>2, <1>4, <1>5, <1>6

\* The consumer and the closer.
LEMMA ConsumerSteps ==
  ASSUME LgType, NEW p \in Pushes, PushInv(p), ConsumerStep(p) \/ CloseStream(p)
  PROVE  PushInv(p)' /\ \A q \in Pushes \ {p} : NotOf(q)
<1> USE DEF groupVars, batchVars, cacheVars, tableVars, runVars, lifeVars
<1>1. CASE Consume(p)
  <2>1. stream[p] \in Seq(Records) /\ stream[p] # <<>>
    BY <1>1 DEF Consume, LgType
  <2>2. stream'[p] = Tail(stream[p]) /\ rows'[p] = rows[p] \cup {Head(stream[p])}
        /\ \A q \in Pushes \ {p} : stream'[q] = stream[q] /\ rows'[q] = rows[q]
    BY <1>1 DEF Consume, LgType, TypeOK
  <2>3. InStream(p) = InStream(p)' \cup {Head(stream[p])}
    <3>1. \A i \in DOMAIN stream[p] : \/ i = 1
                                      \/ /\ i - 1 \in DOMAIN Tail(stream[p])
                                         /\ Tail(stream[p])[i - 1] = stream[p][i]
      BY <2>1
    <3>2. \A i \in DOMAIN Tail(stream[p]) : i + 1 \in DOMAIN stream[p]
                                            /\ Tail(stream[p])[i] = stream[p][i + 1]
      BY <2>1
    <3>3. Head(stream[p]) = stream[p][1] /\ 1 \in DOMAIN stream[p]
      BY <2>1
    <3>4. InStream(p) \subseteq InStream(p)' \cup {Head(stream[p])}
      BY <2>2, <3>1, <3>3 DEF InStream
    <3>5. InStream(p)' \subseteq InStream(p)
      BY <2>2, <3>2 DEF InStream
    <3>6. QED
      BY <3>3, <3>4, <3>5 DEF InStream
  <2>4. NothingIsLost(p)'
    BY <1>1, <2>2, <2>3 DEF Consume, PushInv, NothingIsLost
  <2>5. consumer[p] = "run" /\ pc[p] \in {"loop", "wait"}
    BY <1>1 DEF Consume, PushInv, FrameIsGone, ConsumerIsOver, Grouped
  <2>6. QED
    BY <1>1, <2>2, <2>4, <2>5
    DEF Consume, NotOf, PushInv, FrameIsGone, AbortHasACause, LoopIsOver, ProducersAreDone,
        ConsumerIsOver, AllAppended, RowsAreSent, AckedIsStored, Grouped, Produced
<1>2. CASE ConsumeFails(p)
  <2>1. consumer[p] = "run" /\ pc[p] \in {"loop", "wait"}
    BY <1>2 DEF ConsumeFails, PushInv, FrameIsGone, ConsumerIsOver, Grouped
  <2>2. QED
    BY <1>2, <2>1
    DEF ConsumeFails, Abort, LgType, TypeOK, NotOf, PushInv, FrameIsGone, AbortHasACause,
        NothingIsLost, LoopIsOver, ProducersAreDone, ConsumerIsOver, AllAppended, RowsAreSent,
        AckedIsStored, Grouped, Produced
<1>3. CASE ConsumerEnds(p)
  <2>1. InStream(p)' = InStream(p)
    BY <1>3 DEF ConsumerEnds, InStream
  <2>2. QED
    BY <1>3, <2>1
    DEF ConsumerEnds, LgType, TypeOK, NotOf, PushInv, FrameIsGone, AbortHasACause,
        NothingIsLost, LoopIsOver, ProducersAreDone, ConsumerIsOver, AllAppended, RowsAreSent,
        AckedIsStored, Grouped, Produced
<1>4. CASE CloseStream(p)
  <2>1. InStream(p)' = InStream(p)
    BY <1>4 DEF CloseStream, InStream
  <2>2. pc[p] \in Grouped \ {"loop"}
    BY <1>4 DEF CloseStream, PushInv, FrameIsGone, ProducersAreDone, Grouped
  <2>3. QED
    BY <1>4, <2>1, <2>2
    DEF CloseStream, LgType, TypeOK, NotOf, PushInv, FrameIsGone, AbortHasACause,
        NothingIsLost, LoopIsOver, ProducersAreDone, ConsumerIsOver, AllAppended, RowsAreSent,
        AckedIsStored, Grouped, Produced
<1>5. QED
  BY <1>1, <1>2, <1>3, <1>4 DEF ConsumerStep

\* A producer, which belongs to the push of its record.
LEMMA ProducerSteps ==
  ASSUME LgType, NEW r \in Records, \A p \in Pushes : PushInv(p), ProducerStep(r)
  PROVE  PushInv(PushOf[r])' /\ \A q \in Pushes \ {PushOf[r]} : NotOf(q)
<1> USE DEF groupVars, batchVars, cacheVars, tableVars, runVars, lifeVars
<1> DEFINE p == PushOf[r]
<1>a. p \in Pushes /\ r \in RecordsOf(p)
  BY LogsExporterAssumption DEF RecordsOf
<1>b. \A q \in Pushes \ {p} : r \notin RecordsOf(q)
  BY DEF RecordsOf
<1> HIDE DEF p
<1>c. PushInv(p)
  BY <1>a
<1>d. prod[r] # "none" /\ prod' \in [Records -> {"none", "run", "send"}]
      /\ \A x \in Records \ {r} : prod'[x] = prod[x]
  <2>1. \E v \in {"none", "send"} : prod' = [prod EXCEPT ![r] = v]
    BY DEF ProducerStep, Skip, Fingerprint, Send
  <2>2. prod \in [Records -> {"none", "run", "send"}]
    BY DEF LgType, TypeOK
  <2>3. prod[r] # "none"
    BY DEF ProducerStep, Skip, Fingerprint, Send
  <2>4. QED
    BY <2>1, <2>2, <2>3
<1>e. \A q \in Pushes \ {p} : \A x \in RecordsOf(q) : prod'[x] = prod[x]
  BY <1>b, <1>d DEF RecordsOf
<1>f. pc[p] \in {"loop", "wait"} /\ closer[p] # "closed"
  BY <1>a, <1>c, <1>d DEF PushInv, ProducersAreDone, Produced
<1>g. pc[p] \in Grouped /\ pc[p] \notin {"ok", "send", "resources"}
  BY <1>f DEF Grouped
<1>1. CASE Skip(r)
  <2>1. CASE r \in Old
    <3>1. InStream(p)' = InStream(p)
      BY <1>1 DEF Skip, InStream
    <3>2. NothingIsLost(p)'
      BY <1>1, <2>1, <3>1, <1>c, <1>d DEF Skip, PushInv, NothingIsLost, RecordsOf
    <3>3. QED
      BY <1>1, <2>1, <3>2, <1>c, <1>e, <1>f, <1>g
      DEF p, Skip, NotOf, PushInv, FrameIsGone, AbortHasACause, LoopIsOver, ProducersAreDone,
          ConsumerIsOver, AllAppended, RowsAreSent, AckedIsStored
  <2>2. CASE r \notin Old
    <3>1. groupErr'[p] /\ cancelled'[p]
          /\ \A q \in Pushes \ {p} : groupErr'[q] = groupErr[q] /\ cancelled'[q] = cancelled[q]
      BY <1>1, <2>2, <1>a DEF p, Skip, Abort, LgType, TypeOK
    <3>2. QED
      BY <1>1, <3>1, <1>c, <1>e, <1>f, <1>g
      DEF p, Skip, NotOf, PushInv, FrameIsGone, AbortHasACause, NothingIsLost, LoopIsOver,
          ProducersAreDone, ConsumerIsOver, AllAppended, RowsAreSent, AckedIsStored
  <2>3. QED BY <2>1, <2>2
<1>2. CASE Fingerprint(r)
  <2>1. InStream(p)' = InStream(p)
    BY <1>2 DEF Fingerprint, InStream
  <2>2. prod'[r] = "send"
    BY <1>2 DEF Fingerprint, LgType, TypeOK
  <2>3. NothingIsLost(p)'
    BY <1>2, <2>1, <2>2, <1>c, <1>d DEF Fingerprint, PushInv, NothingIsLost, RecordsOf
  <2>4. QED
    BY <1>2, <2>3, <1>c, <1>e, <1>f, <1>g
    DEF p, Fingerprint, NotOf, PushInv, FrameIsGone, AbortHasACause, LoopIsOver,
        ProducersAreDone, ConsumerIsOver, AllAppended, RowsAreSent, AckedIsStored
<1>3. CASE Send(r)
  <2>1. stream[p] \in Seq(Records) /\ stream'[p] = Append(stream[p], r)
        /\ \A q \in Pushes \ {p} : stream'[q] = stream[q]
    BY <1>3, <1>a DEF p, Send, LgType, TypeOK
  <2>2. InStream(p)' = InStream(p) \cup {r}
    <3>1. /\ DOMAIN Append(stream[p], r) = DOMAIN stream[p] \cup {Len(stream[p]) + 1}
          /\ \A i \in DOMAIN stream[p] : Append(stream[p], r)[i] = stream[p][i]
          /\ Append(stream[p], r)[Len(stream[p]) + 1] = r
      BY <2>1
    <3>2. InStream(p)' = {Append(stream[p], r)[i] : i \in DOMAIN Append(stream[p], r)}
      BY <2>1 DEF InStream
    <3>3. ASSUME NEW x PROVE x \in InStream(p)' <=> x \in InStream(p) \/ x = r
      BY <3>1, <3>2, Zenon DEF InStream
    <3>4. QED
      BY <3>3
  <2>3. NothingIsLost(p)'
    BY <1>3, <2>2, <1>c, <1>d DEF Send, PushInv, NothingIsLost, RecordsOf
  <2>4. \A q \in Pushes \ {p} : NotOf(q)
    BY <1>3, <2>1, <1>e DEF Send, NotOf
  <2>5. QED
    BY <1>3, <2>3, <2>4, <1>c, <1>f, <1>g
    DEF p, Send, PushInv, FrameIsGone, AbortHasACause, LoopIsOver, ProducersAreDone,
        ConsumerIsOver, AllAppended, RowsAreSent, AckedIsStored
<1>4. QED
  BY <1>1, <1>2, <1>3 DEF ProducerStep, p

\* The fetching of keys and Shutdown leave the pushes alone.
LEMMA OtherSteps ==
  ASSUME NEW q \in Pushes,
         Fetch \/ FetchReturns \/ FetcherEnds \/ Shutdown \/ ShutdownEnd \/ UNCHANGED vars
  PROVE  NotOf(q)
  BY DEF NotOf, Fetch, FetchReturns, FetcherEnds, Shutdown, ShutdownEnd, vars, groupVars,
         batchVars, cacheVars, tableVars, runVars, lifeVars

-----------------------------------------------------------------------------
(* Shutdown *)

\* What a step of a push does when the exporter is down: it begins and is refused.
LEMMA DownStaysQuiet ==
  ASSUME LgType, DownIsQuiet, [Next]_vars
  PROVE  DownIsQuiet'
<1> USE DEF groupVars, batchVars, cacheVars, tableVars, runVars, lifeVars
<1>1. CASE UNCHANGED vars
  BY <1>1 DEF vars, DownIsQuiet
<1>2. CASE Fetch \/ FetchReturns \/ FetcherEnds \/ Shutdown \/ ShutdownEnd
  BY <1>2 DEF DownIsQuiet, Fetch, FetchReturns, FetcherEnds, Shutdown, ShutdownEnd
<1>3. ASSUME NEW r \in Records, ProducerStep(r) PROVE DownIsQuiet'
  BY <1>3 DEF DownIsQuiet, ProducerStep, Skip, Fingerprint, Send
<1>4. ASSUME NEW p \in Pushes, ConsumerStep(p) \/ CloseStream(p) \/ Spawn(p) \/ Timeout(p)
      PROVE DownIsQuiet'
  BY <1>4
  DEF DownIsQuiet, ConsumerStep, Consume, ConsumeFails, ConsumerEnds, CloseStream, Spawn, Timeout
<1>5. ASSUME NEW p \in Pushes, Begin(p) \/ MainStep(p) PROVE DownIsQuiet'
  <2>1. UNCHANGED <<closed, sd>>
    BY <1>5
    DEF Begin, MainStep, CheckClosed, Check, Prepare, PrepareFails, LoopEnds, GroupDone,
        AppendResources, AppendResourcesFails, SendStatement, SendStatementFails, PushDone
  <2>2. ASSUME sd = "down" PROVE pc' \in [Pushes -> Outside \cup {"check"}]
    <3>1. pc \in [Pushes -> Outside \cup {"check"}] /\ closed
      BY <2>2 DEF DownIsQuiet, LgType, TypeOK
    <3>2. CASE Begin(p)
      BY <3>1, <3>2 DEF Begin, Goto
    <3>3. CASE MainStep(p)
      <4>1. CheckClosed(p)
        BY <1>5, <3>1, <3>3
        DEF MainStep, Check, Prepare, PrepareFails, LoopEnds, GroupDone, AppendResources,
            AppendResourcesFails, SendStatement, SendStatementFails, PushDone, Outside, Returned
      <4>2. QED
        BY <3>1, <4>1 DEF CheckClosed, Return, Goto, Outside, Returned
    <3>4. QED BY <1>5, <3>2, <3>3
  <2>3. QED
    BY <2>1, <2>2 DEF DownIsQuiet
<1>6. QED
  BY <1>1, <1>2, <1>3, <1>4, <1>5 DEF Next

-----------------------------------------------------------------------------
(* The invariant *)

\* A new logs exporter satisfies the invariant.
LEMMA LgInit == Init => LgInv
<1> SUFFICES ASSUME Init PROVE LgInv
  OBVIOUS
<1>1. LgType
  <2>1. <<>> \in Seq(Records) /\ \A p \in Pushes : <<>> \in Seq(RecordsOf(p)) /\ Len(<<>>) <= Cap
    BY LogsExporterAssumption DEF RecordsOf
  <2>2. [p \in Pushes |-> FALSE] \in [Pushes -> BOOLEAN]
    BY Zenon
  <2>3. 0 \in 0..MaxFailures
    BY LogsExporterAssumption
  <2>4. QED
    BY <2>1, <2>2, <2>3 DEF LgType, TypeOK, Init, Idle, Outside
<1>2. \A p \in Pushes : PushInv(p)
  BY DEF Init, Idle, PushInv, FrameIsGone, AbortHasACause, NothingIsLost, LoopIsOver,
         ProducersAreDone, ConsumerIsOver, AllAppended, RowsAreSent, AckedIsStored, Grouped,
         Produced, RecordsOf
<1>3. DownIsQuiet
  BY DEF Init, DownIsQuiet
<1>4. QED
  BY <1>1, <1>2, <1>3 DEF LgInv

\* Every step of the logs exporter, or a stutter, keeps the invariant.
LEMMA LgStep == LgInv /\ [Next]_vars => LgInv'
<1> SUFFICES ASSUME LgInv, [Next]_vars PROVE LgInv'
  OBVIOUS
<1>a. LgType /\ DownIsQuiet /\ \A p \in Pushes : PushInv(p)
  BY DEF LgInv
<1>1. ASSUME NEW p \in Pushes,
             Begin(p) \/ Timeout(p) \/ Spawn(p) \/ MainStep(p) \/ ConsumerStep(p) \/ CloseStream(p)
      PROVE  LgType' /\ \A q \in Pushes : PushInv(q)'
  <2>1. LgType'
    BY <1>a, <1>1, PushKeepsTypes
  <2>2. PushInv(p)' /\ \A q \in Pushes \ {p} : NotOf(q)
    BY <1>a, <1>1, MainSteps, SendSteps, ConsumerSteps DEF MainStep
  <2>3. QED
    BY <1>a, <2>1, <2>2, OtherPush
<1>2. ASSUME NEW r \in Records, ProducerStep(r)
      PROVE  LgType' /\ \A q \in Pushes : PushInv(q)'
  <2>1. LgType'
    BY <1>a, <1>2, ProducerKeepsTypes
  <2>2. PushInv(PushOf[r])' /\ \A q \in Pushes \ {PushOf[r]} : NotOf(q)
    BY <1>a, <1>2, ProducerSteps
  <2>3. QED
    BY <1>a, <2>1, <2>2, OtherPush
<1>3. ASSUME Fetch \/ FetchReturns \/ FetcherEnds \/ Shutdown \/ ShutdownEnd \/ UNCHANGED vars
      PROVE  LgType' /\ \A q \in Pushes : PushInv(q)'
  BY <1>a, <1>3, OthersKeepTypes, OtherSteps, OtherPush
<1>4. LgType' /\ \A q \in Pushes : PushInv(q)'
  BY <1>1, <1>2, <1>3 DEF Next
<1>5. DownIsQuiet'
  BY <1>a, DownStaysQuiet
<1>6. QED
  BY <1>4, <1>5 DEF LgInv

\* The types of the logs exporter, and the invariant of its pushes.
THEOREM LogsExporterInvariant == Spec => [](TypeOK /\ LgInv)
<1>1. LgInv => TypeOK
  BY DEF LgInv, LgType
<1>2. QED
  BY LgInit, LgStep, <1>1, PTL DEF Spec

-----------------------------------------------------------------------------
(* The logs exporter is a sink. *)

\* The table only grows, and only while the connection is open.
LEMMA RowsStay ==
  ASSUME LgInv, Next
  PROVE  logs \subseteq logs' /\ (sd = "down" => UNCHANGED <<logs, sd>>)
<1> USE DEF groupVars, batchVars, cacheVars, tableVars, runVars, lifeVars
<1>1. ASSUME NEW p \in Pushes, SendStatement(p) \/ SendStatementFails(p)
      PROVE  logs \subseteq logs' /\ sd # "down"
  <2>1. sd # "down"
    BY <1>1
    DEF LgInv, DownIsQuiet, SendStatement, SendStatementFails, Outside, Returned
  <2>2. logs \subseteq logs'
    <3>1. \E t : Inserted(p, t) \/ UNCHANGED tableVars
      BY <1>1 DEF SendStatement, SendStatementFails
    <3>2. QED
      BY <3>1 DEF Inserted
  <2>3. QED BY <2>1, <2>2
<1>2. ASSUME NEW p \in Pushes,
             Begin(p) \/ Timeout(p) \/ Spawn(p) \/ ConsumerStep(p) \/ CloseStream(p)
             \/ CheckClosed(p) \/ Check(p) \/ Prepare(p) \/ PrepareFails(p) \/ LoopEnds(p)
             \/ GroupDone(p) \/ AppendResources(p) \/ AppendResourcesFails(p) \/ PushDone(p)
      PROVE  UNCHANGED <<logs, sd>>
  BY <1>2
  DEF Begin, Timeout, Spawn, ConsumerStep, Consume, ConsumeFails, ConsumerEnds, CloseStream,
      CheckClosed, Check, Prepare, PrepareFails, LoopEnds, GroupDone, AppendResources,
      AppendResourcesFails, PushDone
<1>3. ASSUME NEW r \in Records, ProducerStep(r) PROVE UNCHANGED <<logs, sd>>
  BY <1>3 DEF ProducerStep, Skip, Fingerprint, Send
<1>4. ASSUME Fetch \/ FetchReturns \/ FetcherEnds \/ Shutdown \/ ShutdownEnd
      PROVE  UNCHANGED logs /\ (sd = "down" => UNCHANGED sd)
  BY <1>4 DEF Fetch, FetchReturns, FetcherEnds, Shutdown, ShutdownEnd
<1>5. QED
  BY <1>1, <1>2, <1>3, <1>4 DEF Next, MainStep

\* Shutdown itself writes nothing.
LEMMA SdStep ==
  ASSUME Next, sd' # sd
  PROVE  UNCHANGED logs
<1> USE DEF groupVars, batchVars, cacheVars, tableVars, runVars, lifeVars
<1>1. ASSUME NEW p \in Pushes,
             Begin(p) \/ Timeout(p) \/ Spawn(p) \/ ConsumerStep(p) \/ CloseStream(p) \/ MainStep(p)
      PROVE  UNCHANGED sd
  BY <1>1
  DEF Begin, Timeout, Spawn, ConsumerStep, Consume, ConsumeFails, ConsumerEnds, CloseStream,
      MainStep, CheckClosed, Check, Prepare, PrepareFails, LoopEnds, GroupDone, AppendResources,
      AppendResourcesFails, SendStatement, SendStatementFails, PushDone
<1>2. ASSUME NEW r \in Records, ProducerStep(r) PROVE UNCHANGED sd
  BY <1>2 DEF ProducerStep, Skip, Fingerprint, Send
<1>3. Fetch \/ FetchReturns \/ FetcherEnds \/ Shutdown \/ ShutdownEnd
  BY <1>1, <1>2 DEF Next
<1>4. QED
  BY <1>3 DEF Fetch, FetchReturns, FetcherEnds, Shutdown, ShutdownEnd

\* A push returns nil at the end of its sends only, and no push that has leaves
\* that state.
LEMMA AcksStay ==
  ASSUME LgInv, Next
  PROVE  \/ UNCHANGED AckedBatches
         \/ \E p \in Pushes : /\ PushDone(p) /\ AckedBatches' = AckedBatches \cup {p}
                              /\ sd # "down" /\ UNCHANGED <<logs, sd>>
<1> USE DEF groupVars, batchVars, cacheVars, tableVars, runVars, lifeVars
<1>a. pc \in [Pushes -> Outside \cup {"check", "prepare", "loop", "wait", "resources", "send"}]
  BY DEF LgInv, LgType, TypeOK
<1>1. CASE UNCHANGED pc
  BY <1>1 DEF AckedBatches
<1>2. ASSUME NEW p \in Pushes, NEW label,
             pc' = [pc EXCEPT ![p] = label], pc[p] # "ok", label # "ok"
      PROVE  UNCHANGED AckedBatches
  BY <1>2, <1>a DEF AckedBatches
<1>3. ASSUME NEW p \in Pushes, PushDone(p)
      PROVE  \/ UNCHANGED AckedBatches
             \/ /\ PushDone(p) /\ AckedBatches' = AckedBatches \cup {p}
                /\ sd # "down" /\ UNCHANGED <<logs, sd>>
  <2>1. pc[p] = "send" /\ UNCHANGED <<logs, sd>>
    BY <1>3 DEF PushDone
  <2>2. PICK result \in Returned : pc' = [pc EXCEPT ![p] = result]
    BY <1>3 DEF PushDone, Return, Goto, Returned, LgInv, LgType, TypeOK
  <2>3. CASE result = "ok"
    <3>1. AckedBatches' = AckedBatches \cup {p}
      BY <1>a, <2>2, <2>3 DEF AckedBatches
    <3>2. sd # "down"
      BY <2>1 DEF LgInv, DownIsQuiet, Outside, Returned
    <3>3. QED
      BY <1>3, <2>1, <3>1, <3>2
  <2>4. CASE result # "ok"
    BY <1>2, <2>1, <2>2, <2>4
  <2>5. QED BY <2>3, <2>4
<1>4. ASSUME NEW p \in Pushes, Begin(p) \/ CheckClosed(p) \/ Check(p) \/ Prepare(p)
             \/ PrepareFails(p) \/ LoopEnds(p) \/ GroupDone(p) \/ AppendResources(p)
             \/ AppendResourcesFails(p)
      PROVE  UNCHANGED AckedBatches
  <2>1. \E label \in {"err", "check", "prepare", "loop", "wait", "resources", "send"} :
           pc' = [pc EXCEPT ![p] = label]
    BY <1>4
    DEF Begin, CheckClosed, Check, Prepare, PrepareFails, LoopEnds, GroupDone, AppendResources,
        AppendResourcesFails, Return, Goto
  <2>2. pc[p] # "ok"
    BY <1>4
    DEF Begin, CheckClosed, Check, Prepare, PrepareFails, LoopEnds, GroupDone, AppendResources,
        AppendResourcesFails
  <2>3. QED
    BY <1>2, <2>1, <2>2
<1>5. ASSUME NEW p \in Pushes,
             Timeout(p) \/ Spawn(p) \/ ConsumerStep(p) \/ CloseStream(p)
             \/ SendStatement(p) \/ SendStatementFails(p)
      PROVE  UNCHANGED pc
  BY <1>5
  DEF Timeout, Spawn, ConsumerStep, Consume, ConsumeFails, ConsumerEnds, CloseStream,
      SendStatement, SendStatementFails
<1>6. ASSUME NEW r \in Records, ProducerStep(r) PROVE UNCHANGED pc
  BY <1>6 DEF ProducerStep, Skip, Fingerprint, Send
<1>7. ASSUME Fetch \/ FetchReturns \/ FetcherEnds \/ Shutdown \/ ShutdownEnd
      PROVE  UNCHANGED pc
  BY <1>7 DEF Fetch, FetchReturns, FetcherEnds, Shutdown, ShutdownEnd
<1> HIDE DEF AckedBatches, groupVars, batchVars, cacheVars, tableVars, runVars, lifeVars
<1>8. QED
  BY <1>1, <1>3, <1>4, <1>5, <1>6, <1>7 DEF Next, MainStep

\* Every step of the logs exporter is one of the sink, or none to it.
LEMMA StepIsASinkStep == LgInv /\ LgInv' /\ [Next]_vars => [S!Next]_S!sinkVars
<1> SUFFICES ASSUME LgInv, LgInv', [Next]_vars PROVE [S!Next]_S!sinkVars
  OBVIOUS
<1>1. CASE UNCHANGED vars
  <2>1. UNCHANGED <<logs, pc, sd>>
    BY <1>1 DEF vars, tableVars, lifeVars, runVars
  <2>2. QED
    BY <2>1 DEF S!sinkVars, StoredBatches, AckedBatches
<1>2. CASE Next
  <2>1. logs \subseteq logs' /\ (sd = "down" => UNCHANGED <<logs, sd>>)
    BY <1>2, RowsStay
  <2>2. StoredBatches \subseteq StoredBatches' /\ StoredBatches' \in SUBSET Pushes
        /\ (UNCHANGED logs => UNCHANGED StoredBatches)
    BY <2>1 DEF StoredBatches
  <2>3. CASE UNCHANGED AckedBatches
    <3>1. CASE UNCHANGED sd
      <4>1. CASE sd # "down"
        BY <2>2, <2>3, <3>1, <4>1 DEF S!Next, S!Store
      <4>2. CASE sd = "down"
        BY <2>1, <2>2, <2>3, <3>1, <4>2 DEF S!sinkVars
      <4>3. QED BY <4>1, <4>2
    <3>2. CASE sd' # sd
      <4>1. UNCHANGED logs
        BY <1>2, <3>2, SdStep
      <4>2. sd # "down"
        BY <2>1, <3>2
      <4>3. CASE sd' = "down"
        BY <2>2, <2>3, <4>1, <4>3 DEF S!Next, S!Close
      <4>4. CASE sd' # "down"
        BY <2>2, <2>3, <4>1, <4>2, <4>4 DEF S!sinkVars
      <4>5. QED BY <4>3, <4>4
    <3>3. QED BY <3>1, <3>2
  <2>4. CASE \E p \in Pushes : /\ PushDone(p) /\ AckedBatches' = AckedBatches \cup {p}
                               /\ sd # "down" /\ UNCHANGED <<logs, sd>>
    <3>1. PICK p \in Pushes : /\ AckedBatches' = AckedBatches \cup {p}
                              /\ sd # "down" /\ UNCHANGED <<logs, sd>>
      BY <2>4
    <3>2. p \in StoredBatches
      <4>1. pc'[p] = "ok"
        BY <3>1 DEF AckedBatches
      <4>2. RecordsOf(p) \ Old \subseteq logs'
        BY <4>1 DEF LgInv, PushInv, AckedIsStored
      <4>3. QED
        BY <3>1, <4>2 DEF StoredBatches
    <3>3. S!Ack(p)
      BY <2>2, <3>1, <3>2 DEF S!Ack
    <3>4. QED
      BY <3>3 DEF S!Next
  <2>5. QED
    BY <1>2, <2>3, <2>4, AcksStay
<1>3. QED
  BY <1>1, <1>2

\* The logs exporter implements the sink: whatever fails, retries or is cancelled,
\* and whenever Shutdown comes, a push returns nil only when the rows of the
\* batch are in ClickHouse (or the batch was dropped for its partitions), and
\* nothing is written or acknowledged after Shutdown.
THEOREM LogsExporterIsASink == Spec => LogsImplementsSink
<1>1. Init => S!Init
  BY DEF Init, Idle, S!Init, StoredBatches, AckedBatches
<1>2. QED
  BY <1>1, LgInit, LgStep, StepIsASinkStep, PTL DEF Spec, S!Spec, LogsImplementsSink


-----------------------------------------------------------------------------
(* The usage collector *)

\* A row of the usage table has the count that was recorded: the views of the
\* process have the usage of other exporters as well, and a tenant without
\* usage has no point.
LEMMA ReadIsTheCount ==
  ASSUME NEW n \in Nat
  PROVE  T!Read(n) = n
<1> DEFINE views == T!Views(n)
           other == [exporter |-> "other", tenant |-> "tenant", value |-> n + 1]
           this == [exporter |-> "this", tenant |-> "tenant", value |-> n]
           points == {other} \cup (IF n = 0 THEN {} ELSE {this})
           with(name) == {j \in DOMAIN views : views[j].name = name}
           mine(name) == {pt \in UNION {views[i].points : i \in with(name)} : pt.exporter = "this"}
           of(name, t) == {pt \in mine(name) : pt.tenant = t}
           at(name, t) == IF of(name, t) = {} THEN 0 ELSE (CHOOSE pt \in of(name, t) : TRUE).value
           tenants == {pt.tenant : pt \in mine("count") \cup mine("bytes")}
           usages == [t \in tenants |-> [count |-> at("count", t), size |-> at("bytes", t)]]
<1>1. /\ DOMAIN views = {1, 2}
      /\ views[1].name = "count" /\ views[2].name = "bytes"
      /\ views[1].points = points /\ views[2].points = points
  BY DEF T!Views
<1>2. usages = T!ParseUsage(views, "this", "count", "bytes")
  BY DEF T!ParseUsage
<1> HIDE DEF views
<1>3. with("count") = {1} /\ with("bytes") = {2}
  BY <1>1
<1> HIDE DEF with
<1>4. mine("count") = {pt \in points : pt.exporter = "this"}
      /\ mine("bytes") = {pt \in points : pt.exporter = "this"}
  BY <1>1, <1>3
<1>5. {pt \in points : pt.exporter = "this"} = IF n = 0 THEN {} ELSE {this}
  OBVIOUS
<1>6. mine("count") = (IF n = 0 THEN {} ELSE {this}) /\ mine("bytes") = mine("count")
  BY <1>4, <1>5
<1> HIDE DEF mine, points
<1>7. CASE n = 0
  <2>1. tenants = {}
    BY <1>6, <1>7
  <2>2. QED
    BY <1>2, <1>7, <2>1 DEF T!Read, views
<1>8. CASE n # 0
  <2>a. this.tenant = "tenant" /\ this.value = n
    OBVIOUS
  <2> HIDE DEF this
  <2>1. tenants = {"tenant"}
    <3>1. mine("count") \cup mine("bytes") = {this}
      BY <1>6, <1>8
    <3>2. QED
      BY <3>1, <2>a
  <2>2. of("count", "tenant") = {this}
    BY <1>6, <1>8, <2>a
  <2>3. at("count", "tenant") = n
    <3>1. (CHOOSE pt \in {this} : TRUE) = this
      OBVIOUS
    <3>2. at("count", "tenant") = (CHOOSE pt \in {this} : TRUE).value
      BY <2>2
    <3>3. QED
      BY <3>1, <3>2, <2>a
  <2>4. "tenant" \in DOMAIN usages /\ usages["tenant"].count = n
    BY <2>1, <2>3
  <2>5. QED
    BY <1>2, <2>4 DEF T!Read, views
<1>9. QED
  BY <1>7, <1>8

-----------------------------------------------------------------------------
(* The traces exporter *)

TS == INSTANCE Sink WITH
         Batches <- TracePushes,
         stored <- T!StoredBatches,
         acked <- T!AckedBatches,
         open <- conn

\* The frame of pushTraceDataV3.
TFrame ==
  [pc : T!Returned \cup {"check", "write", "resources", "send"},
   writer : [T!Writers -> {"run", "values", "keys", "ok", "err"}],
   newKeys : SUBSET T!Keys, newValues : SUBSET T!Keys, newResources : SUBSET T!Resources]

SpansStored(p)      == T!BatchOfSpans(p) \subseteq table["spans"]
ExceptionsStored(p) == T!BatchOfSpans(p) \cap Exceptions \subseteq table["exceptions"]

\* Writers run while the call waits for them; what they have said to be written
\* is there, and the call goes on when both have.
TPushInv(p) ==
  /\ (\E w \in T!Writers : push[p].writer[w] \notin {"ok", "err"}) => push[p].pc = "write"
  /\ push[p].pc = "write" /\ push[p].writer["index"] = "ok" => SpansStored(p)
  /\ push[p].pc = "write" /\ push[p].writer["error"] = "ok" => ExceptionsStored(p)
  /\ push[p].pc \in {"resources", "send", "ok"} => SpansStored(p) /\ ExceptionsStored(p)

\* The values in the table, which the fetcher reads, are of keys.
ValuesAreKeys == table["values"] \subseteq T!Keys

\* Shutdown: closeChan, the pushes, the usage collector, the connection.
TShutdownInv ==
  /\ closed <=> sd # "up"
  /\ conn <=> sd # "down"
  /\ sd \in {"usage", "flush", "down"} =>
       \A p \in TracePushes : push[p].pc \in T!Returned \cup {"check"}

\* The reader is stopped by Shutdown, when no push can record usage any more: its
\* last reading is the last value.
TUsageInv ==
  /\ usage.reader \in {"flush", "off"} <=> sd \in {"flush", "down"}
  /\ usage.reader = "flush" => usage.value = usage.recorded
  /\ usage.reader = "off" /\ failures = 0 => usage.reported = usage.recorded
  /\ sd = "down" => usage.reader = "off"

TInv ==
  T!TypeOK /\ ValuesAreKeys /\ (\A p \in TracePushes : TPushInv(p)) /\ TShutdownInv /\ TUsageInv

\* A new traces exporter, with no push begun and nothing stored, satisfies the invariant.
LEMMA TInit ==
  ASSUME SpansAreFinite, T!Init
  PROVE  TInv
<1>1. T!TypeOK
  <2>1. T!Frame \in TFrame
    BY DEF T!Frame, TFrame, T!Returned, T!Writers
  <2>2. push \in [TracePushes -> TFrame]
    BY <2>1 DEF T!Init
  <2>3. T!UsageType
    BY DEF T!Init, T!UsageInit, T!UsageType
  <2>4. conn \in BOOLEAN /\ closed \in BOOLEAN
    BY Zenon DEF T!Init
  <2>5. QED
    BY <2>2, <2>3, <2>4 DEF T!Init, T!TypeOK, TFrame, SpansAreFinite
<1>2. \A p \in TracePushes : TPushInv(p)
  BY DEF T!Init, T!Frame, TPushInv
<1>3. TShutdownInv /\ TUsageInv /\ ValuesAreKeys
  BY DEF T!Init, T!UsageInit, TShutdownInv, TUsageInv, T!Returned, ValuesAreKeys, T!Tables
<1>4. QED
  BY <1>1, <1>2, <1>3 DEF TInv

\* A step of a push that replaces its frame, f; the usage only when it leaves
\* "write"; the tables may grow.
TStep(p, f) ==
  /\ push' = [push EXCEPT ![p] = f]
  /\ \A t \in T!Tables : table[t] \subseteq table'[t]

\* Usage is recorded only when the writers of a push are done.
UsageOfWriters(p) ==
  \/ usage' = usage
  \/ /\ push[p].pc = "write"
     /\ \E n \in Nat : usage' = [usage EXCEPT !.recorded = @ + n]

\* A step of pushTraceDataV3 for one push writes that push's frame and no other: pushes run
\* concurrently but each has its own locals.
LEMMA TFrames ==
  ASSUME push \in [TracePushes -> TFrame], NEW p \in TracePushes, NEW f \in TFrame, TStep(p, f)
  PROVE  /\ push' \in [TracePushes -> TFrame]
         /\ push'[p] = f
         /\ \A q \in TracePushes \ {p} : push'[q] = push[q]
  BY DEF TStep

\* The operator of the instance is the operator.
LEMMA SameCardinality ==
  ASSUME NEW set
  PROVE  T!Cardinality(set) = Cardinality(set)
  BY DEF T!Cardinality, Cardinality

\* Tables grow.
LEMMA TableGrows ==
  ASSUME NEW t, NEW rs, DOMAIN table = T!Tables, t \in T!Tables,
         T!Insert(t, rs) \/ UNCHANGED table
  PROVE  /\ DOMAIN table' = T!Tables
         /\ \A u \in T!Tables : table[u] \subseteq table'[u]
         /\ T!Insert(t, rs) => rs \subseteq table'[t]
<1>1. CASE UNCHANGED table
  <2>1. T!Insert(t, rs) => rs \subseteq table'[t]
    BY DEF T!Insert
  <2>2. QED BY <1>1, <2>1
<1>2. CASE T!Insert(t, rs)
  BY <1>2 DEF T!Insert
<1>3. QED BY <1>1, <1>2

\* What a step of push p keeps, given that it leaves p in order.
LEMMA TPushStep ==
  ASSUME SpansAreFinite, TInv, NEW p \in TracePushes, NEW f \in TFrame, TStep(p, f), TPushInv(p)',
         DOMAIN table' = T!Tables, ValuesAreKeys', keysCache' \subseteq T!Keys, rfCache' \subseteq T!Resources,
         UNCHANGED <<skip, fetcher, conn, closed, sd>>,
         UNCHANGED failures \/ T!Fault,
         sd \in {"usage", "flush", "down"} => f.pc \in T!Returned \cup {"check"},
         UsageOfWriters(p)
  PROVE  TInv'
<1>1. push \in [TracePushes -> TFrame]
  BY DEF TInv, T!TypeOK, TFrame
<1>2. /\ push' \in [TracePushes -> TFrame] /\ push'[p] = f
      /\ \A q \in TracePushes \ {p} : push'[q] = push[q]
  BY <1>1, TFrames
<1>3. failures' \in 0..MaxTraceFailures /\ (failures' = 0 => failures = 0)
  BY DEF TInv, T!TypeOK, T!Fault, SpansAreFinite
<1>4. usage \in [recorded : Nat, reader : {"wait", "export", "stopped", "flush", "off"},
                 value : Nat, reported : Nat]
  BY DEF TInv, T!TypeOK, T!UsageType
<1>5. T!UsageType'
  <2>1. CASE UNCHANGED usage
    BY <1>4, <2>1 DEF T!UsageType
  <2>2. ASSUME NEW n \in Nat, usage' = [usage EXCEPT !.recorded = @ + n] PROVE T!UsageType'
    BY <1>4, <2>2 DEF T!UsageType
  <2>3. QED BY <2>1, <2>2 DEF UsageOfWriters
<1>6. T!TypeOK'
  BY <1>2, <1>3, <1>5 DEF TInv, T!TypeOK, TFrame
<1>7. ASSUME NEW q \in TracePushes PROVE TPushInv(q)'
  <2>1. CASE q = p
    BY <2>1
  <2>2. CASE q # p
    <3>1. TPushInv(q) /\ push'[q] = push[q]
      BY <1>2, <2>2 DEF TInv
    <3>2. (SpansStored(q) => SpansStored(q)') /\ (ExceptionsStored(q) => ExceptionsStored(q)')
      BY DEF TStep, SpansStored, ExceptionsStored, T!Tables, T!BatchOfSpans
    <3>3. QED
      BY <3>1, <3>2 DEF TPushInv
  <2>3. QED BY <2>1, <2>2
<1>8. TShutdownInv'
  BY <1>2 DEF TInv, TShutdownInv
<1>9. TUsageInv'
  <2>1. CASE UNCHANGED usage
    BY <1>3, <2>1 DEF TInv, TUsageInv
  <2>2. ASSUME push[p].pc = "write", NEW n \in Nat, usage' = [usage EXCEPT !.recorded = @ + n]
        PROVE  TUsageInv'
    <3>1. sd \notin {"usage", "flush", "down"}
      BY <2>2 DEF TInv, TShutdownInv, T!Returned
    <3>2. usage'.reader = usage.reader
      BY <1>4, <2>2
    <3>3. QED
      BY <3>1, <3>2 DEF TInv, TUsageInv
  <2>3. QED BY <2>1, <2>2 DEF UsageOfWriters
<1>10. QED
  BY <1>6, <1>7, <1>8, <1>9 DEF TInv

\* The frame of a call that begins or returns, and one in which a writer moves.
LEMMA TFrameAt ==
  ASSUME NEW l \in T!Returned \cup {"check", "write", "resources", "send"}
  PROVE  /\ [T!Frame EXCEPT !.pc = l] \in TFrame
         /\ [T!Frame EXCEPT !.pc = l].pc = l
         /\ \A w \in T!Writers : [T!Frame EXCEPT !.pc = l].writer[w] = "ok"
  BY DEF T!Frame, TFrame, T!Returned

\* One of the three parallel writers of a push moving on changes neither the push's program
\* counter nor the other two writers (duration and batch are local to each goroutine).
LEMMA TWriterAt ==
  ASSUME NEW g \in TFrame, NEW w \in T!Writers, NEW v \in {"run", "values", "keys", "ok", "err"}
  PROVE  /\ [g EXCEPT !.writer[w] = v] \in TFrame
         /\ [g EXCEPT !.writer[w] = v].pc = g.pc
         /\ [g EXCEPT !.writer[w] = v].writer[w] = v
         /\ \A u \in T!Writers \ {w} : [g EXCEPT !.writer[w] = v].writer[u] = g.writer[u]
  BY DEF TFrame

\* The sequential part of pushTraceDataV3, before its writers start (closed check, prepared
\* batches of resources and their Send), keeps the invariant.
LEMMA TBeginAndReturn ==
  ASSUME SpansAreFinite, TInv, NEW p \in TracePushes,
         T!Begin(p) \/ T!Refuse(p) \/ T!PrepareResourcesFails(p) \/ T!SendResources(p)
  PROVE  TInv'
<1>a. push \in [TracePushes -> TFrame] /\ TPushInv(p) /\ push[p] \in TFrame /\ DOMAIN table = T!Tables
  BY DEF TInv, T!TypeOK, TFrame
<1>b. keysCache \subseteq T!Keys /\ rfCache \subseteq T!Resources
  BY DEF TInv, T!TypeOK
<1>c. ValuesAreKeys
  BY DEF TInv
<1>d. UNCHANGED table => ValuesAreKeys'
  BY <1>c DEF ValuesAreKeys
<1> USE DEF T!runVars
<1>1. ASSUME NEW l \in {"check", "ok", "err"}, push' = [push EXCEPT ![p] = [T!Frame EXCEPT !.pc = l]],
             l = "ok" => SpansStored(p)' /\ ExceptionsStored(p)',
             l = "ok" => sd \notin {"usage", "flush", "down"},
             DOMAIN table' = T!Tables, \A t \in T!Tables : table[t] \subseteq table'[t],
             ValuesAreKeys', UNCHANGED <<T!runVars, usage>>, UNCHANGED failures \/ T!Fault
      PROVE  TInv'
  <2> DEFINE f == [T!Frame EXCEPT !.pc = l]
  <2>1. f \in TFrame /\ f.pc = l /\ \A w \in T!Writers : f.writer[w] = "ok"
    BY TFrameAt DEF T!Returned
  <2> HIDE DEF f
  <2>2. TStep(p, f)
    BY <1>1 DEF TStep, f
  <2>3. push'[p] = f
    BY <1>a, <2>1, <2>2, TFrames
  <2>4. TPushInv(p)'
    BY <1>1, <2>1, <2>3 DEF TPushInv
  <2>5. f.pc \in T!Returned \cup {"check"}
    BY <2>1 DEF T!Returned
  <2>6. /\ keysCache' \subseteq T!Keys /\ rfCache' \subseteq T!Resources
        /\ UNCHANGED <<skip, fetcher, conn, closed, sd>> /\ UsageOfWriters(p)
    BY <1>b, <1>1 DEF UsageOfWriters
  <2>7. DOMAIN table' = T!Tables /\ ValuesAreKeys' /\ (UNCHANGED failures \/ T!Fault)
    BY <1>1
  <2> QED
    BY <2>1, <2>2, <2>4, <2>5, <2>6, <2>7, TPushStep
<1>2. CASE T!Begin(p)
  BY <1>a, <1>d, <1>1, <1>2 DEF T!Begin
<1>3. CASE T!Refuse(p)
  BY <1>a, <1>d, <1>1, <1>3 DEF T!Refuse, T!Return
<1>4. CASE T!PrepareResourcesFails(p)
  BY <1>a, <1>d, <1>1, <1>4 DEF T!PrepareResourcesFails, T!Return
<1>5. CASE T!SendResources(p)
  <2>1. "resources" \in T!Tables /\ {"spans", "exceptions"} \subseteq T!Tables
    BY DEF T!Tables
  <2>2. T!Insert("resources", push[p].newResources) \/ UNCHANGED table
    BY <1>5 DEF T!SendResources, T!MaybeInsert
  <2>3. DOMAIN table' = T!Tables /\ \A t \in T!Tables : table[t] \subseteq table'[t]
    BY <1>a, <2>1, <2>2, TableGrows
  <2>4. SpansStored(p)' /\ ExceptionsStored(p)' /\ sd \notin {"usage", "flush", "down"}
    <3>1. push[p].pc = "send"
      BY <1>5 DEF T!SendResources
    <3>2. SpansStored(p) /\ ExceptionsStored(p)
      BY <1>a, <3>1 DEF TPushInv
    <3>3. sd \notin {"usage", "flush", "down"}
      BY <3>1 DEF TInv, TShutdownInv, T!Returned
    <3>4. QED
      BY <2>1, <2>3, <3>2, <3>3 DEF SpansStored, ExceptionsStored, T!BatchOfSpans
  <2>5. \E l \in {"ok", "err"} : push' = [push EXCEPT ![p] = [T!Frame EXCEPT !.pc = l]]
    BY <1>5 DEF T!SendResources, T!Return
  <2>6. UNCHANGED <<T!runVars, usage>> /\ (UNCHANGED failures \/ T!Fault)
    BY <1>5 DEF T!SendResources, T!Works
  <2>7. ValuesAreKeys'
    BY <1>a, <1>c, <2>2 DEF T!Insert, ValuesAreKeys, T!Tables
  <2> HIDE DEF T!Fault
  <2>8. QED
    BY <1>1, <2>3, <2>4, <2>5, <2>6, <2>7
<1>6. QED
  BY <1>2, <1>3, <1>4, <1>5

\* A writer that moves on when the call still waits for it.
LEMMA TWriterStep ==
  ASSUME SpansAreFinite, TInv, NEW p \in TracePushes, NEW w \in T!Writers,
         push[p].writer[w] \notin {"ok", "err"},
         NEW v \in {"run", "values", "keys", "ok", "err"},
         NEW g \in TFrame, g.pc = push[p].pc, g.writer = push[p].writer,
         push' = [push EXCEPT ![p] = [g EXCEPT !.writer[w] = v]],
         DOMAIN table' = T!Tables, \A t \in T!Tables : table[t] \subseteq table'[t],
         ValuesAreKeys',
         w = "index" /\ v = "ok" => SpansStored(p)',
         w = "error" /\ v = "ok" => ExceptionsStored(p)',
         keysCache' \subseteq T!Keys, UNCHANGED <<rfCache, skip, fetcher, conn, closed, sd, usage>>,
         UNCHANGED failures \/ T!Fault
  PROVE  TInv'
<1> DEFINE f == [g EXCEPT !.writer[w] = v]
<1>a. push \in [TracePushes -> TFrame] /\ TPushInv(p)
  BY DEF TInv, T!TypeOK, TFrame
<1>b. push[p].pc = "write"
  BY <1>a DEF TPushInv
<1>1. f \in TFrame /\ f.pc = "write" /\ f.writer[w] = v
      /\ \A u \in T!Writers \ {w} : f.writer[u] = push[p].writer[u]
  <2>1. f \in TFrame /\ f.pc = g.pc /\ f.writer[w] = v
        /\ \A u \in T!Writers \ {w} : f.writer[u] = g.writer[u]
    BY DEF TFrame
  <2>2. QED
    BY <1>b, <2>1
<1> HIDE DEF f
<1>2. TStep(p, f)
  BY DEF TStep, f
<1>3. push'[p] = f
  BY <1>a, <1>1, <1>2, TFrames
<1>4. (SpansStored(p) => SpansStored(p)') /\ (ExceptionsStored(p) => ExceptionsStored(p)')
  BY DEF SpansStored, ExceptionsStored, T!Tables, T!BatchOfSpans
<1>5. TPushInv(p)'
  BY <1>a, <1>b, <1>1, <1>3, <1>4 DEF TPushInv, T!Writers
<1>6. sd \notin {"usage", "flush", "down"}
  BY <1>b DEF TInv, TShutdownInv, T!Returned
<1>7. keysCache' \subseteq T!Keys /\ rfCache' \subseteq T!Resources
      /\ UNCHANGED <<skip, fetcher, conn, closed, sd>> /\ UsageOfWriters(p)
  BY DEF UsageOfWriters, TInv, T!TypeOK
<1>8. QED
  BY <1>1, <1>2, <1>5, <1>6, <1>7, TPushStep

\* The writers of the index, of the errors and of the tags, with a call that fails, keep the
\* invariant: each stores rs of its own push before it reports success.
LEMMA TWriters ==
  ASSUME SpansAreFinite, TInv, NEW p \in TracePushes,
         T!WriteIndexBatch(p) \/ T!WriteErrorBatch(p) \/ T!TagAppend(p) \/ T!TagAppendFails(p)
         \/ T!TagSend(p)
  PROVE  TInv'
<1>a. push \in [TracePushes -> TFrame] /\ push[p] \in TFrame /\ DOMAIN table = T!Tables
      /\ keysCache \subseteq T!Keys /\ ValuesAreKeys
  BY DEF TInv, T!TypeOK, TFrame
<1>b. T!KeysOf(p) \subseteq T!Keys
  BY DEF T!KeysOf, T!Keys, T!BatchOfSpans
<1>c. ASSUME NEW t \in T!Tables, NEW rs, T!Insert(t, rs) \/ UNCHANGED table,
             t = "values" => rs \subseteq T!Keys
      PROVE  ValuesAreKeys'
  <2>1. CASE UNCHANGED table
    BY <1>a, <2>1 DEF ValuesAreKeys
  <2>2. CASE T!Insert(t, rs)
    <3>1. "values" \in DOMAIN table
      BY <1>a DEF T!Tables
    <3>2. table'["values"] = IF t = "values" THEN table["values"] \cup rs ELSE table["values"]
      BY <2>2, <3>1 DEF T!Insert
    <3>3. QED
      BY <1>a, <1>c, <3>2 DEF ValuesAreKeys
  <2>3. QED BY <1>c, <2>1, <2>2
<1> USE DEF T!runVars
<1>1. CASE T!WriteIndexBatch(p)
  <2>1. T!WriteRows(p, "index", "spans", T!BatchOfSpans(p))
    BY <1>1 DEF T!WriteIndexBatch
  <2>2. DOMAIN table' = T!Tables /\ (\A t \in T!Tables : table[t] \subseteq table'[t])
        /\ (T!Insert("spans", T!BatchOfSpans(p)) => SpansStored(p)') /\ ValuesAreKeys'
    <3>1. T!Insert("spans", T!BatchOfSpans(p)) \/ UNCHANGED table
      BY <2>1 DEF T!WriteRows, T!MaybeInsert
    <3>2. "spans" \in T!Tables
      BY DEF T!Tables
    <3>3. QED
      BY <1>a, <1>c, <3>1, <3>2, TableGrows DEF SpansStored, T!BatchOfSpans
  <2>3. push[p].writer["index"] = "run" /\ UNCHANGED <<T!runVars, usage>>
        /\ (UNCHANGED failures \/ T!Fault)
    BY <2>1 DEF T!WriteRows, T!Works
  <2>4. PICK v \in {"ok", "err"} : /\ push' = [push EXCEPT ![p].writer["index"] = v]
                                   /\ v = "ok" => T!Insert("spans", T!BatchOfSpans(p))
    BY <2>1 DEF T!WriteRows
  <2> HIDE DEF T!Fault
  <2>5. "index" \in T!Writers
    BY DEF T!Writers
  <2>6. QED
    BY <1>a, <2>2, <2>3, <2>4, <2>5, TWriterStep
<1>2. CASE T!WriteErrorBatch(p)
  <2> DEFINE exc == T!BatchOfSpans(p) \cap Exceptions
  <2>1. T!WriteRows(p, "error", "exceptions", exc)
    BY <1>2 DEF T!WriteErrorBatch
  <2>2. DOMAIN table' = T!Tables /\ (\A t \in T!Tables : table[t] \subseteq table'[t])
        /\ (T!Insert("exceptions", exc) => ExceptionsStored(p)') /\ ValuesAreKeys'
    <3>1. T!Insert("exceptions", exc) \/ UNCHANGED table
      BY <2>1 DEF T!WriteRows, T!MaybeInsert
    <3>2. "exceptions" \in T!Tables
      BY DEF T!Tables
    <3>3. QED
      BY <1>a, <1>c, <3>1, <3>2, TableGrows DEF ExceptionsStored, T!BatchOfSpans
  <2>3. push[p].writer["error"] = "run" /\ UNCHANGED <<T!runVars, usage>>
        /\ (UNCHANGED failures \/ T!Fault)
    BY <2>1 DEF T!WriteRows, T!Works
  <2>4. PICK v \in {"ok", "err"} : /\ push' = [push EXCEPT ![p].writer["error"] = v]
                                   /\ v = "ok" => T!Insert("exceptions", exc)
    BY <2>1 DEF T!WriteRows
  <2> HIDE DEF T!Fault
  <2>5. "error" \in T!Writers
    BY DEF T!Writers
  <2>6. QED
    BY <1>a, <2>2, <2>3, <2>4, <2>5, TWriterStep
<1>3. CASE T!TagAppend(p)
  <2> DEFINE g == [push[p] EXCEPT !.newKeys = T!KeysOf(p) \ keysCache, !.newValues = T!KeysOf(p) \ skip]
  <2>1. g \in TFrame /\ g.pc = push[p].pc /\ g.writer = push[p].writer
    BY <1>a, <1>b DEF TFrame
  <2>2. push' = [push EXCEPT ![p] = [g EXCEPT !.writer["tag"] = "values"]]
    <3>1. push' = [push EXCEPT ![p] = [push[p] EXCEPT !.writer["tag"] = "values",
                                                      !.newKeys = T!KeysOf(p) \ keysCache,
                                                      !.newValues = T!KeysOf(p) \ skip]]
      BY <1>3 DEF T!TagAppend
    <3>2. [push[p] EXCEPT !.writer["tag"] = "values", !.newKeys = T!KeysOf(p) \ keysCache,
                          !.newValues = T!KeysOf(p) \ skip] = [g EXCEPT !.writer["tag"] = "values"]
      BY <1>a DEF TFrame
    <3>3. QED BY <3>1, <3>2
  <2>3. push[p].writer["tag"] = "run" /\ keysCache' \subseteq T!Keys /\ UNCHANGED table /\ ValuesAreKeys'
        /\ UNCHANGED <<rfCache, skip, fetcher, conn, closed, sd, usage, failures>>
    BY <1>3, <1>a, <1>b DEF T!TagAppend, T!Works, ValuesAreKeys
  <2> HIDE DEF g
  <2>4. "tag" \in T!Writers
    BY DEF T!Writers
  <2>5. QED
    BY <1>a, <2>1, <2>2, <2>3, <2>4, TWriterStep
<1>4. CASE T!TagAppendFails(p)
  <2>1. push' = [push EXCEPT ![p].writer["tag"] = "err"] /\ push[p].writer["tag"] = "run" /\ T!Fault
        /\ UNCHANGED table /\ ValuesAreKeys'
        /\ UNCHANGED <<rfCache, skip, fetcher, conn, closed, sd, usage>>
    BY <1>4, <1>a DEF T!TagAppendFails, ValuesAreKeys
  <2>2. keysCache' \subseteq T!Keys
    BY <1>4, <1>a, <1>b DEF T!TagAppendFails
  <2>3. "tag" \in T!Writers
    BY DEF T!Writers
  <2>4. QED
    BY <1>a, <2>1, <2>2, <2>3, TWriterStep
<1>5. CASE T!TagSend(p)
  <2>1. push[p].writer["tag"] \in {"values", "keys"} /\ UNCHANGED <<T!runVars, usage>>
        /\ (UNCHANGED failures \/ T!Fault)
    BY <1>5 DEF T!TagSend, T!Works
  <2>2. PICK t \in T!Tables, rs \in SUBSET T!Keys : T!Insert(t, rs) \/ UNCHANGED table
    <3>1. push[p].newValues \in SUBSET T!Keys /\ push[p].newKeys \in SUBSET T!Keys
      BY <1>a DEF TFrame
    <3>2. QED
      BY <1>5, <3>1 DEF T!TagSend, T!MaybeInsert, T!Tables
  <2>3. DOMAIN table' = T!Tables /\ (\A u \in T!Tables : table[u] \subseteq table'[u])
        /\ ValuesAreKeys'
    BY <1>a, <1>c, <2>2, TableGrows
  <2>4. PICK v \in {"keys", "ok", "err"} : push' = [push EXCEPT ![p].writer["tag"] = v]
    BY <1>5 DEF T!TagSend
  <2> HIDE DEF T!Fault
  <2>5. "tag" \in T!Writers
    BY DEF T!Writers
  <2>6. QED
    BY <1>a, <2>1, <2>3, <2>4, <2>5, TWriterStep
<1>6. QED
  BY <1>1, <1>2, <1>3, <1>4, <1>5

\* The call moves on: it starts its writers, or they are done.
LEMMA TCallStep ==
  ASSUME SpansAreFinite, TInv, NEW p \in TracePushes,
         T!BuildBatch(p) \/ T!WritersDone(p) \/ T!AppendResources(p)
  PROVE  TInv'
<1>a. push \in [TracePushes -> TFrame] /\ push[p] \in TFrame /\ DOMAIN table = T!Tables /\ TPushInv(p)
  BY DEF TInv, T!TypeOK, TFrame
<1>b. keysCache \subseteq T!Keys /\ rfCache \subseteq T!Resources
      /\ (UNCHANGED table => ValuesAreKeys')
  BY DEF TInv, T!TypeOK, ValuesAreKeys
<1>c. ValuesAreKeys
  BY DEF TInv
<1>d. UNCHANGED table => ValuesAreKeys'
  BY <1>c DEF ValuesAreKeys
<1> USE DEF T!runVars
<1>1. CASE T!BuildBatch(p)
  <2> DEFINE f == [push[p] EXCEPT !.pc = "write", !.writer = [w \in T!Writers |-> "run"]]
  <2>1. f \in TFrame /\ f.pc = "write" /\ \A w \in T!Writers : f.writer[w] = "run"
    BY <1>a DEF TFrame
  <2>2. push' = [push EXCEPT ![p] = f] /\ ~closed
        /\ UNCHANGED <<table, keysCache, rfCache, skip, fetcher, conn, closed, sd, usage, failures>>
    BY <1>1 DEF T!BuildBatch
  <2>3. sd = "up"
    BY <2>2 DEF TInv, TShutdownInv
  <2> HIDE DEF f
  <2>4. TStep(p, f)
    BY <2>2 DEF TStep
  <2>5. push'[p] = f
    BY <1>a, <2>1, <2>4, TFrames
  <2>6. TPushInv(p)'
    BY <2>1, <2>5 DEF TPushInv, T!Writers
  <2>7. UsageOfWriters(p)
    BY <2>2 DEF UsageOfWriters
  <2>8. QED
    BY <1>a, <1>b, <2>1, <2>2, <2>3, <2>4, <2>6, <2>7, TPushStep
<1>2. CASE T!WritersDone(p)
  <2>a. push[p].pc = "write" /\ (\A w \in T!Writers : push[p].writer[w] \in {"ok", "err"})
        /\ UNCHANGED <<table, keysCache, rfCache, skip, fetcher, conn, closed, sd, failures>>
    BY <1>2 DEF T!WritersDone
  <2>b. UsageOfWriters(p)
    <3>1. T!BatchOfSpans(p) \in SUBSET Spans
      BY DEF T!BatchOfSpans
    <3>2. Cardinality(T!BatchOfSpans(p)) \in Nat
      BY <3>1, FS_Subset, FS_CardinalityType DEF SpansAreFinite
    <3>3. usage' = [usage EXCEPT !.recorded = @ + Cardinality(T!BatchOfSpans(p))]
      BY <1>2, SameCardinality DEF T!WritersDone, T!Record
    <3>4. QED
      BY <2>a, <3>2, <3>3 DEF UsageOfWriters
  <2>c. sd \notin {"usage", "flush", "down"}
    BY <2>a DEF TInv, TShutdownInv, T!Returned
  <2>d. UNCHANGED <<SpansStored(p), ExceptionsStored(p)>>
    BY <2>a DEF SpansStored, ExceptionsStored
  <2>1. CASE "err" \in {push[p].writer["index"], push[p].writer["error"]}
    <3> DEFINE f == [T!Frame EXCEPT !.pc = "err"]
    <3>1. f \in TFrame /\ f.pc = "err" /\ \A w \in T!Writers : f.writer[w] = "ok"
      BY TFrameAt DEF T!Returned
    <3>2. push' = [push EXCEPT ![p] = f]
      BY <1>2, <2>1 DEF T!WritersDone, T!Return
    <3> HIDE DEF f
    <3>3. TStep(p, f)
      BY <2>a, <3>2 DEF TStep
    <3>4. push'[p] = f
      BY <1>a, <3>1, <3>3, TFrames
    <3>5. TPushInv(p)'
      BY <3>1, <3>4 DEF TPushInv
    <3>6. QED
      BY <1>a, <1>b, <2>a, <2>b, <2>c, <3>1, <3>3, <3>5, TPushStep
  <2>2. CASE "err" \notin {push[p].writer["index"], push[p].writer["error"]}
    <3> DEFINE f == [push[p] EXCEPT !.pc = "resources"]
    <3>1. f \in TFrame /\ f.pc = "resources" /\ f.writer = push[p].writer
      BY <1>a DEF TFrame
    <3>2. push' = [push EXCEPT ![p] = f]
      BY <1>2, <2>2 DEF T!WritersDone
    <3> HIDE DEF f
    <3>3. TStep(p, f)
      BY <2>a, <3>2 DEF TStep
    <3>4. push'[p] = f
      BY <1>a, <3>1, <3>3, TFrames
    <3>5. SpansStored(p) /\ ExceptionsStored(p)
      BY <1>a, <2>a, <2>2 DEF TPushInv, T!Writers
    <3>6. TPushInv(p)'
      BY <2>a, <2>d, <3>1, <3>4, <3>5 DEF TPushInv
    <3>7. QED
      BY <1>a, <1>b, <2>a, <2>b, <2>c, <3>1, <3>3, <3>6, TPushStep
  <2>3. QED BY <2>1, <2>2
<1>3. CASE T!AppendResources(p)
  <2>a. push[p].pc = "resources" /\ T!ResourcesSeen(p) \subseteq T!Resources
        /\ UNCHANGED <<table, keysCache, skip, fetcher, conn, closed, sd, usage, failures>>
    BY <1>3 DEF T!AppendResources, T!Works, T!ResourcesSeen, T!Resources, T!BatchOfSpans
  <2>b. rfCache' \subseteq T!Resources
    BY <1>3, <1>b, <2>a DEF T!AppendResources
  <2>c. sd \notin {"usage", "flush", "down"}
    BY <2>a DEF TInv, TShutdownInv, T!Returned
  <2>d. UNCHANGED <<SpansStored(p), ExceptionsStored(p)>>
    BY <2>a DEF SpansStored, ExceptionsStored
  <2> DEFINE f == [push[p] EXCEPT !.pc = "send", !.newResources = T!ResourcesSeen(p) \ rfCache]
  <2>1. f \in TFrame /\ f.pc = "send" /\ f.writer = push[p].writer
    BY <1>a, <2>a DEF TFrame
  <2>2. push' = [push EXCEPT ![p] = f]
    BY <1>3 DEF T!AppendResources
  <2> HIDE DEF f
  <2>3. TStep(p, f)
    BY <2>a, <2>2 DEF TStep
  <2>4. push'[p] = f
    BY <1>a, <2>1, <2>3, TFrames
  <2>5. TPushInv(p)'
    <3>1. \A w \in T!Writers : push[p].writer[w] \in {"ok", "err"}
      BY <1>a, <2>a DEF TPushInv
    <3>2. SpansStored(p) /\ ExceptionsStored(p)
      BY <1>a, <2>a DEF TPushInv
    <3>3. QED
      BY <2>d, <2>1, <2>4, <3>1, <3>2 DEF TPushInv
  <2>6. UsageOfWriters(p)
    BY <2>a DEF UsageOfWriters
  <2>7. QED
    BY <1>a, <1>b, <2>a, <2>b, <2>c, <2>1, <2>3, <2>5, <2>6, TPushStep
<1>4. QED
  BY <1>1, <1>2, <1>3

\* Steps in which no push takes part.
LEMMA TNoPush ==
  ASSUME SpansAreFinite, TInv, UNCHANGED <<push, table>>,
         keysCache' \subseteq T!Keys, rfCache' \subseteq T!Resources, skip' \subseteq T!Keys,
         fetcher' \in {"query", "wait", "ended"}, conn' \in BOOLEAN, closed' \in BOOLEAN,
         sd' \in {"up", "wait", "usage", "flush", "down"}, T!UsageType',
         UNCHANGED failures \/ T!Fault, TShutdownInv', TUsageInv'
  PROVE  TInv'
<1>1. failures' \in 0..MaxTraceFailures
  BY DEF TInv, T!TypeOK, T!Fault, SpansAreFinite
<1>2. T!TypeOK'
  BY <1>1 DEF TInv, T!TypeOK
<1>3. \A p \in TracePushes : TPushInv(p)'
  BY DEF TInv, TPushInv, SpansStored, ExceptionsStored
<1>4. ValuesAreKeys'
  BY DEF TInv, ValuesAreKeys
<1>5. QED
  BY <1>2, <1>3, <1>4 DEF TInv

\* The steps that belong to no push (expiry of the caches, the goroutine that fetches the keys
\* to skip, closeChan and the wait of Shutdown) keep the invariant.
LEMMA TOtherSteps ==
  ASSUME SpansAreFinite, TInv,
         T!Expire \/ T!Fetch \/ T!FetchTick \/ T!FetcherEnds \/ T!CloseChan \/ T!WaitPushes
  PROVE  TInv'
<1>a. keysCache \subseteq T!Keys /\ rfCache \subseteq T!Resources /\ skip \subseteq T!Keys
      /\ fetcher \in {"query", "wait", "ended"} /\ conn \in BOOLEAN /\ closed \in BOOLEAN
      /\ sd \in {"up", "wait", "usage", "flush", "down"} /\ T!UsageType /\ ValuesAreKeys
      /\ TShutdownInv /\ TUsageInv /\ failures \in Nat
  BY DEF TInv, T!TypeOK, SpansAreFinite
<1>b. UNCHANGED failures \/ T!Fault => (failures' = 0 => failures = 0)
  BY <1>a DEF T!Fault
<1>c. UNCHANGED <<usage, sd>> /\ (UNCHANGED failures \/ T!Fault) => T!UsageType' /\ TUsageInv'
  BY <1>a, <1>b DEF T!UsageType, TUsageInv
<1>d. UNCHANGED <<push, closed, conn, sd>> => TShutdownInv'
  BY <1>a DEF TShutdownInv
<1>1. CASE T!Expire
  <2>1. keysCache' \subseteq T!Keys /\ rfCache' \subseteq T!Resources
        /\ UNCHANGED <<push, table, skip, fetcher, conn, closed, sd, usage, failures>>
    BY <1>1, <1>a DEF T!Expire
  <2>2. QED
    BY <2>1, <1>a, <1>c, <1>d, TNoPush
<1>2. CASE T!Fetch
  <2>1. skip' \subseteq T!Keys
    BY <1>2, <1>a DEF T!Fetch, ValuesAreKeys
  <2>2. fetcher' = "wait" /\ (UNCHANGED failures \/ T!Fault)
        /\ UNCHANGED <<push, table, keysCache, rfCache, conn, closed, sd, usage>>
    BY <1>2 DEF T!Fetch, T!Works
  <2>3. QED
    BY <2>1, <2>2, <1>a, <1>c, <1>d, TNoPush
<1>3. CASE T!FetchTick \/ T!FetcherEnds
  <2>1. fetcher' \in {"query", "ended"}
        /\ UNCHANGED <<push, table, keysCache, rfCache, skip, conn, closed, sd, usage, failures>>
    BY <1>3 DEF T!FetchTick, T!FetcherEnds
  <2>2. QED
    BY <2>1, <1>a, <1>c, <1>d, TNoPush
<1>4. CASE T!CloseChan
  <2>1. sd = "up" /\ sd' = "wait" /\ closed' = TRUE
        /\ UNCHANGED <<push, table, keysCache, rfCache, skip, fetcher, conn, usage, failures>>
    BY <1>4 DEF T!CloseChan
  <2>2. closed' \in BOOLEAN
    BY <2>1, Zenon
  <2>3. TShutdownInv' /\ TUsageInv' /\ T!UsageType'
    BY <1>a, <2>1 DEF TShutdownInv, TUsageInv, T!UsageType
  <2>4. QED
    BY <2>1, <2>2, <2>3, <1>a, TNoPush
<1>5. CASE T!WaitPushes
  <2>1. sd = "wait" /\ sd' = "usage" /\ (\A p \in TracePushes : push[p].pc \in T!Returned)
        /\ UNCHANGED <<push, table, keysCache, rfCache, skip, fetcher, conn, closed, usage, failures>>
    BY <1>5 DEF T!WaitPushes
  <2>2. TShutdownInv' /\ TUsageInv' /\ T!UsageType'
    BY <1>a, <2>1 DEF TShutdownInv, TUsageInv, T!UsageType
  <2>3. QED
    BY <2>1, <2>2, <1>a, TNoPush
<1>6. QED
  BY <1>1, <1>2, <1>3, <1>4, <1>5

\* The reader: a tick, an export, the flush of Stop; then the writer is closed.
LEMMA TUsageSteps ==
  ASSUME SpansAreFinite, TInv,
         T!StopUsage \/ T!CloseWriter \/ T!ReaderTick \/ T!ReaderExport
  PROVE  TInv'
<1>a. keysCache \subseteq T!Keys /\ rfCache \subseteq T!Resources /\ skip \subseteq T!Keys
      /\ fetcher \in {"query", "wait", "ended"} /\ conn \in BOOLEAN /\ closed \in BOOLEAN
      /\ sd \in {"up", "wait", "usage", "flush", "down"}
      /\ TShutdownInv /\ TUsageInv /\ failures \in Nat
  BY DEF TInv, T!TypeOK, SpansAreFinite
<1>b. usage \in [recorded : Nat, reader : {"wait", "export", "stopped", "flush", "off"},
                 value : Nat, reported : Nat]
  BY DEF TInv, T!TypeOK, T!UsageType
<1>c. T!Read(usage.recorded) = usage.recorded
  BY <1>b, ReadIsTheCount
<1> USE DEF T!runVars
<1>1. CASE T!StopUsage
  <2>1. sd = "usage" /\ sd' = "flush" /\ usage.reader = "wait"
        /\ usage' = [usage EXCEPT !.reader = "flush", !.value = usage.recorded]
        /\ UNCHANGED <<push, table, keysCache, rfCache, skip, fetcher, conn, closed, failures>>
    BY <1>1, <1>c DEF T!StopUsage, T!UsageStop
  <2>2. T!UsageType' /\ usage'.reader = "flush" /\ usage'.value = usage'.recorded
    BY <1>b, <2>1 DEF T!UsageType
  <2>3. TShutdownInv' /\ TUsageInv'
    BY <1>a, <2>1, <2>2 DEF TShutdownInv, TUsageInv
  <2>4. QED
    BY <2>1, <2>2, <2>3, <1>a, TNoPush
<1>2. CASE T!CloseWriter
  <2>1. sd = "flush" /\ usage.reader = "off" /\ sd' = "down" /\ conn' = FALSE
        /\ UNCHANGED <<push, table, keysCache, rfCache, skip, fetcher, closed, usage, failures>>
    BY <1>2 DEF T!CloseWriter, T!UsageStopped
  <2>2. conn' \in BOOLEAN
    BY <2>1, Zenon
  <2>3. TShutdownInv' /\ TUsageInv' /\ T!UsageType'
    BY <1>a, <1>b, <2>1 DEF TShutdownInv, TUsageInv, T!UsageType
  <2>4. QED
    BY <2>1, <2>2, <2>3, <1>a, TNoPush
<1>3. CASE T!ReaderTick
  <2>1. usage.reader = "wait"
        /\ usage' = [usage EXCEPT !.reader = "export", !.value = usage.recorded]
        /\ UNCHANGED <<push, table, keysCache, rfCache, skip, fetcher, conn, closed, sd, failures>>
    BY <1>3, <1>c DEF T!ReaderTick, T!UsageTick
  <2>2. T!UsageType' /\ usage'.reader = "export"
    BY <1>b, <2>1 DEF T!UsageType
  <2>3. TShutdownInv' /\ TUsageInv'
    BY <1>a, <2>1, <2>2 DEF TShutdownInv, TUsageInv
  <2>4. QED
    BY <2>1, <2>2, <2>3, <1>a, TNoPush
<1>4. CASE T!ReaderExport
  <2>1. PICK ok \in BOOLEAN : /\ usage.reader \in {"export", "flush"}
                              /\ usage' = [usage EXCEPT
                                   !.reader = IF @ = "export" THEN "wait" ELSE "off",
                                   !.reported = IF ok THEN usage.value ELSE @]
                              /\ ok => conn /\ UNCHANGED failures
                              /\ ~ok => T!Fault
    BY <1>4 DEF T!ReaderExport, T!UsageExported, T!Works
  <2>2. UNCHANGED <<push, table, keysCache, rfCache, skip, fetcher, conn, closed, sd>>
    BY <1>4 DEF T!ReaderExport
  <2>3. T!UsageType' /\ usage'.reader = (IF usage.reader = "export" THEN "wait" ELSE "off")
        /\ usage'.recorded = usage.recorded /\ usage'.value = usage.value
        /\ (ok => usage'.reported = usage.value)
    BY <1>b, <2>1 DEF T!UsageType
  <2>4. UNCHANGED failures \/ T!Fault
    BY <2>1
  <2>5. usage.reader = "flush" => sd = "flush" /\ conn
    BY <1>a DEF TShutdownInv, TUsageInv
  <2>6. usage.reader = "flush" /\ failures' = 0 => ok
    BY <1>a, <2>1, <2>5 DEF T!Fault
  <2>7. TShutdownInv'
    BY <1>a, <2>2 DEF TShutdownInv
  <2>8. TUsageInv'
    BY <1>a, <2>1, <2>2, <2>3, <2>5, <2>6 DEF TUsageInv
  <2> HIDE DEF T!Fault
  <2>9. QED
    BY <2>2, <2>3, <2>4, <2>7, <2>8, <1>a, TNoPush
<1>5. QED
  BY <1>1, <1>2, <1>3, <1>4

\* Every step of the traces exporter, or a stutter, keeps the invariant.
LEMMA TNextStep ==
  ASSUME SpansAreFinite, TInv, [T!Next]_T!vars
  PROVE  TInv'
<1>1. CASE UNCHANGED T!vars
  BY <1>1
  DEF T!vars, T!runVars, TInv, T!TypeOK, T!UsageType, TPushInv, SpansStored, ExceptionsStored,
      TShutdownInv, TUsageInv, ValuesAreKeys
<1>2. ASSUME NEW p \in TracePushes, T!Begin(p) \/ T!PushStep(p) PROVE TInv'
  BY <1>2, TBeginAndReturn, TWriters, TCallStep DEF T!PushStep
<1>3. QED
  BY <1>1, <1>2, TOtherSteps, TUsageSteps DEF T!Next, T!ShutdownStep

\* What TInv says of the usage when Shutdown is over.
LEMMA TUsage == TInv => T!UsageIsReported
BY DEF TInv, TUsageInv, T!UsageIsReported

\* The types of the traces exporter, and its invariant.
THEOREM TracesInvariant == T!Spec => []TInv
<1>1. T!Init => TInv
  BY TInit, ExportersAssumption
<1>2. TInv /\ [T!Next]_T!vars => TInv'
  BY TNextStep, ExportersAssumption
<1>3. QED
  BY <1>1, <1>2, PTL DEF T!Spec

\* A step that neither acknowledges a batch nor closes the connection.
LEMMA TStoreStep ==
  ASSUME DOMAIN table = T!Tables, NEW t \in T!Tables, NEW rs,
         (T!Insert(t, rs) /\ conn) \/ UNCHANGED table, UNCHANGED conn, UNCHANGED T!AckedBatches
  PROVE  [TS!Next]_TS!sinkVars
<1>1. CASE UNCHANGED table
  <2>1. UNCHANGED T!StoredBatches
    BY <1>1 DEF T!StoredBatches
  <2>2. QED
    BY <2>1 DEF TS!sinkVars
<1>2. CASE T!Insert(t, rs) /\ conn
  <2>1. \A u \in T!Tables : table[u] \subseteq table'[u]
    BY <1>2, TableGrows
  <2>2. {"spans", "exceptions"} \subseteq T!Tables
    BY DEF T!Tables
  <2>3. T!StoredBatches \subseteq T!StoredBatches' /\ T!StoredBatches' \in SUBSET TracePushes
    BY <2>1, <2>2 DEF T!StoredBatches, T!BatchOfSpans
  <2>4. conn = TRUE
    BY <1>2
  <2>5. QED
    BY <1>2, <2>3 DEF TS!Next, TS!Store
<1>3. QED
  BY <1>1, <1>2

\* A push whose frame is replaced by one that is not acknowledged.
LEMMA TNotAcked ==
  ASSUME push \in [TracePushes -> TFrame], NEW p \in TracePushes, NEW f \in TFrame,
         push' = [push EXCEPT ![p] = f], push[p].pc # "ok", f.pc # "ok"
  PROVE  UNCHANGED T!AckedBatches
<1>1. \A q \in TracePushes : push'[q].pc = "ok" <=> push[q].pc = "ok"
  OBVIOUS
<1>2. QED
  BY <1>1 DEF T!AckedBatches

\* Every step of the traces exporter is a step of the at-least-once sink or leaves what the
\* sink shows alone: pushTraceDataV3 returns nil only for rs that are stored.
LEMMA TStepIsASinkStep ==
  ASSUME TInv, T!Next
  PROVE  [TS!Next]_TS!sinkVars
<1>a. push \in [TracePushes -> TFrame] /\ DOMAIN table = T!Tables
  BY DEF TInv, T!TypeOK, TFrame
<1>b. {"spans", "exceptions", "keys", "values", "resources"} = T!Tables
  BY DEF T!Tables
<1> USE DEF T!runVars
<1>1. ASSUME NEW p \in TracePushes, T!SendResources(p) PROVE [TS!Next]_TS!sinkVars
  <2>1. push[p].pc = "send" /\ UNCHANGED conn
    BY <1>1 DEF T!SendResources
  <2>2. (T!Insert("resources", push[p].newResources) /\ conn) \/ UNCHANGED table
    BY <1>1 DEF T!SendResources, T!Works, T!MaybeInsert
  <2>3. CASE T!Return(p, "ok") /\ conn
    <3>1. UNCHANGED T!StoredBatches
      <4>1. table'["spans"] = table["spans"] /\ table'["exceptions"] = table["exceptions"]
        BY <2>2, <1>a, <1>b DEF T!Insert
      <4>2. QED
        BY <4>1 DEF T!StoredBatches
    <3>2. p \in T!StoredBatches
      BY <2>1 DEF TInv, TPushInv, SpansStored, ExceptionsStored, T!StoredBatches
    <3>3. T!AckedBatches' = T!AckedBatches \cup {p}
      <4>1. push' = [push EXCEPT ![p] = [T!Frame EXCEPT !.pc = "ok"]]
        BY <2>3 DEF T!Return
      <4>2. [T!Frame EXCEPT !.pc = "ok"].pc = "ok"
        BY TFrameAt DEF T!Returned
      <4>3. push'[p].pc = "ok" /\ \A q \in TracePushes \ {p} : push'[q] = push[q]
        BY <1>a, <4>1, <4>2
      <4>4. QED
        BY <4>3 DEF T!AckedBatches
    <3>4. conn
      BY <2>3
    <3>5. TS!Ack(p)
      BY <2>1, <3>1, <3>2, <3>3, <3>4 DEF TS!Ack
    <3>6. QED
      BY <3>5 DEF TS!Next
  <2>4. CASE T!Return(p, "err")
    <3>1. UNCHANGED T!AckedBatches
      BY <1>a, <2>1, <2>4, TFrameAt, TNotAcked DEF T!Return, T!Returned
    <3>2. QED
      BY <1>a, <1>b, <2>1, <2>2, <3>1, TStoreStep
  <2>5. QED
    BY <1>1, <2>3, <2>4 DEF T!SendResources, T!Works
<1>2. ASSUME NEW p \in TracePushes, T!Begin(p) \/ T!Refuse(p) \/ T!PrepareResourcesFails(p)
      PROVE  [TS!Next]_TS!sinkVars
  <2>1. PICK l \in {"check", "err"} : push' = [push EXCEPT ![p] = [T!Frame EXCEPT !.pc = l]]
    BY <1>2 DEF T!Begin, T!Refuse, T!PrepareResourcesFails, T!Return
  <2>2. push[p].pc # "ok" /\ UNCHANGED <<table, conn>>
    BY <1>2 DEF T!Begin, T!Refuse, T!PrepareResourcesFails
  <2>3. [T!Frame EXCEPT !.pc = l] \in TFrame /\ [T!Frame EXCEPT !.pc = l].pc # "ok"
    BY TFrameAt DEF T!Returned
  <2>4. UNCHANGED T!AckedBatches
    BY <1>a, <2>1, <2>2, <2>3, TNotAcked
  <2>5. QED
    BY <1>a, <1>b, <2>2, <2>4, TStoreStep
<1>3. ASSUME NEW p \in TracePushes, T!BuildBatch(p) \/ T!WritersDone(p) \/ T!AppendResources(p)
      PROVE  [TS!Next]_TS!sinkVars
  <2>1. UNCHANGED <<table, conn>> /\ push[p].pc \in {"check", "write", "resources"}
    BY <1>3 DEF T!BuildBatch, T!WritersDone, T!AppendResources
  <2>2. push[p] \in TFrame
    BY <1>a
  <2>3. \A q \in TracePushes : push'[q].pc = "ok" <=> push[q].pc = "ok"
    <3>1. \A q \in TracePushes \ {p} : push'[q] = push[q]
      BY <1>a, <1>3 DEF T!BuildBatch, T!WritersDone, T!AppendResources, T!Return
    <3>2. CASE T!BuildBatch(p)
      BY <1>a, <2>1, <2>2, <3>1, <3>2 DEF T!BuildBatch, TFrame
    <3>3. CASE T!WritersDone(p)
      BY <1>a, <2>1, <2>2, <3>1, <3>3 DEF T!WritersDone, T!Return, T!Frame, TFrame
    <3>4. CASE T!AppendResources(p)
      BY <1>a, <2>1, <2>2, <3>1, <3>4 DEF T!AppendResources, TFrame
    <3>5. QED
      BY <1>3, <3>2, <3>3, <3>4
  <2>4. UNCHANGED T!AckedBatches
    BY <2>3 DEF T!AckedBatches
  <2>5. QED
    BY <1>a, <1>b, <2>1, <2>4, TStoreStep
<1>4. ASSUME NEW p \in TracePushes, T!WriteIndexBatch(p) \/ T!WriteErrorBatch(p) \/ T!TagAppend(p)
             \/ T!TagAppendFails(p) \/ T!TagSend(p)
      PROVE  [TS!Next]_TS!sinkVars
  <2>1. UNCHANGED conn
    BY <1>4
    DEF T!WriteIndexBatch, T!WriteErrorBatch, T!WriteRows, T!TagAppend, T!TagAppendFails, T!TagSend
  <2>2. PICK t \in T!Tables : \E rs : (T!Insert(t, rs) /\ conn) \/ UNCHANGED table
    BY <1>4, <1>b
    DEF T!WriteIndexBatch, T!WriteErrorBatch, T!WriteRows, T!TagAppend, T!TagAppendFails,
        T!TagSend, T!MaybeInsert, T!Works
  <2>3. \A q \in TracePushes : push'[q].pc = push[q].pc
    <3>1. push[p] \in TFrame
      BY <1>a
    <3>2. CASE T!WriteIndexBatch(p)
      <4>1. PICK v \in {"ok", "err"} : push' = [push EXCEPT ![p].writer["index"] = v]
        BY <3>2 DEF T!WriteIndexBatch, T!WriteRows
      <4>2. QED
        BY <1>a, <3>1, <4>1 DEF TFrame
    <3>3. CASE T!WriteErrorBatch(p)
      <4>1. PICK v \in {"ok", "err"} : push' = [push EXCEPT ![p].writer["error"] = v]
        BY <3>3 DEF T!WriteErrorBatch, T!WriteRows
      <4>2. QED
        BY <1>a, <3>1, <4>1 DEF TFrame
    <3>4. CASE T!TagAppend(p)
      BY <1>a, <3>1, <3>4 DEF T!TagAppend, TFrame
    <3>5. CASE T!TagAppendFails(p)
      BY <1>a, <3>1, <3>5 DEF T!TagAppendFails, TFrame
    <3>6. CASE T!TagSend(p)
      BY <1>a, <3>1, <3>6 DEF T!TagSend, TFrame
    <3>7. QED
      BY <1>4, <3>2, <3>3, <3>4, <3>5, <3>6
  <2>4. UNCHANGED T!AckedBatches
    BY <2>3 DEF T!AckedBatches
  <2>5. QED
    BY <1>a, <2>1, <2>2, <2>4, TStoreStep
<1>5. ASSUME T!CloseWriter PROVE [TS!Next]_TS!sinkVars
  <2>1. UNCHANGED <<T!StoredBatches, T!AckedBatches>> /\ conn' = FALSE
    BY <1>5 DEF T!CloseWriter, T!StoredBatches, T!AckedBatches
  <2>2. QED
    BY <2>1 DEF TS!Next, TS!Close
<1>6. ASSUME T!Expire \/ T!Fetch \/ T!FetchTick \/ T!FetcherEnds \/ T!CloseChan \/ T!WaitPushes
             \/ T!StopUsage \/ T!ReaderTick \/ T!ReaderExport
      PROVE  [TS!Next]_TS!sinkVars
  <2>1. UNCHANGED <<push, table, conn>>
    BY <1>6
    DEF T!Expire, T!Fetch, T!FetchTick, T!FetcherEnds, T!CloseChan, T!WaitPushes, T!StopUsage,
        T!ReaderTick, T!ReaderExport
  <2>2. QED
    BY <2>1 DEF TS!sinkVars, T!StoredBatches, T!AckedBatches
<1>7. QED
  BY <1>1, <1>2, <1>3, <1>4, <1>5, <1>6 DEF T!Next, T!PushStep, T!ShutdownStep

\* The traces exporter starts as a sink does, ...
LEMMA TSinkInit == T!Init => TS!Init
<1>1. T!Init => conn = TRUE /\ T!StoredBatches \subseteq TracePushes
  BY DEF T!Init, T!StoredBatches
<1>2. T!Init => T!AckedBatches = {}
  BY DEF T!Init, T!AckedBatches, T!Frame
<1>3. QED
  BY <1>1, <1>2 DEF TS!Init

\* ... and goes on as one: its writers run in parallel and fail one by one, and still a push
\* returns nil only when the spans and the exceptions of its batch are stored.
LEMMA TSinkStep == TInv /\ [T!Next]_T!vars => [TS!Next]_TS!sinkVars
<1>1. UNCHANGED T!vars => UNCHANGED TS!sinkVars
  BY DEF T!vars, T!runVars, TS!sinkVars, T!StoredBatches, T!AckedBatches
<1>2. QED
  BY <1>1, TStepIsASinkStep

-----------------------------------------------------------------------------
(* The metrics exporter *)

MS == INSTANCE Sink WITH
         Batches <- MetricPushes,
         stored <- M!StoredBatches,
         acked <- M!AckedBatches,
         open <- conn

\* The frame of PushMetrics.
MFrame ==
  [pc : M!Returned \cup {"check", "write"},
   writer : [M!Writers -> {"run", "send", "ok", "err"}],
   newTs : SUBSET M!Series]

SamplesStored(p) == RowsOf[p].samples \subseteq table["samples"]
ExpHistStored(p) == RowsOf[p].expHist \subseteq table["expHist"]

\* As in the traces exporter.
MPushInv(p) ==
  /\ (\E w \in M!Writers : push[p].writer[w] \notin {"ok", "err"}) => push[p].pc = "write"
  /\ push[p].pc = "write" /\ push[p].writer["samples"] = "ok" => SamplesStored(p)
  /\ push[p].pc = "write" /\ push[p].writer["expHist"] = "ok" => ExpHistStored(p)
  /\ push[p].pc = "ok" => SamplesStored(p) /\ ExpHistStored(p)

MShutdownInv ==
  /\ closed <=> sd \in {"wait", "down"}
  /\ conn <=> sd # "down"
  /\ sd = "down" => \A p \in MetricPushes : push[p].pc \in M!Returned \cup {"check"}

\* A series that is stored, or about to be sent by the push that has appended it.
Underway(s) ==
  s \in table["ts"] \/ \E q \in MetricPushes : push[q].writer["ts"] = "send" /\ s \in push[q].newTs

\* As long as no call fails: a series is in the cache only if it is stored or
\* under way, and so are those of a push that has dealt with its series.
MSeriesInv ==
  failures = 0 =>
    /\ \A s \in cache : Underway(s)
    /\ \A p \in MetricPushes :
         \/ push[p].pc = "ok"
         \/ push[p].pc = "write" /\ push[p].writer["ts"] \in {"send", "ok"}
         => \A s \in RowsOf[p].ts : Underway(s)
    /\ \A p \in MetricPushes : push[p].writer["ts"] # "err"

MInv == M!TypeOK /\ (\A p \in MetricPushes : MPushInv(p)) /\ MShutdownInv /\ MSeriesInv

\* A new metrics exporter satisfies the invariant.
LEMMA MInit ==
  ASSUME RowsAreFinite, M!Init
  PROVE  MInv
<1>0. M!Frame \in MFrame /\ M!Frame.pc = "idle" /\ \A w \in M!Writers : M!Frame.writer[w] = "ok"
  BY DEF M!Frame, MFrame, M!Returned
<1>1. M!TypeOK
  <2>2. push \in [MetricPushes -> MFrame]
    BY <1>0 DEF M!Init
  <2>3. M!UsageType
    BY DEF M!Init, M!UsageInit, M!UsageType
  <2>4. conn \in BOOLEAN /\ closed \in BOOLEAN
    BY Zenon DEF M!Init
  <2>5. QED
    BY <2>2, <2>3, <2>4 DEF M!Init, M!TypeOK, MFrame, RowsAreFinite
<1>2. \A p \in MetricPushes : MPushInv(p)
  BY <1>0 DEF M!Init, MPushInv
<1>3. MShutdownInv
  BY DEF M!Init, MShutdownInv
<1>4. MSeriesInv
  BY <1>0 DEF M!Init, MSeriesInv, M!Writers
<1>5. QED
  BY <1>1, <1>2, <1>3, <1>4 DEF MInv

\* What push p, whose frame becomes f, does to the series: what it had under way
\* is stored or still under way, and what is new to the cache is under way.
MSeriesStep(p, f) ==
  failures' = 0 =>
    /\ push[p].writer["ts"] = "send" =>
         \/ push[p].newTs \subseteq table'["ts"]
         \/ f.writer["ts"] = "send" /\ f.newTs = push[p].newTs
    /\ \A s \in cache' : s \in cache \/ s \in table'["ts"] \/ (f.writer["ts"] = "send" /\ s \in f.newTs)
    /\ f.pc = "ok" \/ (f.pc = "write" /\ f.writer["ts"] \in {"send", "ok"}) =>
         \A s \in RowsOf[p].ts :
            Underway(s) \/ s \in table'["ts"] \/ (f.writer["ts"] = "send" /\ s \in f.newTs)
    /\ f.writer["ts"] # "err"

\* What a step of push p keeps, given that it leaves p in order.
LEMMA MPushStep ==
  ASSUME RowsAreFinite, MInv, NEW p \in MetricPushes, NEW f \in MFrame,
         push' = [push EXCEPT ![p] = f],
         DOMAIN table' = M!Writers, \A t \in M!Writers : table[t] \subseteq table'[t],
         MPushInv(p)', cache' \subseteq M!Series, M!UsageType',
         UNCHANGED <<conn, closed, sd>>, UNCHANGED failures \/ M!Fault,
         sd = "down" => f.pc \in M!Returned \cup {"check"},
         MSeriesStep(p, f)
  PROVE  MInv'
<1>1. push \in [MetricPushes -> MFrame]
  BY DEF MInv, M!TypeOK, MFrame
<1>2. /\ push' \in [MetricPushes -> MFrame] /\ push'[p] = f
      /\ \A q \in MetricPushes \ {p} : push'[q] = push[q]
  BY <1>1
<1>3. failures' \in 0..MaxMetricFailures /\ (failures' = 0 => failures = 0)
  BY DEF MInv, M!TypeOK, M!Fault, RowsAreFinite
<1>4. M!TypeOK'
  BY <1>2, <1>3 DEF MInv, M!TypeOK, MFrame
<1>5. ASSUME NEW q \in MetricPushes PROVE MPushInv(q)'
  <2>1. CASE q = p
    BY <2>1
  <2>2. CASE q # p
    <3>1. MPushInv(q) /\ push'[q] = push[q]
      BY <1>2, <2>2 DEF MInv
    <3>2. (SamplesStored(q) => SamplesStored(q)') /\ (ExpHistStored(q) => ExpHistStored(q)')
      BY DEF SamplesStored, ExpHistStored, M!Writers
    <3>3. QED
      BY <3>1, <3>2 DEF MPushInv
  <2>3. QED BY <2>1, <2>2
<1>6. MShutdownInv'
  BY <1>2 DEF MInv, MShutdownInv
<1>7. MSeriesInv'
  <2> SUFFICES ASSUME failures' = 0
               PROVE  /\ \A s \in cache' : Underway(s)'
                      /\ \A q \in MetricPushes :
                           \/ push'[q].pc = "ok"
                           \/ push'[q].pc = "write" /\ push'[q].writer["ts"] \in {"send", "ok"}
                           => \A s \in RowsOf[q].ts : Underway(s)'
                      /\ \A q \in MetricPushes : push'[q].writer["ts"] # "err"
    BY DEF MSeriesInv
  <2>0. table["ts"] \subseteq table'["ts"]
    BY DEF M!Writers
  <2>1. ASSUME NEW s, Underway(s) PROVE Underway(s)'
    <3>1. CASE s \in table["ts"]
      BY <2>0, <3>1 DEF Underway
    <3>2. ASSUME NEW q \in MetricPushes, push[q].writer["ts"] = "send", s \in push[q].newTs
          PROVE  Underway(s)'
      <4>1. CASE q = p
        BY <1>2, <3>2, <4>1 DEF Underway, MSeriesStep
      <4>2. CASE q # p
        BY <1>2, <3>2, <4>2 DEF Underway
      <4>3. QED BY <4>1, <4>2
    <3>3. QED BY <2>1, <3>1, <3>2 DEF Underway
  <2>2. ASSUME NEW s, s \in table'["ts"] \/ (f.writer["ts"] = "send" /\ s \in f.newTs)
        PROVE  Underway(s)'
    BY <1>2, <2>2 DEF Underway
  <2>3. MSeriesInv /\ failures = 0
    BY <1>3 DEF MInv
  <2>4. \A s \in cache' : Underway(s)'
    <3>1. \A s \in cache : Underway(s)
      BY <2>3 DEF MSeriesInv
    <3>2. QED
      BY <2>1, <2>2, <3>1 DEF MSeriesStep
  <2>5. ASSUME NEW q \in MetricPushes,
               push'[q].pc = "ok"
                 \/ (push'[q].pc = "write" /\ push'[q].writer["ts"] \in {"send", "ok"})
        PROVE  \A s \in RowsOf[q].ts : Underway(s)'
    <3>1. CASE q = p
      BY <1>2, <2>1, <2>2, <2>5, <3>1 DEF MSeriesStep
    <3>2. CASE q # p
      <4>1. push'[q] = push[q]
        BY <1>2, <3>2
      <4>2. \A s \in RowsOf[q].ts : Underway(s)
        BY <2>3, <2>5, <4>1 DEF MSeriesInv
      <4>3. QED
        BY <2>1, <4>2
    <3>3. QED BY <3>1, <3>2
  <2>6. \A q \in MetricPushes : push'[q].writer["ts"] # "err"
    BY <1>2, <2>3 DEF MSeriesInv, MSeriesStep
  <2>7. QED
    BY <2>4, <2>5, <2>6
<1>8. QED
  BY <1>4, <1>5, <1>6, <1>7 DEF MInv

\* The frame of a push of metrics that has just been checked or has returned early is a frame
\* whose four writers have not started.
LEMMA MFrameAt ==
  ASSUME NEW l \in M!Returned \cup {"check", "write"}
  PROVE  /\ [M!Frame EXCEPT !.pc = l] \in MFrame
         /\ [M!Frame EXCEPT !.pc = l].pc = l
         /\ \A w \in M!Writers : [M!Frame EXCEPT !.pc = l].writer[w] = "ok"
  BY DEF M!Frame, MFrame, M!Returned

\* A call whose writers run holds the connection, so that a call of ClickHouse
\* that fails is a failure of its own.
LEMMA MFaultCounts ==
  ASSUME RowsAreFinite, MInv, NEW p \in MetricPushes, push[p].pc = "write"
  PROVE  /\ sd # "down" /\ conn
         /\ M!Fault => failures' # 0
<1>1. sd # "down" /\ conn
  BY DEF MInv, MShutdownInv, M!Returned
<1>2. QED
  BY <1>1 DEF M!Fault, MInv, M!TypeOK, RowsAreFinite

\* A writer moves while the call waits for it.
LEMMA MWriterStep ==
  ASSUME RowsAreFinite, MInv, NEW p \in MetricPushes, NEW w \in M!Writers,
         push[p].writer[w] \notin {"ok", "err"},
         NEW v \in {"send", "ok", "err"},
         NEW g \in MFrame, g.pc = push[p].pc, g.writer = push[p].writer,
         push' = [push EXCEPT ![p] = [g EXCEPT !.writer[w] = v]],
         DOMAIN table' = M!Writers, \A t \in M!Writers : table[t] \subseteq table'[t],
         w = "samples" /\ v = "ok" => SamplesStored(p)',
         w = "expHist" /\ v = "ok" => ExpHistStored(p)',
         cache' \subseteq M!Series, M!UsageType', UNCHANGED <<conn, closed, sd>>,
         UNCHANGED failures \/ M!Fault,
         v = "err" => M!Fault,
         w # "ts" => g.newTs = push[p].newTs /\ UNCHANGED cache,
         w = "ts" /\ v = "send" =>
           /\ push[p].writer["ts"] = "run"
           /\ g.newTs = RowsOf[p].ts \ cache /\ cache' = cache \cup RowsOf[p].ts,
         w = "ts" /\ v = "ok" =>
           /\ push[p].writer["ts"] = "send"
           /\ g.newTs = push[p].newTs /\ g.newTs \subseteq table'["ts"] /\ UNCHANGED cache
  PROVE  MInv'
<1> DEFINE f == [g EXCEPT !.writer[w] = v]
<1>a. push \in [MetricPushes -> MFrame] /\ MPushInv(p)
  BY DEF MInv, M!TypeOK, MFrame
<1>b. push[p].pc = "write"
  BY <1>a DEF MPushInv
<1>c. sd # "down" /\ (M!Fault => failures' # 0) /\ (failures' = 0 => failures = 0)
  BY <1>b, MFaultCounts DEF MInv, M!TypeOK, RowsAreFinite
<1>1. f \in MFrame /\ f.pc = g.pc /\ f.writer[w] = v /\ f.newTs = g.newTs
      /\ \A u \in M!Writers \ {w} : f.writer[u] = g.writer[u]
  BY DEF MFrame
<1> HIDE DEF f
<1>2. push'[p] = f
  BY <1>a, <1>1 DEF f
<1>3. (SamplesStored(p) => SamplesStored(p)') /\ (ExpHistStored(p) => ExpHistStored(p)')
  BY DEF SamplesStored, ExpHistStored, M!Writers
<1>4. MPushInv(p)'
  BY <1>a, <1>b, <1>1, <1>2, <1>3 DEF MPushInv, M!Writers
<1>5. MSeriesStep(p, f)
  <2> SUFFICES ASSUME failures' = 0
               PROVE  /\ push[p].writer["ts"] = "send" =>
                           \/ push[p].newTs \subseteq table'["ts"]
                           \/ f.writer["ts"] = "send" /\ f.newTs = push[p].newTs
                      /\ \A s \in cache' : s \in cache \/ s \in table'["ts"]
                                           \/ (f.writer["ts"] = "send" /\ s \in f.newTs)
                      /\ f.pc = "ok" \/ (f.pc = "write" /\ f.writer["ts"] \in {"send", "ok"}) =>
                           \A s \in RowsOf[p].ts :
                              Underway(s) \/ s \in table'["ts"]
                              \/ (f.writer["ts"] = "send" /\ s \in f.newTs)
                      /\ f.writer["ts"] # "err"
    BY DEF MSeriesStep
  <2>1. MSeriesInv /\ failures = 0 /\ v # "err"
    BY <1>c DEF MInv
  <2>2. /\ \A s \in cache : Underway(s)
        /\ push[p].writer["ts"] \in {"send", "ok"} => \A s \in RowsOf[p].ts : Underway(s)
        /\ push[p].writer["ts"] # "err"
    BY <1>b, <2>1 DEF MSeriesInv
  <2>3. "ts" \in M!Writers
    BY DEF M!Writers
  <2>4. CASE w # "ts"
    <3>1. f.writer["ts"] = push[p].writer["ts"] /\ f.newTs = push[p].newTs /\ cache' = cache
      BY <1>1, <2>3, <2>4
    <3>2. QED
      BY <1>b, <1>1, <2>2, <3>1
  <2>5. CASE w = "ts" /\ v = "send"
    <3>1. f.writer["ts"] = "send" /\ f.newTs = RowsOf[p].ts \ cache
          /\ cache' = cache \cup RowsOf[p].ts /\ push[p].writer["ts"] = "run"
      BY <1>1, <2>5
    <3>2. QED
      BY <2>2, <3>1
  <2>6. CASE w = "ts" /\ v = "ok"
    <3>1. f.writer["ts"] = "ok" /\ push[p].newTs \subseteq table'["ts"] /\ cache' = cache
          /\ push[p].writer["ts"] = "send"
      BY <1>1, <2>6
    <3>2. QED
      BY <2>2, <3>1
  <2>7. QED
    BY <2>1, <2>4, <2>5, <2>6
<1>6. push' = [push EXCEPT ![p] = f]
  BY DEF f
<1>7. QED
  BY <1>c, <1>1, <1>4, <1>5, <1>6, MPushStep

\* batch.Send only adds rs to its table, and all of the batch: nothing the exporter does
\* removes a row of any table.
LEMMA MTableGrows ==
  ASSUME NEW t, NEW rs, DOMAIN table = M!Writers, t \in M!Writers,
         M!Insert(t, rs) \/ UNCHANGED table
  PROVE  /\ DOMAIN table' = M!Writers
         /\ \A u \in M!Writers : table[u] \subseteq table'[u]
         /\ M!Insert(t, rs) => rs \subseteq table'[t]
<1>1. CASE UNCHANGED table
  <2>1. M!Insert(t, rs) => rs \subseteq table'[t]
    BY DEF M!Insert
  <2>2. QED BY <1>1, <2>1
<1>2. CASE M!Insert(t, rs)
  BY <1>2 DEF M!Insert
<1>3. QED BY <1>1, <1>2

\* The call begins, starts its writers, is done.
LEMMA MCallStep ==
  ASSUME RowsAreFinite, MInv, NEW p \in MetricPushes,
         M!Begin(p) \/ M!Refuse(p) \/ M!StartWriters(p) \/ M!WritersDone(p)
  PROVE  MInv'
<1>a. /\ push \in [MetricPushes -> MFrame] /\ MPushInv(p)
      /\ push[p] \in MFrame /\ DOMAIN table = M!Writers
      /\ cache \subseteq M!Series /\ M!UsageType /\ MSeriesInv /\ failures \in Nat
  BY DEF MInv, M!TypeOK, MFrame, RowsAreFinite
<1>b. UNCHANGED <<table, cache, conn, closed, sd, usage, failures>>
  BY DEF M!Begin, M!Refuse, M!StartWriters, M!WritersDone
<1>c. M!UsageType' /\ cache' \subseteq M!Series /\ DOMAIN table' = M!Writers
      /\ \A t \in M!Writers : table[t] \subseteq table'[t]
  BY <1>a, <1>b DEF M!UsageType
<1>d. "ts" \in M!Writers
  BY DEF M!Writers
<1>1. CASE M!Begin(p) \/ M!Refuse(p)
  <2>1. PICK l \in {"check", "err"} : push' = [push EXCEPT ![p] = [M!Frame EXCEPT !.pc = l]]
    BY <1>1 DEF M!Begin, M!Refuse, M!Return
  <2> DEFINE f == [M!Frame EXCEPT !.pc = l]
  <2>2. f \in MFrame /\ f.pc = l /\ \A w \in M!Writers : f.writer[w] = "ok"
    BY MFrameAt DEF M!Returned
  <2> HIDE DEF f
  <2>3. push' = [push EXCEPT ![p] = f]
    BY <2>1 DEF f
  <2>4. push'[p] = f
    BY <1>a, <2>2, <2>3
  <2>5. MPushInv(p)'
    BY <2>2, <2>4 DEF MPushInv
  <2>6. push[p].pc # "write"
    BY <1>1 DEF M!Begin, M!Refuse
  <2>7. push[p].writer["ts"] # "send"
    BY <1>a, <1>d, <2>6 DEF MPushInv
  <2>8. MSeriesStep(p, f)
    BY <1>b, <1>d, <2>2, <2>7 DEF MSeriesStep
  <2>9. sd = "down" => f.pc \in M!Returned \cup {"check"}
    BY <2>2 DEF M!Returned
  <2>10. QED
    BY <1>b, <1>c, <2>2, <2>3, <2>5, <2>8, <2>9, MPushStep
<1>2. CASE M!StartWriters(p)
  <2> DEFINE writer == [w \in M!Writers |-> IF RowsOf[p][w] = {} THEN "ok" ELSE "run"]
             f == [push[p] EXCEPT !.pc = "write", !.writer = writer]
  <2>1. f \in MFrame /\ f.pc = "write" /\ \A w \in M!Writers : f.writer[w] = writer[w]
    BY <1>a DEF MFrame
  <2>2. /\ writer["samples"] = "ok" => RowsOf[p].samples = {}
        /\ writer["expHist"] = "ok" => RowsOf[p].expHist = {}
        /\ writer["ts"] = "ok" => RowsOf[p].ts = {}
        /\ writer["ts"] \in {"ok", "run"}
    BY DEF M!Writers
  <2> HIDE DEF writer, f
  <2>3. push' = [push EXCEPT ![p] = f] /\ push[p].pc = "check" /\ ~closed
    BY <1>2 DEF M!StartWriters, f, writer
  <2>4. push'[p] = f
    BY <1>a, <2>1, <2>3
  <2>5. MPushInv(p)'
    BY <2>1, <2>2, <2>4 DEF MPushInv, SamplesStored, ExpHistStored, M!Writers
  <2>6. push[p].writer["ts"] # "send"
    BY <1>a, <1>d, <2>3 DEF MPushInv
  <2>7. f.writer["ts"] # "send" /\ f.writer["ts"] # "err" /\ (f.writer["ts"] = "ok" => RowsOf[p].ts = {})
    BY <1>d, <2>1, <2>2
  <2>8. MSeriesStep(p, f)
    BY <1>b, <2>1, <2>6, <2>7 DEF MSeriesStep
  <2>9. sd # "down"
    BY <2>3 DEF MInv, MShutdownInv
  <2>10. QED
    BY <1>b, <1>c, <2>1, <2>3, <2>5, <2>8, <2>9, MPushStep
<1>3. CASE M!WritersDone(p)
  <2> DEFINE l == IF \E w \in M!Writers : push[p].writer[w] = "err" THEN "err" ELSE "ok"
             f == [M!Frame EXCEPT !.pc = l]
  <2>1. f \in MFrame /\ f.pc = l /\ \A w \in M!Writers : f.writer[w] = "ok"
    BY MFrameAt DEF M!Returned
  <2>2. push[p].pc = "write" /\ \A w \in M!Writers : push[p].writer[w] \in {"ok", "err"}
    BY <1>3 DEF M!WritersDone
  <2>3. l \in {"ok", "err"} /\ (l = "ok" => \A w \in M!Writers : push[p].writer[w] = "ok")
    BY <2>2
  <2>4. push' = [push EXCEPT ![p] = f]
    BY <1>3 DEF M!WritersDone, M!Return
  <2> HIDE DEF l, f
  <2>5. push'[p] = f
    BY <1>a, <2>1, <2>4
  <2>6. l = "ok" => SamplesStored(p) /\ ExpHistStored(p)
    BY <1>a, <2>2, <2>3 DEF MPushInv, M!Writers
  <2>7. MPushInv(p)'
    BY <1>b, <2>1, <2>3, <2>5, <2>6 DEF MPushInv, SamplesStored, ExpHistStored
  <2>8. MSeriesStep(p, f)
    <3>1. failures = 0 /\ l = "ok" => \A s \in RowsOf[p].ts : Underway(s)
      BY <1>a, <1>d, <2>2, <2>3 DEF MSeriesInv
    <3>2. QED
      BY <1>b, <1>d, <2>1, <2>2, <2>3, <3>1 DEF MSeriesStep
  <2>9. f.pc \in M!Returned \cup {"check"}
    BY <2>1, <2>3 DEF M!Returned
  <2>10. QED
    BY <1>b, <1>c, <2>1, <2>4, <2>7, <2>8, <2>9, MPushStep
<1>4. QED
  BY <1>1, <1>2, <1>3

\* The operator of the instance is the operator.
LEMMA MSameCardinality ==
  ASSUME NEW set
  PROVE  M!Cardinality(set) = Cardinality(set)
  BY DEF M!Cardinality, Cardinality

\* A writer whose step adds no series.
LEMMA MOtherWriter ==
  ASSUME RowsAreFinite, MInv, NEW p \in MetricPushes, NEW w \in M!Writers \ {"ts"},
         push[p].writer[w] \notin {"ok", "err"},
         NEW v \in {"send", "ok", "err"},
         push' = [push EXCEPT ![p].writer[w] = v],
         NEW rs, M!Insert(w, rs) \/ UNCHANGED table,
         w = "samples" /\ v = "ok" => M!Insert(w, RowsOf[p].samples),
         w = "expHist" /\ v = "ok" => M!Insert(w, RowsOf[p].expHist),
         M!UsageType', UNCHANGED <<cache, conn, closed, sd>>,
         UNCHANGED failures \/ M!Fault, v = "err" => M!Fault
  PROVE  MInv'
<1>1. push[p] \in MFrame /\ DOMAIN table = M!Writers /\ cache' \subseteq M!Series
  BY DEF MInv, M!TypeOK, MFrame
<1>2. DOMAIN table' = M!Writers /\ \A t \in M!Writers : table[t] \subseteq table'[t]
  BY <1>1, MTableGrows
<1>3. /\ w = "samples" /\ v = "ok" => SamplesStored(p)'
      /\ w = "expHist" /\ v = "ok" => ExpHistStored(p)'
  BY <1>1, MTableGrows DEF SamplesStored, ExpHistStored, M!Writers
<1>4. QED
  BY <1>1, <1>2, <1>3, MWriterStep

\* writeTimeSeries, which skips the series in the cache and adds to it before Send, keeps the
\* invariant: a series is in the cache only while someone writes it or once it is stored.
LEMMA MTimeSeriesSteps ==
  ASSUME RowsAreFinite, MInv, NEW p \in MetricPushes,
         M!AppendTimeSeries(p) \/ M!SendTimeSeries(p)
  PROVE  MInv'
<1>a. push[p] \in MFrame /\ DOMAIN table = M!Writers /\ cache \subseteq M!Series /\ M!UsageType
      /\ RowsOf[p].ts \subseteq M!Series /\ "ts" \in M!Writers
  BY DEF MInv, M!TypeOK, MFrame, M!Series, M!Writers
<1>1. CASE M!AppendTimeSeries(p)
  <2>0. push[p].writer["ts"] = "run" /\ UNCHANGED <<table, conn, closed, sd, usage>>
    BY <1>1 DEF M!AppendTimeSeries
  <2>a. DOMAIN table' = M!Writers /\ (\A t \in M!Writers : table[t] \subseteq table'[t]) /\ M!UsageType'
    BY <1>a, <2>0 DEF M!UsageType
  <2>1. CASE /\ M!Works
             /\ push' = [push EXCEPT ![p].writer["ts"] = "send", ![p].newTs = RowsOf[p].ts \ cache]
             /\ cache' = cache \cup RowsOf[p].ts
    <3> DEFINE g == [push[p] EXCEPT !.newTs = RowsOf[p].ts \ cache]
    <3>1. g \in MFrame /\ g.pc = push[p].pc /\ g.writer = push[p].writer
          /\ g.newTs = RowsOf[p].ts \ cache
      BY <1>a DEF MFrame
    <3>2. [push[p] EXCEPT !.writer["ts"] = "send", !.newTs = RowsOf[p].ts \ cache]
            = [g EXCEPT !.writer["ts"] = "send"]
      BY <1>a DEF MFrame
    <3>3. push' = [push EXCEPT ![p] = [g EXCEPT !.writer["ts"] = "send"]]
      BY <2>1, <3>2
    <3>4. cache' \subseteq M!Series /\ UNCHANGED failures
      BY <1>a, <2>1 DEF M!Works
    <3> HIDE DEF g
    <3>5. /\ push[p].writer["ts"] \notin {"ok", "err"}
          /\ cache' = cache \cup RowsOf[p].ts /\ M!UsageType' /\ UNCHANGED <<conn, closed, sd>>
          /\ "ts" # "samples" /\ "ts" # "expHist" /\ "send" \in {"send", "ok", "err"}
          /\ "send" # "err" /\ "send" # "ok"
      BY <2>0, <2>a, <2>1
    <3>6. QED
      BY <1>a, <2>0, <2>a, <3>1, <3>3, <3>4, <3>5, MWriterStep
  <2>2. CASE /\ M!Fault
             /\ push' = [push EXCEPT ![p].writer["ts"] = "err"]
             /\ \E some \in SUBSET RowsOf[p].ts : cache' = cache \cup some
    <3>1. cache' \subseteq M!Series
      BY <1>a, <2>2
    <3>2. QED
      BY <1>a, <2>0, <2>a, <2>2, <3>1, MWriterStep
  <2>3. QED
    BY <1>1, <2>1, <2>2 DEF M!AppendTimeSeries
<1>2. CASE M!SendTimeSeries(p)
  <2>0. push[p].writer["ts"] = "send" /\ UNCHANGED <<cache, conn, closed, sd, usage>>
        /\ (M!Insert("ts", push[p].newTs) \/ UNCHANGED table)
    BY <1>2 DEF M!SendTimeSeries, M!MaybeInsert
  <2>1. DOMAIN table' = M!Writers /\ (\A t \in M!Writers : table[t] \subseteq table'[t])
        /\ (M!Insert("ts", push[p].newTs) => push[p].newTs \subseteq table'["ts"])
    BY <1>a, <2>0, MTableGrows
  <2>2. M!UsageType' /\ cache' \subseteq M!Series
    BY <1>a, <2>0 DEF M!UsageType
  <2>3. PICK v \in {"ok", "err"} : /\ push' = [push EXCEPT ![p].writer["ts"] = v]
                                   /\ v = "ok" => M!Insert("ts", push[p].newTs) /\ UNCHANGED failures
                                   /\ v = "err" => M!Fault
    BY <1>2 DEF M!SendTimeSeries, M!Works
  <2>4. QED
    BY <1>a, <2>0, <2>1, <2>2, <2>3, MWriterStep
<1>3. QED
  BY <1>1, <1>2

\* The writers of samples, exponential histograms and metadata keep the invariant: they
\* touch tables of their own.
LEMMA MSampleSteps ==
  ASSUME RowsAreFinite, MInv, NEW p \in MetricPushes,
         M!AppendSamples(p) \/ M!SendSamples(p) \/ M!WriteExpHist(p) \/ M!WriteMetadata(p)
  PROVE  MInv'
<1>a. {"samples", "expHist", "metadata"} = M!Writers \ {"ts"} /\ M!UsageType
  BY DEF M!Writers, MInv, M!TypeOK
<1>b. UNCHANGED usage => M!UsageType'
  BY <1>a DEF M!UsageType
<1>1. CASE M!AppendSamples(p)
  <2>1. push[p].writer["samples"] = "run" /\ UNCHANGED <<table, cache, conn, closed, sd>>
    BY <1>1 DEF M!AppendSamples
  <2>2. M!UsageType'
    <3> DEFINE n == Cardinality(RowsOf[p].samples \ Internal)
    <3>1. n \in Nat
      BY FS_Difference, FS_CardinalityType DEF RowsAreFinite
    <3>2. UNCHANGED usage \/ usage' = [usage EXCEPT !.recorded = @ + n]
      BY <1>1, MSameCardinality DEF M!AppendSamples, M!Record
    <3> HIDE DEF n
    <3>3. QED
      BY <1>a, <3>1, <3>2 DEF M!UsageType
  <2>3. PICK v \in {"send", "err"} : /\ push' = [push EXCEPT ![p].writer["samples"] = v]
                                     /\ v = "send" => UNCHANGED failures
                                     /\ v = "err" => M!Fault
    BY <1>1 DEF M!AppendSamples, M!Works
  <2>4. QED
    BY <1>a, <2>1, <2>2, <2>3, MOtherWriter
<1>2. CASE M!SendSamples(p)
  <2>1. push[p].writer["samples"] = "send" /\ UNCHANGED <<usage, cache, conn, closed, sd>>
        /\ (M!Insert("samples", RowsOf[p].samples) \/ UNCHANGED table)
    BY <1>2 DEF M!SendSamples, M!MaybeInsert
  <2>2. PICK v \in {"ok", "err"} :
               /\ push' = [push EXCEPT ![p].writer["samples"] = v]
               /\ v = "ok" => M!Insert("samples", RowsOf[p].samples) /\ UNCHANGED failures
               /\ v = "err" => M!Fault
    BY <1>2 DEF M!SendSamples, M!Works
  <2>3. QED
    BY <1>a, <1>b, <2>1, <2>2, MOtherWriter
<1>3. CASE M!WriteExpHist(p)
  <2>1. push[p].writer["expHist"] = "run" /\ UNCHANGED <<usage, cache, conn, closed, sd>>
        /\ (M!Insert("expHist", RowsOf[p].expHist) \/ UNCHANGED table)
    BY <1>3 DEF M!WriteExpHist, M!MaybeInsert
  <2>2. PICK v \in {"ok", "err"} :
               /\ push' = [push EXCEPT ![p].writer["expHist"] = v]
               /\ v = "ok" => M!Insert("expHist", RowsOf[p].expHist) /\ UNCHANGED failures
               /\ v = "err" => M!Fault
    BY <1>3 DEF M!WriteExpHist, M!Works
  <2>3. QED
    BY <1>a, <1>b, <2>1, <2>2, MOtherWriter
<1>4. CASE M!WriteMetadata(p)
  <2>1. push[p].writer["metadata"] = "run" /\ UNCHANGED <<usage, cache, conn, closed, sd>>
        /\ (M!Insert("metadata", RowsOf[p].metadata) \/ UNCHANGED table)
        /\ push' = [push EXCEPT ![p].writer["metadata"] = "ok"]
        /\ (UNCHANGED failures \/ M!Fault)
    BY <1>4 DEF M!WriteMetadata, M!MaybeInsert, M!Works
  <2>2. /\ "metadata" \in M!Writers \ {"ts"} /\ push[p].writer["metadata"] \notin {"ok", "err"}
        /\ M!UsageType' /\ "ok" \in {"send", "ok", "err"}
        /\ "metadata" # "samples" /\ "metadata" # "expHist" /\ "ok" # "err"
    BY <1>a, <1>b, <2>1
  <2>3. QED
    BY <2>1, <2>2, MOtherWriter
<1>5. QED
  BY <1>1, <1>2, <1>3, <1>4

\* Expiry, Shutdown and the reader.
LEMMA MOtherSteps ==
  ASSUME RowsAreFinite, MInv,
         M!Expire \/ M!StopUsage \/ M!CloseChan \/ M!WaitPushes \/ M!ReaderTick \/ M!ReaderExport
         \/ UNCHANGED M!vars
  PROVE  MInv'
<1>a. usage \in [recorded : Nat, reader : {"wait", "export", "stopped", "flush", "off"},
                 value : Nat, reported : Nat]
      /\ failures \in Nat
  BY DEF MInv, M!TypeOK, M!UsageType, RowsAreFinite
<1>b. T!Read(usage.recorded) = usage.recorded
  BY <1>a, ReadIsTheCount
<1>c. M!Read(usage.recorded) = usage.recorded
  BY <1>b DEF M!Read, T!Read, M!ParseUsage, T!ParseUsage, M!Views, T!Views
<1>1. UNCHANGED <<push, table>> /\ cache' \subseteq cache
  BY DEF M!Expire, M!StopUsage, M!CloseChan, M!WaitPushes, M!ReaderTick, M!ReaderExport, M!vars
<1>2. UNCHANGED failures \/ M!Fault
  BY DEF M!Expire, M!StopUsage, M!CloseChan, M!WaitPushes, M!ReaderTick, M!ReaderExport, M!vars,
         M!Works
<1>3. M!UsageType'
  <2>1. CASE UNCHANGED usage
    BY <1>a, <2>1 DEF M!UsageType
  <2>2. CASE M!StopUsage \/ M!ReaderTick
    BY <1>a, <1>c, <2>2 DEF M!StopUsage, M!ReaderTick, M!UsageStop, M!UsageTick, M!UsageType
  <2>3. CASE M!ReaderExport
    BY <1>a, <2>3 DEF M!ReaderExport, M!UsageExported, M!UsageType
  <2>4. QED
    BY <2>1, <2>2, <2>3 DEF M!Expire, M!CloseChan, M!WaitPushes, M!vars
<1>4. MShutdownInv' /\ conn' \in BOOLEAN /\ closed' \in BOOLEAN
      /\ sd' \in {"up", "usage", "close", "wait", "down"}
  <2>a. MShutdownInv /\ conn \in BOOLEAN /\ closed \in BOOLEAN
        /\ sd \in {"up", "usage", "close", "wait", "down"}
    BY DEF MInv, M!TypeOK
  <2>1. CASE UNCHANGED <<conn, closed, sd>>
    BY <1>1, <2>a, <2>1 DEF MShutdownInv
  <2>2. CASE M!StopUsage
    BY <2>a, <2>2 DEF M!StopUsage, MShutdownInv
  <2>3. CASE M!CloseChan
    <3>1. sd = "usage" /\ sd' = "wait" /\ closed' = TRUE /\ UNCHANGED <<conn, push>>
      BY <2>3 DEF M!CloseChan
    <3>2. closed' \in BOOLEAN
      BY <3>1, Zenon
    <3>3. QED
      BY <2>a, <3>1, <3>2 DEF MShutdownInv
  <2>4. CASE M!WaitPushes
    <3>1. sd = "wait" /\ sd' = "down" /\ conn' = FALSE /\ UNCHANGED <<closed, push>>
          /\ \A p \in MetricPushes : push[p].pc \in M!Returned
      BY <2>4 DEF M!WaitPushes
    <3>2. conn' \in BOOLEAN
      BY <3>1, Zenon
    <3>3. QED
      BY <2>a, <3>1, <3>2 DEF MShutdownInv
  <2>5. QED
    BY <2>1, <2>2, <2>3, <2>4 DEF M!Expire, M!ReaderTick, M!ReaderExport, M!vars
<1>5. failures' \in 0..MaxMetricFailures /\ (failures' = 0 => failures = 0)
  BY <1>a, <1>2 DEF MInv, M!TypeOK, M!Fault, RowsAreFinite
<1>6. M!TypeOK'
  BY <1>1, <1>3, <1>4, <1>5 DEF MInv, M!TypeOK
<1>7. (\A p \in MetricPushes : MPushInv(p)') /\ MSeriesInv'
  BY <1>1, <1>5 DEF MInv, MPushInv, SamplesStored, ExpHistStored, MSeriesInv, Underway
<1>8. QED
  BY <1>4, <1>6, <1>7 DEF MInv

\* Every step of the metrics exporter, or a stutter, keeps the invariant.
LEMMA MNextStep ==
  ASSUME RowsAreFinite, MInv, [M!Next]_M!vars
  PROVE  MInv'
BY MOtherSteps, MCallStep, MTimeSeriesSteps, MSampleSteps DEF M!Next, M!PushStep

\* The types of the metrics exporter, and its invariant.
THEOREM MetricsInvariant == M!Spec => []MInv
<1>1. M!Init => MInv
  BY MInit, ExportersAssumption
<1>2. MInv /\ [M!Next]_M!vars => MInv'
  BY MNextStep, ExportersAssumption
<1>3. QED
  BY <1>1, <1>2, PTL DEF M!Spec

\* Without a failing call, the series of an acknowledged batch are stored when no push can
\* have them under way.
LEMMA MSeriesStored == MInv => M!StoredSampleHasSeries
<1> SUFFICES ASSUME MInv, failures = 0, \A p \in MetricPushes : push[p].pc \in M!Returned,
                    NEW p \in M!AckedBatches, NEW s \in RowsOf[p].ts
             PROVE  s \in table["ts"]
  BY DEF M!StoredSampleHasSeries
<1>1. Underway(s)
  BY DEF MInv, MSeriesInv, M!AckedBatches
<1>2. \A q \in MetricPushes : push[q].writer["ts"] # "send"
  BY DEF MInv, MPushInv, M!Writers, M!Returned
<1>3. QED
  BY <1>1, <1>2 DEF Underway

\* As TStoreStep: a step of the metrics exporter that acknowledges nothing.
LEMMA MStoreStep ==
  ASSUME DOMAIN table = M!Writers, NEW t \in M!Writers, NEW rs,
         (M!Insert(t, rs) /\ conn) \/ UNCHANGED table, UNCHANGED conn, UNCHANGED M!AckedBatches
  PROVE  [MS!Next]_MS!sinkVars
<1>1. CASE UNCHANGED table
  <2>1. UNCHANGED M!StoredBatches
    BY <1>1 DEF M!StoredBatches
  <2>2. QED
    BY <2>1 DEF MS!sinkVars
<1>2. CASE M!Insert(t, rs) /\ conn
  <2>1. \A u \in M!Writers : table[u] \subseteq table'[u]
    BY <1>2, MTableGrows
  <2>2. {"samples", "expHist"} \subseteq M!Writers
    BY DEF M!Writers
  <2>3. M!StoredBatches \subseteq M!StoredBatches' /\ M!StoredBatches' \in SUBSET MetricPushes
    BY <2>1, <2>2 DEF M!StoredBatches
  <2>4. conn = TRUE
    BY <1>2
  <2>5. QED
    BY <1>2, <2>3 DEF MS!Next, MS!Store
<1>3. QED
  BY <1>1, <1>2

\* A push is acknowledged by its frame alone.
LEMMA MNotAcked ==
  ASSUME push \in [MetricPushes -> MFrame], NEW p \in MetricPushes, NEW f \in MFrame,
         push' = [push EXCEPT ![p] = f], push[p].pc # "ok", f.pc # "ok"
  PROVE  UNCHANGED M!AckedBatches
<1>1. \A q \in MetricPushes : push'[q].pc = "ok" <=> push[q].pc = "ok"
  OBVIOUS
<1>2. QED
  BY <1>1 DEF M!AckedBatches

\* Every step of the metrics exporter stores, acknowledges, closes, or is none of
\* the sink's.
LEMMA MStepIsASinkStep ==
  ASSUME MInv, M!Next
  PROVE  [MS!Next]_MS!sinkVars
<1>a. push \in [MetricPushes -> MFrame] /\ DOMAIN table = M!Writers
  BY DEF MInv, M!TypeOK, MFrame
<1>b. {"samples", "ts", "expHist", "metadata"} = M!Writers
  BY DEF M!Writers
<1>1. ASSUME NEW p \in MetricPushes, M!WritersDone(p) PROVE [MS!Next]_MS!sinkVars
  <2>1. push[p].pc = "write" /\ UNCHANGED <<table, conn>>
        /\ \A w \in M!Writers : push[p].writer[w] \in {"ok", "err"}
    BY <1>1 DEF M!WritersDone
  <2>2. conn
    BY <2>1 DEF MInv, MShutdownInv, M!Returned
  <2>3. UNCHANGED M!StoredBatches
    BY <2>1 DEF M!StoredBatches
  <2>4. CASE \A w \in M!Writers : push[p].writer[w] # "err"
    <3>1. p \in M!StoredBatches
      BY <1>b, <2>1, <2>4 DEF MInv, MPushInv, SamplesStored, ExpHistStored, M!StoredBatches
    <3>2. M!AckedBatches' = M!AckedBatches \cup {p}
      <4>1. push' = [push EXCEPT ![p] = [M!Frame EXCEPT !.pc = "ok"]]
        BY <1>1, <2>4 DEF M!WritersDone, M!Return
      <4>2. [M!Frame EXCEPT !.pc = "ok"].pc = "ok"
        BY MFrameAt DEF M!Returned
      <4>3. push'[p].pc = "ok" /\ \A q \in MetricPushes \ {p} : push'[q] = push[q]
        BY <1>a, <4>1, <4>2
      <4>4. QED
        BY <4>3 DEF M!AckedBatches
    <3>3. MS!Ack(p)
      BY <2>1, <2>2, <2>3, <3>1, <3>2 DEF MS!Ack
    <3>4. QED
      BY <3>3 DEF MS!Next
  <2>5. CASE \E w \in M!Writers : push[p].writer[w] = "err"
    <3>1. push' = [push EXCEPT ![p] = [M!Frame EXCEPT !.pc = "err"]]
      BY <1>1, <2>5 DEF M!WritersDone, M!Return
    <3>2. [M!Frame EXCEPT !.pc = "err"] \in MFrame /\ [M!Frame EXCEPT !.pc = "err"].pc # "ok"
      BY MFrameAt DEF M!Returned
    <3>3. UNCHANGED M!AckedBatches
      BY <1>a, <2>1, <3>1, <3>2, MNotAcked
    <3>4. QED
      BY <1>a, <1>b, <2>1, <3>3, MStoreStep
  <2>6. QED
    BY <2>4, <2>5
<1>2. ASSUME NEW p \in MetricPushes, M!Begin(p) \/ M!Refuse(p) PROVE [MS!Next]_MS!sinkVars
  <2>1. PICK l \in {"check", "err"} : push' = [push EXCEPT ![p] = [M!Frame EXCEPT !.pc = l]]
    BY <1>2 DEF M!Begin, M!Refuse, M!Return
  <2>2. push[p].pc # "ok" /\ UNCHANGED <<table, conn>>
    BY <1>2 DEF M!Begin, M!Refuse
  <2>3. [M!Frame EXCEPT !.pc = l] \in MFrame /\ [M!Frame EXCEPT !.pc = l].pc # "ok"
    BY MFrameAt DEF M!Returned
  <2>4. UNCHANGED M!AckedBatches
    BY <1>a, <2>1, <2>2, <2>3, MNotAcked
  <2>5. QED
    BY <1>a, <1>b, <2>2, <2>4, MStoreStep
<1>3. ASSUME NEW p \in MetricPushes,
             M!StartWriters(p) \/ M!AppendTimeSeries(p) \/ M!SendTimeSeries(p)
             \/ M!AppendSamples(p) \/ M!SendSamples(p) \/ M!WriteExpHist(p) \/ M!WriteMetadata(p)
      PROVE  [MS!Next]_MS!sinkVars
  <2>1. UNCHANGED conn
    BY <1>3
    DEF M!StartWriters, M!AppendTimeSeries, M!SendTimeSeries, M!AppendSamples, M!SendSamples,
        M!WriteExpHist, M!WriteMetadata
  <2>2. PICK t \in M!Writers : \E rs : (M!Insert(t, rs) /\ conn) \/ UNCHANGED table
    BY <1>3, <1>b
    DEF M!StartWriters, M!AppendTimeSeries, M!SendTimeSeries, M!AppendSamples, M!SendSamples,
        M!WriteExpHist, M!WriteMetadata, M!MaybeInsert, M!Works
  <2>3. \A q \in MetricPushes : push'[q].pc = "ok" <=> push[q].pc = "ok"
    <3>1. push[p] \in MFrame
      BY <1>a
    <3>2. CASE M!StartWriters(p)
      BY <1>a, <3>1, <3>2 DEF M!StartWriters, MFrame
    <3>3. CASE push' = [push EXCEPT ![p].writer["ts"] = "send", ![p].newTs = RowsOf[p].ts \ cache]
      <4>1. /\ [push[p] EXCEPT !.writer["ts"] = "send", !.newTs = RowsOf[p].ts \ cache].pc
                 = push[p].pc
        BY <3>1 DEF MFrame
      <4>2. push'[p].pc = push[p].pc /\ \A q \in MetricPushes \ {p} : push'[q] = push[q]
        BY <1>a, <3>3, <4>1
      <4>3. QED
        BY <4>2
    <3>4. CASE \E w \in M!Writers, v \in {"send", "ok", "err"} :
                 push' = [push EXCEPT ![p].writer[w] = v]
      BY <1>a, <3>1, <3>4 DEF MFrame
    <3>5. CASE M!SendTimeSeries(p) \/ M!AppendSamples(p) \/ M!SendSamples(p)
               \/ M!WriteExpHist(p) \/ M!WriteMetadata(p)
      BY <1>b, <3>4, <3>5
      DEF M!SendTimeSeries, M!AppendSamples, M!SendSamples, M!WriteExpHist, M!WriteMetadata
    <3>6. CASE M!AppendTimeSeries(p)
      BY <1>b, <3>3, <3>4, <3>6 DEF M!AppendTimeSeries
    <3>7. QED
      BY <1>3, <3>2, <3>5, <3>6
  <2>4. UNCHANGED M!AckedBatches
    BY <2>3 DEF M!AckedBatches
  <2>5. QED
    BY <1>a, <2>1, <2>2, <2>4, MStoreStep
<1>4. ASSUME M!WaitPushes PROVE [MS!Next]_MS!sinkVars
  <2>1. UNCHANGED <<M!StoredBatches, M!AckedBatches>> /\ conn' = FALSE
    BY <1>4 DEF M!WaitPushes, M!StoredBatches, M!AckedBatches
  <2>2. QED
    BY <2>1 DEF MS!Next, MS!Close
<1>5. ASSUME M!Expire \/ M!StopUsage \/ M!CloseChan \/ M!ReaderTick \/ M!ReaderExport
      PROVE  [MS!Next]_MS!sinkVars
  <2>1. UNCHANGED <<push, table, conn>>
    BY <1>5 DEF M!Expire, M!StopUsage, M!CloseChan, M!ReaderTick, M!ReaderExport
  <2>2. QED
    BY <2>1 DEF MS!sinkVars, M!StoredBatches, M!AckedBatches
<1>6. QED
  BY <1>1, <1>2, <1>3, <1>4, <1>5 DEF M!Next, M!PushStep

\* The metrics exporter starts as a sink does, ...
LEMMA MSinkInit == M!Init => MS!Init
<1>1. M!Init => conn = TRUE /\ M!StoredBatches \subseteq MetricPushes
  BY DEF M!Init, M!StoredBatches
<1>2. M!Init => M!AckedBatches = {}
  BY DEF M!Init, M!AckedBatches, M!Frame
<1>3. QED
  BY <1>1, <1>2 DEF MS!Init

\* ... and goes on as one: writeBatch joins the errors of its four writers, so a push returns
\* nil only when its samples and histograms are stored, and Shutdown closes the connection
\* when no push can write any more.
LEMMA MSinkStep == MInv /\ [M!Next]_M!vars => [MS!Next]_MS!sinkVars
<1>1. UNCHANGED M!vars => UNCHANGED MS!sinkVars
  BY DEF M!vars, MS!sinkVars, M!StoredBatches, M!AckedBatches
<1>2. QED
  BY <1>1, MStepIsASinkStep

-----------------------------------------------------------------------------
(* The exporters *)

\* A step is one of the exporter the behaviour is about, which stays the same.
LEMMA ExporterSteps ==
  ASSUME [ExportersNext]_exportersVars
  PROVE  /\ UNCHANGED exporter
         /\ IsLogs => [Next]_vars
         /\ IsTraces => [T!Next]_T!vars
         /\ IsMetrics => [M!Next]_M!vars
<1> USE DEF IsLogs, IsTraces, IsMetrics
<1>1. CASE ExportersNext
  BY <1>1 DEF ExportersNext
<1>2. CASE UNCHANGED exportersVars
  BY <1>2
  DEF exportersVars, otherVars, vars, groupVars, batchVars, cacheVars, tableVars, runVars, lifeVars,
      T!vars, T!runVars, M!vars
<1>3. QED
  BY <1>1, <1>2

\* The invariant of the exporter the behaviour is about.
ExportersInv ==
  /\ exporter \in {"logs", "traces", "metrics"}
  /\ IsLogs => LgInv
  /\ IsTraces => TInv
  /\ IsMetrics => MInv

\* Each exporter keeps its own.
THEOREM ExportersInvariant == ExportersSpec => []ExportersInv
<1>1. ExportersInit => ExportersInv
  BY LgInit, TInit, MInit, ExportersAssumption
  DEF ExportersInit, ExportersInv, IsLogs, IsTraces, IsMetrics
<1>2. ExportersInv /\ [ExportersNext]_exportersVars => ExportersInv'
  <2> SUFFICES ASSUME ExportersInv, [ExportersNext]_exportersVars PROVE ExportersInv'
    OBVIOUS
  <2>1. CASE IsLogs
    BY <2>1, ExporterSteps, LgStep DEF ExportersInv, IsLogs, IsTraces, IsMetrics
  <2>2. CASE IsTraces
    BY <2>2, ExporterSteps, TNextStep, ExportersAssumption
    DEF ExportersInv, IsLogs, IsTraces, IsMetrics
  <2>3. CASE IsMetrics
    BY <2>3, ExporterSteps, MNextStep, ExportersAssumption
    DEF ExportersInv, IsLogs, IsTraces, IsMetrics
  <2>4. QED
    BY <2>1, <2>2, <2>3 DEF ExportersInv, IsLogs, IsTraces, IsMetrics
<1>3. QED
  BY <1>1, <1>2, PTL DEF ExportersSpec

\* When Shutdown of the traces exporter is over and no call failed, the usage table has the
\* usage of every push, those that Shutdown has waited for included.
THEOREM UsageOfAllPushes == ExportersSpec => []UsageIsReported
<1>1. ExportersInv => UsageIsReported
  BY TUsage DEF ExportersInv, UsageIsReported
<1>2. QED
  BY <1>1, ExportersInvariant, PTL

\* No series is lost to the cache: while no call fails, when all pushes have returned the
\* series of every acknowledged batch are stored, whichever push has put them into the cache.
THEOREM SeriesAreStored == ExportersSpec => []StoredSampleHasSeries
<1>1. ExportersInv => StoredSampleHasSeries
  BY MSeriesStored DEF ExportersInv, StoredSampleHasSeries
<1>2. QED
  BY <1>1, ExportersInvariant, PTL

\* An exporter's step is one of the sink, also of one with more batches.
LEMMA ExporterStepIsASinkStep ==
  ASSUME ExportersInv, ExportersInv', [ExportersNext]_exportersVars
  PROVE  [Sink!Next]_Sink!sinkVars
<1>1. UNCHANGED exporter
  BY ExporterSteps
<1>2. CASE IsLogs
  <2>1. [S!Next]_S!sinkVars
    BY <1>1, <1>2, ExporterSteps, StepIsASinkStep DEF ExportersInv, IsLogs
  <2>2. IsLogs'
    BY <1>1, <1>2 DEF IsLogs
  <2> HIDE DEF IsLogs, StoredBatches, AckedBatches
  <2>3. QED
    BY <1>2, <2>1, <2>2
    DEF S!Next, S!Store, S!Ack, S!Close, S!sinkVars,
        Sink!Next, Sink!Store, Sink!Ack, Sink!Close, Sink!sinkVars
<1>3. CASE IsTraces
  <2>1. [TS!Next]_TS!sinkVars
    BY <1>1, <1>3, ExporterSteps, TSinkStep DEF ExportersInv
  <2>2. IsTraces' /\ ~IsLogs /\ ~IsLogs'
    BY <1>1, <1>3 DEF IsLogs, IsTraces
  <2>3. QED
    BY <1>3, <2>1, <2>2
    DEF TS!Next, TS!Store, TS!Ack, TS!Close, TS!sinkVars,
        Sink!Next, Sink!Store, Sink!Ack, Sink!Close, Sink!sinkVars
<1>4. CASE IsMetrics
  <2>1. [MS!Next]_MS!sinkVars
    BY <1>1, <1>4, ExporterSteps, MSinkStep DEF ExportersInv
  <2>2. /\ ~IsLogs /\ ~IsLogs'
        /\ ~IsTraces /\ ~IsTraces'
    BY <1>1, <1>4 DEF IsLogs, IsTraces, IsMetrics
  <2>3. QED
    BY <1>4, <2>1, <2>2
    DEF MS!Next, MS!Store, MS!Ack, MS!Close, MS!sinkVars,
        Sink!Next, Sink!Store, Sink!Ack, Sink!Close, Sink!sinkVars
<1>5. QED
  BY <1>2, <1>3, <1>4 DEF ExportersInv, IsLogs, IsTraces, IsMetrics

\* All three exporters are at-least-once sinks, for any batches and failures.
THEOREM ExportersAreSinks == ExportersSpec => ImplementsSink
<1>1. ExportersInit => Sink!Init
  <2>1. ExportersInit /\ IsLogs => S!Init
    BY DEF ExportersInit, IsLogs, Init, Idle, S!Init, StoredBatches, AckedBatches
  <2>2. ExportersInit /\ IsTraces => TS!Init
    BY TSinkInit DEF ExportersInit, IsTraces
  <2>3. ExportersInit /\ IsMetrics => MS!Init
    BY MSinkInit DEF ExportersInit, IsMetrics
  <2>4. ExportersInit => exporter \in {"logs", "traces", "metrics"}
    BY DEF ExportersInit
  <2>5. QED
    BY <2>1, <2>2, <2>3, <2>4
    DEF S!Init, TS!Init, MS!Init, Sink!Init, IsLogs, IsTraces, IsMetrics
<1>2. QED
  BY <1>1, ExportersInvariant, ExporterStepIsASinkStep, PTL
  DEF ExportersSpec, Sink!Spec, ImplementsSink
=============================================================================

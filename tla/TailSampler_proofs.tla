------------------------ MODULE TailSampler_proofs -------------------------
(***************************************************************************)
(* Proofs about the tail sampling processor, for any number of consumers,  *)
(* spans and traces, any capacity of its queues and any policies: the      *)
(* types, that deleteChan is the order in which the map is emptied and     *)
(* bounds it, and that, while there is room for every trace, the spans go  *)
(* to the next consumer once and as decided.                               *)
(***************************************************************************)
EXTENDS TailSampler, FiniteSetTheorems, TLAPS

-----------------------------------------------------------------------------
(* Sequences *)

\* What the modules of the queues use of Append and Tail.
LEMMA QueueFacts ==
  ASSUME NEW S, NEW q \in Seq(S)
  PROVE  /\ Len(q) \in Nat /\ DOMAIN q = 1..Len(q)
         /\ \A x \in S : /\ Append(q, x) \in Seq(S) /\ Len(Append(q, x)) = Len(q) + 1
                         /\ DOMAIN Append(q, x) = 1..(Len(q) + 1)
                         /\ Append(q, x)[Len(q) + 1] = x
                         /\ \A i \in 1..Len(q) : Append(q, x)[i] = q[i]
         /\ q # <<>> => /\ Tail(q) \in Seq(S) /\ Len(Tail(q)) = Len(q) - 1
                        /\ Len(q) > 0 /\ Head(q) \in S /\ Head(q) = q[1]
                        /\ DOMAIN Tail(q) = 1..(Len(q) - 1)
                        /\ \A i \in 1..(Len(q) - 1) : Tail(q)[i] = q[i + 1]
  OBVIOUS

\* A set that is renumbered by one keeps its cardinality.
LEMMA Shift ==
  ASSUME NEW A \in SUBSET Nat, NEW B \in SUBSET Nat, IsFiniteSet(A),
         \A i \in Nat : i \in B <=> i + 1 \in A, 0 \notin A
  PROVE  Cardinality(B) = Cardinality(A)
<1> DEFINE f == [i \in A |-> i - 1]
<1>1. \A i \in A : i - 1 \in B /\ i \in Nat
  OBVIOUS
<1>2. f \in [A -> B]
  BY <1>1
<1>3. \A i, j \in A : f[i] = f[j] => i = j
  BY <1>1
<1>4. \A j \in B : \E i \in A : f[i] = j
  <2> SUFFICES ASSUME NEW j \in B PROVE \E i \in A : f[i] = j
    OBVIOUS
  <2>1. j + 1 \in A /\ f[j + 1] = j
    OBVIOUS
  <2>2. QED
    BY <2>1
<1>5. f \in Bijection(A, B)
  BY <1>2, <1>3, <1>4 DEF Bijection, Injection, IsInjective, Surjection
<1>6. ExistsBijection(A, B)
  BY <1>5 DEF ExistsBijection
<1>7. QED
  BY <1>6, FS_Bijection

\* How often an element is in a queue.
LEMMA CountFacts ==
  ASSUME NEW S, NEW q \in Seq(S), NEW t
  PROVE  /\ Count(q, t) \in Nat
         /\ \A x \in S : Count(Append(q, x), t) = Count(q, t) + (IF x = t THEN 1 ELSE 0)
         /\ q # <<>> => Count(Tail(q), t) = Count(q, t) - (IF Head(q) = t THEN 1 ELSE 0)
<1> DEFINE A == {i \in DOMAIN q : q[i] = t}
<1>0. IsFiniteSet(A) /\ Cardinality(A) \in Nat /\ A \in SUBSET (1..Len(q)) /\ Len(q) \in Nat
  <2>1. A \in SUBSET (1..Len(q)) /\ Len(q) \in Nat
    BY QueueFacts
  <2> HIDE DEF A
  <2>2. IsFiniteSet(1..Len(q))
    BY <2>1, FS_Interval
  <2>3. IsFiniteSet(A)
    BY <2>1, <2>2, FS_Subset
  <2>4. QED
    BY <2>1, <2>3, FS_CardinalityType
<1>1. ASSUME NEW x \in S
      PROVE  Count(Append(q, x), t) = Count(q, t) + (IF x = t THEN 1 ELSE 0)
  <2> DEFINE B == {i \in DOMAIN Append(q, x) : Append(q, x)[i] = t}
  <2>1. B = IF x = t THEN A \cup {Len(q) + 1} ELSE A
    BY QueueFacts
  <2>2. Len(q) + 1 \notin A
    BY <1>0
  <2>3. Cardinality(B) = Cardinality(A) + (IF x = t THEN 1 ELSE 0)
    <3> HIDE DEF A, B
    <3>1. Cardinality(A \cup {Len(q) + 1}) = Cardinality(A) + 1
      BY <1>0, <2>2, FS_AddElement
    <3>2. QED
      BY <1>0, <2>1, <3>1
  <2>4. QED
    BY <2>3 DEF Count
<1>2. ASSUME q # <<>>
      PROVE  Count(Tail(q), t) = Count(q, t) - (IF Head(q) = t THEN 1 ELSE 0)
  <2> DEFINE B == {i \in DOMAIN Tail(q) : Tail(q)[i] = t}
             C == A \ {1}
  <2>0. 1 \in A <=> Head(q) = t
    BY <1>2, QueueFacts
  <2>1. IsFiniteSet(C) /\ Cardinality(C) = Cardinality(A) - (IF Head(q) = t THEN 1 ELSE 0)
    <3> HIDE DEF A
    <3>1. IsFiniteSet(A \ {1})
          /\ Cardinality(A \ {1}) = IF 1 \in A THEN Cardinality(A) - 1 ELSE Cardinality(A)
      BY <1>0, FS_RemoveElement
    <3>2. QED
      BY <1>0, <2>0, <3>1
  <2>2. \A i \in Nat : i \in B <=> i + 1 \in C
    BY <1>0, <1>2, QueueFacts
  <2>3. B \in SUBSET Nat /\ C \in SUBSET Nat /\ 0 \notin C
    BY <1>0, <1>2, QueueFacts
  <2>4. Cardinality(B) = Cardinality(C)
    BY <2>1, <2>2, <2>3, Shift
  <2>5. QED
    BY <2>1, <2>4 DEF Count
<1>3. QED
  BY <1>0, <1>1, <1>2 DEF Count

-----------------------------------------------------------------------------
(* Types *)

Storers == {"add", "enqueue", "evict", "drop"}

\* What a consumer holds at each point of the loop, and the ticker.
ControlOK ==
  /\ \A c \in Consumers :
        /\ cpc[c] = "idle" => span[c] = Nil
        /\ cpc[c] # "idle" => span[c] \in received
        /\ cpc[c] \in Storers => data[c] = span[c]
        /\ cpc[c] = "append" => data[c] \in Spans
        /\ cpc[c] = "drop" => victim[c] \in TraceIDs
  /\ \A c, d \in Consumers : span[c] = span[d] /\ span[c] # Nil => c = d
  /\ tpc = "close" => Len(batches) < NumBatches
  /\ tpc = "decide" => todo # <<>> /\ trace \in Spans /\ decision \in Decision

\* The types of what the consumers write, and of what the ticker does.
ConsumerTypes ==
  /\ cpc \in [Consumers -> {"idle", "store", "append"} \cup Storers]
  /\ span \in [Consumers -> Spans \cup {Nil}]
  /\ data \in [Consumers -> Spans \cup {Nil}]
  /\ victim \in [Consumers -> TraceIDs \cup {Nil}]
  /\ received \subseteq Spans

MapTypes ==
  /\ idToTrace \in [TraceIDs -> Spans \cup {Nil}]
  /\ batchesOf \in [Spans -> SUBSET Spans]
  /\ finalDecision \in [Spans -> Decision \cup {"Unspecified"}]
  /\ forwarded \in [Spans -> Nat]
  /\ deleteChan \in Seq(TraceIDs) /\ Len(deleteChan) <= NumTraces

BatcherTypes ==
  /\ pendingIds \in Seq(TraceIDs) /\ Len(pendingIds) <= PendingCap
  /\ currentBatch \in Seq(TraceIDs)
  /\ batches \in Seq(Seq(TraceIDs)) /\ Len(batches) <= NumBatches
  /\ todo \in Seq(TraceIDs)

TickTypes ==
  /\ tpc \in {"wait", "close", "load", "decide", "exited"}
  /\ trace \in Spans \cup {Nil}
  /\ decision \in Decision \cup {Nil}
  /\ spc \in {"up", "closing", "stopped", "down"}

Types == ConsumerTypes /\ MapTypes /\ BatcherTypes /\ TickTypes /\ ControlOK

\* Nothing but numTracesOnMap is missing, which needs the counts.
LEMMA TypesAreTypeOK == Types /\ numTracesOnMap \in Nat => TypeOK
BY DEF Types, ConsumerTypes, MapTypes, BatcherTypes, TickTypes, Storers, TypeOK

\* A new processor has values of the right types.
LEMMA TypesInit == Init => Types
<1> SUFFICES ASSUME Init PROVE Types
  OBVIOUS
<1>1. ConsumerTypes /\ MapTypes /\ TickTypes /\ ControlOK
  BY TailSamplerAssumption
  DEF Init, ConsumerTypes, MapTypes, TickTypes, ControlOK, Storers, Decision
<1>2. BatcherTypes
  <2>1. batches \in Seq(Seq(TraceIDs)) /\ Len(batches) <= NumBatches
    BY TailSamplerAssumption DEF Init
  <2>2. QED
    BY <2>1, TailSamplerAssumption DEF Init, BatcherTypes
<1>3. QED
  BY <1>1, <1>2 DEF Types

\* A consumer's step keeps the types.
LEMMA ConsumersKeepTypes ==
  ASSUME Types, NEW c \in Consumers, Load(c) \/ ConsumerStep(c)
  PROVE  Types'
<1> USE TailSamplerAssumption DEF Types, Goto, Id
<1>a. ConsumerTypes /\ MapTypes /\ ControlOK
  OBVIOUS
<1>b. cpc[c] # "idle" => span[c] \in Spans /\ TraceOf[span[c]] \in TraceIDs
  BY <1>a DEF ConsumerTypes, ControlOK
<1>1. CASE Load(c)
  BY <1>1 DEF Load, ConsumerTypes, MapTypes, BatcherTypes, TickTypes, ControlOK, Storers,
    traceVars, batcherVars, evictVars, tickVars
<1>2. CASE LoadStored(c)
  BY <1>b, <1>2 DEF LoadStored, ConsumerTypes, MapTypes, BatcherTypes, TickTypes, ControlOK, Storers,
    traceVars, batcherVars, evictVars, tickVars
<1>3. CASE Store(c)
  BY <1>b, <1>3 DEF Store, StoreNew, ConsumerTypes, MapTypes, BatcherTypes, TickTypes, ControlOK,
    Storers, batcherVars, evictVars, tickVars
<1>4. CASE AddToCurrentBatch(c)
  BY <1>b, <1>4 DEF AddToCurrentBatch, ConsumerTypes, MapTypes, BatcherTypes, TickTypes, ControlOK,
    Storers, traceVars, tickVars
<1>5. CASE Enqueue(c)
  BY <1>b, <1>5 DEF Enqueue, ConsumerTypes, MapTypes, BatcherTypes, TickTypes, ControlOK,
    Storers, traceVars, tickVars, batcherVars
<1>6. CASE Full(c)
  BY <1>6 DEF Full, ConsumerTypes, MapTypes, BatcherTypes, TickTypes, ControlOK,
    Storers, traceVars, tickVars, batcherVars, evictVars
<1>7. CASE TakeOldest(c)
  BY <1>7 DEF TakeOldest, ConsumerTypes, MapTypes, BatcherTypes, TickTypes, ControlOK,
    Storers, traceVars, tickVars, batcherVars
<1>8. CASE DropTrace(c)
  BY <1>8 DEF DropTrace, ConsumerTypes, MapTypes, BatcherTypes, TickTypes, ControlOK,
    Storers, tickVars, batcherVars
<1>9. CASE AppendOrForward(c)
  <2>1. data[c] \in Spans /\ span[c] \in Spans
    BY <1>a, <1>b, <1>9 DEF AppendOrForward, ControlOK
  <2>2. MapTypes'
    <3>1. forwarded' \in [Spans -> Nat]
      BY <1>9 DEF AppendOrForward, Forward, MapTypes
    <3>2. batchesOf' \in [Spans -> SUBSET Spans]
      <4>1. \/ UNCHANGED batchesOf
            \/ batchesOf' = [batchesOf EXCEPT ![data[c]] = @ \cup {span[c]}]
        BY <1>9 DEF AppendOrForward
      <4>2. batchesOf \in [Spans -> SUBSET Spans] /\ batchesOf[data[c]] \cup {span[c]} \in SUBSET Spans
        BY <2>1 DEF MapTypes
      <4>3. QED
        BY <4>1, <4>2
    <3>3. QED
      BY <1>9, <3>1, <3>2 DEF AppendOrForward, MapTypes, evictVars
  <2>3. ConsumerTypes' /\ ControlOK'
    BY <1>9 DEF AppendOrForward, ConsumerTypes, BatcherTypes, TickTypes, ControlOK, Storers,
      tickVars, batcherVars
  <2>4. QED
    BY <1>9, <2>2, <2>3 DEF AppendOrForward, BatcherTypes, TickTypes, tickVars, batcherVars
<1>10. QED
  BY <1>1, <1>2, <1>3, <1>4, <1>5, <1>6, <1>7, <1>8, <1>9 DEF ConsumerStep

\* So do the batcher, the ticker and Shutdown.
LEMMA OthersKeepTypes ==
  ASSUME Types, Fill \/ Tick \/ TickStep \/ StopBatcher \/ ShutdownStep \/ UNCHANGED vars
  PROVE  Types'
<1> USE TailSamplerAssumption DEF Types, traceVars, batcherVars, evictVars, consumerVars, tickVars
<1>1. CASE Fill
  BY <1>1 DEF Fill, ConsumerTypes, MapTypes, BatcherTypes, TickTypes, ControlOK
<1>2. CASE TakeFirst
  BY <1>2 DEF TakeFirst, ConsumerTypes, MapTypes, BatcherTypes, TickTypes, ControlOK
<1>3. CASE CloseCurrent
  <2>1. BatcherTypes'
    <3>1. Append(batches, currentBatch) \in Seq(Seq(TraceIDs))
          /\ Len(Append(batches, currentBatch)) = Len(batches) + 1 /\ Len(batches) \in Nat
      <4>1. batches \in Seq(Seq(TraceIDs)) /\ currentBatch \in Seq(TraceIDs)
        BY DEF BatcherTypes
      <4>2. QED
        BY <4>1, QueueFacts
    <3>2. Len(batches) < NumBatches
      BY <1>3 DEF CloseCurrent, ControlOK
    <3>3. <<>> \in Seq(TraceIDs)
      OBVIOUS
    <3>4. /\ pendingIds' = pendingIds /\ todo' = todo
          /\ \/ batches' = Append(batches, currentBatch) /\ currentBatch' = <<>>
             \/ batches' = batches /\ currentBatch' = currentBatch
      BY <1>3 DEF CloseCurrent
    <3>5. Len(batches) + 1 <= NumBatches
      BY <3>1, <3>2
    <3>6. CASE batches' = batches /\ currentBatch' = currentBatch
      BY <3>4, <3>6 DEF BatcherTypes
    <3>7. CASE batches' = Append(batches, currentBatch) /\ currentBatch' = <<>>
      <4>1. batches' \in Seq(Seq(TraceIDs)) /\ Len(batches') <= NumBatches
        BY <3>1, <3>5, <3>7
      <4>2. QED
        BY <3>3, <3>4, <3>7, <4>1 DEF BatcherTypes
    <3>8. QED
      BY <3>4, <3>6, <3>7
  <2>2. QED
    BY <1>3, <2>1 DEF CloseCurrent, ConsumerTypes, MapTypes, TickTypes, ControlOK
<1>4. CASE TakeLast
  BY <1>4 DEF TakeLast, ConsumerTypes, MapTypes, BatcherTypes, TickTypes, ControlOK
<1>5. CASE NotOnMap
  BY <1>5 DEF NotOnMap, NextId, ConsumerTypes, MapTypes, BatcherTypes, TickTypes, ControlOK
<1>6. CASE Evaluate
  <2>1. MakeDecision(policies, batchesOf[idToTrace[Head(todo)]]) \in Decision
    BY DEF MakeDecision, Decision
  <2>2. idToTrace[Head(todo)] \in Spans
    BY <1>6 DEF Evaluate, MapTypes, BatcherTypes
  <2>3. QED
    BY <1>6, <2>1, <2>2 DEF Evaluate, ConsumerTypes, MapTypes, BatcherTypes, TickTypes, ControlOK
<1>7. CASE Decide
  BY <1>7 DEF Decide, NextId, Forward, ConsumerTypes, MapTypes, BatcherTypes, TickTypes, ControlOK
<1>8. CASE EndOfBatch \/ TickerExits
  BY <1>8 DEF EndOfBatch, TickerExits, ConsumerTypes, MapTypes, BatcherTypes, TickTypes, ControlOK
<1>9. CASE StopBatcher \/ ShutdownStep \/ UNCHANGED vars
  BY <1>9 DEF StopBatcher, ShutdownStep, BatcherStopped, StopTicker, vars,
    ConsumerTypes, MapTypes, BatcherTypes, TickTypes, ControlOK
<1>10. QED
  BY <1>1, <1>2, <1>3, <1>4, <1>5, <1>6, <1>7, <1>8, <1>9 DEF Tick, TickStep

-----------------------------------------------------------------------------
(* The map and the order in which it is emptied *)

OnMap   == {t \in TraceIDs : idToTrace[t] # Nil}
Lagging == {c \in Consumers : cpc[c] = "add"}
Making  == {c \in Consumers : cpc[c] \in Storers}
Taken   == {c \in Consumers : cpc[c] = "drop"}

\* EvictionQueueIsTheMap with its third part made exact, which is inductive: every
\* trace on the map stands in deleteChan, or for a consumer that makes room for it,
\* or for one that drops it.
QueueInv ==
  /\ \A t \in TraceIDs :
        Count(deleteChan, t) + Cardinality(Storing(t)) + Cardinality(Dropping(t))
          = IF idToTrace[t] = Nil THEN 0 ELSE 1
  /\ IsFiniteSet(OnMap) /\ IsFiniteSet(Making) /\ IsFiniteSet(Taken)
  /\ numTracesOnMap \in Nat
  /\ numTracesOnMap + Cardinality(Lagging) = Cardinality(OnMap)
  /\ Cardinality(OnMap) = Len(deleteChan) + Cardinality(Making) + Cardinality(Taken)

\* newTracesProcessor starts with an empty map and an empty deleteChan, which agree.
LEMMA QueueInit == Init => QueueInv
<1> SUFFICES ASSUME Init PROVE QueueInv
  OBVIOUS
<1>1. OnMap = {} /\ Making = {} /\ Taken = {} /\ Lagging = {} /\ deleteChan = <<>>
      /\ numTracesOnMap = 0
  BY DEF Init, OnMap, Making, Taken, Lagging, Storers
<1>2. \A t \in TraceIDs : Storing(t) = {} /\ Dropping(t) = {} /\ idToTrace[t] = Nil
  BY DEF Init, Storing, Dropping
<1>3. ASSUME NEW t \in TraceIDs PROVE Count(deleteChan, t) = 0
  <2>1. {i \in DOMAIN deleteChan : deleteChan[i] = t} = {}
    BY <1>1
  <2>2. QED
    BY <2>1, FS_EmptySet DEF Count
<1>4. Len(deleteChan) = 0 /\ IsFiniteSet({}) /\ Cardinality({}) = 0
  BY <1>1, FS_EmptySet
<1>5. ASSUME NEW t \in TraceIDs
      PROVE  Count(deleteChan, t) + Cardinality(Storing(t)) + Cardinality(Dropping(t)) = 0
  <2>1. Cardinality(Storing(t)) = 0 /\ Cardinality(Dropping(t)) = 0
    BY <1>2, <1>4
  <2>2. QED
    BY <1>3, <2>1
<1>6. QED
  BY <1>1, <1>2, <1>4, <1>5 DEF QueueInv

\* A step of one consumer.
OnlyMoves(c) ==
  \A d \in Consumers \ {c} : cpc'[d] = cpc[d] /\ span'[d] = span[d] /\ victim'[d] = victim[d]

\* Which sets it is in afterwards.
LEMMA WhereItGoes ==
  ASSUME NEW c \in Consumers, OnlyMoves(c)
  PROVE  /\ cpc'[c] \in Storers => Making' = Making \cup {c}
         /\ cpc'[c] \notin Storers => Making' = Making \ {c}
         /\ cpc'[c] = "add" => Lagging' = Lagging \cup {c}
         /\ cpc'[c] # "add" => Lagging' = Lagging \ {c}
         /\ cpc'[c] = "drop" => Taken' = Taken \cup {c}
         /\ cpc'[c] # "drop" => Taken' = Taken \ {c}
BY DEF OnlyMoves, Making, Lagging, Taken, Storers

\* What it holds is the same unless it begins or ends to store or to drop.
LEMMA WhatItHolds ==
  ASSUME NEW c \in Consumers, OnlyMoves(c), NEW t \in TraceIDs
  PROVE  /\ (cpc'[c] \in Storers <=> cpc[c] \in Storers)
              /\ (cpc'[c] \in Storers => span'[c] = span[c]) => Storing(t)' = Storing(t)
         /\ cpc'[c] \in Storers /\ TraceOf[span'[c]] = t => Storing(t)' = Storing(t) \cup {c}
         /\ cpc'[c] \notin Storers \/ TraceOf[span'[c]] # t => Storing(t)' = Storing(t) \ {c}
         /\ cpc'[c] # "drop" /\ cpc[c] # "drop" => Dropping(t)' = Dropping(t)
         /\ cpc'[c] = "drop" /\ victim'[c] = t => Dropping(t)' = Dropping(t) \cup {c}
         /\ cpc'[c] # "drop" \/ victim'[c] # t => Dropping(t)' = Dropping(t) \ {c}
BY DEF OnlyMoves, Storing, Dropping, Storers, Id

\* The sets of QueueInv are finite.
LEMMA QueueSetsAreFinite ==
  ASSUME QueueInv
  PROVE  /\ IsFiniteSet(Lagging) /\ Lagging \subseteq Making
         /\ Cardinality(Lagging) \in Nat /\ Cardinality(Lagging) <= Cardinality(Making)
         /\ Cardinality(Making) \in Nat /\ Cardinality(Taken) \in Nat /\ Cardinality(OnMap) \in Nat
         /\ \A t \in TraceIDs : IsFiniteSet(Storing(t)) /\ IsFiniteSet(Dropping(t))
<1>1. IsFiniteSet(Making) /\ IsFiniteSet(Taken) /\ IsFiniteSet(OnMap)
  BY DEF QueueInv
<1>2. Lagging \in SUBSET Making
  BY DEF Lagging, Making, Storers
<1>3. \A t \in TraceIDs : Storing(t) \in SUBSET Making /\ Dropping(t) \in SUBSET Taken
  BY DEF Storing, Dropping, Making, Taken, Storers
<1>4. IsFiniteSet(Lagging) /\ Cardinality(Lagging) <= Cardinality(Making)
  BY <1>1, <1>2, FS_Subset
<1>5. \A t \in TraceIDs : IsFiniteSet(Storing(t)) /\ IsFiniteSet(Dropping(t))
  BY <1>1, <1>3, FS_Subset
<1>6. QED
  BY <1>1, <1>2, <1>4, <1>5, FS_CardinalityType

\* A step that moves no trace between the map and deleteChan.
LEMMA QueueStutters ==
  ASSUME QueueInv, UNCHANGED <<deleteChan, numTracesOnMap, idToTrace, Making, Lagging, Taken>>,
         \A t \in TraceIDs : UNCHANGED <<Storing(t), Dropping(t)>>
  PROVE  QueueInv'
<1>1. OnMap' = OnMap
  BY DEF OnMap
<1>2. QED
  BY <1>1 DEF QueueInv

\* A consumer's step keeps the order.
LEMMA ConsumersKeepQueue ==
  ASSUME Types, QueueInv, NEW c \in Consumers, Load(c) \/ ConsumerStep(c)
  PROVE  QueueInv'
<1> USE DEF Goto
<1>a. /\ cpc \in [Consumers -> {"idle", "store", "append"} \cup Storers]
      /\ deleteChan \in Seq(TraceIDs) /\ idToTrace \in [TraceIDs -> Spans \cup {Nil}]
      /\ span \in [Consumers -> Spans \cup {Nil}] /\ victim \in [Consumers -> TraceIDs \cup {Nil}]
  BY DEF Types, ConsumerTypes, MapTypes
<1>b. cpc[c] # "idle" => span[c] \in Spans /\ Id(c) \in TraceIDs
  BY TailSamplerAssumption DEF Types, ControlOK, ConsumerTypes, Id
<1>c. Len(deleteChan) \in Nat /\ numTracesOnMap \in Nat
  BY <1>a DEF QueueInv
<1>d. \A t \in TraceIDs : /\ Cardinality(Storing(t)) \in Nat /\ Cardinality(Dropping(t)) \in Nat
                          /\ Count(deleteChan, t) \in Nat
  BY <1>a, QueueSetsAreFinite, FS_CardinalityType, CountFacts
<1>1. CASE Load(c) \/ LoadStored(c) \/ Full(c) \/ AppendOrForward(c)
  <2>1. PICK l \in {"store", "append", "evict", "idle"} :
             /\ cpc' = [cpc EXCEPT ![c] = l] /\ (l = "evict" <=> cpc[c] = "enqueue")
             /\ cpc[c] \in {"idle", "store", "append", "enqueue"}
    BY <1>1 DEF Load, LoadStored, Full, AppendOrForward
  <2>2. /\ OnlyMoves(c) /\ cpc'[c] = l
        /\ UNCHANGED <<deleteChan, numTracesOnMap, idToTrace>>
        /\ l = "evict" => UNCHANGED span
    BY <1>1, <1>a, <2>1
    DEF Load, LoadStored, Full, AppendOrForward, evictVars, traceVars, OnlyMoves
  <2>3. c \notin Lagging /\ c \notin Taken /\ (c \in Making <=> l \in Storers)
    BY <2>1 DEF Lagging, Taken, Making, Storers
  <2>4. /\ l \in Storers => Making' = Making \cup {c}
        /\ l \notin Storers => Making' = Making \ {c}
        /\ Lagging' = Lagging \ {c} /\ Taken' = Taken \ {c}
    BY <2>1, <2>2, WhereItGoes
  <2>6. UNCHANGED <<Making, Lagging, Taken>> /\ \A t \in TraceIDs : UNCHANGED <<Storing(t), Dropping(t)>>
    <3>1. Lagging' = Lagging /\ Taken' = Taken
      BY <2>3, <2>4
    <3>2. Making' = Making
      BY <2>3, <2>4
    <3>3. ASSUME NEW t \in TraceIDs PROVE Storing(t)' = Storing(t) /\ Dropping(t)' = Dropping(t)
      <4>1. /\ l \in Storers <=> cpc[c] \in Storers
            /\ l \in Storers => span'[c] = span[c]
            /\ l # "drop" /\ cpc[c] # "drop"
        BY <2>1, <2>2 DEF Storers
      <4>2. QED
        BY <2>1, <2>2, <4>1, WhatItHolds
    <3>4. QED
      BY <3>1, <3>2, <3>3
  <2>7. QED
    BY <2>2, <2>6, QueueStutters
<1>2. CASE Store(c)
  <2> DEFINE t == Id(c)
  <2>1. cpc[c] = "store" /\ t \in TraceIDs /\ idToTrace[t] = Nil /\ span[c] \in Spans /\ span[c] # Nil
    BY <1>2, <1>b, TailSamplerAssumption DEF Store
  <2>2. /\ cpc' = [cpc EXCEPT ![c] = "add"] /\ idToTrace' = [idToTrace EXCEPT ![t] = span[c]]
        /\ UNCHANGED <<span, victim, deleteChan, numTracesOnMap>>
        /\ OnlyMoves(c) /\ cpc'[c] = "add"
    BY <1>a, <1>2 DEF Store, StoreNew, evictVars, OnlyMoves
  <2>3. c \notin Making /\ c \notin Lagging /\ c \notin Taken
    BY <2>1 DEF Making, Lagging, Taken, Storers
  <2>4. Making' = Making \cup {c} /\ Lagging' = Lagging \cup {c} /\ Taken' = Taken \ {c}
    BY <2>2, WhereItGoes DEF Storers
  <2>5. \A u \in TraceIDs : c \notin Storing(u) /\ c \notin Dropping(u)
    BY <2>1 DEF Storing, Dropping
  <2>6. OnMap' = OnMap \cup {t} /\ t \notin OnMap
    BY <1>a, <2>1, <2>2 DEF OnMap
  <2> HIDE DEF t
  <2>7. /\ Cardinality(Making') = Cardinality(Making) + 1 /\ IsFiniteSet(Making')
        /\ Cardinality(Lagging') = Cardinality(Lagging) + 1
        /\ Taken' = Taken /\ IsFiniteSet(Taken)
        /\ Cardinality(OnMap') = Cardinality(OnMap) + 1 /\ IsFiniteSet(OnMap')
    <3>1. IsFiniteSet(Making) /\ IsFiniteSet(Lagging) /\ IsFiniteSet(Taken) /\ IsFiniteSet(OnMap)
      BY QueueSetsAreFinite DEF QueueInv
    <3>2. IsFiniteSet(Making') /\ Cardinality(Making') = Cardinality(Making) + 1
      BY <2>3, <2>4, <3>1, FS_AddElement
    <3>3. Cardinality(Lagging') = Cardinality(Lagging) + 1
      BY <2>3, <2>4, <3>1, FS_AddElement
    <3>4. IsFiniteSet(OnMap') /\ Cardinality(OnMap') = Cardinality(OnMap) + 1
      BY <2>6, <3>1, FS_AddElement
    <3>5. QED
      BY <2>3, <2>4, <3>1, <3>2, <3>3, <3>4
  <2>8. ASSUME NEW u \in TraceIDs
        PROVE  Count(deleteChan, u)' + Cardinality(Storing(u))' + Cardinality(Dropping(u))'
                  = IF idToTrace'[u] = Nil THEN 0 ELSE 1
    <3>1. Cardinality(Storing(u)') = Cardinality(Storing(u)) + (IF u = t THEN 1 ELSE 0)
          /\ Dropping(u)' = Dropping(u)
      <4>1. IsFiniteSet(Storing(u)) /\ Cardinality(Storing(u)) \in Nat
        BY <1>d, QueueSetsAreFinite
      <4>2. Cardinality(Storing(u) \cup {c}) = Cardinality(Storing(u)) + 1
        BY <2>5, <4>1, FS_AddElement
      <4>3. Dropping(u)' = Dropping(u)
        BY <2>1, <2>2, WhatItHolds
      <4>4. u = t => Storing(u)' = Storing(u) \cup {c}
        BY <2>2, WhatItHolds DEF Storers, Id, t
      <4>5. u # t => Storing(u)' = Storing(u)
        <5>1. u # t => Storing(u)' = Storing(u) \ {c}
          BY <2>2, WhatItHolds DEF Id, t
        <5>2. c \notin Storing(u)
          BY <2>5
        <5>3. QED
          BY <5>1, <5>2
      <4>6. QED
        BY <4>1, <4>2, <4>3, <4>4, <4>5
    <3>2. Count(deleteChan, u)' = Count(deleteChan, u)
      BY <2>2
    <3>3. idToTrace'[u] = IF u = t THEN span[c] ELSE idToTrace[u]
      BY <1>a, <2>1, <2>2
    <3>4. QED
      BY <1>d, <2>1, <3>1, <3>2, <3>3 DEF QueueInv
  <2>9. QED
    BY <1>c, <2>2, <2>7, <2>8, QueueSetsAreFinite DEF QueueInv
<1>e. /\ IsFiniteSet(Making) /\ IsFiniteSet(Lagging) /\ IsFiniteSet(Taken) /\ IsFiniteSet(OnMap)
      /\ \A t \in TraceIDs : IsFiniteSet(Storing(t)) /\ IsFiniteSet(Dropping(t))
      /\ Cardinality(Lagging) \in Nat /\ Cardinality(Making) \in Nat /\ Cardinality(Taken) \in Nat
      /\ Cardinality(OnMap) \in Nat /\ Cardinality(Lagging) <= Cardinality(Making)
  BY QueueSetsAreFinite DEF QueueInv
<1>3. CASE AddToCurrentBatch(c)
  <2>1. /\ cpc[c] = "add" /\ cpc' = [cpc EXCEPT ![c] = "enqueue"]
        /\ numTracesOnMap' = numTracesOnMap + 1
        /\ UNCHANGED <<deleteChan, idToTrace, span, victim>>
        /\ OnlyMoves(c) /\ cpc'[c] = "enqueue"
    BY <1>a, <1>3 DEF AddToCurrentBatch, traceVars, OnlyMoves
  <2>2. c \in Making /\ c \in Lagging /\ c \notin Taken
    BY <2>1 DEF Making, Lagging, Taken, Storers
  <2>3. /\ Making' = Making \cup {c} /\ Lagging' = Lagging \ {c} /\ Taken' = Taken \ {c}
    BY <2>1, WhereItGoes DEF Storers, Id
  <2>4. \A t \in TraceIDs : (c \in Storing(t) <=> Id(c) = t) /\ c \notin Dropping(t)
    BY <2>1 DEF Storing, Dropping
  <2>5. ASSUME NEW t \in TraceIDs PROVE Storing(t)' = Storing(t) /\ Dropping(t)' = Dropping(t)
    <3>1. Dropping(t)' = Dropping(t)
      BY <2>1, WhatItHolds
    <3>2. Storing(t)' = Storing(t)
      BY <2>1, WhatItHolds DEF Storers
    <3>3. QED
      BY <3>1, <3>2
  <2>6. Cardinality(Lagging') = Cardinality(Lagging) - 1
    BY <1>e, <2>2, <2>3, FS_RemoveElement
  <2>7. Making' = Making /\ Taken' = Taken /\ OnMap' = OnMap
    BY <2>1, <2>2, <2>3 DEF OnMap
  <2>8. \A t \in TraceIDs :
          Count(deleteChan, t)' + Cardinality(Storing(t))' + Cardinality(Dropping(t))'
            = IF idToTrace'[t] = Nil THEN 0 ELSE 1
    BY <2>1, <2>5 DEF QueueInv
  <2>9. QED
    BY <1>c, <1>e, <2>1, <2>6, <2>7, <2>8 DEF QueueInv
<1>4. CASE Enqueue(c)
  <2>1. /\ cpc[c] = "enqueue" /\ cpc' = [cpc EXCEPT ![c] = "append"]
        /\ deleteChan' = Append(deleteChan, Id(c))
        /\ UNCHANGED <<numTracesOnMap, idToTrace, span, victim>>
        /\ OnlyMoves(c) /\ cpc'[c] = "append"
    BY <1>a, <1>4 DEF Enqueue, traceVars, OnlyMoves
  <2>2. c \in Making /\ c \notin Lagging /\ c \notin Taken /\ Id(c) \in TraceIDs
    BY <1>b, <2>1 DEF Making, Lagging, Taken, Storers
  <2>3. /\ Making' = Making \ {c} /\ Lagging' = Lagging \ {c} /\ Taken' = Taken \ {c}
    BY <2>1, WhereItGoes DEF Storers
  <2>4. \A t \in TraceIDs : (c \in Storing(t) <=> Id(c) = t) /\ c \notin Dropping(t)
    BY <2>1 DEF Storing, Dropping
  <2>5. ASSUME NEW t \in TraceIDs
        PROVE  /\ Cardinality(Storing(t)') = Cardinality(Storing(t)) - (IF Id(c) = t THEN 1 ELSE 0)
               /\ Dropping(t)' = Dropping(t)
               /\ Count(deleteChan, t)' = Count(deleteChan, t) + (IF Id(c) = t THEN 1 ELSE 0)
    <3>1. Dropping(t)' = Dropping(t)
      BY <2>1, WhatItHolds
    <3>2. Storing(t)' = Storing(t) \ {c} /\ IsFiniteSet(Storing(t)) /\ (c \in Storing(t) <=> Id(c) = t)
      BY <1>e, <2>1, <2>4, WhatItHolds DEF Storers
    <3>3. Cardinality(Storing(t) \ {c})
            = IF c \in Storing(t) THEN Cardinality(Storing(t)) - 1 ELSE Cardinality(Storing(t))
      BY <3>2, FS_RemoveElement
    <3>4. Count(Append(deleteChan, Id(c)), t) = Count(deleteChan, t) + (IF Id(c) = t THEN 1 ELSE 0)
      BY <1>a, <2>2, CountFacts
    <3>5. Cardinality(Storing(t)') = Cardinality(Storing(t)) - (IF Id(c) = t THEN 1 ELSE 0)
      BY <1>d, <3>2, <3>3
    <3>6. Count(deleteChan, t)' = Count(Append(deleteChan, Id(c)), t)
      BY <2>1
    <3>7. QED
      BY <3>1, <3>4, <3>5, <3>6
  <2>6. ASSUME NEW t \in TraceIDs
        PROVE  Count(deleteChan, t)' + Cardinality(Storing(t))' + Cardinality(Dropping(t))'
                  = IF idToTrace'[t] = Nil THEN 0 ELSE 1
    BY <1>d, <2>1, <2>5 DEF QueueInv
  <2>7. IsFiniteSet(Making') /\ Cardinality(Making') = Cardinality(Making) - 1
    BY <1>e, <2>2, <2>3, FS_RemoveElement
  <2>8. Lagging' = Lagging /\ Taken' = Taken /\ OnMap' = OnMap
    BY <2>1, <2>2, <2>3 DEF OnMap
  <2>9. Len(deleteChan') = Len(deleteChan) + 1
    BY <1>a, <2>1, <2>2, QueueFacts
  <2>10. QED
    BY <1>c, <1>e, <2>1, <2>6, <2>7, <2>8, <2>9 DEF QueueInv
<1>5. CASE TakeOldest(c)
  <2> DEFINE h == Head(deleteChan)
  <2>1. /\ cpc[c] = "evict" /\ cpc' = [cpc EXCEPT ![c] = "drop"]
        /\ deleteChan # <<>> /\ deleteChan' = Tail(deleteChan)
        /\ victim' = [victim EXCEPT ![c] = h]
        /\ UNCHANGED <<numTracesOnMap, idToTrace, span>>
    BY <1>5 DEF TakeOldest, traceVars
  <2>2. c \in Making /\ c \notin Lagging /\ c \notin Taken /\ h \in TraceIDs
        /\ victim'[c] = h /\ OnlyMoves(c) /\ cpc'[c] = "drop"
    BY <1>a, <2>1, QueueFacts DEF Making, Lagging, Taken, Storers, OnlyMoves
  <2>3. /\ Making' = Making \cup {c} /\ Lagging' = Lagging \ {c} /\ Taken' = Taken \cup {c}
    BY <2>1, <2>2, WhereItGoes DEF Storers, Id
  <2>4. \A t \in TraceIDs : (c \in Storing(t) <=> Id(c) = t) /\ c \notin Dropping(t)
    BY <2>1 DEF Storing, Dropping
  <2>5. \A t \in TraceIDs : Count(Tail(deleteChan), t) = Count(deleteChan, t) - (IF h = t THEN 1 ELSE 0)
    BY <1>a, <2>1, CountFacts
  <2>a. Len(deleteChan') = Len(deleteChan) - 1 /\ Len(deleteChan) > 0
    BY <1>a, <2>1, QueueFacts
  <2> HIDE DEF h
  <2>6. ASSUME NEW t \in TraceIDs
        PROVE  /\ Cardinality(Dropping(t)') = Cardinality(Dropping(t)) + (IF h = t THEN 1 ELSE 0)
               /\ Storing(t)' = Storing(t)
               /\ Count(deleteChan, t)' = Count(deleteChan, t) - (IF h = t THEN 1 ELSE 0)
    <3>1. Storing(t)' = Storing(t)
      BY <2>1, <2>2, WhatItHolds DEF Storers
    <3>2. IsFiniteSet(Dropping(t)) /\ c \notin Dropping(t)
          /\ Dropping(t)' = IF h = t THEN Dropping(t) \cup {c} ELSE Dropping(t) \ {c}
      BY <1>e, <2>1, <2>2, <2>4, WhatItHolds
    <3>3. Cardinality(Dropping(t) \cup {c}) = Cardinality(Dropping(t)) + 1
      BY <3>2, FS_AddElement
    <3>4. Dropping(t) \ {c} = Dropping(t)
      BY <3>2
    <3>5. Cardinality(Dropping(t)') = Cardinality(Dropping(t)) + (IF h = t THEN 1 ELSE 0)
      BY <1>d, <3>2, <3>3, <3>4
    <3>6. Count(deleteChan, t)' = Count(Tail(deleteChan), t)
      BY <2>1
    <3>7. QED
      BY <2>5, <3>1, <3>5, <3>6
  <2>7. ASSUME NEW t \in TraceIDs
        PROVE  Count(deleteChan, t)' + Cardinality(Storing(t))' + Cardinality(Dropping(t))'
                  = IF idToTrace'[t] = Nil THEN 0 ELSE 1
    BY <1>d, <2>1, <2>6 DEF QueueInv
  <2>8. IsFiniteSet(Taken') /\ Cardinality(Taken') = Cardinality(Taken) + 1
    BY <1>e, <2>2, <2>3, FS_AddElement
  <2>9. Making' = Making /\ Lagging' = Lagging /\ OnMap' = OnMap
    BY <2>1, <2>2, <2>3 DEF OnMap
  <2>10. QED
    BY <1>c, <1>e, <2>1, <2>a, <2>7, <2>8, <2>9 DEF QueueInv
<1>6. CASE DropTrace(c)
  <2> DEFINE v == victim[c]
  <2>1. /\ cpc[c] = "drop" /\ cpc' = [cpc EXCEPT ![c] = "enqueue"]
        /\ \/ idToTrace[v] # Nil /\ idToTrace' = [idToTrace EXCEPT ![v] = Nil]
              /\ numTracesOnMap' = numTracesOnMap - 1
           \/ idToTrace[v] = Nil
        /\ victim' = [victim EXCEPT ![c] = Nil]
        /\ UNCHANGED <<deleteChan, span>>
    BY <1>6 DEF DropTrace
  <2>2. c \in Making /\ c \notin Lagging /\ c \in Taken /\ v \in TraceIDs
        /\ OnlyMoves(c) /\ cpc'[c] = "enqueue"
    BY <1>a, <2>1 DEF Making, Lagging, Taken, Storers, Types, ControlOK, OnlyMoves
  <2>3. /\ Making' = Making \cup {c} /\ Lagging' = Lagging \ {c} /\ Taken' = Taken \ {c}
    BY <2>1, <2>2, WhereItGoes DEF Storers, Id
  <2>4. \A t \in TraceIDs : (c \in Storing(t) <=> Id(c) = t) /\ (c \in Dropping(t) <=> v = t)
    BY <2>1 DEF Storing, Dropping
  <2> HIDE DEF v
  <2>5. ASSUME NEW t \in TraceIDs
        PROVE  /\ Cardinality(Dropping(t)') = Cardinality(Dropping(t)) - (IF v = t THEN 1 ELSE 0)
               /\ v = t => Cardinality(Dropping(t)) > 0
               /\ Storing(t)' = Storing(t)
    <3>1. Storing(t)' = Storing(t)
      BY <2>1, <2>2, WhatItHolds DEF Storers
    <3>2. IsFiniteSet(Dropping(t)) /\ (c \in Dropping(t) <=> v = t) /\ Dropping(t)' = Dropping(t) \ {c}
      BY <1>e, <2>1, <2>2, <2>4, WhatItHolds
    <3>3. Cardinality(Dropping(t) \ {c})
            = IF c \in Dropping(t) THEN Cardinality(Dropping(t)) - 1 ELSE Cardinality(Dropping(t))
      BY <3>2, FS_RemoveElement
    <3>4. c \in Dropping(t) => Cardinality(Dropping(t)) # 0
      BY <3>2, FS_EmptySet
    <3>5. QED
      BY <1>d, <3>1, <3>2, <3>3, <3>4
  <2>6. idToTrace[v] # Nil
    BY <1>d, <2>2, <2>5 DEF QueueInv
  <2>7. idToTrace' = [idToTrace EXCEPT ![v] = Nil] /\ numTracesOnMap' = numTracesOnMap - 1
    BY <2>1, <2>6
  <2>8. ASSUME NEW t \in TraceIDs
        PROVE  Count(deleteChan, t)' + Cardinality(Storing(t))' + Cardinality(Dropping(t))'
                  = IF idToTrace'[t] = Nil THEN 0 ELSE 1
    <3>1. idToTrace'[t] = IF v = t THEN Nil ELSE idToTrace[t]
      BY <1>a, <2>2, <2>7
    <3>2. Count(deleteChan, t)' = Count(deleteChan, t)
      BY <2>1
    <3>3. QED
      BY <1>d, <2>5, <2>6, <3>1, <3>2 DEF QueueInv
  <2>9. OnMap' = OnMap \ {v} /\ v \in OnMap
    BY <1>a, <2>2, <2>6, <2>7 DEF OnMap
  <2>10. IsFiniteSet(OnMap') /\ Cardinality(OnMap') = Cardinality(OnMap) - 1
    BY <1>e, <2>9, FS_RemoveElement
  <2>11. IsFiniteSet(Taken') /\ Cardinality(Taken') = Cardinality(Taken) - 1
    BY <1>e, <2>2, <2>3, FS_RemoveElement
  <2>12. Cardinality(Taken) # 0
    BY <1>e, <2>2, FS_EmptySet
  <2>13. Making' = Making /\ Lagging' = Lagging
    BY <2>2, <2>3
  <2>14. numTracesOnMap' \in Nat
    BY <1>c, <1>e, <2>7, <2>12 DEF QueueInv
  <2>15. QED
    BY <1>c, <1>e, <2>1, <2>7, <2>8, <2>10, <2>11, <2>13, <2>14 DEF QueueInv
<1>7. QED
  BY <1>1, <1>2, <1>3, <1>4, <1>5, <1>6 DEF ConsumerStep

\* The batcher, the ticker and Shutdown do not touch it.
LEMMA OthersKeepQueue ==
  ASSUME QueueInv, Fill \/ Tick \/ TickStep \/ StopBatcher \/ ShutdownStep \/ UNCHANGED vars
  PROVE  QueueInv'
<1>1. UNCHANGED <<deleteChan, numTracesOnMap, idToTrace, cpc, span, victim>>
  BY DEF Fill, Tick, TakeFirst, TakeLast, TickStep, CloseCurrent, NotOnMap, Evaluate, Decide,
    EndOfBatch, TickerExits, StopBatcher, ShutdownStep, BatcherStopped, StopTicker, vars,
    traceVars, batcherVars, evictVars, consumerVars
<1>2. UNCHANGED <<Making, Lagging, Taken>>
  BY <1>1 DEF Making, Lagging, Taken
<1>3. \A t \in TraceIDs : UNCHANGED <<Storing(t), Dropping(t)>>
  BY <1>1 DEF Storing, Dropping, Id
<1>4. QED
  BY <1>1, <1>2, <1>3, QueueStutters

\* The types and QueueInv hold in every state.
THEOREM QueueInvariant == Spec => [](Types /\ QueueInv)
<1>1. Init => Types /\ QueueInv
  BY TypesInit, QueueInit
<1>2. Types /\ QueueInv /\ [Next]_vars => (Types /\ QueueInv)'
  BY ConsumersKeepTypes, OthersKeepTypes, ConsumersKeepQueue, OthersKeepQueue DEF Next, Stopped
<1>3. QED
  BY <1>1, <1>2, PTL DEF Spec

\* The variables of the processor keep their types; numTracesOnMap is never
\* decremented below zero.
THEOREM TypesHold == Spec => []TypeOK
<1>1. Types /\ QueueInv => TypeOK
  BY TypesAreTypeOK DEF QueueInv
<1>2. QED
  BY <1>1, QueueInvariant, PTL

\* deleteChan is the order in which the map is emptied, whatever consumers do at
\* the same time: a trace on the map is in it once, or in the hands of the one
\* consumer that makes room for it or drops it; the gauge counts the map; and the
\* map is bounded by num_traces and the consumers at work.
THEOREM QueueIsTheMap == Spec => []EvictionQueueIsTheMap
<1>1. Types /\ QueueInv => EvictionQueueIsTheMap
  <2> SUFFICES ASSUME Types, QueueInv PROVE EvictionQueueIsTheMap
    OBVIOUS
  <2>1. Len(deleteChan) \in Nat /\ Len(deleteChan) <= NumTraces /\ NumTraces \in Nat
    BY TailSamplerAssumption DEF Types, MapTypes
  <2>2. Cardinality(OnMap) <= NumTraces + Cardinality(Making) + Cardinality(Taken)
    BY <2>1, QueueSetsAreFinite DEF QueueInv
  <2>3. QED
    BY <2>2 DEF EvictionQueueIsTheMap, QueueInv, OnMap, Making, Taken, Lagging, Storers
<1>2. QED
  BY <1>1, QueueInvariant, PTL

-----------------------------------------------------------------------------
(* What is forwarded while there is room *)

Holds(q) == {q[i] : i \in DOMAIN q}
Once(q)  == \A i, j \in DOMAIN q : q[i] = q[j] => i = j

InBatches == UNION {Holds(batches[i]) : i \in DOMAIN batches}
Queued    == Holds(pendingIds) \cup Holds(currentBatch) \cup InBatches \cup Holds(todo)
Seen      == {TraceOf[s] : s \in received}

\* Objects belong to the trace they are on the map for, and hold its spans.
ObjectInv ==
  /\ IsFiniteSet(Seen)
  /\ \A t \in TraceIDs : idToTrace[t] # Nil => idToTrace[t] \in received /\ TraceOf[idToTrace[t]] = t
  /\ \A c \in Consumers : cpc[c] = "append" => TraceOf[data[c]] = Id(c)
  /\ \A o \in Spans : \A s \in batchesOf[o] : s \in received /\ TraceOf[s] = TraceOf[o]

\* An id is in the batcher and the batch that is evaluated once.
TokenInv ==
  /\ Once(pendingIds) /\ Once(currentBatch) /\ Once(todo)
  /\ \A i \in DOMAIN batches : Once(batches[i])
  /\ \A i, j \in DOMAIN batches : i # j => Holds(batches[i]) \cap Holds(batches[j]) = {}
  /\ Holds(pendingIds) \cap (Holds(currentBatch) \cup InBatches \cup Holds(todo)) = {}
  /\ Holds(currentBatch) \cap (InBatches \cup Holds(todo)) = {}
  /\ InBatches \cap Holds(todo) = {}

\* No trace has left the map, so that whoever has an object has the one on the map.
MapInv ==
  /\ \A c \in Consumers : cpc[c] \notin {"evict", "drop"}
  /\ \A c \in Consumers : cpc[c] \in {"add", "enqueue", "append"} => idToTrace[Id(c)] = data[c]
  /\ \A o \in Spans : batchesOf[o] # {} \/ finalDecision[o] # "Unspecified"
                        => idToTrace[TraceOf[o]] = o
  /\ tpc = "decide" => trace = idToTrace[Head(todo)]

\* An id that is waiting for its tick, or will be, is of a trace without a decision.
UndecidedInv ==
  /\ \A t \in Queued : idToTrace[t] # Nil /\ finalDecision[idToTrace[t]] = "Unspecified"
  /\ \A c \in Consumers : cpc[c] = "add" =>
        Id(c) \notin Queued /\ finalDecision[data[c]] = "Unspecified"

\* A span that a consumer handles is neither kept nor forwarded yet, and what is
\* forwarded is of a trace that is sampled.
ForwardInv ==
  /\ \A o \in Spans : \A s \in batchesOf[o] : \A c \in Consumers : span[c] # s
  /\ \A s \in Spans : forwarded[s] # 0 =>
        /\ forwarded[s] = 1 /\ s \in received
        /\ \A c \in Consumers : span[c] # s
        /\ idToTrace[TraceOf[s]] # Nil /\ finalDecision[idToTrace[TraceOf[s]]] = "Sampled"

RoomInv == ~Overloaded => TokenInv /\ MapInv /\ UndecidedInv /\ ForwardInv

\* What a queue holds.
LEMMA HoldsFacts ==
  ASSUME NEW S, NEW q \in Seq(S)
  PROVE  /\ q # <<>> => Holds(q) = Holds(Tail(q)) \cup {Head(q)}
         /\ q # <<>> /\ Once(q) => Once(Tail(q)) /\ Head(q) \notin Holds(Tail(q))
         /\ \A x \in S : /\ Holds(Append(q, x)) = Holds(q) \cup {x}
                         /\ Once(q) /\ x \notin Holds(q) => Once(Append(q, x))
<1>1. ASSUME q # <<>> PROVE Holds(q) = Holds(Tail(q)) \cup {Head(q)}
  <2>1. Holds(Tail(q)) \cup {Head(q)} \subseteq Holds(q)
    BY <1>1, QueueFacts DEF Holds
  <2>2. ASSUME NEW i \in DOMAIN q PROVE q[i] \in Holds(Tail(q)) \cup {Head(q)}
    <3>1. CASE i = 1
      BY <1>1, <3>1, QueueFacts
    <3>2. CASE i # 1
      <4>1. i - 1 \in DOMAIN Tail(q) /\ Tail(q)[i - 1] = q[i]
        BY <1>1, <3>2, QueueFacts
      <4>2. QED
        BY <4>1 DEF Holds
    <3>3. QED
      BY <3>1, <3>2
  <2>3. QED
    BY <2>1, <2>2 DEF Holds
<1>2. ASSUME q # <<>>, Once(q) PROVE Once(Tail(q)) /\ Head(q) \notin Holds(Tail(q))
  BY <1>2, QueueFacts DEF Holds, Once
<1>3. ASSUME NEW x \in S
      PROVE  /\ Holds(Append(q, x)) = Holds(q) \cup {x}
             /\ Once(q) /\ x \notin Holds(q) => Once(Append(q, x))
  <2>1. /\ DOMAIN Append(q, x) = 1..(Len(q) + 1) /\ DOMAIN q = 1..Len(q) /\ Len(q) \in Nat
        /\ Append(q, x)[Len(q) + 1] = x
        /\ \A i \in 1..Len(q) : Append(q, x)[i] = q[i]
    BY <1>3, QueueFacts
  <2>2. DOMAIN Append(q, x) = DOMAIN q \cup {Len(q) + 1} /\ Len(q) + 1 \notin DOMAIN q
    BY <2>1
  <2>3. QED
    BY <2>1, <2>2 DEF Holds, Once
<1>4. QED
  BY <1>1, <1>2, <1>3

\* The empty batch holds no trace id, and so none twice.
LEMMA HoldsNothing == Holds(<<>>) = {} /\ Once(<<>>)
BY DEF Holds, Once

\* The batcher and the ticker keep every id once, and no id appears.
LEMMA TokensMove ==
  ASSUME Types, TokenInv, Fill \/ TakeFirst \/ CloseCurrent \/ TakeLast
  PROVE  TokenInv' /\ Queued' \subseteq Queued
<1>a. /\ pendingIds \in Seq(TraceIDs) /\ currentBatch \in Seq(TraceIDs) /\ todo \in Seq(TraceIDs)
      /\ batches \in Seq(Seq(TraceIDs))
  BY DEF Types, BatcherTypes
<1>1. CASE Fill
  <2> DEFINE h == Head(pendingIds)
  <2>1. /\ pendingIds # <<>> /\ pendingIds' = Tail(pendingIds)
        /\ currentBatch' = Append(currentBatch, h) /\ UNCHANGED <<batches, todo>>
    BY <1>1 DEF Fill, tickVars
  <2>2. h \in TraceIDs /\ h \notin Holds(currentBatch) /\ h \notin InBatches \cup Holds(todo)
        /\ h \in Holds(pendingIds)
    BY <1>a, <2>1, QueueFacts, HoldsFacts DEF TokenInv
  <2>3. /\ Holds(pendingIds) = Holds(pendingIds') \cup {h} /\ h \notin Holds(pendingIds')
        /\ Once(pendingIds')
    BY <1>a, <2>1, HoldsFacts DEF TokenInv
  <2>4. Holds(currentBatch') = Holds(currentBatch) \cup {h} /\ Once(currentBatch')
    BY <1>a, <2>1, <2>2, HoldsFacts DEF TokenInv
  <2>5. InBatches' = InBatches /\ batches' = batches /\ todo' = todo
    BY <2>1 DEF InBatches
  <2> HIDE DEF h
  <2>6. QED
    BY <2>2, <2>3, <2>4, <2>5 DEF TokenInv, Queued
<1>2. CASE TakeFirst
  <2>1. /\ batches # <<>> /\ todo' = Head(batches) /\ batches' = Tail(batches)
        /\ UNCHANGED <<pendingIds, currentBatch>>
    BY <1>2 DEF TakeFirst
  <2>2. /\ Head(batches) = batches[1] /\ 1 \in DOMAIN batches
        /\ \A i \in DOMAIN batches' : i + 1 \in DOMAIN batches /\ batches'[i] = batches[i + 1]
                                       /\ i + 1 # 1 /\ i \in Nat
    BY <1>a, <2>1, QueueFacts
  <2>3. /\ Once(todo') /\ \A i \in DOMAIN batches' : Once(batches'[i])
        /\ \A i, j \in DOMAIN batches' : i # j => Holds(batches'[i]) \cap Holds(batches'[j]) = {}
    <3>1. ASSUME NEW i \in DOMAIN batches', NEW j \in DOMAIN batches', i # j
          PROVE  Holds(batches'[i]) \cap Holds(batches'[j]) = {}
      <4>1. i + 1 # j + 1
        BY <2>2, <3>1
      <4>2. QED
        BY <2>2, <4>1 DEF TokenInv
    <3>2. QED
      BY <2>1, <2>2, <3>1 DEF TokenInv
  <2>4. InBatches' \subseteq InBatches /\ Holds(todo') \subseteq InBatches
    BY <2>1, <2>2 DEF InBatches
  <2>5. InBatches' \cap Holds(todo') = {}
    BY <2>1, <2>2 DEF TokenInv, InBatches
  <2>6. QED
    BY <2>1, <2>3, <2>4, <2>5 DEF TokenInv, Queued
<1>3. CASE CloseCurrent
  <2>1. UNCHANGED <<pendingIds, todo>>
        /\ \/ batches' = Append(batches, currentBatch) /\ currentBatch' = <<>>
           \/ UNCHANGED <<batches, currentBatch>>
    BY <1>3 DEF CloseCurrent
  <2>2. CASE UNCHANGED <<batches, currentBatch>>
    BY <2>1, <2>2 DEF TokenInv, Queued, InBatches
  <2>3. CASE batches' = Append(batches, currentBatch) /\ currentBatch' = <<>>
    <3>1. /\ DOMAIN batches' = DOMAIN batches \cup {Len(batches) + 1}
          /\ Len(batches) + 1 \notin DOMAIN batches
          /\ batches'[Len(batches) + 1] = currentBatch
          /\ \A i \in DOMAIN batches : batches'[i] = batches[i]
      BY <1>a, <2>3, QueueFacts
    <3>2. InBatches' = InBatches \cup Holds(currentBatch)
      BY <3>1 DEF InBatches
    <3>3. Holds(currentBatch') = {} /\ Once(currentBatch')
      BY <2>3, HoldsNothing
    <3>4. \A i \in DOMAIN batches : Holds(batches[i]) \cap Holds(currentBatch) = {}
      BY DEF TokenInv, InBatches
    <3>5. /\ \A i \in DOMAIN batches' : Once(batches'[i])
          /\ \A i, j \in DOMAIN batches' : i # j => Holds(batches'[i]) \cap Holds(batches'[j]) = {}
      BY <3>1, <3>4 DEF TokenInv
    <3>6. QED
      BY <2>1, <3>2, <3>3, <3>5 DEF TokenInv, Queued
  <2>4. QED
    BY <2>1, <2>2, <2>3
<1>4. CASE TakeLast
  <2>1. UNCHANGED <<pendingIds, batches>> /\ todo' = currentBatch /\ currentBatch' = <<>>
    BY <1>4 DEF TakeLast
  <2>2. Holds(currentBatch') = {} /\ Once(currentBatch') /\ InBatches' = InBatches
    BY <2>1, HoldsNothing DEF InBatches
  <2>3. QED
    BY <2>1, <2>2 DEF TokenInv, Queued
<1>5. QED
  BY <1>1, <1>2, <1>3, <1>4

\* The head of the batch is gone for good.
LEMMA TokenEnds ==
  ASSUME Types, TokenInv, todo # <<>>, todo' = Tail(todo),
         UNCHANGED <<pendingIds, currentBatch, batches>>
  PROVE  TokenInv' /\ Queued' \subseteq Queued /\ Head(todo) \in Queued /\ Head(todo) \notin Queued'
<1>1. todo \in Seq(TraceIDs)
  BY DEF Types, BatcherTypes
<1>2. Holds(todo) = Holds(todo') \cup {Head(todo)} /\ Once(todo') /\ Head(todo) \notin Holds(todo')
  BY <1>1, HoldsFacts DEF TokenInv
<1>3. InBatches' = InBatches
  BY DEF InBatches
<1>4. QED
  BY <1>2, <1>3 DEF TokenInv, Queued

\* A new id enters.
LEMMA TokenEnters ==
  ASSUME Types, TokenInv, NEW t \in TraceIDs, t \notin Queued, pendingIds' = Append(pendingIds, t),
         UNCHANGED <<todo, currentBatch, batches>>
  PROVE  TokenInv' /\ Queued' = Queued \cup {t}
<1>1. pendingIds \in Seq(TraceIDs)
  BY DEF Types, BatcherTypes
<1>2. Holds(pendingIds') = Holds(pendingIds) \cup {t} /\ Once(pendingIds')
  BY <1>1, HoldsFacts DEF TokenInv, Queued
<1>3. InBatches' = InBatches
  BY DEF InBatches
<1>4. QED
  BY <1>2, <1>3 DEF TokenInv, Queued

\* A new processor holds no trace, so nothing has yet been decided, forwarded or evicted.
LEMMA RoomInit == Init => ObjectInv /\ RoomInv
<1> SUFFICES ASSUME Init PROVE ObjectInv /\ RoomInv
  OBVIOUS
<1>1. Seen = {} /\ IsFiniteSet({})
  BY FS_EmptySet DEF Init, Seen
<1>2. Holds(pendingIds) = {} /\ Holds(currentBatch) = {} /\ Holds(todo) = {}
      /\ Once(pendingIds) /\ Once(currentBatch) /\ Once(todo)
  BY HoldsNothing DEF Init
<1>3. \A i \in DOMAIN batches : Once(batches[i]) /\ Holds(batches[i]) = {}
  BY HoldsNothing DEF Init
<1>4. InBatches = {}
  BY <1>3 DEF InBatches
<1>5. ObjectInv
  BY <1>1 DEF Init, ObjectInv
<1>6. TokenInv
  BY <1>2, <1>3, <1>4 DEF TokenInv
<1>7. MapInv /\ UndecidedInv
  BY <1>2, <1>4 DEF Init, MapInv, UndecidedInv, Queued
<1>8. ForwardInv
  BY TailSamplerAssumption DEF Init, ForwardInv
<1>9. QED
  BY <1>5, <1>6, <1>7, <1>8 DEF RoomInv

\* The objects stay those of their traces.
LEMMA ObjectsStay ==
  ASSUME Types, ObjectInv, [Next]_vars
  PROVE  ObjectInv'
<1> USE TailSamplerAssumption DEF Goto, traceVars, batcherVars, evictVars, consumerVars, tickVars
<1>a. /\ cpc \in [Consumers -> {"idle", "store", "append"} \cup Storers]
      /\ span \in [Consumers -> Spans \cup {Nil}] /\ data \in [Consumers -> Spans \cup {Nil}]
      /\ idToTrace \in [TraceIDs -> Spans \cup {Nil}] /\ received \subseteq Spans
      /\ batchesOf \in [Spans -> SUBSET Spans] /\ victim \in [Consumers -> TraceIDs \cup {Nil}]
  BY DEF Types, ConsumerTypes, MapTypes
<1>b. \A c \in Consumers : /\ cpc[c] # "idle" => span[c] \in received
                           /\ cpc[c] \in Storers => data[c] = span[c]
                           /\ cpc[c] = "append" => data[c] \in Spans
                           /\ cpc[c] = "drop" => victim[c] \in TraceIDs
  BY DEF Types, ControlOK
<1>1. ASSUME NEW c \in Consumers, Load(c) PROVE ObjectInv'
  <2>1. PICK s \in Spans \ received :
          /\ received' = received \cup {s} /\ span' = [span EXCEPT ![c] = s]
          /\ data' = [data EXCEPT ![c] = idToTrace[TraceOf[s]]]
          /\ cpc' = [cpc EXCEPT ![c] = IF idToTrace[TraceOf[s]] = Nil THEN "store" ELSE "append"]
    BY <1>1 DEF Load
  <2>2. UNCHANGED <<idToTrace, batchesOf>>
    BY <1>1 DEF Load
  <2>3. IsFiniteSet(Seen')
    <3>1. Seen' = Seen \cup {TraceOf[s]}
      BY <2>1 DEF Seen
    <3>2. QED
      BY <3>1, FS_AddElement DEF ObjectInv
  <2>4. QED
    BY <1>a, <2>1, <2>2, <2>3 DEF ObjectInv, Id
<1>2. ASSUME NEW c \in Consumers, LoadStored(c) PROVE ObjectInv'
  <2>1. Id(c) \in TraceIDs
    BY <1>a, <1>b, <1>2 DEF LoadStored, Id
  <2>2. QED
    BY <1>a, <1>2, <2>1 DEF LoadStored, ObjectInv, Id, Seen
<1>3. ASSUME NEW c \in Consumers, Store(c) PROVE ObjectInv'
  <2>1. Id(c) \in TraceIDs /\ span[c] \in received
    BY <1>a, <1>b, <1>3 DEF Store, Id
  <2>2. QED
    BY <1>a, <1>3, <2>1 DEF Store, StoreNew, ObjectInv, Id, Seen
<1>4. ASSUME NEW c \in Consumers,
             AddToCurrentBatch(c) \/ Enqueue(c) \/ Full(c) \/ TakeOldest(c)
      PROVE  ObjectInv'
  <2>1. UNCHANGED <<received, span, data, idToTrace, batchesOf>>
    BY <1>4 DEF AddToCurrentBatch, Enqueue, Full, TakeOldest
  <2>2. \A d \in Consumers : cpc'[d] = "append" => cpc[d] = "append" \/ cpc[d] \in Storers
    BY <1>a, <1>4 DEF AddToCurrentBatch, Enqueue, Full, TakeOldest, Storers
  <2>3. QED
    BY <1>b, <2>1, <2>2 DEF ObjectInv, Id, Seen
<1>5. ASSUME NEW c \in Consumers, DropTrace(c) PROVE ObjectInv'
  <2>1. /\ UNCHANGED <<received, span, data, batchesOf>>
        /\ \A d \in Consumers : cpc'[d] = "append" => cpc[d] = "append"
        /\ \A t \in TraceIDs : idToTrace'[t] # Nil => idToTrace'[t] = idToTrace[t]
    BY <1>a, <1>b, <1>5 DEF DropTrace
  <2>2. Seen' = Seen
    BY <2>1 DEF Seen
  <2>3. ASSUME NEW t \in TraceIDs, idToTrace'[t] # Nil
        PROVE  idToTrace'[t] \in received' /\ TraceOf[idToTrace'[t]] = t
    <3>1. idToTrace'[t] = idToTrace[t] /\ received' = received
      BY <2>1, <2>3
    <3>2. idToTrace[t] \in received /\ TraceOf[idToTrace[t]] = t
      BY <2>3, <3>1 DEF ObjectInv
    <3>3. QED
      BY <3>1, <3>2
  <2>4. QED
    BY <2>1, <2>2, <2>3 DEF ObjectInv, Id
<1>6. ASSUME NEW c \in Consumers, AppendOrForward(c) PROVE ObjectInv'
  <2>1. UNCHANGED <<received, idToTrace>>
        /\ \A d \in Consumers : cpc'[d] = "append" =>
              cpc[d] = "append" /\ span'[d] = span[d] /\ data'[d] = data[d]
    BY <1>a, <1>6 DEF AppendOrForward
  <2>2. span[c] \in received /\ data[c] \in Spans /\ TraceOf[data[c]] = TraceOf[span[c]]
    BY <1>b, <1>6 DEF AppendOrForward, ObjectInv, Id
  <2>3. \A o \in Spans : batchesOf'[o] = batchesOf[o]
                         \/ (o = data[c] /\ batchesOf'[o] = batchesOf[o] \cup {span[c]})
    BY <1>a, <1>6, <2>2 DEF AppendOrForward
  <2>4. QED
    BY <2>1, <2>2, <2>3 DEF ObjectInv, Id, Seen
<1>7. ASSUME Fill \/ Tick \/ TickStep \/ StopBatcher \/ ShutdownStep \/ Stopped \/ UNCHANGED vars
      PROVE  ObjectInv'
  <2>1. UNCHANGED <<received, span, data, cpc, idToTrace, batchesOf>>
    BY <1>7 DEF Fill, Tick, TakeFirst, TakeLast, TickStep, CloseCurrent, NotOnMap, Evaluate, Decide,
      EndOfBatch, TickerExits, StopBatcher, ShutdownStep, BatcherStopped, StopTicker, Stopped, vars
  <2>2. QED
    BY <2>1 DEF ObjectInv, Id, Seen
<1>8. QED
  BY <1>1, <1>2, <1>3, <1>4, <1>5, <1>6, <1>7 DEF Next, ConsumerStep

\* The processor is not overloaded in a step's first state unless in its second.
LEMMA RoomBefore ==
  ASSUME Types, ObjectInv, [Next]_vars, ~Overloaded'
  PROVE  ~Overloaded
<1>1. received \subseteq received'
  BY DEF Next, ConsumerStep, Load, LoadStored, Store, StoreNew, AddToCurrentBatch, Enqueue, Full,
    TakeOldest, DropTrace, AppendOrForward, Fill, Tick, TakeFirst, TakeLast, TickStep, CloseCurrent,
    NotOnMap, Evaluate, Decide, EndOfBatch, TickerExits, StopBatcher, ShutdownStep, BatcherStopped,
    StopTicker, Stopped, vars, consumerVars
<1>2. Seen \in SUBSET Seen'
  BY <1>1 DEF Seen
<1>3. IsFiniteSet(Seen')
  BY ObjectsStay DEF ObjectInv
<1>4. Cardinality(Seen) \in Nat /\ Cardinality(Seen') \in Nat /\ Cardinality(Seen) <= Cardinality(Seen')
  BY <1>2, <1>3, FS_Subset, FS_CardinalityType
<1>5. QED
  BY <1>4, TailSamplerAssumption DEF Overloaded, Seen

\* While there is room, deleteChan has room for every trace that is stored.
LEMMA RoomInTheQueue ==
  ASSUME Types, QueueInv, ObjectInv, ~Overloaded, NEW c \in Consumers, cpc[c] = "enqueue"
  PROVE  Len(deleteChan) < NumTraces
<1>1. OnMap \in SUBSET Seen
  BY DEF OnMap, Seen, ObjectInv
<1>2. IsFiniteSet(Seen)
  BY DEF ObjectInv
<1>3. Cardinality(OnMap) <= Cardinality(Seen) /\ Cardinality(Seen) \in Nat
  BY <1>1, <1>2, FS_Subset, FS_CardinalityType
<1>4. Cardinality(Seen) <= NumTraces
  BY <1>3, TailSamplerAssumption DEF Overloaded, Seen
<1>5. c \in Making
  BY DEF Making, Storers
<1>6. Cardinality(Making) # 0
  BY <1>5, FS_EmptySet DEF QueueInv
<1>7. Len(deleteChan) \in Nat
  BY DEF Types, MapTypes
<1>8. QED
  BY <1>3, <1>4, <1>6, <1>7, QueueSetsAreFinite, TailSamplerAssumption DEF QueueInv

\* A consumer's step while there is room.
LEMMA ConsumersKeepRoom ==
  ASSUME Types, QueueInv, ObjectInv, ~Overloaded, TokenInv, MapInv, UndecidedInv, ForwardInv,
         NEW c \in Consumers, Load(c) \/ ConsumerStep(c)
  PROVE  TokenInv' /\ MapInv' /\ UndecidedInv' /\ ForwardInv'
<1> USE TailSamplerAssumption DEF Goto, traceVars, batcherVars, evictVars, tickVars
<1>a. /\ cpc \in [Consumers -> {"idle", "store", "append"} \cup Storers]
      /\ span \in [Consumers -> Spans \cup {Nil}] /\ data \in [Consumers -> Spans \cup {Nil}]
      /\ idToTrace \in [TraceIDs -> Spans \cup {Nil}] /\ received \subseteq Spans
      /\ batchesOf \in [Spans -> SUBSET Spans] /\ forwarded \in [Spans -> Nat]
      /\ finalDecision \in [Spans -> Decision \cup {"Unspecified"}]
  BY DEF Types, ConsumerTypes, MapTypes
<1>b. \A d \in Consumers : /\ cpc[d] # "idle" => span[d] \in received /\ span[d] \in Spans
                                                 /\ Id(d) \in TraceIDs
                           /\ cpc[d] \in Storers => data[d] = span[d]
                           /\ cpc[d] = "append" => data[d] \in Spans
                           /\ cpc[d] = "idle" => span[d] = Nil
  BY <1>a DEF Types, ControlOK, Id
<1>c. \A d, e \in Consumers : span[d] = span[e] /\ span[d] # Nil => d = e
  BY DEF Types, ControlOK
<1>d. (UNCHANGED <<pendingIds, currentBatch, batches, todo>>) => TokenInv' /\ Queued' = Queued
  BY DEF TokenInv, Queued, InBatches
<1>1. CASE Load(c)
  <2>1. PICK s \in Spans \ received :
          /\ received' = received \cup {s} /\ span' = [span EXCEPT ![c] = s]
          /\ data' = [data EXCEPT ![c] = idToTrace[TraceOf[s]]]
          /\ cpc' = [cpc EXCEPT ![c] = IF idToTrace[TraceOf[s]] = Nil THEN "store" ELSE "append"]
    BY <1>1 DEF Load
  <2>2. UNCHANGED <<idToTrace, batchesOf, finalDecision, forwarded, tpc, trace, todo,
                    pendingIds, currentBatch, batches>>
    BY <1>1 DEF Load
  <2>3. TokenInv' /\ Queued' = Queued
    BY <1>d, <2>2
  <2>4. MapInv'
    BY <1>a, <2>1, <2>2 DEF MapInv, Id
  <2>5. UndecidedInv'
    BY <1>a, <2>1, <2>2, <2>3 DEF UndecidedInv, Id
  <2>6. ForwardInv'
    <3>1. \A o \in Spans : s \notin batchesOf[o]
      BY <2>1 DEF ObjectInv
    <3>2. forwarded[s] = 0
      BY <2>1 DEF ForwardInv
    <3>3. \A x \in Spans : x # s => ((\A d \in Consumers : span[d] # x)
                                     => \A d \in Consumers : span'[d] # x)
      BY <1>a, <2>1
    <3>4. QED
      BY <1>a, <2>1, <2>2, <3>1, <3>2, <3>3 DEF ForwardInv
  <2>7. QED
    BY <2>3, <2>4, <2>5, <2>6
<1>2. CASE LoadStored(c)
  <2>1. /\ cpc[c] = "store" /\ idToTrace[Id(c)] # Nil
        /\ data' = [data EXCEPT ![c] = idToTrace[Id(c)]] /\ cpc' = [cpc EXCEPT ![c] = "append"]
        /\ UNCHANGED <<span, received, idToTrace, batchesOf, finalDecision, forwarded, tpc, trace,
                       todo, pendingIds, currentBatch, batches>>
    BY <1>2 DEF LoadStored
  <2>2. TokenInv' /\ Queued' = Queued
    BY <1>d, <2>1
  <2>3. MapInv' /\ UndecidedInv' /\ ForwardInv'
    BY <1>a, <2>1, <2>2 DEF MapInv, UndecidedInv, ForwardInv, Id
  <2>4. QED
    BY <2>2, <2>3
<1>3. CASE Store(c)
  <2> DEFINE t == Id(c)
             o == span[c]
  <2>1. /\ cpc[c] = "store" /\ idToTrace[t] = Nil
        /\ idToTrace' = [idToTrace EXCEPT ![t] = o]
        /\ data' = [data EXCEPT ![c] = o] /\ cpc' = [cpc EXCEPT ![c] = "add"]
        /\ UNCHANGED <<span, received, batchesOf, finalDecision, forwarded, tpc, trace,
                       todo, pendingIds, currentBatch, batches>>
    BY <1>3 DEF Store, StoreNew
  <2>2. t \in TraceIDs /\ o \in Spans /\ TraceOf[o] = t /\ o # Nil
    BY <1>b, <2>1 DEF Id
  <2>3. TokenInv' /\ Queued' = Queued
    BY <1>d, <2>1
  <2>4. t \notin Queued
    BY <2>1 DEF UndecidedInv
  <2>5. batchesOf[o] = {} /\ finalDecision[o] = "Unspecified"
    BY <2>1, <2>2 DEF MapInv
  <2>6. idToTrace'[t] = o /\ \A u \in TraceIDs : u # t => idToTrace'[u] = idToTrace[u]
    BY <1>a, <2>1, <2>2
  <2>7. \A u \in TraceIDs : idToTrace[u] # Nil => idToTrace'[u] = idToTrace[u]
    BY <2>1, <2>6
  <2>8. \A d \in Consumers \ {c} : cpc'[d] = cpc[d] /\ data'[d] = data[d] /\ Id(d)' = Id(d)
    BY <1>a, <2>1 DEF Id
  <2>9. cpc'[c] = "add" /\ data'[c] = o /\ Id(c)' = t
    BY <1>a, <2>1, <2>2 DEF Id
  <2>10. MapInv'
    <3>1. \A d \in Consumers : cpc'[d] \notin {"evict", "drop"}
      BY <2>8, <2>9 DEF MapInv
    <3>2. ASSUME NEW d \in Consumers, cpc'[d] \in {"add", "enqueue", "append"}
          PROVE  idToTrace'[Id(d)'] = data'[d]
      <4>1. CASE d = c
        BY <2>6, <2>9, <4>1
      <4>2. CASE d # c
        <5>1. idToTrace[Id(d)] = data[d] /\ Id(d) \in TraceIDs /\ data[d] \in Spans
          BY <1>b, <2>8, <3>2, <4>2 DEF MapInv, Storers
        <5>2. QED
          BY <2>7, <2>8, <4>2, <5>1
      <4>3. QED
        BY <4>1, <4>2
    <3>3. \A x \in Spans : batchesOf'[x] # {} \/ finalDecision'[x] # "Unspecified"
                             => idToTrace'[TraceOf[x]] = x
      BY <2>1, <2>7 DEF MapInv
    <3>4. tpc' = "decide" => trace' = idToTrace'[Head(todo')]
      <4>1. tpc = "decide" => Head(todo) \in TraceIDs /\ trace \in Spans
        BY QueueFacts DEF Types, ControlOK, BatcherTypes
      <4>2. QED
        BY <2>1, <2>7, <4>1 DEF MapInv
    <3>5. QED
      BY <3>1, <3>2, <3>3, <3>4 DEF MapInv
  <2>11. UndecidedInv'
    <3>1. ASSUME NEW u \in Queued'
          PROVE  idToTrace'[u] # Nil /\ finalDecision'[idToTrace'[u]] = "Unspecified"
      <4>1. u \in Queued /\ u # t
        BY <2>3, <2>4, <3>1
      <4>2. idToTrace'[u] = idToTrace[u]
        BY <1>a, <2>1, <4>1
      <4>3. QED
        BY <2>1, <4>1, <4>2 DEF UndecidedInv
    <3>2. ASSUME NEW d \in Consumers, cpc'[d] = "add"
          PROVE  Id(d)' \notin Queued' /\ finalDecision'[data'[d]] = "Unspecified"
      <4>1. CASE d = c
        BY <2>1, <2>3, <2>4, <2>5, <2>9, <4>1
      <4>2. CASE d # c
        BY <2>1, <2>3, <2>8, <3>2, <4>2 DEF UndecidedInv
      <4>3. QED
        BY <4>1, <4>2
    <3>3. QED
      BY <3>1, <3>2 DEF UndecidedInv
  <2>12. ForwardInv'
    BY <2>1, <2>7 DEF ForwardInv
  <2>13. QED
    BY <2>3, <2>10, <2>11, <2>12
<1>4. CASE AddToCurrentBatch(c)
  <2> DEFINE t == Id(c)
  <2>1. /\ cpc[c] = "add" /\ pendingIds' = Append(pendingIds, t)
        /\ cpc' = [cpc EXCEPT ![c] = "enqueue"]
        /\ UNCHANGED <<span, data, received, idToTrace, batchesOf, finalDecision, forwarded, tpc,
                       trace, todo, currentBatch, batches>>
    BY <1>4 DEF AddToCurrentBatch
  <2>2. t \in TraceIDs /\ t \notin Queued /\ finalDecision[data[c]] = "Unspecified"
        /\ idToTrace[t] = data[c] /\ data[c] = span[c] /\ data[c] # Nil
    BY <1>b, <2>1 DEF UndecidedInv, MapInv, Storers
  <2>3. TokenInv' /\ Queued' = Queued \cup {t}
    BY <2>1, <2>2, TokenEnters
  <2>4. MapInv' /\ ForwardInv'
    BY <1>a, <2>1 DEF MapInv, ForwardInv, Id
  <2>5. \A d \in Consumers : cpc'[d] = "add" => cpc[d] = "add" /\ d # c /\ Id(d)' = Id(d)
    BY <1>a, <2>1 DEF Id
  <2>6. ASSUME NEW d \in Consumers, cpc'[d] = "add" PROVE Id(d) # t
    <3>1. span[d] = data[d] /\ idToTrace[Id(d)] = data[d] /\ d # c /\ span[d] # Nil
      BY <1>b, <2>5, <2>6 DEF MapInv, Storers
    <3>2. QED
      BY <1>c, <2>2, <3>1
  <2>7. UndecidedInv'
    BY <2>1, <2>2, <2>3, <2>5, <2>6 DEF UndecidedInv
  <2>8. QED
    BY <2>3, <2>4, <2>7
<1>5. CASE Enqueue(c)
  <2>1. /\ cpc[c] = "enqueue" /\ cpc' = [cpc EXCEPT ![c] = "append"]
        /\ UNCHANGED <<span, data, received, idToTrace, batchesOf, finalDecision, forwarded, tpc,
                       trace, todo, pendingIds, currentBatch, batches>>
    BY <1>5 DEF Enqueue
  <2>2. TokenInv' /\ Queued' = Queued
    BY <1>d, <2>1
  <2>3. MapInv' /\ UndecidedInv' /\ ForwardInv'
    BY <1>a, <2>1, <2>2 DEF MapInv, UndecidedInv, ForwardInv, Id
  <2>4. QED
    BY <2>2, <2>3
<1>6. CASE Full(c)
  <2>1. cpc[c] = "enqueue" /\ Len(deleteChan) >= NumTraces
    BY <1>6 DEF Full
  <2>2. Len(deleteChan) \in Nat
    BY DEF Types, MapTypes
  <2>3. QED
    BY <2>1, <2>2, RoomInTheQueue
<1>7. CASE TakeOldest(c) \/ DropTrace(c)
  BY <1>7 DEF TakeOldest, DropTrace, MapInv
<1>8. CASE AppendOrForward(c)
  <2> DEFINE o == data[c]
             s == span[c]
  <2>1. /\ cpc[c] = "append" /\ cpc' = [cpc EXCEPT ![c] = "idle"]
        /\ span' = [span EXCEPT ![c] = Nil] /\ data' = [data EXCEPT ![c] = Nil]
        /\ UNCHANGED <<received, idToTrace, finalDecision, tpc, trace, todo, pendingIds,
                       currentBatch, batches>>
    BY <1>8 DEF AppendOrForward
  <2>2. o \in Spans /\ s \in Spans /\ s \in received /\ TraceOf[s] = TraceOf[o]
        /\ idToTrace[TraceOf[s]] = o /\ s # Nil /\ o # Nil
    BY <1>b, <2>1 DEF MapInv, ObjectInv, Id
  <2>3. TokenInv' /\ Queued' = Queued
    BY <1>d, <2>1
  <2>4. \A d \in Consumers : cpc'[d] # "idle" => d # c /\ cpc'[d] = cpc[d] /\ data'[d] = data[d]
                                                 /\ Id(d)' = Id(d)
    BY <1>a, <2>1 DEF Id
  <2>5. UndecidedInv'
    BY <2>1, <2>3, <2>4 DEF UndecidedInv
  <2>6. /\ \A d \in Consumers : span'[d] # s
        /\ \A x \in Spans : (\A d \in Consumers : span[d] # x) => \A d \in Consumers : span'[d] # x
    BY <1>a, <1>c, <2>1, <2>2
  <2>7. forwarded[s] = 0
    BY <2>2 DEF ForwardInv
  <2> HIDE DEF o, s
  <2>8. CASE finalDecision[o] = "Unspecified"
    <3>1. batchesOf' = [batchesOf EXCEPT ![o] = @ \cup {s}] /\ UNCHANGED forwarded
      BY <1>8, <2>8 DEF AppendOrForward, o, s
    <3>2. \A x \in Spans : batchesOf'[x] = batchesOf[x]
                           \/ (x = o /\ batchesOf'[x] = batchesOf[x] \cup {s})
      BY <1>a, <2>2, <3>1
    <3>3. MapInv'
      BY <2>1, <2>2, <2>4, <3>2 DEF MapInv
    <3>4. ForwardInv'
      <4>1. \A x \in Spans : \A y \in batchesOf'[x] : \A d \in Consumers : span'[d] # y
        BY <1>a, <2>6, <3>2 DEF ForwardInv
      <4>2. QED
        BY <2>1, <2>6, <3>1, <4>1 DEF ForwardInv
    <3>5. QED
      BY <2>3, <2>5, <3>3, <3>4
  <2>9. CASE finalDecision[o] # "Unspecified"
    <3>1. UNCHANGED batchesOf
          /\ forwarded' = [x \in Spans |-> forwarded[x]
                             + (IF x \in (IF finalDecision[o] = "Sampled" THEN {s} ELSE {}) THEN 1 ELSE 0)]
      BY <1>8, <2>9 DEF AppendOrForward, Forward, o, s
    <3>2. MapInv'
      BY <2>1, <2>4, <3>1 DEF MapInv
    <3>3. \A x \in Spans : \/ forwarded'[x] = forwarded[x]
                           \/ x = s /\ forwarded'[x] = 1 /\ finalDecision[o] = "Sampled"
      BY <1>a, <2>7, <3>1
    <3>4. ForwardInv'
      <4>1. \A x \in Spans : \A y \in batchesOf'[x] : \A d \in Consumers : span'[d] # y
        BY <1>a, <2>6, <3>1 DEF ForwardInv
      <4>2. ASSUME NEW x \in Spans, forwarded'[x] # 0
            PROVE  /\ forwarded'[x] = 1 /\ x \in received'
                   /\ \A d \in Consumers : span'[d] # x
                   /\ idToTrace'[TraceOf[x]] # Nil
                   /\ finalDecision'[idToTrace'[TraceOf[x]]] = "Sampled"
        <5>1. CASE forwarded'[x] = forwarded[x]
          BY <2>1, <2>6, <4>2, <5>1 DEF ForwardInv
        <5>2. CASE x = s /\ forwarded'[x] = 1 /\ finalDecision[o] = "Sampled"
          BY <2>1, <2>2, <2>6, <5>2
        <5>3. QED
          BY <3>3, <5>1, <5>2
      <4>3. QED
        BY <4>1, <4>2 DEF ForwardInv
    <3>5. QED
      BY <2>3, <2>5, <3>2, <3>4
  <2>10. QED
    BY <2>8, <2>9
<1>9. QED
  BY <1>1, <1>2, <1>3, <1>4, <1>5, <1>6, <1>7, <1>8 DEF ConsumerStep

\* What is queued are ids of traces.
LEMMA QueuedAreTraces ==
  ASSUME Types
  PROVE  Queued \subseteq TraceIDs
<1>1. /\ pendingIds \in Seq(TraceIDs) /\ currentBatch \in Seq(TraceIDs) /\ todo \in Seq(TraceIDs)
      /\ batches \in Seq(Seq(TraceIDs))
  BY DEF Types, BatcherTypes
<1>2. \A q \in Seq(TraceIDs) : Holds(q) \subseteq TraceIDs
  BY DEF Holds
<1>3. \A i \in DOMAIN batches : batches[i] \in Seq(TraceIDs)
  BY <1>1
<1>4. InBatches \subseteq TraceIDs
  BY <1>2, <1>3 DEF InBatches
<1>5. QED
  BY <1>1, <1>2, <1>4 DEF Queued

\* A step of the batcher, the ticker or Shutdown while there is room.
LEMMA OthersKeepRoom ==
  ASSUME Types, ObjectInv, TokenInv, MapInv, UndecidedInv, ForwardInv,
         Fill \/ Tick \/ TickStep \/ StopBatcher \/ ShutdownStep \/ UNCHANGED vars
  PROVE  TokenInv' /\ MapInv' /\ UndecidedInv' /\ ForwardInv'
<1> USE TailSamplerAssumption DEF traceVars, batcherVars, evictVars, consumerVars, tickVars
<1>a. UNCHANGED <<span, data, cpc, received, idToTrace, batchesOf>>
  BY DEF Fill, Tick, TakeFirst, TakeLast, TickStep, CloseCurrent, NotOnMap, Evaluate, Decide,
    EndOfBatch, TickerExits, StopBatcher, ShutdownStep, BatcherStopped, StopTicker, vars
<1>1. ASSUME UNCHANGED <<finalDecision, forwarded>>, TokenInv', Queued' \subseteq Queued,
             tpc' = "decide" => trace' = idToTrace'[Head(todo')]
      PROVE  TokenInv' /\ MapInv' /\ UndecidedInv' /\ ForwardInv'
  BY <1>a, <1>1 DEF MapInv, UndecidedInv, ForwardInv, Id
<1>2. CASE Fill
  <2>1. UNCHANGED <<finalDecision, forwarded, tpc, trace, todo>>
    BY <1>2 DEF Fill
  <2>2. TokenInv' /\ Queued' \subseteq Queued
    BY <1>2, TokensMove
  <2>3. QED
    BY <1>1, <1>a, <2>1, <2>2 DEF MapInv
<1>3. CASE TakeFirst \/ CloseCurrent \/ TakeLast
  <2>1. UNCHANGED <<finalDecision, forwarded>> /\ tpc' # "decide"
    BY <1>3 DEF TakeFirst, CloseCurrent, TakeLast
  <2>2. TokenInv' /\ Queued' \subseteq Queued
    BY <1>3, TokensMove
  <2>3. QED
    BY <1>1, <2>1, <2>2
<1>4. CASE NotOnMap
  <2>1. UNCHANGED <<finalDecision, forwarded, pendingIds, currentBatch, batches>> /\ tpc' # "decide"
        /\ todo # <<>> /\ todo' = Tail(todo)
    BY <1>4 DEF NotOnMap, NextId
  <2>2. QED
    BY <1>1, <2>1, TokenEnds
<1>5. CASE Evaluate \/ EndOfBatch \/ TickerExits \/ StopBatcher \/ ShutdownStep \/ UNCHANGED vars
  <2>1. UNCHANGED <<finalDecision, forwarded, pendingIds, currentBatch, batches, todo>>
    BY <1>5 DEF Evaluate, EndOfBatch, TickerExits, StopBatcher, ShutdownStep, BatcherStopped,
      StopTicker, vars
  <2>2. TokenInv' /\ Queued' = Queued
    BY <2>1 DEF TokenInv, Queued, InBatches
  <2>3. tpc' = "decide" => trace' = idToTrace'[Head(todo')]
    BY <1>5, <1>a, <2>1 DEF Evaluate, EndOfBatch, TickerExits, StopBatcher, ShutdownStep,
      BatcherStopped, StopTicker, vars, MapInv
  <2>4. QED
    BY <1>1, <2>1, <2>2, <2>3
<1>6. CASE Decide
  <2> DEFINE h == Head(todo)
  <2>1. /\ tpc = "decide" /\ tpc' = "load" /\ todo' = Tail(todo)
        /\ UNCHANGED <<pendingIds, currentBatch, batches>>
        /\ finalDecision' = [finalDecision EXCEPT ![trace] = decision]
        /\ forwarded' = [s \in Spans |-> forwarded[s]
               + (IF s \in (IF decision = "Sampled" THEN batchesOf[trace] ELSE {}) THEN 1 ELSE 0)]
    BY <1>6 DEF Decide, NextId, Forward
  <2>2. todo # <<>> /\ trace \in Spans /\ decision \in Decision
    BY <2>1 DEF Types, ControlOK
  <2>3. TokenInv' /\ Queued' \subseteq Queued /\ h \in Queued /\ h \notin Queued'
    BY <2>1, <2>2, TokenEnds
  <2>4. trace = idToTrace[h] /\ finalDecision[trace] = "Unspecified" /\ h \in TraceIDs
    <3>1. h \in TraceIDs
      BY <2>2, QueueFacts DEF Types, BatcherTypes
    <3>2. QED
      BY <2>1, <2>3, <3>1 DEF MapInv, UndecidedInv
  <2>5. TraceOf[trace] = h /\ trace # Nil
    BY <2>2, <2>4 DEF ObjectInv
  <2>6. /\ finalDecision'[trace] = decision
        /\ \A o \in Spans : o # trace => finalDecision'[o] = finalDecision[o]
    BY <2>1, <2>2 DEF Types, MapTypes
  <2>7. \A t \in TraceIDs : t # h /\ idToTrace[t] # Nil => idToTrace[t] # trace /\ idToTrace[t] \in Spans
    BY <2>5 DEF ObjectInv, Types, MapTypes
  <2> HIDE DEF h
  <2>8. MapInv'
    <3>1. \A o \in Spans : batchesOf'[o] # {} \/ finalDecision'[o] # "Unspecified"
                             => idToTrace'[TraceOf[o]] = o
      BY <1>a, <2>4, <2>5, <2>6 DEF MapInv
    <3>2. QED
      BY <1>a, <2>1, <3>1 DEF MapInv, Id
  <2>9. UndecidedInv'
    <3>1. ASSUME NEW t \in Queued'
          PROVE  idToTrace'[t] # Nil /\ finalDecision'[idToTrace'[t]] = "Unspecified"
      <4>1. t \in Queued /\ t # h
        BY <2>3, <3>1
      <4>2. idToTrace[t] # Nil /\ finalDecision[idToTrace[t]] = "Unspecified"
        BY <4>1 DEF UndecidedInv
      <4>3. t \in TraceIDs
        BY <4>1, QueuedAreTraces
      <4>4. QED
        BY <1>a, <2>6, <2>7, <4>1, <4>2, <4>3
    <3>2. ASSUME NEW c \in Consumers, cpc'[c] = "add"
          PROVE  Id(c)' \notin Queued' /\ finalDecision'[data'[c]] = "Unspecified"
      <4>1. cpc[c] = "add" /\ Id(c)' = Id(c) /\ data'[c] = data[c]
        BY <1>a, <3>2 DEF Id
      <4>2. Id(c) \notin Queued /\ finalDecision[data[c]] = "Unspecified" /\ idToTrace[Id(c)] = data[c]
        BY <4>1 DEF UndecidedInv, MapInv
      <4>3. Id(c) \in TraceIDs /\ data[c] \in Spans /\ data[c] # Nil
        BY <4>1 DEF Types, ControlOK, ConsumerTypes, Storers, Id
      <4>4. Id(c) # h
        BY <2>3, <4>2
      <4>5. QED
        BY <2>3, <2>6, <2>7, <4>1, <4>2, <4>3, <4>4
    <3>3. QED
      BY <3>1, <3>2 DEF UndecidedInv
  <2>10. ForwardInv'
    <3>1. \A s \in batchesOf[trace] : s \in Spans /\ s \in received /\ TraceOf[s] = h
                                      /\ \A c \in Consumers : span[c] # s
      BY <2>2, <2>5 DEF ObjectInv, ForwardInv, Types, MapTypes
    <3>2. \A s \in batchesOf[trace] : forwarded[s] = 0
      BY <2>4, <3>1 DEF ForwardInv
    <3>3. \A s \in Spans : \/ forwarded'[s] = forwarded[s]
                           \/ s \in batchesOf[trace] /\ forwarded'[s] = 1 /\ decision = "Sampled"
      BY <2>1, <3>2 DEF Types, MapTypes
    <3>4. ASSUME NEW s \in Spans, forwarded'[s] # 0
          PROVE  /\ forwarded'[s] = 1 /\ s \in received'
                 /\ \A c \in Consumers : span'[c] # s
                 /\ idToTrace'[TraceOf[s]] # Nil
                 /\ finalDecision'[idToTrace'[TraceOf[s]]] = "Sampled"
      <4>1. CASE s \in batchesOf[trace] /\ forwarded'[s] = 1 /\ decision = "Sampled"
        BY <1>a, <2>4, <2>5, <2>6, <3>1, <4>1
      <4>2. CASE forwarded'[s] = forwarded[s]
        <5>1. /\ forwarded[s] = 1 /\ s \in received /\ \A c \in Consumers : span[c] # s
              /\ idToTrace[TraceOf[s]] # Nil /\ finalDecision[idToTrace[TraceOf[s]]] = "Sampled"
          BY <3>4, <4>2 DEF ForwardInv
        <5>2. TraceOf[s] # h /\ TraceOf[s] \in TraceIDs
          BY <2>4, <5>1
        <5>3. QED
          BY <1>a, <2>6, <2>7, <4>2, <5>1, <5>2
      <4>3. QED
        BY <3>3, <4>1, <4>2
    <3>5. QED
      BY <1>a, <3>4 DEF ForwardInv
  <2>11. QED
    BY <2>3, <2>8, <2>9, <2>10
<1>7. QED
  BY <1>2, <1>3, <1>4, <1>5, <1>6 DEF Tick, TickStep

\* The invariant of what is forwarded.
THEOREM RoomInvariant == Spec => [](ObjectInv /\ RoomInv)
<1>1. Types /\ QueueInv /\ ObjectInv /\ RoomInv /\ [Next]_vars => (ObjectInv /\ RoomInv)'
  <2> SUFFICES ASSUME Types, QueueInv, ObjectInv, RoomInv, [Next]_vars PROVE (ObjectInv /\ RoomInv)'
    OBVIOUS
  <2>1. ObjectInv'
    BY ObjectsStay
  <2>2. ASSUME ~Overloaded' PROVE TokenInv' /\ MapInv' /\ UndecidedInv' /\ ForwardInv'
    <3>1. ~Overloaded
      BY <2>2, RoomBefore
    <3>2. TokenInv /\ MapInv /\ UndecidedInv /\ ForwardInv
      BY <3>1 DEF RoomInv
    <3>3. QED
      BY <3>1, <3>2, ConsumersKeepRoom, OthersKeepRoom DEF Next, Stopped
  <2>3. QED
    BY <2>1, <2>2 DEF RoomInv
<1>2. QED
  BY <1>1, RoomInit, QueueInvariant, PTL DEF Spec

\* While there is room for every trace, no span goes to the next consumer twice,
\* whether with the decision on its trace, as a late arrival, or by two ticks, and
\* no span of a trace on the map that is decided NotSampled goes there at all.
THEOREM ForwardsAsDecided == Spec => []ForwardedAsDecided
<1>1. Types /\ RoomInv => ForwardedAsDecided
  <2> SUFFICES ASSUME Types, RoomInv, ~Overloaded
               PROVE  /\ \A s \in Spans : forwarded[s] <= 1
                      /\ \A t \in TraceIDs :
                           (idToTrace[t] # Nil /\ finalDecision[idToTrace[t]] = "NotSampled")
                              => \A s \in Spans : TraceOf[s] = t => forwarded[s] = 0
    BY DEF ForwardedAsDecided
  <2>1. ForwardInv /\ forwarded \in [Spans -> Nat]
    BY DEF RoomInv, Types, MapTypes
  <2>2. QED
    BY <2>1 DEF ForwardInv
<1>2. QED
  BY <1>1, QueueInvariant, RoomInvariant, PTL
=============================================================================

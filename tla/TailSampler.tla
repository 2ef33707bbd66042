----------------------------- MODULE TailSampler -----------------------------
(***************************************************************************)
(* The tail sampling processor of processor/signoztailsampler/processor.go *)
(* with its batcher (internal/idbatcher) and its ticker                    *)
(* (internal/timeutils): concurrent ConsumeTraces calls, the goroutine     *)
(* that fills the current batch, the ticker goroutine that decides, the    *)
(* eviction of the oldest traces, and Shutdown.                            *)
(*                                                                         *)
(* A Span stands for the spans of one trace in one ResourceSpans: what one *)
(* turn of processTraces' loop handles.  TraceData objects are named by    *)
(* the span whose arrival created them, so that a goroutine can hold a     *)
(* pointer to an object that has left the map.                             *)
(***************************************************************************)
EXTENDS Naturals, Sequences, FiniteSets
LOCAL INSTANCE TLC

CONSTANTS Consumers,    \* goroutines inside ConsumeTraces
          Spans,
          TraceIDs,
          TraceOf,      \* [Spans -> TraceIDs]
          NumTraces,    \* cfg.NumTraces: capacity of deleteChan
          NumBatches,   \* cfg.DecisionWait in seconds
          PendingCap,   \* capacity of batcher.pendingIds, 2*NumCPU
          PolicyCfgs,   \* cfg.PolicyCfgs: sequence of [priority, matches, decision]
          FromConfig,   \* built by newTracesProcessor; FALSE: as processor_test.go
                        \* does, with the policies put into the struct directly
          Nil

ASSUME TailSamplerAssumption ==
    /\ TraceOf \in [Spans -> TraceIDs]
    /\ NumTraces \in Nat \ {0}
    /\ NumBatches \in Nat \ {0}
    /\ PendingCap \in Nat \ {0}
    /\ FromConfig \in BOOLEAN
    /\ Nil \notin Spans \cup TraceIDs

VARIABLES policies,        \* tsp.policies
          idToTrace,       \* tsp.idToTrace: id -> TraceData object
          batchesOf,       \* TraceData.ReceivedBatches of each object
          finalDecision,   \* TraceData.FinalDecision of each object
          deleteChan,      \* tsp.deleteChan
          numTracesOnMap,  \* tsp.numTracesOnMap
          pendingIds,      \* batcher.pendingIds
          currentBatch,    \* batcher.currentBatch
          batches,         \* batcher.batches
          received,        \* spans given to ConsumeTraces
          cpc,             \* control of each consumer in processTraces
          span,            \* the span it handles
          data,            \* actualData: the object it holds
          victim,          \* traceKeyToDrop
          tpc,             \* control of the ticker goroutine
          todo,            \* the rest of the batch it evaluates
          trace,           \* the object of the head of todo
          decision,        \* makeDecision's result for it
          spc,             \* control of Shutdown
          forwarded        \* how often each span went to nextConsumer

traceVars    == <<idToTrace, batchesOf, finalDecision>>
batcherVars  == <<pendingIds, currentBatch, batches>>
evictVars    == <<deleteChan, numTracesOnMap>>
consumerVars == <<received, cpc, span, data, victim>>
tickVars     == <<tpc, todo, trace, decision>>
vars == <<policies, traceVars, batcherVars, evictVars, consumerVars, tickVars, spc, forwarded>>

Decision == {"Sampled", "NotSampled"}

TypeOK ==
    /\ idToTrace \in [TraceIDs -> Spans \cup {Nil}]
    /\ batchesOf \in [Spans -> SUBSET Spans]
    /\ finalDecision \in [Spans -> Decision \cup {"Unspecified"}]
    /\ deleteChan \in Seq(TraceIDs)
    /\ Len(deleteChan) <= NumTraces
    /\ numTracesOnMap \in Nat
    /\ pendingIds \in Seq(TraceIDs)
    /\ Len(pendingIds) <= PendingCap
    /\ currentBatch \in Seq(TraceIDs)
    /\ batches \in Seq(Seq(TraceIDs))
    /\ Len(batches) <= NumBatches
    /\ received \subseteq Spans
    /\ cpc \in [Consumers -> {"idle", "store", "add", "enqueue", "evict", "drop", "append"}]
    /\ span \in [Consumers -> Spans \cup {Nil}]
    /\ data \in [Consumers -> Spans \cup {Nil}]
    /\ victim \in [Consumers -> TraceIDs \cup {Nil}]
    /\ tpc \in {"wait", "close", "load", "decide", "exited"}
    /\ todo \in Seq(TraceIDs)
    /\ trace \in Spans \cup {Nil}
    /\ decision \in Decision \cup {Nil}
    /\ spc \in {"up", "closing", "stopped", "down"}
    /\ forwarded \in [Spans -> Nat]

-----------------------------------------------------------------------------
(* Policies *)

\* newTracesProcessor: copy into a slice of length zero, then sort by priority.
\* copy moves min(len(dst), len(src)) elements, which is none.
LoadPolicies(cfgs) ==
    LET dstLen == 0
        copied == SubSeq(cfgs, 1, IF dstLen < Len(cfgs) THEN dstLen ELSE Len(cfgs))
    IN  SortSeq(copied, LAMBDA a, b : a.priority < b.priority)

\* A policy has a verdict on the traces that contain a span it matches.
Verdict(p, ss) == IF ss \cap p.matches # {} THEN p.decision ELSE "NoResult"

\* makeDecision: the first policy with the verdict Sampled or NotSampled decides;
\* without one the trace is sampled.
MakeDecision(ps, ss) ==
    LET hits == {i \in DOMAIN ps : Verdict(ps[i], ss) \in Decision}
        first(i) == \A j \in hits : i <= j
    IN  IF \E i \in hits : first(i) /\ Verdict(ps[i], ss) = "NotSampled"
        THEN "NotSampled" ELSE "Sampled"

Init ==
    /\ policies = IF FromConfig THEN LoadPolicies(PolicyCfgs) ELSE PolicyCfgs
    /\ idToTrace = [t \in TraceIDs |-> Nil]
    /\ batchesOf = [o \in Spans |-> {}]
    /\ finalDecision = [o \in Spans |-> "Unspecified"]
    /\ deleteChan = <<>>
    /\ numTracesOnMap = 0
    /\ pendingIds = <<>>
    /\ currentBatch = <<>>
    /\ batches = [i \in 1..NumBatches |-> <<>>]
    /\ received = {}
    /\ cpc = [c \in Consumers |-> "idle"]
    /\ span = [c \in Consumers |-> Nil]
    /\ data = [c \in Consumers |-> Nil]
    /\ victim = [c \in Consumers |-> Nil]
    /\ tpc = "wait"
    /\ todo = <<>>
    /\ trace = Nil
    /\ decision = Nil
    /\ spc = "up"
    /\ forwarded = [s \in Spans |-> 0]

-----------------------------------------------------------------------------
(* processTraces, one turn of its loop per span *)

Goto(c, label) == cpc' = [cpc EXCEPT ![c] = label]
Id(c) == TraceOf[span[c]]

\* idToTrace.Load: the trace is known, or it must be stored.
Load(c) ==
    /\ cpc[c] = "idle"
    /\ spc = "up"
    /\ \E s \in Spans \ received :
          /\ received' = received \cup {s}
          /\ span' = [span EXCEPT ![c] = s]
          /\ data' = [data EXCEPT ![c] = idToTrace[TraceOf[s]]]
          /\ Goto(c, IF idToTrace[TraceOf[s]] = Nil THEN "store" ELSE "append")
    /\ UNCHANGED <<policies, traceVars, batcherVars, evictVars, victim, tickVars, spc, forwarded>>

\* LoadOrStore finds that another consumer has stored the trace meanwhile.
LoadStored(c) ==
    /\ cpc[c] = "store"
    /\ idToTrace[Id(c)] # Nil
    /\ data' = [data EXCEPT ![c] = idToTrace[Id(c)]]
    /\ Goto(c, "append")
    /\ UNCHANGED <<policies, traceVars, batcherVars, evictVars, received, span, victim,
                   tickVars, spc, forwarded>>

StoreNew(c) ==
    /\ idToTrace' = [idToTrace EXCEPT ![Id(c)] = span[c]]
    /\ data' = [data EXCEPT ![c] = span[c]]
    /\ Goto(c, "add")
    /\ UNCHANGED <<policies, batchesOf, finalDecision, batcherVars, evictVars, received,
                   span, victim, tickVars, spc, forwarded>>

\* Mutant of Store: Store where LoadOrStore is needed.
StoreAlways(c) ==
    /\ cpc[c] = "store"
    /\ StoreNew(c)

\* LoadOrStore stores a new TraceData.
Store(c) ==
    /\ cpc[c] = "store"
    /\ idToTrace[Id(c)] = Nil
    /\ StoreNew(c)

\* AddToCurrentBatch, which blocks while pendingIds is full.
AddToCurrentBatch(c) ==
    /\ cpc[c] = "add"
    /\ Len(pendingIds) < PendingCap
    /\ pendingIds' = Append(pendingIds, Id(c))
    /\ numTracesOnMap' = numTracesOnMap + 1
    /\ Goto(c, "enqueue")
    /\ UNCHANGED <<policies, traceVars, currentBatch, batches, deleteChan, received, span,
                   data, victim, tickVars, spc, forwarded>>

Enqueue(c) ==
    /\ cpc[c] = "enqueue"
    /\ Len(deleteChan) < NumTraces
    /\ deleteChan' = Append(deleteChan, Id(c))
    /\ Goto(c, "append")
    /\ UNCHANGED <<policies, traceVars, batcherVars, numTracesOnMap, received, span, data,
                   victim, tickVars, spc, forwarded>>

\* The default branch of the select: deleteChan is full.
Full(c) ==
    /\ cpc[c] = "enqueue"
    /\ Len(deleteChan) >= NumTraces
    /\ Goto(c, "evict")
    /\ UNCHANGED <<policies, traceVars, batcherVars, evictVars, received, span, data,
                   victim, tickVars, spc, forwarded>>

\* traceKeyToDrop := <-deleteChan
TakeOldest(c) ==
    /\ cpc[c] = "evict"
    /\ deleteChan # <<>>
    /\ victim' = [victim EXCEPT ![c] = Head(deleteChan)]
    /\ deleteChan' = Tail(deleteChan)
    /\ Goto(c, "drop")
    /\ UNCHANGED <<policies, traceVars, batcherVars, numTracesOnMap, received, span, data,
                   tickVars, spc, forwarded>>

\* Mutant of DropTrace: the trace stays on the map.
DropTraceKeeping(c) ==
    /\ cpc[c] = "drop"
    /\ numTracesOnMap' = numTracesOnMap - 1
    /\ victim' = [victim EXCEPT ![c] = Nil]
    /\ Goto(c, "enqueue")
    /\ UNCHANGED <<policies, traceVars, batcherVars, deleteChan, received,
                   span, data, tickVars, spc, forwarded>>

\* dropTrace, then around the loop again.
DropTrace(c) ==
    /\ cpc[c] = "drop"
    /\ IF idToTrace[victim[c]] # Nil
         THEN /\ idToTrace' = [idToTrace EXCEPT ![victim[c]] = Nil]
              /\ numTracesOnMap' = numTracesOnMap - 1
         ELSE UNCHANGED <<idToTrace, numTracesOnMap>>
    /\ victim' = [victim EXCEPT ![c] = Nil]
    /\ Goto(c, "enqueue")
    /\ UNCHANGED <<policies, batchesOf, finalDecision, batcherVars, deleteChan, received,
                   span, data, tickVars, spc, forwarded>>

Forward(ss) == forwarded' = [s \in Spans |-> forwarded[s] + (IF s \in ss THEN 1 ELSE 0)]

\* Under the trace's lock: keep the span until the decision, or follow it.
AppendOrForward(c) ==
    /\ cpc[c] = "append"
    /\ IF finalDecision[data[c]] = "Unspecified"
         THEN /\ batchesOf' = [batchesOf EXCEPT ![data[c]] = @ \cup {span[c]}]
              /\ UNCHANGED forwarded
         ELSE /\ Forward(IF finalDecision[data[c]] = "Sampled" THEN {span[c]} ELSE {})
              /\ UNCHANGED batchesOf
    /\ Goto(c, "idle")
    /\ span' = [span EXCEPT ![c] = Nil]
    /\ data' = [data EXCEPT ![c] = Nil]
    /\ UNCHANGED <<policies, idToTrace, finalDecision, batcherVars, evictVars, received,
                   victim, tickVars, spc>>

ConsumerStep(c) ==
    \/ LoadStored(c) \/ Store(c) \/ AddToCurrentBatch(c)
    \/ Enqueue(c) \/ Full(c) \/ TakeOldest(c) \/ DropTrace(c) \/ AppendOrForward(c)

-----------------------------------------------------------------------------
(* The batcher's goroutine and samplingPolicyOnTick *)

\* Mutants of Fill: an id is lost, pendingIds is not drained once it is closed.
FillLosing ==
    /\ pendingIds # <<>>
    /\ pendingIds' = Tail(pendingIds)
    /\ UNCHANGED <<policies, traceVars, currentBatch, batches, evictVars, consumerVars, tickVars,
                   spc, forwarded>>

FillUntilClosed ==
    /\ pendingIds # <<>>
    /\ spc = "up"
    /\ currentBatch' = Append(currentBatch, Head(pendingIds))
    /\ pendingIds' = Tail(pendingIds)
    /\ UNCHANGED <<policies, traceVars, batches, evictVars, consumerVars, tickVars, spc, forwarded>>

Fill ==
    /\ pendingIds # <<>>
    /\ currentBatch' = Append(currentBatch, Head(pendingIds))
    /\ pendingIds' = Tail(pendingIds)
    /\ UNCHANGED <<policies, traceVars, batches, evictVars, consumerVars, tickVars, spc, forwarded>>

\* CloseCurrentAndTakeFirstBatch: the oldest batch leaves the pipe ...
TakeFirst ==
    /\ tpc = "wait"
    /\ batches # <<>>
    /\ todo' = Head(batches)
    /\ batches' = Tail(batches)
    /\ tpc' = "close"
    /\ UNCHANGED <<policies, traceVars, pendingIds, currentBatch, evictVars, consumerVars,
                   trace, decision, spc, forwarded>>

\* ... and the current one enters it, unless the batcher is stopped; RLock waits
\* while Stop holds stopLock.
CloseCurrent ==
    /\ tpc = "close"
    /\ spc # "closing"
    /\ IF spc = "up"
         THEN batches' = Append(batches, currentBatch) /\ currentBatch' = <<>>
         ELSE UNCHANGED <<batches, currentBatch>>
    /\ tpc' = "load"
    /\ UNCHANGED <<policies, traceVars, pendingIds, evictVars, consumerVars, todo, trace, decision,
                   spc, forwarded>>

\* The pipe is closed and empty: what is left is the current batch.
TakeLast ==
    /\ tpc = "wait"
    /\ batches = <<>>
    /\ spc \in {"stopped", "down"}
    /\ currentBatch # <<>>
    /\ todo' = currentBatch
    /\ currentBatch' = <<>>
    /\ tpc' = "load"
    /\ UNCHANGED <<policies, traceVars, pendingIds, batches, evictVars, consumerVars,
                   trace, decision, spc, forwarded>>

NextId ==
    /\ todo' = Tail(todo)
    /\ tpc' = "load"

\* The trace was evicted before its turn (idNotFoundOnMapCount).
NotOnMap ==
    /\ tpc = "load"
    /\ todo # <<>>
    /\ idToTrace[Head(todo)] = Nil
    /\ NextId
    /\ UNCHANGED <<policies, traceVars, batcherVars, evictVars, consumerVars, trace, decision, spc,
                   forwarded>>

\* Load the trace and evaluate the policies on the spans it has so far.
Evaluate ==
    /\ tpc = "load"
    /\ todo # <<>>
    /\ idToTrace[Head(todo)] # Nil
    /\ trace' = idToTrace[Head(todo)]
    /\ decision' = MakeDecision(policies, batchesOf[idToTrace[Head(todo)]])
    /\ tpc' = "decide"
    /\ UNCHANGED <<policies, traceVars, batcherVars, evictVars, consumerVars, todo, spc, forwarded>>

\* Under the trace's lock, FinalDecision is set and the spans are copied; then
\* they go to nextConsumer.  ReceivedBatches keeps them.
Decide ==
    /\ tpc = "decide"
    /\ finalDecision' = [finalDecision EXCEPT ![trace] = decision]
    /\ Forward(IF decision = "Sampled" THEN batchesOf[trace] ELSE {})
    /\ NextId
    /\ trace' = Nil
    /\ decision' = Nil
    /\ UNCHANGED <<policies, idToTrace, batchesOf, batcherVars, evictVars, consumerVars, spc>>

EndOfBatch ==
    /\ tpc = "load"
    /\ todo = <<>>
    /\ tpc' = "wait"
    /\ UNCHANGED <<policies, traceVars, batcherVars, evictVars, consumerVars, todo, trace,
                   decision, spc, forwarded>>

\* The ticker goroutine sees StopCh closed; it may tick before it does.
TickerExits ==
    /\ tpc = "wait"
    /\ spc = "down"
    /\ tpc' = "exited"
    /\ UNCHANGED <<policies, traceVars, batcherVars, evictVars, consumerVars, todo, trace,
                   decision, spc, forwarded>>

TickStep ==
    \/ CloseCurrent \/ NotOnMap \/ Evaluate \/ Decide \/ EndOfBatch \/ TickerExits

Tick == TakeFirst \/ TakeLast

-----------------------------------------------------------------------------
(* Shutdown.  The service stops the receivers first: no ConsumeTraces call is *)
(* under way and none follows.                                                *)

\* batcher.Stop closes pendingIds and takes stopLock ...
StopBatcher ==
    /\ spc = "up"
    /\ \A c \in Consumers : cpc[c] = "idle"
    /\ spc' = "closing"
    /\ UNCHANGED <<policies, traceVars, batcherVars, evictVars, consumerVars, tickVars, forwarded>>

\* ... until the goroutine has drained pendingIds; then it closes batches.
BatcherStopped ==
    /\ spc = "closing"
    /\ pendingIds = <<>>
    /\ spc' = "stopped"
    /\ UNCHANGED <<policies, traceVars, batcherVars, evictVars, consumerVars, tickVars, forwarded>>

StopTicker ==
    /\ spc = "stopped"
    /\ spc' = "down"
    /\ UNCHANGED <<policies, traceVars, batcherVars, evictVars, consumerVars, tickVars, forwarded>>

ShutdownStep == BatcherStopped \/ StopTicker

Stopped == tpc = "exited" /\ UNCHANGED vars

Next ==
    \/ \E c \in Consumers : Load(c) \/ ConsumerStep(c)
    \/ Fill \/ Tick \/ TickStep
    \/ StopBatcher \/ ShutdownStep
    \/ Stopped

\* The runtime schedules the goroutines and time.Ticker ticks; that spans
\* arrive, and that the processor is shut down, is up to the environment.
Fairness ==
    /\ \A c \in Consumers : WF_vars(ConsumerStep(c))
    /\ WF_vars(Fill) /\ WF_vars(Tick) /\ WF_vars(TickStep) /\ WF_vars(ShutdownStep)

Spec == Init /\ [][Next]_vars

FairSpec == Spec /\ Fairness

-----------------------------------------------------------------------------
(* Properties.                                                              *)

Count(seq, t) == Cardinality({i \in DOMAIN seq : seq[i] = t})

\* Consumers that have stored trace t and not yet put it into deleteChan.
Storing(t) == {c \in Consumers : cpc[c] \in {"add", "enqueue", "evict", "drop"} /\ Id(c) = t}

\* Consumers that have taken t from deleteChan and not yet dropped it.
Dropping(t) == {c \in Consumers : cpc[c] = "drop" /\ victim[c] = t}

\* deleteChan is the order in which the map is emptied:
\*  - every trace on the map will be evicted in its turn, and once: it is exactly
\*    once in deleteChan, or in the hands of the one consumer that stores or drops
\*    it, and a trace that is not on the map is nowhere; otherwise the map would
\*    leak traces, or dropTrace would meet ids that are not on the table;
\*  - numTracesOnMap counts the traces on the map (it may lag behind a store), and
\*    the map never holds more than NumTraces traces plus those that consumers are
\*    making room for.
EvictionQueueIsTheMap ==
    LET onMap   == {t \in TraceIDs : idToTrace[t] # Nil}
        lagging == {c \in Consumers : cpc[c] = "add"}
        making  == {c \in Consumers : cpc[c] \in {"add", "enqueue", "evict", "drop"}}
        taken   == {c \in Consumers : cpc[c] = "drop"}
    IN  /\ \A t \in TraceIDs :
             Count(deleteChan, t) + Cardinality(Storing(t)) + Cardinality(Dropping(t))
                = IF idToTrace[t] = Nil THEN 0 ELSE 1
        /\ numTracesOnMap + Cardinality(lagging) = Cardinality(onMap)
        /\ Cardinality(onMap) <= NumTraces + Cardinality(making) + Cardinality(taken)

\* More traces than there is room for: one was or will be evicted, and may come
\* back as a new trace.
Overloaded == Cardinality({TraceOf[s] : s \in received}) > NumTraces

\* While there is room for every trace, what is forwarded is what was decided:
\* no span reaches the next consumer twice, through the decision and as a late
\* arrival, or with two batches, and no span of a trace that is on the map with
\* the decision NotSampled was forwarded, before or after the decision.
ForwardedAsDecided ==
    ~Overloaded =>
      /\ \A s \in Spans : forwarded[s] <= 1
      /\ \A t \in TraceIDs :
           (idToTrace[t] # Nil /\ finalDecision[idToTrace[t]] = "NotSampled")
              => \A s \in Spans : TraceOf[s] = t => forwarded[s] = 0

\* While there is room and the processor runs, every span that was received
\* is forwarded or belongs to a trace that is decided to be NotSampled.
EverySpanIsDecided ==
    \A s \in Spans :
        (s \in received) ~>
            (forwarded[s] > 0 \/ spc # "up" \/ Overloaded
               \/ \E o \in Spans : TraceOf[o] = TraceOf[s] /\ finalDecision[o] = "NotSampled")

\* Shutdown ends: the batcher's goroutine drains pendingIds while Stop waits.
ShutdownEnds == (spc = "closing") ~> (tpc = "exited")

\* Documented (README.md): policies are evaluated in order of priority and only
\* a trace that no policy matches is sampled by default.  So what a tick decides
\* is what the configured policies, sorted by priority, say of the trace.
ConfiguredPoliciesDecide ==
    [][(tpc = "load" /\ tpc' = "decide")
         => decision' = MakeDecision(SortSeq(PolicyCfgs, LAMBDA a, b : a.priority < b.priority),
                                     batchesOf[trace'])]_vars
=============================================================================

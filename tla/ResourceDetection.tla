-------------------------- MODULE ResourceDetection -------------------------
(***************************************************************************)
(* resourcedetectionprocessor.  The processors of one id, one per signal,  *)
(* share a provider.  Start of each has every detector run in a goroutine, *)
(* which retries until the context is done, merges the results in the      *)
(* configured order and stores them as a snapshot; the first Start that    *)
(* succeeds also starts a goroutine that does the same at every tick.      *)
(* Batches take whatever snapshot there is.                                *)
(*                                                                         *)
(* Two refreshes may overlap, the ticker's and that of a later Start.  The *)
(* collector (external) starts the processors one after the other, stops   *)
(* when one fails, and shuts them down one after the other.                *)
(***************************************************************************)
EXTENDS Integers, Sequences

CONSTANTS
  Procs,            \* number of processors that share the provider
  Detectors,        \* cfg.Detectors: sequence of "env" and "system"
  HostnameSources,  \* cfg.System.HostnameSources
  Enabled,          \* attributes that are enabled beyond host.name and os
  EnvLabels,        \* what the environment variable holds, or Malformed
  Malformed,
  Failures,         \* the sets of system calls that may fail, or "no cpu", in one detection
  Override,         \* cfg.Override
  Batch             \* the resource of a batch before it is processed

ASSUME DetectionAssumption == Detectors \in Seq({"env", "system"})

Failed  == [ok |-> FALSE, attrs |-> << >>, url |-> ""]
Success(attrs, url) == [ok |-> TRUE, attrs |-> attrs, url |-> url]
Absent  == [at |-> "none"]

VARIABLES
  phase,            \* the collector: what it does, with which processor, and whether all have started
  refresh,          \* ["start", "loop" -> a call of refresh]
  detectedResource, \* the snapshot, or Absent
  refresher,        \* the goroutine of startRefreshing
  stopping,         \* cancel has been called and stopCh is closed
  processed         \* [processor -> the last batch it has processed, or Absent]

detVars == <<phase, refresh, detectedResource, refresher, stopping, processed>>

-----------------------------------------------------------------------------
(* Detectors                                                               *)

\* The first source that works names the host; cname and lookup ask the system first.
DetectHostname(failing) ==
  SelectSeq(HostnameSources, LAMBDA s : s \notin failing /\ (s \in {"cname", "lookup"} => "os" \notin failing))

\* A call that fails fails the detection, but for that of the host id; the list of cpus may be empty.
SystemDetect(failing) ==
  LET found    == DetectHostname(failing)
      required == {"info"} \cup (Enabled \ {"host.id"})
      missing  == ({"host.id"} \cap failing) \cup (IF "no cpu" \in failing THEN {"cpu"} ELSE {})
      keys     == {"host.name", "os"} \cup (Enabled \ missing)
  IN IF found = <<>> \/ required \cap failing # {} THEN Failed
     ELSE Success([k \in keys |-> IF k = "host.name" THEN found[1] ELSE "system"], "semconv")

EnvDetect == IF EnvLabels = Malformed THEN Failed ELSE Success(EnvLabels, "")

Detect(d, failing) == IF d = "env" THEN EnvDetect ELSE SystemDetect(failing)

-----------------------------------------------------------------------------
(* Merging                                                                 *)

MergeSchemaURL(current, next) == IF current = "" THEN next ELSE current
Over(f, g) == [k \in DOMAIN f \cup DOMAIN g |-> IF k \in DOMAIN f THEN f[k] ELSE g[k]]
MergeResource(to, from, override) == IF override THEN Over(from, to) ELSE Over(to, from)

\* The results in configured order; the error of one does not hide what others found.
Merged(results) ==
  LET merge[n \in 0..Len(results)] ==
        IF n = 0 THEN Failed
        ELSE IF ~results[n].ok THEN merge[n - 1]
        ELSE Success(MergeResource(merge[n - 1].attrs, results[n].attrs, FALSE),
                     MergeSchemaURL(merge[n - 1].url, results[n].url))
  IN [merge[Len(results)] EXCEPT !.ok = @ /\ \A i \in DOMAIN results : results[i].ok]

-----------------------------------------------------------------------------

Idle == [at |-> "idle"]
Pending == [at |-> "pending"]
Retrying == [at |-> "retry"]

DetInit ==
  /\ phase = [at |-> "start", proc |-> 1, ran |-> FALSE]
  /\ refresh = [r \in {"start", "loop"} |-> Idle]
  /\ detectedResource = Absent
  /\ refresher = "off"
  /\ stopping = FALSE
  /\ processed = [p \in 1..Procs |-> Absent]

Begin(r) ==
  refresh' = [refresh EXCEPT ![r] = [at |-> "detect", done |-> FALSE, results |-> [i \in DOMAIN Detectors |-> Pending]]]

Start ==
  /\ phase.at = "start" /\ refresh["start"] = Idle
  /\ Begin("start")
  /\ UNCHANGED <<phase, detectedResource, refresher, stopping, processed>>

\* detectWithRetry
Attempt(r, i) ==
  /\ refresh[r].at = "detect" /\ refresh[r].results[i] = Pending
  /\ \E failing \in Failures :
       LET result == Detect(Detectors[i], failing)
       IN refresh' = [refresh EXCEPT ![r].results[i] = IF result.ok THEN result ELSE Retrying]
  /\ UNCHANGED <<phase, detectedResource, refresher, stopping, processed>>

RetryTimer(r, i) ==
  /\ refresh[r].at = "detect" /\ refresh[r].results[i] = Retrying
  /\ refresh' = [refresh EXCEPT ![r].results[i] = Pending]
  /\ UNCHANGED <<phase, detectedResource, refresher, stopping, processed>>

ContextDone(r) == refresh[r].done \/ (r = "loop" /\ stopping)

GiveUp(r, i) ==
  /\ refresh[r].at = "detect" /\ refresh[r].results[i] = Retrying
  /\ ContextDone(r)
  /\ refresh' = [refresh EXCEPT ![r].results[i] = Failed]
  /\ UNCHANGED <<phase, detectedResource, refresher, stopping, processed>>

Timeout(r) ==
  /\ refresh[r].at = "detect" /\ ~refresh[r].done
  /\ refresh' = [refresh EXCEPT ![r].done = TRUE]
  /\ UNCHANGED <<phase, detectedResource, refresher, stopping, processed>>

\* The previous snapshot is loaded when all results are there, and looked at later.
LoadPrevious(r) ==
  /\ refresh[r].at = "detect"
  /\ \A i \in DOMAIN Detectors : refresh[r].results[i] \notin {Pending, Retrying}
  /\ refresh' = [refresh EXCEPT ![r] = [at |-> "loaded", result |-> Merged(@.results), previous |-> detectedResource]]
  /\ UNCHANGED <<phase, detectedResource, refresher, stopping, processed>>

IsGood(snapshot) == snapshot # Absent /\ snapshot.ok /\ DOMAIN snapshot.attrs # {}

\* Mutant: whatever was found is the new snapshot.
KeepsNever(c) == FALSE

KeepsPrevious(c) == IsGood(c.previous) /\ ~c.result.ok

StoreResult(r) ==
  /\ refresh[r].at = "loaded"
  /\ LET c == refresh[r]
     IN /\ detectedResource' = IF KeepsPrevious(c) THEN detectedResource ELSE c.result
        /\ refresh' = [refresh EXCEPT ![r] = [at |-> "returned", ok |-> c.result.ok \/ KeepsPrevious(c)]]
  /\ UNCHANGED <<phase, refresher, stopping, processed>>

\* Start returns; the collector goes on with the next processor or shuts down.
StartReturns ==
  /\ refresh["start"].at = "returned"
  /\ refresh' = [refresh EXCEPT !["start"] = Idle]
  /\ refresher' = IF refresh["start"].ok /\ refresher = "off" THEN "wait" ELSE refresher
  /\ phase' = IF ~refresh["start"].ok THEN [at |-> "stop", proc |-> 1, ran |-> FALSE]
              ELSE IF phase.proc = Procs THEN [at |-> "run", proc |-> Procs, ran |-> TRUE] ELSE [phase EXCEPT !.proc = @ + 1]
  /\ UNCHANGED <<detectedResource, stopping, processed>>

-----------------------------------------------------------------------------
(* The ticker's goroutine.  select may take a tick after stopCh is closed. *)

LoopTick ==
  /\ refresher = "wait"
  /\ refresher' = "refresh"
  /\ Begin("loop")
  /\ UNCHANGED <<phase, detectedResource, stopping, processed>>

LoopRefreshed ==
  /\ refresh["loop"].at = "returned"
  /\ refresh' = [refresh EXCEPT !["loop"] = Idle]
  /\ refresher' = "wait"
  /\ UNCHANGED <<phase, detectedResource, stopping, processed>>

LoopEnds ==
  /\ refresher = "wait" /\ stopping
  /\ refresher' = "ended"
  /\ UNCHANGED <<phase, refresh, detectedResource, stopping, processed>>

-----------------------------------------------------------------------------

\* The collector decides to stop.
Interrupt ==
  /\ phase.at = "run"
  /\ phase' = [phase EXCEPT !.at = "stop", !.proc = 1]
  /\ UNCHANGED <<refresh, detectedResource, refresher, stopping, processed>>

\* Mutant: stopCh is not closed and the context not cancelled when a refresh is on.
StopRefreshingWhenIdle ==
  /\ phase.at = "stop" /\ phase.proc = 1 /\ ~stopping
  /\ stopping' = (refresher # "refresh")
  /\ phase' = [phase EXCEPT !.at = "wait"]
  /\ UNCHANGED <<refresh, detectedResource, refresher, processed>>

\* stopOnce: the first Shutdown cancels and closes stopCh.
StopRefreshing ==
  /\ phase.at = "stop" /\ phase.proc = 1 /\ ~stopping
  /\ stopping' = TRUE
  /\ phase' = [phase EXCEPT !.at = "wait"]
  /\ UNCHANGED <<refresh, detectedResource, refresher, processed>>

LoopGone == refresher \in {"off", "ended"}

\* Shutdown of a processor returns; those after the first find that stopOnce is done.
ShutdownReturns ==
  /\ \/ phase.at = "wait" /\ LoopGone
     \/ phase.at = "stop" /\ phase.proc > 1
  /\ phase' = IF phase.proc = Procs THEN [phase EXCEPT !.at = "stopped"]
              ELSE [phase EXCEPT !.at = "stop", !.proc = @ + 1]
  /\ UNCHANGED <<refresh, detectedResource, refresher, stopping, processed>>

\* processTraces, processMetrics, processLogs and processProfiles.  A processor gets
\* batches once all have started, and until its own Shutdown has returned.
ProcessBatch(p) ==
  /\ phase.ran /\ phase.at # "stopped"
  /\ phase.at = "run" \/ p >= phase.proc
  /\ processed' = [processed EXCEPT ![p] =
       IF detectedResource = Absent THEN Success(Batch, "")
       ELSE Success(MergeResource(Batch, detectedResource.attrs, Override), MergeSchemaURL("", detectedResource.url))]
  /\ UNCHANGED <<phase, refresh, detectedResource, refresher, stopping>>

DetNext ==
  \/ Start \/ StartReturns \/ LoopTick \/ LoopRefreshed \/ LoopEnds
  \/ Interrupt \/ StopRefreshing \/ ShutdownReturns
  \/ \E r \in {"start", "loop"} :
       \/ Timeout(r) \/ LoadPrevious(r) \/ StoreResult(r)
       \/ \E i \in DOMAIN Detectors : Attempt(r, i) \/ RetryTimer(r, i) \/ GiveUp(r, i)
  \/ \E p \in 1..Procs : ProcessBatch(p)

DetFairness ==
  /\ WF_detVars(Start) /\ WF_detVars(StartReturns) /\ WF_detVars(LoopRefreshed)
  /\ WF_detVars(StopRefreshing) /\ WF_detVars(ShutdownReturns) /\ SF_detVars(LoopEnds)
  /\ \A r \in {"start", "loop"} :
       /\ WF_detVars(Timeout(r)) /\ WF_detVars(LoadPrevious(r)) /\ WF_detVars(StoreResult(r))
       /\ \A i \in DOMAIN Detectors : WF_detVars(Attempt(r, i)) /\ SF_detVars(GiveUp(r, i))

DetSpec == DetInit /\ [][DetNext]_detVars /\ DetFairness

-----------------------------------------------------------------------------

\* What detector number i can find.
Found(i) == {x \in {Detect(Detectors[i], f) : f \in Failures} : x.ok}

\* The attributes that detector number i always finds, and the names some detector always finds.
Gives(i, k) == \A x \in Found(i) : k \in DOMAIN x.attrs
Names == UNION {DOMAIN x.attrs : x \in UNION {Found(i) : i \in DOMAIN Detectors}}
Given == {k \in Names : \E i \in DOMAIN Detectors : Gives(i, k)}

\* v is what a detector finds as k, and no detector configured before it always finds k.
FirstFound(k, v) ==
  \E i \in DOMAIN Detectors :
    /\ \E x \in Found(i) : k \in DOMAIN x.attrs /\ v = x.attrs[k]
    /\ \A j \in 1..(i - 1) : ~Gives(j, k)

\* Once the processors have started, refreshes may overlap, fail half way or be cut off by
\* Shutdown (provider.go:71-83, 148-185): every batch still gets what some detector always
\* finds, and gets it from no detector behind the first that always finds it, whichever was
\* the last to answer.
EveryBatchIsComplete ==
  \A p \in 1..Procs : processed[p] # Absent =>
    LET attrs == processed[p].attrs
    IN \A k \in Given :
         /\ k \in DOMAIN attrs
         /\ IF k \in DOMAIN Batch /\ ~Override THEN attrs[k] = Batch[k] ELSE FirstFound(k, attrs[k])

\* Start and Shutdown return, even if a detector never succeeds.
StartAndShutdownEnd ==
  /\ phase.at = "start" ~> phase.at # "start"
  /\ phase.at = "stop" ~> phase.at = "stopped"
=============================================================================

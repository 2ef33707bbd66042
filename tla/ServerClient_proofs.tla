------------------------ MODULE ServerClient_proofs ------------------------
(***************************************************************************)
(* Proofs about the process: WrappedCollector, for any number of callers,  *)
(* instances and configurations, and ServerClient, for any set of remote   *)
(* configurations and any number of failing file operations.               *)
(*                                                                         *)
(* TypeOK of the wrapper is not inductive alone: RunReturn reads           *)
(* colErr[svc], which has a type only if svc is not nil.  That svc stays   *)
(* put while a caller waits in Run holds because the caller holds mux      *)
(* (MuxHolder), so the inductive invariant CollInv conjoins the three.     *)
(*                                                                         *)
(* The process is shown to use the wrapper only as CollSpec allows, so     *)
(* that what holds of the wrapper holds in it.  What the file contains     *)
(* while a configuration is applied is then followed through reload and    *)
(* Apply (FileInv), and what the collector has loaded through Restart      *)
(* (LoadedInv).                                                            *)
(***************************************************************************)
EXTENDS ServerClient, TLAPS

-----------------------------------------------------------------------------
(* The wrapped collector, for any number of callers, instances and         *)
(* configurations, however its methods are called.                         *)

\* A caller inside Run or inside wg.Wait works on a collector.
WaitersHaveSvc ==
    \A p \in Callers : pc[p] \in {"RunWait", "ShutdownWait"} => svc \in Instances

\* Only an instance that has read a configuration is, was, or is about to be
\* reported as running.
NilMeansLoaded ==
    \A i \in Instances :
        /\ state[i] \in {"Running", "Closing"} => loaded[i] # Nil
        /\ poller[i] = "send" => loaded[i] # Nil
        /\ colErr[i] = "nil" => loaded[i] # Nil
        /\ goRun[i] \in {"report", "send"} /\ exitErr[i] = "nil" => loaded[i] # Nil

CollInv == TypeOK /\ MuxHolder /\ WaitersHaveSvc

\* The initial states satisfy every invariant of this module.
LEMMA InitInv == CollInit => CollInv /\ NoOrphanCollector /\ NilMeansLoaded
<1> SUFFICES ASSUME CollInit PROVE CollInv /\ NoOrphanCollector /\ NilMeansLoaded
  OBVIOUS
<1> USE CollectorAssumption DEF CollInit
<1>1. TypeOK
  BY DEF TypeOK, Error, Chan, State, Ops
<1>2. MuxHolder /\ WaitersHaveSvc
  BY DEF MuxHolder, WaitersHaveSvc
<1>3. NoOrphanCollector /\ NilMeansLoaded
  BY DEF NoOrphanCollector, NilMeansLoaded
<1>4. QED
  BY <1>1, <1>2, <1>3 DEF CollInv

\* Every step preserves the type invariant.
LEMMA TypeStep == CollInv /\ [CollNext]_collVars => TypeOK'
<1> SUFFICES ASSUME CollInv, [CollNext]_collVars PROVE TypeOK'
  OBVIOUS
<1> USE CollectorAssumption DEF CollInv, TypeOK, Error, Chan, State, Ops, fileVars, instVars, callVars
<1>1. ASSUME NEW p \in Callers, NEW op \in Ops, NEW r \in BOOLEAN, Call(p, op, r)
      PROVE TypeOK'
  BY <1>1 DEF Call
<1>2. CASE ReceiveError \/ Cancel \/ EditFile
  <2>1. CASE ReceiveError
    BY <2>1 DEF ReceiveError
  <2>2. CASE Cancel
    <3>1. ctxDone' \in BOOLEAN
      BY <2>2 DEF Cancel
    <3>2. QED
      BY <2>2, <3>1 DEF Cancel
  <2>3. CASE EditFile
    BY <2>3 DEF EditFile
  <2>4. QED
    BY <1>2, <2>1, <2>2, <2>3
<1>3. ASSUME NEW p \in Callers, CallerStep(p) PROVE TypeOK'
  <2>1. CASE RunRefused(p)
    BY <2>1 DEF RunRefused, Return
  <2>2. CASE RunLaunch(p)
    BY <2>2 DEF RunLaunch
  <2>3. CASE RunReturn(p)
    BY <2>3 DEF RunReturn, Return, WaitersHaveSvc
  <2>4. CASE ShutdownBegin(p)
    BY <2>4 DEF ShutdownBegin, RequestStop
  <2>5. CASE ShutdownEnd(p) \/ ShutdownSent(p)
    BY <2>5 DEF ShutdownEnd, ShutdownSent, AfterShutdown
  <2>6. CASE ShutdownNoCollector(p)
    BY <2>6 DEF ShutdownNoCollector
  <2>7. CASE GetState(p)
    BY <2>7 DEF GetState, Return
  <2>8. QED
    BY <1>3, <2>1, <2>2, <2>3, <2>4, <2>5, <2>6, <2>7 DEF CallerStep
<1>4. ASSUME NEW i \in Instances, GoStep(i) \/ SvcStartStep(i) \/ SvcAsyncError(i)
      PROVE TypeOK'
  <2>1. CASE SvcStarted(i)
    BY <2>1 DEF SvcStarted
  <2>2. CASE SvcStartFailed(i) \/ SvcClosed(i)
    BY <2>2 DEF SvcStartFailed, SvcClosed, SvcExits
  <2>3. CASE SvcStop(i) \/ SvcAsyncError(i)
    BY <2>3 DEF SvcStop, SvcAsyncError, SvcClosing
  <2>4. CASE ReportError(i) \/ SendColErr(i)
    BY <2>4 DEF ReportError, SendColErr
  <2>5. CASE PollRunning(i) \/ PollSend(i) \/ PollCancelled(i)
    BY <2>5 DEF PollRunning, PollSend, PollCancelled, RequestStop
  <2>6. QED
    BY <1>4, <2>1, <2>2, <2>3, <2>4, <2>5 DEF GoStep, SvcStartStep
<1>5. CASE UNCHANGED collVars
  BY <1>5 DEF collVars
<1>6. QED
  <2>1. ASSUME NEW p \in Callers, CallRun(p) \/ CallShutdown(p) \/ CallRestart(p) \/ CallGetState(p)
        PROVE \E op \in Ops, r \in BOOLEAN : Call(p, op, r)
    BY <2>1 DEF CallRun, CallShutdown, CallRestart, CallGetState
  <2>2. QED
    BY <1>1, <1>2, <1>3, <1>4, <1>5, <2>1 DEF CollNext, Environment, CollStep

\* Steps outside the wrapper's own operations leave mux, svc and the callers'
\* positions inside it alone.
LEMMA OutsideSteps ==
  ASSUME NEW i \in Instances, GoStep(i) \/ SvcStartStep(i) \/ SvcAsyncError(i)
  PROVE  UNCHANGED <<mux, svc, pc>>
BY DEF GoStep, SvcStartStep, SvcStarted, SvcStartFailed, SvcClosed, SvcExits, SvcStop,
       SvcAsyncError, SvcClosing, ReportError, SendColErr, PollRunning, PollSend,
       PollCancelled, callVars

\* Every step preserves mutual exclusion and the waiters' collector.
LEMMA MuxStep == CollInv /\ [CollNext]_collVars => MuxHolder' /\ WaitersHaveSvc'
<1> SUFFICES ASSUME CollInv, [CollNext]_collVars PROVE MuxHolder' /\ WaitersHaveSvc'
  OBVIOUS
<1> USE CollectorAssumption DEF CollInv, TypeOK, MuxHolder, WaitersHaveSvc, fileVars, instVars, callVars
<1>1. ASSUME NEW p \in Callers, CallRun(p) \/ CallShutdown(p) \/ CallRestart(p) \/ CallGetState(p)
      PROVE MuxHolder' /\ WaitersHaveSvc'
  BY <1>1 DEF CallRun, CallShutdown, CallRestart, CallGetState, Call
<1>2. CASE ReceiveError \/ Cancel \/ EditFile
  BY <1>2 DEF ReceiveError, Cancel, EditFile
<1>3. ASSUME NEW p \in Callers, CallerStep(p) PROVE MuxHolder' /\ WaitersHaveSvc'
  <2>1. CASE RunRefused(p)
    BY <2>1 DEF RunRefused, Return
  <2>2. CASE RunLaunch(p)
    BY <2>2 DEF RunLaunch
  <2>3. CASE RunReturn(p)
    BY <2>3 DEF RunReturn, Return
  <2>4. CASE ShutdownBegin(p)
    BY <2>4 DEF ShutdownBegin
  <2>5. CASE ShutdownEnd(p) \/ ShutdownSent(p)
    BY <2>5 DEF ShutdownEnd, ShutdownSent, AfterShutdown
  <2>6. CASE ShutdownNoCollector(p)
    BY <2>6 DEF ShutdownNoCollector
  <2>7. CASE GetState(p)
    BY <2>7 DEF GetState, Return
  <2>8. QED
    BY <1>3, <2>1, <2>2, <2>3, <2>4, <2>5, <2>6, <2>7 DEF CallerStep
<1>4. ASSUME NEW i \in Instances, GoStep(i) \/ SvcStartStep(i) \/ SvcAsyncError(i)
      PROVE MuxHolder' /\ WaitersHaveSvc'
  BY <1>4, OutsideSteps
<1>5. CASE UNCHANGED collVars
  BY <1>5 DEF collVars
<1>6. QED
  BY <1>1, <1>2, <1>3, <1>4, <1>5 DEF CollNext, Environment, CollStep

\* CollInv is an invariant of the wrapper under any use of it.
THEOREM CollectorInvariant == CollSpec => []CollInv
<1>1. CollInv /\ [CollNext]_collVars => CollInv'
  BY TypeStep, MuxStep DEF CollInv
<1>2. QED
  BY InitInv, <1>1, PTL DEF CollSpec

\* The types of all variables of the wrapper, for every value of the constants.
THEOREM CollectorTypes == CollSpec => []TypeOK
BY CollectorInvariant, PTL DEF CollInv

\* mux is held by the caller inside Run or Shutdown, and only by it: the
\* operations of the wrapper exclude each other.
THEOREM CollectorMutex == CollSpec => []MuxHolder
BY CollectorInvariant, PTL DEF CollInv

\* A step that is not the launch of a collector starts no svc.Run goroutine.
LEMMA OrphanStep == CollInv /\ NoOrphanCollector /\ [CollNext]_collVars => NoOrphanCollector'
<1> SUFFICES ASSUME CollInv, NoOrphanCollector, [CollNext]_collVars PROVE NoOrphanCollector'
  OBVIOUS
<1> USE CollectorAssumption DEF CollInv, TypeOK, NoOrphanCollector, fileVars, instVars, callVars
<1>1. ASSUME NEW p \in Callers, CallRun(p) \/ CallShutdown(p) \/ CallRestart(p) \/ CallGetState(p)
      PROVE NoOrphanCollector'
  BY <1>1 DEF CallRun, CallShutdown, CallRestart, CallGetState, Call
<1>2. CASE ReceiveError \/ Cancel \/ EditFile
  BY <1>2 DEF ReceiveError, Cancel, EditFile
<1>3. ASSUME NEW p \in Callers, CallerStep(p) PROVE NoOrphanCollector'
  <2>1. CASE RunRefused(p) \/ RunReturn(p) \/ GetState(p) \/ ShutdownNoCollector(p)
    BY <2>1 DEF RunRefused, RunReturn, GetState, ShutdownNoCollector
  <2>2. CASE RunLaunch(p)
    \* svc was nil, so no goroutine was left; now there is the one of svc.
    BY <2>2 DEF RunLaunch
  <2>3. CASE ShutdownBegin(p) \/ ShutdownSent(p)
    BY <2>3 DEF ShutdownBegin, ShutdownSent, AfterShutdown
  <2>4. CASE ShutdownEnd(p)
    \* wg.Wait returned: no goroutine is left when svc becomes nil.
    BY <2>4 DEF ShutdownEnd, AfterShutdown, WgZero
  <2>5. QED
    BY <1>3, <2>1, <2>2, <2>3, <2>4 DEF CallerStep
<1>4. ASSUME NEW i \in Instances, GoStep(i) \/ SvcStartStep(i) \/ SvcAsyncError(i)
      PROVE NoOrphanCollector'
  <2>1. goRun[i] # "done" \/ goRun' = goRun
    BY <1>4 DEF GoStep, SvcStartStep, SvcStarted, SvcStartFailed, SvcClosed, SvcStop,
       SvcAsyncError, SvcClosing, ReportError, SendColErr, PollRunning, PollSend, PollCancelled
  <2>2. \A j \in Instances : j # i => goRun'[j] = goRun[j]
    BY <1>4 DEF GoStep, SvcStartStep, SvcStarted, SvcStartFailed, SvcClosed, SvcExits, SvcStop,
       SvcAsyncError, SvcClosing, ReportError, SendColErr, PollRunning, PollSend, PollCancelled
  <2>3. QED
    BY <1>4, <2>1, <2>2, OutsideSteps
<1>5. CASE UNCHANGED collVars
  BY <1>5 DEF collVars
<1>6. QED
  BY <1>1, <1>2, <1>3, <1>4, <1>5 DEF CollNext, Environment, CollStep

\* Whatever the callers do, at most the collector wCol.svc points to has a
\* running svc.Run: Restart never overlaps two collectors.
THEOREM NoTwoCollectors == CollSpec => []NoOrphanCollector
BY InitInv, CollectorInvariant, OrphanStep, PTL DEF CollSpec

\* Every step preserves that success is only reported for a loaded collector.
LEMMA LoadedStep == CollInv /\ NilMeansLoaded /\ [CollNext]_collVars => NilMeansLoaded'
<1> SUFFICES ASSUME CollInv, NilMeansLoaded, [CollNext]_collVars PROVE NilMeansLoaded'
  OBVIOUS
<1> USE CollectorAssumption DEF CollInv, TypeOK, NilMeansLoaded, fileVars, instVars, callVars
<1>1. ASSUME NEW p \in Callers, CallRun(p) \/ CallShutdown(p) \/ CallRestart(p) \/ CallGetState(p)
      PROVE NilMeansLoaded'
  BY <1>1 DEF CallRun, CallShutdown, CallRestart, CallGetState, Call
<1>2. CASE ReceiveError \/ Cancel \/ EditFile
  BY <1>2 DEF ReceiveError, Cancel, EditFile
<1>3. ASSUME NEW p \in Callers, CallerStep(p) PROVE NilMeansLoaded'
  <2>1. CASE RunRefused(p) \/ GetState(p) \/ ShutdownNoCollector(p)
    BY <2>1 DEF RunRefused, GetState, ShutdownNoCollector
  <2>2. CASE RunLaunch(p)
    BY <2>2 DEF RunLaunch
  <2>3. CASE RunReturn(p)
    BY <2>3 DEF RunReturn, WaitersHaveSvc
  <2>4. CASE ShutdownBegin(p)
    BY <2>4 DEF ShutdownBegin
  <2>5. CASE ShutdownEnd(p) \/ ShutdownSent(p)
    BY <2>5 DEF ShutdownEnd, ShutdownSent, AfterShutdown
  <2>6. QED
    BY <1>3, <2>1, <2>2, <2>3, <2>4, <2>5 DEF CallerStep
<1>4. ASSUME NEW i \in Instances, GoStep(i) \/ SvcStartStep(i) \/ SvcAsyncError(i)
      PROVE NilMeansLoaded'
  <2>1. CASE SvcStarted(i)
    BY <2>1 DEF SvcStarted
  <2>2. CASE SvcStartFailed(i) \/ SvcClosed(i)
    BY <2>2 DEF SvcStartFailed, SvcClosed, SvcExits
  <2>3. CASE SvcStop(i) \/ SvcAsyncError(i)
    BY <2>3 DEF SvcStop, SvcAsyncError, SvcClosing
  <2>4. CASE ReportError(i) \/ SendColErr(i)
    BY <2>4 DEF ReportError, SendColErr
  <2>5. CASE PollRunning(i) \/ PollSend(i) \/ PollCancelled(i)
    BY <2>5 DEF PollRunning, PollSend, PollCancelled
  <2>6. QED
    BY <1>4, <2>1, <2>2, <2>3, <2>4, <2>5 DEF GoStep, SvcStartStep
<1>5. CASE UNCHANGED collVars
  BY <1>5 DEF collVars
<1>6. QED
  BY <1>1, <1>2, <1>3, <1>4, <1>5 DEF CollNext, Environment, CollStep

\* Run returns nil only for a collector that has been Running with a
\* configuration it loaded.
THEOREM RunNilIsTrue == CollSpec => RunNilMeansStarted
<1>1. CollInv /\ NilMeansLoaded /\ [CollNext]_collVars
        => [\A p \in Callers :
              (pc[p] = "RunWait" /\ pc'[p] = "idle" /\ res'[p] = "nil")
                 => loaded[svc] # Nil]_collVars
  <2> SUFFICES ASSUME CollInv, NilMeansLoaded, CollNext,
                      NEW p \in Callers, pc[p] = "RunWait", pc'[p] = "idle", res'[p] = "nil"
               PROVE  loaded[svc] # Nil
    OBVIOUS
  <2>1. svc \in Instances
    BY DEF CollInv, WaitersHaveSvc
  <2>2. RunReturn(p)
    <3> USE DEF CollInv, TypeOK, callVars
    <3>1. ASSUME Environment PROVE FALSE
      BY <3>1 DEF Environment, CallRun, CallShutdown, CallRestart, CallGetState, Call,
         ReceiveError, Cancel, EditFile
    <3>2. ASSUME CollStep PROVE FALSE
      BY <3>2, OutsideSteps DEF CollStep
    <3>3. ASSUME NEW q \in Callers, CallerStep(q) PROVE q = p /\ RunReturn(p)
      BY <3>3 DEF CallerStep, RunRefused, RunLaunch, RunReturn, Return, ShutdownBegin,
         ShutdownEnd, ShutdownSent, AfterShutdown, ShutdownNoCollector, GetState
    <3>4. QED
      BY <3>1, <3>2, <3>3 DEF CollNext
  <2>3. colErr[svc] = "nil"
    BY <2>2 DEF RunReturn, Return, CollInv, TypeOK
  <2>4. QED
    BY <2>1, <2>3 DEF NilMeansLoaded
<1>2. CollInv /\ NilMeansLoaded /\ [CollNext]_collVars => NilMeansLoaded'
  BY LoadedStep
<1>3. QED
  BY InitInv, CollectorInvariant, <1>1, <1>2, PTL DEF CollSpec, RunNilMeansStarted

-----------------------------------------------------------------------------
(* The process under OpAMP.                                                *)

\* From the backup on there is something to roll back to.
RollbackSaved ==
    \A p \in Reloaders :
        rpc[p] \notin {"none", "lock", "backup", "done"} => rollback \in Configs

ServerInv == ServerTypeOK /\ RollbackSaved /\ CollInv

\* A reload is in progress exactly when somebody waits for it, and the server's first
\* message comes after Start.
ControlInv ==
    /\ rpc[Main] # "none" <=> mpc = "reload"
    /\ rpc[Callback] # "none" <=> cpc = "reload"
    /\ mpc \in {"start", "nop", "reload"} => cpc = "idle"
    /\ opamp = "on" => mpc # "start"

\* From the write on, the file has the configuration of the message until reload rolls
\* it back; nobody else writes.
AppliedInv ==
    /\ cpc = "reload" =>
         /\ rarg[Callback] = msg
         /\ rpc[Callback] \in {"restart", "started"} => file = msg
         /\ rpc[Callback] = "done" /\ rerr[Callback] = "nil" => file = msg
    /\ cpc = "hash" => file = msg
    /\ AppliedIsInFile

\* The configuration the server was last told is applied, or the nop one.
Expected == IF acked = Nil THEN Noop ELSE acked

\* While Start reloads the nop configuration the server knows of nothing.
StartInv ==
    mpc \in {"start", "nop", "reload"} =>
        /\ acked = Nil /\ ~initialConfigReceived
        /\ mpc = "reload" =>
             /\ rarg[Main] = Noop
             /\ rpc[Main] \in {"restart", "started"} => file = Noop
             /\ rpc[Main] = "done" /\ rerr[Main] = "nil" => file = Noop

\* While main serves, a reload leaves the expected file, keeps it as the rollback, and
\* puts it back when the new configuration is refused.
ReloadInv ==
    /\ rpc[Callback] \in {"lock", "backup", "write", "restartOld", "rolledBack"} => file = Expected
    /\ rpc[Callback] \in {"write", "restart", "started", "rollback", "restartOld", "rolledBack"}
         => rollback = Expected
    /\ rpc[Callback] = "done" /\ rerr[Callback] = "err" => file = Expected

\* What Apply has decided and what the server is told of it.
AnswerInv ==
    /\ cpc \in {"idle", "apply"} => file = Expected
    /\ cpc = "status" =>
         /\ changed => applyErr = "nil"
         /\ ~changed => file = Expected
         /\ ~changed /\ applyErr = "nil" /\ msg # NoConfig => acked = msg
    /\ cpc = "effective" => file = Expected /\ acked # Nil
    /\ ~(cpc = "status" /\ changed) /\ initialConfigReceived
         => currentHash = Expected /\ acked # Nil
    /\ runningNopConfig => acked = Nil \/ cpc = "effective"

FileInv ==
    ioFailures = 0 => /\ StartInv
                      /\ mpc = "serve" => ReloadInv /\ AnswerInv

\* Nobody is about to replace a collector of the previous file.
Settled ==
    \A p \in Reloaders :
        /\ rpc[p] \notin {"restart", "restartOld"}
        /\ rpc[p] \in {"started", "rolledBack"}
             => pc[p] \notin {"Shutdown", "ShutdownWait", "ShutdownSend"}

\* A collector has loaded what the file contains, unless it is about to be replaced.
LoadedInv ==
    /\ \A p \in Callers : pc[p] = "ShutdownSend" => svc = Nil
    /\ ioFailures = 0 /\ Settled /\ svc # Nil => loaded[svc] \in {Nil, file}

-----------------------------------------------------------------------------
(* The wrapper in the process                                              *)

\* A step of reload is a call of Restart, a change of the file, or nothing, for the
\* wrapper.
LEMMA ReloadUses ==
  ASSUME ServerInv, NEW p \in Reloaders,
         \/ ReloadStep(p)
         \/ ReloadBackupFails(p) \/ ReloadWriteFails(p) \/ ReloadRollbackFails(p)
  PROVE  [CollNext]_collVars
<1> USE ServerClientAssumption DEF ServerInv, ServerTypeOK, RollbackSaved, CollInv, TypeOK, BaseTypeOK
<1>1. p \in Callers
  BY DEF Reloaders
<1>2. ASSUME NEW c \in Configs, WriteConfigFile(c) PROVE CollNext
  BY <1>2 DEF WriteConfigFile, CollNext, Environment, EditFile
<1>3. CASE CallRestart(p)
  BY <1>1, <1>3 DEF CollNext, Environment
<1>4. CASE UNCHANGED collVars
  BY <1>4
<1>5. CASE ReloadLock(p) \/ ReloadBackup(p) \/ ReloadStarted(p) \/ ReloadStartFailed(p)
        \/ ReloadRolledBack(p) \/ ReloadBackupFails(p)
  BY <1>4, <1>5 DEF ReloadLock, ReloadBackup, ReloadStarted, ReloadStartFailed, ReloadRolledBack,
     ReloadBackupFails
<1>6. CASE ReloadRestart(p) \/ ReloadRestartOld(p)
  BY <1>3, <1>6 DEF ReloadRestart, ReloadRestartOld
<1>7. CASE ReloadWrite(p)
  BY <1>2, <1>7 DEF ReloadWrite
<1>8. CASE ReloadRollback(p)
  BY <1>2, <1>8 DEF ReloadRollback
<1>9. CASE ReloadWriteFails(p) \/ ReloadRollbackFails(p)
  <2>1. PICK c \in {file, Torn} : WriteConfigFile(c)
    BY <1>9 DEF ReloadWriteFails, ReloadRollbackFails
  <2>2. c \in Configs
    OBVIOUS
  <2>3. QED
    BY <1>2, <2>1, <2>2
<1>10. QED
  BY <1>5, <1>6, <1>7, <1>8, <1>9 DEF ReloadStep

\* Every step of the process is a step of the wrapper with the most general callers, or
\* leaves it alone.
LEMMA WrapperUse == ServerInv /\ [Next]_vars => [CollNext]_collVars
<1> SUFFICES ASSUME ServerInv, [Next]_vars PROVE [CollNext]_collVars
  OBVIOUS
<1>1. {Main, Watcher} \subseteq Callers
  BY BaseClientAssumption
<1>2. CASE MainStep \/ ServeSignal
  <2>1. CASE StopShutdown
    BY <1>1, <2>1 DEF StopShutdown, CollNext, Environment
  <2>2. CASE StopReceive
    BY <2>2 DEF StopReceive, CollNext, Environment, ReceiveError
  <2>3. CASE StartOpamp \/ StartFails \/ StartNoop \/ StartReturns \/ ServeError \/ ServeSignal
          \/ StopShutdownReturns \/ StopOpamp \/ StopOpampReturns
    BY <2>3 DEF StartOpamp, StartFails, StartNoop, StartReturns, ServeError, ServeSignal,
       StopShutdownReturns, StopOpamp, StopOpampReturns
  <2>4. QED
    BY <1>2, <2>1, <2>2, <2>3 DEF MainStep
<1>3. CASE WatchStep
  BY <1>1, <1>3 DEF WatchStep, WatcherStep, WatchStopped, WatchTick, WatchState, WatchReloading,
     WatchSend, CollNext, Environment
<1>4. CASE OnMessage \/ CallbackStep \/ UpdateCurrentHashFails \/ SetRemoteConfigStatusFails
  BY <1>4 DEF OnMessage, CallbackStep, ApplyUnchanged, ApplyReload, ApplyFailed, ApplyReloaded,
     UpdateCurrentHash, SetRemoteConfigStatus, UpdateEffectiveConfig, UpdateCurrentHashFails,
     SetRemoteConfigStatusFails
<1>5. CASE FaultStep
  BY <1>4, <1>5, ReloadUses DEF FaultStep
<1>6. ASSUME NEW p \in Reloaders, ReloadStep(p) PROVE [CollNext]_collVars
  BY <1>6, ReloadUses
<1>7. ASSUME NEW p \in Callers, WrapperStep(p) PROVE CollNext
  BY <1>7 DEF WrapperStep, CollectorStep, CollNext
<1>8. ASSUME NEW i \in Instances, InstanceGoStep(i) \/ InstanceStartStep(i) \/ InstanceDies(i)
      PROVE CollNext
  BY <1>8 DEF InstanceGoStep, CollectorGoStep, InstanceStartStep, CollectorStartStep,
     InstanceDies, CollectorDies, CollNext, CollStep
<1>9. CASE Exited \/ UNCHANGED vars
  BY <1>9 DEF Exited, vars
<1>10. QED
  BY <1>2, <1>3, <1>4, <1>5, <1>6, <1>7, <1>8, <1>9 DEF Next

\* What the assumptions say of single constants.
LEMMA Given ==
    /\ Reloaders \subseteq Callers
    /\ Main \in Reloaders /\ Callback \in Reloaders /\ Main # Callback
    /\ Remote \subseteq Configs
    /\ Initial \in Configs /\ Noop \in Configs /\ Torn \in Configs
    /\ Nil \notin Reloaders /\ Nil \notin Configs
    /\ NoConfig \notin Configs
    /\ MaxIOFaults \in Nat
<1>1. Remote \cup {Initial, Noop, Torn} \subseteq Configs
  BY ServerClientAssumption
<1>2. Reloaders \subseteq Callers
  BY ServerClientAssumption DEF Reloaders
<1>3. QED
  BY <1>1, <1>2, ServerClientAssumption, BaseClientAssumption, CollectorAssumption DEF Reloaders

\* The process starts as it should.
LEMMA ServerStarts == Init => ServerInv
<1> SUFFICES ASSUME Init PROVE ServerInv
  OBVIOUS
<1>1. CollInv
  BY InitInv DEF Init, BaseInit
<1>2. BaseTypeOK
  BY <1>1 DEF CollInv, BaseTypeOK, Init, BaseInit, Chan
<1>3. ServerTypeOK
  <2>1. 0 \in 0..MaxIOFaults
    BY Given
  <2>2. QED
    BY <1>2, <2>1, Given DEF ServerTypeOK, Init, ServerInit, Error
<1>4. RollbackSaved
  BY DEF RollbackSaved, Init, ServerInit
<1>5. QED
  BY <1>1, <1>3, <1>4 DEF ServerInv

\* A step of reload preserves the types.
LEMMA ReloadTypes ==
  ASSUME ServerInv, NEW p \in Reloaders, TypeOK',
         ioFailures' \in 0..MaxIOFaults, faults' \subseteq FaultKinds,
         \/ ReloadStep(p)
         \/ ReloadBackupFails(p) \/ ReloadWriteFails(p) \/ ReloadRollbackFails(p)
  PROVE  ServerTypeOK' /\ RollbackSaved'
<1> USE Given DEF ServerTypeOK, RollbackSaved, BaseTypeOK, Error,
        reloadVars, handlerVars, configVars, baseVars, Goto
<1>1. ServerTypeOK /\ RollbackSaved /\ file \in Configs
  BY DEF ServerInv, TypeOK
<1>2. CASE ReloadLock(p)
  BY <1>1, <1>2 DEF ReloadLock
<1>3. CASE ReloadBackup(p)
  BY <1>1, <1>3 DEF ReloadBackup
<1>4. CASE ReloadWrite(p)
  BY <1>1, <1>4 DEF ReloadWrite
<1>5. CASE ReloadRestart(p)
  BY <1>1, <1>5 DEF ReloadRestart
<1>6. CASE ReloadStarted(p)
  <2>1. isReloading' \in BOOLEAN
    BY <1>6, Zenon DEF ReloadStarted, ReloadReturn
  <2>2. QED
    BY <1>1, <1>6, <2>1 DEF ReloadStarted, ReloadReturn
<1>7. CASE ReloadStartFailed(p)
  BY <1>1, <1>7 DEF ReloadStartFailed
<1>8. CASE ReloadRollback(p) \/ ReloadRollbackFails(p)
  BY <1>1, <1>8 DEF ReloadRollback, ReloadRollbackFails
<1>9. CASE ReloadRestartOld(p)
  BY <1>1, <1>9 DEF ReloadRestartOld
<1>10. CASE ReloadRolledBack(p)
  <2>1. isReloading' \in BOOLEAN
    BY <1>10, Zenon DEF ReloadRolledBack, ReloadReturn
  <2>2. QED
    BY <1>1, <1>10, <2>1 DEF ReloadRolledBack, ReloadReturn
<1>11. CASE ReloadBackupFails(p)
  <2>1. isReloading' \in BOOLEAN
    BY <1>11, Zenon DEF ReloadBackupFails, ReloadReturn
  <2>2. QED
    BY <1>1, <1>11, <2>1 DEF ReloadBackupFails, ReloadReturn
<1>12. CASE ReloadWriteFails(p)
  <2>1. isReloading' \in BOOLEAN
    BY <1>12, Zenon DEF ReloadWriteFails, ReloadReturn
  <2>2. QED
    BY <1>1, <1>12, <2>1 DEF ReloadWriteFails, ReloadReturn
<1>13. QED
  BY <1>2, <1>3, <1>4, <1>5, <1>6, <1>7, <1>8, <1>9, <1>10, <1>11, <1>12 DEF ReloadStep

\* Every step preserves the types.
LEMMA ServerStep == ServerInv /\ [Next]_vars => ServerInv'
<1> SUFFICES ASSUME ServerInv, [Next]_vars PROVE ServerInv'
  OBVIOUS
<1>1. CollInv' /\ TypeOK'
  BY WrapperUse, TypeStep, MuxStep DEF CollInv, ServerInv
<1> SUFFICES ServerTypeOK' /\ RollbackSaved'
  BY <1>1 DEF ServerInv
<1>2. ServerTypeOK /\ RollbackSaved /\ file \in Configs
  BY DEF ServerInv, CollInv, TypeOK
<1> USE Given DEF ServerTypeOK, RollbackSaved, BaseTypeOK, Error, Chan,
        reloadVars, handlerVars, configVars, baseVars, serverVars, faultVars
<1>3. CASE MainStep \/ ServeSignal
  <2>1. CASE StartNoop
    BY <1>1, <1>2, <1>3, <2>1 DEF StartNoop, ReloadCall, MainStep, ServeSignal
  <2>2. CASE StartReturns
    BY <1>1, <1>2, <1>3, <2>2 DEF StartReturns, ReloadTaken, Goto, MainStep, ServeSignal
  <2>3. CASE StartOpamp \/ StopOpamp
    BY <1>1, <1>2, <1>3, <2>3 DEF StartOpamp, StopOpamp, MainStep, ServeSignal
  <2>4. CASE StartFails \/ ServeSignal \/ StopShutdownReturns \/ StopOpampReturns
    BY <1>1, <1>2, <2>4 DEF StartFails, ServeSignal, StopShutdownReturns, StopOpampReturns
  <2>5. CASE (ServeError \/ StopShutdown \/ StopReceive) /\ UNCHANGED serverVars
    <3>1. stopped' \in BOOLEAN
      BY <1>2, <2>5, Zenon DEF ServeError, StopShutdown, StopReceive
    <3>2. QED
      BY <1>1, <1>2, <2>5, <3>1 DEF ServeError, StopShutdown, StopReceive
  <2>6. QED
    BY <1>3, <2>1, <2>2, <2>3, <2>4, <2>5 DEF MainStep
<1>4. CASE WatchStep
  BY <1>1, <1>2, <1>4 DEF WatchStep, WatcherStep, WatchStopped, WatchTick, WatchState, WatchReloading,
     WatchSend
<1>5. CASE OnMessage
  BY <1>1, <1>2, <1>5 DEF OnMessage
<1>6. CASE CallbackStep
  <2>1. CASE ApplyUnchanged
    <3>1. changed' \in BOOLEAN
      BY <2>1, Zenon DEF ApplyUnchanged, ApplyResult
    <3>2. QED
      BY <1>1, <1>2, <1>6, <2>1, <3>1 DEF CallbackStep, ApplyUnchanged, ApplyResult
  <2>2. CASE ApplyReload
    BY <1>1, <1>2, <1>6, <2>2 DEF CallbackStep, ApplyReload, ReloadCall
  <2>3. CASE ApplyFailed \/ ApplyReloaded
    <3>1. changed' \in BOOLEAN
      BY <1>2, <2>3, Zenon DEF ApplyFailed, ApplyReloaded, ApplyResult
    <3>2. QED
      BY <1>1, <1>2, <1>6, <2>3, <3>1 DEF CallbackStep, ApplyFailed, ApplyReloaded, ApplyResult, ReloadTaken, Goto
  <2>4. CASE UpdateCurrentHash
    BY <1>1, <1>2, <1>6, <2>4 DEF CallbackStep, UpdateCurrentHash, ApplyResult
  <2>5. CASE SetRemoteConfigStatus
    <3>1. changed' \in BOOLEAN
      BY <1>2, <2>5, Zenon DEF SetRemoteConfigStatus, HandlerReturns
    <3>2. QED
      BY <1>1, <1>2, <1>6, <2>5, <3>1 DEF CallbackStep, SetRemoteConfigStatus, HandlerReturns
  <2>6. CASE UpdateEffectiveConfig
    <3>1. changed' \in BOOLEAN /\ runningNopConfig' \in BOOLEAN
      BY <2>6, Zenon DEF UpdateEffectiveConfig, HandlerReturns
    <3>2. QED
      BY <1>1, <1>2, <1>6, <2>6, <3>1 DEF CallbackStep, UpdateEffectiveConfig, HandlerReturns
  <2>7. QED
    BY <1>6, <2>1, <2>2, <2>3, <2>4, <2>5, <2>6 DEF CallbackStep
<1>7. CASE FaultStep
  <2>1. ioFailures' \in 0..MaxIOFaults /\ faults' \subseteq FaultKinds
    <3>1. ioFailures' \in 0..MaxIOFaults
      BY <1>2, <1>7 DEF FaultStep
    <3>2. \E kind \in FaultKinds : faults' = faults \cup {kind}
      BY <1>7, Zenon DEF FaultStep, FaultKinds
    <3>3. QED
      BY <1>2, <3>1, <3>2
  <2>2. CASE UpdateCurrentHashFails
    BY <1>1, <1>2, <2>1, <2>2 DEF UpdateCurrentHashFails, ApplyResult
  <2>3. CASE SetRemoteConfigStatusFails
    <3>1. changed' \in BOOLEAN
      BY <2>3, Zenon DEF SetRemoteConfigStatusFails, HandlerReturns
    <3>2. QED
      BY <1>1, <1>2, <2>1, <2>3, <3>1 DEF SetRemoteConfigStatusFails, HandlerReturns
  <2>4. ASSUME NEW p \in Reloaders,
               ReloadBackupFails(p) \/ ReloadWriteFails(p) \/ ReloadRollbackFails(p)
        PROVE  ServerTypeOK' /\ RollbackSaved'
    BY <1>1, <2>1, <2>4, ReloadTypes
  <2>5. QED
    BY <1>7, <2>2, <2>3, <2>4 DEF FaultStep
<1>8. ASSUME NEW p \in Reloaders, ReloadStep(p) PROVE ServerTypeOK' /\ RollbackSaved'
  BY <1>1, <1>2, <1>8, ReloadTypes DEF ReloadStep, faultVars
<1>9. CASE UNCHANGED <<serverVars, baseVars>>
  BY <1>1, <1>2, <1>9
<1>10. QED
  <2>1. ASSUME NEW p \in Callers, WrapperStep(p) PROVE UNCHANGED <<serverVars, baseVars>>
    BY <2>1 DEF WrapperStep, CollectorStep
  <2>2. ASSUME NEW i \in Instances, InstanceGoStep(i) \/ InstanceStartStep(i) \/ InstanceDies(i)
        PROVE UNCHANGED <<serverVars, baseVars>>
    BY <2>2 DEF InstanceGoStep, CollectorGoStep, InstanceStartStep, CollectorStartStep,
       InstanceDies, CollectorDies
  <2>3. CASE Exited \/ UNCHANGED vars
    BY <1>9, <2>3 DEF Exited, vars
  <2>4. QED
    BY <1>3, <1>4, <1>5, <1>6, <1>7, <1>8, <1>9, <2>1, <2>2, <2>3 DEF Next

\* The types of the process, and a rollback to go back to, for any configurations.
THEOREM ServerInvariant == Spec => []ServerInv
BY ServerStarts, ServerStep, PTL DEF Spec

\* main, the Watcher and the Callback use the wrapper only as its own specification
\* allows: the process under OpAMP implements CollSpec.
LEMMA ProcessUsesTheWrapper == Spec => CollSpec
<1>1. Init => CollInit
  BY DEF Init, BaseInit
<1>2. QED
  BY <1>1, ServerInvariant, WrapperUse, PTL DEF Spec, CollSpec

\* Hence no remote configuration, failure or stop makes two collectors of the process
\* overlap.
THEOREM ProcessHasOneCollector == Spec => []NoOrphanCollector
BY ProcessUsesTheWrapper, NoTwoCollectors, PTL

\* And no failed start is taken for a success.
THEOREM ProcessSeesTrueResults == Spec => RunNilMeansStarted
BY ProcessUsesTheWrapper, RunNilIsTrue, PTL

-----------------------------------------------------------------------------
(* What is reported as APPLIED                                             *)

\* The watcher, the wrapper and the collectors change neither the file nor anything of
\* the client but what the watcher has seen.
LEMMA OutsideServer ==
  ASSUME \/ WatchStep
         \/ \E p \in Callers : WrapperStep(p)
         \/ \E i \in Instances : InstanceGoStep(i) \/ InstanceStartStep(i) \/ InstanceDies(i)
         \/ Exited \/ UNCHANGED vars
  PROVE  UNCHANGED <<serverVars, file, mpc>>
<1> USE DEF fileVars, baseVars
<1>1. CASE WatchStep
  <2>1. ErrCap = 1
    BY ServerClientAssumption
  <2>2. QED
    BY <1>1, <2>1 DEF WatchStep, WatcherStep, WatchStopped, WatchTick, WatchState, WatchReloading,
       WatchSend, CallGetState, Call, collVars
<1>2. ASSUME NEW p \in Callers, WrapperStep(p) PROVE UNCHANGED <<serverVars, file, mpc>>
  BY <1>2 DEF WrapperStep, CollectorStep, CallerStep, RunRefused, RunLaunch, RunReturn, ShutdownBegin,
     ShutdownEnd, ShutdownNoCollector, ShutdownSent, AfterShutdown, GetState
<1>3. ASSUME NEW i \in Instances, InstanceGoStep(i) \/ InstanceStartStep(i) \/ InstanceDies(i)
      PROVE UNCHANGED <<serverVars, file, mpc>>
  BY <1>3 DEF InstanceGoStep, InstanceStartStep, InstanceDies, CollectorGoStep, CollectorStartStep,
     CollectorDies, GoStep, SvcStartStep, SvcStarted, SvcStartFailed, SvcClosed, SvcExits, SvcStop,
     SvcAsyncError, SvcClosing, ReportError, SendColErr, PollRunning, PollSend, PollCancelled
<1>4. CASE Exited \/ UNCHANGED vars
  BY <1>4 DEF Exited, vars, collVars
<1>5. QED
  BY <1>1, <1>2, <1>3, <1>4

\* The steps of the client, one by one.
LEMMA ServerCases ==
  ASSUME [Next]_vars
  PROVE  \/ MainStep \/ ServeSignal \/ OnMessage \/ CallbackStep \/ FaultStep
         \/ \E p \in Reloaders : ReloadStep(p)
         \/ UNCHANGED <<serverVars, file, mpc>>
BY OutsideServer DEF Next

\* A reload keeps its argument, stays a reload, and does not touch the one of the other
\* goroutine; only its write and its rollback change the file.
LEMMA ReloadEffect ==
  ASSUME ServerInv, NEW p \in Reloaders,
         \/ ReloadStep(p)
         \/ ReloadBackupFails(p) \/ ReloadWriteFails(p) \/ ReloadRollbackFails(p)
  PROVE  /\ rpc[p] # "none" /\ rpc'[p] # "none"
         /\ \A q \in Reloaders \ {p} : rpc'[q] = rpc[q] /\ rerr'[q] = rerr[q]
         /\ UNCHANGED <<rarg, mpc, handlerVars, configVars>>
<1> USE DEF ServerInv, ServerTypeOK, handlerVars, configVars, baseVars, Goto
<1>1. CASE ReloadLock(p) \/ ReloadBackup(p) \/ ReloadWrite(p) \/ ReloadRestart(p) \/ ReloadStartFailed(p)
        \/ ReloadRollback(p) \/ ReloadRollbackFails(p) \/ ReloadRestartOld(p)
  BY <1>1 DEF ReloadLock, ReloadBackup, ReloadWrite, ReloadRestart, ReloadStartFailed, ReloadRollback,
     ReloadRollbackFails, ReloadRestartOld
<1>2. CASE ReloadStarted(p) \/ ReloadRolledBack(p) \/ ReloadBackupFails(p) \/ ReloadWriteFails(p)
  BY <1>2 DEF ReloadStarted, ReloadRolledBack, ReloadBackupFails, ReloadWriteFails, ReloadReturn
<1>3. QED
  BY <1>1, <1>2 DEF ReloadStep

\* With a server that waits for Start, every step preserves who is reloading.
LEMMA ControlStep ==
  ASSUME ServerWaits, ServerInv, ControlInv, [Next]_vars
  PROVE  ControlInv'
<1> USE Given DEF ControlInv, handlerVars, configVars, baseVars, reloadVars,
        serverVars, faultVars
<1>1. rpc \in [Reloaders -> {"none", "lock", "backup", "write", "restart", "started",
                             "rollback", "restartOld", "rolledBack", "done"}]
  BY DEF ServerInv, ServerTypeOK
<1>2. CASE MainStep \/ ServeSignal
  BY <1>1, <1>2 DEF MainStep, ServeSignal, StartOpamp, StartFails, StartNoop, StartReturns, ServeError,
     StopShutdown, StopReceive, StopShutdownReturns, StopOpamp, StopOpampReturns, ReloadCall,
     ReloadTaken, Goto
<1>3. CASE OnMessage
  BY <1>3 DEF OnMessage
<1>4. CASE CallbackStep \/ UpdateCurrentHashFails \/ SetRemoteConfigStatusFails
  BY <1>1, <1>4 DEF CallbackStep, ApplyUnchanged, ApplyReload, ApplyFailed, ApplyReloaded,
     UpdateCurrentHash, SetRemoteConfigStatus, UpdateEffectiveConfig, ApplyResult, HandlerReturns,
     UpdateCurrentHashFails, SetRemoteConfigStatusFails, ReloadCall, ReloadTaken, Goto
<1>5. ASSUME NEW p \in Reloaders,
             \/ ReloadStep(p)
             \/ ReloadBackupFails(p) \/ ReloadWriteFails(p) \/ ReloadRollbackFails(p)
      PROVE ControlInv'
  BY <1>5, ReloadEffect DEF Reloaders
<1>6. CASE FaultStep
  BY <1>4, <1>5, <1>6 DEF FaultStep
<1>7. CASE UNCHANGED <<serverVars, file, mpc>>
  BY <1>7
<1>8. QED
  BY <1>2, <1>3, <1>4, <1>5, <1>6, <1>7, ServerCases

\* Every step preserves that what is about to be reported is in the file.
LEMMA AppliedStep ==
  ASSUME ServerInv, ControlInv, AppliedInv, [Next]_vars
  PROVE  AppliedInv'
<1> USE Given DEF AppliedInv, AppliedIsInFile, handlerVars, configVars, baseVars, reloadVars,
        serverVars, faultVars
<1>1. /\ rpc \in [Reloaders -> {"none", "lock", "backup", "write", "restart", "started",
                                "rollback", "restartOld", "rolledBack", "done"}]
      /\ rarg \in [Reloaders -> Configs] /\ rerr \in [Reloaders -> Error]
  BY DEF ServerInv, ServerTypeOK
<1>2. CASE MainStep \/ ServeSignal
  <2>1. CASE StartNoop \/ StartReturns
    BY <1>1, <2>1 DEF StartNoop, StartReturns, ReloadCall, ReloadTaken, Goto, collVars, fileVars, ControlInv
  <2>2. CASE StartOpamp \/ StartFails \/ ServeSignal \/ StopShutdownReturns \/ StopOpamp \/ StopOpampReturns
    BY <2>2 DEF StartOpamp, StartFails, ServeSignal, StopShutdownReturns, StopOpamp, StopOpampReturns,
       collVars, fileVars
  <2>3. CASE (ServeError \/ StopShutdown \/ StopReceive) /\ UNCHANGED serverVars
    BY <2>3 DEF ServeError, StopShutdown, StopReceive, CallShutdown, Call, collVars, fileVars
  <2>4. QED
    BY <1>2, <2>1, <2>2, <2>3 DEF MainStep
<1>3. CASE OnMessage
  BY <1>3 DEF OnMessage
<1>4. CASE CallbackStep \/ UpdateCurrentHashFails \/ SetRemoteConfigStatusFails
  <2>1. CASE ApplyUnchanged \/ ApplyFailed
    BY <1>1, <2>1 DEF ApplyUnchanged, ApplyFailed, ApplyResult, ReloadTaken, Goto
  <2>2. CASE ApplyReload
    BY <1>1, <2>2 DEF ApplyReload, ReloadCall
  <2>3. CASE ApplyReloaded
    BY <1>1, <2>3 DEF ApplyReloaded, ReloadTaken, Goto, collVars, fileVars
  <2>4. CASE UpdateCurrentHash \/ UpdateCurrentHashFails
    BY <2>4 DEF UpdateCurrentHash, UpdateCurrentHashFails, ApplyResult, collVars, fileVars
  <2>5. CASE SetRemoteConfigStatus \/ SetRemoteConfigStatusFails \/ UpdateEffectiveConfig
    BY <2>5 DEF SetRemoteConfigStatus, SetRemoteConfigStatusFails, UpdateEffectiveConfig, HandlerReturns
  <2>6. QED
    BY <1>4, <2>1, <2>2, <2>3, <2>4, <2>5 DEF CallbackStep
<1>5. ASSUME NEW p \in Reloaders,
             \/ ReloadStep(p)
             \/ ReloadBackupFails(p) \/ ReloadWriteFails(p) \/ ReloadRollbackFails(p)
      PROVE AppliedInv'
  <2>1. /\ rpc[p] # "none"
        /\ \A q \in Reloaders \ {p} : rpc'[q] = rpc[q] /\ rerr'[q] = rerr[q]
        /\ UNCHANGED <<rarg, mpc, handlerVars, configVars>>
    BY <1>5, ReloadEffect
  <2>2. CASE p = Main
    <3>1. cpc = "idle" /\ cpc' = "idle"
      BY <2>1, <2>2 DEF ControlInv
    <3>2. QED
      BY <3>1
  <2>3. CASE p = Callback
    <3>1. cpc = "reload" /\ cpc' = "reload"
      BY <2>1, <2>3 DEF ControlInv
    <3>2. CASE ReloadLock(p) \/ ReloadBackup(p) \/ ReloadRestartOld(p) \/ ReloadRollback(p)
            \/ ReloadRollbackFails(p) \/ ReloadStartFailed(p)
      BY <1>1, <2>1, <2>3, <3>1, <3>2 DEF ReloadLock, ReloadBackup, ReloadRestartOld, ReloadRollback,
         ReloadRollbackFails, ReloadStartFailed, Goto
    <3>3. CASE ReloadWrite(p) \/ ReloadRestart(p)
      BY <1>1, <2>1, <2>3, <3>1, <3>3 DEF ReloadWrite, ReloadRestart, WriteConfigFile, CallRestart, Call,
         Goto, fileVars
    <3>4. CASE ReloadStarted(p)
      BY <1>1, <2>1, <2>3, <3>1, <3>4 DEF ReloadStarted, ReloadReturn, Goto, collVars, fileVars
    <3>5. CASE ReloadRolledBack(p) \/ ReloadBackupFails(p) \/ ReloadWriteFails(p)
      BY <1>1, <2>1, <2>3, <3>1, <3>5 DEF ReloadRolledBack, ReloadBackupFails, ReloadWriteFails,
         ReloadReturn, Goto
    <3>6. QED
      BY <1>5, <3>2, <3>3, <3>4, <3>5 DEF ReloadStep
  <2>4. QED
    BY <2>2, <2>3 DEF Reloaders
<1>6. CASE FaultStep
  BY <1>4, <1>5, <1>6 DEF FaultStep
<1>7. CASE UNCHANGED <<serverVars, file, mpc>>
  BY <1>7
<1>8. QED
  BY <1>2, <1>3, <1>4, <1>5, <1>6, <1>7, ServerCases

\* For any configurations and any failures of files and reports: what is reported as
\* APPLIED is what the file and the hash hold.
THEOREM AppliedIsTrue == ServerWaits => (Spec => []AppliedIsInFile)
<1> SUFFICES ASSUME ServerWaits PROVE Spec => []AppliedIsInFile
  OBVIOUS
<1>1. Init => ControlInv /\ AppliedInv
  BY Given DEF Init, BaseInit, ServerInit, ControlInv, AppliedInv, AppliedIsInFile
<1>2. ServerInv /\ ControlInv /\ [Next]_vars => ControlInv'
  BY ControlStep
<1>3. ServerInv /\ ControlInv /\ AppliedInv /\ [Next]_vars => AppliedInv'
  BY AppliedStep
<1>4. AppliedInv => AppliedIsInFile
  BY DEF AppliedInv
<1>5. QED
  BY <1>1, <1>2, <1>3, <1>4, ServerInvariant, PTL DEF Spec

-----------------------------------------------------------------------------
(* What runs                                                               *)

\* Every step preserves which file the client and the server agree on.
LEMMA FileStep ==
  ASSUME ServerInv, ControlInv, AppliedInv, FileInv, [Next]_vars
  PROVE  FileInv'
<1> USE Given DEF handlerVars, configVars, baseVars, reloadVars, serverVars, faultVars
<1>1. /\ rpc \in [Reloaders -> {"none", "lock", "backup", "write", "restart", "started",
                                "rollback", "restartOld", "rolledBack", "done"}]
      /\ rarg \in [Reloaders -> Configs] /\ rerr \in [Reloaders -> Error]
      /\ msg \in Remote \cup {NoConfig} /\ acked \in Remote \cup {Nil}
      /\ ioFailures \in Nat
  BY DEF ServerInv, ServerTypeOK
<1>2. CASE ioFailures' # 0
  BY <1>2 DEF FileInv
<1>3. CASE ioFailures' = 0 /\ ~FaultStep
  <2>1. ioFailures = 0
    BY <1>1, <1>3, ServerCases DEF MainStep, ServeSignal, OnMessage, CallbackStep, ReloadStep
  <2> USE DEF FileInv, StartInv, ReloadInv, AnswerInv, Expected
  <2>2. CASE MainStep \/ ServeSignal
    <3>1. CASE StartNoop
      BY <1>1, <2>1, <3>1 DEF StartNoop, ReloadCall, collVars, fileVars, ControlInv
    <3>2. CASE StartReturns
      BY <1>1, <2>1, <3>2 DEF StartReturns, ReloadTaken, Goto, collVars, fileVars, ControlInv, Error
    <3>3. CASE StartOpamp \/ StartFails \/ ServeSignal \/ StopShutdownReturns \/ StopOpamp
            \/ StopOpampReturns
      BY <2>1, <3>3 DEF StartOpamp, StartFails, ServeSignal, StopShutdownReturns, StopOpamp,
         StopOpampReturns, collVars, fileVars
    <3>4. CASE (ServeError \/ StopShutdown \/ StopReceive) /\ UNCHANGED serverVars
      BY <2>1, <3>4 DEF ServeError, StopShutdown, StopReceive, CallShutdown, Call, collVars, fileVars
    <3>5. QED
      BY <2>2, <3>1, <3>2, <3>3, <3>4 DEF MainStep
  <2>3. CASE OnMessage
    BY <2>1, <2>3 DEF OnMessage, collVars, fileVars
  <2>4. CASE CallbackStep
    <3>1. CASE ApplyUnchanged
      BY <1>1, <2>1, <3>1 DEF ApplyUnchanged, ApplyResult, collVars, fileVars
    <3>2. CASE ApplyReload
      BY <1>1, <2>1, <3>2 DEF ApplyReload, ReloadCall, collVars, fileVars, ControlInv
    <3>3. CASE ApplyFailed
      BY <1>1, <2>1, <3>3 DEF ApplyFailed, ApplyResult, ReloadTaken, Goto, collVars, fileVars, ControlInv
    <3>4. CASE ApplyReloaded
      BY <1>1, <2>1, <3>4 DEF ApplyReloaded, ReloadTaken, Goto, collVars, fileVars, ControlInv
    <3>5. CASE UpdateCurrentHash
      BY <1>1, <2>1, <3>5 DEF UpdateCurrentHash, ApplyResult, collVars, fileVars, ControlInv
    <3>6. CASE SetRemoteConfigStatus
      <4>1. UNCHANGED <<file, currentHash, initialConfigReceived, runningNopConfig, mpc, rpc, ioFailures>>
        BY <1>3, <2>4, <3>6 DEF SetRemoteConfigStatus, CallbackStep, collVars, fileVars
      <4>2. cpc = "status" /\ rpc[Callback] = "none" /\ mpc \notin {"start", "nop", "reload"}
        BY <3>6 DEF SetRemoteConfigStatus, ControlInv
      <4>3. CASE changed
        <5>1. applyErr = "nil" \/ mpc # "serve"
          BY <2>1, <4>2, <4>3
        <5>2. cpc' = "effective" /\ (applyErr = "nil" => file = msg /\ currentHash = msg)
          BY <3>6, <4>2, <4>3 DEF SetRemoteConfigStatus, AppliedInv, AppliedIsInFile
        <5>3. applyErr = "nil" => msg # NoConfig /\ msg # Nil /\ acked' = msg
          BY <1>1, <3>6, <5>2 DEF SetRemoteConfigStatus, ServerInv, CollInv, TypeOK
        <5>4. QED
          BY <2>1, <4>1, <4>2, <5>1, <5>2, <5>3
      <4>4. CASE ~changed
        <5>1. cpc' = "idle"
          BY <3>6, <4>4 DEF SetRemoteConfigStatus, HandlerReturns
        <5>2. mpc = "serve" => acked' = acked
          BY <2>1, <3>6, <4>2, <4>4 DEF SetRemoteConfigStatus
        <5>3. QED
          BY <2>1, <4>1, <4>2, <4>4, <5>1, <5>2
      <4>5. QED
        BY <4>3, <4>4
    <3>7. CASE UpdateEffectiveConfig
      BY <1>1, <2>1, <3>7 DEF UpdateEffectiveConfig, HandlerReturns, collVars, fileVars, ControlInv
    <3>8. QED
      BY <2>4, <3>1, <3>2, <3>3, <3>4, <3>5, <3>6, <3>7 DEF CallbackStep
  <2>5. ASSUME NEW p \in Reloaders, ReloadStep(p) PROVE FileInv'
    <3>1. /\ rpc[p] # "none"
          /\ \A q \in Reloaders \ {p} : rpc'[q] = rpc[q] /\ rerr'[q] = rerr[q]
          /\ UNCHANGED <<rarg, mpc, handlerVars, configVars>>
      BY <2>5, ReloadEffect
    <3>2. (p = Main <=> mpc = "reload") /\ (p = Callback <=> cpc = "reload")
      BY <3>1 DEF ControlInv, Reloaders
    <3>3. CASE ReloadLock(p)
      BY <1>1, <2>1, <3>1, <3>2, <3>3 DEF ReloadLock, Goto, collVars, fileVars, ControlInv
    <3>4. CASE ReloadBackup(p)
      BY <1>1, <2>1, <3>1, <3>2, <3>4 DEF ReloadBackup, Goto, collVars, fileVars, ControlInv
    <3>5. CASE ReloadWrite(p)
      <4>1. file' = rarg[p] /\ rpc'[p] = "restart" /\ rollback' = rollback
        BY <1>1, <3>5 DEF ReloadWrite, WriteConfigFile, Goto
      <4>2. CASE p = Main
        BY <2>1, <3>1, <3>2, <3>5, <4>1, <4>2 DEF ControlInv, ReloadWrite
      <4>3. CASE p = Callback
        BY <2>1, <3>1, <3>2, <3>5, <4>1, <4>3 DEF ControlInv, ReloadWrite
      <4>4. QED
        BY <4>2, <4>3 DEF Reloaders
    <3>6. CASE ReloadRestart(p) \/ ReloadRestartOld(p)
      BY <1>1, <2>1, <3>1, <3>2, <3>6 DEF ReloadRestart, ReloadRestartOld, CallRestart, Call, Goto,
         fileVars, ControlInv
    <3>7. CASE ReloadStarted(p) \/ ReloadRolledBack(p)
      BY <1>1, <2>1, <3>1, <3>2, <3>7 DEF ReloadStarted, ReloadRolledBack, ReloadReturn, Goto,
         collVars, fileVars, ControlInv
    <3>8. CASE ReloadStartFailed(p)
      BY <1>1, <2>1, <3>1, <3>2, <3>8 DEF ReloadStartFailed, Goto, collVars, fileVars, ControlInv
    <3>9. CASE ReloadRollback(p)
      <4>1. file' = rollback /\ rpc'[p] = "restartOld" /\ rollback' = rollback
        BY <1>1, <3>9 DEF ReloadRollback, WriteConfigFile, Goto
      <4>2. CASE p = Main
        BY <2>1, <3>1, <3>2, <3>9, <4>1, <4>2 DEF ControlInv, ReloadRollback
      <4>3. CASE p = Callback
        BY <2>1, <3>1, <3>2, <3>9, <4>1, <4>3 DEF ControlInv, ReloadRollback
      <4>4. QED
        BY <4>2, <4>3 DEF Reloaders
    <3>10. QED
      BY <2>5, <3>3, <3>4, <3>5, <3>6, <3>7, <3>8, <3>9 DEF ReloadStep
  <2>6. CASE UNCHANGED <<serverVars, file, mpc>>
    BY <2>6
  <2>7. QED
    BY <1>3, <2>2, <2>3, <2>4, <2>5, <2>6, ServerCases
<1>4. QED
  <2>1. FaultStep => ioFailures' # 0
    BY <1>1 DEF FaultStep
  <2>2. QED
    BY <1>2, <1>3, <2>1

\* A Shutdown that found no collector holds the wrapper until it has sent, so none is
\* made meanwhile.
LEMMA SenderStep ==
  ASSUME CollInv, [CollNext]_collVars,
         \A p \in Callers : pc[p] = "ShutdownSend" => svc = Nil
  PROVE  \A p \in Callers : pc'[p] = "ShutdownSend" => svc' = Nil
<1> USE CollectorAssumption DEF CollInv, TypeOK, MuxHolder, fileVars, instVars, callVars
<1>1. ASSUME NEW p \in Callers, CallRun(p) \/ CallShutdown(p) \/ CallRestart(p) \/ CallGetState(p)
      PROVE \A q \in Callers : pc'[q] = "ShutdownSend" => svc' = Nil
  BY <1>1 DEF CallRun, CallShutdown, CallRestart, CallGetState, Call
<1>2. CASE ReceiveError \/ Cancel \/ EditFile
  BY <1>2 DEF ReceiveError, Cancel, EditFile
<1>3. ASSUME NEW p \in Callers, CallerStep(p)
      PROVE \A q \in Callers : pc'[q] = "ShutdownSend" => svc' = Nil
  <2>1. CASE RunRefused(p) \/ RunReturn(p) \/ GetState(p)
    BY <2>1 DEF RunRefused, RunReturn, GetState, Return
  <2>2. CASE RunLaunch(p)
    BY <2>2 DEF RunLaunch
  <2>3. CASE ShutdownBegin(p) \/ ShutdownNoCollector(p)
    BY <2>3 DEF ShutdownBegin, ShutdownNoCollector
  <2>4. CASE ShutdownEnd(p) \/ ShutdownSent(p)
    BY <2>4 DEF ShutdownEnd, ShutdownSent, AfterShutdown
  <2>5. QED
    BY <1>3, <2>1, <2>2, <2>3, <2>4 DEF CallerStep
<1>4. CASE CollStep
  BY <1>4, OutsideSteps DEF CollStep
<1>5. CASE UNCHANGED collVars
  BY <1>5 DEF collVars
<1>6. QED
  BY <1>1, <1>2, <1>3, <1>4, <1>5 DEF CollNext, Environment

\* A step of the client that leaves the collectors and the file alone settles nothing.
LEMMA SettledStep ==
  ASSUME ServerInv, LoadedInv, UNCHANGED <<svc, loaded, file>>,
         ioFailures' = 0 => ioFailures = 0,
         Settled' => Settled,
         \A p \in Callers : pc'[p] = "ShutdownSend" => svc' = Nil
  PROVE  LoadedInv'
BY DEF LoadedInv

\* Every step preserves that the collector runs the file or is about to be replaced.
LEMMA RunsFileStep ==
  ASSUME ServerInv, ControlInv, LoadedInv, [Next]_vars
  PROVE  LoadedInv'
<1> USE Given DEF handlerVars, configVars, baseVars, reloadVars, serverVars, faultVars, collVars, fileVars, instVars,
        callVars
<1>1. /\ rpc \in [Reloaders -> {"none", "lock", "backup", "write", "restart", "started",
                                "rollback", "restartOld", "rolledBack", "done"}]
      /\ pc \in [Callers -> Ops \cup {"idle", "RunWait", "ShutdownWait", "ShutdownSend"}]
      /\ loaded \in [Instances -> Configs \cup {Nil}]
      /\ svc \in Instances \cup {Nil}
      /\ ioFailures \in Nat
  BY DEF ServerInv, ServerTypeOK, CollInv, TypeOK
<1>2. \A p \in Callers : pc'[p] = "ShutdownSend" => svc' = Nil
  BY SenderStep, WrapperUse DEF ServerInv, LoadedInv
<1>3. CASE MainStep \/ ServeSignal
  <2>1. CASE StartNoop \/ StartReturns
    <3>1. UNCHANGED <<svc, loaded, file, ioFailures, pc>> /\ (Settled' => Settled)
      BY <1>1, <1>3, <2>1 DEF MainStep, ServeSignal, StartNoop, StartReturns, ReloadCall, ReloadTaken, Goto,
         Settled, ControlInv
    <3>2. QED
      BY <1>2, <3>1, SettledStep
  <2>2. CASE StartOpamp \/ StartFails \/ ServeSignal \/ StopShutdownReturns \/ StopOpamp
          \/ StopOpampReturns
    <3>1. UNCHANGED <<svc, loaded, file, ioFailures, pc, rpc>>
      BY <1>3, <2>2 DEF MainStep, StartOpamp, StartFails, ServeSignal, StopShutdownReturns, StopOpamp,
         StopOpampReturns
    <3>2. QED
      BY <1>2, <3>1, SettledStep DEF Settled
  <2>3. CASE (ServeError \/ StopReceive) /\ UNCHANGED serverVars
    <3>1. UNCHANGED <<svc, loaded, file, ioFailures, pc, rpc>>
      BY <2>3 DEF ServeError, StopReceive
    <3>2. QED
      BY <1>2, <3>1, SettledStep DEF Settled
  <2>4. CASE StopShutdown /\ UNCHANGED serverVars
    <3>1. UNCHANGED <<svc, loaded, file, ioFailures, rpc>> /\ (Settled' => Settled)
      BY <1>1, <2>4 DEF StopShutdown, CallShutdown, Call, Settled
    <3>2. QED
      BY <1>2, <3>1, SettledStep
  <2>5. QED
    BY <1>3, <2>1, <2>2, <2>3, <2>4 DEF MainStep
<1>4. CASE WatchStep
  <2>1. Watcher \notin Reloaders
    BY ServerClientAssumption, BaseClientAssumption DEF Reloaders
  <2>2. UNCHANGED <<svc, loaded, file, ioFailures, rpc>> /\ (Settled' => Settled)
    BY <1>1, <1>4, <2>1 DEF WatchStep, WatcherStep, WatchStopped, WatchTick, WatchState, WatchReloading,
       WatchSend, CallGetState, Call, Settled
  <2>3. QED
    BY <1>2, <2>2, SettledStep
<1>5. CASE OnMessage \/ CallbackStep \/ UpdateCurrentHashFails \/ SetRemoteConfigStatusFails
  <2>1. UNCHANGED <<svc, loaded, file, pc>>
    BY <1>5 DEF OnMessage, CallbackStep, ApplyUnchanged, ApplyReload, ApplyFailed, ApplyReloaded,
       UpdateCurrentHash, SetRemoteConfigStatus, UpdateEffectiveConfig, UpdateCurrentHashFails,
       SetRemoteConfigStatusFails
  <2>2. Settled' => Settled
    BY <1>1, <1>5, <2>1 DEF OnMessage, CallbackStep, ApplyUnchanged, ApplyReload, ApplyFailed, ApplyReloaded,
       UpdateCurrentHash, SetRemoteConfigStatus, UpdateEffectiveConfig, UpdateCurrentHashFails,
       SetRemoteConfigStatusFails, ReloadCall, ReloadTaken, Goto, Settled, ControlInv
  <2>3. ioFailures' = 0 => ioFailures = 0
    BY <1>1, <1>5, ServerCases DEF OnMessage, CallbackStep, FaultStep, MainStep, ServeSignal, ReloadStep
  <2>4. QED
    BY <1>2, <2>1, <2>2, <2>3, SettledStep
<1>6. ASSUME NEW p \in Reloaders, ReloadStep(p) PROVE LoadedInv'
  <2>1. UNCHANGED <<svc, loaded>> /\ ioFailures' = ioFailures
    BY <1>6 DEF ReloadStep, ReloadLock, ReloadBackup, ReloadWrite, WriteConfigFile, ReloadRestart,
       ReloadRestartOld, CallRestart, Call, ReloadStarted, ReloadStartFailed, ReloadRollback,
       ReloadRolledBack
  <2>2. CASE ReloadLock(p) \/ ReloadBackup(p) \/ ReloadStarted(p) \/ ReloadStartFailed(p)
          \/ ReloadRolledBack(p)
    <3>1. UNCHANGED <<file, pc>> /\ (Settled' => Settled)
      BY <1>1, <2>2 DEF ReloadLock, ReloadBackup, ReloadStarted, ReloadStartFailed, ReloadRolledBack,
         ReloadReturn, Goto, Settled
    <3>2. QED
      BY <1>2, <2>1, <3>1, SettledStep
  <2>3. CASE ReloadWrite(p) \/ ReloadRollback(p)
    <3>1. rpc'[p] \in {"restart", "restartOld"}
      BY <1>1, <2>3 DEF ReloadWrite, ReloadRollback, Goto
    <3>2. QED
      BY <1>2, <3>1 DEF LoadedInv, Settled
  <2>4. CASE ReloadRestart(p) \/ ReloadRestartOld(p)
    <3>1. rpc'[p] \in {"started", "rolledBack"} /\ pc'[p] = "Shutdown"
      BY <1>1, <2>4 DEF ReloadRestart, ReloadRestartOld, CallRestart, Call, Goto
    <3>2. QED
      BY <1>2, <3>1 DEF LoadedInv, Settled
  <2>5. QED
    BY <1>6, <2>2, <2>3, <2>4 DEF ReloadStep
<1>7. CASE FaultStep
  BY <1>1, <1>2, <1>7 DEF FaultStep, LoadedInv
<1>8. ASSUME NEW p \in Callers, WrapperStep(p) PROVE LoadedInv'
  <2>1. UNCHANGED <<file, ioFailures, rpc>>
    BY <1>8, OutsideServer
  <2>2. CASE RunRefused(p) \/ RunReturn(p) \/ GetState(p) \/ ShutdownBegin(p)
    <3>1. UNCHANGED <<svc, loaded>> /\ (Settled' => Settled)
      BY <1>1, <2>1, <2>2 DEF RunRefused, RunReturn, GetState, ShutdownBegin, Return, Settled
    <3>2. QED
      BY <1>2, <2>1, <3>1, SettledStep
  <2>3. CASE ShutdownNoCollector(p) \/ ShutdownEnd(p) \/ ShutdownSent(p)
    <3>1. svc' = Nil
      BY <2>3 DEF ShutdownNoCollector, ShutdownEnd, ShutdownSent, LoadedInv
    <3>2. QED
      BY <1>2, <3>1 DEF LoadedInv
  <2>4. CASE RunLaunch(p)
    <3>1. loaded'[svc'] = Nil
      BY <1>1, <2>4 DEF RunLaunch
    <3>2. QED
      BY <1>2, <3>1 DEF LoadedInv
  <2>5. QED
    BY <1>8, <2>2, <2>3, <2>4 DEF WrapperStep, CollectorStep, CallerStep
<1>9. ASSUME NEW i \in Instances, InstanceGoStep(i) \/ InstanceStartStep(i) \/ InstanceDies(i)
      PROVE LoadedInv'
  <2>1. UNCHANGED <<file, ioFailures, rpc>>
    BY <1>9, OutsideServer
  <2>2. UNCHANGED <<svc, pc>>
    BY <1>9, OutsideSteps DEF InstanceGoStep, InstanceStartStep, InstanceDies, CollectorGoStep,
       CollectorStartStep, CollectorDies
  <2>3. Settled' => Settled
    BY <2>1, <2>2 DEF Settled
  <2>4. CASE SvcStarted(i)
    <3>1. loaded' = [loaded EXCEPT ![i] = file]
      BY <2>4 DEF SvcStarted
    <3>2. QED
      BY <1>1, <1>2, <2>1, <2>2, <2>3, <3>1 DEF LoadedInv
  <2>5. CASE ~SvcStarted(i)
    <3>1. UNCHANGED loaded
      BY <1>9, <2>5 DEF InstanceGoStep, InstanceStartStep, InstanceDies, CollectorGoStep,
         CollectorStartStep, CollectorDies, GoStep, SvcStartStep, SvcStartFailed, SvcClosed, SvcExits,
         SvcStop, SvcAsyncError, SvcClosing, ReportError, SendColErr, PollRunning, PollSend, PollCancelled
    <3>2. QED
      BY <1>2, <2>1, <2>2, <2>3, <3>1, SettledStep
  <2>6. QED
    BY <2>4, <2>5
<1>10. CASE Exited \/ UNCHANGED vars
  BY <1>10 DEF Exited, vars, LoadedInv, Settled
<1>11. QED
  BY <1>3, <1>4, <1>5, <1>6, <1>7, <1>8, <1>9, <1>10 DEF Next

\* A running collector has loaded something, in the process as in the wrapper.
LEMMA ProcessNilMeansLoaded == Spec => []NilMeansLoaded
<1>1. Init => NilMeansLoaded
  BY InitInv DEF Init, BaseInit
<1>2. ServerInv /\ NilMeansLoaded /\ [Next]_vars => NilMeansLoaded'
  BY WrapperUse, LoadedStep DEF ServerInv
<1>3. QED
  BY <1>1, <1>2, ServerInvariant, PTL DEF Spec

\* For any configurations, good and bad, and any number of messages: between two messages,
\* while no file operation and no report has failed, what runs, what was acknowledged, the
\* file, its hash and the effective configuration agree.
THEOREM ConfigurationsAgree == ServerWaits => (Spec => []ConfigsAgree)
<1> SUFFICES ASSUME ServerWaits PROVE Spec => []ConfigsAgree
  OBVIOUS
<1>1. Init => ControlInv /\ AppliedInv /\ FileInv /\ LoadedInv
  BY Given DEF Init, BaseInit, CollInit, ServerInit, ControlInv, AppliedInv, AppliedIsInFile, FileInv,
     StartInv, LoadedInv
<1>2. ServerInv /\ ControlInv /\ [Next]_vars => ControlInv'
  BY ControlStep
<1>3. ServerInv /\ ControlInv /\ AppliedInv /\ [Next]_vars => AppliedInv'
  BY AppliedStep
<1>4. ServerInv /\ ControlInv /\ AppliedInv /\ FileInv /\ [Next]_vars => FileInv'
  BY FileStep
<1>5. ServerInv /\ ControlInv /\ LoadedInv /\ [Next]_vars => LoadedInv'
  BY RunsFileStep
<1>6. ServerInv /\ ControlInv /\ FileInv /\ LoadedInv /\ NilMeansLoaded => ConfigsAgree
  <2> SUFFICES ASSUME ServerInv, ControlInv, FileInv, LoadedInv, NilMeansLoaded, Clean
               PROVE  /\ Up => loaded[svc] = Expected
                      /\ initialConfigReceived => currentHash = file
                      /\ (Up /\ acked # Nil) => GetEffectiveConfig = loaded[svc]
    BY DEF ConfigsAgree, Expected
  <2>1. AnswerInv /\ cpc = "idle" /\ ioFailures = 0 /\ mpc = "serve"
    BY DEF Clean, Quiet, FileInv
  <2>2. Settled
    BY <2>1 DEF ControlInv, Settled, Reloaders
  <2>3. file = Expected
    BY <2>1 DEF AnswerInv
  <2>4. Up => loaded[svc] = file
    <3>1. svc \in Instances \cup {Nil}
      BY DEF ServerInv, CollInv, TypeOK
    <3>2. QED
      BY <2>1, <2>2, <3>1 DEF Up, NilMeansLoaded, LoadedInv
  <2>5. acked # Nil => ~runningNopConfig
    BY <2>1 DEF AnswerInv
  <2>6. acked # Nil => GetEffectiveConfig = file
    BY <2>5, Zenon DEF GetEffectiveConfig
  <2>7. initialConfigReceived => currentHash = file
    BY <2>1, <2>3 DEF AnswerInv
  <2>8. QED
    BY <2>3, <2>4, <2>6, <2>7
<1>7. QED
  BY <1>1, <1>2, <1>3, <1>4, <1>5, <1>6, ServerInvariant, ProcessNilMeansLoaded, PTL DEF Spec
=============================================================================

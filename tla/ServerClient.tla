---------------------------- MODULE ServerClient ----------------------------
(***************************************************************************)
(* The collector under OpAMP: serverClient of opamp/server_client.go and   *)
(* agentConfigManager of opamp/config_manager.go, composed with            *)
(* ensureRunning, main and the WrappedCollector.                           *)
(*                                                                         *)
(* Three goroutines call the wrapper: Main (Start and Stop), Callback (the *)
(* receive loop of opamp-go, which hands over one message at a time) and   *)
(* the Watcher.  A configuration stands for its bytes, and fileHash is     *)
(* taken to be injective: a hash is the configuration it was computed of.  *)
(***************************************************************************)
EXTENDS BaseClient

CONSTANTS Callback,     \* receive goroutine of opamp-go
          Received,     \* receivedInitialConfig: the file as it was given
          Initial,      \* the same with the instance id UpsertInstanceID adds
          Noop,         \* initialNopConfig()
          Torn,         \* what a failed os.WriteFile leaves of a file
          Remote,       \* configurations the server sends
          NoConfig,     \* a remote config without the key collector.yaml
          MaxIOFaults,  \* bound: file operations and status reports that fail
          ServerWaits   \* the server sends nothing before Start has returned

ASSUME ServerClientAssumption ==
    /\ Callers = {Main, Watcher, Callback}
    /\ Callback \notin {Main, Watcher}
    /\ Remote \cup {Initial, Noop, Torn} = Configs
    /\ NoConfig \notin Configs
    /\ Torn \in BadConfigs
    /\ MaxIOFaults \in Nat
    /\ ServerWaits \in BOOLEAN
    /\ ErrCap = 1

VARIABLES rpc,          \* control inside reload, per goroutine
          rarg,         \* reload's argument
          rerr,         \* reload's result
          reloadMux,    \* baseClient.reloadMux
          rollback,     \* the file <path>.rollback
          opamp,        \* the opamp-go client: off, on, stopped
          cpc,          \* control of the Callback goroutine
          msg,          \* the message it handles
          changed,      \* what Apply returned
          applyErr,
          currentHash,  \* remoteControlledConfig.currentHash
          initialConfigReceived,
          runningNopConfig,
          acked,        \* history: the last configuration reported as APPLIED
          ioFailures,   \* file operations and status reports that failed so far
          faults        \* history: the kinds of those that did

reloadVars  == <<rpc, rarg, rerr, reloadMux, rollback>>
handlerVars == <<opamp, cpc, msg, changed, applyErr, acked>>
configVars  == <<currentHash, initialConfigReceived, runningNopConfig>>
faultVars   == <<ioFailures, faults>>
serverVars  == <<reloadVars, handlerVars, configVars, faultVars>>
vars        == <<collVars, baseVars, serverVars>>

Reloaders  == {Main, Callback}
FaultKinds == {"backup", "write", "rollback", "hash", "status"}

ServerTypeOK ==
    /\ BaseTypeOK
    /\ rpc \in [Reloaders -> {"none", "lock", "backup", "write", "restart", "started",
                              "rollback", "restartOld", "rolledBack", "done"}]
    /\ rarg \in [Reloaders -> Configs]
    /\ rerr \in [Reloaders -> Error]
    /\ reloadMux \in Reloaders \cup {Nil}
    /\ rollback \in Configs \cup {Nil}
    /\ opamp \in {"off", "on", "stopped"}
    /\ cpc \in {"idle", "apply", "reload", "hash", "status", "effective"}
    /\ msg \in Remote \cup {NoConfig}
    /\ changed \in BOOLEAN
    /\ applyErr \in Error
    /\ currentHash \in Configs \cup {Nil}
    /\ initialConfigReceived \in BOOLEAN
    /\ runningNopConfig \in BOOLEAN
    /\ acked \in Remote \cup {Nil}
    /\ ioFailures \in 0..MaxIOFaults
    /\ faults \subseteq FaultKinds

ServerInit ==
    /\ rpc = [p \in Reloaders |-> "none"]
    /\ rarg = [p \in Reloaders |-> Noop]
    /\ rerr = [p \in Reloaders |-> "nil"]
    /\ reloadMux = Nil
    /\ rollback = Nil
    /\ opamp = "off"
    /\ cpc = "idle"
    /\ msg = NoConfig
    /\ changed = FALSE
    /\ applyErr = "nil"
    /\ currentHash = Initial
    /\ initialConfigReceived = FALSE
    /\ runningNopConfig = FALSE
    /\ acked = Nil
    /\ ioFailures = 0
    /\ faults = {}

\* NewServerClient has read the file, added the instance id and hashed it.
Init == BaseInit /\ file = Initial /\ ServerInit

-----------------------------------------------------------------------------
(* reload(contents), called by Start and by Apply *)

ReloadCall(p, contents) ==
    /\ rpc' = [rpc EXCEPT ![p] = "lock"]
    /\ rarg' = [rarg EXCEPT ![p] = contents]
    /\ UNCHANGED <<rerr, reloadMux, rollback>>

Goto(p, label) == rpc' = [rpc EXCEPT ![p] = label]

\* The caller takes reload's result; reload's frame is gone.
ReloadTaken(p) ==
    /\ Goto(p, "none")
    /\ rarg' = [rarg EXCEPT ![p] = Noop]
    /\ rerr' = [rerr EXCEPT ![p] = "nil"]
    /\ UNCHANGED <<reloadMux, rollback>>

\* Mutants of ReloadReturn: isReloading is not cleared, reloadMux not unlocked.
ReloadReturnStillReloading(p, e) ==
    /\ Goto(p, "done")
    /\ rerr' = [rerr EXCEPT ![p] = e]
    /\ reloadMux' = Nil
    /\ UNCHANGED <<rarg, baseVars, handlerVars, configVars>>

ReloadReturnLocked(p, e) ==
    /\ Goto(p, "done")
    /\ rerr' = [rerr EXCEPT ![p] = e]
    /\ isReloading' = FALSE
    /\ UNCHANGED <<rarg, reloadMux, err, stopped, wpc, mpc, handlerVars, configVars>>

\* The deferred function: isReloading is cleared, then reloadMux unlocked.
ReloadReturn(p, e) ==
    /\ Goto(p, "done")
    /\ rerr' = [rerr EXCEPT ![p] = e]
    /\ reloadMux' = Nil
    /\ isReloading' = FALSE
    /\ UNCHANGED <<rarg, err, stopped, wpc, mpc, handlerVars, configVars>>

ReloadLock(p) ==
    /\ rpc[p] = "lock"
    /\ reloadMux = Nil
    /\ reloadMux' = p
    /\ isReloading' = TRUE
    /\ Goto(p, "backup")
    /\ UNCHANGED <<collVars, err, stopped, wpc, mpc, rarg, rerr, rollback,
                   handlerVars, configVars>>

ReloadBackup(p) ==
    /\ rpc[p] = "backup"
    /\ rollback' = file
    /\ Goto(p, "write")
    /\ UNCHANGED <<collVars, baseVars, rarg, rerr, reloadMux, handlerVars, configVars>>

\* Mutant of ReloadBackupFails: reload goes on with what the rollback file holds.
ReloadBackupIgnored(p) ==
    /\ rpc[p] = "backup"
    /\ rollback # Nil
    /\ Goto(p, "write")
    /\ UNCHANGED <<collVars, baseVars, rarg, rerr, reloadMux, rollback, handlerVars, configVars>>

ReloadBackupFails(p) ==
    /\ rpc[p] = "backup"
    /\ rollback' \in {rollback, Torn}
    /\ ReloadReturn(p, "err")
    /\ UNCHANGED collVars

WriteConfigFile(c) ==
    /\ file' = c
    /\ UNCHANGED <<ctxDone, settingsOK, mux, svc, errChan, instVars, callVars>>

ReloadWrite(p) ==
    /\ rpc[p] = "write"
    /\ WriteConfigFile(rarg[p])
    /\ Goto(p, "restart")
    /\ UNCHANGED <<baseVars, rarg, rerr, reloadMux, rollback, handlerVars, configVars>>

\* Mutant of ReloadWriteFails: the error of os.WriteFile is not looked at.
ReloadWriteIgnored(p) ==
    /\ rpc[p] = "write"
    /\ \E c \in {file, Torn} : WriteConfigFile(c)
    /\ Goto(p, "restart")
    /\ UNCHANGED <<baseVars, rarg, rerr, reloadMux, rollback, handlerVars, configVars>>

\* os.WriteFile truncates before it writes; reload returns without a rollback.
ReloadWriteFails(p) ==
    /\ rpc[p] = "write"
    /\ \E c \in {file, Torn} : WriteConfigFile(c)
    /\ ReloadReturn(p, "err")
    /\ UNCHANGED rollback

\* Mutant of ReloadRestart: the old collector is forgotten before the Restart.
ReloadRestartForgetting(p) ==
    /\ rpc[p] = "restart"
    /\ pc[p] = "idle"
    /\ svc' = Nil
    /\ pc' = [pc EXCEPT ![p] = "Run"]
    /\ Goto(p, "started")
    /\ UNCHANGED <<file, ctxDone, settingsOK, mux, errChan, instVars, restarting, res>>
    /\ UNCHANGED <<baseVars, rarg, rerr, reloadMux, rollback, handlerVars, configVars>>

ReloadRestart(p) ==
    /\ rpc[p] = "restart"
    /\ CallRestart(p)
    /\ Goto(p, "started")
    /\ UNCHANGED <<baseVars, rarg, rerr, reloadMux, rollback, handlerVars, configVars>>

ReloadStarted(p) ==
    /\ rpc[p] = "started"
    /\ pc[p] = "idle"
    /\ res[p] = "nil"
    /\ ReloadReturn(p, "nil")
    /\ UNCHANGED <<collVars, rollback>>

ReloadStartFailed(p) ==
    /\ rpc[p] = "started"
    /\ pc[p] = "idle"
    /\ res[p] = "err"
    /\ Goto(p, "rollback")
    /\ UNCHANGED <<collVars, baseVars, rarg, rerr, reloadMux, rollback, handlerVars, configVars>>

\* rollbackFunc.
ReloadRollback(p) ==
    /\ rpc[p] = "rollback"
    /\ WriteConfigFile(rollback)
    /\ Goto(p, "restartOld")
    /\ UNCHANGED <<baseVars, rarg, rerr, reloadMux, rollback, handlerVars, configVars>>

\* Its failure is logged, and the restart happens all the same.
ReloadRollbackFails(p) ==
    /\ rpc[p] = "rollback"
    /\ \E c \in {file, Torn} : WriteConfigFile(c)
    /\ Goto(p, "restartOld")
    /\ UNCHANGED <<baseVars, rarg, rerr, reloadMux, rollback, handlerVars, configVars>>

ReloadRestartOld(p) ==
    /\ rpc[p] = "restartOld"
    /\ CallRestart(p)
    /\ Goto(p, "rolledBack")
    /\ UNCHANGED <<baseVars, rarg, rerr, reloadMux, rollback, handlerVars, configVars>>

\* Mutant of ReloadRolledBack: reload returns what the second Restart returned.
ReloadRolledBackAsApplied(p) ==
    /\ rpc[p] = "rolledBack"
    /\ pc[p] = "idle"
    /\ ReloadReturn(p, res[p])
    /\ UNCHANGED <<collVars, rollback>>

\* Whatever the second Restart returned, reload returns the first error.
ReloadRolledBack(p) ==
    /\ rpc[p] = "rolledBack"
    /\ pc[p] = "idle"
    /\ ReloadReturn(p, "err")
    /\ UNCHANGED <<collVars, rollback>>

ReloadStep(p) ==
    /\ Alive
    /\ \/ ReloadLock(p) \/ ReloadBackup(p) \/ ReloadWrite(p)
       \/ ReloadRestart(p) \/ ReloadStarted(p) \/ ReloadStartFailed(p)
       \/ ReloadRollback(p) \/ ReloadRestartOld(p) \/ ReloadRolledBack(p)
    /\ UNCHANGED faultVars

-----------------------------------------------------------------------------
(* Callback: onMessageFuncHandler, onRemoteConfigHandler, Apply *)

\* opamp-go delivers a message; handlers of two messages never overlap.
OnMessage ==
    /\ opamp = "on"
    /\ cpc = "idle"
    /\ ServerWaits => mpc \notin {"nop", "reload"}
    /\ msg' \in Remote \cup {NoConfig}
    /\ cpc' = "apply"
    /\ UNCHANGED <<collVars, baseVars, reloadVars, configVars, opamp, changed, applyErr, acked,
                   faultVars>>

ApplyResult(c, e) ==
    /\ changed' = c
    /\ applyErr' = e
    /\ cpc' = "status"
    /\ UNCHANGED <<opamp, msg, acked>>

\* Apply's early returns: nothing for the collector, or nothing new.
ApplyUnchanged ==
    /\ cpc = "apply"
    /\ msg = NoConfig \/ (initialConfigReceived /\ currentHash = msg)
    /\ ApplyResult(FALSE, "nil")
    /\ UNCHANGED <<collVars, baseVars, reloadVars, configVars>>

ApplyReload ==
    /\ cpc = "apply"
    /\ msg # NoConfig
    /\ ~(initialConfigReceived /\ currentHash = msg)
    /\ ReloadCall(Callback, msg)
    /\ cpc' = "reload"
    /\ UNCHANGED <<collVars, baseVars, configVars, opamp, msg, changed, applyErr, acked>>

ApplyFailed ==
    /\ cpc = "reload"
    /\ rpc[Callback] = "done"
    /\ rerr[Callback] = "err"
    /\ ReloadTaken(Callback)
    /\ ApplyResult(FALSE, "err")
    /\ UNCHANGED <<collVars, baseVars, configVars>>

ApplyReloaded ==
    /\ cpc = "reload"
    /\ rpc[Callback] = "done"
    /\ rerr[Callback] = "nil"
    /\ ReloadTaken(Callback)
    /\ cpc' = "hash"
    /\ UNCHANGED <<collVars, baseVars, configVars, opamp, msg, changed, applyErr, acked>>

UpdateCurrentHash ==
    /\ cpc = "hash"
    /\ currentHash' = file
    /\ initialConfigReceived' = TRUE
    /\ ApplyResult(TRUE, "nil")
    /\ UNCHANGED <<collVars, baseVars, reloadVars, runningNopConfig>>

\* The file cannot be read: the hash becomes that of no bytes.
UpdateCurrentHashFails ==
    /\ cpc = "hash"
    /\ currentHash' = Nil
    /\ ApplyResult(TRUE, "err")
    /\ UNCHANGED <<collVars, baseVars, reloadVars, initialConfigReceived, runningNopConfig>>

\* The handler returns; its locals are gone.
HandlerReturns ==
    /\ cpc' = "idle"
    /\ msg' = NoConfig
    /\ changed' = FALSE
    /\ applyErr' = "nil"
    /\ UNCHANGED opamp

\* SetRemoteConfigStatus with APPLIED or FAILED.
SetRemoteConfigStatus ==
    /\ cpc = "status"
    /\ acked' = IF applyErr = "nil" /\ msg # NoConfig THEN msg ELSE acked
    /\ IF changed
         THEN cpc' = "effective" /\ UNCHANGED <<opamp, msg, changed, applyErr>>
         ELSE HandlerReturns
    /\ UNCHANGED <<collVars, baseVars, reloadVars, configVars>>

\* It is refused: the handler returns before it clears runningNopConfig.
SetRemoteConfigStatusFails ==
    /\ cpc = "status"
    /\ HandlerReturns
    /\ UNCHANGED <<collVars, baseVars, reloadVars, configVars, acked>>

\* runningNopConfig.Store(false) and UpdateEffectiveConfig, which sends what
\* GetEffectiveConfig answers.
UpdateEffectiveConfig ==
    /\ cpc = "effective"
    /\ runningNopConfig' = FALSE
    /\ HandlerReturns
    /\ UNCHANGED <<collVars, baseVars, reloadVars, currentHash, initialConfigReceived, acked>>

\* The callback GetEffectiveConfig.
GetEffectiveConfig == IF runningNopConfig THEN Received ELSE file

CallbackStep ==
    /\ Alive
    /\ \/ ApplyUnchanged \/ ApplyReload \/ ApplyFailed \/ ApplyReloaded
       \/ UpdateCurrentHash \/ SetRemoteConfigStatus \/ UpdateEffectiveConfig
    /\ UNCHANGED faultVars

\* A file operation of reload or of Apply fails, or a status report does.
FaultStep ==
    /\ Alive
    /\ ioFailures < MaxIOFaults
    /\ ioFailures' = ioFailures + 1
    /\ \/ \E p \in Reloaders : \/ ReloadBackupFails(p) /\ faults' = faults \cup {"backup"}
                               \/ ReloadWriteFails(p) /\ faults' = faults \cup {"write"}
                               \/ ReloadRollbackFails(p) /\ faults' = faults \cup {"rollback"}
       \/ UpdateCurrentHashFails /\ faults' = faults \cup {"hash"}
       \/ SetRemoteConfigStatusFails /\ faults' = faults \cup {"status"}

-----------------------------------------------------------------------------
(* main: Start, the wait of runInteractive, Stop *)

\* SetAgentDescription, SetHealth and opampClient.Start; messages may arrive
\* as soon as the client has started.
StartOpamp ==
    /\ mpc = "start"
    /\ mpc' = "nop"
    /\ opamp' = "on"
    /\ UNCHANGED <<collVars, err, stopped, isReloading, wpc, reloadVars, configVars,
                   cpc, msg, changed, applyErr, acked>>

\* One of them fails, or initialNopConfig does: main ends the process.
StartFails ==
    /\ mpc \in {"start", "nop"}
    /\ mpc' = "failed"
    /\ UNCHANGED <<collVars, err, stopped, isReloading, wpc, serverVars>>

\* runningNopConfig.Store(true) and the call of reload(noopConfig).
StartNoop ==
    /\ mpc = "nop"
    /\ runningNopConfig' = TRUE
    /\ ReloadCall(Main, Noop)
    /\ mpc' = "reload"
    /\ UNCHANGED <<collVars, err, stopped, isReloading, wpc, handlerVars,
                   currentHash, initialConfigReceived>>

StartReturns ==
    /\ mpc = "reload"
    /\ rpc[Main] = "done"
    /\ ReloadTaken(Main)
    /\ IF rerr[Main] = "nil"
         THEN mpc' = "serve" /\ wpc' = "select"
         ELSE mpc' = "failed" /\ UNCHANGED wpc
    /\ UNCHANGED <<collVars, err, stopped, isReloading, handlerVars, configVars>>

\* SIGINT or SIGTERM.
ServeSignal ==
    /\ mpc = "serve"
    /\ mpc' = "stop"
    /\ UNCHANGED <<collVars, err, stopped, isReloading, wpc, serverVars>>

StopShutdownReturns ==
    /\ mpc = "shutdown"
    /\ pc[Main] = "idle"
    /\ mpc' = "stopOpamp"
    /\ UNCHANGED <<collVars, err, stopped, isReloading, wpc, serverVars>>

\* opampClient.Stop: no further message is handed over ...
StopOpamp ==
    /\ mpc = "stopOpamp"
    /\ opamp' = "stopped"
    /\ mpc' = "waitOpamp"
    /\ UNCHANGED <<collVars, err, stopped, isReloading, wpc, reloadVars, configVars,
                   cpc, msg, changed, applyErr, acked>>

\* ... and it returns when the handler has returned or after the 5s of main's
\* stopTimeoutCtx.
StopOpampReturns ==
    /\ mpc = "waitOpamp"
    /\ mpc' = "receive"
    /\ UNCHANGED <<collVars, err, stopped, isReloading, wpc, serverVars>>

MainStep ==
    /\ \/ StartOpamp \/ StartFails \/ StartNoop \/ StartReturns
       \/ (ServeError \/ StopShutdown \/ StopReceive) /\ UNCHANGED serverVars
       \/ StopShutdownReturns \/ StopOpamp \/ StopOpampReturns
    /\ UNCHANGED faultVars

-----------------------------------------------------------------------------
Exited == ~Alive /\ UNCHANGED vars

WatchStep == WatcherStep /\ UNCHANGED serverVars
WrapperStep(p) == CollectorStep(p) /\ UNCHANGED serverVars
InstanceGoStep(i) == CollectorGoStep(i) /\ UNCHANGED serverVars
InstanceStartStep(i) == CollectorStartStep(i) /\ UNCHANGED serverVars
InstanceDies(i) == CollectorDies(i) /\ UNCHANGED serverVars

Next ==
    \/ MainStep \/ ServeSignal \/ WatchStep
    \/ (Alive /\ OnMessage) \/ CallbackStep \/ FaultStep
    \/ \E p \in Reloaders : ReloadStep(p)
    \/ \E p \in Callers : WrapperStep(p)
    \/ \E i \in Instances : InstanceGoStep(i) \/ InstanceStartStep(i) \/ InstanceDies(i)
    \/ Exited

\* Goroutines are scheduled; sync.Mutex hands itself over to a waiter that has
\* waited for a millisecond (hence strong fairness for the lock operations).
Fairness ==
    /\ WF_vars(MainStep) /\ WF_vars(WatchStep) /\ WF_vars(CallbackStep)
    /\ \A p \in Reloaders : SF_vars(ReloadStep(p))
    /\ \A p \in Callers : SF_vars(WrapperStep(p))
    /\ \A i \in Instances : WF_vars(InstanceGoStep(i)) /\ WF_vars(InstanceStartStep(i))

Spec == Init /\ [][Next]_vars

FairSpec == Spec /\ Fairness

-----------------------------------------------------------------------------
(* Properties.                                                              *)

Quiet == mpc = "serve" /\ cpc = "idle"
Clean == Quiet /\ ioFailures = 0
Up    == svc # Nil /\ state[svc] = "Running"

\* Between two messages, while no file operation and no report has failed, what
\* runs, what was acknowledged, the file, its hash and what is reported agree:
\*  - a running collector runs the configuration that the server was last told is
\*    APPLIED, or the nop one before the first: a refused configuration is rolled
\*    back, an unchanged one is not lost;
\*  - once a configuration was received, currentHash is the hash of the file, so
\*    that Apply compares with what the collector was started from;
\*  - GetEffectiveConfig reports what runs, once a configuration was applied.
ConfigsAgree ==
    Clean =>
      /\ Up => loaded[svc] = (IF acked = Nil THEN Noop ELSE acked)
      /\ initialConfigReceived => currentHash = file
      /\ (Up /\ acked # Nil) => GetEffectiveConfig = loaded[svc]

\* Between two messages, whatever file operations and reports have failed:
\*  - a running collector was started from what the file holds, unless a write
\*    left the file torn: also after a rollback that failed half-way;
\*  - while only backups and writes of the new configuration have failed, it runs
\*    what the server was last told is APPLIED, or the nop one before the first: a
\*    backup that failed leaves an older rollback file behind, and no later
\*    rollback may bring that one back.
\* The second does not hold after a failed rollback: see the README.
RunsWhatWasConfirmed ==
    (Quiet /\ Up) =>
      /\ file \in {loaded[svc], Torn}
      /\ faults \subseteq {"backup", "write"} =>
           loaded[svc] = (IF acked = Nil THEN Noop ELSE acked)

\* A new configuration is reported as APPLIED only if it is what the file and
\* the hash now hold, whatever file operation failed on the way: reload never
\* takes the rolled-back or the half-written file for the new one.
AppliedIsInFile ==
    (cpc = "status" /\ changed /\ applyErr = "nil")
        => (file = msg /\ currentHash = msg /\ initialConfigReceived)

\* Documented (docs/architecture-overview.md): the collector starts with a nop
\* configuration and waits for the server's real one.  So once the server was
\* told that a configuration is applied, no collector runs the nop one.
NopOnlyBeforeFirstConfig ==
    Quiet /\ Up /\ acked # Nil => loaded[svc] # Noop

\* A collector that is down while main serves and no message is handled makes
\* main leave (ensureRunning), unless a new message gives it another chance.  A
\* server that never pauses can postpone this for ever: isReloading hides it.
DeathNoticedWhenQuiet ==
    (Quiet /\ svc # Nil /\ state[svc] = "Closed") ~> (~Quiet \/ Up)

\* A configuration that was received is answered, unless main stops.
EveryConfigAnswered == (cpc = "apply") ~> (cpc = "idle" \/ mpc # "serve")

\* The Shutdown of Stop found the collector between the two halves of a Restart
\* and is blocked sending on the full errChan.
CaughtInRestart == pc[Main] = "ShutdownSend" /\ svc = Nil
=============================================================================

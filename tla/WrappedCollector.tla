--------------------------- MODULE WrappedCollector ---------------------------
(***************************************************************************)
(* The collector wrapper of siginsightcol/collector.go: Run, Shutdown,     *)
(* Restart and GetState, called concurrently by Callers, together with the *)
(* two goroutines each Run leaves behind (the one that executes svc.Run    *)
(* and the one that polls for the Running state) and the life cycle of the *)
(* embedded otelcol.Collector, which is external and may fail at will.     *)
(*                                                                         *)
(* An Instance is one otelcol.Collector together with the colErrorChannel  *)
(* and the goroutines of the Run that made it.  Instances are memory: once *)
(* nothing can reach an instance any more (Free) a later Run may use it    *)
(* again, so the number of Run calls is unbounded.                         *)
(***************************************************************************)
CONSTANTS Callers,      \* goroutines that hold the *WrappedCollector
          Instances,    \* otelcol.Collector objects
          Configs,      \* contents the file at configPaths can have
          BadConfigs,   \* contents no collector starts with
          Nil           \* nil pointer, no owner, nothing loaded

ASSUME CollectorAssumption ==
    /\ Nil \notin Callers \cup Instances \cup Configs
    /\ BadConfigs \subseteq Configs

VARIABLES file,        \* the configuration file at configPaths
          ctxDone,     \* the context given to Run is cancelled
          settingsOK,  \* newOtelColSettings and NewCollector succeed
          mux,         \* wCol.mux: the caller that holds it
          svc,         \* wCol.svc
          errChan,     \* wCol.errChan, capacity 1
          state,       \* svc.GetState() of each instance
          loaded,      \* the configuration each instance has started with
          stopReq,     \* shutdownChan of each instance is closed
          goRun,       \* goroutine at lines 100-113; wg counts the ones not done
          exitErr,     \* what svc.Run returned, while the goroutine still needs it
          colErr,      \* colErrorChannel, capacity 1
          poller,      \* goroutine at lines 116-135
          pc,          \* where each caller is
          restarting,  \* the caller is inside Restart
          res          \* what the caller's last call returned

fileVars  == <<file, ctxDone, settingsOK>>
instVars  == <<state, loaded, stopReq, goRun, exitErr, colErr, poller>>
callVars  == <<pc, restarting, res>>
collVars  == <<fileVars, mux, svc, errChan, instVars, callVars>>

Error == {"nil", "err"}
Chan  == Error \cup {"empty"}       \* a channel of capacity one
State == {"Starting", "Running", "Closing", "Closed"}
Ops   == {"Run", "Shutdown", "GetState"}

TypeOK ==
    /\ file \in Configs
    /\ ctxDone \in BOOLEAN
    /\ settingsOK \in BOOLEAN
    /\ mux \in Callers \cup {Nil}
    /\ svc \in Instances \cup {Nil}
    /\ errChan \in Chan
    /\ state \in [Instances -> State]
    /\ loaded \in [Instances -> Configs \cup {Nil}]
    /\ stopReq \in [Instances -> BOOLEAN]
    /\ goRun \in [Instances -> {"run", "report", "send", "done"}]
    /\ exitErr \in [Instances -> Error]
    /\ colErr \in [Instances -> Chan]
    /\ poller \in [Instances -> {"poll", "send", "done"}]
    /\ pc \in [Callers -> Ops \cup {"idle", "RunWait", "ShutdownWait", "ShutdownSend"}]
    /\ restarting \in [Callers -> BOOLEAN]
    /\ res \in [Callers -> Error \cup State \cup {"Unknown"}]

CollInit ==
    /\ file \in Configs
    /\ ctxDone = FALSE
    /\ settingsOK \in BOOLEAN
    /\ mux = Nil
    /\ svc = Nil
    /\ errChan = "empty"
    /\ state = [i \in Instances |-> "Closed"]
    /\ loaded = [i \in Instances |-> Nil]
    /\ stopReq = [i \in Instances |-> FALSE]
    /\ goRun = [i \in Instances |-> "done"]
    /\ exitErr = [i \in Instances |-> "nil"]
    /\ colErr = [i \in Instances |-> "empty"]
    /\ poller = [i \in Instances |-> "done"]
    /\ pc = [p \in Callers |-> "idle"]
    /\ restarting = [p \in Callers |-> FALSE]
    /\ res = [p \in Callers |-> "nil"]

-----------------------------------------------------------------------------
(* Calls.  A caller that is not inside the wrapper enters an operation; it  *)
(* is back when pc is "idle", and res holds what the call returned.         *)

Call(p, op, restart) ==
    /\ pc[p] = "idle"
    /\ pc' = [pc EXCEPT ![p] = op]
    /\ restarting' = [restarting EXCEPT ![p] = restart]
    /\ res' = [res EXCEPT ![p] = "nil"]
    /\ UNCHANGED <<fileVars, mux, svc, errChan, instVars>>

CallRun(p)      == Call(p, "Run", FALSE)
CallShutdown(p) == Call(p, "Shutdown", FALSE)
CallRestart(p)  == Call(p, "Shutdown", TRUE)
CallGetState(p) == Call(p, "GetState", FALSE)

Return(p, r) ==
    /\ pc' = [pc EXCEPT ![p] = "idle"]
    /\ res' = [res EXCEPT ![p] = r]

\* Nothing that is still running refers to instance i: its svc.Run goroutine
\* has left and its poller has no send pending.  A poller that never saw the
\* Running state polls a closed collector for ever and affects nothing.
Free(i) == goRun[i] = "done" /\ poller[i] # "send" /\ svc # i

\* Run, early returns: the collector exists already, or cannot be created.
RunRefused(p) ==
    /\ pc[p] = "Run"
    /\ mux = Nil
    /\ svc # Nil \/ ~settingsOK
    /\ Return(p, "err")
    /\ UNCHANGED <<fileVars, mux, svc, errChan, instVars, restarting>>

\* Run up to the receive on colErrorChannel: mux stays locked.
RunLaunch(p) ==
    /\ pc[p] = "Run"
    /\ mux = Nil
    /\ svc = Nil
    /\ settingsOK
    /\ \E i \in Instances :
          /\ Free(i)
          /\ svc' = i
          /\ state' = [state EXCEPT ![i] = "Starting"]
          /\ loaded' = [loaded EXCEPT ![i] = Nil]
          /\ stopReq' = [stopReq EXCEPT ![i] = FALSE]
          /\ goRun' = [goRun EXCEPT ![i] = "run"]
          /\ colErr' = [colErr EXCEPT ![i] = "empty"]
          /\ poller' = [poller EXCEPT ![i] = "poll"]
    /\ mux' = p
    /\ pc' = [pc EXCEPT ![p] = "RunWait"]
    /\ UNCHANGED <<fileVars, errChan, exitErr, restarting, res>>

\* Run returns what colErrorChannel delivers and unlocks mux.
RunReturn(p) ==
    /\ pc[p] = "RunWait"
    /\ colErr[svc] # "empty"
    /\ colErr' = [colErr EXCEPT ![svc] = "empty"]
    /\ mux' = Nil
    /\ Return(p, colErr[svc])
    /\ UNCHANGED <<fileVars, svc, errChan, state, loaded, stopReq, goRun,
                   exitErr, poller, restarting>>

\* otelcol.Collector.Shutdown: effective while Starting or Running only.
RequestStop(i) ==
    stopReq' = [stopReq EXCEPT ![i] = @ \/ state[i] \in {"Starting", "Running"}]

\* Shutdown with a collector: svc.Shutdown, then wg.Wait with mux held.
ShutdownBegin(p) ==
    /\ pc[p] = "Shutdown"
    /\ mux = Nil
    /\ svc # Nil
    /\ RequestStop(svc)
    /\ mux' = p
    /\ pc' = [pc EXCEPT ![p] = "ShutdownWait"]
    /\ UNCHANGED <<fileVars, svc, errChan, state, loaded, goRun, exitErr,
                   colErr, poller, restarting, res>>

\* After Shutdown a Restart goes on to Run; mux is unlocked in between.
AfterShutdown(p) ==
    /\ mux' = Nil
    /\ pc' = [pc EXCEPT ![p] = IF restarting[p] THEN "Run" ELSE "idle"]
    /\ UNCHANGED <<fileVars, instVars, restarting, res>>

WgZero == \A i \in Instances : goRun[i] = "done"

\* Mutant of ShutdownEnd: Shutdown without wg.Wait.
ShutdownEndNoWait(p) ==
    /\ pc[p] = "ShutdownWait"
    /\ svc' = Nil
    /\ UNCHANGED errChan
    /\ AfterShutdown(p)

ShutdownEnd(p) ==
    /\ pc[p] = "ShutdownWait"
    /\ WgZero
    /\ svc' = Nil
    /\ UNCHANGED errChan
    /\ AfterShutdown(p)

\* Shutdown without a collector: a blocking send on errChan with mux held.
ShutdownNoCollector(p) ==
    /\ pc[p] = "Shutdown"
    /\ mux = Nil
    /\ svc = Nil
    /\ mux' = p
    /\ pc' = [pc EXCEPT ![p] = "ShutdownSend"]
    /\ UNCHANGED <<fileVars, svc, errChan, instVars, restarting, res>>

ShutdownSent(p) ==
    /\ pc[p] = "ShutdownSend"
    /\ errChan = "empty"
    /\ errChan' = "nil"
    /\ UNCHANGED svc
    /\ AfterShutdown(p)

GetState(p) ==
    /\ pc[p] = "GetState"
    /\ mux = Nil
    /\ Return(p, IF svc = Nil THEN "Unknown" ELSE state[svc])
    /\ UNCHANGED <<fileVars, mux, svc, errChan, instVars, restarting>>

CallerStep(p) ==
    \/ RunRefused(p) \/ RunLaunch(p) \/ RunReturn(p)
    \/ ShutdownBegin(p) \/ ShutdownEnd(p)
    \/ ShutdownNoCollector(p) \/ ShutdownSent(p)
    \/ GetState(p)

-----------------------------------------------------------------------------
(* The otelcol.Collector, external: it reads the file when it starts, may   *)
(* fail to start with any configuration, may stop by itself after a fatal   *)
(* component error, and stops when asked or when the context is cancelled.  *)

SvcStarted(i) ==
    /\ goRun[i] = "run"
    /\ state[i] = "Starting"
    /\ file \notin BadConfigs
    /\ state' = [state EXCEPT ![i] = "Running"]
    /\ loaded' = [loaded EXCEPT ![i] = file]
    /\ UNCHANGED <<fileVars, mux, svc, errChan, stopReq, goRun, exitErr,
                   colErr, poller, callVars>>

\* svc.Run returns r: the goroutine goes on to reportError.
SvcExits(i, r) ==
    /\ state' = [state EXCEPT ![i] = "Closed"]
    /\ exitErr' = [exitErr EXCEPT ![i] = r]
    /\ goRun' = [goRun EXCEPT ![i] = "report"]
    /\ UNCHANGED <<fileVars, mux, svc, errChan, loaded, stopReq, colErr,
                   poller, callVars>>

SvcStartFailed(i) ==
    /\ goRun[i] = "run"
    /\ state[i] = "Starting"
    /\ SvcExits(i, "err")

SvcClosing(i) ==
    /\ goRun[i] = "run"
    /\ state[i] = "Running"
    /\ state' = [state EXCEPT ![i] = "Closing"]
    /\ UNCHANGED <<fileVars, mux, svc, errChan, loaded, stopReq, goRun,
                   exitErr, colErr, poller, callVars>>

SvcStop(i) == (stopReq[i] \/ ctxDone) /\ SvcClosing(i)

SvcAsyncError(i) == SvcClosing(i)

SvcClosed(i) ==
    /\ goRun[i] = "run"
    /\ state[i] = "Closing"
    /\ \E r \in Error : SvcExits(i, r)

-----------------------------------------------------------------------------
(* The goroutines of Run.                                                   *)

\* Mutant of ReportError: nothing is sent on errChan.
ReportErrorSilent(i) ==
    /\ goRun[i] = "report"
    /\ goRun' = [goRun EXCEPT ![i] = "send"]
    /\ UNCHANGED <<fileVars, mux, svc, errChan, state, loaded, stopReq, exitErr,
                   colErr, poller, callVars>>

\* reportError: a send on errChan that is dropped when the channel is full.
ReportError(i) ==
    /\ goRun[i] = "report"
    /\ errChan' = IF errChan = "empty" THEN exitErr[i] ELSE errChan
    /\ goRun' = [goRun EXCEPT ![i] = "send"]
    /\ UNCHANGED <<fileVars, mux, svc, state, loaded, stopReq, exitErr,
                   colErr, poller, callVars>>

\* Mutant of SendColErr: no send on colErrorChannel.
SendColErrSilent(i) ==
    /\ goRun[i] = "send"
    /\ exitErr' = [exitErr EXCEPT ![i] = "nil"]
    /\ goRun' = [goRun EXCEPT ![i] = "done"]
    /\ UNCHANGED <<fileVars, mux, svc, errChan, state, loaded, stopReq, colErr,
                   poller, callVars>>

\* colErrorChannel <- err, then wg.Done.
SendColErr(i) ==
    /\ goRun[i] = "send"
    /\ colErr[i] = "empty"
    /\ colErr' = [colErr EXCEPT ![i] = exitErr[i]]
    /\ exitErr' = [exitErr EXCEPT ![i] = "nil"]
    /\ goRun' = [goRun EXCEPT ![i] = "done"]
    /\ UNCHANGED <<fileVars, mux, svc, errChan, state, loaded, stopReq,
                   poller, callVars>>

\* Mutant of PollRunning: any state counts as Running.
PollAnyState(i) ==
    /\ poller[i] = "poll"
    /\ poller' = [poller EXCEPT ![i] = "send"]
    /\ UNCHANGED <<fileVars, mux, svc, errChan, state, loaded, stopReq,
                   goRun, exitErr, colErr, callVars>>

PollRunning(i) ==
    /\ poller[i] = "poll"
    /\ state[i] = "Running"
    /\ poller' = [poller EXCEPT ![i] = "send"]
    /\ UNCHANGED <<fileVars, mux, svc, errChan, state, loaded, stopReq,
                   goRun, exitErr, colErr, callVars>>

PollSend(i) ==
    /\ poller[i] = "send"
    /\ colErr[i] = "empty"
    /\ colErr' = [colErr EXCEPT ![i] = "nil"]
    /\ poller' = [poller EXCEPT ![i] = "done"]
    /\ UNCHANGED <<fileVars, mux, svc, errChan, state, loaded, stopReq,
                   goRun, exitErr, callVars>>

\* The context was cancelled while the poller slept: svc.Shutdown and leave.
PollCancelled(i) ==
    /\ poller[i] = "poll"
    /\ ctxDone
    /\ RequestStop(i)
    /\ poller' = [poller EXCEPT ![i] = "done"]
    /\ UNCHANGED <<fileVars, mux, svc, errChan, state, loaded, goRun,
                   exitErr, colErr, callVars>>

\* What must happen once it can: goroutines run, collectors obey.
GoStep(i) ==
    \/ SvcStop(i) \/ SvcClosed(i) \/ ReportError(i) \/ SendColErr(i)
    \/ PollRunning(i) \/ PollSend(i) \/ PollCancelled(i)

SvcStartStep(i) == SvcStarted(i) \/ SvcStartFailed(i)

CollStep == \E i \in Instances : GoStep(i) \/ SvcStartStep(i) \/ SvcAsyncError(i)

-----------------------------------------------------------------------------
(* The wrapper on its own: any caller may call anything at any time.        *)

\* The holder of ErrorChan() receives.
ReceiveError ==
    /\ errChan # "empty"
    /\ errChan' = "empty"
    /\ UNCHANGED <<fileVars, mux, svc, instVars, callVars>>

Cancel ==
    /\ ctxDone' = TRUE
    /\ UNCHANGED <<file, settingsOK, mux, svc, errChan, instVars, callVars>>

EditFile ==
    /\ file' \in Configs
    /\ UNCHANGED <<ctxDone, settingsOK, mux, svc, errChan, instVars, callVars>>

Environment ==
    \/ \E p \in Callers : CallRun(p) \/ CallShutdown(p) \/ CallRestart(p) \/ CallGetState(p)
    \/ ReceiveError
    \/ Cancel
    \/ EditFile

CollNext ==
    \/ Environment
    \/ \E p \in Callers : CallerStep(p)
    \/ CollStep

CollSpec == CollInit /\ [][CollNext]_collVars

-----------------------------------------------------------------------------
(* Properties.                                                              *)

\* Restart never overlaps two collectors: an svc.Run goroutine that has not
\* finished belongs to wCol.svc (Shutdown waits for wg before it clears svc),
\* so two collectors never compete for the same ports.
NoOrphanCollector ==
    \A i \in Instances : goRun[i] # "done" => svc = i

\* mux is held exactly by the caller that is inside Run or Shutdown, so a Run
\* that waits for its collector and a Shutdown that waits for wg never mix.
MuxHolder ==
    \A p \in Callers : (mux = p) <=> pc[p] \in {"RunWait", "ShutdownWait", "ShutdownSend"}

\* Run returns nil only for a collector that did get to Running, with a
\* configuration it accepted (it may have stopped since); an earlier failure of
\* svc.Run is never taken for a success.
RunNilMeansStarted ==
    [][\A p \in Callers :
          (pc[p] = "RunWait" /\ pc'[p] = "idle" /\ res'[p] = "nil")
             => loaded[svc] # Nil]_collVars
=============================================================================

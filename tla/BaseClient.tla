----------------------------- MODULE BaseClient -----------------------------
(***************************************************************************)
(* What the two clients of opamp/ share: baseClient.ensureRunning of       *)
(* opamp/client.go, executed by the Watcher goroutine, and the main        *)
(* goroutine's wait and Stop (runInteractive of main.go and the common     *)
(* part of both Stop methods).  Both goroutines are callers of the         *)
(* WrappedCollector.                                                       *)
(***************************************************************************)
EXTENDS WrappedCollector, Naturals

CONSTANTS Main, Watcher,  \* goroutines
          ErrCap          \* capacity of baseClient.err: 0 (simple) or 1 (server)

ASSUME BaseClientAssumption ==
    /\ {Main, Watcher} \subseteq Callers
    /\ Main # Watcher
    /\ ErrCap \in {0, 1}

VARIABLES err,          \* baseClient.err
          stopped,      \* baseClient.stopped is closed
          isReloading,  \* baseClient.isReloading
          wpc,          \* control of the Watcher in ensureRunning
          mpc           \* control of main

baseVars == <<err, stopped, isReloading, wpc, mpc>>

BaseTypeOK ==
    /\ TypeOK
    /\ err \in Chan
    /\ stopped \in BOOLEAN
    /\ isReloading \in BOOLEAN
    /\ wpc \in {"off", "select", "state", "check", "send", "returned"}
    /\ mpc \in {"start", "run", "nop", "reload", "serve", "stop", "shutdown",
                "stopOpamp", "waitOpamp", "receive", "exited", "failed"}

BaseInit ==
    /\ CollInit
    /\ settingsOK
    /\ err = "empty"
    /\ stopped = FALSE
    /\ isReloading = FALSE
    /\ wpc = "off"
    /\ mpc = "start"

\* The process ends with main; every other goroutine ends with it.
Alive == mpc \notin {"exited", "failed"}

-----------------------------------------------------------------------------
(* ensureRunning *)

WatchStopped ==
    /\ wpc = "select"
    /\ stopped
    /\ wpc' = "returned"
    /\ UNCHANGED <<collVars, err, stopped, isReloading, mpc>>

\* The PollInterval has passed: read the state, which needs the wrapper's mux.
WatchTick ==
    /\ wpc = "select"
    /\ CallGetState(Watcher)
    /\ wpc' = "state"
    /\ UNCHANGED <<err, stopped, isReloading, mpc>>

WatchState ==
    /\ wpc = "state"
    /\ pc[Watcher] = "idle"
    /\ wpc' = IF res[Watcher] = "Closed" THEN "check" ELSE "select"
    /\ UNCHANGED <<collVars, err, stopped, isReloading, mpc>>

\* The second operand of the && is read later than the first one.
WatchReloading ==
    /\ wpc = "check"
    /\ wpc' = IF isReloading THEN "select" ELSE "send"
    /\ UNCHANGED <<collVars, err, stopped, isReloading, mpc>>

\* c.err <- error: into the buffer, or to main when it waits in its select.
WatchSend ==
    /\ wpc = "send"
    /\ wpc' = "select"
    /\ \/ ErrCap = 1 /\ err = "empty" /\ err' = "err" /\ UNCHANGED mpc
       \/ ErrCap = 0 /\ mpc = "serve" /\ mpc' = "stop" /\ UNCHANGED err
    /\ UNCHANGED <<collVars, stopped, isReloading>>

WatcherStep ==
    /\ Alive
    /\ WatchStopped \/ WatchTick \/ WatchState \/ WatchReloading \/ WatchSend

-----------------------------------------------------------------------------
(* main: the select of runInteractive and Stop *)

ServeError ==
    /\ mpc = "serve"
    /\ err # "empty"
    /\ err' = "empty"
    /\ mpc' = "stop"
    /\ UNCHANGED <<collVars, stopped, isReloading, wpc>>

\* close(stopped), then coll.Shutdown.
StopShutdown ==
    /\ mpc = "stop"
    /\ stopped' = TRUE
    /\ CallShutdown(Main)
    /\ mpc' = "shutdown"
    /\ UNCHANGED <<err, isReloading, wpc>>

\* <-coll.ErrorChan(), the last thing Stop does; then the process ends.
StopReceive ==
    /\ mpc = "receive"
    /\ errChan # "empty"
    /\ errChan' = "empty"
    /\ mpc' = "exited"
    /\ UNCHANGED <<fileVars, mux, svc, instVars, callVars, err, stopped,
                   isReloading, wpc>>

\* Steps inside the wrapper, for whoever is in it, and of the collectors.
CollectorStep(p) == Alive /\ CallerStep(p) /\ UNCHANGED baseVars

CollectorGoStep(i) == Alive /\ GoStep(i) /\ UNCHANGED baseVars

CollectorStartStep(i) == Alive /\ SvcStartStep(i) /\ UNCHANGED baseVars

CollectorDies(i) == Alive /\ SvcAsyncError(i) /\ UNCHANGED baseVars
=============================================================================

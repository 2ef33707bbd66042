---------------------------- MODULE SimpleClient ----------------------------
(***************************************************************************)
(* The collector without OpAMP: simpleClient of opamp/simple_client.go     *)
(* between main and the WrappedCollector.  The context main gives to Run   *)
(* is the one a SIGINT or SIGTERM cancels, so a signal stops the collector *)
(* from inside while Stop shuts it down from outside.                      *)
(***************************************************************************)
EXTENDS BaseClient

vars == <<collVars, baseVars>>

SimpleInit == BaseInit /\ ErrCap = 0

Start ==
    /\ mpc = "start"
    /\ CallRun(Main)
    /\ mpc' = "run"
    /\ UNCHANGED <<err, stopped, isReloading, wpc>>

\* Run returned: with an error the process ends at once (logger.Fatal).
StartReturns ==
    /\ mpc = "run"
    /\ pc[Main] = "idle"
    /\ IF res[Main] = "nil"
         THEN mpc' = "serve" /\ wpc' = "select"
         ELSE mpc' = "failed" /\ UNCHANGED wpc
    /\ UNCHANGED <<collVars, err, stopped, isReloading>>

Signal == Alive /\ ~ctxDone /\ Cancel /\ UNCHANGED baseVars

ServeSignal ==
    /\ mpc = "serve"
    /\ ctxDone
    /\ mpc' = "stop"
    /\ UNCHANGED <<collVars, err, stopped, isReloading, wpc>>

StopShutdownReturns ==
    /\ mpc = "shutdown"
    /\ pc[Main] = "idle"
    /\ mpc' = "receive"
    /\ UNCHANGED <<collVars, err, stopped, isReloading, wpc>>

MainStep ==
    \/ Start \/ StartReturns \/ ServeSignal
    \/ StopShutdown \/ StopShutdownReturns \/ StopReceive

Exited == ~Alive /\ UNCHANGED vars

Next ==
    \/ MainStep \/ WatcherStep \/ Signal
    \/ \E p \in Callers : CollectorStep(p)
    \/ \E i \in Instances : CollectorGoStep(i) \/ CollectorStartStep(i) \/ CollectorDies(i)
    \/ Exited

SimpleSpec == SimpleInit /\ [][Next]_vars

=============================================================================

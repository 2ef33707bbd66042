---------------------------- MODULE MCClientsLive ----------------------------
(***************************************************************************)
(* TLC instance of the two clients for liveness: a process is started with *)
(* OpAMP (server) or without (simple), and no file operation fails.        *)
(***************************************************************************)
EXTENDS ServerClient

VARIABLE client

Simple == INSTANCE SimpleClient WITH ErrCap <- 0

IsServer == client = "server"
IsSimple == client = "simple"

MCInit ==
    \/ IsServer /\ Init
    \/ IsSimple /\ Simple!SimpleInit /\ ServerInit

MCNext ==
    \/ IsServer /\ Next /\ UNCHANGED client
    \/ IsSimple /\ Simple!Next /\ UNCHANGED <<serverVars, client>>

\* The fairness of the client that runs.
MCFairness ==
    /\ WF_vars(IsServer /\ MainStep) /\ WF_vars(IsServer /\ CallbackStep)
    /\ \A p \in Reloaders : SF_vars(IsServer /\ ReloadStep(p))
    /\ WF_vars(IsSimple /\ Simple!MainStep /\ UNCHANGED serverVars)
    /\ WF_vars(WatchStep)
    /\ \A p \in Callers : SF_vars(WrapperStep(p))
    /\ \A i \in Instances : WF_vars(InstanceGoStep(i)) /\ WF_vars(InstanceStartStep(i))

MCSpec == MCInit /\ [][MCNext]_<<vars, client>> /\ MCFairness

\* Main does not hang.  Start of either client ends: whoever waits inside Run for
\* colErrorChannel gets an answer, also from a collector that dies while it starts.
\* And once main has begun to stop the process ends, whether the signal's context or
\* Shutdown stops the collector first; only under OpAMP, a Stop that found the
\* collector between the two halves of a Restart is blocked on the full errChan.
StartAndStopEnd ==
    /\ (mpc \in {"run", "reload"}) ~> (mpc \notin {"run", "reload"})
    /\ (mpc = "stop") ~> (mpc = "exited" \/ (IsServer /\ CaughtInRestart))
=============================================================================

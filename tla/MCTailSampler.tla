--------------------------- MODULE MCTailSampler ---------------------------
(* TLC instance of TailSampler: three spans of two traces, one more than    *)
(* there is room for; two policies.                                         *)
EXTENDS TailSampler, TLC

CONSTANTS s1, s2, s3, t1, t2

MCTraceOf == (s1 :> t1) @@ (s2 :> t1) @@ (s3 :> t2)

\* The first policy drops the traces with span s2, the second one keeps the
\* traces with s1: trace t1 is kept or dropped by what has arrived in time.
MCPolicyCfgs ==
    << [priority |-> 1, matches |-> {s2}, decision |-> "NotSampled"],
       [priority |-> 2, matches |-> {s1}, decision |-> "Sampled"] >>
=============================================================================

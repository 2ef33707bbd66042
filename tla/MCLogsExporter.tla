--------------------------- MODULE MCLogsExporter ---------------------------
(* TLC instances of LogsExporter for liveness. *)
EXTENDS LogsExporter, TLC

\* Two batches, of two records and of one, with the same resource; one record is too old.
MCPushOf == <<"p1", "p1", "p2">>
MCResourceOf == <<"a", "a", "a">>
MCKeyOf == <<"k", "k", "k">>

\* One batch of three records.
OnePushOf == <<"p1", "p1", "p1">>
OneResourceOf == <<"a", "a", "a">>
OneKeyOf == <<"k", "k", "k">>

\* What follows a failure is of no concern to the live run, whose properties are
\* about the time before it; the steps that fail are still taken.
UntilAFailure == failures = 0
=============================================================================

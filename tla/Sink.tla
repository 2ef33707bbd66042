-------------------------------- MODULE Sink --------------------------------
(***************************************************************************)
(* What every exporter to ClickHouse promises to the exporter helper: an   *)
(* at-least-once sink.  A batch is acknowledged (its push returns nil)     *)
(* only when the rows it is made of are in ClickHouse, rows do not go      *)
(* away, and once the exporter is down nothing is written or acknowledged  *)
(* any more.  The exporters implement this specification under the         *)
(* refinement mappings they give.                                          *)
(***************************************************************************)
CONSTANT Batches

VARIABLES stored,   \* batches whose rows are all in ClickHouse
          acked,    \* batches whose push has returned nil
          open      \* the exporter has not been shut down

sinkVars == <<stored, acked, open>>

Init ==
    /\ stored \subseteq Batches     \* an empty batch is there from the start
    /\ acked = {}
    /\ open = TRUE

\* One insert may complete several batches: they can share rows.
Store ==
    /\ open
    /\ stored' \in {s \in SUBSET Batches : stored \subseteq s}
    /\ UNCHANGED <<acked, open>>

Ack(b) ==
    /\ open
    /\ b \in stored
    /\ acked' = acked \cup {b}
    /\ UNCHANGED <<stored, open>>

Close ==
    /\ open' = FALSE
    /\ UNCHANGED <<stored, acked>>

Next == Store \/ Close \/ \E b \in Batches : Ack(b)

Spec == Init /\ [][Next]_sinkVars
=============================================================================

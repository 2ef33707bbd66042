---------------------------- MODULE MCExporters ----------------------------
(***************************************************************************)
(* The TLC instance of the exporters.                                      *)
(***************************************************************************)
EXTENDS Exporters, TLC

\* The logs exporter: two batches with two records each; they share a resource
\* and a key, and the last record is too old.
MCPushOf == <<"p1", "p1", "p2", "p2">>
MCResourceOf == <<"a", "b", "a", "a">>
MCKeyOf == <<"k", "l", "k", "k">>

\* The traces exporter: one batch of two spans with one key, and a span that is too old.
MCTracePushOf == <<"p1", "p1", "p1">>
MCTraceResourceOf == <<"a", "b", "b">>
MCTraceKeyOf == <<"k", "k", "l">>

\* The metrics exporter: two batches that share a series; one is of an internal metric.
MCRowsOf == ("p1" :> [samples |-> {"i"}, ts |-> {"a"}, expHist |-> {}, metadata |-> {}])
         @@ ("p2" :> [samples |-> {"s"}, ts |-> {"a", "b"}, expHist |-> {"h"}, metadata |-> {"m"}])
=============================================================================

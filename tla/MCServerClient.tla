--------------------------- MODULE MCServerClient ---------------------------
(* TLC instance of ServerClient: one process, two remote configurations. *)
EXTENDS ServerClient
=============================================================================

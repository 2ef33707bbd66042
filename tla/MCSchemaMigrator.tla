-------------------------- MODULE MCSchemaMigrator --------------------------
(***************************************************************************)
(* TLC instance of SchemaMigrator: three databases, one of them, like the  *)
(* metadata database, without tables of its own.                           *)
(***************************************************************************)
EXTENDS SchemaMigrator, TLC

MCDatabases == <<"traces", "logs", "metadata">>
MCTrackingOrder == <<"logs", "traces", "metadata">>
MCDDL == << [db |-> "traces", table |-> "spans"], [db |-> "logs", table |-> "logs"],
            [db |-> "logs", table |-> "usage"] >>
=============================================================================

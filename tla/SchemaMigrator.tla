--------------------------- MODULE SchemaMigrator ---------------------------
(***************************************************************************)
(* The migration commands of cmd/siginsightotelcollector/migrate and the   *)
(* baseline state machine of schema_migrator: `migrate bootstrap`,         *)
(* `migrate sync up` and `migrate sync check`, run by any number of        *)
(* processes against one ClickHouse.  Every query or statement is a step   *)
(* of its own; it may fail, with or without having had its effect, and a   *)
(* process may be killed between any two of them.                          *)
(*                                                                         *)
(* The post-baseline registries are empty in this version, so that         *)
(* runPostBaselineMigrations and checkPostBaselineMigrations come down to  *)
(* requireCanonicalBaseline.                                               *)
(***************************************************************************)
EXTENDS Naturals, Sequences

CONSTANTS Migrators,   \* processes that run migrate commands
          Databases,   \* sequence: the telemetry databases
          TrackingOrder, \* the same in the order of CreateMigrationTables
          DDL          \* sequence of [db, table]: canonicalBaselineDDLOperations

DB == {Databases[i] : i \in DOMAIN Databases}
Canonical(d) == {DDL[i].table : i \in {j \in DOMAIN DDL : DDL[j].db = d}}
Tables == {DDL[i].table : i \in DOMAIN DDL}

ASSUME SchemaMigratorAssumption ==
    /\ Databases \in Seq(STRING)
    /\ Len(Databases) > 0
    /\ TrackingOrder \in Seq(DB)
    /\ DOMAIN TrackingOrder = DOMAIN Databases
    /\ \A d \in DB : \E i \in DOMAIN TrackingOrder : TrackingOrder[i] = d
    /\ DDL \in Seq([db : DB, table : STRING])

VARIABLES databases,   \* system.databases
          tracking,    \* databases with the table schema_migrations_v2
          tables,      \* canonical tables of each database (system.tables)
          old,         \* what a release before M16 has left in each database
          marker,      \* status of migration 999, under final = 1
          cmd,         \* the command a process runs
          pc,          \* its control
          stage,       \* which inspection it is in
          at,          \* index in the loop it is in
          inventory,   \* the counts baselineInventoryQuery returned
          seen,        \* the states of the databases inspected so far
          known,       \* CreateDatabases' map of existing databases
          orderly      \* bootstrap is over before a sync command begins, no call
                       \* fails and no process is killed

store  == <<databases, tracking, tables, old, marker>>
locals == <<stage, at, inventory, seen, known>>
vars   == <<store, cmd, pc, locals, orderly>>

Commands == {"bootstrap", "syncUp", "syncCheck"}
States   == {"Empty", "Complete", "Incompatible"}
NoCounts == [domain |-> FALSE, legacy |-> FALSE, tracking |-> FALSE]

StoreTypes ==
    /\ databases \subseteq DB
    /\ tracking \subseteq DB
    /\ tables \in [DB -> SUBSET Tables]
    /\ old \in [DB -> {"none", "domain", "legacy", "unexpected"}]
    /\ marker \in [DB -> {"none", "failed", "finished"}]

LocalTypes ==
    /\ cmd \in [Migrators -> Commands]
    /\ pc \in [Migrators -> {"idle", "ok", "list", "createDB", "shouldRun", "createTable",
                             "inventory", "markers", "inspected", "ddl", "failed", "verify",
                             "status", "insert"}]
    /\ stage \in [Migrators -> {"ensure", "post", "check", "checkPost"}]
    /\ at \in [Migrators -> Nat \ {0}]
    /\ inventory \in [Migrators -> [domain : BOOLEAN, legacy : BOOLEAN, tracking : BOOLEAN]]
    /\ seen \in [Migrators -> SUBSET States]
    /\ known \in [Migrators -> SUBSET DB]

TypeOK == StoreTypes /\ LocalTypes

\* A new ClickHouse, or one an older release has used.
Init ==
    /\ old \in [DB -> {"none", "domain", "legacy", "unexpected"}]
    /\ databases = {d \in DB : old[d] # "none"}
    /\ tracking = {d \in DB : old[d] = "unexpected"}
    /\ tables = [d \in DB |-> {}]
    /\ marker = [d \in DB |-> "none"]
    /\ cmd = [p \in Migrators |-> "bootstrap"]
    /\ pc = [p \in Migrators |-> "idle"]
    /\ stage = [p \in Migrators |-> "ensure"]
    /\ at = [p \in Migrators |-> 1]
    /\ inventory = [p \in Migrators |-> NoCounts]
    /\ seen = [p \in Migrators |-> {}]
    /\ known = [p \in Migrators |-> {}]
    /\ orderly \in BOOLEAN

-----------------------------------------------------------------------------
(* Control shared by the commands *)

Goto(p, label) == pc' = [pc EXCEPT ![p] = label]

\* The process forgets its locals and goes to label.
Fresh(p, label, st) ==
    /\ Goto(p, label)
    /\ stage' = [stage EXCEPT ![p] = st]
    /\ at' = [at EXCEPT ![p] = 1]
    /\ inventory' = [inventory EXCEPT ![p] = NoCounts]
    /\ seen' = [seen EXCEPT ![p] = {}]
    /\ known' = [known EXCEPT ![p] = {}]

\* Bootstrap lists the databases; the other commands inspect the baseline.
Restart(p, c) ==
    \/ c = "bootstrap" /\ Fresh(p, "list", "ensure")
    \/ c = "syncUp"    /\ Fresh(p, "inventory", "ensure")
    \/ c = "syncCheck" /\ Fresh(p, "inventory", "check")

Begin(p) ==
    /\ pc[p] \in {"idle", "ok"}
    /\ \E c \in Commands :
          /\ orderly => c = "bootstrap" \/ tracking = DB
          /\ cmd' = [cmd EXCEPT ![p] = c]
          /\ Restart(p, c)
    /\ UNCHANGED store

\* Run's loop: an error ends the command; a retryable one starts it again as
\* long as the backoff has time left.
Error(p, retryable) ==
    /\ UNCHANGED cmd
    /\ Fresh(p, "idle", "ensure") \/ (retryable /\ Restart(p, cmd[p]))

Crash(p) ==
    /\ ~orderly
    /\ pc[p] \notin {"idle", "ok"}
    /\ Fresh(p, "idle", "ensure")
    /\ UNCHANGED <<store, cmd>>

Succeed(p) ==
    /\ Fresh(p, "ok", "ensure")
    /\ UNCHANGED cmd

NextDatabase(p) == at' = [at EXCEPT ![p] = @ + 1]
Current(p) == Databases[at[p]]
More(p) == at[p] \in DOMAIN Databases

\* The loop over the databases is over: another one begins, from the first.
Then(p, label) ==
    /\ ~More(p)
    /\ Goto(p, label)
    /\ at' = [at EXCEPT ![p] = 1]
    /\ UNCHANGED <<store, cmd, stage, inventory, seen, known>>

-----------------------------------------------------------------------------
(* migrate bootstrap *)

ListDatabases(p) ==
    /\ pc[p] = "list"
    /\ known' = [known EXCEPT ![p] = databases]
    /\ Goto(p, "createDB")
    /\ UNCHANGED <<store, cmd, stage, at, inventory, seen>>

KnownDatabase(p) ==
    /\ pc[p] = "createDB" /\ More(p)
    /\ Current(p) \in known[p]
    /\ NextDatabase(p)
    /\ UNCHANGED <<store, cmd, pc, stage, inventory, seen, known>>

CreateDatabase(p) ==
    /\ pc[p] = "createDB" /\ More(p)
    /\ Current(p) \notin known[p] \cup databases
    /\ databases' = databases \cup {Current(p)}
    /\ NextDatabase(p)
    /\ UNCHANGED <<tracking, tables, old, marker, cmd, pc, stage, inventory, seen, known>>

\* CREATE DATABASE has no IF NOT EXISTS, and its error is not retryable.
CreateDatabaseExists(p) ==
    /\ pc[p] = "createDB" /\ More(p)
    /\ Current(p) \in databases \ known[p]
    /\ Error(p, FALSE)
    /\ UNCHANGED store

DatabasesCreated(p) == pc[p] = "createDB" /\ Then(p, "shouldRun")

TrackingDatabase(p) == TrackingOrder[at[p]]

ShouldRunOperation(p) ==
    /\ pc[p] = "shouldRun" /\ More(p)
    /\ IF TrackingDatabase(p) \in tracking
         THEN NextDatabase(p) /\ UNCHANGED pc
         ELSE Goto(p, "createTable") /\ UNCHANGED at
    /\ UNCHANGED <<store, cmd, stage, inventory, seen, known>>

CreateMigrationTable(p) ==
    /\ pc[p] = "createTable"
    /\ tracking' = tracking \cup {TrackingDatabase(p)}
    /\ NextDatabase(p)
    /\ Goto(p, "shouldRun")
    /\ UNCHANGED <<databases, tables, old, marker, cmd, stage, inventory, seen, known>>

BootstrapDone(p) ==
    /\ pc[p] = "shouldRun" /\ ~More(p)
    /\ Succeed(p)
    /\ UNCHANGED store

-----------------------------------------------------------------------------
(* InspectCanonicalBaselineState: two queries per database *)

\* Mutant of ClassifyBaselineState: legacy tracking tables are not looked at.
ClassifyIgnoringLegacy(counts, d) ==
    LET rows == counts.tracking /\ (marker[d] # "none" \/ old[d] = "unexpected")
    IN  IF ~counts.domain /\ ~rows THEN "Empty"
        ELSE IF counts.tracking /\ marker[d] = "finished" /\ old[d] # "unexpected"
             THEN "Complete" ELSE "Incompatible"

\* ClassifyBaselineState, from the counts and the migration rows of d.
ClassifyBaselineState(counts, d) ==
    LET rows == counts.tracking /\ (marker[d] # "none" \/ old[d] = "unexpected")
    IN  IF ~counts.domain /\ ~counts.legacy /\ ~rows THEN "Empty"
        ELSE IF /\ ~counts.legacy
                /\ counts.tracking
                /\ marker[d] = "finished"
                /\ old[d] # "unexpected"
             THEN "Complete" ELSE "Incompatible"

Classified(p, counts) ==
    /\ seen' = [seen EXCEPT ![p] = @ \cup {ClassifyBaselineState(counts, Current(p))}]
    /\ inventory' = [inventory EXCEPT ![p] = NoCounts]
    /\ NextDatabase(p)
    /\ Goto(p, "inventory")

\* baselineInventoryQuery: which kinds of tables database d has.
TableCounts(d) == [domain   |-> tables[d] # {} \/ old[d] = "domain",
                   legacy   |-> old[d] = "legacy",
                   tracking |-> d \in tracking]

BaselineInventory(p) ==
    /\ pc[p] = "inventory" /\ More(p)
    /\ IF Current(p) \in tracking
         THEN /\ inventory' = [inventory EXCEPT ![p] = TableCounts(Current(p))]
              /\ Goto(p, "markers")
              /\ UNCHANGED <<seen, at>>
         ELSE Classified(p, TableCounts(Current(p)))
    /\ UNCHANGED <<store, cmd, stage, known>>

BaselineMigrations(p) ==
    /\ pc[p] = "markers"
    /\ Classified(p, inventory[p])
    /\ UNCHANGED <<store, cmd, stage, known>>

Inspected(p) == pc[p] = "inventory" /\ Then(p, "inspected")

\* Mutant of Report: one complete database is enough.
ReportAny(p) == IF seen[p] = {"Empty"} THEN "Empty"
                ELSE IF "Complete" \in seen[p] THEN "Complete" ELSE "Incompatible"

\* CombineBaselineInspections: all databases agree, or Incompatible.
Report(p) == IF seen[p] = {"Empty"} THEN "Empty"
             ELSE IF seen[p] = {"Complete"} THEN "Complete" ELSE "Incompatible"

\* ensureCanonicalBaseline: only a pristine store is initialised.
EnsureEmpty(p) ==
    /\ pc[p] = "inspected" /\ stage[p] = "ensure"
    /\ Report(p) = "Empty"
    /\ Fresh(p, "ddl", "ensure")
    /\ UNCHANGED <<store, cmd>>

\* ... a complete one is left alone; requireCanonicalBaseline of the post-
\* baseline phase inspects again.
EnsureComplete(p) ==
    /\ pc[p] = "inspected" /\ stage[p] \in {"ensure", "check"}
    /\ Report(p) = "Complete"
    /\ Fresh(p, "inventory", IF stage[p] = "ensure" THEN "post" ELSE "checkPost")
    /\ UNCHANGED <<store, cmd>>

\* The registries are empty: sync up is done, sync check verifies the schema.
RequireComplete(p) ==
    /\ pc[p] = "inspected" /\ stage[p] \in {"post", "checkPost"}
    /\ Report(p) = "Complete"
    /\ IF stage[p] = "post" THEN Succeed(p) ELSE Fresh(p, "verify", "checkPost") /\ UNCHANGED cmd
    /\ UNCHANGED store

\* A row for migration 999, which replaces an older one; no table, no row.
Mark(d, status) == marker' = IF d \in tracking THEN [marker EXCEPT ![d] = status] ELSE marker

\* Mutant of Refused: the store that is refused is also marked as failed.
RefusedMarksFailed(p) ==
    /\ pc[p] = "inspected"
    /\ Report(p) # "Complete"
    /\ stage[p] = "ensure" => Report(p) # "Empty"
    /\ Error(p, FALSE)
    /\ Mark(Databases[1], "failed")
    /\ UNCHANGED <<databases, tracking, tables, old>>

Refused(p) ==
    /\ pc[p] = "inspected"
    /\ Report(p) # "Complete"
    /\ stage[p] = "ensure" => Report(p) # "Empty"
    /\ Error(p, FALSE)
    /\ UNCHANGED store

-----------------------------------------------------------------------------
(* Creating, verifying and marking the canonical schema *)

Statement(p) == DDL[at[p]]
Created(op) == [tables EXCEPT ![op.db] = @ \cup {op.table}]

\* RunOperationWithoutUpdate: CREATE ... IF NOT EXISTS.
RunOperation(p) ==
    /\ pc[p] = "ddl" /\ at[p] \in DOMAIN DDL
    /\ Statement(p).db \in databases
    /\ tables' = Created(Statement(p))
    /\ at' = [at EXCEPT ![p] = @ + 1]
    /\ UNCHANGED <<databases, tracking, old, marker, cmd, pc, stage, inventory, seen, known>>

\* The statement fails: its database does not exist, or the call failed, and
\* then the table may have been created all the same.
RunOperationFails(p) ==
    /\ pc[p] = "ddl" /\ at[p] \in DOMAIN DDL
    /\ \/ Statement(p).db \notin databases /\ UNCHANGED tables
       \/ ~orderly /\ UNCHANGED tables
       \/ ~orderly /\ Statement(p).db \in databases /\ tables' = Created(Statement(p))
    /\ Goto(p, "failed")
    /\ UNCHANGED <<databases, tracking, old, marker, cmd, locals>>

\* Mutant of InsertFailedMarker: the wrong status is written.
InsertWrongMarker(p) ==
    /\ pc[p] = "failed"
    /\ Mark(Statement(p).db, "finished") \/ (~orderly /\ UNCHANGED marker)
    /\ Error(p, FALSE)
    /\ UNCHANGED <<databases, tracking, tables, old>>

\* The failed marker is attempted, and the error ends the command.
InsertFailedMarker(p) ==
    /\ pc[p] = "failed"
    /\ Mark(Statement(p).db, "failed") \/ (~orderly /\ UNCHANGED marker)
    /\ Error(p, FALSE)
    /\ UNCHANGED <<databases, tracking, tables, old>>

SchemaCreated(p) ==
    /\ pc[p] = "ddl" /\ at[p] \notin DOMAIN DDL
    /\ Fresh(p, "verify", "ensure")
    /\ UNCHANGED <<store, cmd>>

\* The database has the canonical fingerprint.  The code reads it with four
\* queries; tables are only ever added, so they cannot agree by halves.
Matches(d) == d \in databases /\ tables[d] = Canonical(d) /\ old[d] # "domain"

VerifyCanonicalSchema(p) ==
    /\ pc[p] = "verify" /\ More(p)
    /\ IF Matches(Current(p))
         THEN NextDatabase(p) /\ UNCHANGED <<cmd, pc, stage, inventory, seen, known>>
         ELSE Error(p, FALSE)
    /\ UNCHANGED store

\* Mutant of Verified: sync up ends without the markers.
VerifiedNotMarked(p) ==
    /\ pc[p] = "verify"
    /\ ~More(p)
    /\ Succeed(p)
    /\ UNCHANGED store

\* All schemas verified: sync up goes on to the markers, sync check is done.
Verified(p) ==
    /\ pc[p] = "verify"
    /\ \/ stage[p] = "ensure" /\ Then(p, "status")
       \/ stage[p] = "checkPost" /\ ~More(p) /\ Succeed(p) /\ UNCHANGED store

CheckMigrationStatus(p) ==
    /\ pc[p] = "status" /\ More(p)
    /\ Current(p) \in tracking
    /\ IF marker[Current(p)] = "finished"
         THEN NextDatabase(p) /\ UNCHANGED pc
         ELSE Goto(p, "insert") /\ UNCHANGED at
    /\ UNCHANGED <<store, cmd, stage, inventory, seen, known>>

\* There is no table to read the status from.
NoTrackingTable(p) ==
    /\ pc[p] = "status" /\ More(p)
    /\ Current(p) \notin tracking
    /\ Error(p, TRUE)
    /\ UNCHANGED store

InsertMigrationEntry(p) ==
    /\ pc[p] = "insert"
    /\ Mark(Current(p), "finished")
    /\ NextDatabase(p)
    /\ Goto(p, "status")
    /\ UNCHANGED <<databases, tracking, tables, old, cmd, stage, inventory, seen, known>>

\* Every database is marked: runPostBaselineMigrations inspects once more.
Marked(p) ==
    /\ pc[p] = "status" /\ ~More(p)
    /\ Fresh(p, "inventory", "post")
    /\ UNCHANGED <<store, cmd>>

-----------------------------------------------------------------------------
(* Failing calls.  Those of bootstrap that change something are not retried. *)

QueryFails(p) ==
    /\ ~orderly
    /\ \/ pc[p] = "list"
       \/ pc[p] \in {"inventory", "shouldRun", "verify", "status"} /\ More(p)
       \/ pc[p] = "markers"
    /\ Error(p, TRUE)
    /\ UNCHANGED store

CreateFails(p) ==
    /\ ~orderly
    /\ pc[p] \in {"createDB", "createTable"} /\ More(p)
    /\ pc[p] = "createDB" => Current(p) \notin known[p]
    /\ \/ UNCHANGED store
       \/ pc[p] = "createDB" /\ databases' = databases \cup {Current(p)}
                             /\ UNCHANGED <<tracking, tables, old, marker>>
       \/ pc[p] = "createTable" /\ tracking' = tracking \cup {TrackingDatabase(p)}
                                /\ UNCHANGED <<databases, tables, old, marker>>
    /\ Error(p, FALSE)

\* The marker may have been written although the call failed; a retry then finds
\* tables next to missing markers and refuses the store.
InsertFails(p) ==
    /\ ~orderly
    /\ pc[p] = "insert"
    /\ Mark(Current(p), "finished") \/ UNCHANGED marker
    /\ Error(p, TRUE)
    /\ UNCHANGED <<databases, tracking, tables, old>>

Fails(p) == QueryFails(p) \/ CreateFails(p) \/ InsertFails(p)

-----------------------------------------------------------------------------
BootstrapStep(p) ==
    \/ ListDatabases(p) \/ KnownDatabase(p) \/ CreateDatabase(p) \/ CreateDatabaseExists(p)
    \/ DatabasesCreated(p) \/ ShouldRunOperation(p) \/ CreateMigrationTable(p) \/ BootstrapDone(p)

InspectStep(p) ==
    \/ BaselineInventory(p) \/ BaselineMigrations(p) \/ Inspected(p)
    \/ EnsureEmpty(p) \/ EnsureComplete(p) \/ RequireComplete(p) \/ Refused(p)

InstallStep(p) ==
    \/ RunOperation(p) \/ RunOperationFails(p) \/ InsertFailedMarker(p) \/ SchemaCreated(p)
    \/ VerifyCanonicalSchema(p) \/ Verified(p)
    \/ CheckMigrationStatus(p) \/ NoTrackingTable(p) \/ InsertMigrationEntry(p) \/ Marked(p)

MigratorStep(p) == BootstrapStep(p) \/ InspectStep(p) \/ InstallStep(p)

Next ==
    /\ \E p \in Migrators : Begin(p) \/ MigratorStep(p) \/ Fails(p) \/ Crash(p)
    /\ UNCHANGED orderly

\* A process that is not killed takes its next step.
Fairness == \A p \in Migrators : WF_vars(orderly /\ MigratorStep(p) /\ UNCHANGED orderly)

Spec == Init /\ [][Next]_vars

FairSpec == Spec /\ Fairness

-----------------------------------------------------------------------------
(* Properties.                                                              *)

Pristine == \A d \in DB : tables[d] = {} /\ old[d] = "none" /\ marker[d] = "none"
Complete == \A d \in DB : marker[d] = "finished"

\* "The 999 record means that this canonical schema passed fingerprint
\* validation" (MIGRATIONS.md): a finished marker in any database implies the
\* whole schema in every database, whoever was killed, failed or raced with
\* another `sync up` on the way (ensureCanonicalBaseline verifies them all
\* before it marks the first).
MarkersAreTrue ==
    (\E d \in DB : marker[d] = "finished") => \A d \in DB : Matches(d)

\* "Existing unmarked schemas are never adopted": what an older release has left
\* in one database keeps every database as it was, without tables and markers.
NeverAdopts ==
    (\E d \in DB : old[d] # "none") => \A d \in DB : tables[d] = {} /\ marker[d] = "none"

\* The startup gate: when `sync up` or `sync check` has succeeded, every database
\* has the whole schema and a marker.
GateIsSound ==
    (\E p \in Migrators : pc[p] = "ok" /\ cmd[p] \in {"syncUp", "syncCheck"})
        => \A d \in DB : Matches(d) /\ marker[d] # "none"

\* A complete baseline stays complete: neither a rerun nor the concurrent `sync up` of
\* another replica, neither one that is killed nor one whose calls fail, undoes a
\* marker, but for a process whose own statement failed: its failed marker, which it
\* writes late, is the last.  Without failing calls, and with bootstrap done first,
\* there is no such process.
Undoes(p, d) == pc[p] = "failed" /\ Statement(p).db = d

CompleteIsStable ==
    [][Complete => \A d \in DB : marker'[d] # "finished"
                                   => ~orderly /\ \E p \in Migrators : Undoes(p, d)]_vars

\* Without failing calls and kills, `sync up` on a pristine store that bootstrap
\* has prepared completes it, also when several processes run it at once: the
\* one that refuses a half-made schema never stops the one that makes it.
FreshInstallCompletes ==
    orderly => ((Pristine /\ tracking = DB /\ \E p \in Migrators : pc[p] = "ddl") ~> Complete)
=============================================================================

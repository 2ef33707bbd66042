------------------------ MODULE SchemaMigrator_proofs ------------------------
(***************************************************************************)
(* Proofs, for any number of processes, databases and DDL statements, that *)
(* markers are true, that an old schema is never adopted and that the      *)
(* startup gate is sound, whatever fails and whoever is killed, and that a *)
(* complete store stays complete when nothing does.                        *)
(***************************************************************************)
EXTENDS SchemaMigrator, TLAPS

\* A leftover of a release before M16 that shows in the migration rows has a
\* tracking table from the start.
UnexpectedIsTracked == \A d \in DB : old[d] = "unexpected" => d \in tracking

\* Only canonical statements create tables, so a schema that matches the
\* canonical one goes on matching it.
OnlyCanonical == \A d \in DB : tables[d] \subseteq Canonical(d)

\* The first n - 1 databases were found new, marked, or matching.
EmptyUpTo(n) == \A i \in DOMAIN Databases : i < n => old[Databases[i]] = "none"
MarkedUpTo(n) == \A i \in DOMAIN Databases : i < n =>
                    marker[Databases[i]] # "none" /\ \A d \in DB : Matches(d)
MatchUpTo(n) == \A i \in DOMAIN Databases : i < n => Matches(Databases[i])

AllNew == \A d \in DB : old[d] = "none"
AllMatch == \A d \in DB : Matches(d)
AllMarked == \A d \in DB : marker[d] # "none" /\ Matches(d)

\* Between the two queries of an inspection the counts still tell what the old
\* release left, which nobody changes.
Counts(p) ==
    pc[p] = "markers" =>
        /\ at[p] \in DOMAIN Databases
        /\ inventory[p].tracking
        /\ old[Databases[at[p]]] = "domain" => inventory[p].domain
        /\ old[Databases[at[p]]] = "legacy" => inventory[p].legacy

\* What the databases inspected so far have shown is still so.
Inspection(p) ==
    /\ pc[p] \in {"inventory", "markers"} =>
          /\ seen[p] \subseteq {"Empty"} => EmptyUpTo(at[p])
          /\ seen[p] \subseteq {"Complete"} => MarkedUpTo(at[p])
    /\ pc[p] = "inspected" =>
          /\ seen[p] \subseteq {"Empty"} => AllNew
          /\ seen[p] \subseteq {"Complete"} => AllMarked

\* Statements run on a new store only, and markers are written on a verified one.
Installation(p) ==
    /\ pc[p] \in {"ddl", "failed", "status", "insert"} => AllNew
    /\ pc[p] = "verify" =>
          /\ MatchUpTo(at[p])
          /\ stage[p] = "ensure" => AllNew
          /\ stage[p] = "checkPost" => AllMarked
    /\ pc[p] \in {"status", "insert"} => AllMatch
    /\ pc[p] = "failed" => at[p] \in DOMAIN DDL
    /\ pc[p] \in {"insert", "createTable"} => at[p] \in DOMAIN Databases

\* Success of a sync command tells of the store; that of bootstrap does not.
Passed(p) ==
    /\ pc[p] = "ok" /\ cmd[p] # "bootstrap" => AllMarked
    /\ pc[p] \in {"list", "createDB", "shouldRun", "createTable"} => cmd[p] = "bootstrap"

Local(p) == Counts(p) /\ Inspection(p) /\ Installation(p) /\ Passed(p)

\* The inductive invariant.
Inv ==
    /\ TypeOK
    /\ UnexpectedIsTracked
    /\ OnlyCanonical
    /\ MarkersAreTrue
    /\ NeverAdopts
    /\ \A p \in Migrators : Local(p)

\* Where no call fails and bootstrap comes first, a process past the creation of
\* the databases finds them all there: no statement is refused, so none is marked
\* as failed.
OnTime(p) ==
    /\ known[p] \subseteq databases
    /\ pc[p] = "list" => at[p] = 1
    /\ pc[p] = "createDB" =>
          \A i \in DOMAIN Databases : i < at[p] => Databases[i] \in databases
    /\ pc[p] \in {"shouldRun", "createTable", "inventory", "markers", "inspected", "ddl",
                  "verify", "status", "insert"} => databases = DB
    /\ pc[p] # "failed"

OrderInv == orderly => tracking \subseteq databases /\ \A p \in Migrators : OnTime(p)

\* What no step undoes.
StoreGrows ==
    /\ old' = old
    /\ databases \subseteq databases'
    /\ tracking \subseteq tracking'
    /\ \A d \in DB : tables[d] \subseteq tables'[d]
    /\ \A d \in DB : tables'[d] \subseteq Canonical(d)
    /\ \A d \in DB : marker[d] # "none" => marker'[d] # "none"

\* What justifies a change: statements and markers need a new store, finished
\* markers a verified one.
StoreJustified ==
    /\ tables' # tables \/ marker' # marker => AllNew
    /\ \A d \in DB : marker'[d] = "finished" => marker[d] = "finished" \/ AllMatch

-----------------------------------------------------------------------------
(* A loop that has passed the last index has passed every database.         *)
LEMMA LoopOver ==
    ASSUME NEW n \in Nat, n > 0, n \notin DOMAIN Databases
    PROVE  \A d \in DB : \E i \in DOMAIN Databases : d = Databases[i] /\ i < n
BY SchemaMigratorAssumption DEF DB

\* What the two lists of databases hold are databases: the order of the work and the order in
\* which the tracking tables are made name the same stores.
LEMMA InDB == \A i \in DOMAIN Databases : Databases[i] \in DB /\ TrackingOrder[i] \in DB
<1>1. \A i \in DOMAIN Databases : Databases[i] \in DB
    BY DEF DB
<1>2. \A i \in DOMAIN TrackingOrder : TrackingOrder[i] \in DB
    BY SchemaMigratorAssumption
<1> QED BY <1>1, <1>2, SchemaMigratorAssumption

(* Every statement is of a known database and canonical there.              *)
LEMMA StatementIsCanonical ==
    \A i \in DOMAIN DDL : /\ DDL[i].db \in DB
                          /\ DDL[i].table \in Tables
                          /\ DDL[i].table \in Canonical(DDL[i].db)
<1> SUFFICES ASSUME NEW i \in DOMAIN DDL
             PROVE  /\ DDL[i].db \in DB
                    /\ DDL[i].table \in Tables
                    /\ DDL[i].table \in Canonical(DDL[i].db)
    OBVIOUS
<1>1. DDL[i] \in [db : DB, table : STRING]
    <2> DEFINE R == [db : DB, table : STRING]
    <2>1. DDL \in Seq(R)
        BY SchemaMigratorAssumption
    <2> HIDE DEF R
    <2>2. DDL[i] \in R
        BY <2>1
    <2> QED BY <2>2 DEF R
<1>2. DDL[i].table \in Tables /\ DDL[i].table \in Canonical(DDL[i].db)
    BY DEF Tables, Canonical
<1> QED BY <1>1, <1>2

(* What a step that only adds to the store leaves true.                     *)
LEMMA StableFacts ==
    ASSUME TypeOK, TypeOK', StoreGrows
    PROVE  /\ AllNew => AllNew'
           /\ AllMatch => AllMatch'
           /\ AllMarked => AllMarked'
           /\ \A d \in DB : Matches(d) => Matches(d)'
           /\ \A n \in Nat : EmptyUpTo(n) => EmptyUpTo(n)'
           /\ \A n \in Nat : MarkedUpTo(n) => MarkedUpTo(n)'
           /\ \A n \in Nat : MatchUpTo(n) => MatchUpTo(n)'
<1>1. \A d \in DB : Matches(d) => Matches(d)'
    BY DEF StoreGrows, Matches
<1>2. (AllNew => AllNew') /\ (AllMatch => AllMatch') /\ (AllMarked => AllMarked')
    BY <1>1 DEF StoreGrows, AllNew, AllMatch, AllMarked
<1>3. \A n \in Nat : EmptyUpTo(n) => EmptyUpTo(n)'
    BY DEF StoreGrows, EmptyUpTo
<1>4. \A n \in Nat : MarkedUpTo(n) => MarkedUpTo(n)'
    BY <1>1, InDB DEF StoreGrows, MarkedUpTo
<1>5. \A n \in Nat : MatchUpTo(n) => MatchUpTo(n)'
    BY <1>1, InDB DEF MatchUpTo
<1> QED BY <1>1, <1>2, <1>3, <1>4, <1>5

(* A process that does not move keeps its part of the invariant.            *)
LEMMA OthersKeepLocal ==
    ASSUME TypeOK, TypeOK', StoreGrows,
           NEW q \in Migrators, Local(q),
           cmd'[q] = cmd[q], pc'[q] = pc[q], stage'[q] = stage[q], at'[q] = at[q],
           inventory'[q] = inventory[q], seen'[q] = seen[q]
    PROVE  Local(q)'
<1> USE StableFacts
<1> at[q] \in Nat
    BY DEF TypeOK, LocalTypes
<1>1. Counts(q)'
    BY DEF Local, Counts, StoreGrows
<1>2. Inspection(q)'
    BY DEF Local, Inspection, EmptyUpTo, MarkedUpTo
<1>3. Installation(q)'
    BY DEF Local, Installation, MatchUpTo
<1>4. Passed(q)'
    BY DEF Local, Passed
<1> QED BY <1>1, <1>2, <1>3, <1>4 DEF Local

(* Types: a process that starts afresh, ends or retries its command.        *)
LEMMA FreshTypes ==
    ASSUME LocalTypes, NEW p \in Migrators, NEW label, NEW st,
           label \in {"idle", "ok", "list", "inventory", "ddl", "verify"},
           st \in {"ensure", "post", "check", "checkPost"},
           cmd' \in [Migrators -> Commands],
           Fresh(p, label, st)
    PROVE  LocalTypes'
<1>1. NoCounts \in [domain : BOOLEAN, legacy : BOOLEAN, tracking : BOOLEAN]
    BY DEF NoCounts
<1> QED BY <1>1 DEF LocalTypes, Fresh, Goto

\* Starting a command from its first database keeps the types of the processes' locals.
LEMMA RestartTypes ==
    ASSUME LocalTypes, NEW p \in Migrators, NEW c \in Commands,
           cmd' \in [Migrators -> Commands], Restart(p, c)
    PROVE  LocalTypes'
<1>1. CASE Fresh(p, "list", "ensure")
    BY <1>1, FreshTypes
<1>2. CASE Fresh(p, "inventory", "ensure")
    BY <1>2, FreshTypes
<1>3. CASE Fresh(p, "inventory", "check")
    BY <1>3, FreshTypes
<1> QED BY <1>1, <1>2, <1>3 DEF Restart

\* An error, retried or final, keeps the types of the processes' locals.
LEMMA ErrorTypes ==
    ASSUME LocalTypes, NEW p \in Migrators, NEW retryable, Error(p, retryable)
    PROVE  LocalTypes'
<1>1. cmd' \in [Migrators -> Commands] /\ cmd[p] \in Commands
    BY DEF Error, LocalTypes
<1>2. CASE Fresh(p, "idle", "ensure")
    BY <1>1, <1>2, FreshTypes
<1>3. CASE Restart(p, cmd[p])
    BY <1>1, <1>3, RestartTypes
<1> QED BY <1>2, <1>3 DEF Error

\* The end of a command without error keeps the types of the processes' locals.
LEMMA SucceedTypes ==
    ASSUME LocalTypes, NEW p \in Migrators, Succeed(p)
    PROVE  LocalTypes'
<1>1. cmd' \in [Migrators -> Commands]
    BY DEF Succeed, LocalTypes
<1> QED BY <1>1, FreshTypes DEF Succeed

\* classifyBaselineState and what its caller does with the state keep the types of the
\* processes' locals.
LEMMA ClassifiedTypes ==
    ASSUME LocalTypes, NEW p \in Migrators, NEW counts, Classified(p, counts),
           UNCHANGED <<cmd, stage, known>>
    PROVE  LocalTypes'
<1>1. NoCounts \in [domain : BOOLEAN, legacy : BOOLEAN, tracking : BOOLEAN]
    BY DEF NoCounts
<1>2. ClassifyBaselineState(counts, Current(p)) \in States
    BY DEF ClassifyBaselineState, States
<1> QED BY <1>1, <1>2 DEF LocalTypes, Classified, NextDatabase, Goto

(* Every step keeps the types of the locals.                                *)
LEMMA LocalTypesStep ==
    ASSUME TypeOK, [Next]_vars
    PROVE  LocalTypes'
<1> USE DEF TypeOK
<1>1. CASE UNCHANGED vars
    BY <1>1 DEF vars, locals, LocalTypes
<1>2. CASE Next
    <2> PICK p \in Migrators : Begin(p) \/ MigratorStep(p) \/ Fails(p) \/ Crash(p)
        BY <1>2 DEF Next
    <2>1. CASE Begin(p)
        <3> PICK c \in Commands : cmd' = [cmd EXCEPT ![p] = c] /\ Restart(p, c)
            BY <2>1 DEF Begin
        <3>1. cmd' \in [Migrators -> Commands]
            BY DEF LocalTypes
        <3> QED BY <3>1, RestartTypes
    <2>2. CASE Crash(p)
        <3>1. cmd' \in [Migrators -> Commands]
            BY <2>2 DEF LocalTypes, Crash
        <3> QED BY <2>2, <3>1, FreshTypes DEF Crash
    <2>3. CASE Fails(p)
        BY <2>3, ErrorTypes DEF Fails, QueryFails, CreateFails, InsertFails
    <2>4. CASE BootstrapStep(p)
        <3>1. CASE CreateDatabaseExists(p)
            BY <3>1, ErrorTypes DEF CreateDatabaseExists
        <3>2. CASE BootstrapDone(p)
            BY <3>2, SucceedTypes DEF BootstrapDone
        <3>3. CASE ListDatabases(p)
            BY <3>3 DEF ListDatabases, Goto, LocalTypes, StoreTypes
        <3>4. CASE KnownDatabase(p) \/ CreateDatabase(p)
            <4>1. NextDatabase(p) /\ UNCHANGED <<cmd, pc, stage, inventory, seen, known>>
                BY <3>4 DEF KnownDatabase, CreateDatabase
            <4> QED BY <4>1 DEF NextDatabase, LocalTypes
        <3>7. CASE DatabasesCreated(p)
            BY <3>7 DEF DatabasesCreated, Then, Goto, LocalTypes
        <3>5. CASE ShouldRunOperation(p)
            BY <3>5 DEF ShouldRunOperation, NextDatabase, Goto, LocalTypes
        <3>6. CASE CreateMigrationTable(p)
            BY <3>6 DEF CreateMigrationTable, NextDatabase, Goto, LocalTypes
        <3> QED BY <2>4, <3>1, <3>2, <3>3, <3>4, <3>5, <3>6, <3>7 DEF BootstrapStep
    <2>5. CASE InspectStep(p)
        <3>1. CASE BaselineInventory(p)
            <4> DEFINE counts == TableCounts(Current(p))
            <4>1. counts \in [domain : BOOLEAN, legacy : BOOLEAN, tracking : BOOLEAN]
                BY DEF TableCounts
            <4> HIDE DEF counts
            <4>2. UNCHANGED <<cmd, stage, known>>
                BY <3>1 DEF BaselineInventory
            <4>3. CASE Classified(p, counts)
                BY <4>2, <4>3, ClassifiedTypes
            <4>4. CASE /\ inventory' = [inventory EXCEPT ![p] = counts]
                       /\ Goto(p, "markers")
                       /\ UNCHANGED <<seen, at>>
                BY <4>1, <4>2, <4>4 DEF Goto, LocalTypes
            <4> QED BY <3>1, <4>3, <4>4 DEF BaselineInventory, counts
        <3>2. CASE BaselineMigrations(p)
            BY <3>2, ClassifiedTypes DEF BaselineMigrations
        <3>3. CASE Inspected(p)
            BY <3>3 DEF Inspected, Then, Goto, LocalTypes
        <3>4. CASE EnsureEmpty(p) \/ EnsureComplete(p)
            <4>1. cmd' \in [Migrators -> Commands]
                BY <3>4 DEF EnsureEmpty, EnsureComplete, LocalTypes
            <4> QED BY <3>4, <4>1, FreshTypes DEF EnsureEmpty, EnsureComplete
        <3>5. CASE RequireComplete(p)
            <4>1. CASE Succeed(p)
                BY <4>1, SucceedTypes
            <4>2. CASE Fresh(p, "verify", "checkPost") /\ UNCHANGED cmd
                <5>1. cmd' \in [Migrators -> Commands]
                    BY <4>2 DEF LocalTypes
                <5> QED BY <4>2, <5>1, FreshTypes
            <4> QED BY <3>5, <4>1, <4>2 DEF RequireComplete
        <3>6. CASE Refused(p)
            BY <3>6, ErrorTypes DEF Refused
        <3> QED BY <2>5, <3>1, <3>2, <3>3, <3>4, <3>5, <3>6 DEF InspectStep
    <2>6. CASE InstallStep(p)
        <3>1. CASE RunOperation(p)
            BY <3>1 DEF RunOperation, LocalTypes
        <3>2. CASE RunOperationFails(p)
            BY <3>2 DEF RunOperationFails, Goto, LocalTypes, locals
        <3>3. CASE InsertFailedMarker(p) \/ NoTrackingTable(p)
            BY <3>3, ErrorTypes DEF InsertFailedMarker, NoTrackingTable
        <3>4. CASE SchemaCreated(p) \/ Marked(p)
            <4>1. cmd' \in [Migrators -> Commands]
                BY <3>4 DEF SchemaCreated, Marked, LocalTypes
            <4> QED BY <3>4, <4>1, FreshTypes DEF SchemaCreated, Marked
        <3>5. CASE VerifyCanonicalSchema(p)
            <4>1. CASE Error(p, FALSE)
                BY <4>1, ErrorTypes
            <4>2. CASE NextDatabase(p) /\ UNCHANGED <<cmd, pc, stage, inventory, seen, known>>
                BY <4>2 DEF NextDatabase, LocalTypes
            <4> QED BY <3>5, <4>1, <4>2 DEF VerifyCanonicalSchema
        <3>6. CASE Verified(p)
            <4>1. CASE Succeed(p)
                BY <4>1, SucceedTypes
            <4>2. CASE Then(p, "status")
                BY <4>2 DEF Then, Goto, LocalTypes
            <4> QED BY <3>6, <4>1, <4>2 DEF Verified
        <3>7. CASE CheckMigrationStatus(p)
            BY <3>7 DEF CheckMigrationStatus, NextDatabase, Goto, LocalTypes
        <3>8. CASE InsertMigrationEntry(p)
            BY <3>8 DEF InsertMigrationEntry, NextDatabase, Goto, LocalTypes
        <3> QED BY <2>6, <3>1, <3>2, <3>3, <3>4, <3>5, <3>6, <3>7, <3>8 DEF InstallStep
    <2> QED BY <2>1, <2>2, <2>3, <2>4, <2>5, <2>6 DEF MigratorStep
<1> QED BY <1>1, <1>2

(* Every step only adds to the store, and only with justification.          *)
LEMMA StoreStep ==
    ASSUME Inv, [Next]_vars
    PROVE  StoreTypes' /\ StoreGrows /\ StoreJustified
<1> USE DEF Inv, TypeOK
<1>1. CASE UNCHANGED store
    BY <1>1 DEF store, StoreTypes, StoreGrows, StoreJustified, OnlyCanonical
<1>2. CASE UNCHANGED <<tables, old, marker>> /\ databases \subseteq databases'
           /\ tracking \subseteq tracking' /\ databases' \subseteq DB /\ tracking' \subseteq DB
    BY <1>2 DEF StoreTypes, StoreGrows, StoreJustified, OnlyCanonical
<1>3. ASSUME NEW d \in DB, NEW status \in {"failed", "finished"},
             Mark(d, status) \/ UNCHANGED marker, AllNew, status = "finished" => AllMatch,
             UNCHANGED <<databases, tracking, tables, old>>
      PROVE  StoreTypes' /\ StoreGrows /\ StoreJustified
    BY <1>3 DEF Mark, StoreTypes, StoreGrows, StoreJustified, OnlyCanonical
<1>4. ASSUME NEW i \in DOMAIN DDL, tables' = Created(DDL[i]) \/ UNCHANGED tables, AllNew,
             UNCHANGED <<databases, tracking, old, marker>>
      PROVE  StoreTypes' /\ StoreGrows /\ StoreJustified
    BY <1>4, StatementIsCanonical DEF Created, StoreTypes, StoreGrows, StoreJustified, OnlyCanonical
<1>5. CASE UNCHANGED vars
    BY <1>5, <1>1 DEF vars
<1>6. CASE Next
    <2> PICK p \in Migrators : Begin(p) \/ MigratorStep(p) \/ Fails(p) \/ Crash(p)
        BY <1>6 DEF Next
    <2> Local(p)
        OBVIOUS
    <2>1. CASE Begin(p) \/ Crash(p) \/ QueryFails(p)
        BY <2>1, <1>1 DEF Begin, Crash, QueryFails
    <2>2. CASE InspectStep(p)
        BY <2>2, <1>1 DEF InspectStep, BaselineInventory, BaselineMigrations, Inspected, Then,
                          EnsureEmpty, EnsureComplete, RequireComplete, Refused
    <2>3. CASE BootstrapStep(p)
        <3>1. CASE CreateDatabase(p)
            <4>1. Current(p) \in DB
                BY <3>1, InDB DEF CreateDatabase, Current, More
            <4> QED BY <3>1, <4>1, <1>2 DEF CreateDatabase, StoreTypes
        <3>2. CASE CreateMigrationTable(p)
            <4>1. TrackingDatabase(p) \in DB
                BY <3>2, InDB DEF CreateMigrationTable, TrackingDatabase, Local, Installation
            <4> QED BY <3>2, <4>1, <1>2 DEF CreateMigrationTable, StoreTypes
        <3>3. CASE ~CreateDatabase(p) /\ ~CreateMigrationTable(p)
            BY <2>3, <3>3, <1>1 DEF BootstrapStep, ListDatabases, KnownDatabase,
               CreateDatabaseExists, DatabasesCreated, Then, ShouldRunOperation, BootstrapDone
        <3> QED BY <3>1, <3>2, <3>3
    <2>4. CASE CreateFails(p)
        <3>1. Current(p) \in DB /\ TrackingDatabase(p) \in DB
            BY <2>4, InDB DEF CreateFails, Current, TrackingDatabase, More
        <3> QED BY <2>4, <3>1, <1>1, <1>2 DEF CreateFails, StoreTypes
    <2>5. CASE InsertFails(p) \/ InsertMigrationEntry(p)
        <3>1. Current(p) \in DB /\ AllNew /\ AllMatch
            BY <2>5, InDB DEF InsertFails, InsertMigrationEntry, Current, Local, Installation
        <3> QED BY <2>5, <3>1, <1>3 DEF InsertFails, InsertMigrationEntry
    <2>6. CASE InsertFailedMarker(p)
        <3>1. Statement(p).db \in DB /\ AllNew
            BY <2>6, StatementIsCanonical DEF InsertFailedMarker, Statement, Local, Installation
        <3> QED BY <2>6, <3>1, <1>3 DEF InsertFailedMarker
    <2>7. CASE RunOperation(p) \/ RunOperationFails(p)
        <3>1. at[p] \in DOMAIN DDL /\ AllNew
            BY <2>7 DEF RunOperation, RunOperationFails, Local, Installation
        <3> QED BY <2>7, <3>1, <1>4 DEF RunOperation, RunOperationFails, Statement
    <2>8. CASE SchemaCreated(p) \/ VerifyCanonicalSchema(p) \/ Verified(p)
               \/ CheckMigrationStatus(p) \/ NoTrackingTable(p) \/ Marked(p)
        BY <2>8, <1>1 DEF SchemaCreated, VerifyCanonicalSchema, Verified, Then,
                          CheckMigrationStatus, NoTrackingTable, Marked
    <2> QED BY <2>1, <2>2, <2>3, <2>4, <2>5, <2>6, <2>7, <2>8 DEF MigratorStep, Fails, InstallStep
<1> QED BY <1>5, <1>6

(* ... so what the store says stays true.                                   *)
LEMMA StoreFacts ==
    ASSUME Inv, TypeOK', StoreGrows, StoreJustified
    PROVE  UnexpectedIsTracked' /\ OnlyCanonical' /\ MarkersAreTrue' /\ NeverAdopts'
<1> USE DEF Inv
<1>1. UnexpectedIsTracked' /\ OnlyCanonical'
    BY DEF StoreGrows, UnexpectedIsTracked, OnlyCanonical
<1>2. MarkersAreTrue'
    <2> SUFFICES ASSUME NEW d \in DB, marker'[d] = "finished"
                 PROVE  AllMatch'
        BY DEF MarkersAreTrue, AllMatch
    <2>1. AllMatch
        BY DEF StoreJustified, MarkersAreTrue, AllMatch
    <2> QED BY <2>1, StableFacts
<1>3. NeverAdopts'
    <2>1. CASE AllNew
        BY <2>1 DEF StoreGrows, AllNew, NeverAdopts
    <2>2. CASE ~AllNew
        BY <2>2 DEF StoreGrows, StoreJustified, NeverAdopts
    <2> QED BY <2>1, <2>2
<1> QED BY <1>1, <1>2, <1>3

-----------------------------------------------------------------------------
(* A step of p leaves the locals of the others alone.                       *)
Same(q) ==
    /\ cmd'[q] = cmd[q] /\ pc'[q] = pc[q] /\ stage'[q] = stage[q] /\ at'[q] = at[q]
    /\ inventory'[q] = inventory[q] /\ seen'[q] = seen[q] /\ known'[q] = known[q]

\* A step of one process leaves the locals of the others alone: they meet only in ClickHouse.
LEMMA OthersUntouched ==
    ASSUME LocalTypes, NEW p \in Migrators, NEW q \in Migrators, q # p,
           Begin(p) \/ MigratorStep(p) \/ Fails(p) \/ Crash(p)
    PROVE  Same(q)
<1> USE DEF LocalTypes
<1>1. ASSUME NEW label, NEW st, Fresh(p, label, st), cmd'[q] = cmd[q]
      PROVE  Same(q)
    BY <1>1 DEF Fresh, Goto, Same
<1>2. ASSUME NEW c, Restart(p, c), cmd'[q] = cmd[q]
      PROVE  Same(q)
    BY <1>1, <1>2 DEF Restart
<1>3. ASSUME NEW r, Error(p, r)
      PROVE  Same(q)
    BY <1>1, <1>2, <1>3 DEF Error
<1>4. CASE Succeed(p)
    BY <1>1, <1>4 DEF Succeed
<1>5. ASSUME NEW label, Then(p, label)
      PROVE  Same(q)
    BY <1>5 DEF Then, Goto, Same
<1>6. CASE Begin(p) \/ Crash(p)
    <2>1. cmd'[q] = cmd[q]
        BY <1>6 DEF Begin, Crash
    <2> QED BY <1>6, <2>1, <1>1, <1>2 DEF Begin, Crash
<1>7. CASE Fails(p)
    BY <1>7, <1>3 DEF Fails, QueryFails, CreateFails, InsertFails
<1>8. CASE BootstrapStep(p)
    <2>1. CASE ListDatabases(p) \/ KnownDatabase(p) \/ CreateDatabase(p)
               \/ ShouldRunOperation(p) \/ CreateMigrationTable(p)
        BY <2>1 DEF ListDatabases, KnownDatabase, CreateDatabase, ShouldRunOperation,
                    CreateMigrationTable, NextDatabase, Goto, Same
    <2>2. CASE CreateDatabaseExists(p) \/ DatabasesCreated(p) \/ BootstrapDone(p)
        BY <2>2, <1>3, <1>4, <1>5 DEF CreateDatabaseExists, DatabasesCreated, BootstrapDone
    <2> QED BY <1>8, <2>1, <2>2 DEF BootstrapStep
<1>9. CASE InspectStep(p)
    <2>1. ASSUME NEW counts, Classified(p, counts), UNCHANGED <<cmd, stage, known>>
          PROVE  Same(q)
        BY <2>1 DEF Classified, NextDatabase, Goto, Same
    <2>2. CASE BaselineInventory(p)
        <3>1. CASE Current(p) \in tracking
            BY <2>2, <3>1 DEF BaselineInventory, Goto, Same
        <3>2. CASE Current(p) \notin tracking
            BY <2>1, <2>2, <3>2 DEF BaselineInventory
        <3> QED BY <3>1, <3>2
    <2>3. CASE BaselineMigrations(p)
        BY <2>1, <2>3 DEF BaselineMigrations
    <2>4. CASE Inspected(p) \/ Refused(p)
        BY <2>4, <1>3, <1>5 DEF Inspected, Refused
    <2>5. CASE EnsureEmpty(p) \/ EnsureComplete(p)
        BY <2>5, <1>1 DEF EnsureEmpty, EnsureComplete
    <2>6. CASE RequireComplete(p)
        BY <2>6, <1>1, <1>4 DEF RequireComplete
    <2> QED BY <1>9, <2>2, <2>3, <2>4, <2>5, <2>6 DEF InspectStep
<1>10. CASE InstallStep(p)
    <2>1. CASE RunOperation(p) \/ RunOperationFails(p)
        BY <2>1 DEF RunOperation, RunOperationFails, Goto, locals, Same
    <2>2. CASE InsertFailedMarker(p) \/ NoTrackingTable(p)
        BY <2>2, <1>3 DEF InsertFailedMarker, NoTrackingTable
    <2>3. CASE SchemaCreated(p) \/ Marked(p)
        BY <2>3, <1>1 DEF SchemaCreated, Marked
    <2>4. CASE VerifyCanonicalSchema(p)
        <3>1. CASE Matches(Current(p))
            BY <2>4, <3>1 DEF VerifyCanonicalSchema, NextDatabase, Same
        <3>2. CASE ~Matches(Current(p))
            BY <2>4, <3>2, <1>3 DEF VerifyCanonicalSchema
        <3> QED BY <3>1, <3>2
    <2>5. CASE Verified(p)
        BY <2>5, <1>4, <1>5 DEF Verified
    <2>6. CASE CheckMigrationStatus(p) \/ InsertMigrationEntry(p)
        BY <2>6 DEF CheckMigrationStatus, InsertMigrationEntry, NextDatabase, Goto, Same
    <2> QED BY <1>10, <2>1, <2>2, <2>3, <2>4, <2>5, <2>6 DEF InstallStep
<1> QED BY <1>6, <1>7, <1>8, <1>9, <1>10 DEF MigratorStep

(* A process that starts or ends has nothing to keep, unless it succeeds or  *)
(* goes on to the statements or the verification.                            *)
LEMMA FreshLocal ==
    ASSUME TypeOK, TypeOK', NEW p \in Migrators, NEW label, NEW st, Fresh(p, label, st),
           \/ label \in {"idle", "inventory"}
           \/ label = "list" /\ cmd'[p] = "bootstrap"
           \/ label = "ok" /\ (cmd'[p] = "bootstrap" \/ AllMarked')
           \/ label = "ddl" /\ AllNew'
           \/ label = "verify" /\ st = "ensure" /\ AllNew'
           \/ label = "verify" /\ st = "checkPost" /\ AllMarked'
    PROVE  Local(p)'
<1>1. /\ pc'[p] = label /\ stage'[p] = st /\ at'[p] = 1 /\ seen'[p] = {}
    BY DEF Fresh, Goto, TypeOK, LocalTypes
<1>2. \A i \in DOMAIN Databases : ~(i < 1)
    BY SchemaMigratorAssumption
<1>3. Counts(p)' /\ Passed(p)'
    BY <1>1 DEF Counts, Passed
<1>4. Inspection(p)'
    BY <1>1, <1>2 DEF Inspection, EmptyUpTo, MarkedUpTo
<1>5. Installation(p)'
    BY <1>1, <1>2 DEF Installation, MatchUpTo
<1> QED BY <1>3, <1>4, <1>5 DEF Local

\* A command that starts knows nothing of the store yet, so what it knows is true.
LEMMA RestartLocal ==
    ASSUME TypeOK, TypeOK', NEW p \in Migrators, NEW c \in Commands, Restart(p, c), cmd'[p] = c
    PROVE  Local(p)'
BY FreshLocal DEF Restart

\* A command that gives up or waits for its next attempt forgets what it read.
LEMMA ErrorLocal ==
    ASSUME TypeOK, TypeOK', NEW p \in Migrators, NEW r, Error(p, r)
    PROVE  Local(p)'
<1>1. cmd[p] \in Commands /\ cmd'[p] = cmd[p]
    BY DEF Error, TypeOK, LocalTypes
<1>2. CASE Fresh(p, "idle", "ensure")
    BY <1>2, FreshLocal
<1>3. CASE Restart(p, cmd[p])
    BY <1>1, <1>3, RestartLocal
<1> QED BY <1>2, <1>3 DEF Error

(* A database is classified as Empty only if it is new, and as Complete only *)
(* with a finished marker.                                                   *)
LEMMA Classification ==
    ASSUME Inv, NEW d \in DB, NEW counts,
           old[d] = "domain" => counts.domain,
           old[d] = "legacy" => counts.legacy,
           counts.tracking \/ d \notin tracking
    PROVE  /\ ClassifyBaselineState(counts, d) = "Empty" => old[d] = "none"
           /\ ClassifyBaselineState(counts, d) = "Complete" => marker[d] = "finished"
BY DEF Inv, TypeOK, StoreTypes, UnexpectedIsTracked, ClassifyBaselineState

\* What a process holds true of a database after classifying it follows from what it counted:
\* another process may meanwhile only have added to what it saw.
LEMMA ClassifiedLocal ==
    ASSUME Inv, TypeOK', NEW p \in Migrators, pc[p] \in {"inventory", "markers"},
           at[p] \in DOMAIN Databases, UNCHANGED <<store, cmd, stage, known>>,
           NEW counts, Classified(p, counts),
           old[Current(p)] = "domain" => counts.domain,
           old[Current(p)] = "legacy" => counts.legacy,
           counts.tracking \/ Current(p) \notin tracking
    PROVE  Local(p)'
<1> DEFINE d == Databases[at[p]]
           s == ClassifyBaselineState(counts, d)
<1>1. d \in DB /\ d = Current(p)
    BY InDB DEF Current
<1>2. (s = "Empty" => old[d] = "none") /\ (s = "Complete" => marker[d] = "finished")
    BY <1>1, Classification
<1>3. pc'[p] = "inventory" /\ seen'[p] = seen[p] \cup {s} /\ at'[p] = at[p] + 1
    BY <1>1 DEF Classified, Goto, NextDatabase, Inv, TypeOK, LocalTypes
<1>4. at[p] \in Nat /\ DOMAIN Databases \subseteq Nat
    BY SchemaMigratorAssumption DEF Inv, TypeOK, LocalTypes
<1>5. \A i \in DOMAIN Databases : i < at[p] + 1 => i < at[p] \/ i = at[p]
    BY <1>4
<1>6. Local(p) /\ (s = "Complete" => AllMatch)
    BY <1>1, <1>2 DEF Inv, MarkersAreTrue, AllMatch
<1> HIDE DEF s
<1>7. seen'[p] \subseteq {"Empty"} => EmptyUpTo(at[p] + 1)
    BY <1>2, <1>3, <1>5, <1>6 DEF Local, Inspection, EmptyUpTo
<1>8. seen'[p] \subseteq {"Complete"} => MarkedUpTo(at[p] + 1)
    <2> SUFFICES ASSUME seen'[p] \subseteq {"Complete"}
                 PROVE  MarkedUpTo(at[p] + 1)
        OBVIOUS
    <2>1. s = "Complete" /\ seen[p] \subseteq {"Complete"}
        BY <1>3
    <2>2. MarkedUpTo(at[p]) /\ AllMatch /\ marker[d] = "finished"
        BY <2>1, <1>2, <1>6 DEF Local, Inspection
    <2> QED BY <2>2, <1>5 DEF MarkedUpTo, AllMatch
<1>9. Inspection(p)'
    BY <1>3, <1>7, <1>8 DEF Inspection, EmptyUpTo, MarkedUpTo, Matches, store
<1> QED BY <1>3, <1>9 DEF Local, Counts, Installation, Passed

(* The process that moves keeps its part of the invariant.                  *)
LEMMA LocalStep ==
    ASSUME Inv, TypeOK', StoreGrows, NEW p \in Migrators,
           Begin(p) \/ MigratorStep(p) \/ Fails(p) \/ Crash(p)
    PROVE  Local(p)'
<1> USE DEF Inv
<1> Local(p)
    OBVIOUS
<1> at[p] \in Nat \ {0} /\ DOMAIN Databases \subseteq Nat
    BY SchemaMigratorAssumption DEF TypeOK, LocalTypes
<1>1. CASE Begin(p)
    <2> PICK c \in Commands : cmd' = [cmd EXCEPT ![p] = c] /\ Restart(p, c)
        BY <1>1 DEF Begin
    <2>1. cmd'[p] = c
        BY DEF TypeOK, LocalTypes
    <2> QED BY <2>1, RestartLocal
<1>2. CASE Crash(p)
    BY <1>2, FreshLocal DEF Crash
<1>3. CASE Fails(p)
    BY <1>3, ErrorLocal DEF Fails, QueryFails, CreateFails, InsertFails
<1>4. CASE BootstrapStep(p)
    <2>1. CASE CreateDatabaseExists(p)
        BY <2>1, ErrorLocal DEF CreateDatabaseExists
    <2>2. CASE BootstrapDone(p)
        <3>1. cmd'[p] = "bootstrap"
            BY <2>2 DEF BootstrapDone, Succeed, Local, Passed
        <3> QED BY <2>2, <3>1, FreshLocal DEF BootstrapDone, Succeed
    <2>3. CASE ListDatabases(p) \/ KnownDatabase(p) \/ CreateDatabase(p) \/ DatabasesCreated(p)
               \/ ShouldRunOperation(p) \/ CreateMigrationTable(p)
        <3>1. cmd'[p] = cmd[p] /\ cmd[p] = "bootstrap"
            BY <2>3 DEF ListDatabases, KnownDatabase, CreateDatabase, DatabasesCreated, Then,
                        ShouldRunOperation, CreateMigrationTable, Local, Passed
        <3>2. /\ pc'[p] \in {"createDB", "shouldRun", "createTable"}
              /\ pc'[p] = "createTable" => at'[p] \in DOMAIN Databases
            BY <2>3 DEF ListDatabases, KnownDatabase, CreateDatabase, DatabasesCreated, Then,
                        ShouldRunOperation, CreateMigrationTable, Goto, More, TypeOK, LocalTypes
        <3> QED BY <3>1, <3>2 DEF Local, Counts, Inspection, Installation, Passed
    <2> QED BY <1>4, <2>1, <2>2, <2>3 DEF BootstrapStep
<1>5. CASE InspectStep(p)
    <2>1. CASE BaselineInventory(p) /\ Current(p) \notin tracking
        <3>1. TableCounts(Current(p)).domain <=> (tables[Current(p)] # {} \/ old[Current(p)] = "domain")
            BY DEF TableCounts
        <3>2. TableCounts(Current(p)).legacy <=> old[Current(p)] = "legacy"
            BY DEF TableCounts
        <3> QED BY <2>1, <3>1, <3>2, ClassifiedLocal DEF BaselineInventory, More
    <2>2. CASE BaselineInventory(p) /\ Current(p) \in tracking
        <3>1. /\ at[p] \in DOMAIN Databases /\ UNCHANGED <<at, seen, store>>
              /\ pc[p] = "inventory" /\ pc'[p] = "markers"
              /\ inventory'[p] = TableCounts(Current(p))
            BY <2>2 DEF BaselineInventory, More, Goto, TypeOK, LocalTypes
        <3>2. Counts(p)'
            <4>1. /\ TableCounts(Current(p)).tracking <=> Current(p) \in tracking
                  /\ TableCounts(Current(p)).legacy <=> old[Current(p)] = "legacy"
                BY DEF TableCounts
            <4>2. TableCounts(Current(p)).domain
                    <=> (tables[Current(p)] # {} \/ old[Current(p)] = "domain")
                BY DEF TableCounts
            <4>3. at'[p] = at[p] /\ old' = old
                BY <3>1 DEF store
            <4> QED BY <2>2, <3>1, <4>1, <4>2, <4>3 DEF Counts, Current
        <3>3. Inspection(p)'
            BY <3>1 DEF Local, Inspection, EmptyUpTo, MarkedUpTo, Matches, store
        <3> QED BY <3>1, <3>2, <3>3 DEF Local, Installation, Passed
    <2>3. CASE BaselineMigrations(p)
        BY <2>3, ClassifiedLocal DEF BaselineMigrations, Local, Counts, Current
    <2>4. CASE Inspected(p)
        <3>1. /\ pc[p] = "inventory" /\ pc'[p] = "inspected" /\ UNCHANGED <<seen, store>>
              /\ at[p] \notin DOMAIN Databases
            BY <2>4 DEF Inspected, Then, More, Goto, TypeOK, LocalTypes
        <3>2. \A d \in DB : \E i \in DOMAIN Databases : d = Databases[i] /\ i < at[p]
            BY <3>1, LoopOver
        <3>3. seen[p] \subseteq {"Empty"} => AllNew
            BY <3>1, <3>2 DEF Local, Inspection, EmptyUpTo, AllNew
        <3>4. seen[p] \subseteq {"Complete"} => AllMarked
            BY <3>1, <3>2 DEF Local, Inspection, MarkedUpTo, AllMarked
        <3>5. Inspection(p)'
            BY <3>1, <3>3, <3>4 DEF Inspection, AllNew, AllMarked, Matches, store
        <3> QED BY <3>1, <3>5 DEF Local, Counts, Installation, Passed
    <2>5. CASE EnsureEmpty(p)
        <3>1. AllNew
            BY <2>5 DEF EnsureEmpty, Report, Local, Inspection
        <3> QED BY <2>5, <3>1, StableFacts, FreshLocal DEF EnsureEmpty
    <2>6. CASE EnsureComplete(p)
        BY <2>6, FreshLocal DEF EnsureComplete
    <2>7. CASE RequireComplete(p)
        <3>1. AllMarked'
            BY <2>7, StableFacts DEF RequireComplete, Report, Local, Inspection
        <3> QED BY <2>7, <3>1, FreshLocal DEF RequireComplete, Succeed
    <2>8. CASE Refused(p)
        BY <2>8, ErrorLocal DEF Refused
    <2> QED BY <1>5, <2>1, <2>2, <2>3, <2>4, <2>5, <2>6, <2>7, <2>8 DEF InspectStep
<1>6. CASE InstallStep(p)
    <2>1. CASE RunOperation(p) \/ RunOperationFails(p)
        <3>1. pc'[p] \in {"ddl", "failed"} /\ (pc'[p] = "failed" => at'[p] \in DOMAIN DDL)
            BY <2>1 DEF RunOperation, RunOperationFails, Goto, locals, TypeOK, LocalTypes
        <3>2. AllNew'
            BY <2>1, StableFacts DEF RunOperation, RunOperationFails, Local, Installation
        <3> QED BY <3>1, <3>2 DEF Local, Counts, Inspection, Installation, Passed
    <2>2. CASE InsertFailedMarker(p) \/ NoTrackingTable(p)
        BY <2>2, ErrorLocal DEF InsertFailedMarker, NoTrackingTable
    <2>3. CASE SchemaCreated(p)
        <3>1. AllNew'
            BY <2>3, StableFacts DEF SchemaCreated, Local, Installation
        <3> QED BY <2>3, <3>1, FreshLocal DEF SchemaCreated
    <2>4. CASE Marked(p)
        BY <2>4, FreshLocal DEF Marked
    <2>5. CASE VerifyCanonicalSchema(p) /\ ~Matches(Current(p))
        BY <2>5, ErrorLocal DEF VerifyCanonicalSchema
    <2>6. CASE VerifyCanonicalSchema(p) /\ Matches(Current(p))
        <3>1. /\ pc[p] = "verify" /\ pc'[p] = "verify" /\ UNCHANGED <<stage, store>>
              /\ at'[p] = at[p] + 1
            BY <2>6 DEF VerifyCanonicalSchema, NextDatabase, TypeOK, LocalTypes
        <3>2. \A i \in DOMAIN Databases : i < at[p] + 1 => i < at[p] \/ i = at[p]
            OBVIOUS
        <3>3. MatchUpTo(at[p] + 1)
            <4>1. MatchUpTo(at[p])
                BY <3>1 DEF Local, Installation
            <4>2. Matches(Databases[at[p]])
                BY <2>6 DEF Current
            <4> QED BY <4>1, <4>2, <3>2 DEF MatchUpTo
        <3>4. MatchUpTo(at[p])'
            BY <3>1, <3>3 DEF MatchUpTo, Matches, store
        <3>5. Installation(p)'
            BY <3>1, <3>4, StableFacts DEF Local, Installation
        <3> QED BY <3>1, <3>5 DEF Local, Counts, Inspection, Passed
    <2>7. CASE Verified(p) /\ stage[p] = "ensure"
        <3>1. pc[p] = "verify" /\ pc'[p] = "status" /\ at[p] \notin DOMAIN Databases
            BY <2>7 DEF Verified, Then, More, Goto, TypeOK, LocalTypes
        <3>2. AllMatch
            BY <3>1, LoopOver DEF Local, Installation, MatchUpTo, AllMatch
        <3>3. AllNew
            BY <2>7, <3>1 DEF Local, Installation
        <3>4. AllMatch' /\ AllNew'
            BY <3>2, <3>3, StableFacts
        <3> QED BY <3>1, <3>4 DEF Local, Counts, Inspection, Installation, Passed
    <2>8. CASE Verified(p) /\ stage[p] # "ensure"
        <3>1. AllMarked'
            BY <2>8, StableFacts DEF Verified, Local, Installation
        <3> QED BY <2>8, <3>1, FreshLocal DEF Verified, Succeed
    <2>9. CASE CheckMigrationStatus(p) \/ InsertMigrationEntry(p)
        <3>1. /\ pc'[p] \in {"status", "insert"}
              /\ pc'[p] = "insert" => at'[p] \in DOMAIN Databases
            BY <2>9 DEF CheckMigrationStatus, InsertMigrationEntry, Goto, More, TypeOK, LocalTypes
        <3>2. AllNew' /\ AllMatch'
            BY <2>9, StableFacts DEF CheckMigrationStatus, InsertMigrationEntry, Local, Installation
        <3> QED BY <3>1, <3>2 DEF Local, Counts, Inspection, Installation, Passed
    <2> QED BY <1>6, <2>1, <2>2, <2>3, <2>4, <2>5, <2>6, <2>7, <2>8, <2>9 DEF InstallStep
<1> QED BY <1>1, <1>2, <1>3, <1>4, <1>5, <1>6 DEF MigratorStep

-----------------------------------------------------------------------------
(* The theorems.                                                            *)

\* The stores and processes the model starts from satisfy the invariant.
LEMMA InitInv == Init => Inv
<1> SUFFICES ASSUME Init
             PROVE  Inv
    OBVIOUS
<1>1. TypeOK
    <2>1. NoCounts \in [domain : BOOLEAN, legacy : BOOLEAN, tracking : BOOLEAN]
        BY DEF NoCounts
    <2> QED BY <2>1 DEF Init, TypeOK, StoreTypes, LocalTypes, Commands
<1>2. UnexpectedIsTracked /\ OnlyCanonical /\ MarkersAreTrue /\ NeverAdopts
    BY DEF Init, UnexpectedIsTracked, OnlyCanonical, MarkersAreTrue, NeverAdopts
<1>3. \A p \in Migrators : Local(p)
    BY DEF Init, Local, Counts, Inspection, Installation, Passed
<1> QED BY <1>1, <1>2, <1>3 DEF Inv

\* Every step of a process, failure or kill keeps the invariant.
LEMMA StepInv == Inv /\ [Next]_vars => Inv'
<1> SUFFICES ASSUME Inv, [Next]_vars
             PROVE  Inv'
    OBVIOUS
<1>1. StoreTypes' /\ StoreGrows /\ StoreJustified
    BY StoreStep
<1>2. TypeOK'
    BY <1>1, LocalTypesStep DEF Inv, TypeOK
<1>3. UnexpectedIsTracked' /\ OnlyCanonical' /\ MarkersAreTrue' /\ NeverAdopts'
    BY <1>1, <1>2, StoreFacts
<1>4. ASSUME NEW q \in Migrators
      PROVE  Local(q)'
    <2>1. CASE Same(q)
        BY <2>1, <1>1, <1>2, OthersKeepLocal DEF Inv, Same
    <2>2. CASE ~Same(q)
        <3>1. PICK p \in Migrators : Begin(p) \/ MigratorStep(p) \/ Fails(p) \/ Crash(p)
            BY <2>2 DEF Next, vars, locals, Same
        <3>2. p = q
            BY <2>2, <3>1, OthersUntouched DEF Inv, TypeOK
        <3> QED BY <1>1, <1>2, <3>1, <3>2, LocalStep
    <2> QED BY <2>1, <2>2
<1> QED BY <1>2, <1>3, <1>4 DEF Inv

\* The inductive invariant holds: what each migration process has seen,
\* verified or marked on its way is still true of the store.
THEOREM MigratorInvariant == Spec => []Inv
BY InitInv, StepInv, PTL DEF Spec

\* A finished 999 marker implies the verified schema in every database
\* (ensureCanonicalBaseline), for any number of concurrent migrate processes.
THEOREM FinishedMeansVerified == Spec => []MarkersAreTrue
BY MigratorInvariant, PTL DEF Inv

\* ensureCanonicalBaseline never creates a table or writes a marker next to
\* what a release before M16 has left.
THEOREM OldSchemaIsNeverAdopted == Spec => []NeverAdopts
BY MigratorInvariant, PTL DEF Inv

\* `migrate sync up` and `migrate sync check` succeed only on a store that has
\* the whole canonical schema and a marker in every database.
THEOREM GateIsAlwaysSound == Spec => []GateIsSound
<1>1. Inv => GateIsSound
    BY DEF Inv, Local, Passed, AllMarked, GateIsSound
<1> QED BY <1>1, MigratorInvariant, PTL

-----------------------------------------------------------------------------
(* A complete baseline stays complete when nothing fails.                   *)

\* A process that starts, ends or retries has no database to wait for, unless it
\* goes on with a sync command.
LEMMA FreshOnTime ==
    ASSUME TypeOK, TypeOK', NEW p \in Migrators, NEW label, NEW st, Fresh(p, label, st),
           label \in {"idle", "ok", "list"} \/ (label \in {"inventory", "ddl", "verify"} /\ databases' = DB)
    PROVE  OnTime(p)'
<1>1. pc'[p] = label /\ known'[p] = {} /\ at'[p] = 1
    BY DEF Fresh, Goto, TypeOK, LocalTypes
<1> QED BY <1>1 DEF OnTime

\* An error that ends the command leaves no such process; one that is retried comes after the
\* databases were there.
LEMMA ErrorOnTime ==
    ASSUME TypeOK, TypeOK', NEW p \in Migrators, NEW r, Error(p, r), r => databases' = DB
    PROVE  OnTime(p)'
BY FreshOnTime DEF Error, Restart

\* The process that moves stays on time.
LEMMA OnTimeStep ==
    ASSUME Inv, TypeOK', StoreGrows, orderly, OrderInv, NEW p \in Migrators,
           Begin(p) \/ MigratorStep(p) \/ Fails(p) \/ Crash(p)
    PROVE  OnTime(p)'
<1> USE DEF Inv
<1>1. OnTime(p) /\ tracking \subseteq databases
    BY DEF OrderInv
<1>2. databases = DB => databases' = DB
    BY DEF StoreGrows, TypeOK, StoreTypes
<1>3. at[p] \in Nat \ {0} /\ DOMAIN Databases \subseteq Nat
    BY SchemaMigratorAssumption DEF TypeOK, LocalTypes
<1>4. CASE Begin(p)
    <2> PICK c \in Commands : (c = "bootstrap" \/ tracking = DB) /\ Restart(p, c)
        BY <1>4 DEF Begin
    <2>1. c # "bootstrap" => databases' = DB
        BY <1>1, <1>2 DEF TypeOK, StoreTypes
    <2> QED BY <2>1, FreshOnTime DEF Restart
<1>5. CASE Crash(p) \/ Fails(p)
    BY <1>5 DEF Crash, Fails, QueryFails, CreateFails, InsertFails
<1>6. CASE BootstrapStep(p)
    <2>1. CASE ListDatabases(p)
        <3>1. /\ pc'[p] = "createDB" /\ known'[p] = databases /\ databases' = databases
              /\ at'[p] = at[p]
            BY <2>1 DEF ListDatabases, Goto, store, TypeOK, LocalTypes
        <3>2. at[p] = 1
            BY <1>1, <2>1 DEF ListDatabases, OnTime
        <3> QED BY <3>1, <3>2, SchemaMigratorAssumption DEF OnTime
    <2>2. CASE KnownDatabase(p) \/ CreateDatabase(p)
        <3>1. /\ pc[p] = "createDB" /\ pc'[p] = "createDB" /\ known'[p] = known[p]
              /\ at'[p] = at[p] + 1 /\ databases \subseteq databases'
              /\ Databases[at[p]] \in databases'
            BY <1>1, <2>2 DEF KnownDatabase, CreateDatabase, NextDatabase, Current, OnTime, store,
                              TypeOK, LocalTypes
        <3>2. \A i \in DOMAIN Databases : i < at[p] + 1 => i < at[p] \/ i = at[p]
            BY <1>3
        <3> QED BY <1>1, <3>1, <3>2 DEF OnTime
    <2>3. CASE CreateDatabaseExists(p)
        BY <2>3, ErrorOnTime DEF CreateDatabaseExists
    <2>4. CASE DatabasesCreated(p)
        <3>1. /\ pc[p] = "createDB" /\ pc'[p] = "shouldRun" /\ known'[p] = known[p]
              /\ databases' = databases /\ at[p] \notin DOMAIN Databases
            BY <2>4 DEF DatabasesCreated, Then, More, Goto, store, TypeOK, LocalTypes
        <3>2. databases = DB
            <4>1. \A i \in DOMAIN Databases : i < at[p] => Databases[i] \in databases
                BY <1>1, <3>1 DEF OnTime
            <4>2. \A d \in DB : \E i \in DOMAIN Databases : d = Databases[i] /\ i < at[p]
                BY <1>3, <3>1, LoopOver
            <4> QED BY <4>1, <4>2 DEF TypeOK, StoreTypes
        <3> QED BY <1>1, <3>1, <3>2 DEF OnTime
    <2>5. CASE ShouldRunOperation(p) \/ CreateMigrationTable(p)
        <3>1. /\ pc[p] \in {"shouldRun", "createTable"} /\ pc'[p] \in {"shouldRun", "createTable"}
              /\ known'[p] = known[p] /\ databases' = databases
            BY <2>5 DEF ShouldRunOperation, CreateMigrationTable, NextDatabase, Goto, store, TypeOK,
                        LocalTypes
        <3> QED BY <1>1, <3>1 DEF OnTime
    <2>6. CASE BootstrapDone(p)
        BY <2>6, FreshOnTime DEF BootstrapDone, Succeed
    <2> QED BY <1>6, <2>1, <2>2, <2>3, <2>4, <2>5, <2>6 DEF BootstrapStep
<1>7. CASE InspectStep(p)
    <2>1. databases' = DB
        BY <1>1, <1>2, <1>7 DEF InspectStep, BaselineInventory, BaselineMigrations, Inspected,
           EnsureEmpty, EnsureComplete, RequireComplete, Refused, OnTime
    <2>2. CASE BaselineInventory(p) \/ BaselineMigrations(p) \/ Inspected(p)
        <3>1. pc'[p] \in {"inventory", "markers", "inspected"} /\ known'[p] = known[p]
            BY <2>2 DEF BaselineInventory, BaselineMigrations, Inspected, Classified, Then, Goto,
                        TypeOK, LocalTypes
        <3> QED BY <1>1, <2>1, <3>1 DEF OnTime, StoreGrows
    <2>3. CASE EnsureEmpty(p) \/ EnsureComplete(p) \/ RequireComplete(p)
        BY <2>1, <2>3, FreshOnTime DEF EnsureEmpty, EnsureComplete, RequireComplete, Succeed
    <2>4. CASE Refused(p)
        BY <2>4, ErrorOnTime DEF Refused
    <2> QED BY <1>7, <2>2, <2>3, <2>4 DEF InspectStep
<1>8. CASE InstallStep(p)
    <2>1. databases = DB /\ databases' = DB
        BY <1>1, <1>2, <1>8 DEF InstallStep, RunOperation, RunOperationFails, InsertFailedMarker,
           SchemaCreated, VerifyCanonicalSchema, Verified, CheckMigrationStatus, NoTrackingTable,
           InsertMigrationEntry, Marked, OnTime
    <2>2. ~RunOperationFails(p) /\ ~InsertFailedMarker(p)
        BY <1>1, <2>1, StatementIsCanonical DEF RunOperationFails, InsertFailedMarker, Statement,
           OnTime
    <2>3. CASE \/ RunOperation(p) \/ CheckMigrationStatus(p) \/ InsertMigrationEntry(p)
               \/ Verified(p) /\ stage[p] = "ensure"
               \/ VerifyCanonicalSchema(p) /\ Matches(Current(p))
        <3>1. pc'[p] \in {"ddl", "status", "insert", "verify"} /\ known'[p] = known[p]
            BY <2>3 DEF RunOperation, CheckMigrationStatus, InsertMigrationEntry, Verified,
               VerifyCanonicalSchema, Then, Goto, TypeOK, LocalTypes
        <3> QED BY <1>1, <2>1, <3>1 DEF OnTime
    <2>4. CASE \/ NoTrackingTable(p)
               \/ VerifyCanonicalSchema(p) /\ ~Matches(Current(p))
        BY <2>1, <2>4, ErrorOnTime DEF NoTrackingTable, VerifyCanonicalSchema
    <2>5. CASE SchemaCreated(p) \/ Marked(p) \/ (Verified(p) /\ stage[p] # "ensure")
        BY <2>1, <2>5, FreshOnTime DEF SchemaCreated, Marked, Verified, Succeed
    <2>6. CASE VerifyCanonicalSchema(p)
        BY <2>3, <2>4, <2>6
    <2>7. CASE Verified(p)
        BY <2>3, <2>5, <2>7
    <2> QED BY <1>8, <2>2, <2>3, <2>4, <2>5, <2>6, <2>7 DEF InstallStep
<1> QED BY <1>4, <1>5, <1>6, <1>7, <1>8 DEF MigratorStep

\* A tracking table is made in a database that exists.
LEMMA TrackedExists ==
    ASSUME Inv, StoreGrows, orderly, OrderInv, NEW p \in Migrators,
           Begin(p) \/ MigratorStep(p) \/ Fails(p) \/ Crash(p)
    PROVE  tracking' \subseteq databases'
<1>1. CASE CreateMigrationTable(p)
    <2>1. TrackingDatabase(p) \in DB
        BY <1>1, InDB DEF CreateMigrationTable, TrackingDatabase, Inv, Local, Installation
    <2>2. databases' = databases /\ databases = DB
        BY <1>1 DEF CreateMigrationTable, OrderInv, OnTime
    <2> QED BY <1>1, <2>1, <2>2 DEF CreateMigrationTable, Inv, TypeOK, StoreTypes
<1>2. CASE ~CreateMigrationTable(p)
    <2>1. tracking' = tracking
        <3>1. CASE Begin(p) \/ Crash(p) \/ Fails(p)
            BY <3>1 DEF Begin, Crash, Fails, QueryFails, CreateFails, InsertFails, store
        <3>2. CASE BootstrapStep(p)
            BY <1>2, <3>2 DEF BootstrapStep, ListDatabases, KnownDatabase, CreateDatabase,
               CreateDatabaseExists, DatabasesCreated, Then, ShouldRunOperation, BootstrapDone, store
        <3>3. CASE InspectStep(p)
            BY <3>3 DEF InspectStep, BaselineInventory, BaselineMigrations, Inspected, Then,
               EnsureEmpty, EnsureComplete, RequireComplete, Refused, store
        <3>4. CASE InstallStep(p)
            BY <3>4 DEF InstallStep, RunOperation, RunOperationFails, InsertFailedMarker,
               SchemaCreated, VerifyCanonicalSchema, Verified, Then, CheckMigrationStatus,
               NoTrackingTable, InsertMigrationEntry, Marked, store
        <3> QED BY <3>1, <3>2, <3>3, <3>4 DEF MigratorStep
    <2> QED BY <2>1 DEF StoreGrows, OrderInv
<1> QED BY <1>1, <1>2

\* In an orderly run every step keeps every process on time.
LEMMA StepOrder == Inv /\ OrderInv /\ [Next]_vars => OrderInv'
<1> SUFFICES ASSUME Inv, OrderInv, [Next]_vars, orderly'
             PROVE  tracking' \subseteq databases' /\ \A q \in Migrators : OnTime(q)'
    BY DEF OrderInv
<1>1. StoreGrows /\ TypeOK' /\ orderly
    BY StoreStep, LocalTypesStep DEF Inv, TypeOK, Next, vars
<1>2. CASE UNCHANGED vars
    BY <1>1, <1>2 DEF OrderInv, OnTime, vars, store, locals
<1>3. CASE Next
    <2> PICK p \in Migrators : Begin(p) \/ MigratorStep(p) \/ Fails(p) \/ Crash(p)
        BY <1>3 DEF Next
    <2>1. tracking' \subseteq databases'
        BY <1>1, TrackedExists
    <2>2. ASSUME NEW q \in Migrators
          PROVE  OnTime(q)'
        <3>1. CASE q = p
            BY <1>1, <3>1, OnTimeStep
        <3>2. CASE q # p
            <4>1. Same(q)
                BY <3>2, OthersUntouched DEF Inv, TypeOK
            <4>2. OnTime(q) /\ (databases = DB => databases' = DB)
                BY <1>1 DEF OrderInv, StoreGrows, TypeOK, StoreTypes
            <4> QED BY <1>1, <4>1, <4>2 DEF OnTime, Same, StoreGrows
        <3> QED BY <3>1, <3>2
    <2> QED BY <2>1, <2>2
<1> QED BY <1>2, <1>3

\* Only the failed marker replaces a finished one, and in an orderly run nobody writes it.
LEMMA StepComplete ==
    ASSUME Inv, OrderInv, [Next]_vars, Complete, NEW d \in DB, marker'[d] # "finished"
    PROVE  ~orderly /\ \E p \in Migrators : Undoes(p, d)
<1> USE DEF Complete
<1>1. CASE UNCHANGED marker
    BY <1>1
<1>2. ASSUME NEW c \in DB, Mark(c, "finished")
      PROVE  FALSE
    BY <1>2 DEF Mark, Inv, TypeOK, StoreTypes
<1>3. CASE UNCHANGED vars
    BY <1>1, <1>3 DEF vars, store
<1>4. CASE Next
    <2> PICK p \in Migrators : Begin(p) \/ MigratorStep(p) \/ Fails(p) \/ Crash(p)
        BY <1>4 DEF Next
    <2>1. CASE Begin(p) \/ Crash(p) \/ QueryFails(p) \/ CreateFails(p)
        BY <1>1, <2>1 DEF Begin, Crash, QueryFails, CreateFails, store
    <2>2. CASE BootstrapStep(p)
        BY <1>1, <2>2 DEF BootstrapStep, ListDatabases, KnownDatabase, CreateDatabase,
           CreateDatabaseExists, DatabasesCreated, Then, ShouldRunOperation, CreateMigrationTable,
           BootstrapDone, store
    <2>3. CASE InspectStep(p)
        BY <1>1, <2>3 DEF InspectStep, BaselineInventory, BaselineMigrations, Inspected, Then,
           EnsureEmpty, EnsureComplete, RequireComplete, Refused, store
    <2>4. CASE InsertMigrationEntry(p) \/ InsertFails(p)
        <3>1. Current(p) \in DB
            BY <2>4, InDB DEF InsertMigrationEntry, InsertFails, Current, Inv, Local, Installation
        <3> QED BY <1>1, <1>2, <2>4, <3>1 DEF InsertMigrationEntry, InsertFails
    <2>5. CASE InsertFailedMarker(p)
        <3>1. pc[p] = "failed"
            BY <2>5 DEF InsertFailedMarker
        <3>2. ~orderly
            BY <3>1 DEF OrderInv, OnTime
        <3>3. Statement(p).db = d
            BY <1>1, <2>5 DEF InsertFailedMarker, Mark, Inv, TypeOK, StoreTypes
        <3> QED BY <3>1, <3>2, <3>3 DEF Undoes
    <2>6. CASE InstallStep(p) /\ ~InsertMigrationEntry(p) /\ ~InsertFailedMarker(p)
        BY <1>1, <2>6 DEF InstallStep, RunOperation, RunOperationFails,
           SchemaCreated, VerifyCanonicalSchema, Verified, Then,
           CheckMigrationStatus, NoTrackingTable, Marked, store
    <2> QED BY <2>1, <2>2, <2>3, <2>4, <2>5, <2>6 DEF MigratorStep, Fails
<1> QED BY <1>3, <1>4

\* In a run without failing calls and kills, with bootstrap done first, no process is ever sent
\* to write a failed marker.
THEOREM OrderIsKept == Spec => []OrderInv
<1>1. Init => OrderInv
    BY DEF Init, OrderInv, OnTime
<1> QED BY <1>1, StepOrder, MigratorInvariant, PTL DEF Spec

\* A complete baseline stays complete, whatever is killed, fails or races, but for the failed
\* marker of a process whose statement failed (ensureCanonicalBaseline writes no other).
THEOREM CompletenessIsStable == Spec => CompleteIsStable
<1>1. Inv /\ OrderInv /\ [Next]_vars
        => [Complete => \A d \in DB : marker'[d] # "finished"
                                        => ~orderly /\ \E p \in Migrators : Undoes(p, d)]_vars
    BY StepComplete
<1> QED BY <1>1, MigratorInvariant, OrderIsKept, PTL DEF Spec, CompleteIsStable
=============================================================================

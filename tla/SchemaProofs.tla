---------------------------- MODULE SchemaProofs ----------------------------
(***************************************************************************)
(* Theorems about Schema: for any number of threads, any number of         *)
(* restarts and any database an older version may have left.               *)
(***************************************************************************)
EXTENDS Schema, TLAPS

(* The steps that follow a table, a column or the services being there. *)
AfterSeed == {"ready", "serve"}
AfterSystem == AfterSeed \cup {"seed"}
AfterKind == AfterSystem \cup {"system"}
AfterTag == AfterKind \cup {"clientsInfo", "kind"}
AfterTables == AfterTag \cup {"rulesInfo", "dest_tag_id"}

Seeded == \A n \in Names : services[n] # "absent"

Migrated == tables = Tables /\ columns = Columns /\ Seeded

(* The steps behind a thread have left their tables, columns and services, *)
(* and nobody removes any.                                                 *)
DoneSoFar(t) ==
    /\ req[t].seen \subseteq columns
    /\ req[t].at \in AfterTables => tables = Tables
    /\ req[t].at \in AfterTag => "dest_tag_id" \in columns
    /\ req[t].at \in AfterKind => "kind" \in columns
    /\ req[t].at \in AfterSystem => "system" \in columns
    /\ req[t].at \in AfterSeed => Seeded

MigrationInv ==
    /\ TypeOK
    /\ _db_ready => Migrated
    /\ \A t \in Threads : DoneSoFar(t)

-----------------------------------------------------------------------------

LEMMA ColumnNames == Columns = {"dest_tag_id", "kind", "system"}
  BY SMT DEF Columns, TableOf

LEMMA TableNames ==
    /\ \A i \in DOMAIN TablesInOrder : TablesInOrder[i] \in Tables
    /\ \A c \in Columns : TableOf[c] \in Tables
<1>1. \A i \in DOMAIN TablesInOrder : TablesInOrder[i] \in Tables
  BY DEF Tables, Range
<1>2. TableOf["dest_tag_id"] = TablesInOrder[6] /\ TableOf["kind"] = TablesInOrder[1]
         /\ TableOf["system"] = TablesInOrder[1]
  BY SMT DEF TableOf, TablesInOrder
<1>3. 1 \in DOMAIN TablesInOrder /\ 6 \in DOMAIN TablesInOrder
  BY SMT DEF TablesInOrder
<1>4. \A c \in Columns : TableOf[c] \in Tables
  BY <1>1, <1>2, <1>3, ColumnNames
<1> QED
  BY <1>1, <1>4

(* Nothing is ever removed: the database grows under every step. *)
Grows ==
    /\ tables \subseteq tables' /\ columns \subseteq columns'
    /\ \A n \in Names : services[n] # "absent" => services'[n] = services[n]

LEMMA StepGrows ==
  ASSUME MigrationInv, [Next]_vars
  PROVE  Grows
<1>1. CASE Restart
  BY <1>1 DEF Restart, Grows, database
<1>2. CASE UNCHANGED vars
  BY <1>2 DEF Grows, vars, database
<1>3. ASSUME NEW t \in Threads, get_db(t) PROVE Grows
  BY <1>3 DEF get_db, Grows, database
<1>4. ASSUME NEW t \in Threads, CreateTable(t) PROVE Grows
  BY <1>4 DEF CreateTable, Grows
<1>5. ASSUME NEW t \in Threads, run_migrations(t) PROVE Grows
  <2>1. ASSUME NEW from, NEW to, ReadColumns(t, from, to) PROVE Grows
    BY <2>1 DEF ReadColumns, Grows, database
  <2>2. ASSUME NEW c, NEW to, AlterTable(t, c, to) PROVE Grows
    BY <2>2 DEF AlterTable, Grows
  <2>3. ASSUME SeedServices(t) PROVE Grows
    BY <2>3 DEF SeedServices, Grows
  <2> QED
    BY <1>5, <2>1, <2>2, <2>3 DEF run_migrations
<1>6. ASSUME NEW t \in Threads, TablesExist(t) \/ SetReady(t) \/ Answer(t) PROVE Grows
  BY <1>6 DEF TablesExist, SetReady, Answer, Grows, database
<1> QED
  BY <1>1, <1>2, <1>3, <1>4, <1>5, <1>6 DEF Next, Continue

(* Who does not move keeps what he has done. *)
LEMMA OthersKeep ==
  ASSUME MigrationInv, Grows, TypeOK', NEW u \in Threads, req'[u] = req[u]
  PROVE  DoneSoFar(u)'
<1>1. tables = Tables => tables' = Tables
  BY DEF Grows, TypeOK
<1>2. Seeded => Seeded'
  BY DEF Grows, Seeded
<1>3. DoneSoFar(u)
  BY DEF MigrationInv
<1> QED
  BY <1>1, <1>2, <1>3 DEF DoneSoFar, Grows

LEMMA ReadyKeeps ==
  ASSUME MigrationInv, Grows, TypeOK', _db_ready
  PROVE  Migrated'
<1>1. Migrated
  BY DEF MigrationInv
<1> QED
  BY <1>1 DEF Migrated, Grows, TypeOK, Seeded

LEMMA OneMoves ==
  ASSUME MigrationInv, Grows, TypeOK', UNCHANGED _db_ready, NEW t \in Threads, DoneSoFar(t)',
         \A u \in Threads \ {t} : req'[u] = req[u]
  PROVE  MigrationInv'
<1>1. _db_ready' => Migrated'
  BY ReadyKeeps
<1>2. \A u \in Threads : DoneSoFar(u)'
  BY OthersKeep
<1> QED
  BY <1>1, <1>2 DEF MigrationInv

-----------------------------------------------------------------------------
(* One lemma per action *)

LEMMA InitMigration == Init => MigrationInv
<1> SUFFICES ASSUME Init PROVE MigrationInv
  OBVIOUS
<1>1. TypeOK
  <2>1. PICK d \in OldDatabases : tables = d.tables /\ columns = d.columns /\ services = d.services
    BY DEF Init
  <2>2. d \in Database /\ \A c \in d.columns : TableOf[c] \in d.tables
    BY SchemaAssumption
  <2>3. tables \subseteq Tables /\ services \in [Names -> Origin]
           /\ columns \subseteq {c \in Columns : TableOf[c] \in tables}
    BY <2>1, <2>2 DEF Database
  <2>4. restarts = 0 /\ MaxRestarts \in Nat
    BY SchemaAssumption DEF Init
  <2>5. restarts \in 0..MaxRestarts
    BY <2>4
  <2>6. _db_ready \in BOOLEAN
    BY DEF Init
  <2>7. req \in [Threads -> [at : InitSteps \cup {"idle", "serve", "failed"}, seen : SUBSET Columns]]
    BY DEF Init
  <2> QED
    BY <2>3, <2>5, <2>7, <2>6 DEF TypeOK
<1>2. \A t \in Threads : DoneSoFar(t)
  BY DEF Init, DoneSoFar, AfterTables, AfterTag, AfterKind, AfterSystem, AfterSeed
<1> QED
  BY <1>1, <1>2 DEF Init, MigrationInv

LEMMA Asks ==
  ASSUME MigrationInv, NEW t \in Threads, get_db(t)
  PROVE  MigrationInv'
<1>1. TypeOK'
  BY DEF MigrationInv, TypeOK, get_db, Goto, database, InitSteps
<1>2. Grows
  BY DEF Grows, get_db, database
<1>3. req'[t] = [at |-> req'[t].at, seen |-> req[t].seen]
         /\ req'[t].at = IF _db_ready THEN "serve" ELSE "create"
  BY DEF get_db, Goto, MigrationInv, TypeOK
<1>4. DoneSoFar(t)
  BY DEF MigrationInv
<1>5. DoneSoFar(t)'
  <2>1. CASE _db_ready
    BY <1>2, <1>3, <1>4, <2>1, ColumnNames DEF MigrationInv, Migrated, Seeded, DoneSoFar, Grows,
       get_db, database
  <2>2. CASE ~_db_ready
    BY <1>3, <1>4, <2>2 DEF DoneSoFar, AfterTables, AfterTag, AfterKind, AfterSystem, AfterSeed,
       get_db, database
  <2> QED
    BY <2>1, <2>2
<1> QED
  BY <1>1, <1>2, <1>5, OneMoves DEF get_db, Goto, MigrationInv, TypeOK

LEMMA Creates ==
  ASSUME MigrationInv, NEW t \in Threads, CreateTable(t)
  PROVE  MigrationInv'
<1>1. TypeOK'
  <2>1. PICK i \in DOMAIN TablesInOrder :
            /\ tables' = tables \cup {TablesInOrder[i]}
            /\ columns' = columns \cup {c \in Columns : TableOf[c] = TablesInOrder[i]}
    BY DEF CreateTable
  <2>2. TablesInOrder[i] \in Tables
    BY TableNames
  <2> QED
    BY <2>1, <2>2 DEF MigrationInv, TypeOK, CreateTable
<1>2. Grows
  BY DEF CreateTable, Grows
<1>3. DoneSoFar(t)'
  BY <1>1, <1>2, OthersKeep DEF CreateTable
<1> QED
  BY <1>1, <1>2, <1>3, OneMoves DEF CreateTable

LEMMA Created ==
  ASSUME MigrationInv, NEW t \in Threads, TablesExist(t)
  PROVE  MigrationInv'
<1>1. TypeOK'
  BY DEF MigrationInv, TypeOK, TablesExist, Goto, database, InitSteps
<1>2. Grows
  BY DEF Grows, TablesExist, database
<1>3. DoneSoFar(t)'
  BY DEF MigrationInv, DoneSoFar, AfterTables, AfterTag, AfterKind, AfterSystem, AfterSeed,
     TablesExist, Goto, database, TypeOK
<1> QED
  BY <1>1, <1>2, <1>3, OneMoves DEF TablesExist, Goto, MigrationInv, TypeOK

(* The pairs of steps that run_migrations reads columns in. *)
LEMMA ReadsColumns ==
  ASSUME MigrationInv, NEW t \in Threads, NEW from, NEW to, ReadColumns(t, from, to),
         <<from, to>> \in {<<"rulesInfo", "dest_tag_id">>, <<"clientsInfo", "kind">>}
  PROVE  MigrationInv'
<1>1. TypeOK'
  BY DEF MigrationInv, TypeOK, ReadColumns, database, InitSteps
<1>2. Grows
  BY DEF Grows, ReadColumns, database
<1>3. DoneSoFar(t)'
  BY DEF MigrationInv, DoneSoFar, AfterTables, AfterTag, AfterKind, AfterSystem, AfterSeed,
     ReadColumns, database, TypeOK
<1> QED
  BY <1>1, <1>2, <1>3, OneMoves DEF ReadColumns, MigrationInv, TypeOK

(* The column is there afterwards, whoever has added it; who was too late  *)
(* has failed.                                                             *)
LEMMA Alters ==
  ASSUME MigrationInv, NEW t \in Threads, NEW c, NEW to, AlterTable(t, c, to),
         <<c, to>> \in {<<"dest_tag_id", "clientsInfo">>, <<"kind", "system">>, <<"system", "seed">>}
  PROVE  MigrationInv'
<1>1. DoneSoFar(t) /\ TypeOK /\ c \in Columns
  BY ColumnNames DEF MigrationInv
<1>2. tables = Tables
  BY <1>1 DEF AlterTable, DoneSoFar, AfterTables, AfterTag, AfterKind, AfterSystem, AfterSeed
<1>3. columns' = columns \cup {c}
  BY <1>1 DEF AlterTable, DoneSoFar
<1>4. TypeOK'
  <2>1. columns' \subseteq {x \in Columns : TableOf[x] \in tables'}
    BY <1>1, <1>2, <1>3, TableNames DEF TypeOK, AlterTable
  <2>2. req' \in [Threads -> [at : InitSteps \cup {"idle", "serve", "failed"}, seen : SUBSET Columns]]
    BY <1>1 DEF TypeOK, AlterTable, Goto, InitSteps
  <2> QED
    BY <1>1, <2>1, <2>2 DEF TypeOK, AlterTable
<1>5. Grows
  BY <1>3 DEF Grows, AlterTable
<1>6. req'[t].seen = req[t].seen /\ req'[t].at \in {to, "failed"} /\ req[t].at = c
  BY <1>1 DEF AlterTable, Goto, TypeOK
<1>7. DoneSoFar(t)'
  BY <1>1, <1>2, <1>3, <1>6 DEF DoneSoFar, AfterTables, AfterTag, AfterKind, AfterSystem,
     AfterSeed, AlterTable
<1> QED
  BY <1>1, <1>4, <1>5, <1>7, OneMoves DEF AlterTable, Goto, TypeOK

LEMMA Seeds ==
  ASSUME MigrationInv, NEW t \in Threads, SeedServices(t)
  PROVE  MigrationInv'
<1>1. TypeOK'
  BY DEF MigrationInv, TypeOK, SeedServices, Goto, InitSteps, Origin
<1>2. Grows
  BY DEF Grows, SeedServices
<1>3. Seeded'
  BY DEF Seeded, SeedServices
<1>4. DoneSoFar(t)'
  BY <1>3 DEF MigrationInv, DoneSoFar, AfterTables, AfterTag, AfterKind, AfterSystem, AfterSeed,
     SeedServices, Goto, TypeOK
<1> QED
  BY <1>1, <1>2, <1>4, OneMoves DEF SeedServices, Goto, MigrationInv, TypeOK

LEMMA SetsReady ==
  ASSUME MigrationInv, NEW t \in Threads, SetReady(t)
  PROVE  MigrationInv'
<1>1. TypeOK'
  BY DEF MigrationInv, TypeOK, SetReady, Goto, database, InitSteps
<1>2. Grows
  BY DEF Grows, SetReady, database
<1>3. DoneSoFar(t) /\ req[t].at = "ready" /\ TypeOK
  BY DEF SetReady, MigrationInv
<1>4. Migrated
  BY <1>3, ColumnNames DEF DoneSoFar, AfterTables, AfterTag, AfterKind, AfterSystem, AfterSeed,
     Migrated, TypeOK
<1>5. Migrated'
  BY <1>4 DEF Migrated, Seeded, SetReady, database
<1>6. DoneSoFar(t)'
  BY <1>3 DEF DoneSoFar, AfterTables, AfterTag, AfterKind, AfterSystem, AfterSeed, SetReady,
     Goto, database, TypeOK, Seeded
<1>7. \A u \in Threads : DoneSoFar(u)'
  BY <1>1, <1>2, <1>3, <1>6, OthersKeep DEF SetReady, Goto, TypeOK
<1> QED
  BY <1>1, <1>5, <1>7 DEF MigrationInv

LEMMA Answers ==
  ASSUME MigrationInv, NEW t \in Threads, Answer(t)
  PROVE  MigrationInv'
<1>1. TypeOK'
  BY DEF MigrationInv, TypeOK, Answer, Goto, database, InitSteps
<1>2. Grows
  BY DEF Grows, Answer, database
<1>3. DoneSoFar(t)'
  BY DEF MigrationInv, DoneSoFar, AfterTables, AfterTag, AfterKind, AfterSystem, AfterSeed,
     Answer, Goto, database, TypeOK
<1> QED
  BY <1>1, <1>2, <1>3, OneMoves DEF Answer, Goto, MigrationInv, TypeOK

LEMMA Restarts ==
  ASSUME MigrationInv, Restart
  PROVE  MigrationInv'
<1>1. TypeOK'
  <2>1. restarts' \in 0..MaxRestarts
    BY SchemaAssumption DEF MigrationInv, TypeOK, Restart
  <2>2. req' \in [Threads -> [at : InitSteps \cup {"idle", "serve", "failed"}, seen : SUBSET Columns]]
    BY DEF Restart
  <2> QED
    BY <2>1, <2>2 DEF MigrationInv, TypeOK, Restart, database
<1>2. \A t \in Threads : DoneSoFar(t)'
  BY DEF DoneSoFar, AfterTables, AfterTag, AfterKind, AfterSystem, AfterSeed, Restart
<1> QED
  BY <1>1, <1>2 DEF MigrationInv, Restart

LEMMA MigrationStep == MigrationInv /\ [Next]_vars => MigrationInv'
<1> SUFFICES ASSUME MigrationInv, [Next]_vars PROVE MigrationInv'
  OBVIOUS
<1>1. ASSUME NEW t \in Threads, run_migrations(t) PROVE MigrationInv'
  BY <1>1, ReadsColumns, Alters, Seeds DEF run_migrations
<1>2. ASSUME NEW t \in Threads, get_db(t) \/ Continue(t) PROVE MigrationInv'
  BY <1>1, <1>2, Asks, Creates, Created, SetsReady, Answers DEF Continue
<1>3. CASE UNCHANGED vars
  BY <1>3 DEF vars, database, MigrationInv, TypeOK, Migrated, Seeded, DoneSoFar
<1> QED
  BY <1>2, <1>3, Restarts DEF Next

-----------------------------------------------------------------------------

LEMMA AlwaysMigrationInv == Spec => []MigrationInv
<1>1. Init => MigrationInv
  BY InitMigration
<1>2. MigrationInv /\ [Next]_vars => MigrationInv'
  BY MigrationStep
<1> QED
  BY <1>1, <1>2, PTL DEF Spec

(* The database and what the threads have read of it keep their types.     *)
THEOREM SchemaTypes == Spec => []TypeOK
<1>1. MigrationInv => TypeOK
  BY DEF MigrationInv
<1> QED
  BY <1>1, AlwaysMigrationInv, PTL

(* get_db never hands out a connection to a database that is not up to     *)
(* date, however many threads migrate it at once and wherever earlier      *)
(* processes were killed.                                                  *)
THEOREM ServedAreMigrated == Spec => []ServedMeansMigrated
<1>1. MigrationInv => ServedMeansMigrated
  BY ColumnNames DEF MigrationInv, DoneSoFar, AfterTables, AfterTag, AfterKind, AfterSystem,
     AfterSeed, ServedMeansMigrated, TypeOK, Seeded
<1> QED
  BY <1>1, AlwaysMigrationInv, PTL

(* Migrations are additive. *)
THEOREM MigrationsOnlyAdd == Spec => OnlyAdds
<1>1. MigrationInv /\ [Next]_vars =>
         [/\ tables \subseteq tables' /\ columns \subseteq columns'
          /\ \A n \in Names : services[n] # "absent" => services'[n] = services[n]]_vars
  BY StepGrows DEF Grows
<1> QED
  BY <1>1, AlwaysMigrationInv, PTL DEF Spec, OnlyAdds

-----------------------------------------------------------------------------
(* The columns that a thread will look for in what it has read, or has yet *)
(* to add.                                                                 *)
Unread(step) ==
    {c \in Columns : \/ step = "dest_tag_id" /\ c = "dest_tag_id"
                     \/ step = "kind" /\ c \in {"kind", "system"}
                     \/ step = "system" /\ c = "system"}

(* Somebody has added one since: the thread is going to fail. *)
Late(t) == Unread(req[t].at) \cap (columns \ req[t].seen) # {}

Leading(t) == req[t].at \in InitSteps /\ ~Late(t)

(* Nobody is late but behind somebody who is not; and a late thread comes  *)
(* to a column that is there before it comes to one that it would add.     *)
RaceInv ==
    /\ \A t \in Threads : Late(t) => _db_ready \/ \E u \in Threads : Leading(u)
    /\ \A t \in Threads :
          req[t].at = "kind" /\ "system" \in columns \ req[t].seen => "kind" \in columns

(* The steps that leave the columns alone. *)
LEMMA RaceGoesOn ==
  ASSUME RaceInv, NEW t \in Threads, UNCHANGED <<columns, _db_ready>>,
         \A u \in Threads \ {t} : req'[u] = req[u],
         Late(t)' => Late(t),
         Leading(t) => req'[t].at \in InitSteps,
         req'[t].at = "kind" => req'[t].seen = columns
  PROVE  RaceInv'
<1>1. \A u \in Threads \ {t} : Late(u)' = Late(u) /\ Leading(u)' = Leading(u)
  BY DEF Late, Leading
<1>2. Leading(t) => Leading(t)'
  BY DEF Leading
<1>3. \A u \in Threads : (Late(u)' => Late(u)) /\ (Leading(u) => Leading(u)')
  BY <1>1, <1>2
<1>4. \A u \in Threads : Late(u)' => _db_ready' \/ \E v \in Threads : Leading(v)'
  BY <1>3 DEF RaceInv
<1>5. \A u \in Threads :
         req'[u].at = "kind" /\ "system" \in columns' \ req'[u].seen => "kind" \in columns'
  BY DEF RaceInv
<1> QED
  BY <1>4, <1>5 DEF RaceInv

(* Who adds a column was not late, and is not now. *)
LEMMA RaceAlters ==
  ASSUME MigrationInv, RaceInv, NEW t \in Threads, NEW c, NEW to, AlterTable(t, c, to),
         <<c, to>> \in {<<"dest_tag_id", "clientsInfo">>, <<"kind", "system">>, <<"system", "seed">>}
  PROVE  RaceInv'
<1>1. TypeOK /\ DoneSoFar(t) /\ RaceInv
  BY DEF MigrationInv
<1>2. /\ req[t].at = c /\ c \in Unread(c) /\ c \in Columns
      /\ Unread(to) \subseteq Unread(c) \ {c} /\ to \in InitSteps /\ to # "kind"
  BY ColumnNames DEF AlterTable, Unread, InitSteps
<1>3. /\ req'[t].seen = req[t].seen
      /\ req'[t].at = IF c \in columns \ req[t].seen THEN "failed" ELSE to
      /\ \A u \in Threads \ {t} : req'[u] = req[u]
  BY <1>1 DEF AlterTable, Goto, TypeOK
<1>4. CASE c \in columns
  <2>1. UNCHANGED <<columns, _db_ready>>
    BY <1>4 DEF AlterTable
  <2>2. Late(t)' => Late(t)
    BY <1>2, <1>3, <2>1 DEF Late, Unread
  <2>3. Leading(t) => req'[t].at \in InitSteps
    BY <1>2, <1>3 DEF Leading, Late
  <2> QED
    BY <1>2, <1>3, <2>1, <2>2, <2>3, RaceGoesOn
<1>5. CASE c \notin columns
  <2>1. columns' = columns \cup {c} /\ c \notin req[t].seen /\ req'[t].at = to
    BY <1>1, <1>3, <1>5 DEF DoneSoFar, AlterTable
  <2>2. ~Late(t)
    BY <1>1, <1>2, <1>5 DEF Late, Unread, RaceInv
  <2>3. ~Late(t)'
    BY <1>2, <1>3, <2>1, <2>2 DEF Late
  <2>4. Leading(t)'
    BY <1>2, <2>1, <2>3 DEF Leading
  <2>5. c = "system" => "kind" \in columns
    BY <1>1, <1>2 DEF DoneSoFar, AfterKind
  <2>6. \A u \in Threads :
           req'[u].at = "kind" /\ "system" \in columns' \ req'[u].seen => "kind" \in columns'
    BY <1>1, <1>2, <1>3, <2>1, <2>5 DEF RaceInv
  <2> QED
    BY <2>4, <2>6 DEF RaceInv
<1> QED
  BY <1>4, <1>5

LEMMA RaceStep ==
  ASSUME MigrationInv, RaceInv, [Next]_vars
  PROVE  RaceInv'
<1>1. TypeOK
  BY DEF MigrationInv
<1>2. CASE UNCHANGED vars
  BY <1>2 DEF vars, database, RaceInv, Late, Leading
<1>3. CASE Restart
  BY <1>3 DEF Restart, RaceInv, Late, Unread
<1>4. ASSUME NEW t \in Threads, CreateTable(t) PROVE RaceInv'
  <2>1. Leading(t)'
    BY <1>4 DEF CreateTable, Leading, Late, Unread, InitSteps
  <2>2. tables # Tables
    BY <1>4, TableNames DEF CreateTable
  <2>3. \A u \in Threads : req'[u].at # "kind"
    BY <1>4, <2>2 DEF CreateTable, MigrationInv, DoneSoFar, AfterTables, AfterTag
  <2> QED
    BY <2>1, <2>3 DEF RaceInv
<1>5. ASSUME NEW t \in Threads, NEW to, Goto(t, to), UNCHANGED <<columns, _db_ready>>,
             Unread(to) = {}, to # "kind", Leading(t) => to \in InitSteps
      PROVE  RaceInv'
  <2>1. req'[t].at = to /\ \A u \in Threads \ {t} : req'[u] = req[u]
    BY <1>1, <1>5 DEF Goto, TypeOK
  <2>2. ~Late(t)'
    BY <1>5, <2>1 DEF Late
  <2> QED
    BY <1>5, <2>1, <2>2, RaceGoesOn
<1>6. ASSUME NEW t \in Threads, get_db(t) \/ TablesExist(t) \/ SeedServices(t) \/ Answer(t)
      PROVE  RaceInv'
  BY <1>5, <1>6 DEF get_db, TablesExist, SeedServices, Answer, Unread, Leading, InitSteps, database
<1>7. ASSUME NEW t \in Threads, NEW from, NEW to, to \in InitSteps, ReadColumns(t, from, to)
      PROVE  RaceInv'
  <2>1. req'[t] = [at |-> to, seen |-> columns] /\ \A u \in Threads \ {t} : req'[u] = req[u]
    BY <1>1, <1>7 DEF ReadColumns, TypeOK
  <2>2. UNCHANGED <<columns, _db_ready>>
    BY <1>7 DEF ReadColumns, database
  <2>3. ~Late(t)'
    BY <2>1, <2>2 DEF Late
  <2> QED
    BY <1>7, <2>1, <2>2, <2>3, RaceGoesOn
<1>8. ASSUME NEW t \in Threads, run_migrations(t) PROVE RaceInv'
  BY <1>6, <1>7, <1>8, RaceAlters DEF run_migrations, InitSteps
<1>9. ASSUME NEW t \in Threads, SetReady(t) PROVE RaceInv'
  BY <1>1, <1>9 DEF SetReady, Goto, TypeOK, RaceInv, database
<1> QED
  BY <1>2, <1>3, <1>4, <1>6, <1>8, <1>9 DEF Next, Continue

(* Whoever fails is late, so that somebody else leads or has got done. *)
LEMMA FailureStep ==
  ASSUME MigrationInv, RaceInv, [Next]_vars, NEW t \in Threads,
         req[t].at \in InitSteps, req'[t].at = "failed"
  PROVE  _db_ready \/ \E u \in Threads \ {t} : req[u].at \in InitSteps
<1>1. TypeOK
  BY DEF MigrationInv
<1>2. "failed" \notin InitSteps
  BY DEF InitSteps
<1>3. Late(t)
  <2>1. ASSUME NEW u \in Threads, NEW to, Goto(u, to), to # "failed" PROVE FALSE
    BY <1>1, <1>2, <2>1 DEF Goto, TypeOK
  <2>2. ASSUME NEW u \in Threads, NEW from, NEW to, to # "failed", ReadColumns(u, from, to)
        PROVE  FALSE
    BY <1>1, <1>2, <2>2 DEF ReadColumns, TypeOK
  <2>3. ASSUME NEW u \in Threads, NEW c, NEW to, to # "failed", AlterTable(u, c, to), c \in Unread(c)
        PROVE  Late(t)
    BY <1>1, <1>2, <2>1, <2>3 DEF AlterTable, Goto, TypeOK, Late
  <2>4. Unread("dest_tag_id") = {"dest_tag_id"} /\ Unread("kind") = {"kind", "system"}
           /\ Unread("system") = {"system"}
    BY ColumnNames DEF Unread
  <2>5. ASSUME NEW u \in Threads, run_migrations(u) PROVE Late(t)
    BY <2>1, <2>2, <2>3, <2>4, <2>5 DEF run_migrations, SeedServices
  <2>6. ASSUME NEW u \in Threads, get_db(u) \/ TablesExist(u) \/ SetReady(u) \/ Answer(u)
        PROVE  FALSE
    BY <2>1, <2>6 DEF get_db, TablesExist, SetReady, Answer
  <2>7. ASSUME NEW u \in Threads, CreateTable(u) PROVE FALSE
    BY <1>2, <2>7 DEF CreateTable
  <2>8. CASE Restart
    BY <2>8 DEF Restart
  <2>9. CASE UNCHANGED vars
    BY <1>2, <2>9 DEF vars
  <2> QED
    BY <2>5, <2>6, <2>7, <2>8, <2>9 DEF Next, Continue
<1> QED
  BY <1>3 DEF RaceInv, Leading

(* However many threads migrate at once, a migration fails only while      *)
(* another one goes on, or after one has got done since the process began. *)
THEOREM OnlyRacersFail == Spec => OnlyRacesFail
<1>1. Init => RaceInv
  BY DEF Init, RaceInv, Late, Unread
<1>2. MigrationInv /\ RaceInv /\ [Next]_vars => RaceInv'
  BY RaceStep
<1>3. MigrationInv /\ RaceInv /\ [Next]_vars =>
         [\A t \in Threads : req[t].at \in InitSteps /\ req'[t].at = "failed" =>
             _db_ready \/ \E u \in Threads \ {t} : req[u].at \in InitSteps]_vars
  BY FailureStep
<1> QED
  BY <1>1, <1>2, <1>3, AlwaysMigrationInv, PTL DEF Spec, OnlyRacesFail

-----------------------------------------------------------------------------
(* One thread: the columns it has read are those of the table until it has *)
(* added its own.                                                          *)
AloneInv ==
    \A t \in Threads :
        /\ req[t].at # "failed"
        /\ req[t].seen \cap Unread(req[t].at) = columns \cap Unread(req[t].at)

LEMMA AloneStep ==
  ASSUME NEW me, Threads = {me}, MigrationInv, AloneInv, [Next]_vars
  PROVE  AloneInv'
<1>1. TypeOK
  BY DEF MigrationInv
<1>2. CASE UNCHANGED vars
  BY <1>2 DEF vars, database, AloneInv
<1>3. CASE Restart
  BY <1>3 DEF Restart, AloneInv, Unread
<1>4. ASSUME NEW to, Goto(me, to), UNCHANGED columns, Unread(to) = {}, to # "failed"
      PROVE  AloneInv'
  BY <1>1, <1>4 DEF Goto, AloneInv, TypeOK
<1>5. CASE get_db(me)
  BY <1>4, <1>5 DEF get_db, Unread, database
<1>6. CASE CreateTable(me)
  BY <1>6 DEF CreateTable, AloneInv, Unread
<1>7. CASE TablesExist(me) \/ SeedServices(me) \/ SetReady(me) \/ Answer(me)
  BY <1>4, <1>7 DEF TablesExist, SeedServices, SetReady, Answer, Unread, database
<1>8. ASSUME NEW from, NEW to, to # "failed", ReadColumns(me, from, to)
      PROVE  AloneInv'
  BY <1>1, <1>8 DEF ReadColumns, AloneInv, TypeOK, database
<1>9. ASSUME NEW c, NEW to, AlterTable(me, c, to),
             <<c, to>> \in {<<"dest_tag_id", "clientsInfo">>, <<"kind", "system">>, <<"system", "seed">>}
      PROVE  AloneInv'
  <2>1. req[me].at = c /\ c \in Unread(c) /\ c \in Columns
    BY <1>9, ColumnNames DEF AlterTable, Unread
  <2>2. c \notin columns \ req[me].seen
    BY <2>1 DEF AloneInv
  <2>3. Goto(me, to) /\ to # "failed"
    BY <1>9, <2>2 DEF AlterTable
  <2>4. req'[me].at = to /\ req'[me].seen = req[me].seen
    BY <1>1, <2>3 DEF Goto, TypeOK
  <2>5. Unread(to) \subseteq Unread(c) \ {c}
    BY <1>9 DEF Unread
  <2>6. columns' \ {c} = columns \ {c}
    BY <1>9 DEF AlterTable
  <2> QED
    BY <2>1, <2>3, <2>4, <2>5, <2>6 DEF AloneInv
<1>10. CASE run_migrations(me)
  BY <1>7, <1>8, <1>9, <1>10 DEF run_migrations
<1> QED
  BY <1>2, <1>3, <1>5, <1>6, <1>7, <1>10 DEF Next, Continue

(* With one thread at a time no migration fails, wherever earlier runs of  *)
(* it were cut off: it can be repeated.                                    *)
THEOREM AloneMigrationsRepeat ==
  ASSUME NEW me, Threads = {me}
  PROVE  Spec => []MigrationsRepeatable
<1>1. Init => AloneInv
  BY DEF Init, AloneInv, Unread
<1>2. MigrationInv /\ AloneInv /\ [Next]_vars => AloneInv'
  BY AloneStep
<1>3. AloneInv => MigrationsRepeatable
  BY DEF AloneInv, MigrationsRepeatable
<1> QED
  BY <1>1, <1>2, <1>3, AlwaysMigrationInv, PTL DEF Spec

=============================================================================

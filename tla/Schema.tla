------------------------------- MODULE Schema -------------------------------
(***************************************************************************)
(* The schema of the app's SQLite database: db.get_db(), init_db() and     *)
(* run_migrations(), which bring a database of an older version up to      *)
(* date at the first request of a process.  In ssh mode several threads    *)
(* may make it at once; nothing but _db_ready keeps them apart.            *)
(*                                                                         *)
(* Each CREATE and ALTER commits by itself (Python's sqlite3 opens a       *)
(* transaction for INSERT only); the services are one transaction.  Of     *)
(* the columns those are kept that a migration adds.                       *)
(***************************************************************************)
EXTENDS Naturals, Sequences, Functions

CONSTANTS
    Threads,
    Names,         \* BUILTIN_SERVICES
    OldDatabases,  \* what older versions may have left
    MaxRestarts    \* bound: restarts of the process

TablesInOrder == <<"clients", "services", "tags", "client_tags", "client_networks", "rules", "apply_log">>

Tables == Range(TablesInOrder)

TableOf == [dest_tag_id |-> "rules", kind |-> "clients", system |-> "clients"]

Columns == DOMAIN TableOf

(* A service is not there, was put there by the app, or by somebody. *)
Origin == {"absent", "builtin", "own"}

Database == [tables : SUBSET Tables, columns : SUBSET Columns, services : [Names -> Origin]]

ASSUME SchemaAssumption ==
    /\ OldDatabases \subseteq Database
    /\ \A d \in OldDatabases :
          /\ \A c \in d.columns : TableOf[c] \in d.tables
          /\ "services" \notin d.tables => d.services = [n \in Names |-> "absent"]
    /\ MaxRestarts \in Nat

VARIABLES
    tables, columns, services,  \* the database
    _db_ready,
    restarts,
    req                         \* each thread: where it is, the columns it has read

database == <<tables, columns, services>>
vars == <<database, _db_ready, restarts, req>>

InitSteps == {"create", "rulesInfo", "dest_tag_id", "clientsInfo", "kind", "system", "seed", "ready"}

Init ==
    /\ \E d \in OldDatabases : tables = d.tables /\ columns = d.columns /\ services = d.services
    /\ _db_ready = FALSE
    /\ restarts = 0
    /\ req = [t \in Threads |-> [at |-> "idle", seen |-> {}]]

Goto(t, step) == req' = [req EXCEPT ![t].at = step]

-----------------------------------------------------------------------------

(* Mutant: _db_ready is set before the database is. *)
GetDbReadyFirst(t) ==
    /\ req[t].at = "idle"
    /\ Goto(t, IF _db_ready THEN "serve" ELSE "create")
    /\ _db_ready' = TRUE
    /\ UNCHANGED <<database, restarts>>

get_db(t) ==
    /\ req[t].at = "idle"
    /\ Goto(t, IF _db_ready THEN "serve" ELSE "create")
    /\ UNCHANGED <<database, _db_ready, restarts>>

(* CREATE TABLE IF NOT EXISTS: the next table that is missing, with all of *)
(* its columns.                                                            *)
CreateTable(t) ==
    /\ req[t].at = "create"
    /\ \E i \in DOMAIN TablesInOrder :
          /\ TablesInOrder[i] \notin tables
          /\ \A j \in 1..(i - 1) : TablesInOrder[j] \in tables
          /\ tables' = tables \cup {TablesInOrder[i]}
          /\ columns' = columns \cup {c \in Columns : TableOf[c] = TablesInOrder[i]}
    /\ UNCHANGED <<services, _db_ready, restarts, req>>

(* Mutant: a database that exists is taken to have its tables. *)
DatabaseExists(t) ==
    /\ req[t].at = "create"
    /\ tables # {}
    /\ Goto(t, "rulesInfo")
    /\ UNCHANGED <<database, _db_ready, restarts>>

TablesExist(t) ==
    /\ req[t].at = "create"
    /\ tables = Tables
    /\ Goto(t, "rulesInfo")
    /\ UNCHANGED <<database, _db_ready, restarts>>

(* Mutant: the same table both times. *)
ReadRulesColumns(t, from, to) ==
    /\ req[t].at = from
    /\ req' = [req EXCEPT ![t] = [at |-> to, seen |-> {c \in columns : TableOf[c] = "rules"}]]
    /\ UNCHANGED <<database, _db_ready, restarts>>

(* PRAGMA table_info *)
ReadColumns(t, from, to) ==
    /\ req[t].at = from
    /\ req' = [req EXCEPT ![t] = [at |-> to, seen |-> columns]]
    /\ UNCHANGED <<database, _db_ready, restarts>>

(* Mutant: the columns of the table are not looked at. *)
AlterUnchecked(t, c, to) ==
    /\ req[t].at = c
    /\ columns' = columns \cup {c}
    /\ Goto(t, IF c \in columns THEN "failed" ELSE to)
    /\ UNCHANGED <<tables, services, _db_ready, restarts>>

(* ALTER TABLE ADD COLUMN, if the column was missing when the columns were *)
(* read; it fails if the column is there by now.                           *)
AlterTable(t, c, to) ==
    /\ req[t].at = c
    /\ columns' = IF c \in req[t].seen THEN columns ELSE columns \cup {c}
    /\ Goto(t, IF c \in columns \ req[t].seen THEN "failed" ELSE to)
    /\ UNCHANGED <<tables, services, _db_ready, restarts>>

(* Mutant: INSERT OR REPLACE. *)
SeedAnew(t) ==
    /\ req[t].at = "seed"
    /\ services' = [n \in Names |-> "builtin"]
    /\ Goto(t, "ready")
    /\ UNCHANGED <<tables, columns, _db_ready, restarts>>

SeedServices(t) ==
    /\ req[t].at = "seed"
    /\ services' = [n \in Names |-> IF services[n] = "absent" THEN "builtin" ELSE services[n]]
    /\ Goto(t, "ready")
    /\ UNCHANGED <<tables, columns, _db_ready, restarts>>

SetReady(t) ==
    /\ req[t].at = "ready"
    /\ _db_ready' = TRUE
    /\ Goto(t, "serve")
    /\ UNCHANGED <<database, restarts>>

Answer(t) ==
    /\ req[t].at \in {"serve", "failed"}
    /\ Goto(t, "idle")
    /\ UNCHANGED <<database, _db_ready, restarts>>

Restart ==
    /\ restarts < MaxRestarts
    /\ restarts' = restarts + 1
    /\ _db_ready' = FALSE
    /\ req' = [t \in Threads |-> [at |-> "idle", seen |-> {}]]
    /\ UNCHANGED database

run_migrations(t) ==
    \/ ReadColumns(t, "rulesInfo", "dest_tag_id")
    \/ AlterTable(t, "dest_tag_id", "clientsInfo")
    \/ ReadColumns(t, "clientsInfo", "kind")
    \/ AlterTable(t, "kind", "system")
    \/ AlterTable(t, "system", "seed")
    \/ SeedServices(t)

Continue(t) == CreateTable(t) \/ TablesExist(t) \/ run_migrations(t) \/ SetReady(t) \/ Answer(t)

Next == Restart \/ \E t \in Threads : get_db(t) \/ Continue(t)

Spec == Init /\ [][Next]_vars

(* A thread that can go on does; nobody has to make a request. *)
FairSpec == Spec /\ \A t \in Threads : WF_vars(Continue(t))

-----------------------------------------------------------------------------

(* Every variable has its type, and a column is one of a table. *)
TypeOK ==
    /\ tables \subseteq Tables
    /\ columns \subseteq {c \in Columns : TableOf[c] \in tables}
    /\ services \in [Names -> Origin]
    /\ _db_ready \in BOOLEAN
    /\ restarts \in 0..MaxRestarts
    /\ req \in [Threads -> [at : InitSteps \cup {"idle", "serve", "failed"}, seen : SUBSET Columns]]

(* Whoever gets a connection finds every table, column and builtin service,*)
(* whatever version the database was of, wherever the process was killed   *)
(* in the middle of a migration, and whoever else is migrating.            *)
ServedMeansMigrated ==
    \A t \in Threads : req[t].at = "serve" =>
        /\ tables = Tables /\ columns = Columns
        /\ \A n \in Names : services[n] # "absent"

(* db.py:157-158: "kein Ueberschreiben, rein additiv", not even somebody's *)
(* own service by the name of a builtin one.                               *)
OnlyAdds ==
    [][/\ tables \subseteq tables' /\ columns \subseteq columns'
       /\ \A n \in Names : services[n] # "absent" => services'[n] = services[n]]_vars

(* Racing migrations can make each other's requests fail, but not all of   *)
(* them: while the process runs, one of those that have begun gets done.   *)
SomebodyGetsThrough ==
    \A n \in 0..MaxRestarts :
        (restarts = n /\ \E t \in Threads : req[t].at \in InitSteps) ~> (_db_ready \/ restarts # n)

(* A migration fails in a race only: whoever fails, in adding a column,    *)
(* has met one that goes on, or that has got done since the process began. *)
(* So a migration can be repeated wherever an earlier one was cut off.     *)
OnlyRacesFail ==
    [][\A t \in Threads : req[t].at \in InitSteps /\ req'[t].at = "failed" =>
          _db_ready \/ \E u \in Threads \ {t} : req[u].at \in InitSteps]_vars

(* db.py:108-109: "Jede Migration prueft vorher, ob sie noetig ist, und    *)
(* ist damit gefahrlos wiederholt ausfuehrbar."                            *)
MigrationsRepeatable == \A t \in Threads : req[t].at # "failed"

=============================================================================

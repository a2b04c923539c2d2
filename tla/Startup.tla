------------------------------ MODULE Startup -------------------------------
(***************************************************************************)
(* Opening the database: DB.Open of store/db/db.go as NewService and the   *)
(* setup command run it, each a process of its own on the same file, the   *)
(* service id that a server reads or makes before it serves, and the       *)
(* system settings, which it then accepts and shows until it dies and      *)
(* again after the next start.                                             *)
(*                                                                         *)
(* The driver creates the file when it first connects, before the          *)
(* transaction that makes the tables; a later Open takes the file for a    *)
(* database.  A process may die between any two steps.                     *)
(***************************************************************************)
EXTENDS Naturals, SystemSettings

CONSTANTS
  Servers,   \* processes that serve
  Setups,    \* processes of the setup command
  MaxId,     \* bound on the service ids made
  Modes,     \* the modes considered, of "prod", "dev" and "demo"
  Names      \* the settings considered

Processes == Servers \cup Setups
None      == 0           \* no service id
Posted    == MaxId + 1   \* a service id somebody has posted

ASSUME StartupAssumption ==
  /\ Servers \cap Setups = {}
  /\ MaxId \in Nat
  /\ Modes \subseteq {"prod", "dev", "demo"}
  /\ Names \subseteq DOMAIN TypeOf
  /\ Absent \notin Values

VARIABLES
  mode,    \* profile.Mode; it names the file
  file,    \* the database file exists
  tables,  \* it has the tables of the latest schema
  stored,  \* the system setting Service-id, or None
  setting, \* the value of each other system setting, or Absent
  made,    \* service ids made so far
  pc,      \* where each process is
  own      \* Service.ID of each process, or None

vars == <<mode, file, tables, stored, setting, made, pc, own>>

Steps == {"down", "failed", "stat", "connect", "schema", "seed", "history", "opened",
          "makeId", "serving", "done"}

TypeOK ==
  /\ mode \in Modes
  /\ file \in BOOLEAN /\ tables \in BOOLEAN
  /\ stored \in 0 .. Posted
  /\ setting \in [Names -> Values \cup {Absent}]
  /\ made \in 0 .. MaxId
  /\ pc \in [Processes -> Steps]
  /\ own \in [Processes -> 0 .. Posted]

\* A first start, or a start on a database from before.
Init ==
  /\ mode \in Modes
  /\ \E old \in BOOLEAN : file = old /\ tables = old
  /\ stored = None
  /\ setting = [n \in Names |-> Absent]
  /\ made = 0
  /\ pc = [p \in Processes |-> "down"]
  /\ own = [p \in Processes |-> None]

-----------------------------------------------------------------------------
Goto(p, step) == pc' = [pc EXCEPT ![p] = step] /\ UNCHANGED <<mode, made, own>>

Start(p) ==
  /\ pc[p] \in {"down", "failed"}
  /\ Goto(p, "stat")
  /\ UNCHANGED <<file, tables, stored, setting>>

\* No prod schema is embedded (migration/dev is all there is), so in prod a
\* missing file ends in an error; an existing one leads to the history.
Stat(p) ==
  /\ pc[p] = "stat"
  /\ Goto(p, IF mode = "prod" THEN (IF file THEN "history" ELSE "failed")
             ELSE (IF file THEN "opened" ELSE "connect"))
  /\ UNCHANGED <<file, tables, stored, setting>>

\* The first connection of execute creates the file.
Connect(p) ==
  /\ pc[p] = "connect"
  /\ file' = TRUE
  /\ Goto(p, "schema")
  /\ UNCHANGED <<tables, stored, setting>>

\* CREATE TABLE without IF NOT EXISTS, all in one transaction: it fails as a
\* whole when another process was first.
ApplySchema(p) ==
  /\ pc[p] = "schema"
  /\ IF tables THEN Goto(p, "failed")
     ELSE Goto(p, IF mode = "demo" THEN "seed" ELSE "opened")
  /\ tables' = TRUE
  /\ UNCHANGED <<file, stored, setting>>

\* Nothing is embedded in seedFS: its directive has a space and is a comment.
Seed(p) ==
  /\ pc[p] = "seed"
  /\ Goto(p, "opened")
  /\ UNCHANGED <<file, tables, stored, setting>>

\* SELECT version,createdTs ... WHERE1 = 1: neither parses nor names a column
\* of migration_history.
FindMigrationHistoryList(p) ==
  /\ pc[p] = "history"
  /\ Goto(p, "failed")
  /\ UNCHANGED <<file, tables, stored, setting>>

\* (variant: a missing table is taken for a missing setting)
FindServiceIDLeniently(p) ==
  /\ p \in Servers /\ pc[p] = "opened"
  /\ IF stored = None THEN Goto(p, "makeId")
     ELSE /\ pc' = [pc EXCEPT ![p] = "serving"]
          /\ own' = [own EXCEPT ![p] = stored]
          /\ UNCHANGED <<mode, made>>
  /\ UNCHANGED <<file, tables, stored, setting>>

\* A server looks for the service id; without tables that fails.
FindServiceID(p) ==
  /\ p \in Servers /\ pc[p] = "opened"
  /\ IF ~ tables THEN Goto(p, "failed")
     ELSE IF stored = None THEN Goto(p, "makeId")
     ELSE /\ pc' = [pc EXCEPT ![p] = "serving"]
          /\ own' = [own EXCEPT ![p] = stored]
          /\ UNCHANGED <<mode, made>>
  /\ UNCHANGED <<file, tables, stored, setting>>

\* (variant: the new id stays in memory)
MakeServiceIDUnsaved(p) ==
  /\ pc[p] = "makeId" /\ made < MaxId
  /\ made' = made + 1
  /\ own' = [own EXCEPT ![p] = made']
  /\ pc' = [pc EXCEPT ![p] = "serving"]
  /\ UNCHANGED <<mode, file, tables, stored, setting>>

\* Upsert: an id that came meanwhile is overwritten.
MakeServiceID(p) ==
  /\ pc[p] = "makeId" /\ made < MaxId
  /\ made' = made + 1
  /\ stored' = made'
  /\ own' = [own EXCEPT ![p] = made']
  /\ pc' = [pc EXCEPT ![p] = "serving"]
  /\ UNCHANGED <<mode, file, tables, setting>>

\* The setup command goes on to look for a host (module Accounts), or fails.
RunSetup(p) ==
  /\ p \in Setups /\ pc[p] = "opened"
  /\ Goto(p, IF tables THEN "done" ELSE "failed")
  /\ UNCHANGED <<file, tables, stored, setting>>

\* POST /system/setting of the host; what Validate refuses changes nothing.
PostSetting(p) ==
  /\ p \in Servers /\ pc[p] = "serving"
  /\ \E name \in Names \cup Hidden, value \in Values :
       /\ Validate(name, value)
       /\ setting' = [setting EXCEPT ![name] = value]
       /\ stored' = IF name = "Service_id" THEN Posted ELSE stored
  /\ UNCHANGED <<mode, file, tables, made, pc, own>>

\* A process ends or is killed.
Stop(p) ==
  /\ pc[p] \notin {"down", "failed"}
  /\ pc' = [pc EXCEPT ![p] = "down"]
  /\ own' = [own EXCEPT ![p] = None]
  /\ UNCHANGED <<mode, made, file, tables, stored, setting>>

Run(p) ==
  \/ Stat(p) \/ Connect(p) \/ ApplySchema(p) \/ Seed(p)
  \/ FindMigrationHistoryList(p)
  \/ FindServiceID(p) \/ MakeServiceID(p) \/ RunSetup(p) \/ PostSetting(p)

Next == \E p \in Processes : Start(p) \/ Run(p) \/ Stop(p)

Spec == Init /\ [][Next]_vars

-----------------------------------------------------------------------------
\* db.go:103, "In non-prod mode, we should always migrate the database": when
\* Open returns without an error the schema is there.
AlwaysMigrated ==
  mode # "prod" => \A p \in Processes : pc[p] = "opened" => tables

\* A server that serves has its tables: whatever Open let pass, the lookup of
\* the service id stops a server on an empty file.
ServesOnTables == \A p \in Servers : pc[p] = "serving" => tables

\* With one server the id it serves under is the stored one and the same after
\* every restart.
ServiceIdStays ==
  [][/\ stored # None => stored' = stored
     /\ \A p \in Servers : own'[p] # None => own'[p] = stored']_vars

\* What Validate lets through, GET /status asserts and the handlers decode
\* fit together, with two exceptions.  A JSON null is accepted and makes the
\* status panic (system.go:72) until somebody posts that setting again; without
\* one the status answers.  It shows what the handlers act on, but for an
\* integer that a float64 does not hold (system.go:90, resource.go:110).
StatusTellsTruth ==
  (\A n \in Names : setting[n] # "null") =>
    /\ Answers(setting)
    /\ \A n \in Names \cap ActedOn : setting[n] # "big_integer" =>
         Shown(n, setting[n]) = Used(n, setting[n])
=============================================================================

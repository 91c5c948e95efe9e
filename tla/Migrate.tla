------------------------------ MODULE Migrate ------------------------------
(***************************************************************************)
(* Store.Open and applyMigrations: a process reads the highest recorded    *)
(* version and applies the later migrations one by one, each in a write    *)
(* transaction of its own that runs the statements of the file and then    *)
(* records the version.  It may die at any step and be started again, and  *)
(* a second process may open the same file at any time: SQLite's write     *)
(* lock is shared, the version they have read is not.                      *)
(***************************************************************************)
EXTENDS Naturals

CONSTANTS
  Procs,    \* processes that open the file
  Latest,   \* the version of the last embedded migration
  Guarded,  \* versions with a statement that fails when its objects exist
  Nobody    \* the write lock is free

ASSUME MigrateAssumption ==
  Latest \in Nat /\ Guarded \subseteq 1..Latest /\ Nobody \notin Procs

Versions == 1..Latest

VARIABLES
  recorded,  \* versions in schema_migrations
  effects,   \* effects[v]: how often the statements of v have been committed
  holder,    \* the process whose transaction holds the write lock
  pc,        \* pc[p]: "off", "read", "next", "exec", "record", "commit", "open"
  current    \* current[p]: the version the process takes as applied

vars == <<recorded, effects, holder, pc, current>>

Init ==
  /\ recorded = {}
  /\ effects = [v \in Versions |-> 0]
  /\ holder = Nobody
  /\ pc = [p \in Procs |-> "off"]
  /\ current = [p \in Procs |-> 0]

\* The migration p is working on: the first one after `current'.  The embedded
\* files are numbered without gaps.
Following(p) == current[p] + 1

Start(p) ==
  /\ pc[p] = "off"
  /\ pc' = [pc EXCEPT ![p] = "read"]
  /\ UNCHANGED <<recorded, effects, holder, current>>

\* appliedMigrationVersion: MAX(version), 0 without the table or without rows.
ReadVersion(p) ==
  /\ pc[p] = "read"
  /\ \E n \in recorded \cup {0} :
       /\ \A v \in recorded : v <= n
       /\ current' = [current EXCEPT ![p] = n]
  /\ pc' = [pc EXCEPT ![p] = "next"]
  /\ UNCHANGED <<recorded, effects, holder>>

\* Deviation of Opened: a database that records any version is taken as done.
OpenedNotEmpty(p) ==
  /\ pc[p] = "next" /\ current[p] > 0
  /\ pc' = [pc EXCEPT ![p] = "open"]
  /\ UNCHANGED <<recorded, effects, holder, current>>

\* The loop is at its end, and Open returns.
Opened(p) ==
  /\ pc[p] = "next" /\ current[p] = Latest
  /\ pc' = [pc EXCEPT ![p] = "open"]
  /\ UNCHANGED <<recorded, effects, holder, current>>

\* BEGIN IMMEDIATE.
Begin(p) ==
  /\ pc[p] = "next" /\ current[p] < Latest
  /\ holder = Nobody
  /\ holder' = p
  /\ pc' = [pc EXCEPT ![p] = "exec"]
  /\ UNCHANGED <<recorded, effects, current>>

\* The statements of the file, in the transaction.
Exec(p) ==
  /\ pc[p] = "exec"
  /\ ~ (Following(p) \in Guarded /\ effects[Following(p)] > 0)
  /\ pc' = [pc EXCEPT ![p] = "record"]
  /\ UNCHANGED <<recorded, effects, holder, current>>

\* Deviation of Record: the version is not a primary key.
RecordAnyway(p) ==
  /\ pc[p] = "record"
  /\ pc' = [pc EXCEPT ![p] = "commit"]
  /\ UNCHANGED <<recorded, effects, holder, current>>

\* INSERT INTO schema_migrations: fails when the version is there.
Record(p) ==
  /\ pc[p] = "record"
  /\ Following(p) \notin recorded
  /\ pc' = [pc EXCEPT ![p] = "commit"]
  /\ UNCHANGED <<recorded, effects, holder, current>>

\* Statements and version become visible together.
Commit(p) ==
  /\ pc[p] = "commit"
  /\ recorded' = recorded \cup {Following(p)}
  /\ effects' = [effects EXCEPT ![Following(p)] = @ + 1]
  /\ holder' = Nobody
  /\ current' = [current EXCEPT ![p] = Following(p)]
  /\ pc' = [pc EXCEPT ![p] = "next"]

\* The process ends or dies, or a step of Open fails (the lock is not free in
\* time, a statement does not succeed): the transaction is rolled back.
Exit(p) ==
  /\ pc[p] # "off"
  /\ pc' = [pc EXCEPT ![p] = "off"]
  /\ current' = [current EXCEPT ![p] = 0]
  /\ holder' = IF holder = p THEN Nobody ELSE holder
  /\ UNCHANGED <<recorded, effects>>

Next ==
  \E p \in Procs :
    \/ Start(p)
    \/ ReadVersion(p)
    \/ Opened(p)
    \/ Begin(p)
    \/ Exec(p)
    \/ Record(p)
    \/ Commit(p)
    \/ Exit(p)

Spec == Init /\ [][Next]_vars
-----------------------------------------------------------------------------
\* Types; the lock is held exactly inside a transaction.
TypeOK ==
  /\ recorded \subseteq Versions
  /\ effects \in [Versions -> Nat]
  /\ holder \in Procs \cup {Nobody}
  /\ pc \in [Procs -> {"off", "read", "next", "exec", "record", "commit", "open"}]
  /\ current \in [Procs -> 0..Latest]
  /\ \A p \in Procs :
       /\ pc[p] \in {"exec", "record", "commit"} <=> holder = p
       /\ pc[p] \in {"exec", "record", "commit"} => current[p] < Latest

\* The record is the truth: it has no gap, and the statements of a version have
\* taken effect once when it is recorded and not at all when it is not, however
\* often and by whom the migration was begun.
RecordIsTruth ==
  /\ \A v \in recorded, w \in Versions : w < v => w \in recorded
  /\ \A v \in Versions : effects[v] = IF v \in recorded THEN 1 ELSE 0

\* A store that is open has its whole schema.
OpenIsComplete == \A p \in Procs : pc[p] = "open" => recorded = Versions
=============================================================================

----------------------------- MODULE Migrations -----------------------------
(***************************************************************************)
(* Database (src/database/orm.py) on a file that several processes use:    *)
(* run_migration, and what insert and select make of a value.              *)
(***************************************************************************)
EXTENDS Naturals

CONSTANTS
  Processes,    \* processes with a Database of their own on the file
  Versions,     \* versions of migrations
  Statements,   \* SQL statements in the script of a migration
  MaxDeaths     \* bound: crashes

ASSUME MigrationsAssumption == Statements \in Nat \ {0} /\ MaxDeaths \in Nat

VARIABLES
  strict,       \* the statements fail when they were executed before, as
                \* CREATE TABLE and ALTER TABLE do; or they repeat without error
  run,          \* per process, [at, version, next]: where it is in run_migration
  effects,      \* per version, how often each statement took effect
  recorded,     \* the versions in _migrations
  overlapped,   \* history: versions that two processes ran at the same time
  broken,       \* history: versions whose script ended after some statements
  deaths,       \* history: crashes
  known,        \* processes that called create_table since they started
  row,          \* a stored value of a text column, "" before it is inserted
  given         \* history: the value that was inserted

migrationVars == <<strict, run, effects, recorded, overlapped, broken, deaths,
                   known, row, given>>

NotAtIt == [at |-> "resting", version |-> 0, next |-> 1]

MigrationsInit ==
  /\ strict \in BOOLEAN
  /\ run = [p \in Processes |-> NotAtIt]
  /\ effects = [v \in Versions |-> [s \in 1..Statements |-> 0]]
  /\ recorded = {} /\ overlapped = {} /\ broken = {} /\ deaths = 0
  /\ known = {} /\ row = "" /\ given = ""

dataVars == <<known, row, given>>

-----------------------------------------------------------------------------
\* Mutant of LookUp: the table of migrations is not consulted.
LookUpNot(p, v) ==
  /\ run[p] = NotAtIt
  /\ run' = [run EXCEPT ![p] = [at |-> "script", version |-> v, next |-> 1]]
  /\ overlapped' = overlapped \cup {w \in {v} : \E q \in Processes : run[q].version = w}
  /\ UNCHANGED <<strict, effects, recorded, broken, deaths, dataVars>>

\* run_migration: a version that is recorded is left alone.  The lock is one
\* of the process, the look and what follows are transactions of their own.
LookUp(p, v) ==
  /\ run[p] = NotAtIt /\ v \notin recorded
  /\ run' = [run EXCEPT ![p] = [at |-> "script", version |-> v, next |-> 1]]
  /\ overlapped' = overlapped \cup {w \in {v} : \E q \in Processes : run[q].version = w}
  /\ UNCHANGED <<strict, effects, recorded, broken, deaths, dataVars>>

\* executescript commits and then executes each statement by itself.
Statement(p) ==
  LET v == run[p].version
      s == run[p].next
  IN /\ run[p].at = "script" /\ s <= Statements
     /\ strict => effects[v][s] = 0
     /\ effects' = [effects EXCEPT ![v][s] = @ + 1]
     /\ run' = [run EXCEPT ![p].next = @ + 1]
     /\ UNCHANGED <<strict, recorded, overlapped, broken, deaths, dataVars>>

\* A statement raises; those before it stay.
StatementFails(p) ==
  LET v == run[p].version
      s == run[p].next
  IN /\ run[p].at = "script" /\ s <= Statements
     /\ strict /\ effects[v][s] > 0
     /\ broken' = broken \cup {v}
     /\ run' = [run EXCEPT ![p] = NotAtIt]
     /\ UNCHANGED <<strict, effects, recorded, overlapped, deaths, dataVars>>

\* INSERT INTO _migrations and commit; the version is the primary key, so
\* that a second INSERT raises.
RecordVersion(p) ==
  /\ run[p].at = "script" /\ run[p].next > Statements
  /\ recorded' = recorded \cup {run[p].version}
  /\ run' = [run EXCEPT ![p] = NotAtIt]
  /\ UNCHANGED <<strict, effects, overlapped, broken, deaths, dataVars>>

\* The process ends: _schemas is gone, statements that were executed stay.
Crash(p) ==
  /\ deaths < MaxDeaths /\ deaths' = deaths + 1
  /\ broken' = broken \cup {v \in Versions : run[p].version = v /\ run[p].next > 1}
  /\ run' = [run EXCEPT ![p] = NotAtIt]
  /\ known' = known \ {p}
  /\ UNCHANGED <<strict, effects, recorded, overlapped, row, given>>

-----------------------------------------------------------------------------
\* create_table
CreateTable(p) ==
  /\ known' = known \cup {p}
  /\ UNCHANGED <<strict, run, effects, recorded, overlapped, broken, deaths, row, given>>

\* insert: dictionaries and lists are stored as their JSON text.
Stored(value) == IF value = "object" THEN "json text" ELSE value

Insert(value) ==
  /\ row = ""
  /\ row' = Stored(value) /\ given' = value
  /\ UNCHANGED <<strict, run, effects, recorded, overlapped, broken, deaths, known>>

\* select, _deserialize_row: JSON and TEXT are one member of ColumnType, so
\* that any text of a known table that can be read as JSON is.
Selected(p) ==
  CASE p \in known /\ row = "json text" -> "object"
    [] p \in known /\ row = "digits" -> "number"
    [] OTHER -> row

MigrationsNext ==
  \/ \E p \in Processes :
       \/ \E v \in Versions : LookUp(p, v)
       \/ Statement(p) \/ StatementFails(p) \/ RecordVersion(p) \/ Crash(p)
       \/ CreateTable(p)
  \/ \E value \in {"words", "digits", "object"} : Insert(value)

-----------------------------------------------------------------------------
MigrationsTypeOK ==
  /\ \A p \in Processes : run[p].version \in Versions \cup {0} /\ run[p].next \in 1..(Statements + 1)
  /\ recorded \subseteq Versions /\ broken \subseteq Versions /\ overlapped \subseteq Versions
  /\ row \in {"", "words", "digits", "json text"}
  /\ known \subseteq Processes

\* A recorded version took effect completely; each statement did so once,
\* unless its script was broken off or run by two processes at a time, and in
\* any case only once if it is of the kind that fails when it is repeated.
MigratedOnce ==
  \A v \in Versions, s \in 1..Statements :
    /\ v \in recorded => effects[v][s] > 0
    /\ v \notin broken \cup overlapped \/ strict => effects[v][s] <= 1

\* The statements of a version are not one transaction: when they cannot be
\* repeated, a version that was broken off is never recorded, and every later
\* attempt fails; only a process that was at it at the same time can end it.
BrokenStaysBroken ==
  \A v \in broken \ overlapped : strict => v \notin recorded

\* What select returns is what was inserted only in part: without
\* create_table in this process an object comes back as text, with it a text
\* of digits comes back as a number.
SelectedAsGiven ==
  row # "" => \A p \in Processes :
    Selected(p) = given <=> (given = "words" \/ (given = "object" <=> p \in known))

MigrationsSound == MigratedOnce /\ BrokenStaysBroken /\ SelectedAsGiven
=============================================================================

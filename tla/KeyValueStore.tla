---------------------------- MODULE KeyValueStore ----------------------------
(***************************************************************************)
(* SQLiteStore (src/database/store.py): a connection for each thread, and a *)
(* lock around the calls that write.  Another process may hold the write   *)
(* lock of the file.  A call that writes begins a transaction and commits  *)
(* it, but nothing rolls it back when its statement raises.                *)
(*                                                                         *)
(* SQLite itself (write-ahead log) is external: a transaction sees the     *)
(* commits before its first read, and cannot write when there are others.  *)
(***************************************************************************)
EXTENDS Naturals, TLAPS

CONSTANTS
  StoreThreads, \* threads that use the store
  MaxCommits    \* bound: committed writes

ASSUME StoreAssumption == MaxCommits \in Nat

VARIABLES
  commits,      \* the database: how many writes were committed
  inTransaction,\* threads whose connection is in a transaction
  readsAt,      \* per thread, the commit its transaction reads, if it has read
  otherWrites,  \* another process holds the write lock
  refused       \* history: threads whose last writing call raised

storeVars == <<commits, inTransaction, readsAt, otherWrites, refused>>

NoSnapshot == MaxCommits + 1

\* _conn, _init: every thread that uses the store has a connection.
StoreInit ==
  /\ commits = 0 /\ inTransaction = {}
  /\ readsAt = [t \in StoreThreads |-> NoSnapshot]
  /\ otherWrites = FALSE /\ refused = {}

\* The statement of set, set_json, delete or clear_namespace finds the write
\* lock free and no commit behind the snapshot of its transaction.
MayWrite(t) == ~ otherWrites /\ readsAt[t] \in {NoSnapshot, commits}

\* set, delete, clear_namespace: execute and commit.
WriteValue(t) ==
  /\ commits < MaxCommits /\ MayWrite(t)
  /\ commits' = commits + 1
  /\ inTransaction' = inTransaction \ {t}
  /\ readsAt' = [readsAt EXCEPT ![t] = NoSnapshot]
  /\ refused' = refused \ {t}
  /\ UNCHANGED otherWrites

\* execute raises "database is locked"; the transaction it began stays.
WriteRaises(t) ==
  /\ ~ MayWrite(t)
  /\ inTransaction' = inTransaction \cup {t}
  /\ refused' = refused \cup {t}
  /\ UNCHANGED <<commits, readsAt, otherWrites>>

\* What get, get_json, list_namespace and count read.
Reads(t) == IF t \in inTransaction /\ readsAt[t] # NoSnapshot THEN readsAt[t] ELSE commits

\* The first read in a transaction fixes what it sees.
Read(t) ==
  /\ readsAt' = [readsAt EXCEPT ![t] = IF t \in inTransaction THEN Reads(t) ELSE NoSnapshot]
  /\ UNCHANGED <<commits, inTransaction, otherWrites, refused>>

\* close, of the calling thread's connection.
Close(t) ==
  /\ inTransaction' = inTransaction \ {t}
  /\ readsAt' = [readsAt EXCEPT ![t] = NoSnapshot]
  /\ refused' = refused \ {t}
  /\ UNCHANGED <<commits, otherWrites>>

OtherBegins ==
  /\ ~ otherWrites /\ otherWrites' = TRUE
  /\ UNCHANGED <<commits, inTransaction, readsAt, refused>>

OtherCommits ==
  /\ otherWrites /\ commits < MaxCommits
  /\ commits' = commits + 1 /\ otherWrites' = FALSE
  /\ UNCHANGED <<inTransaction, readsAt, refused>>

StoreNext ==
  \/ \E t \in StoreThreads : WriteValue(t) \/ WriteRaises(t) \/ Read(t) \/ Close(t)
  \/ OtherBegins \/ OtherCommits

StoreSpec == StoreInit /\ [][StoreNext]_storeVars

-----------------------------------------------------------------------------
\* The type invariant.
StoreTypeOK ==
  /\ commits \in 0..MaxCommits /\ inTransaction \subseteq StoreThreads
  /\ readsAt \in [StoreThreads -> 0..NoSnapshot] /\ refused \subseteq StoreThreads

\* A thread whose last writing call did not raise reads what is committed,
\* whichever thread or process committed it.
ReadsArePresent == \A t \in StoreThreads \ refused : Reads(t) = commits

\* A thread whose call raised, and who then read, is left behind at the next
\* commit: from then on it reads what is gone, and while it does, each of its
\* writes raises, whoever holds the lock; no call but close changes that.
LeftBehind(t) == Reads(t) < commits
StuckBehind == \A t \in StoreThreads : LeftBehind(t) => t \in refused /\ ~ MayWrite(t)

\* Readers see the present, and those that do not are stuck.
StoreSound == ReadsArePresent /\ StuckBehind

-----------------------------------------------------------------------------
(* Proofs, for any threads and any number of commits. *)

\* A thread's connection is in a transaction exactly when its last writing call
\* raised; only then it has a snapshot, and none is ahead of the database.
StoreInv ==
  /\ StoreTypeOK
  /\ refused = inTransaction
  /\ \A t \in StoreThreads :
       readsAt[t] # NoSnapshot => t \in inTransaction /\ readsAt[t] <= commits

LEMMA StoreInitially == StoreInit => StoreInv
BY StoreAssumption DEF StoreInit, StoreInv, StoreTypeOK, NoSnapshot

\* Every call of a thread, and every step of another process, keeps it.
LEMMA StoreStep == StoreInv /\ [StoreNext]_storeVars => StoreInv'
<1> SUFFICES ASSUME StoreInv, [StoreNext]_storeVars PROVE StoreInv'
  OBVIOUS
<1> USE StoreAssumption DEF StoreInv, StoreTypeOK, NoSnapshot
<1>1. ASSUME NEW t \in StoreThreads, WriteValue(t) PROVE StoreInv'
  BY <1>1 DEF WriteValue
<1>2. ASSUME NEW t \in StoreThreads, WriteRaises(t) PROVE StoreInv'
  BY <1>2 DEF WriteRaises
<1>3. ASSUME NEW t \in StoreThreads, Read(t) PROVE StoreInv'
  BY <1>3 DEF Read, Reads
<1>4. ASSUME NEW t \in StoreThreads, Close(t) PROVE StoreInv'
  BY <1>4 DEF Close
<1>5. CASE OtherBegins
  BY <1>5 DEF OtherBegins
<1>6. CASE OtherCommits
  BY <1>6 DEF OtherCommits
<1>7. CASE UNCHANGED storeVars
  BY <1>7 DEF storeVars
<1> QED
  BY <1>1, <1>2, <1>3, <1>4, <1>5, <1>6, <1>7 DEF StoreNext

\* The transaction that a refused write leaves open is what makes a thread read
\* the past, and as long as it reads the past it cannot write.
LEMMA OpenTransactionBinds == StoreInv => StoreSound
BY StoreAssumption DEF StoreInv, StoreTypeOK, StoreSound, ReadsArePresent, StuckBehind,
                       LeftBehind, Reads, MayWrite, NoSnapshot

\* The type invariant of the key-value store.
THEOREM StoreTypes == StoreSpec => []StoreTypeOK
<1>1. StoreInv => StoreTypeOK
  BY DEF StoreInv
<1> QED
  BY StoreInitially, StoreStep, <1>1, PTL DEF StoreSpec

\* Threads whose writes were not refused read what is committed, and one that
\* reads the past was refused and stays unable to write (database/store.py).
THEOREM RefusedThreadsAreStuck == StoreSpec => []StoreSound
BY StoreInitially, StoreStep, OpenTransactionBinds, PTL DEF StoreSpec
=============================================================================

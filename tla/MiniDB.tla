------------------------------- MODULE MiniDB -------------------------------
(***************************************************************************)
(* The document store of src/minidb: documents and an inverted index in    *)
(* memory, a snapshot file and a write-ahead log on disk.  An operation    *)
(* changes the memory first and the files after, one write at a time; a    *)
(* crash can come between any two and, where TornWrites allows it, in the  *)
(* middle of a write.                                                      *)
(*                                                                         *)
(* Data matter to the store through the words that occur in them, and by   *)
(* whether json.dumps takes them.  The index is built from what it writes, *)
(* where an escape such as \n glues its letter to the word behind it and a *)
(* letter that is not ASCII is \uXXXX: findall sees other words there.     *)
(***************************************************************************)
EXTENDS Naturals, Sequences

CONSTANTS
  Ids,          \* document ids
  Words,        \* what \w{2,} matches, in documents and in queries
  Escaped,      \* the words with letters that are not ASCII
  Found,        \* per occurrence, the words that findall finds of it
  Data,         \* data of documents: sets of occurrences
  Unserialisable, \* data on which json.dumps raises
  None,         \* no document
  TornWrites,   \* the files that a crash may leave half written
  MaxOps,       \* bound: operations begun
  MaxCrashes    \* bound: crashes (a clean restart is a crash between calls)

ASSUME MiniDBAssumption ==
  /\ TornWrites \subseteq {"wal", "snapshot"}
  /\ Data \subseteq SUBSET (Words \X {"clear", "after escape"})
  /\ Found \in [Words \X {"clear", "after escape"} -> SUBSET Words]
  /\ \A w \in Words \ Escaped : Found[<<w, "clear">>] = {w}
  /\ {None, Unserialisable} \cap Data = {} /\ None # Unserialisable
  /\ MaxOps \in Nat /\ MaxCrashes \in Nat

VARIABLES
  docs,         \* self._docs
  index,        \* self._inverted_index
  snapshot,     \* the snapshot file; Torn when it cannot be parsed
  wal,          \* the lines of the log; a Torn line cannot be parsed
  step,         \* the write the operation under way has still to do
  entry,        \* the log entry of the operation under way
  ops, crashes, \* operations begun, crashes so far
  undeleted,    \* history: documents whose delete raised
  unindexed     \* history: documents that it did not come to index again

memory == <<docs, index>>
disk == <<snapshot, wal>>
counts == <<ops, crashes>>
raised == <<undeleted, unindexed>>
vars == <<memory, disk, step, entry, counts, raised>>

Empty == [i \in Ids |-> None]
Torn == [op |-> "torn"]

\* What cannot be parsed is no snapshot.
ASSUME TornAssumption == Torn \notin [Ids -> Data \cup {None}]

SetEntry(i, d) == [op |-> "set", id |-> i, data |-> d]
DeleteEntry(i) == [op |-> "delete", id |-> i]

\* _index_doc: re.findall over json.dumps(data).lower().
WordsOf(data) == IF data \in Data THEN UNION {Found[o] : o \in data} ELSE {}

-----------------------------------------------------------------------------
(***************************************************************************)
(* _load.  The log is replayed up to the first line that cannot be parsed: *)
(* the exception ends the loop and is dropped.                             *)
(***************************************************************************)

Readable == {k \in DOMAIN wal : \A m \in 1..k : wal[m] # Torn}

FromSnapshot == IF snapshot = Torn THEN Empty ELSE snapshot

\* The documents after the first n readable lines.
Replayed(n) == [i \in Ids |->
  LET about == {k \in Readable : k <= n /\ wal[k].id = i}
      last == CHOOSE k \in about : \A m \in about : m <= k
  IN IF about = {} THEN FromSnapshot[i]
     ELSE IF wal[last].op = "set" THEN wal[last].data ELSE None]

Loaded == Replayed(Len(wal))

\* A delete rebuilds the index, a set only adds to it.
LastRebuild ==
  LET deletes == {k \in Readable : wal[k].op = "delete"} IN
  IF deletes = {} THEN 0 ELSE CHOOSE k \in deletes : \A m \in deletes : m <= k

LoadedIndex == [w \in Words |->
  {i \in Ids : \/ w \in WordsOf(Replayed(LastRebuild)[i])
               \/ \E k \in Readable : /\ k > LastRebuild
                                      /\ wal[k].id = i /\ w \in WordsOf(wal[k].data)}]

Init ==
  /\ docs = Empty /\ index = [w \in Words |-> {}]
  /\ snapshot = Empty /\ wal = <<>>
  /\ step = "idle" /\ entry = Torn
  /\ ops = 0 /\ crashes = 0 /\ undeleted = {} /\ unindexed = {}

-----------------------------------------------------------------------------
(***************************************************************************)
(* Operations.                                                             *)
(***************************************************************************)
Begin(next) ==
  /\ step = "idle" /\ ops < MaxOps
  /\ ops' = ops + 1
  /\ step' = next
  /\ UNCHANGED crashes

Rebuilt(d) == [w \in Words |-> {i \in Ids : w \in WordsOf(d[i])}]

\* Mutant of Set: the words of the document are not indexed.
SetUnindexed(i, d) ==
  /\ Begin("append")
  /\ docs' = [docs EXCEPT ![i] = d]
  /\ entry' = SetEntry(i, d)
  /\ undeleted' = undeleted \ {i} /\ unindexed' = unindexed \ {i}
  /\ UNCHANGED <<index, disk>>

\* set: memory first; the words of the old document stay in the index.
Set(i, d) ==
  /\ Begin("append")
  /\ docs' = [docs EXCEPT ![i] = d]
  /\ index' = [w \in Words |-> IF w \in WordsOf(d) THEN index[w] \cup {i} ELSE index[w]]
  /\ entry' = SetEntry(i, d)
  /\ undeleted' = undeleted \ {i} /\ unindexed' = unindexed \ {i}
  /\ UNCHANGED disk

\* set of data that json.dumps refuses: the call raises in _index_doc, and the
\* document stays in memory, neither indexed nor written.
SetRaises(i) ==
  /\ Begin("idle")
  /\ docs' = [docs EXCEPT ![i] = Unserialisable]
  /\ undeleted' = undeleted \ {i}
  /\ UNCHANGED <<index, disk, entry, unindexed>>

Refused == {i \in Ids : docs[i] = Unserialisable}

\* delete of a document that exists.
Delete(i) ==
  /\ docs[i] # None /\ Refused \subseteq {i}
  /\ Begin("append")
  /\ docs' = [docs EXCEPT ![i] = None]
  /\ index' = Rebuilt(docs')
  /\ entry' = DeleteEntry(i)
  /\ undeleted' = undeleted \ {i} /\ unindexed' = {}
  /\ UNCHANGED disk

\* delete while another document cannot be dumped: _rebuild_index clears the
\* index and raises when it comes to that document, after those that were put
\* in before it; nothing is written.
DeleteRaises(i) ==
  /\ docs[i] # None /\ ~ (Refused \subseteq {i})
  /\ Begin("idle")
  /\ docs' = [docs EXCEPT ![i] = None]
  /\ \E before \in SUBSET {j \in Ids : docs'[j] \in Data} :
       /\ index' = [w \in Words |-> {j \in before : w \in WordsOf(docs'[j])}]
       /\ unindexed' = {j \in Ids : docs'[j] \in Data} \ before
  /\ undeleted' = undeleted \cup {i}
  /\ UNCHANGED <<disk, entry>>

\* _append_wal, and the operation returns.
AppendWal ==
  /\ step = "append"
  /\ wal' = Append(wal, entry)
  /\ step' = "idle" /\ entry' = Torn
  /\ UNCHANGED <<memory, snapshot, counts, raised>>

\* compact and clear: the snapshot is written, then the log is emptied.  compact
\* raises, and changes nothing, while a document cannot be dumped.
Compact ==
  /\ Refused = {}
  /\ Begin("compact")
  /\ UNCHANGED <<memory, disk, entry, raised>>

Clear ==
  /\ Begin("clear")
  /\ docs' = Empty /\ index' = [w \in Words |-> {}]
  /\ undeleted' = {} /\ unindexed' = {}
  /\ UNCHANGED <<disk, entry>>

SaveSnapshot ==
  /\ step \in {"compact", "clear"}
  /\ snapshot' = docs
  /\ step' = IF step = "compact" THEN "truncate" ELSE "clear_wal"
  /\ UNCHANGED <<memory, wal, entry, counts, raised>>

\* Mutant of Truncate: the first line of the log is left behind.
TruncateToLast ==
  /\ step \in {"truncate", "clear_wal"}
  /\ wal' = IF wal = <<>> THEN <<>> ELSE <<wal[1]>>
  /\ step' = "idle" /\ undeleted' = {}
  /\ UNCHANGED <<memory, snapshot, entry, counts, unindexed>>

Truncate ==
  /\ step \in {"truncate", "clear_wal"}
  /\ wal' = <<>>
  /\ step' = "idle" /\ undeleted' = {}
  /\ UNCHANGED <<memory, snapshot, entry, counts, unindexed>>

\* What a crash leaves on disk: the files as they are, or the write under
\* way half done.
DiskAfterCrash ==
  \/ UNCHANGED disk
  \/ /\ "wal" \in TornWrites /\ step = "append"
     /\ wal' = Append(wal, Torn) /\ UNCHANGED snapshot
  \/ /\ "snapshot" \in TornWrites /\ step \in {"compact", "clear"}
     /\ snapshot' = Torn /\ UNCHANGED wal

\* A crash and the next start, which loads the files.
Restart ==
  /\ crashes < MaxCrashes
  /\ crashes' = crashes + 1
  /\ DiskAfterCrash
  /\ docs' = Loaded' /\ index' = LoadedIndex'
  /\ step' = "idle" /\ entry' = Torn
  /\ undeleted' = {} /\ unindexed' = {}
  /\ UNCHANGED ops

Next ==
  \/ \E i \in Ids : Delete(i) \/ DeleteRaises(i) \/ SetRaises(i) \/ \E d \in Data : Set(i, d)
  \/ AppendWal \/ Compact \/ Clear \/ SaveSnapshot \/ Truncate
  \/ Restart

Spec == Init /\ [][Next]_vars

-----------------------------------------------------------------------------
TypeOK ==
  /\ docs \in [Ids -> Data \cup {None, Unserialisable}] /\ undeleted \cup unindexed \subseteq Ids
  /\ index \in [Words -> SUBSET Ids]
  /\ snapshot = Torn \/ snapshot \in [Ids -> Data \cup {None}]
  /\ \A k \in DOMAIN wal : wal[k] = Torn \/ wal[k].id \in Ids
  /\ step \in {"idle", "append", "compact", "truncate", "clear", "clear_wal"}
  /\ (step = "append") <=> (entry # Torn)

\* Between operations, what get returns is what the next start will load
\* (tests/test_minidb.py, test_persistence), unless the call that made the
\* document, or deleted it, raised.
ReadsAreDurable ==
  step = "idle" => \A i \in Ids \ (Refused \cup undeleted) : docs[i] = Loaded[i]

\* A search finds every document that has the word, through overwrites,
\* deletes, compactions and restarts (search over the inverted index): a word
\* of ASCII letters that does not stand right behind an escape, in a document
\* that no raising delete has left out of the index.
SearchFindsAll ==
  \A i \in Ids \ unindexed, w \in Words \ Escaped :
    docs[i] \in Data /\ <<w, "clear">> \in docs[i] => i \in index[w]

\* What is on disk changes only as the document map allows: each operation
\* takes effect at one write, and neither a compaction nor a crash between
\* two writes loses, brings back or mixes up documents.
Map == INSTANCE DocumentMap
         WITH kv <- Loaded, clearing <- (step \in {"clear", "clear_wal"})
ImplementsMap == Map!Spec
\* The answers of get and search are those a restart would give.
AnswersAreDurable == ReadsAreDurable /\ SearchFindsAll
=============================================================================

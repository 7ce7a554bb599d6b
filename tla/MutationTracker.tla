--------------------------- MODULE MutationTracker ---------------------------
(***************************************************************************)
(* The file mutation tracker of src/mutation/tracker.py: it compares the   *)
(* files with what it saw last, appends a record for each difference, and  *)
(* undoes records, the last first.                                         *)
(*                                                                         *)
(* A record keeps contents as read_text returns them: a file that is no    *)
(* text is read as "", and every line ends in \n, whatever it ends in in   *)
(* the file.  Whether a file has changed is decided by the hash of its     *)
(* bytes.                                                                  *)
(***************************************************************************)
EXTENDS Naturals, Sequences, SequencesExt, FiniteSets

CONSTANTS
  Paths,        \* numbers, in the order in which paths are sorted
  Texts,        \* contents that read_text can decode
  LfOf,         \* such a content with every \r\n and \r turned into \n
  Binaries,     \* contents that it cannot decode
  NoFileThere,  \* the file does not exist
  MaxRecords,   \* bound: records in the history
  MaxWrites     \* bound: changes made by others

ASSUME TrackerAssumption ==
  /\ Paths \subseteq Nat /\ IsFiniteSet(Paths) /\ MaxRecords \in Nat /\ MaxWrites \in Nat
  /\ Texts \cap Binaries = {} /\ NoFileThere \notin Texts \cup Binaries
  /\ "" \in Texts /\ LfOf \in [Texts -> Texts]
  /\ \A t \in Texts : LfOf[LfOf[t]] = LfOf[t] /\ (LfOf[t] = "" => t = "")

VARIABLES
  files,        \* the files under base_dir
  seen,         \* self._snapshots: the files as seen last
  records,      \* self._history
  writes,       \* changes made by others so far
  first,        \* history: the files at the last call of snapshot
  undoing,      \* history: a record was undone since then
  deletedFirst, \* history: files whose first record is a deletion
  tracked       \* history: snapshot was called, every change since then was
                \* detected before the first undo, and only undos came after

trackerVars == <<files, seen, records, writes, first, undoing, deletedFirst, tracked>>

Contents == Texts \cup Binaries

\* Mutant of TextOf: bytes that are no text are kept.
TextOfRaw(content) == content

\* _read_file: universal newlines, and nothing of what is no text.
TextOf(content) == IF content \in Binaries THEN "" ELSE LfOf[content]

TrackerInit ==
  /\ files \in [Paths -> Contents \cup {NoFileThere}]
  /\ seen = [p \in Paths |-> NoFileThere] /\ first = files
  /\ records = <<>> /\ writes = 0
  /\ undoing = FALSE /\ deletedFirst = {} /\ tracked = FALSE

-----------------------------------------------------------------------------
\* The agent, or anybody else, writes or removes a file.
Write(p, content) ==
  /\ writes < MaxWrites /\ writes' = writes + 1
  /\ files' = [files EXCEPT ![p] = content]
  /\ tracked' = (tracked /\ ~ undoing)
  /\ UNCHANGED <<seen, records, first, undoing, deletedFirst>>

\* snapshot; the history stays.
Snapshot ==
  /\ seen' = files /\ first' = files
  /\ undoing' = FALSE /\ deletedFirst' = {} /\ tracked' = (records = <<>>)
  /\ UNCHANGED <<files, records, writes>>

\* A record about the file is in the history.
IsTold(p) == \E k \in DOMAIN records : records[k].path = p

\* sorted: the k-th path has k - 1 paths before it.
SortedPaths(S) ==
  [k \in 1..Cardinality(S) |-> CHOOSE p \in S : Cardinality({q \in S : q < p}) = k - 1]

CreatedPaths == {p \in Paths : seen[p] = NoFileThere /\ files[p] # NoFileThere}
DeletedPaths == {p \in Paths : seen[p] # NoFileThere /\ files[p] = NoFileThere}
EditedPaths == {p \in Paths : NoFileThere \notin {seen[p], files[p]} /\ seen[p] # files[p]}

Difference(p) ==
  [type |-> CASE p \in CreatedPaths -> "created"
              [] p \in DeletedPaths -> "deleted"
              [] OTHER -> "edited",
   path |-> p,
   old |-> IF p \in CreatedPaths THEN "" ELSE TextOf(seen[p]),
   new |-> IF p \in DeletedPaths THEN "" ELSE TextOf(files[p])]

\* The records of one detection: created, then deleted, then edited files,
\* each in the order of their paths.
ChangedPaths == SortedPaths(CreatedPaths) \o SortedPaths(DeletedPaths) \o SortedPaths(EditedPaths)
Changes == [k \in 1..Len(ChangedPaths) |-> Difference(ChangedPaths[k])]

\* detect_changes
DetectChanges ==
  /\ Len(records) + Len(Changes) <= MaxRecords
  /\ records' = records \o Changes
  /\ seen' = files
  /\ tracked' = (tracked /\ ~ undoing)
  /\ deletedFirst' = deletedFirst \cup {p \in DeletedPaths : ~ IsTold(p)}
  /\ UNCHANGED <<files, writes, first, undoing>>

\* Mutant of Undone: an edit is undone by its new content.
UndoneByNew(r) == IF r.type = "created" THEN NoFileThere ELSE r.new

\* What undo_last leaves of the file: a created file is unlinked; an edited one
\* gets the text that was read of the old content, and is left alone when that
\* is ""; a deleted one comes back with the new content of the record, which
\* is "".  write_text changes nothing more where lines end in \n.
Undone(r) ==
  CASE r.type = "created" -> NoFileThere
    [] r.type = "edited" -> IF r.old = "" THEN files[r.path] ELSE r.old
    [] r.type = "deleted" -> r.new

\* undo_last.  What was seen stays, so the next detection reports the undo.
UndoLast ==
  /\ records # <<>>
  /\ records' = Front(records)
  /\ files' = [files EXCEPT ![Last(records).path] = Undone(Last(records))]
  /\ undoing' = TRUE
  /\ tracked' = (tracked /\ (undoing \/ files = seen))
  /\ UNCHANGED <<seen, writes, first, deletedFirst>>

\* clear
ClearHistory ==
  /\ records # <<>> /\ records' = <<>>
  /\ tracked' = FALSE
  /\ UNCHANGED <<files, seen, writes, first, undoing, deletedFirst>>

TrackerNext ==
  \/ \E p \in Paths, c \in Contents \cup {NoFileThere} : Write(p, c)
  \/ Snapshot \/ DetectChanges \/ UndoLast \/ ClearHistory

TrackerSpec == TrackerInit /\ [][TrackerNext]_trackerVars

-----------------------------------------------------------------------------
TrackerTypeOK ==
  /\ files \in [Paths -> Contents \cup {NoFileThere}]
  /\ seen \in [Paths -> Contents \cup {NoFileThere}]
  /\ first \in [Paths -> Contents \cup {NoFileThere}]
  /\ \A k \in DOMAIN records :
       /\ records[k].type \in {"created", "edited", "deleted"}
       /\ records[k].path \in Paths /\ {records[k].old, records[k].new} \subseteq Texts
  /\ writes \in 0..MaxWrites /\ undoing \in BOOLEAN /\ tracked \in BOOLEAN

\* Two records about one file with none about it between them.
Consecutive(i, j) ==
  /\ i < j /\ records[i].path = records[j].path
  /\ \A k \in (i + 1)..(j - 1) : records[k].path # records[i].path

\* The records of a file form one story: each starts from the content at
\* which the one before ended, a file is created only when it was gone, and
\* the story ends at what was seen last.
RecordsChain ==
  (tracked /\ ~ undoing) =>
    /\ \A i, j \in DOMAIN records : Consecutive(i, j) =>
         /\ (records[i].type = "deleted") <=> (records[j].type = "created")
         /\ records[i].new = records[j].old
    /\ \A i \in DOMAIN records :
         (\A j \in (i + 1)..Len(records) : records[j].path # records[i].path) =>
           LET p == records[i].path IN
           /\ (records[i].type = "deleted") <=> (seen[p] = NoFileThere)
           /\ seen[p] # NoFileThere => records[i].new = TextOf(seen[p])

\* The file is what it was at the last call of snapshot, up to the ends of its
\* lines: one with \r\n whose edit was undone has \n instead.  Nothing is said
\* of a file that was empty or no text, whose edit is left alone.
IsBack(p) ==
  IF first[p] = NoFileThere THEN files[p] = NoFileThere
  ELSE TextOf(first[p]) # "" => files[p] \in {first[p], TextOf(first[p])}

\* Undoing everything brings every file back, up to the ends of its lines,
\* however often it was created, edited and deleted in between, unless its
\* story began with its deletion (undo_last writes "" over it).
UndoneIsFirst ==
  (tracked /\ undoing /\ records = <<>>) =>
    \A p \in Paths \ deletedFirst : IsBack(p)

\* The records of a file tell one story, and to undo it leads to its start.
StoriesCanBeUndone == RecordsChain /\ UndoneIsFirst
=============================================================================

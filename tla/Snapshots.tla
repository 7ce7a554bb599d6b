----------------------------- MODULE Snapshots ------------------------------
(***************************************************************************)
(* The directory snapshots of src/snapshot/manager.py: one directory per   *)
(* snapshot and an index, in memory and in _index.json.  create copies the *)
(* files and then writes the index; delete drops the entry from memory,    *)
(* removes the directory and then writes the index.  A file operation may  *)
(* raise, and the process may stop, at any point in between.               *)
(***************************************************************************)
EXTENDS Naturals, FiniteSets

CONSTANTS
  SnapIds,      \* ids of snapshots: a hash of the source and the time
  SourceFiles,  \* files that a source directory may have
  Nowhere,      \* no entry, no directory
  MaxMishaps    \* bound: operations that raise, and stops of the process

ASSUME SnapshotAssumption ==
  /\ IsFiniteSet(SourceFiles)
  /\ Nowhere \notin Nat /\ \A S \in SUBSET SourceFiles : S # Nowhere
  /\ MaxMishaps \in Nat

VARIABLES
  catalog,      \* self._index: the file_count of every snapshot in it
  catalogFile,  \* _index.json; what is read when it is `cut` is nothing
  dirs,         \* the directories: the files in each
  doing,        \* the operation under way
  used,         \* ids that create has drawn
  returned,     \* history: snapshots that create returned
  doomed,       \* history: snapshots whose delete has begun
  gone,         \* history: snapshots whose delete returned True
  forgotten,    \* history: an index that cannot be parsed was loaded
  mishaps       \* what went wrong so far

snapVars == <<catalog, catalogFile, dirs, doing, used, returned, doomed, gone, forgotten, mishaps>>

NoSnapshots == [i \in SnapIds |-> Nowhere]
FileOf(index) == [cut |-> FALSE, read |-> index]
CutFile == [cut |-> TRUE, read |-> NoSnapshots]
Catalogs == [SnapIds -> 0..Cardinality(SourceFiles) \cup {Nowhere}]

\* create copies the files `todo`; delete removes them; then the index is
\* saved.
Resting == [step |-> "idle", id |-> Nowhere, todo |-> {}]
Doing(step, i, todo) == [step |-> step, id |-> i, todo |-> todo]

SnapInit ==
  /\ catalog = NoSnapshots /\ catalogFile = FileOf(NoSnapshots)
  /\ dirs = NoSnapshots
  /\ doing = Resting /\ used = {}
  /\ returned = {} /\ doomed = {} /\ gone = {}
  /\ forgotten = FALSE /\ mishaps = 0

Mishap == mishaps < MaxMishaps /\ mishaps' = mishaps + 1

-----------------------------------------------------------------------------
(***************************************************************************)
(* create.                                                                 *)
(***************************************************************************)
\* The directory is made; S are the files that rglob will find.
BeginCreate(i, S) ==
  /\ doing = Resting /\ i \notin used
  /\ used' = used \cup {i}
  /\ dirs' = [dirs EXCEPT ![i] = {}]
  /\ doing' = Doing("copy", i, S)
  /\ UNCHANGED <<catalog, catalogFile, returned, doomed, gone, forgotten, mishaps>>

CopyFile(f) ==
  /\ doing.step = "copy" /\ f \in doing.todo
  /\ dirs' = [dirs EXCEPT ![doing.id] = @ \cup {f}]
  /\ doing' = [doing EXCEPT !.todo = @ \ {f}]
  /\ UNCHANGED <<catalog, catalogFile, used, returned, doomed, gone, forgotten, mishaps>>

\* All files are copied: the snapshot is entered in memory.
EnterCatalog ==
  /\ doing.step = "copy" /\ doing.todo = {}
  /\ catalog' = [catalog EXCEPT ![doing.id] = Cardinality(dirs[doing.id])]
  /\ doing' = Doing("save", doing.id, {})
  /\ UNCHANGED <<catalogFile, dirs, used, returned, doomed, gone, forgotten, mishaps>>

\* _save_index, and create returns.
SaveCreated ==
  /\ doing.step = "save"
  /\ catalogFile' = FileOf(catalog)
  /\ returned' = returned \cup {doing.id}
  /\ doing' = Resting
  /\ UNCHANGED <<catalog, dirs, used, doomed, gone, forgotten, mishaps>>

-----------------------------------------------------------------------------
(***************************************************************************)
(* delete.                                                                 *)
(***************************************************************************)
\* The entry is popped; without a directory the index is saved at once.
BeginDelete(i) ==
  /\ doing = Resting /\ catalog[i] # Nowhere
  /\ catalog' = [catalog EXCEPT ![i] = Nowhere]
  /\ doomed' = doomed \cup {i}
  /\ doing' = IF dirs[i] = Nowhere THEN Doing("save delete", i, {})
              ELSE Doing("remove", i, dirs[i])
  /\ UNCHANGED <<catalogFile, dirs, used, returned, gone, forgotten, mishaps>>

\* rmtree, file by file, and the directory at the end.
RemoveFile(f) ==
  /\ doing.step = "remove" /\ f \in doing.todo
  /\ dirs' = [dirs EXCEPT ![doing.id] = @ \ {f}]
  /\ doing' = [doing EXCEPT !.todo = @ \ {f}]
  /\ UNCHANGED <<catalog, catalogFile, used, returned, doomed, gone, forgotten, mishaps>>

RemoveDirectory ==
  /\ doing.step = "remove" /\ doing.todo = {}
  /\ dirs' = [dirs EXCEPT ![doing.id] = Nowhere]
  /\ doing' = Doing("save delete", doing.id, {})
  /\ UNCHANGED <<catalog, catalogFile, used, returned, doomed, gone, forgotten, mishaps>>

\* _save_index, and delete returns True.
SaveDeleted ==
  /\ doing.step = "save delete"
  /\ catalogFile' = FileOf(catalog)
  /\ gone' = gone \cup {doing.id}
  /\ doing' = Resting
  /\ UNCHANGED <<catalog, dirs, used, returned, doomed, forgotten, mishaps>>

-----------------------------------------------------------------------------
\* What a write of the index that does not end leaves behind.
CatalogFileAfter ==
  \/ UNCHANGED catalogFile
  \/ doing.step \in {"save", "save delete"} /\ catalogFile' = CutFile

\* copy2, rmtree or write_text raises: the operation ends where it is.
Raises ==
  /\ doing # Resting /\ Mishap
  /\ CatalogFileAfter
  /\ doing' = Resting
  /\ UNCHANGED <<catalog, dirs, used, returned, doomed, gone, forgotten>>

\* The process stops, and the next one loads the index: an index that cannot
\* be parsed counts as empty.
Reload ==
  /\ Mishap
  /\ CatalogFileAfter
  /\ doing' = Resting
  /\ catalog' = catalogFile'.read
  /\ forgotten' = (forgotten \/ catalogFile'.cut)
  /\ UNCHANGED <<dirs, used, returned, doomed, gone>>

SnapNext ==
  \/ \E i \in SnapIds : BeginDelete(i) \/ \E S \in SUBSET SourceFiles : BeginCreate(i, S)
  \/ \E f \in SourceFiles : CopyFile(f) \/ RemoveFile(f)
  \/ EnterCatalog \/ SaveCreated \/ RemoveDirectory \/ SaveDeleted
  \/ Raises \/ Reload

SnapSpec == SnapInit /\ [][SnapNext]_snapVars

-----------------------------------------------------------------------------
SnapTypeOK ==
  /\ catalog \in Catalogs
  /\ catalogFile \in [cut : BOOLEAN, read : Catalogs]
  /\ dirs \in [SnapIds -> {Nowhere} \cup SUBSET SourceFiles]
  /\ doing.step \in {"idle", "copy", "save", "remove", "save delete"}
  /\ doing # Resting => doing.id \in used /\ doing.todo \subseteq SourceFiles
  /\ gone \subseteq doomed /\ doomed \cup returned \subseteq used /\ used \subseteq SnapIds
  /\ forgotten \in BOOLEAN /\ mishaps \in 0..MaxMishaps

\* A snapshot that is listed can be restored with all its files, whatever
\* failed or stopped before, unless somebody began to delete it (restore
\* copies what it finds and does not look at file_count).
ListedIsWhole ==
  \A i \in SnapIds \ doomed : catalog[i] # Nowhere =>
    dirs[i] # Nowhere /\ Cardinality(dirs[i]) = catalog[i]

\* A snapshot that create returned is listed until its delete begins, or an
\* index that was cut is loaded.
SnapshotsSurvive == ~ forgotten => \A i \in returned \ doomed : catalog[i] # Nowhere

\* A snapshot whose delete returned True is never listed again.
GoneStaysGone == \A i \in gone : catalog[i] = Nowhere

\* Directories that nothing lists come only from operations that went
\* wrong, one from each.
StrayDirectoriesBounded ==
  ~ forgotten =>
    Cardinality({i \in SnapIds : dirs[i] # Nowhere /\ catalog[i] = Nowhere
                                 /\ (doing = Resting \/ doing.id # i)}) <= mishaps
\* Catalogue and directories agree through errors and stops: what is listed
\* is whole, what was returned stays, what was deleted stays away, and what
\* is left lying about is bounded by what went wrong.
CatalogMeansDirectories ==
  ListedIsWhole /\ SnapshotsSurvive /\ GoneStaysGone /\ StrayDirectoriesBounded
=============================================================================

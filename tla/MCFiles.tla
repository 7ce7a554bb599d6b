------------------------------- MODULE MCFiles -------------------------------
(***************************************************************************)
(* Small instances of what is kept in files: the document store, the       *)
(* current goal, the transcript, the directory snapshots, the mutation     *)
(* tracker, objects in JSON files, the SQLite store and its migrations,    *)
(* forks and the tree of sessions, and the calls that edit and patch files. *)
(* They share nothing, so a behaviour exercises one of them, chosen by     *)
(* `subject`, and leaves the others as they were at the start.             *)
(***************************************************************************)
EXTENDS MiniDB, GoalMode, Transcript, Snapshots, MutationTracker, Records, Migrations,
        KeyValueStore, Branches, FileTools, Patching, TLC

CONSTANTS i1, i2, w1, w2, w3, f1, f2, s1, s2

VARIABLE subject

OneId == {i1}
TwoIds == {i1, i2}
OneWord == {w1}
NoWord == {}
Bar == {w1, w2, w3}
\* Behind an escape the first word is read as the second, as "bar" in "\nbar";
\* the third, as "b\u00e4r", is not found.
Baer == {w3}
FoundOf == [o \in Bar \X {"clear", "after escape"} |->
  CASE o[2] = "clear" /\ o[1] # w3 -> {o[1]}
    [] o = <<w1, "after escape">> -> {w2}
    [] OTHER -> {}]
SomeData == {{<<w1, "clear">>}, {<<w1, "after escape">>},
             {<<w1, "clear">>, <<w2, "clear">>, <<w3, "clear">>}}
FoundOfOne == [o \in OneWord \X {"clear", "after escape"} |-> {w1}]
OneDatum == {{<<w1, "clear">>}}
Atomic == {}
TornWal == {"wal"}

OneEitherWay == {-1, 1}
OneTurn == {1}

OneSnap == {s1}
TwoSnaps == {s1, s2}
OneFile == {f1}
TwoFiles == {f1, f2}

OnePath == {1}
TwoPaths == {1, 2}
NoOrOneLine == {"", "x", "x crlf"}
WithLf == [t \in NoOrOneLine |-> IF t = "x crlf" THEN "x" ELSE t]
OnlyEmpty == {""}
NoLines == [t \in OnlyEmpty |-> t]
OneBinary == {"b"}
NoBinary == {}

ShortAndLong == {<<>>, <<"a">>, <<"a", "b", "a", "a">>}
FromOneToSeven == {<<"a">>, <<"b">>, <<"a", "b", "a">>, <<"b", "b", "b">>, <<"a", "a", "b">>,
                   <<"a", "b", "a", "b", "b", "a", "b">>, <<"b", "b", "b", "b", "b", "b", "b">>}
Nothing == {<<>>}

Symmetry == Permutations(Ids)

databaseVars == <<migrationVars, storeVars>>
editVars == <<toolVars, patchVars>>
newVars == <<recordVars, databaseVars, branchVars, editVars>>
oldVars == <<vars, goalVars, transcriptVars, snapVars, trackerVars>>
FilesVars == <<subject, oldVars, newVars>>

Subjects == {"documents", "goal", "transcript", "snapshots", "tracker", "records",
             "migrations", "values", "forks", "tree", "tools", "patch"}

\* One initial state of each component whose turn it is not.
Parked ==
  /\ subject # "tracker" => files = seen
  /\ subject # "records" => keeper = "state"
  /\ subject # "migrations" => strict
  /\ subject # "tools" => there /\ text = <<>>

NoPatch ==
  /\ hunks = <<>> /\ lines = <<>> /\ expected = <<>> /\ drifted = FALSE /\ reversed = FALSE
  /\ offset = 0 /\ applied = 0 /\ failed = 0 /\ ambiguous = FALSE /\ astray = FALSE

FilesInit ==
  /\ subject \in Subjects
  /\ Init /\ GoalInit /\ TranscriptInit /\ SnapInit /\ TrackerInit
  /\ RecordsInit /\ MigrationsInit /\ StoreInit /\ BranchesInit /\ ToolsInit
  /\ Parked
  /\ IF subject = "patch" THEN PatchInit ELSE NoPatch

FilesNext ==
  /\ UNCHANGED subject
  /\ \/ /\ subject = "documents" /\ Next
        /\ UNCHANGED <<goalVars, transcriptVars, snapVars, trackerVars, newVars>>
     \/ /\ subject = "goal" /\ GoalNext
        /\ UNCHANGED <<vars, transcriptVars, snapVars, trackerVars, newVars>>
     \/ /\ subject = "transcript" /\ TranscriptNext
        /\ UNCHANGED <<vars, goalVars, snapVars, trackerVars, newVars>>
     \/ /\ subject = "snapshots" /\ SnapNext
        /\ UNCHANGED <<vars, goalVars, transcriptVars, trackerVars, newVars>>
     \/ /\ subject = "tracker" /\ TrackerNext
        /\ UNCHANGED <<vars, goalVars, transcriptVars, snapVars, newVars>>
     \/ /\ subject = "records" /\ RecordsNext
        /\ UNCHANGED <<oldVars, databaseVars, branchVars, editVars>>
     \/ /\ subject = "migrations" /\ MigrationsNext
        /\ UNCHANGED <<oldVars, recordVars, storeVars, branchVars, editVars>>
     \/ /\ subject = "values" /\ StoreNext
        /\ UNCHANGED <<oldVars, recordVars, migrationVars, branchVars, editVars>>
     \/ /\ \/ subject = "forks" /\ BranchesNext
           \/ subject = "tree" /\ TreeNext
        /\ UNCHANGED <<oldVars, recordVars, databaseVars, editVars>>
     \/ /\ subject = "tools" /\ ToolsNext
        /\ UNCHANGED <<oldVars, recordVars, databaseVars, branchVars, patchVars>>
     \/ /\ subject = "patch" /\ ApplyHunk
        /\ UNCHANGED <<oldVars, recordVars, databaseVars, branchVars, toolVars>>

FilesSpec == FilesInit /\ [][FilesNext]_FilesVars

\* The type invariants of all subjects.
FilesTypeOK ==
  CASE subject = "documents" -> TypeOK
    [] subject = "goal" -> GoalTypeOK
    [] subject = "transcript" -> TranscriptTypeOK
    [] subject = "snapshots" -> SnapTypeOK
    [] subject = "tracker" -> TrackerTypeOK
    [] subject = "records" -> RecordsTypeOK
    [] subject = "migrations" -> MigrationsTypeOK
    [] subject = "values" -> StoreTypeOK
    [] subject \in {"forks", "tree"} -> BranchesTypeOK
    [] subject = "tools" -> ToolsTypeOK
    [] subject = "patch" -> PatchTypeOK

\* What was said, snapshot or recorded can be told and undone afterwards: the
\* parts are stated where the transcript, the snapshots and the tracker are
\* modelled.
HistoriesHold == TranscriptIsTold /\ CatalogMeansDirectories /\ StoriesCanBeUndone

\* What several processes, threads or requests keep in JSON files, in SQLite and
\* in files that are edited is what they agree on, up to the failures named in
\* the parts.
RecordsHold ==
  ObjectsHold /\ MigrationsSound /\ StoreSound /\ NoEditIsLost /\ MissedOnlyWithinATick

\* What is computed over whole sequences: forks and the tree of sessions, the
\* memories that are kept, pages of a file, patches.
ContentsHold == BranchesHold /\ TrimKeepsTheBest /\ PagesTile /\ PatchesApply
=============================================================================

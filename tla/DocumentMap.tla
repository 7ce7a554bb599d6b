----------------------------- MODULE DocumentMap -----------------------------
(***************************************************************************)
(* What MiniDB (src/minidb) promises: a map of documents that outlives the *)
(* process.  Every operation but clear takes effect in one step; clear     *)
(* forgets the documents in several, and a restart may cut it short.  A    *)
(* delete that raised takes effect later, when the store is compacted, or  *)
(* never.                                                                  *)
(***************************************************************************)
CONSTANTS Ids, Data, None

VARIABLES
  kv,           \* id -> data, None where there is no document
  clearing,     \* a clear is under way
  undeleted     \* documents whose delete raised

mapVars == <<kv, clearing, undeleted>>

Init == kv = [i \in Ids |-> None] /\ clearing = FALSE /\ undeleted = {}

Set(i, d) == kv' = [kv EXCEPT ![i] = d] /\ UNCHANGED <<clearing, undeleted>>

Delete(i) == kv' = [kv EXCEPT ![i] = None] /\ UNCHANGED <<clearing, undeleted>>

DeleteRaises(i) == undeleted' = undeleted \cup {i} /\ UNCHANGED <<kv, clearing>>

Without(S) == [i \in Ids |-> IF i \in S THEN None ELSE kv[i]]

\* Some of them are deleted after all, some are set anew or never deleted.
Settle(S) ==
  /\ S \subseteq undeleted /\ undeleted' \subseteq undeleted
  /\ kv' = Without(S) /\ UNCHANGED clearing

BeginClear == ~ clearing /\ clearing' = TRUE /\ undeleted' = {} /\ UNCHANGED kv

Forget(S) == clearing /\ kv' = Without(S) /\ UNCHANGED <<clearing, undeleted>>

EndClear == clearing /\ clearing' = FALSE /\ kv' = Without(Ids) /\ UNCHANGED undeleted

CutShort == clearing /\ clearing' = FALSE /\ UNCHANGED <<kv, undeleted>>

Next ==
  \/ \E i \in Ids : Delete(i) \/ DeleteRaises(i) \/ \E d \in Data : Set(i, d)
  \/ BeginClear \/ EndClear \/ CutShort
  \/ \E S \in SUBSET Ids : Forget(S) \/ Settle(S)

Spec == Init /\ [][Next]_mapVars
=============================================================================

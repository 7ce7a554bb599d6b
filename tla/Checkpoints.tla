---------------------------- MODULE Checkpoints ----------------------------
(***************************************************************************)
(* The checkpoints of src/checkpoint/__init__.py: an agent saves its       *)
(* context, and goes back to a saved one by its identifier or by its step. *)
(* An identifier is made of the step and the second in which it was given, *)
(* and may be used long after its checkpoint was discarded.                *)
(*                                                                         *)
(* A context is known by the save that stored it: save number n.           *)
(***************************************************************************)
EXTENDS Naturals, Sequences

CONSTANTS
  NeverRestored,  \* no checkpoint was restored yet
  MaxSaves,       \* bound: calls of save
  MaxClock        \* bound: seconds that pass

ASSUME CheckpointAssumption == MaxSaves \in Nat /\ MaxClock \in Nat

VARIABLES
  saved,        \* self._checkpoints
  stepNo,       \* self._step
  now,          \* int(time.time())
  given,        \* history: given[n] is the identifier that save number n returned
  lines,        \* history: lines[n], the saves that lead to save number n
  line,         \* history: the saves that lead to the present context
  restored      \* history: the save whose identifier was used in the last
                \* revert, and the save whose context it returned

checkpointVars == <<saved, stepNo, now, given, lines, line, restored>>

\* The identifier f"cp_{step}_{second}".
SaveId(step, second) == <<step, second>>

CheckpointInit ==
  /\ saved = <<>> /\ stepNo = 0 /\ now = 0
  /\ given = <<>> /\ lines = <<>> /\ line = {} /\ restored = NeverRestored

-----------------------------------------------------------------------------
\* save
Save ==
  LET n == Len(given) + 1  id == SaveId(stepNo + 1, now) IN
  /\ n <= MaxSaves
  /\ stepNo' = stepNo + 1
  /\ saved' = Append(saved, [id |-> id, step |-> stepNo + 1, of |-> n])
  /\ given' = Append(given, id)
  /\ line' = line \cup {n} /\ lines' = Append(lines, line \cup {n})
  /\ UNCHANGED <<now, restored>>

\* Mutant of Kept: nothing is discarded.
KeptAll(k) == saved

\* The checkpoints that a revert to the k-th leaves: those before it.
Kept(k) == SubSeq(saved, 1, k - 1)

\* The step after a revert to the k-th.
StepAfter(k) == saved[k].step

\* The agent takes the context that revert returned and goes on from it.
GoBack(k, n) ==
  /\ saved' = Kept(k) /\ stepNo' = StepAfter(k)
  /\ line' = lines[saved[k].of]
  /\ restored' = <<n, saved[k].of>>
  /\ UNCHANGED <<now, given, lines>>

\* revert, with the identifier that save number n returned: the first
\* checkpoint of that identifier, if there is one.
Revert(n) ==
  \E k \in DOMAIN saved :
    /\ saved[k].id = given[n]
    /\ \A j \in 1..(k - 1) : saved[j].id # given[n]
    /\ GoBack(k, n)

\* revert_to_step: revert to the newest checkpoint that is not after step s.
RevertToStep(s) ==
  \E k \in DOMAIN saved :
    /\ saved[k].step <= s
    /\ \A j \in (k + 1)..Len(saved) : saved[j].step > s
    /\ Revert(saved[k].of)

\* clear
ClearCheckpoints ==
  /\ saved' = <<>> /\ stepNo' = 0
  /\ UNCHANGED <<now, given, lines, line, restored>>

NextSecond == now < MaxClock /\ now' = now + 1
                /\ UNCHANGED <<saved, stepNo, given, lines, line, restored>>

CheckpointNext ==
  \/ Save \/ ClearCheckpoints \/ NextSecond
  \/ \E n \in DOMAIN given : Revert(n)
  \/ \E s \in 0..MaxSaves : RevertToStep(s)

CheckpointSpec == CheckpointInit /\ [][CheckpointNext]_checkpointVars

-----------------------------------------------------------------------------
CheckpointTypeOK ==
  /\ stepNo \in 0..MaxSaves /\ now \in 0..MaxClock
  /\ given \in Seq((1..MaxSaves) \X (0..MaxClock)) /\ Len(given) <= MaxSaves
  /\ saved \in Seq([id : (1..MaxSaves) \X (0..MaxClock), step : 1..MaxSaves,
                    of : DOMAIN given])
  /\ line \subseteq DOMAIN given /\ lines \in Seq(SUBSET DOMAIN given)
  /\ Len(lines) = Len(given)
  /\ restored \in {NeverRestored} \cup ((DOMAIN given) \X (DOMAIN given))

\* The identifiers of the stored checkpoints are distinct, in whatever order
\* reverts, clears and saves within one second came.
StoredIdsDistinct ==
  \A j, k \in DOMAIN saved : saved[j].id = saved[k].id => j = k

\* Every stored checkpoint is one that the present context came from: to
\* revert is to go back, and never to a branch that was left.
OneTimeline == \A k \in DOMAIN saved : saved[k].of \in line

\* The identifier of a discarded checkpoint is given once more only within
\* the same second: a late revert restores the context it was meant for, or a
\* newer one that was saved in that second after a revert or a clear.
RestoredIsOwn ==
  restored # NeverRestored =>
    \/ restored[2] = restored[1]
    \/ restored[2] > restored[1] /\ given[restored[1]][2] = given[restored[2]][2]
\* Going back is safe: identifiers are distinct, no branch that was left is
\* returned to, and a late identifier is answered with what it may mean.
CheckpointsSound == StoredIdsDistinct /\ OneTimeline /\ RestoredIsOwn
=============================================================================

----------------------------- MODULE Projector -----------------------------
(***************************************************************************)
(* The repair pipeline of src/projector/__init__.py, which a conversation  *)
(* goes through before it is sent: run_pipeline applies each step to the   *)
(* result of the one before, and skips a step that raises.                 *)
(*                                                                         *)
(* A turn is its role, the number of its tool calls, and its content: the  *)
(* messages joined in it, or NoContent (a JSON null).  Of a tool result    *)
(* only `key` matters, its name and the first hundred characters.          *)
(***************************************************************************)
EXTENDS Naturals, Sequences, SequencesExt, FiniteSets

CONSTANTS
  NoContent,   \* the content is null
  ToolKeys,    \* names and beginnings of tool results
  MaxSaid      \* bound: turns of a conversation

ASSUME ProjectorAssumption == MaxSaid \in Nat /\ NoContent \notin Seq(Nat)

VARIABLES
  conversation,  \* the turns that were given
  turns,         \* result of run_pipeline: the turns after the steps that are done
  stage,         \* how many those are
  looked,        \* turns the loop of the present step has looked at
  out,           \* result of that step so far
  pendingCalls,  \* pending_calls of drop_orphan_results
  failed,        \* steps that raised: the anomalies "Failed"
  deduped,       \* history: a tool result was dropped as a duplicate
  headDropped    \* history: an assistant turn with calls was dropped in front

projectorVars == <<conversation, turns, stage, looked, out, pendingCalls, failed, deduped,
                   headDropped>>

Turn(role, calls, key, content) ==
  [role |-> role, calls |-> calls, key |-> key, content |-> content]

\* What may be said in the k-th turn: message k, or null.
TurnsAt(k) ==
  {Turn("user", 0, "", c) : c \in {NoContent} \cup {<<k>>}} \cup {Turn("system", 0, "", <<k>>)}
    \cup {Turn("assistant", n, "", <<k>>) : n \in 0..2}
    \cup {Turn("tool", 0, key, <<k>>) : key \in ToolKeys} \cup {Turn("tool", 0, "", NoContent)}
    \cup {Turn("function", 0, "", <<k>>)}

IsResult(t) == t.role \in {"tool", "function"}
Calling(t) == t.role = "assistant" /\ t.calls > 0

\* Mutant of Pipeline: orphans are dropped before exchanges are repaired.
PipelineSwapped == <<"merge", "dedupe", "orphans", "repair", "leading">>

\* DEFAULT_PROJECTOR_PIPELINE
Pipeline == <<"merge", "dedupe", "repair", "orphans", "leading">>
Done == stage = Len(Pipeline)

ProjectorInit ==
  /\ conversation = <<>> /\ turns = <<>>
  /\ stage = 0 /\ looked = 0 /\ out = <<>> /\ pendingCalls = 0
  /\ failed = {} /\ deduped = FALSE /\ headDropped = FALSE

\* The conversation goes on, before it is projected.
Say(t) ==
  /\ stage = 0 /\ looked = 0 /\ Len(conversation) < MaxSaid
  /\ conversation' = Append(conversation, t) /\ turns' = conversation'
  /\ UNCHANGED <<stage, looked, out, pendingCalls, failed, deduped, headDropped>>

-----------------------------------------------------------------------------
(***************************************************************************)
(* The steps: for turn in turns.                                           *)
(***************************************************************************)
Now(step) == stage < Len(Pipeline) /\ Pipeline[stage + 1] = step

nextTurn == turns[looked + 1]
LookAtTurn == looked < Len(turns) /\ looked' = looked + 1
              /\ UNCHANGED <<conversation, turns, stage, failed, headDropped>>

JoinsUsers == out # <<>> /\ Last(out).role = "user" /\ nextTurn.role = "user"

\* merge_adjacent_user_messages
Merge ==
  /\ Now("merge") /\ LookAtTurn
  /\ \/ ~ JoinsUsers /\ out' = Append(out, nextTurn)
     \/ /\ JoinsUsers /\ NoContent \notin {Last(out).content, nextTurn.content}
        /\ out' = [out EXCEPT ![Len(out)].content = @ \o nextTurn.content]
  /\ UNCHANGED <<pendingCalls, deduped>>

Repeats ==
  nextTurn.role = "tool" /\ \E k \in DOMAIN out : out[k].role = "tool" /\ out[k].key = nextTurn.key

\* dedupe_duplicate_tool_calls: of the tool results of one key, the first,
\* in whatever exchange the others are.
Dedupe ==
  /\ Now("dedupe") /\ LookAtTurn
  /\ nextTurn.role = "tool" => nextTurn.content # NoContent
  /\ out' = IF Repeats THEN out ELSE Append(out, nextTurn)
  /\ deduped' = (deduped \/ Repeats)
  /\ UNCHANGED pendingCalls

Injected == Turn("assistant", 0, "", <<>>)

\* repair_tool_exchange_adjacency
Repair ==
  /\ Now("repair") /\ LookAtTurn
  /\ out' = IF IsResult(nextTurn) /\ out # <<>>
                 /\ Last(out).role \notin {"assistant", "tool", "function"}
              THEN Append(Append(out, Injected), nextTurn) ELSE Append(out, nextTurn)
  /\ UNCHANGED <<pendingCalls, deduped>>

\* drop_orphan_results: results beyond the calls of the last assistant turn
\* that has some.
DropOrphan ==
  /\ Now("orphans") /\ LookAtTurn
  /\ pendingCalls' = CASE Calling(nextTurn) -> nextTurn.calls
                       [] IsResult(nextTurn) /\ pendingCalls > 0 -> pendingCalls - 1
                       [] OTHER -> pendingCalls
  /\ out' = IF IsResult(nextTurn) /\ pendingCalls = 0 THEN out ELSE Append(out, nextTurn)
  /\ UNCHANGED deduped

\* drop_leading_non_user pops its turns.
Pop ==
  /\ Now("leading") /\ turns # <<>> /\ Head(turns).role \notin {"user", "system"}
  /\ turns' = Tail(turns)
  /\ headDropped' = (headDropped \/ Calling(Head(turns)))
  /\ UNCHANGED <<conversation, stage, looked, out, pendingCalls, failed, deduped>>

NextStep == stage' = stage + 1 /\ looked' = 0 /\ out' = <<>> /\ pendingCalls' = 0
            /\ UNCHANGED <<conversation, headDropped>>

\* The loop of run_pipeline takes the result of a step.
TakeResult ==
  /\ ~ Done /\ NextStep
  /\ IF Now("leading")
       THEN (turns # <<>> => Head(turns).role \in {"user", "system"}) /\ UNCHANGED turns
       ELSE looked = Len(turns) /\ turns' = out
  /\ UNCHANGED <<failed, deduped>>

\* A step that raises is skipped with what it did so far: null is no text.
StepRaises ==
  /\ looked < Len(turns) /\ NextStep
  /\ \/ Now("merge") /\ JoinsUsers /\ NoContent \in {Last(out).content, nextTurn.content}
     \/ Now("dedupe") /\ nextTurn.role = "tool" /\ nextTurn.content = NoContent
  /\ failed' = failed \cup {Pipeline[stage + 1]} /\ deduped' = FALSE
  /\ UNCHANGED turns

ProjectorNext ==
  \/ Merge \/ Dedupe \/ Repair \/ DropOrphan \/ Pop \/ TakeResult \/ StepRaises
  \/ \E t \in TurnsAt(Len(conversation) + 1) : Say(t)

ProjectorSpec == ProjectorInit /\ [][ProjectorNext]_projectorVars

-----------------------------------------------------------------------------
Turns == [role : {"user", "system", "assistant", "tool", "function"}, calls : 0..2,
          key : ToolKeys \cup {""}, content : {NoContent} \cup Seq(1..MaxSaid)]

ProjectorTypeOK ==
  /\ turns \in Seq(Turns) /\ out \in Seq(Turns)
  /\ stage \in 0..Len(Pipeline) /\ looked \in 0..Len(turns) /\ pendingCalls \in 0..2
  /\ failed \subseteq {"merge", "dedupe"} /\ deduped \in BOOLEAN /\ headDropped \in BOOLEAN

\* The messages in a turn of the user or the system.
Text(t) == IF t.role \in {"user", "system"} /\ t.content # NoContent THEN t.content ELSE <<>>

WordsInOrder(ts) ==
  \A i, j \in DOMAIN ts : \A a \in DOMAIN Text(ts[i]), b \in DOMAIN Text(ts[j]) :
    i < j \/ (i = j /\ a < b) => Text(ts[i])[a] < Text(ts[j])[b]

\* What the user and the system said is kept word for word and in order, by
\* every step and whatever raises.
UserTextKept ==
  /\ UNION {ToSet(Text(turns[k])) : k \in DOMAIN turns}
       = {k \in DOMAIN conversation : Text(conversation[k]) # <<>>}
  /\ WordsInOrder(turns)

\* The k-th turn is a result of a call that is still there.
Answered(k) ==
  \E j \in 1..(k - 1) :
    /\ Calling(turns[j]) /\ \A i \in (j + 1)..(k - 1) : ~ Calling(turns[i])
    /\ Cardinality({i \in j..k : IsResult(turns[i])}) <= turns[j].calls

\* A conversation that was projected has no result without its call, except
\* that the call may have been dropped in front after its results were
\* counted: drop_leading_non_user runs last.
ResultsFollowCalls ==
  Done => \A k \in DOMAIN turns : IsResult(turns[k]) =>
    \/ Answered(k)
    \/ headDropped /\ \A j \in 1..(k - 1) : ~ Calling(turns[j])

TwoUsers(k) == turns[k].role = "user" /\ turns[k + 1].role = "user"
NullUsers == \E k \in 1..(Len(turns) - 1) :
  TwoUsers(k) /\ NoContent \in {turns[k].content, turns[k + 1].content}

\* Two user turns are adjacent at the end only where a duplicate result
\* between them was dropped (dedupe runs after merge), or merge raised.
UsersAlternate ==
  Done /\ ~ deduped /\ "merge" \notin failed => \A k \in 1..(Len(turns) - 1) : ~ TwoUsers(k)

\* Projecting again would change nothing, unless a duplicate or a leading call
\* was dropped, or dedupe raised at a result that was dropped itself: merge
\* finds no two users or raises again, dedupe and repair find nothing to do,
\* every result is of a call and the first turn is the user's or the system's.
ProjectedOnce ==
  Done /\ ~ deduped /\ ~ headDropped /\ "dedupe" \notin failed =>
    /\ NullUsers \/ \A k \in 1..(Len(turns) - 1) : ~ TwoUsers(k)
    /\ \A i, j \in DOMAIN turns :
         turns[i].role = "tool" /\ turns[j].role = "tool" /\ turns[i].key = turns[j].key => i = j
    /\ \A k \in DOMAIN turns : turns[k].role = "tool" => turns[k].content # NoContent
    /\ \A k \in DOMAIN turns : IsResult(turns[k]) =>
         k > 1 /\ turns[k - 1].role \in {"assistant", "tool", "function"} /\ Answered(k)
    /\ turns # <<>> => turns[1].role \in {"user", "system"}

\* The projection loses nothing that a user said, and leaves a conversation
\* that needs no further repair, up to the exceptions named above.
ProjectionSound == UserTextKept /\ ResultsFollowCalls /\ UsersAlternate /\ ProjectedOnce
=============================================================================

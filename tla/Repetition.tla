----------------------------- MODULE Repetition -----------------------------
(***************************************************************************)
(* The guard against an agent that repeats its tool calls, ToolDeduplicator *)
(* of src/tools/dedup.py: a call that was already made in this step is     *)
(* answered from the history, repetitions are counted over all steps, and  *)
(* the twelfth forces the turn to stop.                                    *)
(*                                                                         *)
(* The agent checks a call, runs it unless it was answered or is to stop,  *)
(* and records the result; a run that fails records nothing.  A call is a  *)
(* tool with its arguments (fingerprint); results are left out.            *)
(***************************************************************************)
EXTENDS Naturals, Sequences

CONSTANTS
  Calls,         \* tools with arguments
  HistoryLimits, \* values of max_history
  MaxChecks,     \* bound: how often a call is checked
  MaxAgentSteps  \* bound: steps of the agent

ASSUME RepetitionAssumption ==
  HistoryLimits \subseteq Nat \ {0} /\ MaxChecks \in Nat /\ MaxAgentSteps \in Nat

VARIABLES
  maxHistory,   \* the maxlen of the deque
  recent,       \* self._history: the last records
  counts,       \* self._step_counts
  agentStep,    \* self._current_step
  running,      \* {c}: call c was checked and is run now
  stopped,      \* the last check forces the turn to stop
  callRuns,     \* history: runs of a call since the reset
  absorbed,     \* history: calls whose ForceStopAt-th check was answered
  since,        \* history: records made since a call was recorded in this step
  reran         \* history: a call ran again although it was among the last
                \* maxHistory records of this step

repetitionVars == <<maxHistory, recent, counts, agentStep, running, stopped,
                    callRuns, absorbed, since, reran>>

\* REMINDER_LEVELS; the levels before the last only add a text.
ForceStopAt == 12

Unrecorded == [c \in Calls |-> 0]

RepetitionInit ==
  /\ maxHistory \in HistoryLimits
  /\ recent = <<>> /\ counts = Unrecorded /\ agentStep = 0
  /\ running = {} /\ stopped = FALSE
  /\ callRuns = Unrecorded /\ absorbed = {} /\ since = Unrecorded /\ reran = FALSE

-----------------------------------------------------------------------------
Idle == running = {} /\ ~ stopped

\* Mutant of NewStep: the counts are those of one step.
NewStepAnew ==
  /\ Idle /\ agentStep < MaxAgentSteps /\ agentStep' = agentStep + 1
  /\ counts' = Unrecorded /\ since' = Unrecorded
  /\ UNCHANGED <<maxHistory, recent, running, stopped, callRuns, absorbed, reran>>

\* new_step
NewStep ==
  /\ Idle /\ agentStep < MaxAgentSteps /\ agentStep' = agentStep + 1
  /\ since' = Unrecorded
  /\ UNCHANGED <<maxHistory, recent, counts, running, stopped, callRuns, absorbed, reran>>

MadeInThisStep(c) == \E k \in DOMAIN recent : recent[k] = [call |-> c, step |-> agentStep]

\* check: the history comes first, so that an answered call is not stopped.
Check(c) ==
  /\ Idle /\ counts[c] < MaxChecks
  /\ counts' = [counts EXCEPT ![c] = @ + 1]
  /\ IF MadeInThisStep(c)
       THEN /\ absorbed' = IF counts'[c] = ForceStopAt THEN absorbed \cup {c} ELSE absorbed
            /\ UNCHANGED <<running, stopped, callRuns, reran>>
       ELSE /\ stopped' = (counts'[c] = ForceStopAt)
            /\ running' = IF stopped' THEN {} ELSE {c}
            /\ callRuns' = IF stopped' THEN callRuns ELSE [callRuns EXCEPT ![c] = @ + 1]
            /\ reran' = (reran \/ (~ stopped' /\ since[c] \in 1..maxHistory))
            /\ UNCHANGED absorbed
  /\ UNCHANGED <<maxHistory, recent, agentStep, since>>

\* history.append of a deque with a maxlen
Recorded(r) ==
  IF Len(recent) = maxHistory THEN Append(Tail(recent), r) ELSE Append(recent, r)

\* record, after the call ran.  since[c] counts the record of c itself.
Record(c) ==
  /\ c \in running /\ running' = {}
  /\ recent' = Recorded([call |-> c, step |-> agentStep])
  /\ since' = [d \in Calls |-> IF d = c THEN 1
                                ELSE IF since[d] \in 1..maxHistory THEN since[d] + 1
                                ELSE since[d]]
  /\ UNCHANGED <<maxHistory, counts, agentStep, stopped, callRuns, absorbed, reran>>

\* The tool raised: nothing is recorded.
RunFails(c) ==
  /\ c \in running /\ running' = {}
  /\ UNCHANGED <<maxHistory, recent, counts, agentStep, stopped, callRuns, absorbed, since, reran>>

\* reset, at the end of a turn
Reset ==
  /\ running = {} /\ stopped' = FALSE
  /\ recent' = <<>> /\ counts' = Unrecorded /\ agentStep' = 0
  /\ callRuns' = Unrecorded /\ absorbed' = {} /\ since' = Unrecorded
  /\ UNCHANGED <<maxHistory, running, reran>>

RepetitionNext ==
  \/ NewStep \/ Reset
  \/ \E c \in Calls : Check(c) \/ Record(c) \/ RunFails(c)

RepetitionSpec == RepetitionInit /\ [][RepetitionNext]_repetitionVars

-----------------------------------------------------------------------------
RepetitionTypeOK ==
  /\ recent \in Seq([call : Calls, step : 0..MaxAgentSteps]) /\ Len(recent) <= maxHistory
  /\ counts \in [Calls -> 0..MaxChecks] /\ callRuns \in [Calls -> 0..MaxChecks]
  /\ agentStep \in 0..MaxAgentSteps /\ stopped \in BOOLEAN /\ reran \in BOOLEAN
  /\ running \subseteq Calls /\ absorbed \subseteq Calls
  /\ since \in [Calls -> 0..(maxHistory + 1)]

\* Within a step a call whose result was recorded runs a second time only
\* when max_history other results were recorded in between.
NoNeedlessRerun == ~ reran

\* A call runs eleven times in a turn at the most, over whatever steps and
\* failures, unless its twelfth check was answered from the history: the
\* count then went past the level, which is never reached again.
RunsBounded == \A c \in Calls \ absorbed : callRuns[c] < ForceStopAt
\* The guard neither lets a result be computed again in vain nor a call go on
\* without end.
RepetitionGuarded == NoNeedlessRerun /\ RunsBounded
=============================================================================

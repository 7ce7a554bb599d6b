---------------------------- MODULE OutputStore ----------------------------
(***************************************************************************)
(* The tool outputs of src/output/store.py: one list of all outputs, and   *)
(* for each session the positions of its outputs in that list.             *)
(* clear_session takes the outputs of a session out of the list and leaves *)
(* the positions of the other sessions as they are.                        *)
(*                                                                         *)
(* An output is known by its session and the number of its record.         *)
(***************************************************************************)
EXTENDS Naturals, Sequences, FiniteSets, SequencesExt

CONSTANTS
  OutputSessions, \* session identifiers
  IndexError,     \* what a read returns when a position is beyond the list
  MaxOutputs,     \* bound: outputs recorded
  MaxClears       \* bound: calls of clear_session

ASSUME OutputAssumption == MaxOutputs \in Nat /\ MaxClears \in Nat

VARIABLES
  outputs,        \* self._outputs
  positions,      \* self._index, from 0 as in the code; <<>> is no entry
  recorded,       \* history: records so far
  clears,         \* clears so far
  own,            \* history: the records of a session since it was cleared
  moved           \* history: a clear took out an output that came before one
                  \* of another session

outputVars == <<outputs, positions, recorded, clears, own, moved>>

OutputInit ==
  /\ outputs = <<>> /\ positions = [s \in OutputSessions |-> <<>>]
  /\ recorded = 0 /\ clears = 0
  /\ own = [s \in OutputSessions |-> <<>>] /\ moved = FALSE

-----------------------------------------------------------------------------
\* record
RecordOutput(s) ==
  /\ recorded < MaxOutputs /\ recorded' = recorded + 1
  /\ outputs' = Append(outputs, <<s, recorded'>>)
  /\ positions' = [positions EXCEPT ![s] = Append(@, Len(outputs))]
  /\ own' = [own EXCEPT ![s] = Append(@, recorded')]
  /\ UNCHANGED <<clears, moved>>

\* The numbers of a set in their order.
Ascending(S) == [n \in 1..Cardinality(S) |-> CHOOSE k \in S : Cardinality({j \in S : j < k}) = n - 1]

\* The list without the positions of a session.
Without(s) ==
  LET keep == Ascending({k \in DOMAIN outputs : (k - 1) \notin ToSet(positions[s])})
  IN [n \in DOMAIN keep |-> outputs[keep[n]]]

\* Mutant of ClearSession: the entry of the session stays.
ClearSessionKeepingEntry(s) ==
  /\ clears < MaxClears /\ clears' = clears + 1
  /\ outputs' = Without(s)
  /\ own' = [own EXCEPT ![s] = <<>>]
  /\ moved' = (moved \/ Without(s) # SubSeq(outputs, 1, Len(Without(s))))
  /\ UNCHANGED <<positions, recorded>>

\* clear_session
ClearSession(s) ==
  /\ clears < MaxClears /\ clears' = clears + 1
  /\ positions' = [positions EXCEPT ![s] = <<>>]
  /\ outputs' = Without(s)
  /\ own' = [own EXCEPT ![s] = <<>>]
  /\ moved' = (moved \/ Without(s) # SubSeq(outputs, 1, Len(Without(s))))
  /\ UNCHANGED recorded

OutputNext == \E s \in OutputSessions : RecordOutput(s) \/ ClearSession(s)

OutputSpec == OutputInit /\ [][OutputNext]_outputVars

\* get_session_outputs
SessionOutputs(s) ==
  IF \E k \in DOMAIN positions[s] : positions[s][k] >= Len(outputs) THEN IndexError
  ELSE [k \in DOMAIN positions[s] |-> outputs[positions[s][k] + 1]]

-----------------------------------------------------------------------------
OutputTypeOK ==
  /\ outputs \in Seq(OutputSessions \X (1..MaxOutputs)) /\ Len(outputs) <= recorded
  /\ positions \in [OutputSessions -> Seq(0..(MaxOutputs - 1))]
  /\ recorded \in 0..MaxOutputs /\ clears \in 0..MaxClears /\ moved \in BOOLEAN

\* A session is given exactly its own outputs, in order, however sessions
\* take turns and are cleared, as long as no clear took out an output that
\* came before one of another session.  (After one that did, a session is
\* given the outputs of others, or IndexError.)
OutputsAreOwn ==
  ~ moved => \A s \in OutputSessions :
    SessionOutputs(s) = [k \in DOMAIN own[s] |-> <<s, own[s][k]>>]
=============================================================================

---------------------------- MODULE PolicyEngine ----------------------------
(***************************************************************************)
(* The PolicyEngine (src/policy/engine.py): checks, then policies in order *)
(* of priority, decide whether an action is allowed.  A policy's patterns  *)
(* are the set of the actions that both match (re.match anchors the start  *)
(* only, so "run" matches "runner" too).                                   *)
(***************************************************************************)
EXTENDS Integers, Sequences, FiniteSets, SequencesExt

CONSTANTS
  PolicyActions, \* what is asked about
  NoOpinion,     \* a check that does not decide
  Patterns,      \* what policies may match, sets of PolicyActions
  Priorities,    \* the priorities policies may have
  MaxPolicies    \* bound: policies added

ASSUME PolicyAssumption ==
  /\ NoOpinion \notin {"allow", "deny", "ask"} /\ Priorities \subseteq Int /\ MaxPolicies \in Nat

VARIABLES
  policies,      \* _policies, in their order
  opinion,       \* what the check that was added says of each action
  addedPolicies  \* history: the policies in the order in which they were added

policyVars == <<policies, opinion, addedPolicies>>

PolicyDecisions == {"allow", "deny", "ask"}
Policies == [matches : Patterns, decision : PolicyDecisions, priority : Priorities]
NoCheck == [a \in PolicyActions |-> NoOpinion]

PolicyInit == policies = <<>> /\ opinion = NoCheck /\ addedPolicies = <<>>

\* add: append and sort by priority, highest first; the sort is stable, so the
\* new one comes after all that are not below it.
AddPolicy(p) ==
  LET ahead == {i \in DOMAIN policies : policies[i].priority >= p.priority} IN
  /\ Len(addedPolicies) < MaxPolicies
  /\ policies' = InsertAt(policies, Cardinality(ahead) + 1, p)
  /\ addedPolicies' = Append(addedPolicies, p)
  /\ UNCHANGED opinion

\* add_check, a function that decides one action and has no opinion on others.
AddCheck(a, decision) ==
  /\ opinion = NoCheck
  /\ opinion' = [opinion EXCEPT ![a] = decision]
  /\ UNCHANGED <<policies, addedPolicies>>

ClearPolicies == policies' = <<>> /\ opinion' = NoCheck /\ addedPolicies' = <<>>

\* evaluate: a check with an opinion, else the first policy that matches, else
\* allow.
Evaluate(a) ==
  LET first == SelectInSeq(policies, LAMBDA p : a \in p.matches) IN
  IF opinion[a] # NoOpinion THEN opinion[a]
  ELSE IF first > 0 THEN policies[first].decision ELSE "allow"

PolicyNext ==
  \/ \E p \in Policies : AddPolicy(p)
  \/ \E a \in PolicyActions, decision \in PolicyDecisions : AddCheck(a, decision)
  \/ ClearPolicies

PolicySpec == PolicyInit /\ [][PolicyNext]_policyVars

-----------------------------------------------------------------------------
\* The type invariant.
PolicyTypeOK ==
  /\ policies \in Seq(Policies) /\ opinion \in [PolicyActions -> PolicyDecisions \cup {NoOpinion}]
  /\ \A a \in PolicyActions : Evaluate(a) \in PolicyDecisions

\* Whatever the order in which policies were added, the one that decides has the
\* highest priority of those that match and was the first added of its priority;
\* a check goes before all of them.
HighestDecides ==
  \A a \in PolicyActions :
    LET fit == {i \in DOMAIN addedPolicies : a \in addedPolicies[i].matches}
        rank(i) == addedPolicies[i].priority
        best == {i \in fit : \A j \in fit : rank(i) > rank(j) \/ (rank(i) = rank(j) /\ i <= j)} IN
    Evaluate(a) = IF opinion[a] # NoOpinion THEN opinion[a]
                  ELSE IF fit = {} THEN "allow"
                  ELSE addedPolicies[CHOOSE i \in best : TRUE].decision
=============================================================================

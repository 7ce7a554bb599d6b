-------------------------- MODULE GenerationProofs --------------------------
(***************************************************************************)
(* Theorems about the run of an agent, about retraining and about what the *)
(* generate endpoints answer, for plans of any length, any costs and       *)
(* budget, any number of records and trainers, of turns, calls, agents and *)
(* words, and any size of a chunk.                                         *)
(***************************************************************************)
EXTENDS MCGeneration, FiniteSetTheorems, SequenceTheorems, TLAPS

-----------------------------------------------------------------------------
(***************************************************************************)
(* The plan-and-act agent.                                                 *)
(***************************************************************************)
\* A set of numbers that is not empty has a least one.
LEMMA Least ==
  ASSUME NEW S \in SUBSET Nat, S # {}
  PROVE  \E x \in S : \A y \in S : x <= y
<1> DEFINE R == OpToRel(<, Nat)
<1>1. IsWellFoundedOn(R, Nat)
  BY NatLessThanWellFounded
<1>2. \A x, y \in Nat : x < y => <<x, y>> \in R
  BY DEF OpToRel
<1> HIDE DEF R
<1>3. PICK x \in S : \A y \in S : <<y, x>> \notin R
  BY <1>1, WFMin
<1>4. \A y \in S : ~ (y < x)
  BY <1>2, <1>3
<1> QED
  BY <1>3, <1>4

\* The first step with an index that some step has.
FirstWith(i) == CHOOSE k \in DOMAIN steps :
  steps[k].index = i /\ \A m \in 1..(k - 1) : steps[m].index # i

LEMMA FirstIsThere ==
  ASSUME TypeOK, NEW i, \E k \in DOMAIN steps : steps[k].index = i
  PROVE  /\ FirstWith(i) \in DOMAIN steps /\ steps[FirstWith(i)].index = i
<1> DEFINE S == {k \in DOMAIN steps : steps[k].index = i}
<1>1. DOMAIN steps = 1..Len(steps) /\ Len(steps) \in Nat
  BY DEF TypeOK
<1>2. S \in SUBSET Nat /\ S # {}
  BY <1>1
<1>3. PICK k \in S : \A m \in S : k <= m
  BY <1>2, Least
<1>4. \A m \in 1..(k - 1) : steps[m].index # i
  BY <1>1, <1>3
<1> QED
  BY <1>3, <1>4 DEF FirstWith

\* What revise_plan makes of a reply: of steps of the old plan that are
\* completed, and of new ones.
LEMMA RevisedSteps ==
  ASSUME TypeOK, NEW p \in Plans, NEW n \in DOMAIN p
  PROVE  /\ Revised(p)[n].index = p[n] /\ Revised(p)[n] \in Step
         /\ \/ Revised(p)[n] = Pending(p[n])
            \/ /\ FirstWith(p[n]) \in DOMAIN steps
               /\ Revised(p)[n] = steps[FirstWith(p[n])]
               /\ steps[FirstWith(p[n])].status = "completed"
<1>1. p[n] \in Indices /\ DOMAIN Revised(p) = DOMAIN p
  BY DEF Plans, Revised
<1>2. CASE (\E k \in DOMAIN steps : steps[k].index = p[n])
             /\ steps[FirstWith(p[n])].status = "completed"
  <2>1. Revised(p)[n] = steps[FirstWith(p[n])]
    BY <1>2 DEF Revised, FirstWith
  <2>2. FirstWith(p[n]) \in DOMAIN steps /\ steps[FirstWith(p[n])].index = p[n]
    BY <1>2, FirstIsThere
  <2>3. steps[FirstWith(p[n])] \in Step
    BY <2>2 DEF TypeOK
  <2> QED
    BY <2>1, <2>2, <2>3, <1>2
<1>3. CASE ~ ((\E k \in DOMAIN steps : steps[k].index = p[n])
                /\ steps[FirstWith(p[n])].status = "completed")
  <2>1. Revised(p)[n] = Pending(p[n])
    BY <1>3 DEF Revised, FirstWith
  <2> QED
    BY <2>1, <1>1 DEF Pending, Step
<1> QED
  BY <1>2, <1>3

LEMMA PlansAreLists ==
  ASSUME TypeOK, NEW p \in Plans
  PROVE  /\ p \in Seq(Indices) /\ Len(p) \in 0..MaxLen /\ DOMAIN p = 1..Len(p)
         /\ Revised(p) \in Seq(Step) /\ Len(Revised(p)) = Len(p)
         /\ [i \in DOMAIN p |-> Pending(p[i])] \in Seq(Step)
         /\ Len([i \in DOMAIN p |-> Pending(p[i])]) = Len(p)
<1>1. PICK n \in 0..MaxLen : p \in [1..n -> Indices]
  BY DEF Plans
<1>2. n \in Nat /\ p \in Seq(Indices) /\ Len(p) = n /\ DOMAIN p = 1..n
  BY <1>1, AgentAssumption
<1>3. Revised(p) \in [1..n -> Step]
  <2>1. DOMAIN Revised(p) = 1..n /\ Revised(p) = [i \in 1..n |-> Revised(p)[i]]
    BY <1>2 DEF Revised
  <2> QED
    BY <1>2, <2>1, RevisedSteps
<1>4. [i \in DOMAIN p |-> Pending(p[i])] \in [1..n -> Step]
  BY <1>1, <1>2 DEF Pending, Step
<1> QED
  BY <1>2, <1>3, <1>4

\* Type correctness of the run, for any plans the model returns.
LEMMA AgentTypesInitially == Init => TypeOK
  BY AgentAssumption DEF Init, TypeOK

LEMMA AgentTypesStep == TypeOK /\ [Next]_vars => TypeOK'
<1> USE AgentAssumption
<1> SUFFICES ASSUME TypeOK, [Next]_vars PROVE TypeOK'
  OBVIOUS
<1>1. CASE CreatePlan
  <2>1. PICK p \in Plans : steps' = [i \in DOMAIN p |-> Pending(p[i])]
    BY <1>1 DEF CreatePlan
  <2>2. steps' \in Seq(Step) /\ Len(steps') <= MaxLen
    BY <2>1, PlansAreLists
  <2> QED
    BY <1>1, <2>2 DEF CreatePlan, TypeOK
<1>2. ASSUME NEW ok \in BOOLEAN, RunStep(ok) PROVE TypeOK'
  <2>1. /\ current \in Nat /\ current < Len(steps) /\ Len(steps) <= MaxLen
        /\ current + 1 \in 1..Len(steps) /\ steps \in Seq(Step)
    BY <1>2 DEF RunStep, LoopGoesOn, TypeOK
  <2>2. steps[current + 1] \in Step /\ steps[current + 1].index \in Indices
    <3>1. steps[current + 1] \in Step
      BY <2>1
    <3> QED
      BY <3>1 DEF Step
  <2>3. steps' \in Seq(Step) /\ Len(steps') = Len(steps)
    <3> DEFINE s == IF ok THEN "completed" ELSE "failed"
    <3>1. steps' = [steps EXCEPT ![current + 1] = [steps[current + 1] EXCEPT !.status = s]]
      BY <1>2, <2>1 DEF RunStep
    <3>2. [steps[current + 1] EXCEPT !.status = s] \in Step
      BY <2>2 DEF Step
    <3> QED
      BY <2>1, <3>1, <3>2
  <2>4. tokens' \in Nat
    BY <1>2 DEF RunStep, TypeOK
  <2>5. current' \in 0..MaxLen /\ completions' \in [Indices -> Nat]
    BY <1>2, <2>1, <2>2 DEF RunStep, TypeOK
  <2> QED
    BY <1>2, <2>1, <2>3, <2>4, <2>5 DEF RunStep, TypeOK
<1>3. CASE Revise
  <2>1. PICK p \in Plans : steps' = Revised(p)
    BY <1>3 DEF Revise
  <2>2. /\ Revised(p) \in Seq(Step) /\ Len(Revised(p)) = Len(p)
        /\ Len(p) \in 0..MaxLen
    BY PlansAreLists
  <2>3. steps' \in Seq(Step) /\ Len(steps') <= MaxLen
    BY <2>1, <2>2
  <2> QED
    BY <1>3, <2>3 DEF Revise, TypeOK
<1>4. CASE KeepPlan \/ LeaveLoop
  BY <1>4 DEF KeepPlan, LeaveLoop, TypeOK
<1>5. CASE Finish \/ Fail
  BY <1>5 DEF Finish, Fail, SetStatus, TypeOK
<1>6. CASE Interrupt \/ Delete
  BY <1>6 DEF Interrupt, Delete, TypeOK
<1>7. CASE UNCHANGED vars
  BY <1>7 DEF vars, TypeOK
<1> QED
  BY <1>1, <1>2, <1>3, <1>4, <1>5, <1>6, <1>7 DEF Next, Runner

-----------------------------------------------------------------------------
\* While the model keeps to the prompts: the steps of the plan differ, those
\* before `current` are completed and are all that was done, and the loop is
\* left, or the run finished, only where it does not go on.
Different == \A i, j \in DOMAIN steps : steps[i].index = steps[j].index => i = j

DoneBefore ==
  /\ current <= Len(steps)
  /\ \A n \in 1..current : steps[n].status = "completed"
  /\ \A n \in DOMAIN steps : n > current => steps[n].status # "completed"

CountedOnce ==
  \A i \in Indices : /\ completions[i] <= 1
                     /\ completions[i] = 1 => \E n \in 1..current : steps[n].index = i

LeftAtTheEnd ==
  /\ phase = "plan" => steps = <<>> /\ current = 0
  /\ phase = "save" => ~ LoopGoesOn
  /\ result # "none" => phase = "returned"
  /\ result = "finished" => ~ LoopGoesOn

PlanInv == prompted => Different /\ DoneBefore /\ CountedOnce /\ LeftAtTheEnd

\* A plan that keeps the steps before `current` and has no step twice.
LEMMA RevisionKeeps ==
  ASSUME TypeOK, Different, DoneBefore, NEW p \in Plans, Asked(p)
  PROVE  /\ current <= Len(Revised(p))
         /\ \A n \in 1..current : n \in DOMAIN steps /\ Revised(p)[n] = steps[n]
         /\ \A n \in DOMAIN Revised(p) : n > current => Revised(p)[n].status # "completed"
         /\ \A i, j \in DOMAIN Revised(p) : Revised(p)[i].index = Revised(p)[j].index => i = j
<1>1. /\ Len(p) \in Nat /\ current \in Nat /\ Len(steps) \in Nat /\ current <= Len(p)
      /\ current <= Len(steps) /\ DOMAIN steps = 1..Len(steps)
      /\ DOMAIN p = 1..Len(p) /\ DOMAIN Revised(p) = 1..Len(p) /\ Len(Revised(p)) = Len(p)
  <2>0. Len(p) \in 0..MaxLen /\ DOMAIN p = 1..Len(p) /\ Len(Revised(p)) = Len(p)
    BY PlansAreLists
  <2>1. Len(p) \in Nat /\ DOMAIN p = 1..Len(p) /\ Len(Revised(p)) = Len(p)
    BY <2>0, AgentAssumption
  <2>2. current \in Nat /\ Len(steps) \in Nat /\ DOMAIN steps = 1..Len(steps)
    BY AgentAssumption DEF TypeOK
  <2>3. current <= Len(p) /\ current <= Len(steps)
    BY DEF Asked, DoneBefore
  <2>4. DOMAIN Revised(p) = DOMAIN p
    BY DEF Revised
  <2> QED
    BY <2>1, <2>2, <2>3, <2>4
<1>2. ASSUME NEW n \in 1..current PROVE n \in DOMAIN steps /\ Revised(p)[n] = steps[n]
  <2>1. n \in DOMAIN steps /\ n \in DOMAIN p /\ p[n] = steps[n].index
    BY <1>1 DEF Asked
  <2>2. FirstWith(p[n]) = n
    BY <2>1, FirstIsThere DEF Different
  <2>3. steps[n].status = "completed"
    BY DEF DoneBefore
  <2> QED
    BY <2>1, <2>2, <2>3 DEF Revised, FirstWith
<1>3. ASSUME NEW n \in DOMAIN Revised(p), n > current PROVE Revised(p)[n].status # "completed"
  <2>1. n \in DOMAIN p /\ \A m \in 1..current : m \in DOMAIN p /\ p[m] # p[n] /\ p[m] = steps[m].index
    BY <1>1, <1>3 DEF Asked
  <2>2. CASE Revised(p)[n] = Pending(p[n])
    BY <2>2 DEF Pending
  <2>3. ASSUME FirstWith(p[n]) \in DOMAIN steps, Revised(p)[n] = steps[FirstWith(p[n])],
               steps[FirstWith(p[n])].status = "completed"
        PROVE  FALSE
    <3>1. FirstWith(p[n]) \in 1..current
      BY <2>3, <1>1 DEF DoneBefore
    <3>2. steps[FirstWith(p[n])].index = p[n]
      BY <2>1, <2>3, RevisedSteps
    <3> QED
      BY <2>1, <3>1, <3>2
  <2> QED
    BY <2>1, <2>2, <2>3, RevisedSteps
<1>4. ASSUME NEW i \in DOMAIN Revised(p), NEW j \in DOMAIN Revised(p),
             Revised(p)[i].index = Revised(p)[j].index
      PROVE  i = j
  <2>1. i \in DOMAIN p /\ j \in DOMAIN p /\ p[i] = p[j]
    BY <1>1, <1>4, RevisedSteps
  <2> QED
    BY <2>1 DEF Asked
<1> QED
  BY <1>1, <1>2, <1>3, <1>4

LEMMA PlanInitially == Init => PlanInv
<1> SUFFICES ASSUME Init PROVE PlanInv
  OBVIOUS
<1>1. DOMAIN steps = {} /\ Len(steps) = 0
  BY DEF Init
<1> QED
  BY <1>1 DEF Init, PlanInv, Different, DoneBefore, CountedOnce, LeftAtTheEnd

\* Steps that leave the plan and what was done of it as they are.
LEMMA PlanUntouched ==
  ASSUME PlanInv, UNCHANGED <<prompted, steps, current, completions>>, LeftAtTheEnd => LeftAtTheEnd'
  PROVE  PlanInv'
  BY DEF PlanInv, Different, DoneBefore, CountedOnce

LEMMA RunStepKeepsPlan ==
  ASSUME TypeOK, PlanInv, NEW ok \in BOOLEAN, RunStep(ok) PROVE PlanInv'
<1> SUFFICES ASSUME prompted PROVE (Different /\ DoneBefore /\ CountedOnce /\ LeftAtTheEnd)'
  BY DEF PlanInv, RunStep
<1> DEFINE s == IF ok THEN "completed" ELSE "failed"
<1>1. /\ Different /\ DoneBefore /\ CountedOnce /\ LeftAtTheEnd
  BY DEF PlanInv
<1>2. /\ current \in Nat /\ Len(steps) \in Nat /\ current < Len(steps) /\ DOMAIN steps = 1..Len(steps)
      /\ current + 1 \in DOMAIN steps /\ steps \in Seq(Step)
  BY AgentAssumption DEF RunStep, LoopGoesOn, TypeOK
<1>3. steps' = [steps EXCEPT ![current + 1] = [steps[current + 1] EXCEPT !.status = s]]
  BY <1>2 DEF RunStep
<1>4. steps[current + 1] \in [index : Indices,
        status : {"pending", "in_progress", "completed", "failed"}]
  <2>1. steps[current + 1] \in Step
    BY <1>2
  <2> QED
    BY <2>1 DEF Step
<1>5. /\ DOMAIN steps' = DOMAIN steps /\ Len(steps') = Len(steps)
      /\ steps'[current + 1].status = s
      /\ \A n \in DOMAIN steps : /\ steps'[n].index = steps[n].index
                                 /\ n # current + 1 => steps'[n] = steps[n]
  BY <1>2, <1>3, <1>4
<1>6. Different'
  BY <1>1, <1>5 DEF Different
<1>7. CASE ok
  <2>1. /\ current' = current + 1 /\ phase' = "loop" /\ s = "completed" /\ result' = result
        /\ completions' = [completions EXCEPT ![steps[current + 1].index] = @ + 1]
    BY <1>7 DEF RunStep
  <2>2. DoneBefore'
    <3>1. \A n \in 1..(current + 1) : n \in DOMAIN steps /\ (n = current + 1 \/ n \in 1..current)
      BY <1>2
    <3>2. \A n \in 1..(current + 1) : steps'[n].status = "completed"
      BY <1>1, <1>5, <2>1, <3>1 DEF DoneBefore
    <3>3. \A n \in DOMAIN steps : n > current + 1 => n > current /\ n # current + 1
      BY <1>2
    <3>4. \A n \in DOMAIN steps' : n > current + 1 => steps'[n].status # "completed"
      BY <1>1, <1>5, <3>3 DEF DoneBefore
    <3> QED
      BY <1>2, <1>5, <2>1, <3>2, <3>4 DEF DoneBefore
  <2>3. CountedOnce'
    <3> SUFFICES ASSUME NEW i \in Indices
                 PROVE  /\ completions'[i] <= 1
                        /\ completions'[i] = 1 => \E n \in 1..(current + 1) : steps'[n].index = i
      BY <2>1 DEF CountedOnce
    <3>1. CASE i = steps[current + 1].index
      <4>1. \A n \in 1..current : n \in DOMAIN steps /\ n # current + 1
        BY <1>2
      <4>2. \A n \in 1..current : steps[n].index # i
        BY <3>1, <4>1, <1>1, <1>2 DEF Different
      <4>3. completions[i] = 0 /\ completions'[i] = completions[i] + 1
        BY <3>1, <4>2, <1>1, <2>1 DEF CountedOnce, TypeOK
      <4>4. steps'[current + 1].index = i /\ current + 1 \in 1..(current + 1)
        BY <3>1, <1>2, <1>5
      <4> QED
        BY <4>3, <4>4
    <3>2. CASE i # steps[current + 1].index
      <4>1. completions'[i] = completions[i] /\ completions[i] <= 1
        BY <3>2, <2>1, <1>1 DEF TypeOK, CountedOnce
      <4>2. ASSUME completions[i] = 1 PROVE \E n \in 1..(current + 1) : steps'[n].index = i
        <5>1. PICK n \in 1..current : steps[n].index = i
          BY <4>2, <1>1 DEF CountedOnce
        <5>2. n \in DOMAIN steps /\ n \in 1..(current + 1)
          BY <1>2
        <5> QED
          BY <5>1, <5>2, <1>5
      <4> QED
        BY <4>1, <4>2
    <3> QED
      BY <3>1, <3>2
  <2>4. LeftAtTheEnd'
    BY <2>1, <1>1 DEF LeftAtTheEnd, RunStep
  <2> QED
    BY <1>6, <2>2, <2>3, <2>4
<1>8. CASE ~ ok
  <2>1. /\ UNCHANGED <<current, completions, result>> /\ phase' = "revise" /\ s = "failed"
    BY <1>8 DEF RunStep
  <2>2. \A n \in 1..current : n \in DOMAIN steps /\ n # current + 1
    BY <1>2
  <2>3. DoneBefore'
    BY <1>1, <1>2, <1>5, <2>1, <2>2 DEF DoneBefore
  <2>4. CountedOnce'
    BY <1>1, <1>5, <2>1, <2>2 DEF CountedOnce
  <2>5. LeftAtTheEnd'
    BY <2>1, <1>1 DEF LeftAtTheEnd, RunStep
  <2> QED
    BY <1>6, <2>3, <2>4, <2>5
<1> QED
  BY <1>7, <1>8

LEMMA CreatePlanKeepsPlan == ASSUME TypeOK, PlanInv, CreatePlan PROVE PlanInv'
<1> SUFFICES ASSUME prompted PROVE (Different /\ DoneBefore /\ CountedOnce /\ LeftAtTheEnd)'
  BY DEF PlanInv, CreatePlan
<1>1. PICK p \in Plans : /\ \A i, j \in DOMAIN p : p[i] = p[j] => i = j
                         /\ steps' = [i \in DOMAIN p |-> Pending(p[i])]
  BY DEF CreatePlan
<1>2. /\ current = 0 /\ current' = 0 /\ completions' = completions /\ CountedOnce /\ LeftAtTheEnd
      /\ phase' = "loop" /\ result' = result /\ phase = "plan"
  BY DEF CreatePlan, PlanInv, LeftAtTheEnd
<1>3. DOMAIN steps' = DOMAIN p /\ DOMAIN p = 1..Len(p) /\ Len(steps') = Len(p) /\ Len(p) \in Nat
  BY <1>1, PlansAreLists
<1>4. \A n \in DOMAIN steps' : steps'[n].index = p[n] /\ steps'[n].status = "pending"
  BY <1>1, <1>3 DEF Pending
<1>5. Different'
  BY <1>1, <1>3, <1>4 DEF Different
<1>6. DoneBefore'
  BY <1>2, <1>3, <1>4 DEF DoneBefore
<1>7. CountedOnce'
  BY <1>2 DEF CountedOnce
<1>8. LeftAtTheEnd'
  BY <1>2 DEF LeftAtTheEnd
<1> QED
  BY <1>5, <1>6, <1>7, <1>8

LEMMA ReviseKeepsPlan == ASSUME TypeOK, PlanInv, Revise PROVE PlanInv'
<1> SUFFICES ASSUME prompted PROVE (Different /\ DoneBefore /\ CountedOnce /\ LeftAtTheEnd)'
  BY DEF PlanInv, Revise
<1>1. PICK p \in Plans : Asked(p) /\ steps' = Revised(p)
  BY DEF Revise
<1>2. Different /\ DoneBefore /\ CountedOnce /\ LeftAtTheEnd
  BY DEF PlanInv
<1>3. /\ current <= Len(steps') /\ \A n \in 1..current : steps'[n] = steps[n]
      /\ \A n \in DOMAIN steps' : n > current => steps'[n].status # "completed"
      /\ \A i, j \in DOMAIN steps' : steps'[i].index = steps'[j].index => i = j
  BY <1>1, <1>2, RevisionKeeps
<1>4. UNCHANGED <<current, completions, result>> /\ phase' = "loop" /\ phase = "revise"
  BY DEF Revise
<1>5. Different'
  BY <1>3 DEF Different
<1>6. DoneBefore'
  BY <1>2, <1>3, <1>4 DEF DoneBefore
<1>7. CountedOnce'
  BY <1>2, <1>3, <1>4 DEF CountedOnce
<1>8. LeftAtTheEnd'
  BY <1>2, <1>4 DEF LeftAtTheEnd
<1> QED
  BY <1>5, <1>6, <1>7, <1>8

LEMMA PlanStep == TypeOK /\ PlanInv /\ [Next]_vars => PlanInv'
<1> SUFFICES ASSUME TypeOK, PlanInv, [Next]_vars PROVE PlanInv'
  OBVIOUS
<1>1. CASE CreatePlan
  BY <1>1, CreatePlanKeepsPlan
<1>2. ASSUME NEW ok \in BOOLEAN, RunStep(ok) PROVE PlanInv'
  BY <1>2, RunStepKeepsPlan
<1>3. CASE Revise
  BY <1>3, ReviseKeepsPlan
<1>4. CASE KeepPlan \/ LeaveLoop
  BY <1>4, PlanUntouched DEF KeepPlan, LeaveLoop, LeftAtTheEnd, LoopGoesOn
<1>5. CASE Finish \/ Fail
  BY <1>5, PlanUntouched DEF Finish, Fail, LeftAtTheEnd, LoopGoesOn
<1>6. CASE Interrupt \/ Delete \/ UNCHANGED vars
  BY <1>6, PlanUntouched DEF Interrupt, Delete, vars, LeftAtTheEnd, LoopGoesOn
<1> QED
  BY <1>1, <1>2, <1>3, <1>4, <1>5, <1>6 DEF Next, Runner

\* The state of a run keeps its shape, whatever plans the model returns
\* (AgentLoop.run, Planner.create_plan and revise_plan, SessionRunner.run).
THEOREM AgentTypes == Spec => []TypeOK
  BY AgentTypesInitially, AgentTypesStep, PTL DEF Spec

\* While the model keeps to the prompts, no step is completed twice and no
\* completed step is lost, however often revise_plan replaces the plan.
THEOREM NoWorkTwice == Spec => []WorkDoneOnce
<1>1. TypeOK /\ PlanInv => WorkDoneOnce
  BY DEF PlanInv, DoneBefore, CountedOnce, WorkDoneOnce
<1> QED
  BY <1>1, AgentTypesInitially, AgentTypesStep, PlanInitially, PlanStep, PTL DEF Spec

\* While the model keeps to the prompts, a run that SessionRunner.run reports
\* as finished within the budget has completed every step of its last plan.
THEOREM FinishedIsDone == Spec => []FinishedMeansDone
<1>1. TypeOK /\ PlanInv => FinishedMeansDone
  <2> SUFFICES ASSUME TypeOK, PlanInv, prompted, result = "finished", tokens < Budget,
                      NEW n \in DOMAIN steps
               PROVE  steps[n].status = "completed"
    BY DEF FinishedMeansDone
  <2>1. current >= Len(steps) /\ current \in Nat /\ Len(steps) \in Nat /\ n \in 1..Len(steps)
    BY AgentAssumption DEF PlanInv, LeftAtTheEnd, LoopGoesOn, TypeOK
  <2>2. n \in 1..current
    BY <2>1
  <2> QED
    BY <2>2 DEF PlanInv, DoneBefore
<1> QED
  BY <1>1, AgentTypesInitially, AgentTypesStep, PlanInitially, PlanStep, PTL DEF Spec

-----------------------------------------------------------------------------
(***************************************************************************)
(* Retraining.                                                             *)
(***************************************************************************)
UpTo(i, S) == {j \in S : j <= i}

\* How many of the records it counted a run is still to mark: those no other run
\* has marked, and of them those an export holds.
Wanted(t) ==
  IF trainer[t].count > overtaken[t] THEN trainer[t].count - overtaken[t] ELSE 0

Owed(t) ==
  IF trainer[t].count > Unexported(t) THEN trainer[t].count - Unexported(t) ELSE 0

\* The records a trainer can learn from: as many as it still wants; what it has
\* exported and nobody marked is among them, and every other has more than it is
\* owed up to it.
EnoughLeft(t) == Cardinality(Untrained(DomainOf[t])) >= Wanted(t)

ExportIsFirst(t) ==
  /\ trainer[t].exported \ trained \subseteq Untrained(DomainOf[t])
  /\ \A i \in Untrained(DomainOf[t]) \ trainer[t].exported :
       Cardinality(UpTo(i, Untrained(DomainOf[t]))) > Owed(t)

\* What is about to be marked: exported, but for what others took, and the
\* oldest of what was exported.
EarnedIds(t) ==
  /\ Cardinality(trainer[t].ids \ trainer[t].exported) <= Unexported(t)
  /\ \A i \in trainer[t].ids \cap trainer[t].exported,
        j \in trainer[t].exported \ (trained \cup trainer[t].ids) : i < j

TrainerOK(t) ==
  /\ trainer[t].step \in {"export", "train", "fetch"} => EnoughLeft(t)
  /\ trainer[t].step \in {"train", "fetch"} => ExportIsFirst(t)
  /\ trainer[t].step \in {"fetch", "mark"} => trainer[t].exported \subseteq learned
  /\ trainer[t].step = "mark" => EarnedIds(t)

TrainingInv == \A t \in Trainers : TrainerOK(t)

LEMMA UntrainedIsFinite ==
  ASSUME TrainingTypeOK, NEW d
  PROVE  /\ Untrained(d) \subseteq 1..Len(domain) /\ Untrained(d) \subseteq 1..MaxRecords
         /\ IsFiniteSet(Untrained(d)) /\ Cardinality(Untrained(d)) \in Nat
<1>1. Len(domain) \in Nat /\ Len(domain) <= MaxRecords /\ DOMAIN domain = 1..Len(domain)
  BY DEF TrainingTypeOK
<1>2. Untrained(d) \subseteq 1..Len(domain)
  BY <1>1 DEF Untrained, Ids
<1>3. 1..Len(domain) \subseteq 1..MaxRecords
  BY <1>1, TrainingAssumption
<1>4. IsFiniteSet(1..Len(domain))
  BY <1>1, FS_Interval
<1> QED
  BY <1>2, <1>3, <1>4, FS_Subset, FS_CardinalityType

\* Of two numbers the one with fewer elements up to it comes first.
LEMMA FewerComeFirst ==
  ASSUME NEW S \in SUBSET Nat, IsFiniteSet(S), NEW i \in S, NEW j \in S,
         Cardinality(UpTo(i, S)) < Cardinality(UpTo(j, S))
  PROVE  i < j
<1> SUFFICES ASSUME j <= i PROVE FALSE
  OBVIOUS
<1>1. UpTo(j, S) \subseteq UpTo(i, S) /\ UpTo(i, S) \subseteq S
  <2>1. \A k \in S : k \in Nat /\ (k <= j => k <= i)
    OBVIOUS
  <2> QED
    BY <2>1 DEF UpTo
<1>2. IsFiniteSet(UpTo(i, S))
  BY <1>1, FS_Subset
<1>3. /\ Cardinality(UpTo(j, S)) <= Cardinality(UpTo(i, S))
      /\ Cardinality(UpTo(j, S)) \in Nat /\ Cardinality(UpTo(i, S)) \in Nat
  BY <1>1, <1>2, FS_Subset, FS_CardinalityType
<1> QED
  BY <1>3

\* Elements with more than a and at most b elements up to them are at most b - a.
LEMMA FewBetween ==
  ASSUME NEW S \in SUBSET Nat, IsFiniteSet(S), NEW T \in SUBSET S, NEW a \in Nat, NEW b \in Nat,
         a <= b, \A i \in T : a < Cardinality(UpTo(i, S)) /\ Cardinality(UpTo(i, S)) <= b
  PROVE  Cardinality(T) <= b - a /\ Cardinality(T) \in Nat
<1> DEFINE place == [i \in T |-> Cardinality(UpTo(i, S))]
           P == (a + 1)..b
<1>1. IsFiniteSet(T) /\ Cardinality(T) \in Nat
  BY FS_Subset, FS_CardinalityType
<1>2. \A i \in S : IsFiniteSet(UpTo(i, S)) /\ Cardinality(UpTo(i, S)) \in Nat
  <2>1. \A i \in S : UpTo(i, S) \subseteq S
    BY DEF UpTo
  <2> QED
    BY <2>1, FS_Subset, FS_CardinalityType
<1>3. ASSUME NEW i \in S, NEW j \in S, i < j
      PROVE  Cardinality(UpTo(i, S)) # Cardinality(UpTo(j, S))
  <2>1. UpTo(i, S) \in SUBSET UpTo(j, S) /\ j \in UpTo(j, S) /\ j \notin UpTo(i, S)
    <3>1. j <= j /\ ~ (j <= i) /\ \A k \in S : k <= i => k <= j
      BY <1>3
    <3>2. UpTo(i, S) \subseteq UpTo(j, S)
      BY <3>1 DEF UpTo
    <3> QED
      BY <3>1, <3>2 DEF UpTo
  <2> QED
    BY <1>2, <2>1, FS_Subset
<1>4. \A i, j \in T : i # j => Cardinality(UpTo(i, S)) # Cardinality(UpTo(j, S))
  <2>1. \A i, j \in T : i # j => i < j \/ j < i
    OBVIOUS
  <2> QED
    BY <1>3, <2>1
<1>5. IsFiniteSet(P) /\ Cardinality(P) = b - a
  <2>1. a + 1 \in Int /\ b \in Int /\ (a + 1 > b => b - a = 0) /\ b - (a + 1) + 1 = b - a
    OBVIOUS
  <2> QED
    BY <2>1, FS_Interval
<1>6. place \in [T -> P]
  BY <1>2
<1>7. \A i, j \in T : i # j => place[i] # place[j]
  BY <1>4
<1> HIDE DEF place, P
<1>8. ~ (Cardinality(T) > Cardinality(P))
  BY <1>1, <1>5, <1>6, <1>7, FS_PigeonHole
<1> QED
  BY <1>1, <1>5, <1>8

\* What is left when some elements are taken out.
LEMMA WithoutSome ==
  ASSUME NEW S \in SUBSET Nat, IsFiniteSet(S), NEW K \in SUBSET S
  PROVE  /\ Cardinality(K) \in Nat /\ Cardinality(S) \in Nat
         /\ Cardinality(S \ K) = Cardinality(S) - Cardinality(K)
         /\ \A i \in S \ K :
              /\ Cardinality(UpTo(i, S \ K)) >= 1
              /\ Cardinality(UpTo(i, S \ K)) >= Cardinality(UpTo(i, S)) - Cardinality(K)
              /\ Cardinality(UpTo(i, S \ K)) \in Nat /\ Cardinality(UpTo(i, S)) \in Nat
<1>1. /\ IsFiniteSet(K) /\ Cardinality(K) \in Nat /\ Cardinality(S) \in Nat /\ S \cap K = K
      /\ IsFiniteSet(S \ K)
  BY FS_Subset, FS_CardinalityType
<1>2. Cardinality(S \ K) = Cardinality(S) - Cardinality(K)
  BY <1>1, FS_Difference
<1>3. ASSUME NEW i \in S \ K
      PROVE  /\ Cardinality(UpTo(i, S \ K)) >= 1
             /\ Cardinality(UpTo(i, S \ K)) >= Cardinality(UpTo(i, S)) - Cardinality(K)
             /\ Cardinality(UpTo(i, S \ K)) \in Nat /\ Cardinality(UpTo(i, S)) \in Nat
  <2> DEFINE A == UpTo(i, S)
             B == UpTo(i, S \ K)
  <2>1. A \subseteq S /\ B = A \ K /\ {i} \subseteq B /\ B \subseteq A
    BY DEF UpTo
  <2> HIDE DEF A, B
  <2>2. IsFiniteSet(A) /\ Cardinality(A) \in Nat
    BY <2>1, FS_Subset, FS_CardinalityType
  <2>3. IsFiniteSet(B) /\ Cardinality(B) \in Nat
    BY <2>1, <2>2, FS_Subset, FS_CardinalityType
  <2>4. Cardinality({i}) = 1 /\ Cardinality({i}) <= Cardinality(B)
    BY <2>1, <2>3, FS_Subset, FS_Singleton
  <2>5. Cardinality(A \cap K) <= Cardinality(K) /\ Cardinality(A \cap K) \in Nat
    <3>1. A \cap K \subseteq K
      OBVIOUS
    <3> QED
      BY <1>1, <3>1, FS_Subset, FS_CardinalityType
  <2>6. Cardinality(B) = Cardinality(A) - Cardinality(A \cap K)
    BY <2>1, <2>2, FS_Difference
  <2>7. Cardinality(B) >= Cardinality(A) - Cardinality(K)
    BY <1>1, <2>2, <2>3, <2>5, <2>6
  <2> QED
    BY <2>2, <2>3, <2>4, <2>7 DEF A, B
<1> QED
  BY <1>1, <1>2, <1>3

\* New elements behind all others have everything up to them, and change nothing
\* for the others.
LEMMA LaterElements ==
  ASSUME NEW S \in SUBSET Nat, NEW T \in SUBSET Nat, IsFiniteSet(T), S \subseteq T,
         \A x \in T \ S, y \in S : y < x, NEW n \in Nat, Cardinality(S) >= n
  PROVE  /\ Cardinality(T) >= n
         /\ \A i \in S : UpTo(i, T) = UpTo(i, S)
         /\ \A i \in T \ S : Cardinality(UpTo(i, T)) > n
<1>1. /\ IsFiniteSet(S) /\ Cardinality(S) <= Cardinality(T)
      /\ Cardinality(S) \in Nat /\ Cardinality(T) \in Nat
  BY FS_Subset, FS_CardinalityType
<1>2. \A i \in S : UpTo(i, T) = UpTo(i, S)
  <2>1. \A i \in S, k \in T : k <= i => k \in S
    OBVIOUS
  <2> QED
    BY <2>1 DEF UpTo
<1>3. ASSUME NEW i \in T \ S PROVE Cardinality(UpTo(i, T)) > n
  <2>1. S \cup {i} \subseteq UpTo(i, T) /\ UpTo(i, T) \subseteq T
    BY DEF UpTo
  <2>2. IsFiniteSet(UpTo(i, T)) /\ Cardinality(UpTo(i, T)) \in Nat
    BY <2>1, FS_Subset, FS_CardinalityType
  <2>3. Cardinality(S \cup {i}) = Cardinality(S) + 1
    BY <1>1, FS_AddElement
  <2>4. Cardinality(S \cup {i}) <= Cardinality(UpTo(i, T))
    BY <2>1, <2>2, FS_Subset
  <2> QED
    BY <1>1, <2>2, <2>3, <2>4
<1> QED
  BY <1>1, <1>2, <1>3

\* Type correctness: what a trainer carries are records there are.
KnownRecords ==
  \A t \in Trainers : trainer[t].exported \subseteq Ids /\ trainer[t].ids \subseteq Ids

TrainingTypes == TrainingTypeOK /\ KnownRecords

LEMMA TrainingTypesInitially == TrainingInit => TrainingTypes
<1> SUFFICES ASSUME TrainingInit PROVE TrainingTypes
  OBVIOUS
<1>1. Idle \in Frame /\ Idle.exported = {} /\ Idle.ids = {}
  BY DEF Idle, Frame
<1>2. trainer = [t \in Trainers |-> Idle] /\ overtaken = [t \in Trainers |-> 0]
      /\ domain = <<>> /\ trained = {} /\ learned = {}
  BY DEF TrainingInit
<1>3. domain \in Seq(Domains) /\ Len(domain) <= MaxRecords
  BY <1>2, TrainingAssumption
<1> QED
  BY <1>1, <1>2, <1>3 DEF TrainingTypes, TrainingTypeOK, KnownRecords

\* More records: the old ones are still there.
LEMMA RecordsAreAdded ==
  ASSUME TrainingTypes, NEW d \in Domains, Record(d) \/ RecordBatch(d)
  PROVE  /\ domain' \in Seq(Domains) /\ Len(domain') <= MaxRecords /\ Ids \subseteq Ids'
         /\ \A i \in Ids : domain'[i] = domain[i]
         /\ \A i \in Ids' \ Ids, j \in Ids : j < i
         /\ Ids = 1..Len(domain) /\ Len(domain) \in Nat
         /\ UNCHANGED <<trained, trainer, learned, overtaken>>
<1> USE TrainingAssumption
<1>1. domain \in Seq(Domains) /\ Len(domain) \in Nat /\ Ids = 1..Len(domain)
  BY DEF TrainingTypes, TrainingTypeOK, Ids
<1>2. CASE Record(d)
  <2>1. /\ domain' \in Seq(Domains) /\ Len(domain') = Len(domain) + 1 /\ Ids' = 1..(Len(domain) + 1)
        /\ \A i \in 1..Len(domain) : domain'[i] = domain[i]
    BY <1>1, <1>2 DEF Record, Ids
  <2> QED
    BY <1>1, <1>2, <2>1 DEF Record
<1>3. CASE RecordBatch(d)
  <2>1. <<d, d>> \in Seq(Domains) /\ Len(<<d, d>>) = 2
    OBVIOUS
  <2>2. /\ domain' \in Seq(Domains) /\ Len(domain') = Len(domain) + 2 /\ Ids' = 1..(Len(domain) + 2)
        /\ \A i \in 1..Len(domain) : domain'[i] = domain[i]
    BY <1>1, <1>3, <2>1 DEF RecordBatch, Ids
  <2> QED
    BY <1>1, <1>3, <2>2 DEF RecordBatch
<1> QED
  BY <1>2, <1>3

\* What a step makes of one trainer.
LEMMA TrainerFrames ==
  ASSUME TrainingTypes, NEW t \in Trainers,
         CountUntrained(t) \/ Export(t) \/ Train(t) \/ TrainFails(t) \/ FetchIds(t) \/ Mark(t) \/ Kill(t)
  PROVE  /\ trainer' \in [Trainers -> Frame] /\ domain' = domain /\ Ids' = Ids
         /\ \A u \in Trainers : u # t => trainer'[u] = trainer[u]
         /\ trainer'[t].exported \subseteq Ids /\ trainer'[t].ids \subseteq Ids
<1> USE TrainingAssumption
<1> DEFINE U == Untrained(DomainOf[t])
<1>1. /\ U \subseteq 1..MaxRecords /\ U \subseteq Ids /\ Cardinality(U) \in Nat
      /\ trainer \in [Trainers -> Frame] /\ trainer[t] \in Frame
      /\ trainer[t].exported \subseteq Ids /\ trainer[t].ids \subseteq Ids
  BY UntrainedIsFinite DEF TrainingTypes, TrainingTypeOK, KnownRecords, Untrained
<1>2. \A k : FirstOf(k, U) \subseteq 1..MaxRecords /\ FirstOf(k, U) \subseteq Ids
  BY <1>1 DEF FirstOf
<1>3. Lesser(Cardinality(U), MaxSamples) \in Nat
  BY <1>1 DEF Lesser
<1>4. domain' = domain /\ Ids' = Ids
  BY DEF CountUntrained, Export, Train, TrainFails, FetchIds, Mark, Kill, Ids
<1>5. CASE CountUntrained(t)
  <2> HIDE DEF U
  <2> QED
    BY <1>1, <1>3, <1>4, <1>5 DEF CountUntrained, Idle, Frame, U
<1>6. CASE Export(t)
  <2>1. trainer' = [trainer EXCEPT ![t] = [@ EXCEPT !.step = "train", !.exported = FirstOf(ExportLimit, U)]]
    BY <1>6 DEF Export
  <2> HIDE DEF U
  <2> QED
    BY <1>1, <1>2, <1>4, <2>1 DEF Frame
<1>7. CASE FetchIds(t)
  <2>1. trainer' = [trainer EXCEPT ![t] = [@ EXCEPT !.step = "mark", !.ids = FirstOf(trainer[t].count, U)]]
    BY <1>7 DEF FetchIds
  <2> HIDE DEF U
  <2> QED
    BY <1>1, <1>2, <1>4, <2>1 DEF Frame
<1>8. CASE Train(t)
  BY <1>8, <1>1, <1>4 DEF Train, Frame
<1>9. CASE TrainFails(t) \/ Mark(t) \/ Kill(t)
  BY <1>9, <1>1, <1>4 DEF TrainFails, Mark, Kill, Idle, Frame
<1> QED
  BY <1>5, <1>6, <1>7, <1>8, <1>9

LEMMA TrainingTypesStep == TrainingTypes /\ [TrainingNext]_trainingVars => TrainingTypes'
<1> SUFFICES ASSUME TrainingTypes, [TrainingNext]_trainingVars PROVE TrainingTypes'
  OBVIOUS
<1>1. ASSUME NEW d \in Domains, Record(d) \/ RecordBatch(d) PROVE TrainingTypes'
  <2>1. /\ domain' \in Seq(Domains) /\ Len(domain') <= MaxRecords /\ Ids \subseteq Ids'
        /\ UNCHANGED <<trained, trainer, learned, overtaken>>
    BY <1>1, RecordsAreAdded
  <2> QED
    BY <2>1 DEF TrainingTypes, TrainingTypeOK, KnownRecords
<1>2. ASSUME NEW t \in Trainers,
             CountUntrained(t) \/ Export(t) \/ Train(t) \/ TrainFails(t) \/ FetchIds(t) \/ Mark(t) \/ Kill(t)
      PROVE  TrainingTypes'
  <2>1. /\ trainer' \in [Trainers -> Frame] /\ domain' = domain /\ Ids' = Ids
        /\ \A u \in Trainers : u # t => trainer'[u] = trainer[u]
        /\ trainer'[t].exported \subseteq Ids /\ trainer'[t].ids \subseteq Ids
    BY <1>2, TrainerFrames
  <2>2. trained' \subseteq trained \cup trainer[t].ids /\ learned' \subseteq learned \cup trainer[t].exported
    BY <1>2 DEF CountUntrained, Export, Train, TrainFails, FetchIds, Mark, Kill
  <2>3. KnownRecords'
    BY <2>1 DEF TrainingTypes, KnownRecords
  <2>4. overtaken' \in [Trainers -> Nat]
    <3>1. overtaken \in [Trainers -> Nat]
      BY DEF TrainingTypes, TrainingTypeOK
    <3>2. CASE Mark(t)
      <4>1. \A u \in Trainers : Cardinality(Untrained(DomainOf[u]) \cap trainer[t].ids) \in Nat
        <5>1. \A u \in Trainers : IsFiniteSet(Untrained(DomainOf[u]))
          BY UntrainedIsFinite DEF TrainingTypes
        <5> QED
          BY <5>1, FS_Subset, FS_CardinalityType
      <4>2. overtaken' = [u \in Trainers |->
              IF u = t THEN 0
              ELSE IF trainer[u].step \in {"export", "train", "fetch"}
              THEN overtaken[u] + Cardinality(Untrained(DomainOf[u]) \cap trainer[t].ids)
              ELSE overtaken[u]]
        BY <3>2 DEF Mark
      <4> QED
        BY <3>1, <4>1, <4>2
    <3>3. CASE ~ Mark(t)
      <4>1. overtaken' = overtaken \/ overtaken' = [overtaken EXCEPT ![t] = 0]
        BY <1>2, <3>3 DEF CountUntrained, Export, Train, TrainFails, FetchIds, Kill
      <4> QED
        BY <3>1, <4>1
    <3> QED
      BY <3>2, <3>3
  <2> QED
    BY <2>1, <2>2, <2>3, <2>4 DEF TrainingTypes, TrainingTypeOK, KnownRecords
<1>3. CASE UNCHANGED trainingVars
  BY <1>3 DEF trainingVars, TrainingTypes, TrainingTypeOK, KnownRecords, Ids
<1> QED
  BY <1>1, <1>2, <1>3 DEF TrainingNext

\* The records of a domain that are not trained, after a step.
LEMMA RecordsComeLater ==
  ASSUME TrainingTypes, NEW d \in Domains, Record(d) \/ RecordBatch(d), NEW e
  PROVE  /\ Untrained(e) \subseteq Untrained(e)'
         /\ \A i \in Untrained(e)' \ Untrained(e), j \in Untrained(e) : j < i
<1>1. /\ Ids \subseteq Ids' /\ \A i \in Ids : domain'[i] = domain[i]
      /\ \A i \in Ids' \ Ids, j \in Ids : j < i
  BY RecordsAreAdded
<1>2. Ids' = DOMAIN domain'
  BY DEF Ids
<1>3. Untrained(e)' = {i \in Ids' \ trained' : e = All \/ domain'[i] = e}
  BY DEF Untrained
<1>4. Untrained(e) \subseteq Ids /\ Untrained(e)' \subseteq Ids'
  BY <1>3 DEF Untrained
<1>5. \A i \in Ids : i \in Untrained(e)' <=> i \in Untrained(e)
  <2>1. Untrained(e) = {i \in Ids \ trained : e = All \/ domain[i] = e}
    BY DEF Untrained
  <2> SUFFICES ASSUME NEW i \in Ids PROVE i \in Untrained(e)' <=> i \in Untrained(e)
    OBVIOUS
  <2>2. i \in Ids' /\ domain'[i] = domain[i]
    BY <1>1
  <2>4. trained' = trained
    BY RecordsAreAdded
  <2>3. i \in Untrained(e)' <=> i \notin trained /\ (e = All \/ domain[i] = e)
    BY <2>2, <2>4, <1>3
  <2> QED
    BY <2>1, <2>3
<1>6. Untrained(e) \subseteq Untrained(e)' /\ Untrained(e)' \ Untrained(e) \subseteq Ids' \ Ids
  BY <1>4, <1>5
<1> QED
  BY <1>1, <1>4, <1>6

-----------------------------------------------------------------------------
LEMMA TrainingInitially == TrainingInit => TrainingInv
  BY DEF TrainingInit, TrainingInv, TrainerOK, Idle

LEMMA OwedAndWanted ==
  ASSUME TrainingTypes, NEW t \in Trainers
  PROVE  /\ trainer[t].count \in Nat /\ overtaken[t] \in Nat /\ Unexported(t) \in Nat
         /\ Owed(t) \in Nat /\ Wanted(t) \in Nat /\ Owed(t) <= Wanted(t)
         /\ Owed(t) <= trainer[t].count /\ trainer[t].count - Owed(t) <= Unexported(t)
<1>1. trainer[t].count \in Nat /\ overtaken[t] \in Nat
  BY DEF TrainingTypes, TrainingTypeOK, Frame
<1>2. Unexported(t) \in Nat /\ overtaken[t] <= Unexported(t)
  BY <1>1, TrainingAssumption DEF Unexported
<1> QED
  BY <1>1, <1>2 DEF Owed, Wanted

\* What a run is owed depends on its count and on what overtook it.
LEMMA OwedIsKept ==
  ASSUME NEW t \in Trainers, trainer'[t].count = trainer[t].count, overtaken'[t] = overtaken[t]
  PROVE  Unexported(t)' = Unexported(t) /\ Owed(t)' = Owed(t) /\ Wanted(t)' = Wanted(t)
  BY DEF Unexported, Owed, Wanted

LEMMA RecordKeeps ==
  ASSUME TrainingTypes, TrainingInv, NEW d \in Domains, Record(d) \/ RecordBatch(d)
  PROVE  TrainingInv'
<1>1. /\ Ids \subseteq Ids' /\ \A i \in Ids : domain'[i] = domain[i]
      /\ UNCHANGED <<trained, trainer, learned, overtaken>>
  BY RecordsAreAdded
<1>2. TrainingTypeOK /\ TrainingTypeOK'
  BY TrainingTypesStep DEF TrainingTypes, TrainingNext
<1>3. ASSUME NEW t \in Trainers PROVE TrainerOK(t)'
  <2> DEFINE U == Untrained(DomainOf[t])
             n == Wanted(t)
  <2>1. /\ U \subseteq U' /\ \A x \in U' \ U, y \in U : y < x
    BY RecordsComeLater
  <2>2. U \subseteq 1..MaxRecords
    BY <1>2, UntrainedIsFinite
  <2>3. U' \subseteq 1..MaxRecords /\ IsFiniteSet(U')
    <3>1. /\ U' \subseteq Ids' /\ Ids' = 1..Len(domain') /\ Len(domain') \in Nat
          /\ Len(domain') <= MaxRecords
      BY <1>2 DEF TrainingTypeOK, Untrained, Ids
    <3>2. IsFiniteSet(Ids') /\ Ids' \subseteq 1..MaxRecords
      BY <3>1, TrainingAssumption, FS_Interval
    <3> QED
      BY <3>1, <3>2, FS_Subset
  <2>4. /\ n \in Nat /\ Owed(t) \in Nat /\ Owed(t) <= n /\ trainer'[t] = trainer[t]
        /\ overtaken'[t] = overtaken[t]
    BY <1>1, OwedAndWanted
  <2>5. Unexported(t)' = Unexported(t) /\ Owed(t)' = Owed(t) /\ Wanted(t)' = n
    BY <2>4, OwedIsKept
  <2> DEFINE V == U'
  <2> HIDE DEF V
  <2>6. ASSUME EnoughLeft(t)
        PROVE  /\ Cardinality(V) >= n
               /\ \A i \in U : UpTo(i, V) = UpTo(i, U)
               /\ \A i \in V \ U : Cardinality(UpTo(i, V)) > n
    <3>1. U \in SUBSET Nat /\ V \in SUBSET Nat /\ IsFiniteSet(V) /\ U \subseteq V
          /\ \A x \in V \ U, y \in U : y < x
      BY <2>1, <2>2, <2>3 DEF V
    <3>2. Cardinality(U) >= n
      BY <2>6 DEF EnoughLeft
    <3> HIDE DEF U, n
    <3> QED
      BY <2>4, <3>1, <3>2, LaterElements DEF n
  <2>7. EnoughLeft(t) => EnoughLeft(t)'
    BY <2>5, <2>6 DEF EnoughLeft, V
  <2>8. EnoughLeft(t) /\ ExportIsFirst(t) => ExportIsFirst(t)'
    <3> SUFFICES ASSUME EnoughLeft(t), ExportIsFirst(t), NEW i \in V \ trainer[t].exported
                 PROVE  /\ trainer[t].exported \ trained \subseteq V
                        /\ Cardinality(UpTo(i, V)) > Owed(t)
      BY <1>1, <2>1, <2>4, <2>5 DEF ExportIsFirst, V
    <3>1. trainer[t].exported \ trained \subseteq U
      BY DEF ExportIsFirst
    <3>2. i \in U => Cardinality(UpTo(i, V)) > Owed(t)
      BY <2>6 DEF ExportIsFirst
    <3>3. i \notin U => Cardinality(UpTo(i, V)) > Owed(t)
      <4>1. IsFiniteSet(UpTo(i, V))
        <5>1. UpTo(i, V) \subseteq V
          BY DEF UpTo
        <5> QED
          BY <2>3, <5>1, FS_Subset DEF V
      <4>2. Cardinality(UpTo(i, V)) \in Nat
        BY <4>1, FS_CardinalityType
      <4>3. i \notin U => Cardinality(UpTo(i, V)) > n
        BY <2>6
      <4> HIDE DEF n
      <4> QED
        BY <2>4, <4>2, <4>3
    <3> QED
      BY <2>1, <3>1, <3>2, <3>3 DEF V
  <2>9. EarnedIds(t) => EarnedIds(t)'
    BY <1>1, <2>4, <2>5 DEF EarnedIds
  <2> QED
    BY <1>1, <2>4, <2>7, <2>8, <2>9 DEF TrainerOK, TrainingInv
<1> QED
  BY <1>3 DEF TrainingInv

\* A trainer whose own frame and records a step leaves alone.
LEMMA OthersKeep ==
  ASSUME TrainingTypes, TrainingInv, NEW t \in Trainers, trainer'[t] = trainer[t],
         overtaken'[t] = overtaken[t], domain' = domain,
         Untrained(DomainOf[t])' = Untrained(DomainOf[t]),
         learned \subseteq learned', trained' = trained
  PROVE  TrainerOK(t)'
<1>1. TrainerOK(t)
  BY DEF TrainingInv
<1>2. Unexported(t)' = Unexported(t) /\ Owed(t)' = Owed(t) /\ Wanted(t)' = Wanted(t)
  BY OwedIsKept
<1>3. EnoughLeft(t) => EnoughLeft(t)'
  BY <1>2 DEF EnoughLeft
<1>4. ExportIsFirst(t) => ExportIsFirst(t)'
  BY <1>2 DEF ExportIsFirst
<1>5. EarnedIds(t) => EarnedIds(t)'
  BY <1>2 DEF EarnedIds
<1> QED
  BY <1>1, <1>3, <1>4, <1>5 DEF TrainerOK

LEMMA CountKeeps ==
  ASSUME TrainingTypes, TrainingInv, NEW t \in Trainers, CountUntrained(t)
  PROVE  TrainerOK(t)'
<1> USE TrainingAssumption
<1> DEFINE n == Cardinality(Untrained(DomainOf[t]))
<1>1. /\ trainer'[t] = [Idle EXCEPT !.step = "export", !.count = Lesser(n, MaxSamples)]
      /\ UNCHANGED <<domain, trained, learned, overtaken>>
  BY DEF CountUntrained, TrainingTypes, TrainingTypeOK
<1>2. n \in Nat /\ overtaken[t] \in Nat
  BY UntrainedIsFinite, OwedAndWanted DEF TrainingTypes
<1> HIDE DEF n
<1>3. /\ trainer'[t].step = "export" /\ trainer'[t].count = Lesser(n, MaxSamples)
      /\ Lesser(n, MaxSamples) \in Nat /\ Lesser(n, MaxSamples) <= n
  BY <1>1, <1>2 DEF Idle, Lesser
<1>4. Untrained(DomainOf[t])' = Untrained(DomainOf[t])
  BY <1>1 DEF Untrained, Ids
<1>5. Wanted(t)' <= n
  BY <1>1, <1>2, <1>3 DEF Wanted
<1>6. EnoughLeft(t)'
  BY <1>4, <1>5, <1>2 DEF EnoughLeft, n
<1> QED
  BY <1>3, <1>6 DEF TrainerOK

LEMMA ExportKeeps ==
  ASSUME TrainingTypes, TrainingInv, NEW t \in Trainers, Export(t)
  PROVE  TrainerOK(t)'
<1> USE TrainingAssumption
<1> DEFINE U == Untrained(DomainOf[t])
           n == trainer[t].count
<1>1. /\ trainer'[t] = [trainer[t] EXCEPT !.step = "train", !.exported = FirstOf(ExportLimit, U)]
      /\ UNCHANGED <<domain, trained, learned, overtaken>> /\ trainer[t].step = "export"
  BY DEF Export, TrainingTypes, TrainingTypeOK
<1>2. trainer[t] \in Frame /\ n \in Nat /\ overtaken[t] \in Nat /\ Owed(t) \in Nat
  BY OwedAndWanted DEF TrainingTypes, TrainingTypeOK
<1>3. EnoughLeft(t)
  BY <1>1 DEF TrainingInv, TrainerOK
<1>4. U' = U /\ U \subseteq 1..MaxRecords /\ IsFiniteSet(U)
  BY <1>1, UntrainedIsFinite DEF Untrained, Ids, TrainingTypes
<1> HIDE DEF U
<1>5. /\ trainer'[t].step = "train" /\ trainer'[t].count = n
      /\ trainer'[t].exported = FirstOf(ExportLimit, U)
  BY <1>1, <1>2 DEF Frame
<1>6. Unexported(t)' = Unexported(t) /\ Owed(t)' = Owed(t) /\ Wanted(t)' = Wanted(t)
  BY <1>1, <1>5, OwedIsKept
<1>7. EnoughLeft(t)'
  BY <1>3, <1>4, <1>6 DEF EnoughLeft, U
<1>8. Owed(t) <= ExportLimit
  BY <1>2 DEF Owed, Unexported
<1>9. ASSUME NEW i \in U \ FirstOf(ExportLimit, U) PROVE Cardinality(UpTo(i, U)) > Owed(t)
  <2>1. UpTo(i, U) \subseteq U /\ ~ (Cardinality(UpTo(i, U)) <= ExportLimit)
    BY <1>9 DEF FirstOf, UpTo
  <2>2. Cardinality(UpTo(i, U)) \in Nat
    BY <1>4, <2>1, FS_Subset, FS_CardinalityType
  <2> QED
    BY <1>2, <1>8, <2>1, <2>2
<1>10. ExportIsFirst(t)'
  BY <1>4, <1>5, <1>6, <1>9 DEF ExportIsFirst, FirstOf, U
<1> QED
  BY <1>5, <1>7, <1>10 DEF TrainerOK

LEMMA TrainKeeps ==
  ASSUME TrainingTypes, TrainingInv, NEW t \in Trainers, Train(t)
  PROVE  TrainerOK(t)'
<1>1. /\ trainer'[t] = [trainer[t] EXCEPT !.step = "fetch"] /\ trainer[t].step = "train"
      /\ UNCHANGED <<domain, trained, overtaken>> /\ learned' = learned \cup trainer[t].exported
      /\ trainer[t] \in Frame
  BY DEF Train, TrainingTypes, TrainingTypeOK
<1>2. /\ trainer'[t].step = "fetch" /\ trainer'[t].count = trainer[t].count
      /\ trainer'[t].exported = trainer[t].exported
  BY <1>1 DEF Frame
<1>3. EnoughLeft(t) /\ ExportIsFirst(t)
  BY <1>1 DEF TrainingInv, TrainerOK
<1>4. Untrained(DomainOf[t])' = Untrained(DomainOf[t])
  BY <1>1 DEF Untrained, Ids
<1>5. Unexported(t)' = Unexported(t) /\ Owed(t)' = Owed(t) /\ Wanted(t)' = Wanted(t)
  BY <1>1, <1>2, OwedIsKept
<1>6. EnoughLeft(t)' /\ ExportIsFirst(t)'
  BY <1>1, <1>2, <1>3, <1>4, <1>5 DEF EnoughLeft, ExportIsFirst
<1> QED
  BY <1>1, <1>2, <1>6 DEF TrainerOK

\* What is fetched after training was exported before it, although new records
\* came in between: those have more records up to them than the run is owed, and
\* no more than it counted.
LEMMA FetchKeeps ==
  ASSUME TrainingTypes, TrainingInv, NEW t \in Trainers, FetchIds(t)
  PROVE  TrainerOK(t)'
<1> DEFINE U == Untrained(DomainOf[t])
           n == trainer[t].count
           exported == trainer[t].exported
<1>1. /\ trainer'[t] = [trainer[t] EXCEPT !.step = "mark", !.ids = FirstOf(n, U)]
      /\ UNCHANGED <<domain, trained, learned, overtaken>> /\ trainer[t].step = "fetch"
      /\ trainer[t] \in Frame
  BY DEF FetchIds, TrainingTypes, TrainingTypeOK
<1>2. /\ n \in Nat /\ Owed(t) \in Nat /\ Unexported(t) \in Nat
      /\ Owed(t) <= n /\ n - Owed(t) <= Unexported(t)
  BY OwedAndWanted
<1>3. /\ exported \ trained \subseteq U /\ exported \subseteq learned
      /\ \A i \in U \ exported : Cardinality(UpTo(i, U)) > Owed(t)
  BY <1>1 DEF TrainingInv, TrainerOK, ExportIsFirst
<1>4. U \subseteq 1..MaxRecords /\ IsFiniteSet(U)
  BY UntrainedIsFinite DEF TrainingTypes
<1> HIDE DEF U
<1>5. U \in SUBSET Nat
  BY <1>4
<1>6. /\ trainer'[t].step = "mark" /\ trainer'[t].count = n
      /\ trainer'[t].exported = exported /\ trainer'[t].ids = FirstOf(n, U)
  BY <1>1 DEF Frame
<1>7. \A i \in U : Cardinality(UpTo(i, U)) \in Nat
  <2>1. \A i \in U : UpTo(i, U) \subseteq U
    BY DEF UpTo
  <2> QED
    BY <1>4, <2>1, FS_Subset, FS_CardinalityType
<1>8. \A i \in U : i \in FirstOf(n, U) <=> Cardinality(UpTo(i, U)) <= n
  BY DEF FirstOf, UpTo
<1>9. FirstOf(n, U) \subseteq U
  BY DEF FirstOf
<1>10. Cardinality(FirstOf(n, U) \ exported) <= Unexported(t)
  <2> DEFINE T == FirstOf(n, U) \ exported
  <2>1. T \in SUBSET U
    BY <1>9
  <2>2. \A i \in T : Owed(t) < Cardinality(UpTo(i, U)) /\ Cardinality(UpTo(i, U)) <= n
    BY <1>2, <1>3, <1>7, <1>8, <1>9
  <2> HIDE DEF T, n
  <2>3. Cardinality(T) <= n - Owed(t) /\ Cardinality(T) \in Nat
    BY <1>2, <1>4, <1>5, <2>1, <2>2, FewBetween
  <2>4. Cardinality(T) <= Unexported(t)
    BY <1>2, <2>3
  <2> QED
    BY <2>4 DEF T
<1>11. ASSUME NEW i \in FirstOf(n, U), NEW j \in exported \ (trained \cup FirstOf(n, U)) PROVE i < j
  <2>1. i \in U /\ j \in U
    BY <1>3, <1>9
  <2>2. Cardinality(UpTo(i, U)) < Cardinality(UpTo(j, U))
    BY <2>1, <1>2, <1>7, <1>8
  <2> QED
    BY <2>1, <2>2, <1>4, <1>5, FewerComeFirst
<1>12. Unexported(t)' = Unexported(t)
  BY <1>1, <1>6, OwedIsKept
<1>13. EarnedIds(t)'
  BY <1>1, <1>6, <1>10, <1>11, <1>12 DEF EarnedIds
<1> QED
  BY <1>1, <1>3, <1>6, <1>13 DEF TrainerOK

\* A run that another one overtakes: it is owed as many records less as the other
\* marks of those it could have learned from.
LEMMA MarkOvertakes ==
  ASSUME TrainingTypes, TrainingInv, NEW t \in Trainers, Mark(t),
         NEW u \in Trainers, u # t, trainer[u].step \in {"export", "train", "fetch"}
  PROVE  TrainerOK(u)'
<1> DEFINE U == Untrained(DomainOf[u])
           K == U \cap trainer[t].ids
           c == Cardinality(K)
<1>1. /\ trainer'[u] = trainer[u] /\ domain' = domain /\ learned' = learned
      /\ trained' = trained \cup trainer[t].ids
  BY TrainerFrames DEF Mark
<1>2. overtaken'[u] = overtaken[u] + c
  BY DEF Mark
<1>3. U' = U \ K
  BY <1>1 DEF Untrained, Ids
<1>4. U \in SUBSET Nat /\ IsFiniteSet(U) /\ K \in SUBSET U
  BY UntrainedIsFinite DEF TrainingTypes
<1> HIDE DEF U, K
<1>5. /\ c \in Nat /\ Cardinality(U) \in Nat /\ Cardinality(U') = Cardinality(U) - c
      /\ \A i \in U' :
           /\ Cardinality(UpTo(i, U')) >= 1
           /\ Cardinality(UpTo(i, U')) >= Cardinality(UpTo(i, U)) - c
           /\ Cardinality(UpTo(i, U')) \in Nat /\ Cardinality(UpTo(i, U)) \in Nat
  BY <1>3, <1>4, WithoutSome
<1>6. /\ trainer[u].count \in Nat /\ overtaken[u] \in Nat /\ Unexported(u) \in Nat
      /\ Owed(u) \in Nat /\ Wanted(u) \in Nat
  BY OwedAndWanted
<1> HIDE DEF c
<1>7. Unexported(u)' = Unexported(u) + c
  BY <1>1, <1>2, <1>5, <1>6, TrainingAssumption DEF Unexported
<1>8. Owed(u)' \in Nat /\ (Owed(u)' = 0 \/ Owed(u)' = Owed(u) - c)
  BY <1>1, <1>5, <1>6, <1>7 DEF Owed
<1>9. Wanted(u)' \in Nat /\ (Wanted(u)' = 0 \/ Wanted(u)' = Wanted(u) - c)
  BY <1>1, <1>2, <1>5, <1>6 DEF Wanted
<1>10. EnoughLeft(u) /\ (trainer[u].step \in {"train", "fetch"} => ExportIsFirst(u))
       /\ (trainer[u].step = "fetch" => trainer[u].exported \subseteq learned)
  BY DEF TrainingInv, TrainerOK
<1>11. EnoughLeft(u)'
  <2>1. Cardinality(U) >= Wanted(u)
    BY <1>10 DEF EnoughLeft, U
  <2>2. Cardinality(U') \in Nat
    BY <1>3, <1>4, FS_Subset, FS_CardinalityType
  <2>3. Cardinality(U') >= Wanted(u)'
    BY <1>5, <1>6, <1>9, <2>1, <2>2
  <2> QED
    BY <2>3 DEF EnoughLeft, U
<1>12. ExportIsFirst(u) => ExportIsFirst(u)'
  <2> SUFFICES ASSUME ExportIsFirst(u) PROVE ExportIsFirst(u)'
    OBVIOUS
  <2>1. trainer[u].exported \ trained \subseteq U
    BY DEF ExportIsFirst, U
  <2>2. trainer[u].exported \ trained' \subseteq U'
    BY <1>1, <1>3, <2>1 DEF K
  <2>3. ASSUME NEW i \in U' \ trainer[u].exported PROVE Cardinality(UpTo(i, U')) > Owed(u)'
    <3>1. i \in U /\ Cardinality(UpTo(i, U)) > Owed(u)
      BY <1>3 DEF ExportIsFirst, U
    <3> QED
      BY <1>5, <1>6, <1>8, <3>1
  <2>4. \A i \in Untrained(DomainOf[u])' \ trainer[u].exported :
          Cardinality(UpTo(i, Untrained(DomainOf[u])')) > Owed(u)'
    BY <2>3 DEF U
  <2> QED
    BY <1>1, <2>2, <2>4 DEF ExportIsFirst, U
<1> QED
  BY <1>1, <1>10, <1>11, <1>12 DEF TrainerOK

LEMMA MarkKeeps ==
  ASSUME TrainingTypes, TrainingInv, NEW t \in Trainers, Mark(t), NEW u \in Trainers
  PROVE  TrainerOK(u)'
<1>1. /\ trained' = trained \cup trainer[t].ids /\ learned' = learned
      /\ trainer'[t].step = "idle" /\ trainer[t].step = "mark"
  BY DEF Mark, Idle, TrainingTypes, TrainingTypeOK
<1>2. CASE u = t
  BY <1>1, <1>2 DEF TrainerOK
<1>3. CASE u # t /\ trainer[u].step \in {"export", "train", "fetch"}
  BY <1>3, MarkOvertakes
<1>4. CASE u # t /\ trainer[u].step \notin {"export", "train", "fetch"}
  <2>1. trainer'[u] = trainer[u] /\ overtaken'[u] = overtaken[u]
    BY <1>4, TrainerFrames DEF Mark
  <2>2. Unexported(u)' = Unexported(u)
    BY <2>1, OwedIsKept
  <2>3. EarnedIds(u) => EarnedIds(u)'
    BY <1>1, <2>1, <2>2 DEF EarnedIds
  <2> QED
    BY <1>1, <1>4, <2>1, <2>3 DEF TrainerOK, TrainingInv
<1> QED
  BY <1>2, <1>3, <1>4

LEMMA TrainingStep == TrainingTypes /\ TrainingInv /\ [TrainingNext]_trainingVars => TrainingInv'
<1> SUFFICES ASSUME TrainingTypes, TrainingInv, [TrainingNext]_trainingVars PROVE TrainingInv'
  OBVIOUS
<1>1. ASSUME NEW d \in Domains, Record(d) \/ RecordBatch(d) PROVE TrainingInv'
  BY <1>1, RecordKeeps
<1>2. ASSUME NEW t \in Trainers,
             CountUntrained(t) \/ Export(t) \/ FetchIds(t) \/ Train(t) \/ TrainFails(t) \/ Kill(t)
      PROVE  TrainingInv'
  <2>1. UNCHANGED <<domain, trained>> /\ learned \subseteq learned' /\ \A e : Untrained(e)' = Untrained(e)
    BY <1>2 DEF CountUntrained, Export, FetchIds, Train, TrainFails, Kill, Untrained, Ids
  <2>2. \A u \in Trainers : u # t => trainer'[u] = trainer[u] /\ overtaken'[u] = overtaken[u]
    <3>1. overtaken' = overtaken \/ overtaken' = [overtaken EXCEPT ![t] = 0]
      BY <1>2 DEF CountUntrained, Export, FetchIds, Train, TrainFails, Kill
    <3>2. overtaken \in [Trainers -> Nat]
      BY DEF TrainingTypes, TrainingTypeOK
    <3> QED
      BY <1>2, <3>1, <3>2, TrainerFrames
  <2>3. \A u \in Trainers : u # t => TrainerOK(u)'
    BY <2>1, <2>2, OthersKeep
  <2>4. TrainFails(t) \/ Kill(t) => TrainerOK(t)'
    <3>1. TrainFails(t) \/ Kill(t) => trainer'[t].step = "idle"
      BY DEF TrainFails, Kill, Idle, TrainingTypes, TrainingTypeOK
    <3> QED
      BY <3>1 DEF TrainerOK
  <2>5. TrainerOK(t)'
    BY <1>2, <2>4, CountKeeps, ExportKeeps, FetchKeeps, TrainKeeps
  <2> QED
    BY <2>3, <2>5 DEF TrainingInv
<1>3. ASSUME NEW t \in Trainers, Mark(t) PROVE TrainingInv'
  BY <1>3, MarkKeeps DEF TrainingInv
<1>4. CASE UNCHANGED trainingVars
  <2>1. UNCHANGED <<domain, trained, trainer, learned, overtaken>>
    BY <1>4 DEF trainingVars
  <2> QED
    BY <2>1, OthersKeep DEF TrainingInv, Untrained, Ids
<1> QED
  BY <1>1, <1>2, <1>3, <1>4 DEF TrainingNext

\* The feedback table and what trainers carry keep their shapes, however many
\* trainers run over one domain and are killed (run_continuous_training).
THEOREM RetrainingTypes == TrainingSpec => []TrainingTypeOK
<1>1. TrainingTypes => TrainingTypeOK
  BY DEF TrainingTypes
<1> QED
  BY <1>1, TrainingTypesInitially, TrainingTypesStep, PTL DEF TrainingSpec

\* However many trainers share the records, whatever is recorded while they train
\* and wherever they are killed: a run marks what it trained on, of that the oldest,
\* and besides only as many records as others marked of its own meanwhile or as it
\* counted beyond an export (fetch_untrained(limit=count) after the training run).
THEOREM OnlyLearnedIsMarked == TrainingSpec => []MarksAreEarned
<1>1. TrainingTypes /\ TrainingInv => MarksAreEarned
  BY DEF TrainingInv, TrainerOK, EarnedIds, MarksAreEarned, MarksOldestFirst, MarkedWereLearned
<1> QED
  BY <1>1, TrainingTypesInitially, TrainingTypesStep, TrainingInitially, TrainingStep, PTL
     DEF TrainingSpec

-----------------------------------------------------------------------------
(***************************************************************************)
(* Positions and ranks.                                                    *)
(***************************************************************************)
\* How many elements of a set of numbers there are before one of them.
Rank(S, k) == Cardinality({j \in S : j < k})

LEMMA RanksDiffer ==
  ASSUME NEW S \in SUBSET Nat, IsFiniteSet(S)
  PROVE  /\ \A k \in S : Rank(S, k) \in 0..(Cardinality(S) - 1)
         /\ \A k, l \in S : Rank(S, k) = Rank(S, l) => k = l
<1>0. Cardinality(S) \in Nat
  BY FS_CardinalityType
<1>1. ASSUME NEW k \in S PROVE Rank(S, k) \in 0..(Cardinality(S) - 1) /\ IsFiniteSet({j \in S : j < k})
  <2>1. {j \in S : j < k} \in SUBSET (S \ {k})
    OBVIOUS
  <2>2. IsFiniteSet(S \ {k}) /\ Cardinality(S \ {k}) = Cardinality(S) - 1
    BY FS_RemoveElement
  <2> DEFINE below == {j \in S : j < k}
             others == S \ {k}
  <2> HIDE DEF below, others
  <2>3. IsFiniteSet(below) /\ Cardinality(below) <= Cardinality(others)
    BY <2>1, <2>2, FS_Subset DEF below, others
  <2>4. Cardinality(below) \in Nat
    BY <2>3, FS_CardinalityType
  <2>5. Cardinality(others) = Cardinality(S) - 1
    BY <2>2 DEF others
  <2>6. Cardinality(below) \in 0..(Cardinality(S) - 1)
    BY <1>0, <2>3, <2>4, <2>5
  <2> QED
    BY <2>3, <2>6 DEF Rank, below
<1>2. ASSUME NEW k \in S, NEW l \in S, k < l PROVE Rank(S, k) # Rank(S, l)
  <2>1. {j \in S : j < k} \in SUBSET {j \in S : j < l}
    <3>1. \A j \in S : j < k => j < l
      BY <1>2
    <3> QED
      BY <3>1
  <2>2. k \in {j \in S : j < l} /\ k \notin {j \in S : j < k}
    BY <1>2
  <2> QED
    BY <1>1, <2>1, <2>2, FS_Subset DEF Rank
<1>3. ASSUME NEW k \in S, NEW l \in S, Rank(S, k) = Rank(S, l) PROVE k = l
  <2>1. k < l \/ l < k \/ k = l
    OBVIOUS
  <2> QED
    BY <1>2, <1>3, <2>1
<1> QED
  BY <1>1, <1>3

\* Every number of predecessors is that of an element.
LEMMA RanksAreAll ==
  ASSUME NEW S \in SUBSET Nat, IsFiniteSet(S), NEW n \in 1..Cardinality(S)
  PROVE  \E k \in S : Rank(S, k) = n - 1
<1> DEFINE c == Cardinality(S)
           rank == [k \in S |-> Rank(S, k)]
           T == (0..(c - 1)) \ {n - 1}
<1>1. SUFFICES ASSUME \A k \in S : Rank(S, k) # n - 1 PROVE FALSE
  OBVIOUS
<1>2. c \in Nat /\ n \in Nat /\ 1 <= n /\ n <= c
  BY FS_CardinalityType
<1>3. \A k \in S : Rank(S, k) \in 0..(c - 1)
  BY RanksDiffer
<1>4. \A k, l \in S : Rank(S, k) = Rank(S, l) => k = l
  BY RanksDiffer
<1> HIDE DEF c
<1>5. IsFiniteSet(0..(c - 1)) /\ Cardinality(0..(c - 1)) = c
  <2>1. c >= 1 /\ c - 1 \in Int /\ ~ (0 > c - 1)
    BY <1>2
  <2>2. Cardinality(0..(c - 1)) = (c - 1) - 0 + 1 /\ IsFiniteSet(0..(c - 1))
    BY <2>1, FS_Interval
  <2> QED
    BY <1>2, <2>2
<1>6. IsFiniteSet(T) /\ Cardinality(T) < c
  <2> DEFINE I == 0..(c - 1)
             x == n - 1
  <2>1. IsFiniteSet(I) /\ Cardinality(I) = c /\ x \in I /\ T = I \ {x}
    BY <1>2, <1>5
  <2> HIDE DEF T, I, x
  <2>2. IsFiniteSet(T) /\ Cardinality(T) = c - 1
    BY <2>1, FS_RemoveElement
  <2> QED
    BY <1>2, <2>2
<1>7. rank \in [S -> T]
  <2>1. \A k \in S : Rank(S, k) \in T
    BY <1>1, <1>3
  <2> QED
    BY <2>1
<1> HIDE DEF rank, T
<1>8. \E k, l \in S : k # l /\ rank[k] = rank[l]
  BY <1>6, <1>7, FS_PigeonHole DEF c
<1> QED
  BY <1>4, <1>8 DEF rank

LEMMA RankedOne ==
  ASSUME NEW S \in SUBSET Nat, IsFiniteSet(S), NEW n \in 1..Cardinality(S)
  PROVE  (CHOOSE k \in S : Cardinality({j \in S : j < k}) = n - 1) \in S
<1>1. \E k \in S : Cardinality({j \in S : j < k}) = n - 1
  BY RanksAreAll DEF Rank
<1> QED
  BY <1>1

LEMMA NumbersUpTo ==
  ASSUME NEW n \in Nat PROVE IsFiniteSet(1..n) /\ Cardinality(1..n) = n
<1>1. 1 \in Int /\ n \in Int /\ (1 > n <=> n = 0) /\ n - 1 + 1 = n
  OBVIOUS
<1> QED
  BY <1>1, FS_Interval

\* The positions of a sequence.
LEMMA PositionsAreFinite ==
  ASSUME NEW n \in Nat, NEW S \in SUBSET (1..n)
  PROVE  IsFiniteSet(S) /\ Cardinality(S) \in 0..n /\ S \in SUBSET Nat
<1>1. IsFiniteSet(1..n) /\ Cardinality(1..n) = n
  BY FS_Interval
<1>2. IsFiniteSet(S) /\ Cardinality(S) <= Cardinality(1..n)
  BY <1>1, FS_Subset
<1>3. Cardinality(S) \in Nat
  BY <1>2, FS_CardinalityType
<1> QED
  BY <1>1, <1>2, <1>3

LEMMA ParsedCalls ==
  ASSUME NEW response \in BoundedSeq(Calls, MaxCalls)
  PROVE  /\ Parsed(response) \in Seq({"ok", "fails"})
         /\ Len(Parsed(response)) \in 0..MaxCalls
<1> DEFINE good == {n \in DOMAIN response : response[n] # "malformed"}
           nth(n) == CHOOSE k \in good : Cardinality({j \in good : j < k}) = n - 1
<1>1. PICK m \in 0..MaxCalls : response \in [1..m -> Calls]
  BY DEF BoundedSeq, SeqOf
<1>2. m \in Nat /\ MaxCalls \in Nat /\ m <= MaxCalls
  BY <1>1, ReActAssumption
<1>3. good \in SUBSET (1..m)
  BY <1>1
<1> HIDE DEF good
<1>4. IsFiniteSet(good) /\ Cardinality(good) \in 0..m /\ good \in SUBSET Nat
  BY <1>2, <1>3, PositionsAreFinite
<1>5. \A n \in 1..Cardinality(good) : nth(n) \in good
  BY <1>4, RankedOne
<1>6. \A k \in good : response[k] \in {"ok", "fails"}
  BY <1>1 DEF good, Calls
<1>7. Parsed(response) = [n \in 1..Cardinality(good) |-> response[nth(n)]]
  BY DEF Parsed, good
<1> HIDE DEF nth
<1>8. Parsed(response) \in [1..Cardinality(good) -> {"ok", "fails"}]
  BY <1>5, <1>6, <1>7
<1>9. Cardinality(good) \in Nat /\ Cardinality(good) <= MaxCalls
  BY <1>2, <1>4
<1>10. Parsed(response) \in Seq({"ok", "fails"}) /\ Len(Parsed(response)) = Cardinality(good)
  BY <1>8, <1>9
<1> QED
  BY <1>9, <1>10

-----------------------------------------------------------------------------
(***************************************************************************)
(* The loop of reasoning and tool calls.                                   *)
(***************************************************************************)
Spoken == {"system", "task", "response", "result", "error"}

LEMMA Joined ==
  ASSUME NEW a \in Seq(Spoken), NEW b \in Seq(Spoken)
  PROVE  /\ a \o b \in Seq(Spoken) /\ Len(a \o b) = Len(a) + Len(b)
         /\ \A k \in 1..Len(a) : (a \o b)[k] = a[k]
         /\ \A k \in 1..Len(b) : (a \o b)[Len(a) + k] = b[k]
  OBVIOUS

ReActTypes ==
  /\ reactPhase \in {"idle", "generate", "execute", "answered", "exhausted", "raised"}
  /\ calls \in Seq({"ok", "fails"}) /\ Len(calls) \in 0..MaxCalls
  /\ outcomes \in Seq({"result", "error"}) /\ Len(outcomes) <= Len(calls)
  /\ messages \in Seq(Spoken)
  /\ turns \in Seq(Nat \X Nat)
  /\ generated \in Seq(Nat) /\ Len(generated) <= MaxTurns

\* How many turns there are for the responses that were asked for.
ReActCounts ==
  /\ reactPhase = "idle" => ReActIdle
  /\ reactPhase = "raised" => turns = <<>>
  /\ reactPhase \notin {"idle", "raised"} => Len(messages) >= 2
  /\ reactPhase \in {"generate", "answered"} => Len(turns) = Len(generated)
  /\ reactPhase = "exhausted" => Len(turns) = Len(generated) + 1
  /\ reactPhase = "execute" =>
       Len(generated) = Len(turns) + 1 /\ generated[Len(generated)] = Len(calls)
  /\ reactPhase \in {"generate", "execute", "exhausted"} =>
       \A n \in DOMAIN generated : generated[n] > 0
  /\ \A n \in DOMAIN turns : turns[n] = <<0, 0>> \/ turns[n] = <<generated[n], generated[n]>>

ReActInv == ReActTypes /\ ReActCounts /\ ResultsFollowCalls

LEMMA ReActTypesInitially == ReActInit => ReActInv
<1> SUFFICES ASSUME ReActInit PROVE ReActInv
  OBVIOUS
<1>1. ReActTypes
  BY ReActAssumption DEF ReActInit, ReActIdle, ReActTypes
<1>2. ReActCounts
  BY DEF ReActInit, ReActIdle, ReActCounts
<1>3. ResultsFollowCalls
  BY DEF ReActInit, ResultsFollowCalls
<1> QED
  BY <1>1, <1>2, <1>3 DEF ReActInv

LEMMA ReActTypesStep == ReActTypes /\ ReActCounts /\ [ReActStep \/ StartRun]_reactVars => ReActTypes'
<1> SUFFICES ASSUME ReActTypes, ReActCounts, [ReActStep \/ StartRun]_reactVars PROVE ReActTypes'
  OBVIOUS
<1>1. CASE StartRun
  <2>1. <<"system", "task">> \in Seq(Spoken)
    BY DEF Spoken
  <2> QED
    BY <1>1, <2>1 DEF StartRun, ReActTypes
<1>2. ASSUME NEW response \in BoundedSeq(Calls, MaxCalls), Generate(response) PROVE ReActTypes'
  <2>1. Parsed(response) \in Seq({"ok", "fails"}) /\ Len(Parsed(response)) \in 0..MaxCalls
    BY ParsedCalls
  <2> DEFINE p == Parsed(response)
  <2>2. p \in Seq({"ok", "fails"}) /\ Len(p) \in 0..MaxCalls /\ Len(p) \in Nat
    BY <2>1
  <2>3. /\ reactPhase' = "execute" /\ calls' = p /\ outcomes' = <<>> /\ generated' = Append(generated, Len(p))
        /\ UNCHANGED <<messages, turns>> /\ Len(generated) < MaxTurns
    BY <1>2 DEF Generate
  <2> HIDE DEF p
  <2>4. generated' \in Seq(Nat) /\ Len(generated') <= MaxTurns
    BY <2>2, <2>3, ReActAssumption DEF ReActTypes
  <2>5. outcomes' \in Seq({"result", "error"}) /\ Len(outcomes') <= Len(calls')
    BY <2>2, <2>3
  <2> QED
    BY <2>2, <2>3, <2>4, <2>5 DEF ReActTypes
<1>3. ASSUME NEW response \in BoundedSeq(Calls, MaxCalls), Answer(response) PROVE ReActTypes'
  <2>1. generated' \in Seq(Nat) /\ Len(generated') <= MaxTurns
    BY <1>3, ReActAssumption DEF Answer, ReActTypes
  <2>2. <<0, 0>> \in Nat \X Nat
    OBVIOUS
  <2>3. turns' \in Seq(Nat \X Nat)
    BY <1>3, <2>2 DEF Answer, ReActTypes
  <2> QED
    BY <1>3, <2>1, <2>3 DEF Answer, ReActTypes
<1>4. CASE GenerateRaises
  BY <1>4, ReActAssumption DEF GenerateRaises, ReActTypes
<1>5. CASE ExecuteNext
  <2> DEFINE o == Execute(calls[Len(outcomes) + 1])
  <2>1. o \in {"result", "error"}
    BY DEF Execute
  <2>2. outcomes' = Append(outcomes, o) /\ Len(outcomes) < Len(calls)
        /\ UNCHANGED <<reactPhase, calls, messages, turns, generated>>
    BY <1>5 DEF ExecuteNext
  <2> HIDE DEF o
  <2>3. outcomes' \in Seq({"result", "error"}) /\ Len(outcomes') <= Len(calls)
    BY <2>1, <2>2 DEF ReActTypes
  <2> QED
    BY <2>2, <2>3 DEF ReActTypes
<1>6. CASE EndTurn
  <2>1. <<"response">> \in Seq(Spoken) /\ outcomes \in Seq(Spoken)
    BY DEF ReActTypes, Spoken
  <2>2. messages' \in Seq(Spoken)
    BY <1>6, <2>1 DEF EndTurn, ReActTypes
  <2>3. <<Len(calls), Len(outcomes)>> \in Nat \X Nat
    BY DEF ReActTypes
  <2>4. turns' \in Seq(Nat \X Nat)
    BY <1>6, <2>3 DEF EndTurn, ReActTypes
  <2> QED
    BY <1>6, <2>2, <2>4 DEF EndTurn, ReActTypes
<1>7. CASE GiveUp
  <2>1. <<0, 0>> \in Nat \X Nat
    OBVIOUS
  <2>2. turns' \in Seq(Nat \X Nat)
    BY <1>7, <2>1 DEF GiveUp, ReActTypes
  <2> QED
    BY <1>7, <2>2 DEF GiveUp, ReActTypes
<1>8. CASE UNCHANGED reactVars
  BY <1>8 DEF reactVars, ReActTypes
<1> QED
  BY <1>1, <1>2, <1>3, <1>4, <1>5, <1>6, <1>7, <1>8 DEF ReActStep

LEMMA ReActCountsStep == ReActTypes /\ ReActCounts /\ [ReActStep \/ StartRun]_reactVars => ReActCounts'
<1> SUFFICES ASSUME ReActTypes, ReActCounts, [ReActStep \/ StartRun]_reactVars PROVE ReActCounts'
  OBVIOUS
<1>0. /\ generated \in Seq(Nat) /\ Len(generated) \in Nat /\ DOMAIN generated = 1..Len(generated)
      /\ turns \in Seq(Nat \X Nat) /\ Len(turns) \in Nat /\ DOMAIN turns = 1..Len(turns)
      /\ Len(calls) \in Nat /\ Len(outcomes) \in Nat
  BY DEF ReActTypes
<1>1. CASE StartRun
  <2>1. Len(messages') >= 2
    BY <1>1 DEF StartRun
  <2> QED
    BY <1>1, <2>1 DEF StartRun, ReActCounts, ReActIdle
<1>2. ASSUME NEW response \in BoundedSeq(Calls, MaxCalls), Generate(response) PROVE ReActCounts'
  <2> DEFINE p == Parsed(response)
  <2>1. p \in Seq({"ok", "fails"}) /\ p # <<>>
    BY <1>2, ParsedCalls DEF Generate
  <2>2. Len(p) \in Nat /\ Len(p) > 0
    BY <2>1
  <2>3. /\ reactPhase = "generate" /\ reactPhase' = "execute" /\ calls' = p
        /\ generated' = Append(generated, Len(p)) /\ turns' = turns /\ messages' = messages
    BY <1>2 DEF Generate
  <2> HIDE DEF p
  <2>4. Len(generated) = Len(turns) /\ \A n \in DOMAIN generated : generated[n] > 0
    BY <2>3 DEF ReActCounts
  <2>5. /\ Len(generated') = Len(generated) + 1 /\ generated'[Len(generated')] = Len(p)
        /\ DOMAIN generated' = 1..(Len(generated) + 1)
        /\ \A n \in 1..Len(generated) : generated'[n] = generated[n]
    BY <1>0, <2>2, <2>3
  <2>6. \A n \in DOMAIN generated' : generated'[n] > 0
    <3> SUFFICES ASSUME NEW n \in 1..(Len(generated) + 1) PROVE generated'[n] > 0
      BY <2>5
    <3>1. n \in 1..Len(generated) \/ n = Len(generated) + 1
      BY <1>0
    <3> QED
      BY <3>1, <1>0, <2>2, <2>4, <2>5
  <2>7. \A n \in DOMAIN turns : turns[n] = <<0, 0>> \/ turns[n] = <<generated'[n], generated'[n]>>
    BY <1>0, <2>4, <2>5 DEF ReActCounts
  <2> QED
    BY <2>3, <2>4, <2>5, <2>6, <2>7 DEF ReActCounts
<1>3. ASSUME NEW response \in BoundedSeq(Calls, MaxCalls), Answer(response) PROVE ReActCounts'
  <2>1. /\ reactPhase = "generate" /\ reactPhase' = "answered"
        /\ generated' = Append(generated, 0) /\ turns' = Append(turns, <<0, 0>>) /\ messages' = messages
    BY <1>3 DEF Answer
  <2>2. Len(generated) = Len(turns)
    BY <2>1 DEF ReActCounts
  <2>3. /\ Len(generated') = Len(generated) + 1 /\ Len(turns') = Len(turns) + 1
        /\ \A n \in 1..Len(generated) : generated'[n] = generated[n]
        /\ \A n \in 1..Len(turns) : turns'[n] = turns[n]
        /\ turns'[Len(turns) + 1] = <<0, 0>> /\ DOMAIN turns' = 1..(Len(turns) + 1)
    BY <1>0, <2>1
  <2>4. \A n \in DOMAIN turns' : turns'[n] = <<0, 0>> \/ turns'[n] = <<generated'[n], generated'[n]>>
    <3> SUFFICES ASSUME NEW n \in 1..(Len(turns) + 1)
                 PROVE  turns'[n] = <<0, 0>> \/ turns'[n] = <<generated'[n], generated'[n]>>
      BY <2>3
    <3>1. n \in 1..Len(turns) \/ n = Len(turns) + 1
      BY <1>0
    <3> QED
      BY <3>1, <1>0, <2>2, <2>3 DEF ReActCounts
  <2> QED
    BY <2>1, <2>2, <2>3, <2>4 DEF ReActCounts
<1>4. CASE GenerateRaises
  BY <1>4 DEF GenerateRaises, ReActCounts
<1>5. CASE ExecuteNext
  BY <1>5 DEF ExecuteNext, ReActCounts
<1>6. CASE EndTurn
  <2>0. Len(messages') >= 2
    <3>1. <<"response">> \in Seq(Spoken) /\ outcomes \in Seq(Spoken) /\ messages \in Seq(Spoken)
      BY DEF ReActTypes, Spoken
    <3>2. /\ messages \o <<"response">> \in Seq(Spoken)
          /\ Len(messages \o <<"response">>) = Len(messages) + Len(<<"response">>)
      BY <3>1, Joined
    <3>3. Len(messages') = Len(messages) + Len(<<"response">>) + Len(outcomes)
      <4> DEFINE q == messages \o <<"response">>
      <4>1. messages' = q \o outcomes
        BY <1>6 DEF EndTurn
      <4>2. q \in Seq(Spoken) /\ Len(q) = Len(messages) + Len(<<"response">>)
        BY <3>2
      <4> HIDE DEF q
      <4>3. Len(q \o outcomes) = Len(q) + Len(outcomes)
        BY <3>1, <4>2, Joined
      <4> QED
        BY <4>1, <4>2, <4>3
    <3>4. Len(<<"response">>) = 1 /\ Len(messages) \in Nat /\ Len(outcomes) \in Nat
      BY <3>1
    <3>5. Len(messages) >= 2
      BY <1>6 DEF EndTurn, ReActCounts
    <3> QED
      BY <3>3, <3>4, <3>5
  <2>1. /\ reactPhase = "execute" /\ reactPhase' = "generate" /\ generated' = generated
        /\ turns' = Append(turns, <<Len(calls), Len(calls)>>)
    BY <1>6 DEF EndTurn
  <2>2. Len(generated) = Len(turns) + 1 /\ generated[Len(generated)] = Len(calls)
        /\ \A n \in DOMAIN generated : generated[n] > 0
    BY <2>1 DEF ReActCounts
  <2>3. /\ Len(turns') = Len(turns) + 1
        /\ \A n \in 1..Len(turns) : turns'[n] = turns[n]
        /\ turns'[Len(turns) + 1] = <<Len(calls), Len(calls)>> /\ DOMAIN turns' = 1..(Len(turns) + 1)
    BY <1>0, <2>1
  <2>4. \A n \in DOMAIN turns' : turns'[n] = <<0, 0>> \/ turns'[n] = <<generated[n], generated[n]>>
    <3> SUFFICES ASSUME NEW n \in 1..(Len(turns) + 1)
                 PROVE  turns'[n] = <<0, 0>> \/ turns'[n] = <<generated[n], generated[n]>>
      BY <2>3
    <3>1. n \in 1..Len(turns) \/ n = Len(turns) + 1
      BY <1>0
    <3> QED
      BY <3>1, <1>0, <2>2, <2>3 DEF ReActCounts
  <2> QED
    BY <2>0, <2>1, <2>2, <2>3, <2>4 DEF ReActCounts
<1>7. CASE GiveUp
  <2>1. /\ reactPhase = "generate" /\ reactPhase' = "exhausted" /\ generated' = generated
        /\ turns' = Append(turns, <<0, 0>>) /\ messages' = messages
    BY <1>7 DEF GiveUp
  <2>2. Len(generated) = Len(turns) /\ \A n \in DOMAIN generated : generated[n] > 0
    BY <2>1 DEF ReActCounts
  <2>3. /\ Len(turns') = Len(turns) + 1
        /\ \A n \in 1..Len(turns) : turns'[n] = turns[n]
        /\ turns'[Len(turns) + 1] = <<0, 0>> /\ DOMAIN turns' = 1..(Len(turns) + 1)
    BY <1>0, <2>1
  <2>4. \A n \in DOMAIN turns' : turns'[n] = <<0, 0>> \/ turns'[n] = <<generated[n], generated[n]>>
    <3> SUFFICES ASSUME NEW n \in 1..(Len(turns) + 1)
                 PROVE  turns'[n] = <<0, 0>> \/ turns'[n] = <<generated[n], generated[n]>>
      BY <2>3
    <3>1. n \in 1..Len(turns) \/ n = Len(turns) + 1
      BY <1>0
    <3> QED
      BY <3>1, <1>0, <2>2, <2>3 DEF ReActCounts
  <2> QED
    BY <2>1, <2>2, <2>3, <2>4 DEF ReActCounts
<1>8. CASE UNCHANGED reactVars
  BY <1>8 DEF reactVars, ReActCounts, ReActIdle
<1> QED
  BY <1>1, <1>2, <1>3, <1>4, <1>5, <1>6, <1>7, <1>8 DEF ReActStep

\* The number of a response among the responses.
Number(m) == Cardinality({k \in Responses : k <= m})

LEMMA ResponsesAreNumbered ==
  ASSUME ReActTypes
  PROVE  /\ Responses \in SUBSET (1..Len(messages)) /\ IsFiniteSet(Responses)
         /\ Responses \in SUBSET Nat /\ Cardinality(Responses) \in Nat
         /\ \A m \in Responses : Number(m) \in 1..Cardinality(Responses)
<1>1. Len(messages) \in Nat /\ DOMAIN messages = 1..Len(messages)
  BY DEF ReActTypes
<1>2. Responses \in SUBSET (1..Len(messages))
  BY <1>1 DEF Responses
<1>3. IsFiniteSet(Responses) /\ Cardinality(Responses) \in Nat /\ Responses \in SUBSET Nat
  BY <1>1, <1>2, PositionsAreFinite
<1>4. ASSUME NEW m \in Responses PROVE Number(m) \in 1..Cardinality(Responses)
  <2> DEFINE U == {k \in Responses : k <= m}
  <2>1. U \in SUBSET Responses /\ m \in U
    BY <1>3
  <2> HIDE DEF U
  <2>2. IsFiniteSet(U) /\ Cardinality(U) <= Cardinality(Responses) /\ Cardinality(U) \in Nat
    BY <1>3, <2>1, FS_Subset, FS_CardinalityType
  <2>3. Cardinality(U) # 0
    BY <2>1, <2>2, FS_EmptySet
  <2> QED
    BY <1>3, <2>2, <2>3 DEF Number, U
<1> QED
  BY <1>2, <1>3, <1>4

LEMMA EndOfResponses ==
  ASSUME ReActTypes, ResultsFollowCalls, reactPhase \notin {"idle", "raised"}
  PROVE  /\ Cardinality(Responses) = Told
         /\ Len(messages) > 2 => 3 \in Responses
         /\ \A m \in Responses :
              /\ m + generated[Number(m)] = Len(messages) \/ m + generated[Number(m)] + 1 \in Responses
              /\ \A k \in (m + 1)..(m + generated[Number(m)]) : messages[k] \in {"result", "error"}
  BY DEF ResultsFollowCalls, Number

\* Steps that say nothing more and change no number of calls.
LEMMA NothingMoreIsSaid ==
  ASSUME ReActTypes, ResultsFollowCalls, reactPhase \notin {"idle", "raised"},
         messages' = messages, Told' = Told,
         \A n \in 1..Told : generated'[n] = generated[n]
  PROVE  ResultsFollowCalls'
<1>1. Responses' = Responses
  BY DEF Responses
<1>2. Cardinality(Responses) = Told /\ \A m \in Responses : Number(m) \in 1..Told
  BY ResponsesAreNumbered, EndOfResponses
<1>3. ASSUME NEW m \in Responses PROVE generated'[Number(m)] = generated[Number(m)]
  BY <1>2
<1>4. \A m \in Responses' :
        /\ m + generated'[Number(m)] = Len(messages') \/ m + generated'[Number(m)] + 1 \in Responses'
        /\ \A k \in (m + 1)..(m + generated'[Number(m)]) : messages'[k] \in {"result", "error"}
  BY <1>1, <1>3, EndOfResponses
<1>5. Len(messages') > 2 => 3 \in Responses'
  BY <1>1, EndOfResponses
<1>6. Cardinality(Responses') = Told'
  BY <1>1, <1>2
<1>7. \A m \in Responses' : Cardinality({k \in Responses' : k <= m}) = Number(m)
  BY <1>1 DEF Number
<1> QED
  BY <1>4, <1>5, <1>6, <1>7 DEF ResultsFollowCalls

LEMMA EndTurnAnswersCalls ==
  ASSUME ReActTypes, ReActCounts, ResultsFollowCalls, EndTurn
  PROVE  ResultsFollowCalls'
<1> DEFINE l == Len(messages)
           c == Len(calls)
<1>1. /\ reactPhase = "execute" /\ reactPhase' = "generate" /\ generated' = generated
      /\ Len(outcomes) = c /\ turns' = Append(turns, <<c, c>>)
      /\ messages' = messages \o <<"response">> \o outcomes
  BY DEF EndTurn
<1>2. /\ messages \in Seq(Spoken) /\ l \in Nat /\ DOMAIN messages = 1..l /\ c \in Nat
      /\ turns \in Seq(Nat \X Nat) /\ Len(turns) \in Nat
      /\ outcomes \in Seq({"result", "error"}) /\ generated \in Seq(Nat)
  BY DEF ReActTypes
<1>3. /\ Told = Len(turns) /\ Told' = Len(turns) + 1
      /\ Len(generated) = Len(turns) + 1 /\ generated[Len(turns) + 1] = c
  BY <1>1, <1>2 DEF Told, ReActReturned, ReActCounts
<1>4. /\ Len(messages') = l + 1 + c /\ DOMAIN messages' = 1..(l + 1 + c)
      /\ \A k \in 1..l : messages'[k] = messages[k]
      /\ messages'[l + 1] = "response"
      /\ \A k \in (l + 2)..(l + 1 + c) : messages'[k] \in {"result", "error"}
  <2> DEFINE r == <<"response">>
  <2>1. r \in Seq(Spoken) /\ Len(r) = 1 /\ r[1] = "response"
    BY DEF Spoken
  <2>2. outcomes \in Seq(Spoken)
    BY <1>2 DEF Spoken
  <2> HIDE DEF r
  <2>3. messages' = (messages \o r) \o outcomes
    BY <1>1 DEF r
  <2>4. /\ messages \o r \in Seq(Spoken) /\ Len(messages \o r) = l + 1
        /\ \A k \in 1..l : (messages \o r)[k] = messages[k]
        /\ (messages \o r)[l + 1] = "response"
    <3>1. /\ messages \o r \in Seq(Spoken) /\ Len(messages \o r) = l + Len(r)
          /\ \A k \in 1..l : (messages \o r)[k] = messages[k]
          /\ \A k \in 1..Len(r) : (messages \o r)[l + k] = r[k]
      BY <1>2, <2>1, Joined
    <3>2. 1 \in 1..Len(r)
      BY <2>1
    <3> QED
      BY <2>1, <3>1, <3>2
  <2> DEFINE q == messages \o r
  <2> HIDE DEF q, l
  <2>5. /\ q \in Seq(Spoken) /\ Len(q) = l + 1 /\ messages' = q \o outcomes
        /\ \A k \in 1..l : q[k] = messages[k]
        /\ q[l + 1] = "response"
    BY <2>3, <2>4 DEF q
  <2>6. Len(messages') = l + 1 + c /\ DOMAIN messages' = 1..(l + 1 + c)
    <3>1. messages' \in Seq(Spoken) /\ Len(messages') = Len(q) + Len(outcomes)
      BY <2>2, <2>5, Joined
    <3> QED
      BY <1>1, <2>5, <3>1
  <2>7. \A k \in 1..(l + 1) : messages'[k] = q[k]
    BY <2>2, <2>5, Joined
  <2>8. \A k \in (l + 2)..(l + 1 + c) : messages'[k] \in {"result", "error"}
    <3> SUFFICES ASSUME NEW k \in (l + 2)..(l + 1 + c) PROVE messages'[k] \in {"result", "error"}
      OBVIOUS
    <3>1. messages'[k] = outcomes[k - (l + 1)] /\ k - (l + 1) \in 1..c
      <4>1. k - (l + 1) \in 1..c /\ k = (l + 1) + (k - (l + 1))
        BY <1>2
      <4>2. \A i \in 1..Len(outcomes) : messages'[Len(q) + i] = outcomes[i]
        BY <2>2, <2>5, Joined
      <4> QED
        BY <1>1, <2>5, <4>1, <4>2
    <3> QED
      BY <1>1, <1>2, <3>1
  <2> QED
    BY <1>2, <2>5, <2>6, <2>7, <2>8
<1>5. /\ Responses \in SUBSET (1..l) /\ IsFiniteSet(Responses) /\ Cardinality(Responses) = Len(turns)
      /\ \A m \in Responses : Number(m) \in 1..Len(turns)
  BY <1>1, <1>3, ResponsesAreNumbered, EndOfResponses
<1> HIDE DEF l, c
<1>6. Responses' = Responses \cup {l + 1}
  <2>1. Responses' = {m \in 1..(l + 1 + c) : messages'[m] = "response"}
    BY <1>4 DEF Responses
  <2>2. Responses = {m \in 1..l : messages[m] = "response"}
    BY <1>2 DEF Responses
  <2>3. \A m \in 1..(l + 1 + c) : m \in 1..l \/ m = l + 1 \/ m \in (l + 2)..(l + 1 + c)
    BY <1>2
  <2>4. 1..l \subseteq 1..(l + 1 + c) /\ l + 1 \in 1..(l + 1 + c)
    BY <1>2
  <2> QED
    BY <2>1, <2>2, <2>3, <2>4, <1>4
<1>7. l + 1 \notin Responses /\ Cardinality(Responses') = Len(turns) + 1
  <2>1. l + 1 \notin Responses
    BY <1>2, <1>5
  <2> QED
    BY <1>5, <1>6, <2>1, FS_AddElement
<1> DEFINE at(m) == Cardinality({k \in Responses' : k <= m})
<1>8. at(l + 1) = Len(turns) + 1
  <2>1. \A k \in Responses' : k <= l + 1
    BY <1>2, <1>5, <1>6
  <2>2. {k \in Responses' : k <= l + 1} = Responses'
    BY <2>1
  <2> QED
    BY <1>7, <2>2
<1>9. \A m \in Responses : at(m) = Number(m)
  <2> SUFFICES ASSUME NEW m \in Responses PROVE at(m) = Number(m)
    OBVIOUS
  <2>1. m \in 1..l /\ ~ (l + 1 <= m)
    BY <1>2, <1>5
  <2>2. {k \in Responses' : k <= m} = {k \in Responses : k <= m}
    BY <1>6, <2>1
  <2> QED
    BY <2>2 DEF Number
<1> HIDE DEF at
<1>10. ASSUME NEW m \in Responses'
       PROVE  /\ m + generated'[at(m)] = Len(messages') \/ m + generated'[at(m)] + 1 \in Responses'
              /\ \A k \in (m + 1)..(m + generated'[at(m)]) : messages'[k] \in {"result", "error"}
  <2>1. CASE m = l + 1
    <3>1. generated'[at(m)] = c
      BY <1>1, <1>3, <1>8, <2>1
    <3>2. m + c = Len(messages')
      BY <1>4, <2>1, <1>2
    <3>3. \A k \in (m + 1)..(m + c) : k \in (l + 2)..(l + 1 + c)
      BY <2>1, <1>2
    <3> QED
      BY <1>4, <3>1, <3>2, <3>3
  <2>2. CASE m \in Responses
    <3> DEFINE g == generated[Number(m)]
    <3>1. generated'[at(m)] = g
      BY <1>1, <1>9, <2>2
    <3>2. /\ m + g = l \/ m + g + 1 \in Responses
          /\ \A k \in (m + 1)..(m + g) : messages[k] \in {"result", "error"}
      BY <1>1, <2>2, EndOfResponses DEF l
    <3>3. g \in Nat /\ m \in Nat
      <4>1. Number(m) \in 1..Len(generated) /\ m \in 1..l
        BY <1>2, <1>3, <1>5, <2>2
      <4> QED
        BY <1>2, <4>1
    <3> HIDE DEF g
    <3>4. m + g <= l
      BY <1>2, <1>5, <3>2, <3>3
    <3>5. \A k \in (m + 1)..(m + g) : k \in 1..l
      BY <1>2, <3>3, <3>4
    <3>6. \A k \in (m + 1)..(m + g) : messages'[k] \in {"result", "error"}
      BY <1>4, <3>2, <3>5
    <3>7. m + g + 1 \in Responses'
      BY <1>6, <3>2
    <3> QED
      BY <3>1, <3>6, <3>7
  <2> QED
    BY <1>6, <2>1, <2>2
<1>11. 3 \in Responses'
  <2>1. l >= 2 /\ (l > 2 => 3 \in Responses)
    BY <1>1, EndOfResponses DEF l, ReActCounts
  <2>2. l > 2 \/ l + 1 = 3
    BY <1>2, <2>1
  <2> QED
    BY <1>6, <2>1, <2>2
<1> QED
  BY <1>3, <1>7, <1>10, <1>11 DEF ResultsFollowCalls, at

LEMMA ReActInvStep == ReActInv /\ [ReActStep \/ StartRun]_reactVars => ReActInv'
<1> SUFFICES ASSUME ReActTypes, ReActCounts, ResultsFollowCalls, [ReActStep \/ StartRun]_reactVars
             PROVE  ReActInv'
  BY DEF ReActInv
<1>0. ReActTypes' /\ ReActCounts'
  BY ReActTypesStep, ReActCountsStep
<1>1. CASE StartRun
  <2>1. messages' = <<"system", "task">> /\ reactPhase' = "generate" /\ turns' = <<>>
    BY <1>1 DEF StartRun, ReActCounts, ReActIdle
  <2>2. Len(messages') = 2 /\ DOMAIN messages' = {1, 2} /\ Responses' = {} /\ Told' = 0
    BY <2>1 DEF Responses, Told, ReActReturned
  <2>3. Cardinality(Responses') = 0
    BY <2>2, FS_EmptySet
  <2>4. ResultsFollowCalls'
    BY <2>2, <2>3 DEF ResultsFollowCalls
  <2> QED
    BY <1>0, <2>4 DEF ReActInv
<1>2. ASSUME NEW response \in BoundedSeq(Calls, MaxCalls), Generate(response) \/ Answer(response)
      PROVE  ReActInv'
  <2>1. /\ reactPhase = "generate" /\ messages' = messages
        /\ \/ reactPhase' = "execute" /\ turns' = turns
           \/ reactPhase' = "answered" /\ turns' = Append(turns, <<0, 0>>)
    BY <1>2 DEF Generate, Answer
  <2>2. PICK c \in Nat : generated' = Append(generated, c)
    <3>1. Len(Parsed(response)) \in Nat
      BY ParsedCalls
    <3> QED
      BY <1>2, <3>1 DEF Generate, Answer
  <2>3. Len(turns) \in Nat /\ Told = Len(turns) /\ Len(turns) = Len(generated)
    BY <2>1 DEF Told, ReActReturned, ReActCounts, ReActTypes
  <2>4. Told' = Told
    <3>1. Len(Append(turns, <<0, 0>>)) = Len(turns) + 1
      BY DEF ReActTypes
    <3>2. reactPhase' = "execute" => Told' = Len(turns) - 0
      BY <2>1 DEF Told, ReActReturned
    <3>3. reactPhase' = "answered" => Told' = (Len(turns) + 1) - 1
      BY <2>1, <3>1 DEF Told, ReActReturned
    <3> QED
      BY <2>1, <2>3, <3>2, <3>3
  <2>5. \A n \in 1..Told : generated'[n] = generated[n]
    BY <2>2, <2>3 DEF ReActTypes
  <2>6. ResultsFollowCalls'
    BY <2>1, <2>4, <2>5, NothingMoreIsSaid
  <2> QED
    BY <1>0, <2>6 DEF ReActInv
<1>3. CASE GenerateRaises
  BY <1>0, <1>3 DEF GenerateRaises, ReActInv, ResultsFollowCalls
<1>4. CASE ExecuteNext
  <2>1. /\ reactPhase = "execute" /\ reactPhase' = reactPhase
        /\ messages' = messages /\ turns' = turns /\ generated' = generated
    BY <1>4 DEF ExecuteNext
  <2>2. Told' = Told
    BY <2>1 DEF Told, ReActReturned
  <2>3. ResultsFollowCalls'
    BY <2>1, <2>2, NothingMoreIsSaid
  <2> QED
    BY <1>0, <2>3 DEF ReActInv
<1>5. CASE EndTurn
  BY <1>0, <1>5, EndTurnAnswersCalls DEF ReActInv
<1>6. CASE GiveUp
  <2>1. /\ reactPhase = "generate" /\ reactPhase' = "exhausted" /\ messages' = messages
        /\ generated' = generated /\ turns' = Append(turns, <<0, 0>>)
    BY <1>6 DEF GiveUp
  <2>2. Len(turns') = Len(turns) + 1 /\ Len(turns) \in Nat
    BY <2>1 DEF ReActTypes
  <2>3. Told' = Told
    BY <2>1, <2>2 DEF Told, ReActReturned
  <2>4. ResultsFollowCalls'
    BY <2>1, <2>3, NothingMoreIsSaid
  <2> QED
    BY <1>0, <2>4 DEF ReActInv
<1>7. CASE UNCHANGED reactVars
  BY <1>0, <1>7 DEF reactVars, ReActInv, ResultsFollowCalls, Told, Responses, ReActReturned
<1> QED
  BY <1>1, <1>2, <1>3, <1>4, <1>5, <1>6, <1>7 DEF ReActStep

LEMMA ReActInvHolds == ReActInv => ReActSound /\ ReActTypeOK
<1> SUFFICES ASSUME ReActInv PROVE ReActSound /\ ReActTypeOK
  OBVIOUS
<1>1. TurnsAreCounted
  BY DEF ReActInv, ReActTypes, ReActCounts, TurnsAreCounted, ReActReturned
<1>2. calls \in BoundedSeq(Calls \ {"malformed"}, MaxCalls)
  <2>1. calls \in Seq({"ok", "fails"}) /\ Len(calls) \in 0..MaxCalls
    BY DEF ReActInv, ReActTypes
  <2>2. calls \in [1..Len(calls) -> {"ok", "fails"}]
    BY <2>1
  <2>3. {"ok", "fails"} = Calls \ {"malformed"}
    BY DEF Calls
  <2> QED
    BY <2>1, <2>2, <2>3 DEF BoundedSeq, SeqOf
<1> QED
  BY <1>1, <1>2 DEF ReActInv, ReActTypes, ReActSound, ReActTypeOK

-----------------------------------------------------------------------------
(***************************************************************************)
(* The question to several agents.                                         *)
(***************************************************************************)
MultiTypes ==
  /\ multiPhase \in {"idle", "workers", "judge", "done", "raised"}
  /\ threads \in Nat
  /\ worker \in Seq({"queued", "called", "locked", "returned", "raised"}) /\ Len(worker) \in 0..MaxAgents
  /\ collected \in Seq(Polled) /\ Len(collected) <= Len(worker)
  /\ lockOwner \in {Free, Judge} \cup Polled
  /\ verdict \in {None, Judge, Oddity} \cup Polled

\* The answers that were collected are of different agents that ended, and the
\* lock is with the one agent that is at the model.
MultiOrder ==
  /\ \A i, j \in DOMAIN collected : collected[i] = collected[j] => i = j
  /\ \A i \in DOMAIN collected : worker[collected[i]] \in {"returned", "raised"}
  /\ \A a \in Polled : worker[a] = "locked" <=> lockOwner = a
  /\ multiPhase = "idle" =>
       worker = <<>> /\ collected = <<>> /\ lockOwner = Free /\ verdict = None
  /\ multiPhase # "idle" => Len(worker) >= 1
  /\ multiPhase # "done" => verdict = None
  /\ multiPhase = "workers" => lockOwner # Judge
  /\ multiPhase = "done" /\ verdict \in Polled => verdict = 1
  /\ multiPhase \in {"judge", "done", "raised"} =>
       Unanswered = {} /\ collected = [n \in Polled |-> n]
  /\ multiPhase \in {"done", "raised"} => lockOwner = Free

MultiInv == MultiTypes /\ MultiOrder

LEMMA MultiInitially == MultiInit => MultiInv
<1> SUFFICES ASSUME MultiInit PROVE MultiInv
  OBVIOUS
<1>1. /\ multiPhase = "idle" /\ threads = 0 /\ worker = <<>> /\ collected = <<>>
      /\ lockOwner = Free /\ verdict = None
  BY DEF MultiInit
<1>2. /\ Len(worker) = 0 /\ Len(collected) = 0 /\ Polled = {} /\ DOMAIN collected = {}
      /\ worker \in Seq({"queued", "called", "locked", "returned", "raised"})
      /\ collected \in Seq(Polled)
  BY <1>1 DEF Polled
<1>3. MultiTypes
  BY <1>1, <1>2, MultiAssumption DEF MultiTypes
<1>4. MultiOrder
  BY <1>1, <1>2 DEF MultiOrder
<1> QED
  BY <1>3, <1>4 DEF MultiInv

\* Sorting the answers of all agents by name puts each agent at its place.
LEMMA SortedByName ==
  ASSUME MultiTypes, MultiOrder, Len(collected) = Len(worker)
  PROVE  Sorted(collected) = [n \in Polled |-> n]
<1> DEFINE n == Len(worker)
           named == ToSet(collected)
<1>1. /\ n \in Nat /\ Polled = 1..n /\ Len(collected) = n /\ DOMAIN collected = 1..n
      /\ collected \in [1..n -> 1..n]
  <2>1. worker \in Seq({"queued", "called", "locked", "returned", "raised"})
    BY DEF MultiTypes
  <2>2. n \in Nat /\ Polled = 1..n
    BY <2>1 DEF Polled
  <2>3. collected \in Seq(1..n) /\ Len(collected) = n
    BY <2>2 DEF MultiTypes
  <2> HIDE DEF n
  <2> QED
    BY <2>2, <2>3
<1>2. named \in SUBSET (1..n) /\ named = {collected[i] : i \in 1..n}
  BY <1>1 DEF ToSet
<1>3. IsFiniteSet(1..n) /\ Cardinality(1..n) = n
  <2>1. n \in Nat
    BY <1>1
  <2> HIDE DEF n
  <2> QED
    BY <2>1, NumbersUpTo
<1>4. Cardinality(named) = n
  <2>1. collected \in Bijection(1..n, named)
    BY <1>1, <1>2 DEF MultiOrder, Bijection, Injection, Surjection, IsInjective
  <2> HIDE DEF named, n
  <2> QED
    BY <1>3, <2>1, FS_Bijection DEF ExistsBijection
<1>5. named = 1..n
  <2> DEFINE all == 1..n
  <2> HIDE DEF named, all, n
  <2>1. IsFiniteSet(all) /\ Cardinality(all) = n /\ named \in SUBSET all
    BY <1>2, <1>3 DEF all
  <2> QED
    BY <1>4, <2>1, FS_Subset DEF all
<1> HIDE DEF named, n
<1>6. \A a \in 1..n : Cardinality({b \in named : b < a}) = a - 1
  <2> SUFFICES ASSUME NEW a \in 1..n PROVE Cardinality({b \in named : b < a}) = a - 1
    OBVIOUS
  <2>1. {b \in named : b < a} = 1..(a - 1)
    <3>1. \A b \in 1..n : b < a <=> b \in 1..(a - 1)
      BY <1>1
    <3>2. 1..(a - 1) \subseteq 1..n
      BY <1>1
    <3> QED
      BY <1>5, <3>1, <3>2
  <2>2. a - 1 \in Nat
    BY <1>1
  <2>3. Cardinality(1..(a - 1)) = a - 1
    BY <2>2, FS_Interval
  <2> QED
    BY <2>1, <2>3
<1>7. ASSUME NEW k \in 1..n
      PROVE  (CHOOSE a \in named : Cardinality({b \in named : b < a}) = k - 1) = k
  <2>1. \A a \in named : Cardinality({b \in named : b < a}) = k - 1 <=> a = k
    <3>1. \A a \in 1..n : a \in Nat /\ (a - 1 = k - 1 <=> a = k)
      BY <1>1
    <3> QED
      BY <1>5, <1>6, <3>1
  <2>2. k \in named
    BY <1>5
  <2> QED
    BY <2>1, <2>2
<1>8. Sorted(collected) = [k \in 1..n |-> CHOOSE a \in named : Cardinality({b \in named : b < a}) = k - 1]
  BY <1>1 DEF Sorted, named
<1> QED
  BY <1>1, <1>7, <1>8

AskSome == \E n \in 1..MaxAgents, m \in Nat : Ask(n, m)
WorkerRuns == \E a \in Polled : WorkerStep(a)

States == {"queued", "called", "locked", "returned", "raised"}

LEMMA AgentNumbers ==
  ASSUME MultiTypes
  PROVE  /\ Len(worker) \in Nat /\ Polled = 1..Len(worker) /\ Polled \in SUBSET (1..MaxAgents)
         /\ Free \notin Polled /\ Judge \notin Polled /\ Oddity \notin Polled
         /\ Judge # Free /\ Oddity # None /\ Judge # None
         /\ worker \in [Polled -> States]
<1>1. Len(worker) \in Nat /\ Polled = 1..Len(worker) /\ worker \in [Polled -> States]
  BY DEF MultiTypes, Polled, States
<1>2. Len(worker) <= MaxAgents /\ MaxAgents \in Nat
  BY MultiAssumption DEF MultiTypes
<1> QED
  BY <1>1, <1>2 DEF Free, Judge, Oddity, None

\* One agent goes on to another state.
LEMMA WorkerTypes ==
  ASSUME MultiTypes, NEW a \in Polled, NEW s \in States, worker' = [worker EXCEPT ![a] = s]
  PROVE  /\ worker' \in Seq({"queued", "called", "locked", "returned", "raised"})
         /\ Len(worker') = Len(worker) /\ Polled' = Polled
         /\ worker'[a] = s /\ \A b \in Polled : b # a => worker'[b] = worker[b]
  BY AgentNumbers DEF MultiTypes, Polled, States

LEMMA AskKeeps ==
  ASSUME MultiInv, NEW n \in 1..MaxAgents, NEW m \in Nat, Ask(n, m)
  PROVE  MultiInv'
<1>1. /\ multiPhase = "idle" /\ multiPhase' = "workers" /\ threads' = m
      /\ worker' = [a \in 1..n |-> "queued"] /\ UNCHANGED <<collected, lockOwner, verdict>>
  BY DEF Ask
<1>2. collected = <<>> /\ lockOwner = Free /\ verdict = None
  BY <1>1 DEF MultiInv, MultiOrder
<1>3. n \in Nat /\ n >= 1 /\ n <= MaxAgents /\ MaxAgents \in Nat
  BY MultiAssumption
<1>4. /\ worker' \in Seq({"queued", "called", "locked", "returned", "raised"})
      /\ Len(worker') = n /\ Polled' = 1..n /\ \A a \in 1..n : worker'[a] = "queued"
  BY <1>1, <1>3 DEF Polled
<1>5. Free \notin 1..n /\ None \notin 1..n /\ Free # Judge
  BY <1>3 DEF Free, None, Judge
<1>6. collected' \in Seq(Polled') /\ Len(collected') = 0 /\ DOMAIN collected' = {}
  BY <1>1, <1>2
<1>7. MultiTypes'
  BY <1>1, <1>2, <1>3, <1>4, <1>6 DEF MultiTypes
<1>8. MultiOrder'
  BY <1>1, <1>2, <1>3, <1>4, <1>5, <1>6 DEF MultiOrder
<1> QED
  BY <1>7, <1>8 DEF MultiInv

\* What an agent on its way leaves alone.
LEMMA AgentGoesOn ==
  ASSUME MultiInv, NEW a \in Polled, NEW s \in States, worker' = [worker EXCEPT ![a] = s],
         worker[a] \notin {"returned", "raised"},
         UNCHANGED <<multiPhase, threads, collected, verdict>>,
         lockOwner' \in {Free, Judge} \cup Polled,
         \A b \in Polled : worker'[b] = "locked" <=> lockOwner' = b,
         multiPhase = "workers" => lockOwner' # Judge
  PROVE  MultiInv'
<1>1. /\ worker' \in Seq({"queued", "called", "locked", "returned", "raised"})
      /\ Len(worker') = Len(worker) /\ Polled' = Polled
      /\ worker'[a] = s /\ \A b \in Polled : b # a => worker'[b] = worker[b]
  BY WorkerTypes DEF MultiInv
<1>2. /\ Free' = Free /\ Judge' = Judge /\ Oddity' = Oddity /\ None' = None
  BY DEF Free, Judge, Oddity, None
<1>3. MultiTypes'
  BY <1>1, <1>2 DEF MultiInv, MultiTypes
<1>4. multiPhase = "workers"
  <2>1. a \in Unanswered
    BY DEF Unanswered
  <2>2. Polled # {}
    OBVIOUS
  <2>3. multiPhase = "idle" => Polled = {}
    <3>1. DOMAIN <<>> = {}
      OBVIOUS
    <3> QED
      BY <3>1 DEF MultiInv, MultiOrder, Polled
  <2>4. multiPhase \in {"idle", "workers", "judge", "done", "raised"}
    BY DEF MultiInv, MultiTypes
  <2> QED
    BY <2>1, <2>2, <2>3, <2>4 DEF MultiInv, MultiOrder
<1>5. collected \in Seq(Polled) /\ \A i \in DOMAIN collected : collected[i] \in Polled
  BY DEF MultiInv, MultiTypes
<1>6. \A i \in DOMAIN collected : worker'[collected[i]] \in {"returned", "raised"}
  <2> SUFFICES ASSUME NEW i \in DOMAIN collected PROVE worker'[collected[i]] \in {"returned", "raised"}
    OBVIOUS
  <2>1. worker[collected[i]] \in {"returned", "raised"}
    BY DEF MultiInv, MultiOrder
  <2>2. collected[i] # a /\ collected[i] \in Polled
    BY <2>1, <1>5
  <2> QED
    BY <1>1, <2>1, <2>2
<1>7. MultiOrder'
  BY <1>1, <1>2, <1>4, <1>6 DEF MultiInv, MultiOrder
<1> QED
  BY <1>3, <1>7 DEF MultiInv

LEMMA WorkerStepKeeps ==
  ASSUME MultiInv, NEW a \in Polled, WorkerStep(a) PROVE MultiInv'
<1>0. MultiTypes /\ MultiOrder
  BY DEF MultiInv
<1>1. CASE CallModel(a)
  <2>1. /\ worker' = [worker EXCEPT ![a] = "called"] /\ worker[a] = "queued" /\ "called" \in States
        /\ UNCHANGED <<threads, multiPhase, collected, lockOwner, verdict>>
    BY <1>1 DEF CallModel, States
  <2>2. worker'[a] = "called" /\ \A b \in Polled : b # a => worker'[b] = worker[b]
    BY <1>0, <2>1, WorkerTypes
  <2>3. \A b \in Polled : worker'[b] = "locked" <=> lockOwner' = b
    BY <1>0, <2>1, <2>2 DEF MultiOrder
  <2>4. lockOwner' \in {Free, Judge} \cup Polled /\ (multiPhase = "workers" => lockOwner' # Judge)
    BY <1>0, <2>1 DEF MultiTypes, MultiOrder
  <2> QED
    BY <2>1, <2>3, <2>4, AgentGoesOn
<1>2. CASE Lock(a)
  <2>1. /\ worker' = [worker EXCEPT ![a] = "locked"] /\ worker[a] = "called" /\ "locked" \in States
        /\ lockOwner = Free /\ lockOwner' = a /\ UNCHANGED <<threads, multiPhase, collected, verdict>>
    BY <1>2 DEF Lock, States
  <2>2. worker'[a] = "locked" /\ \A b \in Polled : b # a => worker'[b] = worker[b]
    BY <1>0, <2>1, WorkerTypes
  <2>3. Free \notin Polled /\ Judge \notin Polled
    BY <1>0, AgentNumbers
  <2>4. \A b \in Polled : worker'[b] = "locked" <=> lockOwner' = b
    BY <1>0, <2>1, <2>2, <2>3 DEF MultiOrder
  <2> QED
    BY <2>1, <2>3, <2>4, AgentGoesOn
<1>3. ASSUME NEW how \in {"returned", "raised"}, ModelReturns(a, how) PROVE MultiInv'
  <2>1. /\ worker' = [worker EXCEPT ![a] = how] /\ worker[a] = "locked" /\ how \in States
        /\ lockOwner' = Free /\ UNCHANGED <<threads, multiPhase, collected, verdict>>
    BY <1>3 DEF ModelReturns, States
  <2>2. worker'[a] = how /\ \A b \in Polled : b # a => worker'[b] = worker[b]
    BY <1>0, <2>1, WorkerTypes
  <2>3. Free \notin Polled /\ Judge # Free
    BY <1>0, AgentNumbers
  <2>4. \A b \in Polled : worker'[b] = "locked" <=> lockOwner' = b
    BY <1>0, <1>3, <2>1, <2>2, <2>3 DEF MultiOrder
  <2> QED
    BY <2>1, <2>3, <2>4, AgentGoesOn
<1>4. CASE Collect(a)
  <2>1. /\ multiPhase = "workers" /\ worker[a] \in {"returned", "raised"}
        /\ collected' = Append(collected, a) /\ UNCHANGED <<threads, multiPhase, worker, lockOwner, verdict>>
        /\ \A i \in 1..Len(collected) : collected[i] # a
    BY <1>4 DEF Collect, Contains
  <2>2. /\ collected \in Seq(Polled) /\ Len(collected) \in Nat /\ DOMAIN collected = 1..Len(collected)
    BY <1>0 DEF MultiTypes
  <2>3. /\ collected' \in Seq(Polled) /\ Len(collected') = Len(collected) + 1
        /\ DOMAIN collected' = 1..(Len(collected) + 1) /\ collected'[Len(collected) + 1] = a
        /\ \A i \in 1..Len(collected) : collected'[i] = collected[i]
    BY <2>1, <2>2
  <2>4. \A i \in DOMAIN collected' : i \in 1..Len(collected) \/ i = Len(collected) + 1
    BY <2>2, <2>3
  <2>5. \A i, j \in DOMAIN collected' : collected'[i] = collected'[j] => i = j
    BY <1>0, <2>1, <2>2, <2>3, <2>4 DEF MultiOrder
  <2>6. \A i \in DOMAIN collected' : worker[collected'[i]] \in {"returned", "raised"}
    BY <1>0, <2>1, <2>2, <2>3, <2>4 DEF MultiOrder
  <2>7. Len(collected') <= Len(worker)
    <3> DEFINE n == Len(worker)
               m == Len(collected) + 1
    <3>1. n \in Nat /\ Polled = 1..n /\ m \in Nat
      BY <1>0, <2>2, AgentNumbers
    <3>2. collected' \in [1..m -> 1..n]
      BY <2>3, <3>1
    <3> HIDE DEF n, m
    <3>3. IsFiniteSet(1..m) /\ Cardinality(1..m) = m /\ IsFiniteSet(1..n) /\ Cardinality(1..n) = n
      BY <3>1, FS_Interval
    <3>4. collected' \in Injection(1..m, 1..n)
      BY <2>3, <2>5, <3>2 DEF Injection, IsInjective, m
    <3>5. Cardinality(1..m) <= Cardinality(1..n)
      BY <3>3, <3>4, FS_Injection DEF ExistsInjection
    <3> QED
      BY <2>3, <3>1, <3>3, <3>5 DEF n, m
  <2>8. Polled' = Polled
    BY <2>1 DEF Polled
  <2>9. MultiTypes'
    BY <1>0, <2>1, <2>3, <2>7, <2>8 DEF MultiTypes, Free, Judge, Oddity, None
  <2>10. MultiOrder'
    BY <1>0, <2>1, <2>5, <2>6, <2>8 DEF MultiOrder, Free, Judge, Oddity, None
  <2> QED
    BY <2>9, <2>10 DEF MultiInv
<1> QED
  BY <1>1, <1>2, <1>3, <1>4 DEF WorkerStep

LEMMA JudgeStepKeeps ==
  ASSUME MultiInv, JudgeStep PROVE MultiInv'
<1>0. MultiTypes /\ MultiOrder
  BY DEF MultiInv
<1>1. /\ worker' = worker /\ threads' = threads /\ Polled' = Polled /\ Unanswered' = Unanswered
  BY DEF JudgeStep, SortAnswers, CallJudge, JudgeRaises, JudgeReplies, Polled, Unanswered
<1>2. /\ Len(worker) \in Nat /\ Polled = 1..Len(worker)
      /\ Free \notin Polled /\ Judge \notin Polled /\ Oddity \notin Polled /\ None \notin Polled
      /\ Judge # Free /\ worker \in [Polled -> States]
  BY <1>0, AgentNumbers DEF Free, None
<1>3. CASE SortAnswers
  <2>1. /\ multiPhase = "workers" /\ multiPhase' = "judge" /\ Unanswered = {}
        /\ Len(collected) = Len(worker) /\ collected' = Sorted(collected)
        /\ UNCHANGED <<lockOwner, verdict>>
    BY <1>3 DEF SortAnswers
  <2>2. collected' = [n \in Polled |-> n]
    BY <1>0, <2>1, SortedByName
  <2>3. collected' \in Seq(Polled) /\ Len(collected') = Len(worker) /\ DOMAIN collected' = Polled
    BY <1>2, <2>2
  <2>4. \A a \in Polled : worker[a] \in {"returned", "raised"}
    BY <2>1 DEF Unanswered
  <2>5. MultiTypes'
    BY <1>0, <1>1, <1>2, <2>1, <2>3 DEF MultiTypes, Free, Judge, Oddity, None
  <2>6. MultiOrder'
    BY <1>0, <1>1, <2>1, <2>2, <2>3, <2>4 DEF MultiOrder, Free, Judge, Oddity, None
  <2> QED
    BY <2>5, <2>6 DEF MultiInv
<1>4. CASE CallJudge
  <2>1. /\ multiPhase = "judge" /\ multiPhase' = "judge" /\ lockOwner = Free /\ lockOwner' = Judge
        /\ UNCHANGED <<collected, verdict>>
    BY <1>4 DEF CallJudge
  <2>2. \A a \in Polled : worker[a] # "locked"
    BY <1>0, <1>2, <2>1 DEF MultiOrder
  <2>3. MultiTypes'
    BY <1>0, <1>1, <2>1 DEF MultiTypes, Free, Judge, Oddity, None
  <2>4. \A a \in Polled : worker[a] = "locked" <=> lockOwner' = a
    BY <1>2, <2>1, <2>2
  <2>5. MultiOrder'
    BY <1>0, <1>1, <2>1, <2>4 DEF MultiOrder, Free, Judge, Oddity, None
  <2> QED
    BY <2>3, <2>5 DEF MultiInv
<1>5. ASSUME JudgeRaises \/ \E reply \in {Judge, Oddity, None} : JudgeReplies(reply) PROVE MultiInv'
  <2>1. /\ multiPhase = "judge" /\ lockOwner = Judge /\ lockOwner' = Free /\ collected' = collected
        /\ \/ multiPhase' = "done" /\ verdict' \in {Judge, Oddity, collected[1]}
           \/ multiPhase' = "raised" /\ verdict' = verdict
    BY <1>5 DEF JudgeRaises, JudgeReplies
  <2>2. Len(worker) >= 1 /\ collected = [n \in Polled |-> n] /\ verdict = None /\ Unanswered = {}
    BY <1>0, <2>1 DEF MultiOrder
  <2>3. 1 \in Polled /\ collected[1] = 1
    BY <1>2, <2>2
  <2>4. \A a \in Polled : worker[a] # "locked"
    BY <1>0, <1>2, <2>1 DEF MultiOrder
  <2>5. MultiTypes'
    BY <1>0, <1>1, <2>1, <2>2, <2>3 DEF MultiTypes, Free, Judge, Oddity, None
  <2>6. \A a \in Polled : worker[a] = "locked" <=> lockOwner' = a
    BY <1>2, <2>1, <2>4
  <2>7. multiPhase' = "done" /\ verdict' \in Polled => verdict' = 1
    BY <1>2, <2>1, <2>3
  <2>8. MultiOrder'
    BY <1>0, <1>1, <2>1, <2>2, <2>6, <2>7 DEF MultiOrder, Free, Judge, Oddity, None
  <2> QED
    BY <2>5, <2>8 DEF MultiInv
<1> QED
  BY <1>3, <1>4, <1>5 DEF JudgeStep

LEMMA MultiStep == MultiInv /\ [AskSome \/ WorkerRuns \/ JudgeStep]_multiVars => MultiInv'
<1> SUFFICES ASSUME MultiInv, [AskSome \/ WorkerRuns \/ JudgeStep]_multiVars PROVE MultiInv'
  OBVIOUS
<1>1. CASE UNCHANGED multiVars
  BY <1>1 DEF multiVars, MultiInv, MultiTypes, MultiOrder, Polled, Unanswered, Free, Judge, Oddity, None
<1> QED
  BY <1>1, AskKeeps, WorkerStepKeeps, JudgeStepKeeps DEF AskSome, WorkerRuns

LEMMA MultiInvHolds == MultiInv => MultiSound /\ MultiTypeOK
<1> SUFFICES ASSUME MultiTypes, MultiOrder PROVE MultiSound /\ MultiTypeOK
  BY DEF MultiInv
<1>1. EveryAgentIsHeard
  <2>1. Unanswered = {} => InPool = {}
    BY DEF Unanswered, InPool
  <2> QED
    BY <2>1 DEF MultiOrder, EveryAgentIsHeard
<1>2. FallbackIsFirstByName
  BY DEF MultiOrder, FallbackIsFirstByName
<1>3. /\ worker \in BoundedSeq({"queued", "called", "locked", "returned", "raised"}, MaxAgents)
      /\ collected \in BoundedSeq(Polled, MaxAgents)
  <2>1. /\ worker \in [1..Len(worker) -> {"queued", "called", "locked", "returned", "raised"}]
        /\ Len(worker) \in 0..MaxAgents
        /\ collected \in [1..Len(collected) -> Polled]
        /\ Len(collected) \in Nat /\ Len(collected) <= Len(worker)
    BY DEF MultiTypes
  <2>2. Len(collected) \in 0..MaxAgents
    BY <2>1, MultiAssumption
  <2> QED
    BY <2>1, <2>2 DEF BoundedSeq, SeqOf
<1> QED
  BY <1>1, <1>2, <1>3 DEF MultiTypes, MultiSound, MultiTypeOK

-----------------------------------------------------------------------------
(***************************************************************************)
(* The words of a text and the deltas of its stream.                       *)
(***************************************************************************)
LEMMA TimesGrows ==
  ASSUME NEW a \in Int, NEW b \in Int, NEW c \in Nat, a <= b
  PROVE  a * c <= b * c
<1>1. (b - a) \in Nat
  OBVIOUS
<1>2. (b - a) * c \in Nat
  BY <1>1
<1>3. (b - a) * c = b * c - a * c
  OBVIOUS
<1>4. a * c \in Int /\ b * c \in Int
  OBVIOUS
<1> DEFINE x == a * c
           y == b * c
<1>5. x \in Int /\ y \in Int /\ y - x \in Nat
  BY <1>2, <1>3, <1>4
<1> HIDE DEF x, y
<1> QED
  BY <1>5 DEF x, y

LEMMA Quotient ==
  ASSUME NEW n \in Int, NEW c \in Nat \ {0}
  PROVE  /\ n \div c \in Int /\ n % c \in Int
         /\ n = (n \div c) * c + (n % c)
         /\ 0 <= n % c /\ n % c < c
  OBVIOUS

LEMMA Rest ==
  ASSUME NEW n \in Nat, NEW c \in Nat \ {0}, NEW k \in Int,
         (k - 1) * c <= n, n < k * c
  PROVE  n \div c = k - 1 /\ n % c = n - (k - 1) * c
<1> DEFINE q == n \div c
           r == n % c
<1>1. q \in Int /\ r \in Int /\ n = q * c + r /\ 0 <= r /\ r < c
  BY Quotient
<1> HIDE DEF q, r
<1>2. ASSUME q <= k - 2 PROVE FALSE
  <2>1. (q + 1) * c <= (k - 1) * c
    BY <1>1, <1>2, TimesGrows
  <2>2. (q + 1) * c = q * c + c
    BY <1>1
  <2>3. q * c \in Int /\ (k - 1) * c \in Int
    BY <1>1
  <2> QED
    BY <1>1, <2>1, <2>2, <2>3
<1>3. ASSUME q >= k PROVE FALSE
  <2>1. k * c <= q * c
    BY <1>1, <1>3, TimesGrows
  <2>2. q * c \in Int /\ k * c \in Int
    BY <1>1
  <2> QED
    BY <1>1, <2>1, <2>2
<1>4. q = k - 1 \/ q <= k - 2 \/ q >= k
  BY <1>1
<1>5. q = k - 1
  BY <1>2, <1>3, <1>4
<1>6. (k - 1) * c \in Int
  OBVIOUS
<1> QED
  BY <1>1, <1>5, <1>6 DEF q, r

\* The deltas of a text of n words.
LEMMA ChunksCover ==
  ASSUME NEW n \in Nat, NEW c \in Nat \ {0}
  PROVE  /\ (n + c - 1) \div c \in Nat
         /\ n <= ((n + c - 1) \div c) * c
         /\ \A k \in 1..((n + c - 1) \div c) : (k - 1) * c < n
<1> DEFINE t == n + c - 1
           l == t \div c
<1>1. t \in Nat
  OBVIOUS
<1>2. l \in Int /\ t % c \in Int /\ t = l * c + (t % c) /\ 0 <= t % c /\ t % c < c
  BY <1>1, Quotient
<1>3. t = n + c - 1
  OBVIOUS
<1> HIDE DEF t, l
<1>4. l * c \in Int
  BY <1>2
<1>5. n <= l * c /\ l * c < n + c
  BY <1>2, <1>3, <1>4
<1>6. l \in Nat
  <2>1. CASE l <= -1
    <3>1. l * c <= (-1) * c
      BY <1>2, <2>1, TimesGrows
    <3>2. (-1) * c = - c
      OBVIOUS
    <3> QED
      BY <1>4, <1>5, <3>1, <3>2
  <2> QED
    BY <1>2, <2>1
<1>7. ASSUME NEW k \in 1..l PROVE (k - 1) * c < n
  <2>1. k - 1 \in Int /\ l - 1 \in Int /\ k - 1 <= l - 1
    BY <1>6
  <2>2. (k - 1) * c <= (l - 1) * c
    BY <2>1, TimesGrows
  <2>3. (l - 1) * c = l * c - c
    BY <1>2
  <2>4. (k - 1) * c \in Int
    BY <2>1
  <2> QED
    BY <1>4, <1>5, <2>2, <2>3, <2>4
<1> QED
  BY <1>5, <1>6, <1>7 DEF l, t
-----------------------------------------------------------------------------
Ending == <<"text-end", "step-finish", "finish">>

\* The n-th event of a stream with d deltas.
EventAt(d, n) ==
  IF n = 1 THEN "step-start" ELSE IF n = 2 THEN "text-start"
  ELSE IF n <= d + 2 THEN "text-delta" ELSE Ending[n - (d + 2)]

\* A stream that has sent d deltas and k events that end it.
SentAs(d, k) == [n \in 1..(d + 2 + k) |-> EventAt(d, n)]

\* The deltas of a text of n words after the first d.
DeltasAfter(n, d) == [m \in 1..(Len(Chunks(n)) - d) |-> Chunks(n)[d + m]]

LEMMA NumberOfChunks ==
  ASSUME NEW n \in Nat
  PROVE  /\ Chunks(n) \in Seq(Nat)
         /\ Len(Chunks(n)) = (n + ChunkSize - 1) \div ChunkSize
         /\ Len(Chunks(n)) \in Nat
         /\ \A k \in 1..Len(Chunks(n)) :
              Chunks(n)[k] = IF k * ChunkSize <= n THEN ChunkSize ELSE n - ChunkSize * (k - 1)
         /\ \A k \in 1..Len(Chunks(n)) : ChunkSize * (k - 1) < n
         /\ n <= ChunkSize * Len(Chunks(n))
<1> DEFINE c == ChunkSize
           l == (n + c - 1) \div c
<1>1. c \in Nat \ {0}
  BY ApiAssumption
<1>2. l \in Nat /\ n <= l * c /\ \A k \in 1..l : (k - 1) * c < n
  BY <1>1, ChunksCover
<1>3. Chunks(n) = [k \in 1..l |-> IF k * c <= n THEN c ELSE n % c]
  BY DEF Chunks
<1> HIDE DEF c, l
<1>4. \A k \in 1..l : k \in Int /\ (k - 1) * c = c * (k - 1)
  BY <1>1, <1>2
<1>5. \A k \in 1..l : ~ (k * c <= n) => n % c = n - c * (k - 1)
  <2> SUFFICES ASSUME NEW k \in 1..l, ~ (k * c <= n) PROVE n % c = n - c * (k - 1)
    OBVIOUS
  <2>1. k \in Int /\ (k - 1) * c < n /\ k * c \in Int /\ (k - 1) * c \in Int
    BY <1>1, <1>2
  <2>2. (k - 1) * c <= n /\ n < k * c
    BY <2>1
  <2>3. n % c = n - (k - 1) * c
    BY <1>1, <2>1, <2>2, Rest
  <2> QED
    BY <1>4, <2>3
<1>6. Chunks(n) \in [1..l -> Nat]
  <2>1. n % c \in Nat
    BY <1>1, Quotient
  <2> QED
    BY <1>1, <1>3, <2>1
<1>7. Chunks(n) \in Seq(Nat) /\ Len(Chunks(n)) = l
  BY <1>2, <1>6
<1>8. l * c = c * l
  BY <1>1, <1>2
<1> QED
  BY <1>2, <1>3, <1>4, <1>5, <1>7, <1>8 DEF c, l

\* How many events of each kind a stream has sent.
LEMMA SentCounts ==
  ASSUME NEW d \in Nat, NEW k \in 0..3, events = SentAs(d, k)
  PROVE  /\ Len(events) = d + 2 + k /\ DOMAIN events = 1..(d + 2 + k)
         /\ events[1] = "step-start" /\ events[2] = "text-start"
         /\ Count("text-delta") = d
         /\ (Count("text-end") = 0 <=> k = 0)
         /\ (k < 3 => Count("finish") = 0)
         /\ Last(events) = IF k > 0 THEN Ending[k] ELSE IF d > 0 THEN "text-delta" ELSE "text-start"
         /\ \A i, j \in DOMAIN events : i < j /\ events[j] = "text-delta" =>
              events[i] \in {"step-start", "text-start", "text-delta"}
<1> DEFINE l == d + 2 + k
<1>1. /\ l \in Nat /\ l >= 2 /\ Len(events) = l /\ DOMAIN events = 1..l
      /\ \A n \in 1..l : events[n] = EventAt(d, n)
  BY DEF SentAs
<1>2. /\ \A n \in 3..(d + 2) : EventAt(d, n) = "text-delta"
      /\ EventAt(d, 1) = "step-start" /\ EventAt(d, 2) = "text-start"
      /\ \A n \in 1..l : n > d + 2 => EventAt(d, n) = Ending[n - (d + 2)] /\ n - (d + 2) \in 1..k
  BY DEF EventAt
<1>3. \A n \in 1..l : n = 1 \/ n = 2 \/ n \in 3..(d + 2) \/ n > d + 2
  OBVIOUS
<1>4. Ending[1] = "text-end" /\ Ending[2] = "step-finish" /\ Ending[3] = "finish"
  BY DEF Ending
<1>5. \A i \in 1..k : i = 1 \/ i = 2 \/ i = 3
  OBVIOUS
<1>6. \A n \in 1..l : events[n] = "text-delta" <=> n \in 3..(d + 2)
  BY <1>1, <1>2, <1>3, <1>4, <1>5
<1>7. Count("text-delta") = d
  <2>1. 3..(d + 2) \subseteq 1..l
    OBVIOUS
  <2>2. {n \in DOMAIN events : events[n] = "text-delta"} = 3..(d + 2)
    BY <1>1, <1>6, <2>1
  <2>3. Cardinality(3..(d + 2)) = d
    <3>1. d + 2 \in Int /\ (3 > d + 2 <=> d = 0) /\ (d + 2) - 3 + 1 = d
      OBVIOUS
    <3> QED
      BY <3>1, FS_Interval
  <2> QED
    BY <2>2, <2>3 DEF Count
<1>8. Count("text-end") = 0 <=> k = 0
  <2> DEFINE S == {n \in DOMAIN events : events[n] = "text-end"}
  <2>1. S \in SUBSET (1..l) /\ IsFiniteSet(S)
    BY <1>1, PositionsAreFinite
  <2>2. k = 0 => S = {}
    BY <1>1, <1>2, <1>3
  <2>3. k > 0 => d + 3 \in S
    <3> SUFFICES ASSUME k > 0 PROVE d + 3 \in S
      OBVIOUS
    <3>1. d + 3 \in 1..l /\ d + 3 > d + 2 /\ (d + 3) - (d + 2) = 1
      OBVIOUS
    <3>2. EventAt(d, d + 3) = "text-end"
      BY <1>2, <1>4, <3>1
    <3> QED
      BY <1>1, <3>1, <3>2
  <2>4. Cardinality(S) = 0 <=> S = {}
    BY <2>1, FS_EmptySet
  <2> QED
    BY <2>2, <2>3, <2>4 DEF Count
<1>9. k < 3 => Count("finish") = 0
  <2> SUFFICES ASSUME k < 3 PROVE Count("finish") = 0
    OBVIOUS
  <2>1. \A i \in 1..k : i = 1 \/ i = 2
    OBVIOUS
  <2>2. {n \in DOMAIN events : events[n] = "finish"} = {}
    BY <1>1, <1>2, <1>3, <1>4, <2>1
  <2> QED
    BY <2>2, FS_EmptySet DEF Count
<1>10. Last(events) = IF k > 0 THEN Ending[k] ELSE IF d > 0 THEN "text-delta" ELSE "text-start"
  <2>1. Last(events) = EventAt(d, l)
    BY <1>1 DEF Last
  <2>2. CASE k > 0
    <3>1. l \in 1..l /\ l > d + 2 /\ l - (d + 2) = k
      BY <2>2
    <3> QED
      BY <1>2, <2>1, <2>2, <3>1
  <2>3. CASE k = 0 /\ d > 0
    <3>1. l \in 3..(d + 2)
      BY <2>3
    <3> QED
      BY <1>2, <2>1, <2>3, <3>1
  <2>4. CASE k = 0 /\ d = 0
    <3>1. l = 2
      BY <2>4
    <3> QED
      BY <1>2, <2>1, <2>4, <3>1
  <2> QED
    BY <2>2, <2>3, <2>4
<1>11. ASSUME NEW i \in 1..l, NEW j \in 1..l, i < j, events[j] = "text-delta"
       PROVE  events[i] \in {"step-start", "text-start", "text-delta"}
  <2>1. j \in 3..(d + 2)
    BY <1>6, <1>11
  <2>2. i = 1 \/ i = 2 \/ i \in 3..(d + 2)
    BY <1>11, <2>1
  <2> QED
    BY <1>1, <1>2, <2>2
<1>12. 1 \in 1..l /\ 2 \in 1..l
  OBVIOUS
<1> QED
  BY <1>1, <1>2, <1>7, <1>8, <1>9, <1>10, <1>11, <1>12

-----------------------------------------------------------------------------
ApiTypes ==
  /\ request \in Requests
  /\ apiPhase \in {"received", "approval", "plain", "tools", "agents", "sending",
                   "answered", "failed", "unavailable", "cut"}
  /\ keys \subseteq {"response", "responses", "final_answer", "status"}
  /\ words \in 0..MaxWords
  /\ events \in Seq(EventTypes)

\* Where a stream is, for each phase of its request.
StreamForm == request.stream =>
  /\ apiPhase \notin {"approval", "plain", "failed"}
  /\ apiPhase \in {"received", "unavailable"} => events = <<>>
  /\ apiPhase \in {"tools", "agents"} => events = SentAs(0, 0)
  /\ apiPhase = "sending" =>
       \E d \in Nat, k \in 0..2 : events = SentAs(d, k) /\ d <= Len(Chunks(words)) /\ unsent = DeltasAfter(words, d) /\ (k > 0 => unsent = <<>>)
  /\ apiPhase = "answered" => events = SentAs(Len(Chunks(words)), 3)
  /\ apiPhase = "cut" => \E d \in Nat, k \in 0..2 : events = SentAs(d, k)

\* Which of its parts a request may have reached.
PartsForm ==
  /\ reactPhase # "idle" => /\ request.tools /\ request.prompt /\ ~ Batch(request)
                            /\ request.manual => request.stream
                            /\ multiPhase = "idle"
  /\ apiPhase = "tools" => reactPhase # "idle"
  /\ apiPhase \in {"received", "unavailable", "approval", "plain", "agents"} => reactPhase = "idle"
  /\ request.stream /\ apiPhase \in {"tools", "agents", "sending", "answered"} => request.prompt
  /\ request.stream /\ apiPhase \in {"sending", "answered"} =>
       reactPhase # "idle" \/ multiPhase = "done"

ApiOwn == ApiTypes /\ StreamForm /\ PartsForm

LEMMA StreamFormHolds ==
  ASSUME ApiTypes, StreamForm PROVE StreamsAreWhole
<1> SUFFICES ASSUME request.stream PROVE StreamsAreWhole
  BY DEF StreamsAreWhole
<1>1. words \in Nat /\ MaxWords \in Nat
  BY ApiAssumption DEF ApiTypes
<1>2. apiPhase = "answered" =>
        /\ Count("text-delta") = (words + ChunkSize - 1) \div ChunkSize
        /\ Last(events) = "finish"
  <2> SUFFICES ASSUME apiPhase = "answered"
               PROVE  /\ Count("text-delta") = (words + ChunkSize - 1) \div ChunkSize
                      /\ Last(events) = "finish"
    OBVIOUS
  <2> DEFINE d == Len(Chunks(words))
  <2>1. d \in Nat /\ d = (words + ChunkSize - 1) \div ChunkSize
    BY <1>1, NumberOfChunks
  <2>2. events = SentAs(d, 3)
    BY DEF StreamForm
  <2> HIDE DEF d
  <2>3. Count("text-delta") = d /\ Last(events) = Ending[3]
    BY <2>1, <2>2, SentCounts
  <2> QED
    BY <2>1, <2>3 DEF Ending
<1>3. apiPhase = "cut" => Count("finish") = 0
  <2> SUFFICES ASSUME apiPhase = "cut" PROVE Count("finish") = 0
    OBVIOUS
  <2>1. PICK d \in Nat, k \in 0..2 : events = SentAs(d, k)
    BY DEF StreamForm
  <2> QED
    BY <2>1, SentCounts
<1>4. ASSUME apiPhase \in {"sending", "answered"}, Count("text-end") = 0
      PROVE  /\ \A w \in 1..Left : \E k \in DOMAIN unsent :
                  w - ChunkSize * (k - 1) \in 1..unsent[k]
             /\ \A k \in DOMAIN unsent : ChunkSize * (k - 1) + unsent[k] <= Left
  <2>1. apiPhase = "sending"
    <3>1. Len(Chunks(words)) \in Nat
      BY <1>1, NumberOfChunks
    <3>2. (events = SentAs(Len(Chunks(words)), 3)) => Count("text-end") # 0
      BY <3>1, SentCounts
    <3> QED
      BY <1>4, <3>2 DEF StreamForm
  <2>2. PICK d \in Nat, k \in 0..2 : events = SentAs(d, k) /\ d <= Len(Chunks(words)) /\ unsent = DeltasAfter(words, d)
    BY <2>1 DEF StreamForm
  <2> DEFINE c == ChunkSize
             q == Chunks(words)
             l == Len(q)
  <2>3. Left = words - c * d
    BY <2>2, SentCounts DEF Left
  <2>4. /\ l \in Nat /\ c \in Nat \ {0} /\ d <= l
        /\ unsent = [n \in 1..(l - d) |-> q[d + n]]
        /\ \A n \in 1..l : q[n] = IF n * c <= words THEN c ELSE words - c * (n - 1)
        /\ \A n \in 1..l : c * (n - 1) < words
        /\ words <= c * l
    BY <1>1, <2>2, NumberOfChunks, ApiAssumption DEF DeltasAfter
  <2> HIDE DEF c, q, l
  <2>5. ASSUME NEW n \in 1..(l - d)
        PROVE  /\ c * (n - 1) + c * d = c * (d + n - 1) /\ c * (n - 1) \in Int /\ c * d \in Int
               /\ (d + n) * c = c * (d + n - 1) + c
               /\ unsent[n] = IF (d + n) * c <= words THEN c ELSE words - c * (d + n - 1)
               /\ c * (d + n - 1) < words
    <3>1. d + n \in 1..l /\ n \in Int
      BY <2>4
    <3>2. unsent[n] = q[d + n]
      BY <2>4
    <3> DEFINE m == d + n
    <3>3. m \in 1..l /\ m \in Int
      BY <3>1
    <3> HIDE DEF m
    <3>4. /\ q[m] = IF m * c <= words THEN c ELSE words - c * (m - 1)
          /\ c * (m - 1) < words
      BY <2>4, <3>3
    <3>5. m * c = c * (m - 1) + c
      BY <2>4, <3>3
    <3>6. c * (n - 1) + c * d = c * (d + n - 1) /\ c * (n - 1) \in Int /\ c * d \in Int
      BY <2>4, <3>1
    <3> QED
      BY <3>2, <3>4, <3>5, <3>6 DEF m
  <2>6. c * d \in Int /\ c * l \in Int /\ DOMAIN unsent = 1..(l - d)
    BY <2>4
  <2>7. ASSUME NEW n \in DOMAIN unsent PROVE c * (n - 1) + unsent[n] <= Left
    <3> DEFINE x == c * (n - 1)
               y == c * d
    <3>1. /\ x \in Int /\ y \in Int
          /\ \/ unsent[n] = c /\ x + y + c <= words
             \/ unsent[n] = words - (x + y)
      <4>1. n \in 1..(l - d)
        BY <2>6
      <4> DEFINE z == c * (d + n - 1)
                 u == (d + n) * c
      <4>2. x + y = z /\ x \in Int /\ y \in Int /\ u = z + c
            /\ unsent[n] = (IF u <= words THEN c ELSE words - z)
        BY <2>5, <4>1
      <4> HIDE DEF x, y, z, u
      <4> QED
        BY <4>2
    <3>2. c \in Int /\ words \in Int /\ Left = words - y
      BY <1>1, <2>3, <2>4
    <3> HIDE DEF x, y
    <3>3. x + unsent[n] <= Left
      BY <3>1, <3>2
    <3> QED
      BY <3>3 DEF x
  <2>8. ASSUME NEW w \in 1..Left
        PROVE  \E n \in DOMAIN unsent : w - c * (n - 1) \in 1..unsent[n]
    <3>1. w \in Int /\ w >= 1 /\ w <= Left /\ Left \in Int
      BY <1>1, <2>3, <2>6
    <3> DEFINE p == (w - 1) \div c
               r == (w - 1) % c
               n == p + 1
               x == c * p
    <3>2. p \in Int /\ r \in Int /\ w - 1 = p * c + r /\ 0 <= r /\ r < c
      <4>1. w - 1 \in Int
        BY <3>1
      <4> QED
        BY <2>4, <4>1, Quotient
    <3> HIDE DEF p, r
    <3>3. x = p * c /\ x \in Int /\ w - 1 = x + r /\ c \in Int /\ c > 0
      <4>1. p * c = c * p /\ p * c \in Int
        BY <2>4, <3>2
      <4> QED
        BY <2>4, <3>2, <4>1
    <3> HIDE DEF x
    <3>4. p >= 0
      <4>1. ASSUME p <= -1 PROVE FALSE
        <5>1. p * c <= (-1) * c
          BY <2>4, <3>2, <4>1, TimesGrows
        <5>2. (-1) * c = - c
          BY <2>4
        <5>3. x <= - c
          BY <3>3, <5>1, <5>2
        <5>4. w - 1 = x + r /\ r < c /\ w >= 1 /\ w \in Int /\ r \in Int
          BY <3>1, <3>2, <3>3
        <5> HIDE DEF x
        <5> QED
          BY <3>3, <5>3, <5>4
      <4> QED
        BY <3>2, <4>1
    <3>5. n <= l - d
      <4>1. ASSUME p >= l - d PROVE FALSE
        <5>1. (l - d) * c <= p * c
          BY <2>4, <3>2, <4>1, TimesGrows
        <5>2. (l - d) * c = c * l - c * d
          BY <2>4
        <5>3. c * l - c * d <= x
          BY <3>3, <5>1, <5>2
        <5> DEFINE y == c * d
                   z == c * l
        <5>4. y \in Int /\ z \in Int /\ z - y <= x /\ words <= z /\ Left = words - y /\ words \in Int
          BY <1>1, <2>3, <2>4, <2>6, <5>3
        <5> HIDE DEF x, y, z
        <5>5. Left <= x
          BY <3>3, <5>4
        <5>6. w <= Left /\ w - 1 = x + r /\ r >= 0 /\ w \in Int /\ r \in Int /\ Left \in Int
          BY <3>1, <3>2, <3>3
        <5> QED
          BY <3>3, <5>5, <5>6
      <4> QED
        BY <2>4, <3>2, <4>1
    <3>6. n \in 1..(l - d) /\ n - 1 = p
      BY <2>4, <3>2, <3>4, <3>5
    <3>7. w - c * (n - 1) = r + 1
      <4>1. c * (n - 1) = x
        BY <3>6 DEF x
      <4> QED
        BY <3>1, <3>2, <3>3, <4>1
    <3>8. r + 1 <= unsent[n]
      <4> DEFINE y == c * d
                 z == c * (d + n - 1)
                 u == (d + n) * c
      <4>1. x + y = z /\ y \in Int /\ u = z + c /\ unsent[n] = (IF u <= words THEN c ELSE words - z)
        <5>1. c * (n - 1) = x
          BY <3>6 DEF x
        <5> QED
          BY <2>5, <3>6, <5>1
      <4>2. Left = words - y /\ words \in Int /\ c \in Int
        BY <1>1, <2>3, <2>4
      <4> HIDE DEF y, z, u
      <4>3. w <= words - y /\ w - 1 = x + r /\ w \in Int
        BY <3>1, <3>2, <3>3, <4>2
      <4> QED
        BY <3>2, <3>3, <4>1, <4>2, <4>3
    <3>9. unsent[n] \in Int
      <4> DEFINE z == c * (d + n - 1)
      <4>1. z \in Int /\ (unsent[n] = c \/ unsent[n] = words - z)
        <5>1. d + n - 1 \in Int /\ c \in Int
          BY <3>6, <2>4
        <5>2. z \in Int
          BY <5>1
        <5>3. unsent[n] = c \/ unsent[n] = words - z
          BY <2>5, <3>6
        <5> QED
          BY <5>2, <5>3
      <4> HIDE DEF z
      <4> QED
        BY <1>1, <2>4, <4>1
    <3>10. w - c * (n - 1) \in 1..unsent[n]
      BY <3>2, <3>7, <3>8, <3>9
    <3> QED
      BY <2>6, <3>6, <3>10
  <2> QED
    BY <2>7, <2>8 DEF c
<1>5. apiPhase \notin {"received", "unavailable"} => \E d \in Nat, k \in 0..3 : events = SentAs(d, k)
  <2>1. Len(Chunks(words)) \in Nat
    BY <1>1, NumberOfChunks
  <2> QED
    BY <2>1 DEF StreamForm, ApiTypes
<1>6. \A i, j \in DOMAIN events : i < j /\ events[j] = "text-delta" =>
        events[i] \in {"step-start", "text-start", "text-delta"}
  <2>1. events = <<>> => DOMAIN events = {}
    OBVIOUS
  <2>2. (\E d \in Nat, k \in 0..3 : events = SentAs(d, k)) =>
          \A i, j \in DOMAIN events : i < j /\ events[j] = "text-delta" =>
            events[i] \in {"step-start", "text-start", "text-delta"}
    BY SentCounts
  <2> QED
    BY <1>5, <2>1, <2>2 DEF StreamForm
<1>7. apiPhase \notin {"received", "unavailable"} =>
        Len(events) >= 2 /\ events[1] = "step-start" /\ events[2] = "text-start"
  <2> SUFFICES ASSUME apiPhase \notin {"received", "unavailable"}
               PROVE  Len(events) >= 2 /\ events[1] = "step-start" /\ events[2] = "text-start"
    OBVIOUS
  <2>1. PICK d \in Nat, k \in 0..3 : events = SentAs(d, k)
    BY <1>5
  <2>2. Len(events) = d + 2 + k /\ events[1] = "step-start" /\ events[2] = "text-start"
    BY <2>1, SentCounts
  <2> QED
    BY <2>2
<1> QED
  BY <1>2, <1>3, <1>4, <1>6, <1>7 DEF StreamsAreWhole

LEMMA PartsFormHolds ==
  ASSUME ApiTypes, PartsForm, ReActInv, MultiInv PROVE ToolsRunAsAsked /\ StreamsReachParts
<1>1. generated # <<>> => reactPhase # "idle"
  BY DEF ReActInv, ReActCounts, ReActIdle
<1>2. multiPhase = "idle" => worker = <<>>
  BY DEF MultiInv, MultiOrder
<1> QED
  BY <1>1, <1>2 DEF PartsForm, ToolsRunAsAsked, StreamsReachParts

-----------------------------------------------------------------------------
\* Only one question is asked in the variables of the endpoint: that of its
\* request, or that of a behaviour without one.
AskedOnce ==
  /\ subject # "request" => apiPhase = "received"
  /\ subject = "request" /\ apiPhase \in {"received", "tools", "plain", "approval"} => multiPhase = "idle"

ApiInv == ApiOwn /\ ReActInv /\ MultiInv /\ AskedOnce

LEMMA RequestFields ==
  ASSUME ApiTypes
  PROVE  /\ request.prompt \in BOOLEAN /\ request.tools \in BOOLEAN /\ request.manual \in BOOLEAN
         /\ request.stream \in BOOLEAN /\ request.agents \in {1, DefaultAgents}
         /\ request.prompts \in {0, 2}
  BY DEF ApiTypes, Requests

LEMMA EventsAgain ==
  ASSUME NEW t \in Seq(EventTypes) PROVE t = [n \in 1..Len(t) |-> t[n]]
  OBVIOUS

LEMMA NumbersAgain ==
  ASSUME NEW t \in Seq(Nat) PROVE t = [n \in 1..Len(t) |-> t[n]]
  OBVIOUS

LEMMA OneMoreEvent ==
  ASSUME NEW l \in Nat, NEW s \in Seq(EventTypes), Len(s) = l, NEW e \in EventTypes
  PROVE  Append(s, e) = [n \in 1..(l + 1) |-> IF n = l + 1 THEN e ELSE s[n]]
<1> DEFINE t == Append(s, e)
<1>1. /\ t \in Seq(EventTypes) /\ Len(t) = l + 1 /\ t[l + 1] = e
      /\ \A n \in 1..l : t[n] = s[n]
  OBVIOUS
<1>2. \A n \in 1..(l + 1) : n = l + 1 \/ n \in 1..l
  OBVIOUS
<1> HIDE DEF t
<1>3. t = [n \in 1..(l + 1) |-> t[n]]
  BY <1>1, EventsAgain
<1>4. \A n \in 1..(l + 1) : t[n] = IF n = l + 1 THEN e ELSE s[n]
  BY <1>1, <1>2
<1> QED
  BY <1>3, <1>4 DEF t

LEMMA WithoutFirst ==
  ASSUME NEW l \in Nat, NEW s \in Seq(Nat), Len(s) = l, s # <<>>
  PROVE  Tail(s) = [m \in 1..(l - 1) |-> s[m + 1]]
<1>1. /\ Tail(s) \in Seq(Nat) /\ Len(Tail(s)) = l - 1
      /\ \A m \in 1..Len(Tail(s)) : Tail(s)[m] = s[m + 1]
  BY HeadTailProperties
<1>2. Tail(s) = [m \in 1..Len(Tail(s)) |-> Tail(s)[m]]
  BY <1>1, NumbersAgain
<1> QED
  BY <1>1, <1>2

LEMMA ChunksAgain ==
  ASSUME NEW n \in Nat
  PROVE  /\ 0 <= Len(Chunks(n)) /\ Len(Chunks(n)) \in Nat /\ Chunks(n) = DeltasAfter(n, 0)
         /\ \A d \in Nat : d <= Len(Chunks(n)) =>
              /\ DeltasAfter(n, d) = <<>> <=> d = Len(Chunks(n))
              /\ d < Len(Chunks(n)) => Tail(DeltasAfter(n, d)) = DeltasAfter(n, d + 1)
<1> DEFINE q == Chunks(n)
           l == Len(q)
<1>1. q \in Seq(Nat) /\ l \in Nat
  BY NumberOfChunks
<1>2. \A d : DeltasAfter(n, d) = [m \in 1..(l - d) |-> q[d + m]]
  BY DEF DeltasAfter
<1> HIDE DEF q
<1>3. q = DeltasAfter(n, 0)
  <2>1. q = [m \in 1..l |-> q[m]]
    BY <1>1
  <2>2. \A m \in 1..l : 0 + m = m
    BY <1>1
  <2>3. 1..(l - 0) = 1..l
    BY <1>1
  <2>4. DeltasAfter(n, 0) = [m \in 1..l |-> q[m]]
    BY <1>2, <2>2, <2>3
  <2> QED
    BY <2>1, <2>4
<1>4. ASSUME NEW d \in Nat, d <= l
      PROVE  /\ DeltasAfter(n, d) = <<>> <=> d = l
             /\ d < l => Tail(DeltasAfter(n, d)) = DeltasAfter(n, d + 1)
  <2> DEFINE s == DeltasAfter(n, d)
  <2>1. s = [m \in 1..(l - d) |-> q[d + m]]
    BY <1>2
  <2> HIDE DEF s
  <2>2. s \in Seq(Nat) /\ Len(s) = l - d /\ \A m \in 1..(l - d) : s[m] = q[d + m]
    <3>1. \A m \in 1..(l - d) : q[d + m] \in Nat
      BY <1>1, <1>4
    <3> QED
      BY <1>1, <1>4, <2>1, <3>1
  <2>3. s = <<>> <=> d = l
    BY <1>1, <1>4, <2>2
  <2>4. ASSUME d < l PROVE Tail(s) = DeltasAfter(n, d + 1)
    <3>1. Tail(s) = [m \in 1..(l - d - 1) |-> s[m + 1]]
      <4>1. l - d \in Nat /\ s # <<>>
        BY <1>1, <1>4, <2>3, <2>4
      <4> QED
        BY <2>2, <4>1, WithoutFirst
    <3>2. \A m \in 1..(l - d - 1) : m + 1 \in 1..(l - d) /\ d + (m + 1) = (d + 1) + m
      BY <1>1, <1>4
    <3>3. \A m \in 1..(l - d - 1) : s[m + 1] = q[(d + 1) + m]
      BY <2>2, <3>2
    <3>4. l - d - 1 = l - (d + 1)
      BY <1>1
    <3>5. DeltasAfter(n, d + 1) = [m \in 1..(l - d - 1) |-> q[(d + 1) + m]]
      BY <1>2, <3>4
    <3> QED
      BY <3>1, <3>3, <3>5
  <2> QED
    BY <2>3, <2>4 DEF s
<1> QED
  BY <1>1, <1>3, <1>4 DEF q

LEMMA SentOneMore ==
  ASSUME NEW d \in Nat
  PROVE  /\ SentAs(0, 0) = <<"step-start", "text-start">>
         /\ Append(SentAs(d, 0), "text-delta") = SentAs(d + 1, 0)
         /\ \A k \in 0..2 : Append(SentAs(d, k), Ending[k + 1]) = SentAs(d, k + 1)
         /\ \A k \in 0..3 : SentAs(d, k) \in Seq(EventTypes)
<1>1. SentAs(0, 0) = <<"step-start", "text-start">>
  <2>1. SentAs(0, 0) = [n \in 1..2 |-> EventAt(0, n)]
    BY DEF SentAs
  <2>2. EventAt(0, 1) = "step-start" /\ EventAt(0, 2) = "text-start"
    BY DEF EventAt
  <2> QED
    BY <2>1, <2>2
<1>2. \A k \in 0..3 : SentAs(d, k) \in Seq(EventTypes) /\ Len(SentAs(d, k)) = d + 2 + k
  <2> SUFFICES ASSUME NEW k \in 0..3
               PROVE  SentAs(d, k) \in Seq(EventTypes) /\ Len(SentAs(d, k)) = d + 2 + k
    OBVIOUS
  <2>1. \A n \in 1..(d + 2 + k) : n = 1 \/ n = 2 \/ n <= d + 2 \/ n - (d + 2) \in {1, 2, 3}
    OBVIOUS
  <2>2. \A n \in 1..(d + 2 + k) : EventAt(d, n) \in EventTypes
    BY <2>1 DEF EventAt, Ending, EventTypes
  <2>3. SentAs(d, k) \in [1..(d + 2 + k) -> EventTypes]
    BY <2>2 DEF SentAs
  <2>4. d + 2 + k \in Nat
    OBVIOUS
  <2> QED
    BY <2>3, <2>4
<1>3. Append(SentAs(d, 0), "text-delta") = SentAs(d + 1, 0)
  <2> DEFINE s == SentAs(d, 0)
  <2>1. s \in Seq(EventTypes) /\ Len(s) = d + 2 /\ \A n \in 1..(d + 2) : s[n] = EventAt(d, n)
    <3>1. s \in Seq(EventTypes) /\ Len(s) = d + 2 + 0
      BY <1>2
    <3> QED
      BY <3>1 DEF SentAs
  <2> HIDE DEF s
  <2>2. Append(s, "text-delta") = [n \in 1..(d + 3) |-> IF n = d + 3 THEN "text-delta" ELSE s[n]]
    <3>1. "text-delta" \in EventTypes /\ d + 2 \in Nat /\ (d + 2) + 1 = d + 3
      BY DEF EventTypes
    <3> QED
      BY <2>1, <3>1, OneMoreEvent
  <2>3. \A n \in 1..(d + 3) : EventAt(d + 1, n) = IF n = d + 3 THEN "text-delta" ELSE s[n]
    <3> SUFFICES ASSUME NEW n \in 1..(d + 3)
                 PROVE  EventAt(d + 1, n) = IF n = d + 3 THEN "text-delta" ELSE s[n]
      OBVIOUS
    <3>1. CASE n = d + 3
      BY <3>1 DEF EventAt
    <3>2. CASE n \in 1..(d + 2)
      <4>1. n # d + 3 /\ n <= d + 2 /\ n <= (d + 1) + 2
        BY <3>2
      <4> QED
        BY <2>1, <3>2, <4>1 DEF EventAt
    <3> QED
      BY <3>1, <3>2
  <2>4. SentAs(d + 1, 0) = [n \in 1..(d + 3) |-> EventAt(d + 1, n)]
    <3>1. d + 1 + 2 + 0 = d + 3
      OBVIOUS
    <3> QED
      BY <3>1 DEF SentAs
  <2> QED
    BY <2>2, <2>3, <2>4 DEF s
<1>4. ASSUME NEW k \in 0..2 PROVE Append(SentAs(d, k), Ending[k + 1]) = SentAs(d, k + 1)
  <2> DEFINE s == SentAs(d, k)
             e == Ending[k + 1]
             l == d + 2 + k
  <2>1. l \in Nat /\ s \in Seq(EventTypes) /\ Len(s) = l /\ \A n \in 1..l : s[n] = EventAt(d, n)
    <3>1. s \in Seq(EventTypes) /\ Len(s) = l /\ l \in Nat
      BY <1>2
    <3> QED
      BY <3>1 DEF SentAs
  <2>2. EventAt(d, l + 1) = e
    <3>1. l + 1 # 1 /\ l + 1 # 2 /\ ~ (l + 1 <= d + 2) /\ l + 1 - (d + 2) = k + 1
      OBVIOUS
    <3> QED
      BY <3>1 DEF EventAt
  <2>3. SentAs(d, k + 1) = [n \in 1..(l + 1) |-> EventAt(d, n)]
    <3>1. d + 2 + (k + 1) = l + 1
      OBVIOUS
    <3> QED
      BY <3>1 DEF SentAs
  <2>6. e \in EventTypes
    BY DEF Ending, EventTypes
  <2> HIDE DEF s, e, l
  <2>4. Append(s, e) = [n \in 1..(l + 1) |-> IF n = l + 1 THEN e ELSE s[n]]
    BY <2>1, <2>6, OneMoreEvent
  <2>5. \A n \in 1..(l + 1) : EventAt(d, n) = IF n = l + 1 THEN e ELSE s[n]
    <3>1. \A n \in 1..(l + 1) : n = l + 1 \/ n \in 1..l
      BY <2>1
    <3> QED
      BY <2>1, <2>2, <3>1
  <2> QED
    BY <2>3, <2>4, <2>5 DEF s, e
<1> QED
  BY <1>1, <1>2, <1>3, <1>4

LEMMA ApiInitially == GenerationInit => ApiInv
<1> SUFFICES ASSUME GenerationInit PROVE ApiInv
  OBVIOUS
<1>1. /\ request \in Requests /\ apiPhase = "received" /\ keys = {} /\ events = <<>> /\ unsent = <<>>
      /\ words = 0 /\ ReActInit /\ MultiInit
  BY DEF GenerationInit, ApiInit
<1>2. ReActInv /\ MultiInv /\ reactPhase = "idle" /\ multiPhase = "idle"
  BY <1>1, ReActTypesInitially, MultiInitially DEF ReActInit, MultiInit
<1>3. ApiTypes
  BY <1>1, ApiAssumption DEF ApiTypes
<1>4. StreamForm /\ PartsForm /\ AskedOnce
  BY <1>1, <1>2 DEF StreamForm, PartsForm, AskedOnce
<1> QED
  BY <1>2, <1>3, <1>4 DEF ApiInv, ApiOwn

LEMMA ToolsUntouched ==
  ASSUME ReActInv, UNCHANGED reactVars PROVE ReActInv' /\ reactPhase' = reactPhase
  BY ReActInvStep DEF reactVars

LEMMA AgentsUntouched ==
  ASSUME MultiInv, UNCHANGED multiVars PROVE MultiInv' /\ multiPhase' = multiPhase
  BY MultiStep DEF multiVars

\* The parts that StartRun and Ask set to work.
LEMMA ToolsBegin ==
  ASSUME ReActInv, MultiInv, BeginTools
  PROVE  /\ ReActInv' /\ reactPhase' = "generate"
         /\ MultiInv' /\ multiPhase' = multiPhase
  BY ReActInvStep, AgentsUntouched DEF BeginTools, StartRun

LEMMA AgentsBegin ==
  ASSUME ApiTypes, ReActInv, MultiInv, BeginAgents
  PROVE  /\ ReActInv' /\ reactPhase' = reactPhase
         /\ MultiInv' /\ multiPhase' = "workers"
<1>1. request.agents \in 1..MaxAgents /\ request.agents \in Nat
  <2>1. request.agents \in {1, DefaultAgents}
    BY RequestFields
  <2> QED
    BY <2>1, ApiAssumption, MultiAssumption
<1>2. AskSome
  BY <1>1 DEF BeginAgents, AskSome
<1> QED
  BY <1>2, MultiStep, ToolsUntouched DEF BeginAgents, Ask

LEMMA RouteKeeps ==
  ASSUME ApiInv, subject = "request", subject' = subject, Route PROVE ApiInv'
<1>1. /\ apiPhase = "received" /\ ~ request.stream /\ UNCHANGED <<request, keys, events, unsent, words>>
      /\ ApiTypes /\ ReActInv /\ MultiInv /\ PartsForm /\ AskedOnce
  BY DEF Route, ApiInv, ApiOwn
<1>2. reactPhase = "idle" /\ multiPhase = "idle"
  BY <1>1 DEF PartsForm, AskedOnce
<1>3. apiPhase' \in {"approval", "tools", "agents", "plain"}
  BY DEF Route
<1>4. ApiTypes'
  BY <1>1, <1>3 DEF ApiTypes
<1>5. StreamForm'
  BY <1>1 DEF StreamForm
<1>6. /\ ReActInv' /\ MultiInv' /\ PartsForm' /\ AskedOnce'
  <2>1. CASE apiPhase' = "tools"
    <3>1. BeginTools /\ request.tools /\ ~ Batch(request) /\ request.prompt /\ ~ request.manual
      BY <2>1 DEF Route
    <3>2. ReActInv' /\ reactPhase' = "generate" /\ MultiInv' /\ multiPhase' = "idle"
      BY <1>1, <1>2, <3>1, ToolsBegin
    <3> QED
      BY <1>1, <2>1, <3>1, <3>2 DEF PartsForm, AskedOnce, Batch
  <2>2. CASE apiPhase' = "agents"
    <3>1. BeginAgents
      BY <2>2 DEF Route
    <3>2. ReActInv' /\ reactPhase' = "idle" /\ MultiInv' /\ multiPhase' = "workers"
      BY <1>1, <1>2, <3>1, AgentsBegin
    <3> QED
      BY <1>1, <2>2, <3>2 DEF PartsForm, AskedOnce
  <2>3. CASE apiPhase' \in {"approval", "plain"}
    <3>1. UNCHANGED <<reactVars, multiVars>>
      BY <2>3 DEF Route
    <3>2. ReActInv' /\ reactPhase' = "idle" /\ MultiInv' /\ multiPhase' = "idle"
      BY <1>1, <1>2, <3>1, ToolsUntouched, AgentsUntouched
    <3> QED
      BY <1>1, <2>3, <3>2 DEF PartsForm, AskedOnce
  <2> QED
    BY <1>3, <2>1, <2>2, <2>3
<1> QED
  BY <1>4, <1>5, <1>6 DEF ApiInv, ApiOwn

LEMMA RouteStreamKeeps ==
  ASSUME ApiInv, subject = "request", subject' = subject, RouteStream PROVE ApiInv'
<1>1. /\ apiPhase = "received" /\ request.stream /\ UNCHANGED <<request, keys, unsent, words>>
      /\ ApiTypes /\ ReActInv /\ MultiInv /\ PartsForm /\ AskedOnce
  BY DEF RouteStream, ApiInv, ApiOwn
<1>2. reactPhase = "idle" /\ multiPhase = "idle"
  BY <1>1 DEF PartsForm, AskedOnce
<1>3. apiPhase' \in {"tools", "agents", "cut"}
  BY DEF RouteStream
<1>4. events' = SentAs(0, 0) /\ events' \in Seq(EventTypes)
  <2>1. SentAs(0, 0) = <<"step-start", "text-start">> /\ SentAs(0, 0) \in Seq(EventTypes)
    BY SentOneMore
  <2> QED
    BY <2>1 DEF RouteStream
<1>5. ApiTypes'
  BY <1>1, <1>3, <1>4 DEF ApiTypes
<1>6. StreamForm'
  BY <1>1, <1>3, <1>4 DEF StreamForm
<1>7. /\ ReActInv' /\ MultiInv' /\ PartsForm' /\ AskedOnce'
  <2>1. CASE apiPhase' = "tools"
    <3>1. BeginTools /\ request.tools /\ ~ Batch(request) /\ request.prompt
      BY <2>1 DEF RouteStream
    <3>2. ReActInv' /\ reactPhase' = "generate" /\ MultiInv' /\ multiPhase' = "idle"
      BY <1>1, <1>2, <3>1, ToolsBegin
    <3> QED
      BY <1>1, <2>1, <3>1, <3>2 DEF PartsForm, AskedOnce, Batch
  <2>2. CASE apiPhase' = "agents"
    <3>1. BeginAgents /\ request.prompt
      BY <2>2 DEF RouteStream
    <3>2. ReActInv' /\ reactPhase' = "idle" /\ MultiInv' /\ multiPhase' = "workers"
      BY <1>1, <1>2, <3>1, AgentsBegin
    <3> QED
      BY <1>1, <2>2, <3>1, <3>2 DEF PartsForm, AskedOnce
  <2>3. CASE apiPhase' = "cut"
    <3>1. UNCHANGED <<reactVars, multiVars>>
      BY <2>3 DEF RouteStream
    <3>2. ReActInv' /\ reactPhase' = "idle" /\ MultiInv' /\ multiPhase' = "idle"
      BY <1>1, <1>2, <3>1, ToolsUntouched, AgentsUntouched
    <3> QED
      BY <1>1, <2>3, <3>2 DEF PartsForm, AskedOnce
  <2> QED
    BY <1>3, <2>1, <2>2, <2>3
<1> QED
  BY <1>5, <1>6, <1>7 DEF ApiInv, ApiOwn

\* A part that has its answer delivers it.
LEMMA DeliverKeeps ==
  ASSUME ApiInv, subject = "request", subject' = subject, NEW n \in 1..MaxWords,
         NEW names \in SUBSET {"response", "responses", "final_answer"}, Deliver(n, names),
         apiPhase \in {"tools", "agents", "plain"},
         request.stream => apiPhase # "plain" /\ (reactPhase # "idle" \/ multiPhase = "done")
  PROVE  ApiInv'
<1>1. /\ ApiTypes /\ StreamForm /\ PartsForm /\ ReActInv /\ MultiInv /\ AskedOnce
      /\ words' = n /\ UNCHANGED <<request, reactVars, multiVars>>
      /\ IF request.stream THEN unsent' = Chunks(n) /\ apiPhase' = "sending" /\ UNCHANGED <<keys, events>>
         ELSE keys' = names /\ apiPhase' = "answered" /\ UNCHANGED <<events, unsent>>
  BY DEF ApiInv, ApiOwn, Deliver
<1>2. ReActInv' /\ reactPhase' = reactPhase /\ MultiInv' /\ multiPhase' = multiPhase
  BY <1>1, ToolsUntouched, AgentsUntouched
<1>3. n \in 0..MaxWords /\ n \in Nat
  BY ApiAssumption
<1>4. ApiTypes'
  BY <1>1, <1>3 DEF ApiTypes
<1>5. StreamForm'
  <2>1. CASE request.stream
    <3>1. /\ events' = SentAs(0, 0) /\ apiPhase' = "sending" /\ words' = n /\ unsent' = Chunks(n)
      BY <1>1, <2>1 DEF StreamForm
    <3>2. 0 <= Len(Chunks(n)) /\ unsent' = DeltasAfter(n, 0) /\ ~ (0 > 0)
      BY <1>3, <3>1, ChunksAgain
    <3>3. \E d \in Nat, k \in 0..2 :
            events' = SentAs(d, k) /\ d <= Len(Chunks(words')) /\ unsent' = DeltasAfter(words', d)
              /\ (k > 0 => unsent' = <<>>)
      BY <3>1, <3>2
    <3> QED
      BY <3>1, <3>3 DEF StreamForm
  <2> QED
    BY <1>1, <2>1 DEF StreamForm
<1>6. PartsForm'
  BY <1>1, <1>2 DEF PartsForm, Batch
<1>7. AskedOnce'
  BY <1>1, RequestFields DEF AskedOnce
<1> QED
  BY <1>2, <1>4, <1>5, <1>6, <1>7 DEF ApiInv, ApiOwn

LEMMA AnswersKeep ==
  ASSUME ApiInv, subject = "request", subject' = subject, NEW n \in 1..MaxWords,
         ToolsAnswer(n) \/ AgentsAnswer(n) \/ PlainAnswer(n)
  PROVE  ApiInv'
<1>0. ReActInv /\ StreamForm /\ PartsForm
  BY DEF ApiInv, ApiOwn
<1>1. CASE ToolsAnswer(n)
  <2>1. apiPhase = "tools" /\ reactPhase # "idle" /\ Deliver(n, {"response"})
    BY <1>1 DEF ToolsAnswer, ReActReturned
  <2> QED
    BY <2>1, DeliverKeeps
<1>2. CASE AgentsAnswer(n)
  <2>1. apiPhase = "agents" /\ multiPhase = "done" /\ Deliver(n, {"final_answer"})
    BY <1>2 DEF AgentsAnswer
  <2> QED
    BY <2>1, DeliverKeeps
<1>3. CASE PlainAnswer(n)
  <2> DEFINE names == IF Batch(request) THEN {"responses"} ELSE {"response"}
  <2>1. apiPhase = "plain" /\ Deliver(n, names)
    BY <1>3 DEF PlainAnswer
  <2>2. ~ request.stream
    BY <1>0, <2>1 DEF StreamForm
  <2>3. names \in SUBSET {"response", "responses", "final_answer"}
    OBVIOUS
  <2> QED
    BY <2>1, <2>2, <2>3, DeliverKeeps
<1> QED
  BY <1>1, <1>2, <1>3

\* Steps that end a request, or fail it, and leave its parts alone.
LEMMA EndsKeep ==
  ASSUME ApiInv, subject = "request", subject' = subject,
         PartRaises \/ ApprovalAnswer \/ Unavailable \/ Disconnect
  PROVE  ApiInv'
<1>1. /\ ApiTypes /\ StreamForm /\ PartsForm /\ ReActInv /\ MultiInv /\ AskedOnce
      /\ UNCHANGED <<request, events, unsent, words, reactVars, multiVars>>
  BY DEF ApiInv, ApiOwn, PartRaises, ApprovalAnswer, Unavailable, Disconnect
<1>2. ReActInv' /\ reactPhase' = reactPhase /\ MultiInv' /\ multiPhase' = multiPhase
  BY <1>1, ToolsUntouched, AgentsUntouched
<1>3. /\ apiPhase' \in {"cut", "failed", "answered", "unavailable"}
      /\ keys' \subseteq {"response", "responses", "final_answer", "status"}
  BY <1>1 DEF PartRaises, ApprovalAnswer, Unavailable, Disconnect, ApiTypes
<1>4. ApiTypes'
  BY <1>1, <1>3 DEF ApiTypes
<1>5. apiPhase' = "unavailable" => apiPhase = "received"
  BY DEF PartRaises, ApprovalAnswer, Unavailable, Disconnect
<1>6. request.stream => apiPhase' \in {"cut", "unavailable"}
  BY <1>1 DEF PartRaises, ApprovalAnswer, Unavailable, Disconnect, StreamForm
<1>7. apiPhase' = "cut" => apiPhase \in {"tools", "agents", "sending"} \/ ~ request.stream
  BY <1>1, RequestFields DEF PartRaises, ApprovalAnswer, Unavailable, Disconnect, StreamForm
<1>8. StreamForm'
  <2> SUFFICES ASSUME request.stream PROVE StreamForm'
    BY <1>1 DEF StreamForm
  <2>1. CASE apiPhase' = "unavailable"
    BY <1>1, <1>5, <2>1 DEF StreamForm
  <2>2. CASE apiPhase' = "cut"
    <3>1. \E d \in Nat, k \in 0..2 : events' = SentAs(d, k)
      BY <1>1, <1>7, <2>2 DEF StreamForm
    <3> QED
      BY <2>2, <3>1 DEF StreamForm
  <2> QED
    BY <1>6, <2>1, <2>2
<1>9. PartsForm'
  BY <1>1, <1>2, <1>3, <1>5, <1>6 DEF PartsForm, Batch
<1>10. AskedOnce'
  BY <1>3 DEF AskedOnce
<1> QED
  BY <1>2, <1>4, <1>8, <1>9, <1>10 DEF ApiInv, ApiOwn

LEMMA YieldKeeps ==
  ASSUME ApiInv, subject = "request", subject' = subject, Yield PROVE ApiInv'
<1>1. /\ ApiTypes /\ StreamForm /\ PartsForm /\ ReActInv /\ MultiInv /\ AskedOnce
      /\ apiPhase = "sending" /\ UNCHANGED <<request, keys, words, reactVars, multiVars>>
      /\ request.stream \in BOOLEAN
  BY RequestFields DEF ApiInv, ApiOwn, Yield
<1>2. ReActInv' /\ reactPhase' = reactPhase /\ MultiInv' /\ multiPhase' = multiPhase
  BY <1>1, ToolsUntouched, AgentsUntouched
<1>3. words \in Nat
  BY <1>1, ApiAssumption DEF ApiTypes
<1>4. apiPhase' \in {"sending", "answered"} /\ \E e \in EventTypes : events' = Append(events, e)
  BY <1>1 DEF Yield, After, EventTypes
<1>5. ApiTypes'
  BY <1>1, <1>4 DEF ApiTypes
<1>6. StreamForm'
  <2> SUFFICES ASSUME request.stream PROVE StreamForm'
    BY <1>1 DEF StreamForm
  <2>1. PICK d \in Nat, k \in 0..2 :
          /\ events = SentAs(d, k) /\ d <= Len(Chunks(words)) /\ unsent = DeltasAfter(words, d)
          /\ k > 0 => unsent = <<>>
    BY <1>1 DEF StreamForm
  <2>2. /\ Len(Chunks(words)) \in Nat /\ (unsent = <<>> <=> d = Len(Chunks(words)))
        /\ d < Len(Chunks(words)) => Tail(unsent) = DeltasAfter(words, d + 1)
    BY <1>3, <2>1, ChunksAgain
  <2>3. CASE unsent # <<>>
    <3>1. k = 0 /\ d < Len(Chunks(words)) /\ d + 1 \in Nat /\ d + 1 <= Len(Chunks(words)) /\ 0 \in 0..2
      BY <2>1, <2>2, <2>3
    <3>2. /\ events' = Append(SentAs(d, 0), "text-delta") /\ unsent' = DeltasAfter(words, d + 1)
          /\ apiPhase' = "sending"
      BY <1>1, <2>1, <2>2, <2>3, <3>1 DEF Yield
    <3>3. events' = SentAs(d + 1, 0)
      BY <3>2, SentOneMore
    <3>4. \E e \in Nat, j \in 0..2 :
            events' = SentAs(e, j) /\ e <= Len(Chunks(words')) /\ unsent' = DeltasAfter(words', e)
              /\ (j > 0 => unsent' = <<>>)
      <4>1. ~ (0 > 0)
        OBVIOUS
      <4> QED
        BY <1>1, <3>1, <3>2, <3>3, <4>1
    <3> QED
      BY <3>2, <3>4 DEF StreamForm
  <2>4. CASE unsent = <<>>
    <3>1. Last(events) = IF k > 0 THEN Ending[k] ELSE IF d > 0 THEN "text-delta" ELSE "text-start"
      BY <2>1, SentCounts
    <3>2. After(Last(events)) = Ending[k + 1] /\ (Last(events) = "step-finish" <=> k = 2)
      <4>1. Ending[1] = "text-end" /\ Ending[2] = "step-finish" /\ Ending[3] = "finish"
        BY DEF Ending
      <4>2. k = 0 \/ k = 1 \/ k = 2
        OBVIOUS
      <4> QED
        BY <3>1, <4>1, <4>2 DEF After
    <3>3. /\ events' = Append(SentAs(d, k), Ending[k + 1]) /\ unsent' = unsent
          /\ apiPhase' = IF k = 2 THEN "answered" ELSE "sending"
      BY <1>1, <2>1, <2>4, <3>2 DEF Yield
    <3>4. events' = SentAs(d, k + 1)
      BY <3>3, SentOneMore
    <3>5. CASE k = 2
      <4>1. apiPhase' = "answered" /\ events' = SentAs(Len(Chunks(words')), 3)
        <5>1. 2 + 1 = 3 /\ d = Len(Chunks(words))
          BY <2>2, <2>4
        <5> QED
          BY <1>1, <3>3, <3>4, <3>5, <5>1
      <4> QED
        BY <4>1 DEF StreamForm
    <3>6. CASE k # 2
      <4>1. k + 1 \in 0..2 /\ apiPhase' = "sending"
        BY <3>3, <3>6
      <4>2. \E e \in Nat, j \in 0..2 :
              events' = SentAs(e, j) /\ e <= Len(Chunks(words')) /\ unsent' = DeltasAfter(words', e)
                /\ (j > 0 => unsent' = <<>>)
        BY <1>1, <2>1, <2>4, <3>3, <3>4, <4>1
      <4> QED
        BY <4>1, <4>2 DEF StreamForm
    <3> QED
      BY <3>5, <3>6
  <2> QED
    BY <2>3, <2>4
<1>7. PartsForm'
  BY <1>1, <1>2, <1>4 DEF PartsForm, Batch
<1>8. AskedOnce'
  BY <1>4 DEF AskedOnce
<1> QED
  BY <1>2, <1>5, <1>6, <1>7, <1>8 DEF ApiInv, ApiOwn

LEMMA PartStepKeeps ==
  ASSUME ApiInv, subject = "request", subject' = subject, PartStep PROVE ApiInv'
<1>1. /\ ApiTypes /\ StreamForm /\ PartsForm /\ ReActInv /\ MultiInv /\ AskedOnce
      /\ UNCHANGED apiOwnVars
  BY DEF ApiInv, ApiOwn, PartStep
<1>2. UNCHANGED <<request, apiPhase, keys, events, unsent, words>>
  BY <1>1 DEF apiOwnVars
<1>3. ApiTypes' /\ StreamForm'
  BY <1>1, <1>2 DEF ApiTypes, StreamForm
<1>4. CASE apiPhase = "tools" /\ ReActStep /\ UNCHANGED multiVars
  <2>1. ReActInv' /\ MultiInv' /\ multiPhase' = multiPhase
    BY <1>1, <1>4, ReActInvStep, AgentsUntouched
  <2>2. reactPhase # "idle" /\ reactPhase' # "idle"
    BY <1>4 DEF ReActStep, Generate, Answer, GenerateRaises, ExecuteNext, EndTurn, GiveUp
  <2>3. PartsForm' /\ AskedOnce'
    BY <1>1, <1>2, <1>4, <2>1, <2>2 DEF PartsForm, AskedOnce, Batch
  <2> QED
    BY <1>3, <2>1, <2>3 DEF ApiInv, ApiOwn
<1>5. CASE apiPhase = "agents" /\ UNCHANGED reactVars /\ (WorkerRuns \/ JudgeStep)
  <2>1. ReActInv' /\ MultiInv' /\ reactPhase' = reactPhase
    BY <1>1, <1>5, MultiStep, ToolsUntouched
  <2>2. PartsForm' /\ AskedOnce'
    BY <1>1, <1>2, <1>5, <2>1 DEF PartsForm, AskedOnce, Batch
  <2> QED
    BY <1>3, <2>1, <2>2 DEF ApiInv, ApiOwn
<1> QED
  BY <1>4, <1>5 DEF PartStep, WorkerRuns

LEMMA ApiKeeps ==
  ASSUME ApiInv, subject = "request", subject' = subject, ApiNext PROVE ApiInv'
  BY RouteKeeps, RouteStreamKeeps, PartStepKeeps, EndsKeep, YieldKeeps, AnswersKeep DEF ApiNext, ApiStep

\* The question of a behaviour without a request.
LEMMA QuestionKeeps ==
  ASSUME ApiInv, subject = "question", subject' = subject, QuestionNext,
         UNCHANGED <<reactVars, apiOwnVars>>
  PROVE  ApiInv'
<1>1. /\ ApiTypes /\ StreamForm /\ PartsForm /\ ReActInv /\ MultiInv /\ AskedOnce
  BY DEF ApiInv, ApiOwn
<1>2. UNCHANGED <<request, apiPhase, keys, events, unsent, words>> /\ apiPhase = "received"
  BY <1>1 DEF apiOwnVars, AskedOnce
<1>3. ApiTypes' /\ StreamForm'
  BY <1>1, <1>2 DEF ApiTypes, StreamForm
<1>4. AskSome \/ WorkerRuns \/ JudgeStep
  <2>1. Ask(MaxAgents, 2) => AskSome
    <3>1. MaxAgents \in 1..MaxAgents /\ 2 \in Nat
      BY MultiAssumption
    <3> QED
      BY <3>1 DEF AskSome
  <2> QED
    BY <2>1 DEF QuestionNext, WorkerRuns
<1>5. MultiInv' /\ ReActInv' /\ reactPhase' = reactPhase
  BY <1>1, <1>4, MultiStep, ToolsUntouched
<1>6. PartsForm' /\ AskedOnce'
  BY <1>1, <1>2, <1>5 DEF PartsForm, AskedOnce
<1> QED
  BY <1>3, <1>5, <1>6 DEF ApiInv, ApiOwn

LEMMA ApiUntouched ==
  ASSUME ApiInv, subject' = subject, UNCHANGED apiVars PROVE ApiInv'
<1>1. /\ ApiTypes /\ StreamForm /\ PartsForm /\ ReActInv /\ MultiInv /\ AskedOnce
      /\ UNCHANGED <<request, apiPhase, keys, events, unsent, words, reactVars, multiVars>>
  BY DEF ApiInv, ApiOwn, apiVars, apiOwnVars
<1>2. ApiTypes' /\ StreamForm'
  BY <1>1 DEF ApiTypes, StreamForm
<1>3. ReActInv' /\ reactPhase' = reactPhase /\ MultiInv' /\ multiPhase' = multiPhase
  BY <1>1, ToolsUntouched, AgentsUntouched
<1>4. PartsForm' /\ AskedOnce'
  BY <1>1, <1>3 DEF PartsForm, AskedOnce, Batch
<1> QED
  BY <1>2, <1>3, <1>4 DEF ApiInv, ApiOwn

LEMMA GenerationStep ==
  ApiInv /\ [GenerationNext]_generationVars => ApiInv'
<1> SUFFICES ASSUME ApiInv, [GenerationNext]_generationVars PROVE ApiInv'
  OBVIOUS
<1>1. subject' = subject
  BY DEF GenerationNext, ThreadStep, generationVars
<1>2. \/ UNCHANGED apiVars
      \/ subject = "request" /\ ApiNext
      \/ subject = "question" /\ QuestionNext /\ UNCHANGED <<reactVars, apiOwnVars>>
  BY DEF GenerationNext, ThreadStep, generationVars, ApiNext
<1> QED
  BY <1>1, <1>2, ApiUntouched, ApiKeeps, QuestionKeeps

LEMMA ApiInvHolds == ApiInv => AnswersHold /\ ApiTypeOK
<1> SUFFICES ASSUME ApiInv PROVE AnswersHold /\ ApiTypeOK
  OBVIOUS
<1>1. ReActSound /\ ReActTypeOK /\ MultiSound /\ MultiTypeOK
  BY ReActInvHolds, MultiInvHolds DEF ApiInv
<1>2. ApiSound
  BY StreamFormHolds, PartsFormHolds DEF ApiInv, ApiOwn, ApiSound
<1> QED
  BY <1>1, <1>2 DEF ApiInv, ApiOwn, ApiTypes, AnswersHold, ApiTypeOK

\* What a caller is told is whole and in order for any number of turns, calls,
\* agents, words and any size of a chunk: each call has its result behind its
\* response (ReActLoop.run), every agent is heard before the judge and the
\* fallback is the first by name (multi_agent_generate), the deltas of a stream
\* tile its text and only an uncut one has a finish, and tools run only for the
\* requests that may reach them (src/deployment/inference_server.py).
THEOREM AnswersAreWhole == FairGenerationSpec => []AnswersHold
  BY ApiInitially, GenerationStep, ApiInvHolds, PTL DEF FairGenerationSpec

\* The type invariants of the agent, the trainers and the endpoints together.
THEOREM GenerationTypes == FairGenerationSpec => []GenerationTypeOK
<1>1. GenerationInit => TypeOK /\ TrainingTypes
  BY AgentTypesInitially, TrainingTypesInitially DEF GenerationInit
<1>2. [GenerationNext]_generationVars => [Next]_vars /\ [TrainingNext]_trainingVars
  BY DEF GenerationNext, ThreadStep, generationVars, Next, QuestionNext
<1>3. TypeOK /\ TrainingTypes /\ ApiTypeOK => GenerationTypeOK
  BY DEF TrainingTypes, GenerationTypeOK
<1> QED
  BY <1>1, <1>2, <1>3, AgentTypesStep, TrainingTypesStep, ApiInitially, GenerationStep, ApiInvHolds, PTL
     DEF FairGenerationSpec
=============================================================================

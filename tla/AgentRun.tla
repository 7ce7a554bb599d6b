------------------------------ MODULE AgentRun ------------------------------
(***************************************************************************)
(* A run of the plan-and-act agent on a stored session: SessionRunner.run  *)
(* (src/session/runner.py), AgentLoop.run (src/agent/loop.py) and Planner  *)
(* (src/agent/planner.py), while the API interrupts or deletes the session *)
(* (src/deployment/inference_server.py).                                   *)
(*                                                                         *)
(* The model behind generate_fn is external: it may return any plan, use   *)
(* tools that fail, or raise.  `prompted` says which plans it returns: any *)
(* at all, or only those the prompts of create_plan and revise_plan ask    *)
(* for.                                                                    *)
(***************************************************************************)
EXTENDS Naturals, Sequences

CONSTANTS
  Indices,      \* the values of "index" a plan may use
  MaxLen,       \* bound: steps in a plan
  Costs,        \* token counts of a response
  Budget        \* max_steps * 1000

ASSUME AgentAssumption ==
  /\ MaxLen \in Nat
  /\ Costs \subseteq Nat
  /\ Budget \in Nat

VARIABLES
  prompted,     \* the model keeps to the prompts; it does so for a whole run
  phase,        \* where the runner is
  steps,        \* state.plan.steps
  current,      \* state.plan.current_step: the steps before it count as done
  tokens,       \* state.total_tokens
  completions,  \* history: how often a step with this index was completed
  row,          \* status of the session row, "none" once it is deleted
  result        \* RunResult.finished, once the runner has returned

vars == <<prompted, phase, steps, current, tokens, completions, row, result>>

Step == [index : Indices, status : {"pending", "in_progress", "completed", "failed"}]
Pending(i) == [index |-> i, status |-> "pending"]
Plans == UNION {[1..n -> Indices] : n \in 0..MaxLen}

Init ==
  /\ prompted \in BOOLEAN
  /\ phase = "plan"
  /\ steps = <<>> /\ current = 0 /\ tokens = 0
  /\ completions = [i \in Indices |-> 0]
  /\ row = "active"
  /\ result = "none"

-----------------------------------------------------------------------------
(***************************************************************************)
(* The loop.                                                               *)
(***************************************************************************)
\* create_plan; a reply without JSON becomes a plan of one step.
CreatePlan ==
  /\ phase = "plan"
  /\ \E p \in Plans :
       /\ prompted => \A i, j \in DOMAIN p : p[i] = p[j] => i = j
       /\ steps' = [i \in DOMAIN p |-> Pending(p[i])]
  /\ phase' = "loop"
  /\ UNCHANGED <<prompted, current, tokens, completions, row, result>>

LoopGoesOn == current < Len(steps) /\ tokens < Budget

\* Mutant of RunStep: a failed response does not count its tokens.
RunStepUncounted(ok) ==
  /\ phase = "loop" /\ LoopGoesOn
  /\ tokens' = IF ok THEN tokens + 1 ELSE tokens
  /\ steps' = [steps EXCEPT ![current + 1].status = IF ok THEN "completed" ELSE "failed"]
  /\ current' = IF ok THEN current + 1 ELSE current
  /\ phase' = IF ok THEN phase ELSE "revise"
  /\ UNCHANGED <<prompted, completions, row, result>>

\* Mutant of RunStep: current_step moves on after a failure as well.
RunStepOn(ok) ==
  /\ phase = "loop" /\ LoopGoesOn
  /\ \E c \in Costs : tokens' = tokens + c
  /\ steps' = [steps EXCEPT ![current + 1].status = IF ok THEN "completed" ELSE "failed"]
  /\ current' = current + 1
  /\ UNCHANGED <<prompted, phase, completions, row, result>>

\* One response: the step becomes IN_PROGRESS and completes, by text or by
\* tool calls that all succeed, or fails and asks for a revision.
RunStep(ok) ==
  /\ phase = "loop" /\ LoopGoesOn
  /\ \E c \in Costs : tokens' = tokens + c
  /\ steps' = [steps EXCEPT ![current + 1].status = IF ok THEN "completed" ELSE "failed"]
  /\ IF ok
       THEN /\ current' = current + 1
            /\ completions' = [completions EXCEPT ![steps[current + 1].index] = @ + 1]
            /\ UNCHANGED phase
       ELSE /\ phase' = "revise"
            /\ UNCHANGED <<prompted, current, completions>>
  /\ UNCHANGED <<prompted, row, result>>

\* Mutant of Revised: the steps of the old plan are not looked up.
RevisedAfresh(p) == [n \in DOMAIN p |-> Pending(p[n])]

\* revise_plan: a step whose index is that of a completed step (the first
\* step with that index counts) is kept, every other step is new.
Revised(p) ==
  LET First(i) == CHOOSE k \in DOMAIN steps :
        steps[k].index = i /\ \A m \in 1..(k - 1) : steps[m].index # i
  IN [n \in DOMAIN p |->
       IF (\E k \in DOMAIN steps : steps[k].index = p[n])
            /\ steps[First(p[n])].status = "completed"
         THEN steps[First(p[n])] ELSE Pending(p[n])]

\* What the prompt asks for: the completed steps first, as they are, then
\* different ones.
Asked(p) ==
  /\ Len(p) >= current
  /\ \A n \in 1..current : p[n] = steps[n].index
  /\ \A i, j \in DOMAIN p : p[i] = p[j] => i = j

\* revise_plan with a JSON reply.  The plan's steps are replaced in place;
\* current_step stays.
Revise ==
  /\ phase = "revise"
  /\ \E p \in Plans :
       /\ prompted => Asked(p)
       /\ steps' = Revised(p)
  /\ phase' = "loop"
  /\ UNCHANGED <<prompted, current, tokens, completions, row, result>>

\* revise_plan with any other reply keeps the plan: the step is tried again.
KeepPlan ==
  /\ phase = "revise"
  /\ phase' = "loop"
  /\ UNCHANGED <<prompted, steps, current, tokens, completions, row, result>>

\* The while condition is false: state.finished = True in every case.
LeaveLoop ==
  /\ phase = "loop" /\ ~ LoopGoesOn
  /\ phase' = "save"
  /\ UNCHANGED <<prompted, steps, current, tokens, completions, row, result>>

-----------------------------------------------------------------------------
(***************************************************************************)
(* The runner and the API.                                                 *)
(***************************************************************************)
\* Mutant of SetStatus: the runner's phase is stored in its place.
SetStatusPhase(s) == row' = IF row = "none" THEN "none" ELSE phase

\* update_status changes nothing when the row is gone.
SetStatus(s) == row' = IF row = "none" THEN "none" ELSE s

\* The messages are appended, then the status is set.  state.finished is
\* always true: the INTERRUPTED branch is never taken.
Finish ==
  /\ phase = "save"
  /\ SetStatus("finished")
  /\ result' = "finished"
  /\ phase' = "returned"
  /\ UNCHANGED <<prompted, steps, current, tokens, completions>>

\* generate_fn raises in the planner or in the loop.
Fail ==
  /\ phase \in {"plan", "loop", "revise"}
  /\ phase = "loop" => LoopGoesOn
  /\ SetStatus("error")
  /\ result' = "error"
  /\ phase' = "returned"
  /\ UNCHANGED <<prompted, steps, current, tokens, completions>>

\* POST /v1/sessions/{id}/interrupt answers "interrupted".
Interrupt ==
  /\ row # "none"
  /\ row' = "interrupted"
  /\ UNCHANGED <<prompted, phase, steps, current, tokens, completions, result>>

\* DELETE /v1/sessions/{id}
Delete ==
  /\ row # "none"
  /\ row' = "none"
  /\ UNCHANGED <<prompted, phase, steps, current, tokens, completions, result>>

Runner ==
  \/ CreatePlan
  \/ \E ok \in BOOLEAN : RunStep(ok)
  \/ Revise \/ KeepPlan \/ LeaveLoop
  \/ Finish \/ Fail

Next == Runner \/ Interrupt \/ Delete

Spec == Init /\ [][Next]_vars

-----------------------------------------------------------------------------
TypeOK ==
  /\ prompted \in BOOLEAN
  /\ phase \in {"plan", "loop", "revise", "save", "returned"}
  /\ steps \in Seq(Step) /\ Len(steps) <= MaxLen
  /\ current \in 0..MaxLen
  /\ tokens \in Nat
  /\ completions \in [Indices -> Nat]
  /\ row \in {"none", "active", "finished", "interrupted", "error"}
  /\ result \in {"none", "finished", "error"}

\* When the model keeps to the prompt, a run that was not cut short by the
\* token budget returns "finished" only after every step of its plan was
\* completed, however often the plan was revised on the way.
FinishedMeansDone ==
  prompted /\ result = "finished" /\ tokens < Budget =>
    \A n \in DOMAIN steps : steps[n].status = "completed"

\* When the model keeps to the prompt, no step is completed twice and every
\* step before current_step is a completed one: revisions neither repeat
\* nor drop work that is done.
WorkDoneOnce == prompted =>
  /\ \A i \in Indices : completions[i] <= 1
  /\ current <= Len(steps)
  /\ \A n \in 1..current : steps[n].status = "completed"

\* A session that the API reported as interrupted does not become finished
\* (tests/test_api_endpoints.py, test_interrupt_session).
InterruptHolds == [][row = "interrupted" => row' # "finished"]_vars
=============================================================================

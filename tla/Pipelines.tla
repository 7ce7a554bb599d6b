----------------------------- MODULE Pipelines -----------------------------
(***************************************************************************)
(* The LobsterEngine (src/lobster): a pipeline is a text of step names     *)
(* between bars; `run` gives each registered step the output of the one    *)
(* before, `run_with_approval` asks at the given positions first.  An      *)
(* output is modelled by the positions of the steps that made it, and      *)
(* whoever is asked (approval_fn or the terminal) may say anything.        *)
(***************************************************************************)
EXTENDS Integers, Sequences, FiniteSets, SequencesExt

CONSTANTS
  StepNames,     \* names that may be written in a pipeline
  MaxPipeline,   \* bound: names in a pipeline
  MaxRuns        \* bound: pipelines run

ASSUME PipelineAssumption == MaxPipeline \in Nat /\ MaxRuns \in Nat

VARIABLES
  registered,    \* names in LobsterEngine._steps
  pipeline,      \* what parse_pipeline made of the text
  gates,         \* positions at which a known step waits for approval
  position,      \* position of the next step, 0 when no pipeline runs
  current,       \* current_input, as the positions of the steps applied to it
  outcomes,      \* PipelineResult.steps
  approved,      \* PipelineResult.approved
  permitted,     \* history: positions at which somebody said yes
  pipelinesRun   \* pipelines run so far

pipelineVars == <<registered, pipeline, gates, position, current, outcomes, approved,
                  permitted, pipelinesRun>>

Positions == 1 .. MaxPipeline

PipelineInit ==
  /\ registered = {} /\ pipeline = <<>> /\ gates = {} /\ position = 0
  /\ current = <<>> /\ outcomes = <<>> /\ approved = TRUE /\ permitted = {}
  /\ pipelinesRun = 0

\* register, also from a step that runs: names are looked up when their turn comes.
RegisterStep(name) ==
  /\ registered' = registered \cup {name}
  /\ UNCHANGED <<pipeline, gates, position, current, outcomes, approved, permitted, pipelinesRun>>

\* run without or with an approval_fn, which is asked at every known step, and
\* run_with_approval.
BeginPipeline(names, asking) ==
  /\ position = 0 /\ pipelinesRun < MaxRuns
  /\ pipeline' = names /\ gates' = asking
  /\ position' = 1 /\ current' = <<>> /\ outcomes' = <<>> /\ approved' = TRUE /\ permitted' = {}
  /\ pipelinesRun' = pipelinesRun + 1
  /\ UNCHANGED registered

\* The result of the step at `position`, and whether the loop breaks.
Outcome(what, breaks) ==
  /\ outcomes' = Append(outcomes, what)
  /\ position' = IF breaks THEN 0 ELSE position + 1

\* A name that is not registered is recorded and passed over, before any approval.
PassOver ==
  /\ pipeline[position] \notin registered
  /\ Outcome("unknown", FALSE)
  /\ UNCHANGED <<current, approved, permitted>>

\* No, or the end of the input.
Deny ==
  /\ pipeline[position] \in registered /\ position \in gates
  /\ Outcome("denied", TRUE)
  /\ approved' = FALSE
  /\ UNCHANGED <<current, permitted>>

\* The step runs, after a yes where one is needed; its output is the next input.
Run(ok) ==
  /\ pipeline[position] \in registered
  /\ Outcome(IF ok THEN "output" ELSE "error", ~ok)
  /\ current' = IF ok THEN Append(current, position) ELSE current
  /\ permitted' = permitted \cup ({position} \cap gates)
  /\ UNCHANGED approved

RunStep ==
  /\ position \in DOMAIN pipeline
  /\ PassOver \/ Deny \/ \E ok \in BOOLEAN : Run(ok)
  /\ UNCHANGED <<registered, pipeline, gates, pipelinesRun>>

\* The loop is over: the result is returned.
EndPipeline ==
  /\ position = Len(pipeline) + 1 /\ position > 0
  /\ position' = 0
  /\ UNCHANGED <<registered, pipeline, gates, current, outcomes, approved, permitted, pipelinesRun>>

PipelineNext ==
  \/ \E name \in StepNames : RegisterStep(name)
  \/ \E names \in SeqOf(StepNames, MaxPipeline), asking \in SUBSET Positions :
       BeginPipeline(names, asking)
  \/ RunStep \/ EndPipeline

PipelineSpec == PipelineInit /\ [][PipelineNext]_pipelineVars

-----------------------------------------------------------------------------
\* The type invariant.
PipelineTypeOK ==
  /\ registered \subseteq StepNames /\ position \in 0 .. MaxPipeline + 1
  /\ gates \subseteq Positions /\ permitted \subseteq Positions
  /\ outcomes \in Seq({"output", "unknown", "denied", "error"})

\* The outcomes are those of the first names, in order: what is missing comes after
\* the step that was denied or failed, and only a denial takes the approval away.
\* A pipeline of which every step failed to be found counts as approved and done.
StopsWhereItMust ==
  /\ Len(outcomes) <= Len(pipeline)
  /\ \A i \in DOMAIN outcomes : outcomes[i] \in {"denied", "error"} => i = Len(outcomes) /\ position = 0
  /\ (position = 0 /\ Len(outcomes) < Len(pipeline)) =>
       /\ outcomes # <<>> /\ Last(outcomes) \in {"denied", "error"}
  /\ approved <=> \A i \in DOMAIN outcomes : outcomes[i] # "denied"

\* final_output went through exactly the steps that are reported with an output, in
\* their order, and through no step at a gate that nobody permitted; a failure or a
\* denial leaves the last good output as the final one.
OutputIsOfSteps ==
  /\ \A i \in DOMAIN outcomes : outcomes[i] = "output" <=> Contains(current, i)
  /\ \A i, j \in DOMAIN current : i < j => current[i] < current[j]
  /\ Range(current) \cap gates \subseteq permitted

\* A pipeline stops where it must, and its output is of the steps it reports.
PipelinesSound == StopsWhereItMust /\ OutputIsOfSteps
=============================================================================

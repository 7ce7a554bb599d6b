----------------------------- MODULE MCSteering -----------------------------
(***************************************************************************)
(* Small instances of what steers an agent between its tool calls: manual  *)
(* approval, standing approvals and policies, the guard against            *)
(* repetition, the flow runner, pipelines, code mode, checkpoints, the     *)
(* store of tool outputs, the projector and notifications.  They share     *)
(* nothing, so a behaviour exercises one of them, chosen by `subject`, and *)
(* leaves the others as they were at the start.                            *)
(***************************************************************************)
EXTENDS Approvals, Repetition, FlowRunner, Checkpoints, OutputStore, Projector,
        Notifications, ApprovalRuntime, PolicyEngine, Pipelines, CodeMode, TLC

CONSTANTS q1, q2

VARIABLE subject

TwoRequests == {q1, q2}
RequestSymmetry == Permutations(Requests)
BothOrOne == {{"run", "runner"}, {"runner"}}
NoHandlers == << <<>>, <<>>, <<>> >>
SomeHandlers == {NoHandlers, << <<"a", "b">>, <<>>, <<>> >>, << <<"a">>, <<"b">>, <<"a">> >>}

Subjects == {"approvals", "repetition", "flow", "checkpoints", "outputs", "projector",
             "notifications", "runtime", "policies", "pipelines", "code"}

steeringVars == <<subject, vars, repetitionVars, flowVars, checkpointVars, outputVars,
                  projectorVars, noteVars, runtimeVars, policyVars, pipelineVars, codeVars>>

\* What varies at the start of a subject is fixed in the behaviours of others.
SteeringInit ==
  /\ subject \in Subjects
  /\ Init /\ RepetitionInit /\ FlowInit /\ CheckpointInit /\ OutputInit /\ ProjectorInit
  /\ NoteInit /\ RuntimeInit /\ PolicyInit /\ PipelineInit /\ CodeInit
  /\ subject # "approvals" => waits
  /\ subject # "repetition" => \A n \in HistoryLimits : maxHistory <= n
  /\ subject # "flow" => startNode \in FlowNodes
  /\ subject # "notifications" => alone
  /\ subject # "code" => setting = "own" /\ handlerLists = NoHandlers

SteeringNext ==
  /\ UNCHANGED subject
  /\ \/ /\ subject = "approvals" /\ Next
        /\ UNCHANGED <<repetitionVars, flowVars, checkpointVars, outputVars, projectorVars, noteVars,
                       runtimeVars, policyVars, pipelineVars, codeVars>>
     \/ /\ subject = "repetition" /\ RepetitionNext
        /\ UNCHANGED <<vars, flowVars, checkpointVars, outputVars, projectorVars, noteVars,
                       runtimeVars, policyVars, pipelineVars, codeVars>>
     \/ /\ subject = "flow" /\ FlowNext
        /\ UNCHANGED <<vars, repetitionVars, checkpointVars, outputVars, projectorVars, noteVars,
                       runtimeVars, policyVars, pipelineVars, codeVars>>
     \/ /\ subject = "checkpoints" /\ CheckpointNext
        /\ UNCHANGED <<vars, repetitionVars, flowVars, outputVars, projectorVars, noteVars,
                       runtimeVars, policyVars, pipelineVars, codeVars>>
     \/ /\ subject = "outputs" /\ OutputNext
        /\ UNCHANGED <<vars, repetitionVars, flowVars, checkpointVars, projectorVars, noteVars,
                       runtimeVars, policyVars, pipelineVars, codeVars>>
     \/ /\ subject = "projector" /\ ProjectorNext
        /\ UNCHANGED <<vars, repetitionVars, flowVars, checkpointVars, outputVars, noteVars,
                       runtimeVars, policyVars, pipelineVars, codeVars>>
     \/ /\ subject = "notifications" /\ NoteNext
        /\ UNCHANGED <<vars, repetitionVars, flowVars, checkpointVars, outputVars, projectorVars,
                       runtimeVars, policyVars, pipelineVars, codeVars>>
     \/ /\ subject = "runtime" /\ RuntimeNext
        /\ UNCHANGED <<vars, repetitionVars, flowVars, checkpointVars, outputVars, projectorVars,
                       noteVars, policyVars, pipelineVars, codeVars>>
     \/ /\ subject = "policies" /\ PolicyNext
        /\ UNCHANGED <<vars, repetitionVars, flowVars, checkpointVars, outputVars, projectorVars,
                       noteVars, runtimeVars, pipelineVars, codeVars>>
     \/ /\ subject = "pipelines" /\ PipelineNext
        /\ UNCHANGED <<vars, repetitionVars, flowVars, checkpointVars, outputVars, projectorVars,
                       noteVars, runtimeVars, policyVars, codeVars>>
     \/ /\ subject = "code" /\ CodeNext
        /\ UNCHANGED <<vars, repetitionVars, flowVars, checkpointVars, outputVars, projectorVars,
                       noteVars, runtimeVars, policyVars, pipelineVars>>

SteeringSpec == SteeringInit /\ [][SteeringNext]_steeringVars

\* The type invariants of all subjects.
SteeringTypeOK ==
  CASE subject = "approvals" -> TypeOK
    [] subject = "repetition" -> RepetitionTypeOK
    [] subject = "flow" -> FlowTypeOK
    [] subject = "checkpoints" -> CheckpointTypeOK
    [] subject = "outputs" -> OutputTypeOK
    [] subject = "projector" -> ProjectorTypeOK
    [] subject = "notifications" -> NoteTypeOK
    [] subject = "runtime" -> RuntimeTypeOK
    [] subject = "policies" -> PolicyTypeOK
    [] subject = "pipelines" -> PipelineTypeOK
    [] subject = "code" -> CodeTypeOK

\* What was approved for a session stays approved until it is cleared, a request
\* can be answered unless it was replaced, and policies decide by their priority.
GatesSound == RuntimeSound /\ HighestDecides

\* Flows and pipelines run the steps they must, in order, and end where they must.
RunsSound == FlowRunsSound /\ PipelinesSound
=============================================================================

---------------------------- MODULE MCGeneration ----------------------------
(***************************************************************************)
(* Small instances of what asks a model: the run of an agent on a session, *)
(* the generate endpoints with the tool loop and the agents behind them,   *)
(* a question to more agents than there are threads, and the retraining    *)
(* of the model.  A behaviour exercises one of them, chosen by `subject`,  *)
(* and leaves the others as they were at the start.                        *)
(***************************************************************************)
EXTENDS AgentRun, ContinuousTraining, GenerateApi

CONSTANTS t1, t2, code, prose

VARIABLE subject

\* The options of src/training/trainer.py, and those it is called with.
AsBuilt == {"--config", "--from-scratch"}
AllPassed == AsBuilt \cup Passed

\* Trainers without --domain; one without and one with a domain, which share
\* the records of that domain.
TrainsAll == [t \in Trainers |-> All]
TrainsShared == [t \in Trainers |-> IF t = t1 THEN All ELSE code]

generationVars == <<subject, vars, trainingVars, apiVars>>

\* The question runs in the variables of the endpoint's agents.
GenerationInit ==
  /\ subject \in {"agent", "training", "request", "question"}
  /\ Init /\ TrainingInit /\ ApiInit
  /\ subject # "agent" => prompted
  /\ subject # "request" => request = SdkGenerate

\* More agents than threads.
QuestionNext ==
  \/ Ask(MaxAgents, 2)
  \/ \E a \in Polled : WorkerStep(a)
  \/ JudgeStep

\* Threads that go on until they are done.
ThreadStep ==
  /\ UNCHANGED <<subject, trainingVars>>
  /\ \/ subject = "agent" /\ Runner /\ UNCHANGED apiVars
     \/ subject = "request" /\ ApiStep /\ UNCHANGED vars
     \/ subject = "question" /\ QuestionNext /\ UNCHANGED <<vars, reactVars, apiOwnVars>>

GenerationNext ==
  \/ ThreadStep
  \/ /\ UNCHANGED subject
     /\ \/ subject = "agent" /\ (Interrupt \/ Delete) /\ UNCHANGED <<trainingVars, apiVars>>
        \/ subject = "training" /\ TrainingNext /\ UNCHANGED <<vars, apiVars>>
        \/ /\ subject = "request" /\ (Unavailable \/ Disconnect)
           /\ UNCHANGED <<vars, trainingVars>>

\* What runs on threads of its own goes on; retraining as its module says,
\* where none of its fair steps is possible in another subject.
FairGenerationSpec ==
  /\ GenerationInit /\ [][GenerationNext]_generationVars
  /\ WF_generationVars(ThreadStep)
  /\ TrainingFairness

\* The type invariants of all subjects.
GenerationTypeOK == TypeOK /\ TrainingTypeOK /\ ApiTypeOK

\* What a caller is told of the calls, answers and events of its request.
AnswersHold == ReActSound /\ MultiSound /\ ApiSound

\* Whatever the model, the tools and the agents do, every run of an agent
\* (as long as a response counts tokens), every request and every
\* question comes to an end: threads go on and locks are given back.
RunsEnd ==
  <>(\/ subject = "training"
     \/ subject = "agent" /\ phase = "returned"
     \/ subject = "request" /\ apiPhase \in Ended
     \/ subject = "question" /\ multiPhase \in {"done", "raised"})
=============================================================================

----------------------------- MODULE MultiAgent -----------------------------
(***************************************************************************)
(* One question asked of several agents at once and of a judge:            *)
(* run_workers (src/agents/worker.py), judge and multi_agent_generate      *)
(* (src/agents/orchestrator.py), over the lock of the local model          *)
(* (generate_batch in src/deployment/engine.py).                           *)
(*                                                                         *)
(* Agents are numbered in the order of their names.                        *)
(***************************************************************************)
EXTENDS Naturals, Sequences, SequencesExt, FiniteSets

CONSTANT MaxAgents      \* bound: agents that are asked

ASSUME MultiAssumption == MaxAgents \in Nat \ {0}

VARIABLES
  multiPhase,   \* where multi_agent_generate is
  threads,      \* max_workers: threads of the pool
  worker,       \* per agent that was asked, where its thread is
  collected,    \* results: the answers in the order they were collected
  lockOwner,    \* the lock of the local engine: an agent, Judge or Free
  verdict       \* whose final_answer it is: an agent's, the Judge's own text,
                \* an Oddity, which is no text; None before there is one

multiVars == <<multiPhase, threads, worker, collected, lockOwner, verdict>>

Free == 0
None == 0
Judge == MaxAgents + 1
Oddity == MaxAgents + 2

Polled == DOMAIN worker
Failed(a) == worker[a] = "raised"
Unanswered == {a \in Polled : worker[a] \notin {"returned", "raised"}}
InPool == {a \in Polled : worker[a] \in {"called", "locked"}}

MultiInit ==
  /\ multiPhase = "idle" /\ threads = 0
  /\ worker = <<>> /\ collected = <<>> /\ lockOwner = Free /\ verdict = None

\* multi_agent_generate, run_workers: the futures are submitted.
Ask(n, max_workers) ==
  /\ multiPhase = "idle"
  /\ worker' = [a \in 1..n |-> "queued"] /\ threads' = max_workers
  /\ multiPhase' = "workers"
  /\ UNCHANGED <<collected, lockOwner, verdict>>

\* generate_worker_answer begins in a thread of the pool.
CallModel(a) ==
  /\ multiPhase = "workers" /\ worker[a] = "queued"
  /\ Cardinality(InPool) < threads
  /\ worker' = [worker EXCEPT ![a] = "called"]
  /\ UNCHANGED <<threads, multiPhase, collected, lockOwner, verdict>>

\* with self.lock
Lock(a) ==
  /\ worker[a] = "called" /\ lockOwner = Free
  /\ lockOwner' = a /\ worker' = [worker EXCEPT ![a] = "locked"]
  /\ UNCHANGED <<threads, multiPhase, collected, verdict>>

\* The model returns or raises; the lock is released either way.
ModelReturns(a, how) ==
  /\ worker[a] = "locked"
  /\ lockOwner' = Free /\ worker' = [worker EXCEPT ![a] = how]
  /\ UNCHANGED <<threads, multiPhase, collected, verdict>>

\* as_completed yields the futures in any order once they are done; one that
\* raised is collected with a text that says so as its answer.
Collect(a) ==
  /\ multiPhase = "workers"
  /\ worker[a] \in {"returned", "raised"} /\ ~ Contains(collected, a)
  /\ collected' = Append(collected, a)
  /\ UNCHANGED <<threads, multiPhase, worker, lockOwner, verdict>>

\* results.sort by the agent's name
Sorted(answers) ==
  LET named == ToSet(answers)
  IN [n \in 1..Len(answers) |-> CHOOSE a \in named : Cardinality({b \in named : b < a}) = n - 1]

SortAnswers ==
  /\ multiPhase = "workers" /\ Unanswered = {} /\ Len(collected) = Len(worker)
  /\ collected' = Sorted(collected)
  /\ multiPhase' = "judge"
  /\ UNCHANGED <<threads, worker, lockOwner, verdict>>

CallJudge ==
  /\ multiPhase = "judge" /\ lockOwner = Free
  /\ lockOwner' = Judge
  /\ UNCHANGED <<threads, multiPhase, worker, collected, verdict>>

\* judge: the final_answer of a JSON object in the reply decides; without
\* one, or without an object (None), it is the first answer of the sorted
\* list, whatever became of that agent.
JudgeReplies(reply) ==
  /\ multiPhase = "judge" /\ lockOwner = Judge
  /\ verdict' = IF reply \in {Judge, Oddity} THEN reply ELSE collected[1]
  /\ multiPhase' = "done" /\ lockOwner' = Free
  /\ UNCHANGED <<threads, worker, collected>>

\* The judge is asked outside of any try: its error is the caller's.
JudgeRaises ==
  /\ multiPhase = "judge" /\ lockOwner = Judge
  /\ multiPhase' = "raised" /\ lockOwner' = Free
  /\ UNCHANGED <<threads, worker, collected, verdict>>

WorkerStep(a) ==
  \/ CallModel(a) \/ Lock(a) \/ Collect(a)
  \/ \E how \in {"returned", "raised"} : ModelReturns(a, how)

JudgeStep ==
  \/ SortAnswers \/ CallJudge \/ JudgeRaises
  \/ \E reply \in {Judge, Oddity, None} : JudgeReplies(reply)

-----------------------------------------------------------------------------
MultiTypeOK ==
  /\ multiPhase \in {"idle", "workers", "judge", "done", "raised"}
  /\ threads \in Nat
  /\ worker \in BoundedSeq({"queued", "called", "locked", "returned", "raised"}, MaxAgents)
  /\ collected \in BoundedSeq(Polled, MaxAgents)
  /\ lockOwner \in {Free, Judge} \cup Polled
  /\ verdict \in {None, Judge, Oddity} \cup Polled

\* Whatever the order in which the agents end and however many of them fail,
\* the judge is asked about one answer of each, in the order of their names,
\* and only when no agent is still at the model.
EveryAgentIsHeard ==
  multiPhase \in {"judge", "done"} =>
    collected = [n \in Polled |-> n] /\ InPool = {}

\* What is given instead of the judge's answer does not depend on the order in
\* which the agents ended: it is that of the first agent by name, the text
\* of its error included, and the question fails with the judge alone.
FallbackIsFirstByName ==
  /\ multiPhase = "done" /\ verdict \in Polled => verdict = 1
  /\ multiPhase \in {"done", "raised"} => Unanswered = {} /\ lockOwner = Free

MultiSound == EveryAgentIsHeard /\ FallbackIsFirstByName
=============================================================================

---------------------------- MODULE JobProcessor ----------------------------
(***************************************************************************)
(* The background job processor of src/jobs/processor.py: callers enqueue  *)
(* and cancel jobs, worker threads take them from the queue.               *)
(*                                                                         *)
(* The queue and a worker's status change are under self._lock, but        *)
(* enqueue decides whether to start a worker after it has released it, by  *)
(* iterating over the jobs dict: another enqueue in the meantime makes the *)
(* iteration raise RuntimeError, and statuses change under its feet.       *)
(***************************************************************************)
EXTENDS Naturals, Sequences

CONSTANTS
  Callers,      \* threads that call enqueue and cancel
  MaxWorkers,   \* max_workers
  MaxJobs,      \* bound: jobs enqueued
  MaxExits      \* bound: handlers that end their thread (SystemExit)

ASSUME JobAssumption ==
  /\ MaxWorkers \in Nat \ {0}
  /\ MaxJobs \in Nat
  /\ MaxExits \in Nat

VARIABLES
  njobs,        \* size of the jobs dict; jobs are numbered as they are added
  status,       \* status of every job
  queue,        \* the queue of job ids
  caller,       \* per caller, the enqueue it is in
  worker,       \* the threads: the one started by the enqueue of job w is w
  running,      \* self._running
  exits,        \* handlers that have ended their thread
  taken         \* history: the jobs in the order in which they were taken

vars == <<njobs, status, queue, caller, worker, running, exits, taken>>

Jobs == 1..MaxJobs
JobStatuses == {"pending", "running", "completed", "failed", "cancelled"}

\* A caller is idle or in _maybe_process: about to iterate ("added"), or at
\* entry `next` of a dict that had `size` entries, `active` of them RUNNING.
Idle == [step |-> "idle", job |-> 0, size |-> 0, next |-> 0, active |-> 0]

\* A thread: not started, at the loop's test, at the locked block, in the
\* handler of a job, or ended.
Thread(step, job) == [step |-> step, job |-> job]

Init ==
  /\ njobs = 0
  /\ status = [j \in Jobs |-> "pending"]
  /\ queue = <<>>
  /\ caller = [c \in Callers |-> Idle]
  /\ worker = [w \in Jobs |-> Thread("none", 0)]
  /\ running = TRUE
  /\ exits = 0
  /\ taken = <<>>

-----------------------------------------------------------------------------
(***************************************************************************)
(* Callers.                                                                *)
(***************************************************************************)
\* Mutant of Enqueue: the job is queued but not added to the dict.
EnqueueOnly(c) ==
  /\ caller[c].step = "idle"
  /\ njobs < MaxJobs
  /\ queue' = Append(queue, njobs + 1)
  /\ caller' = [caller EXCEPT ![c] = [Idle EXCEPT !.step = "added", !.job = njobs + 1]]
  /\ UNCHANGED <<njobs, status, worker, running, exits, taken>>

\* enqueue, under the lock: the job is added to the dict and to the queue.
Enqueue(c) ==
  /\ caller[c].step = "idle"
  /\ njobs < MaxJobs
  /\ njobs' = njobs + 1
  /\ queue' = Append(queue, njobs + 1)
  /\ caller' = [caller EXCEPT ![c] = [Idle EXCEPT !.step = "added", !.job = njobs + 1]]
  /\ UNCHANGED <<status, worker, running, exits, taken>>

\* _maybe_process: the iterator over the dict is made.
BeginCount(c) ==
  /\ caller[c].step = "added"
  /\ caller' = [caller EXCEPT ![c] =
       [@ EXCEPT !.step = "count", !.size = njobs, !.next = 1]]
  /\ UNCHANGED <<njobs, status, queue, worker, running, exits, taken>>

\* Mutant of CountOne: jobs that are still pending count as well.
CountOneUnfinished(c) ==
  LET k == caller[c] IN
  /\ k.step = "count" /\ njobs = k.size /\ k.next <= k.size
  /\ caller' = [caller EXCEPT ![c] =
       [k EXCEPT !.next = k.next + 1,
                 !.active = IF status[k.next] \in {"pending", "running"} THEN @ + 1 ELSE @]]
  /\ UNCHANGED <<njobs, status, queue, worker, running, exits, taken>>

\* The next job is looked at.
CountOne(c) ==
  LET k == caller[c] IN
  /\ k.step = "count" /\ njobs = k.size /\ k.next <= k.size
  /\ caller' = [caller EXCEPT ![c] =
       [k EXCEPT !.next = k.next + 1,
                 !.active = IF status[k.next] = "running" THEN @ + 1 ELSE @]]
  /\ UNCHANGED <<njobs, status, queue, worker, running, exits, taken>>

\* The dict has grown: RuntimeError leaves enqueue, the job stays queued.
CountRaises(c) ==
  /\ caller[c].step = "count" /\ njobs # caller[c].size
  /\ caller' = [caller EXCEPT ![c] = Idle]
  /\ UNCHANGED <<njobs, status, queue, worker, running, exits, taken>>

\* The count is complete: a thread is started if it is below max_workers.
StartWorker(c) ==
  LET k == caller[c] IN
  /\ k.step = "count" /\ njobs = k.size /\ k.next > k.size
  /\ worker' = IF k.active < MaxWorkers
                 THEN [worker EXCEPT ![k.job] = Thread("test", 0)] ELSE worker
  /\ caller' = [caller EXCEPT ![c] = Idle]
  /\ UNCHANGED <<njobs, status, queue, running, exits, taken>>

\* Mutant of Cancel: the status is not looked at.
CancelAny(c, j) ==
  /\ caller[c].step = "idle"
  /\ j <= njobs
  /\ status' = [status EXCEPT ![j] = "cancelled"]
  /\ UNCHANGED <<njobs, queue, caller, worker, running, exits, taken>>

\* cancel, under the lock.  The job stays in the queue.
Cancel(c, j) ==
  /\ caller[c].step = "idle"
  /\ j <= njobs
  /\ status[j] \in {"pending", "running"}
  /\ status' = [status EXCEPT ![j] = "cancelled"]
  /\ UNCHANGED <<njobs, queue, caller, worker, running, exits, taken>>

Shutdown ==
  /\ running
  /\ running' = FALSE
  /\ UNCHANGED <<njobs, status, queue, caller, worker, exits, taken>>

CallerStep(c) ==
  BeginCount(c) \/ CountOne(c) \/ CountRaises(c) \/ StartWorker(c)

-----------------------------------------------------------------------------
(***************************************************************************)
(* Workers.                                                                *)
(***************************************************************************)
\* while self._running
TestRunning(w) ==
  /\ worker[w].step = "test"
  /\ worker' = [worker EXCEPT ![w] = Thread(IF running THEN "take" ELSE "ended", 0)]
  /\ UNCHANGED <<njobs, status, queue, caller, running, exits, taken>>

\* Mutant of TakeJob: the job is looked at under the lock but popped later.
TakeJobPeek(w) ==
  /\ worker[w].step = "take"
  /\ queue # <<>>
  /\ \E popped \in BOOLEAN : queue' = IF popped THEN Tail(queue) ELSE queue
  /\ status' = [status EXCEPT ![Head(queue)] = "running"]
  /\ worker' = [worker EXCEPT ![w] = Thread("handle", Head(queue))]
  /\ taken' = Append(taken, Head(queue))
  /\ UNCHANGED <<njobs, caller, running, exits>>

\* The locked block: the first job is taken and marked RUNNING, whatever
\* its status was.
TakeJob(w) ==
  /\ worker[w].step = "take"
  /\ queue # <<>>
  /\ queue' = Tail(queue)
  /\ status' = [status EXCEPT ![Head(queue)] = "running"]
  /\ worker' = [worker EXCEPT ![w] = Thread("handle", Head(queue))]
  /\ taken' = Append(taken, Head(queue))
  /\ UNCHANGED <<njobs, caller, running, exits>>

\* The locked block with an empty queue: the thread ends.
FindNothing(w) ==
  /\ worker[w].step = "take"
  /\ queue = <<>>
  /\ worker' = [worker EXCEPT ![w] = Thread("ended", 0)]
  /\ UNCHANGED <<njobs, status, queue, caller, running, exits, taken>>

\* Mutant of FinishJob: the thread serves one job and ends.
FinishJobAndEnd(w, outcome) ==
  /\ worker[w].step = "handle"
  /\ status' = [status EXCEPT ![worker[w].job] = outcome]
  /\ worker' = [worker EXCEPT ![w] = Thread("ended", 0)]
  /\ UNCHANGED <<njobs, queue, caller, running, exits, taken>>

\* The handler returned, raised, or was not registered: COMPLETED or FAILED
\* is stored under the lock, over a CANCELLED that came in between.
FinishJob(w, outcome) ==
  /\ worker[w].step = "handle"
  /\ status' = [status EXCEPT ![worker[w].job] = outcome]
  /\ worker' = [worker EXCEPT ![w] = Thread("test", 0)]
  /\ UNCHANGED <<njobs, queue, caller, running, exits, taken>>

\* The handler raised SystemExit, which `except Exception` lets through:
\* the thread ends and the job stays as it was.
HandlerExits(w) ==
  /\ worker[w].step = "handle"
  /\ exits < MaxExits
  /\ exits' = exits + 1
  /\ worker' = [worker EXCEPT ![w] = Thread("ended", worker[w].job)]
  /\ UNCHANGED <<njobs, status, queue, caller, running, taken>>

WorkerStep(w) ==
  \/ TestRunning(w)
  \/ TakeJob(w)
  \/ FindNothing(w)
  \/ \E outcome \in {"completed", "failed"} : FinishJob(w, outcome)

Next ==
  \/ \E c \in Callers : Enqueue(c) \/ CallerStep(c) \/ \E j \in Jobs : Cancel(c, j)
  \/ \E w \in Jobs : WorkerStep(w) \/ HandlerExits(w)
  \/ Shutdown

Spec == Init /\ [][Next]_vars

\* Started threads and calls run on, and every handler that does not end its
\* thread returns; nobody has to enqueue, cancel or shut down.
Fairness ==
  /\ \A c \in Callers : WF_vars(CallerStep(c))
  /\ \A w \in Jobs : WF_vars(WorkerStep(w))

FairSpec == Spec /\ Fairness

-----------------------------------------------------------------------------
\* Types; a caller that counts is counting for a job that exists.
TypeOK ==
  /\ njobs \in 0..MaxJobs
  /\ status \in [Jobs -> JobStatuses]
  /\ queue \in Seq(1..njobs)
  /\ caller \in [Callers -> [step : {"idle", "added", "count"}, job : 0..njobs,
                             size : 0..njobs, next : 0..(njobs + 1), active : Nat]]
  /\ \A c \in Callers : caller[c].step # "idle" => caller[c].job \in 1..njobs
  /\ worker \in [Jobs -> [step : {"none", "test", "take", "handle", "ended"}, job : 0..njobs]]
  /\ \A w \in Jobs : worker[w].step = "handle" => worker[w].job \in 1..njobs
  /\ running \in BOOLEAN
  /\ exits \in 0..MaxExits
  /\ taken \in Seq(1..njobs)

\* Whatever the threads do, jobs are taken in the order in which they were
\* enqueued and none is taken twice (the locked block of _worker).
TakenInOrderOnce ==
  \A i, k \in DOMAIN taken : i < k => taken[i] < taken[k]

\* A job that completed or failed stays so: neither a late cancel nor
\* another worker changes it.
OutcomeIsFinal ==
  [][\A j \in Jobs : status[j] \in {"completed", "failed"} => status'[j] = status[j]]_vars

\* A queued job always has a thread that will come to the queue, or an
\* enqueue that is still to decide, until a handler ends its thread: no
\* wake-up is lost, although the count that decides it is taken without
\* the lock, may see statuses change, and may raise.
Deciding(c) ==
  \/ caller[c].step = "added"
  \/ caller[c].step = "count" /\ njobs = caller[c].size
QueueHasServer ==
  (running /\ exits = 0 /\ queue # <<>>) =>
    \/ \E c \in Callers : Deciding(c)
    \/ \E w \in Jobs : worker[w].step \in {"test", "take", "handle"}

\* Every queued job is taken in the end, unless the processor is shut down
\* or a handler ends its thread.
JobsAreTaken ==
  \A j \in Jobs :
    (\E i \in DOMAIN queue : queue[i] = j)
      ~> ((\E i \in DOMAIN taken : taken[i] = j) \/ ~ running \/ exits > 0)

\* A job whose cancel returned True stays cancelled (tests/test_jobs.py,
\* test_cancel_pending).
CancelIsFinal ==
  [][\A j \in Jobs : status[j] = "cancelled" => status'[j] = "cancelled"]_vars
=============================================================================

---------------------------- MODULE ThreadsProofs ----------------------------
(***************************************************************************)
(* Theorems about what runs in threads or against another process, for any *)
(* number of callers, workers, jobs, tasks, senders, requests and commands:*)
(*   - the job processor: the queue continues the jobs already taken, and a *)
(*     job in a handler is in the hands of one worker;                     *)
(*   - the background tasks: what a task shows follows its thread;         *)
(*   - the wire and the clients of MCP and language servers: what lies in a *)
(*     pipe is what was sent and not yet read, in order;                   *)
(*   - the terminal: what is printed agrees with how far each command is.  *)
(* Then all of them at once, as the specification composes them.           *)
(***************************************************************************)
EXTENDS MCThreads, FiniteSetTheorems, SequenceTheorems, TLAPS

-----------------------------------------------------------------------------
IsAscending(q) == \A i, k \in DOMAIN q : i < k => q[i] < q[k]

\* Jobs are queued in the order of their numbers, behind all that were taken.
QueueOrder ==
  /\ IsAscending(queue)
  /\ IsAscending(taken)
  /\ \A i \in DOMAIN taken, k \in DOMAIN queue : taken[i] < queue[k]

\* A job that is in a handler was taken, has no outcome yet, and is in the
\* hands of one worker.
HandledOnce ==
  \A w \in Jobs : worker[w].step = "handle" =>
    /\ \E i \in DOMAIN taken : taken[i] = worker[w].job
    /\ status[worker[w].job] \in {"running", "cancelled"}
    /\ \A v \in Jobs : worker[v].step = "handle" /\ v # w => worker[v].job # worker[w].job

\* A job that is queued, or not added yet, has no outcome.
WaitingHasNoOutcome ==
  /\ \A k \in DOMAIN queue : status[queue[k]] \in {"pending", "cancelled"}
  /\ \A j \in Jobs : j > njobs => status[j] = "pending"

JobInv == TypeOK /\ QueueOrder /\ HandledOnce /\ WaitingHasNoOutcome

\* Adding a larger number at the end, and dropping the first, keep the order.
LEMMA AppendOrder ==
  ASSUME NEW n \in Nat, NEW q \in Seq(1..n), NEW j \in Nat, IsAscending(q),
         \A i \in DOMAIN q : q[i] < j
  PROVE  /\ IsAscending(Append(q, j))
         /\ DOMAIN Append(q, j) = 1..(Len(q) + 1)
         /\ \A i \in DOMAIN q : Append(q, j)[i] = q[i]
         /\ Append(q, j)[Len(q) + 1] = j
<1>1. DOMAIN q = 1..Len(q) /\ Len(q) \in Nat /\ DOMAIN Append(q, j) = 1..(Len(q) + 1)
  OBVIOUS
<1>2. Append(q, j)[Len(q) + 1] = j
  OBVIOUS
<1>3. \A i \in DOMAIN q : Append(q, j)[i] = q[i] /\ q[i] \in Nat
  BY <1>1
<1>4. \A i \in 1..(Len(q) + 1) : i \in 1..Len(q) \/ i = Len(q) + 1
  OBVIOUS
<1>5. IsAscending(Append(q, j))
  BY <1>1, <1>2, <1>3, <1>4 DEF IsAscending
<1>6. QED
  BY <1>1, <1>2, <1>3, <1>5

LEMMA TailOrder ==
  ASSUME NEW n \in Nat, NEW q \in Seq(1..n), q # <<>>, IsAscending(q)
  PROVE  /\ IsAscending(Tail(q)) /\ Tail(q) \in Seq(1..n)
         /\ Head(q) \in 1..n /\ Head(q) = q[1] /\ 1 \in DOMAIN q
         /\ \A i \in DOMAIN Tail(q) :
              i + 1 \in DOMAIN q /\ Tail(q)[i] = q[i + 1] /\ Head(q) < Tail(q)[i]
<1>1. /\ Len(q) \in Nat /\ Len(q) # 0 /\ DOMAIN q = 1..Len(q)
      /\ Tail(q) \in Seq(1..n) /\ DOMAIN Tail(q) = 1..(Len(q) - 1)
      /\ Head(q) = q[1] /\ Head(q) \in 1..n
  OBVIOUS
<1>2. \A i \in DOMAIN Tail(q) : i + 1 \in DOMAIN q /\ Tail(q)[i] = q[i + 1]
  BY <1>1
<1>3. \A i \in DOMAIN Tail(q) : q[1] < q[i + 1]
  BY <1>1, <1>2 DEF IsAscending
<1>4. IsAscending(Tail(q))
  BY <1>1, <1>2 DEF IsAscending
<1>5. QED
  BY <1>1, <1>2, <1>3, <1>4

LEMMA JobInvInit == Init => JobInv
<1> SUFFICES ASSUME Init PROVE JobInv
  OBVIOUS
<1> USE JobAssumption
<1>1. caller \in [Callers -> [step : {"idle", "added", "count"}, job : 0..njobs,
                    size : 0..njobs, next : 0..(njobs + 1), active : Nat]]
  BY DEF Init, Idle
<1>2. worker \in [Jobs -> [step : {"none", "test", "take", "handle", "ended"}, job : 0..njobs]]
      /\ \A w \in Jobs : worker[w].step = "none"
  BY DEF Init, Thread
<1>3. \A c \in Callers : caller[c].step = "idle"
  BY DEF Init, Idle
<1>4. TypeOK
  BY <1>1, <1>2, <1>3 DEF Init, TypeOK, JobStatuses, Jobs
<1>5. QED
  BY <1>2, <1>4 DEF Init, JobInv, QueueOrder, IsAscending, HandledOnce, WaitingHasNoOutcome

-----------------------------------------------------------------------------
CallerType == [step : {"idle", "added", "count"}, job : 0..njobs, size : 0..njobs,
               next : 0..(njobs + 1), active : Nat]
WorkerType == [step : {"none", "test", "take", "handle", "ended"}, job : 0..njobs]

\* Steps of callers and workers that touch neither queue nor status keep the
\* invariant, when they keep the types and take up no job.
LEMMA FramesOnly ==
  ASSUME JobInv, UNCHANGED <<njobs, status, queue, taken>>,
         running' \in BOOLEAN, exits' \in 0..MaxExits,
         caller' \in [Callers -> CallerType],
         \A c \in Callers : caller'[c].step # "idle" => caller'[c].job \in 1..njobs,
         worker' \in [Jobs -> WorkerType],
         \A w \in Jobs : worker'[w].step = "handle" => worker'[w] = worker[w]
  PROVE  JobInv'
<1>1. TypeOK'
  BY DEF JobInv, TypeOK, CallerType, WorkerType
<1>2. QueueOrder' /\ WaitingHasNoOutcome'
  BY DEF JobInv, QueueOrder, IsAscending, WaitingHasNoOutcome
<1>3. HandledOnce'
  BY DEF JobInv, HandledOnce
<1>4. QED
  BY <1>1, <1>2, <1>3 DEF JobInv

LEMMA ItemsOf == ASSUME NEW S, NEW q \in Seq(S) PROVE \A i \in DOMAIN q : q[i] \in S
  OBVIOUS

\* With one more job, jobs stay jobs, and lists of jobs stay lists of jobs.
LEMMA OneMoreJob ==
  ASSUME NEW n \in Nat
  PROVE  n + 1 \in 1..(n + 1) /\ \A q \in Seq(1..n) : q \in Seq(1..(n + 1))
<1>1. \A i \in 1..n : i \in 1..(n + 1)
  OBVIOUS
<1>2. n + 1 \in 1..(n + 1)
  OBVIOUS
<1>3. ASSUME NEW q \in Seq(1..n) PROVE q \in Seq(1..(n + 1))
  BY <1>1
<1>4. QED
  BY <1>2, <1>3

LEMMA EnqueueKeeps == ASSUME JobInv, NEW c \in Callers, Enqueue(c) PROVE JobInv'
<1> USE JobAssumption
<1> DEFINE frame == [Idle EXCEPT !.step = "added", !.job = njobs + 1]
<1>1. /\ njobs \in Nat /\ njobs < MaxJobs /\ njobs' = njobs + 1 /\ njobs' \in 0..MaxJobs
      /\ queue' = Append(queue, njobs + 1) /\ caller' = [caller EXCEPT ![c] = frame]
      /\ UNCHANGED <<status, worker, running, exits, taken>>
      /\ queue \in Seq(1..njobs) /\ taken \in Seq(1..njobs)
      /\ caller \in [Callers -> CallerType] /\ worker \in [Jobs -> WorkerType]
  <2>1. njobs \in 0..MaxJobs /\ njobs < MaxJobs /\ njobs' = njobs + 1
    BY DEF Enqueue, JobInv, TypeOK
  <2>2. njobs \in Nat /\ njobs' \in 0..MaxJobs
    BY <2>1
  <2>3. /\ queue' = Append(queue, njobs + 1) /\ caller' = [caller EXCEPT ![c] = frame]
        /\ UNCHANGED <<status, worker, running, exits, taken>>
    BY DEF Enqueue
  <2>4. queue \in Seq(1..njobs) /\ taken \in Seq(1..njobs)
    BY DEF JobInv, TypeOK
  <2>5. caller \in [Callers -> CallerType] /\ worker \in [Jobs -> WorkerType]
    BY DEF JobInv, TypeOK, CallerType, WorkerType
  <2>6. QED
    BY <2>1, <2>2, <2>3, <2>4, <2>5
<1>2. queue' \in Seq(1..njobs') /\ taken' \in Seq(1..njobs')
  <2>1. njobs \in Nat /\ njobs' = njobs + 1 /\ taken' = taken /\ queue' = Append(queue, njobs + 1)
    BY <1>1
  <2>2. queue \in Seq(1..njobs) /\ taken \in Seq(1..njobs)
    BY <1>1
  <2>3. /\ queue \in Seq(1..(njobs + 1)) /\ taken \in Seq(1..(njobs + 1))
        /\ njobs + 1 \in 1..(njobs + 1)
    BY <2>1, <2>2, OneMoreJob
  <2>4. Append(queue, njobs + 1) \in Seq(1..(njobs + 1))
    BY <2>3
  <2>5. QED
    BY <2>1, <2>3, <2>4
<1>3. caller' \in [Callers -> CallerType'] /\ frame.step = "added" /\ frame.job \in 1..njobs'
  <2>1. CallerType \subseteq CallerType'
    <3>1. 0..njobs \subseteq 0..njobs' /\ 0..(njobs + 1) \subseteq 0..(njobs' + 1)
      BY <1>1
    <3>2. QED
      BY <3>1 DEF CallerType
  <2>2. /\ njobs + 1 \in 0..njobs' /\ 0 \in 0..njobs' /\ 0 \in 0..(njobs' + 1)
        /\ njobs + 1 \in 1..njobs' /\ 0 \in Nat
    BY <1>1
  <2>3. Idle \in CallerType'
    BY <2>2 DEF Idle, CallerType
  <2>5. frame.step = "added" /\ frame.job = njobs + 1 /\ frame \in CallerType'
    BY <2>2, <2>3 DEF CallerType
  <2> HIDE DEF frame
  <2>4. QED
    BY <2>1, <2>2, <2>5, <1>1
<1>4. worker' \in [Jobs -> WorkerType']
  <2>1. WorkerType \subseteq WorkerType'
    BY <1>1 DEF WorkerType
  <2>2. QED
    BY <2>1, <1>1
<1>5. \A d \in Callers : caller'[d].step # "idle" => caller'[d].job \in 1..njobs'
  <2> HIDE DEF frame
  <2> SUFFICES ASSUME NEW d \in Callers, caller'[d].step # "idle" PROVE caller'[d].job \in 1..njobs'
    OBVIOUS
  <2>1. CASE d = c
    BY <2>1, <1>1, <1>3
  <2>2. CASE d # c
    BY <2>2, <1>1 DEF JobInv, TypeOK
  <2>3. QED
    BY <2>1, <2>2
<1>6. \A w \in Jobs : worker'[w].step = "handle" => worker'[w].job \in 1..njobs'
  <2>1. \A w \in Jobs : worker[w].step = "handle" => worker[w].job \in 1..njobs
    BY DEF JobInv, TypeOK
  <2>2. 1..njobs \subseteq 1..njobs' /\ worker' = worker
    BY <1>1
  <2> QED
    BY <2>1, <2>2
<1>7. TypeOK'
  <2>1. /\ njobs' \in 0..MaxJobs /\ status' \in [Jobs -> JobStatuses]
        /\ running' \in BOOLEAN /\ exits' \in 0..MaxExits
    BY <1>1 DEF JobInv, TypeOK
  <2> HIDE DEF frame
  <2> QED
    BY <1>2, <1>3, <1>4, <1>5, <1>6, <2>1 DEF TypeOK, CallerType, WorkerType
<1>8. /\ \A i \in DOMAIN queue : queue[i] < njobs + 1 /\ queue[i] \in 1..njobs
      /\ \A i \in DOMAIN taken : taken[i] < njobs + 1
  <2>1. njobs \in Nat /\ \A n \in 1..njobs : n < njobs + 1
    BY <1>1
  <2>2. (\A i \in DOMAIN queue : queue[i] \in 1..njobs) /\ \A i \in DOMAIN taken : taken[i] \in 1..njobs
    <3>1. queue \in Seq(1..njobs) /\ taken \in Seq(1..njobs)
      BY <1>1
    <3> QED
      BY <3>1, ItemsOf
  <2> QED
    BY <2>1, <2>2
<1>9. /\ IsAscending(queue') /\ DOMAIN queue' = 1..(Len(queue) + 1) /\ DOMAIN queue = 1..Len(queue)
      /\ \A i \in DOMAIN queue : queue'[i] = queue[i]
      /\ queue'[Len(queue) + 1] = njobs + 1
  BY <1>1, <1>8, AppendOrder DEF JobInv, QueueOrder
<1>10. \A k \in DOMAIN queue' : k \in DOMAIN queue \/ queue'[k] = njobs + 1
  <2>1. Len(queue) \in Nat
    BY <1>1
  <2>2. \A k \in 1..(Len(queue) + 1) : k \in 1..Len(queue) \/ k = Len(queue) + 1
    BY <2>1
  <2>3. QED
    BY <2>2, <1>9
<1>11. QueueOrder'
  <2>1. taken' = taken /\ IsAscending(taken')
    BY <1>1 DEF JobInv, QueueOrder
  <2>2. ASSUME NEW i \in DOMAIN taken', NEW k \in DOMAIN queue' PROVE taken'[i] < queue'[k]
    <3>1. CASE k \in DOMAIN queue
      BY <3>1, <2>1, <1>9 DEF JobInv, QueueOrder
    <3>2. CASE queue'[k] = njobs + 1
      BY <3>2, <2>1, <1>8
    <3>3. QED
      BY <3>1, <3>2, <1>10
  <2>3. QED
    BY <2>1, <2>2, <1>9 DEF QueueOrder
<1>12. HandledOnce'
  BY <1>1 DEF JobInv, HandledOnce
<1>13. WaitingHasNoOutcome'
  <2>1. status[njobs + 1] = "pending"
    BY <1>1 DEF JobInv, WaitingHasNoOutcome, Jobs
  <2>2. QED
    BY <2>1, <1>1, <1>9, <1>10 DEF JobInv, WaitingHasNoOutcome, Jobs
<1>14. QED
  BY <1>7, <1>11, <1>12, <1>13 DEF JobInv

LEMMA CallerStepKeeps == ASSUME JobInv, NEW c \in Callers, CallerStep(c) PROVE JobInv'
<1> USE JobAssumption
<1>1. /\ njobs \in 0..MaxJobs /\ caller \in [Callers -> CallerType] /\ worker \in [Jobs -> WorkerType]
      /\ running \in BOOLEAN /\ exits \in 0..MaxExits
      /\ \A d \in Callers : caller[d].step # "idle" => caller[d].job \in 1..njobs
  BY DEF JobInv, TypeOK, CallerType, WorkerType
<1> DEFINE Sound(f) == f \in CallerType /\ (f.step # "idle" => f.job \in 1..njobs)
<1>2. ASSUME NEW f, Sound(f), caller' = [caller EXCEPT ![c] = f]
      PROVE  /\ caller' \in [Callers -> CallerType]
             /\ \A d \in Callers : caller'[d].step # "idle" => caller'[d].job \in 1..njobs
  BY <1>1, <1>2
<1>3. Sound(Idle)
  BY <1>1 DEF Idle, CallerType
<1> DEFINE k == caller[c]
<1>4. k \in CallerType /\ (k.step # "idle" => k.job \in 1..njobs)
  BY <1>1
<1>5. CASE BeginCount(c)
  <2> DEFINE f == [k EXCEPT !.step = "count", !.size = njobs, !.next = 1]
  <2>1. njobs \in 0..njobs /\ 1 \in 0..(njobs + 1) /\ k.job \in 1..njobs
    BY <1>1, <1>4, <1>5 DEF BeginCount
  <2>2. f \in CallerType /\ f.job = k.job
    BY <2>1, <1>4 DEF CallerType
  <2>3. caller' = [caller EXCEPT ![c] = f]
        /\ UNCHANGED <<njobs, status, queue, worker, running, exits, taken>>
    BY <1>5 DEF BeginCount
  <2> HIDE DEF f
  <2>4. Sound(f)
    BY <2>1, <2>2
  <2>5. QED
    BY <2>3, <2>4, <1>1, <1>2, FramesOnly
<1>6. CASE CountOne(c)
  <2> DEFINE f == [k EXCEPT !.next = k.next + 1,
                          !.active = IF status[k.next] = "running" THEN @ + 1 ELSE @]
  <2>1. k.next + 1 \in 0..(njobs + 1) /\ k.active \in Nat /\ k.active + 1 \in Nat
        /\ k.job \in 1..njobs
    BY <1>1, <1>4, <1>6 DEF CountOne, CallerType
  <2>2. f \in CallerType /\ f.job = k.job
    BY <2>1, <1>4 DEF CallerType
  <2>3. caller' = [caller EXCEPT ![c] = f]
        /\ UNCHANGED <<njobs, status, queue, worker, running, exits, taken>>
    BY <1>6 DEF CountOne
  <2> HIDE DEF f
  <2>4. Sound(f)
    BY <2>1, <2>2
  <2>5. QED
    BY <2>3, <2>4, <1>1, <1>2, FramesOnly
<1>7. CASE CountRaises(c)
  BY <1>1, <1>2, <1>3, <1>7, FramesOnly DEF CountRaises
<1>8. CASE StartWorker(c)
  <2>1. Thread("test", 0) \in WorkerType /\ Thread("test", 0).step = "test"
    BY <1>1 DEF Thread, WorkerType
  <2>2. worker' \in [Jobs -> WorkerType]
        /\ \A w \in Jobs : worker'[w].step = "handle" => worker'[w] = worker[w]
    BY <2>1, <1>1, <1>8 DEF StartWorker
  <2>3. QED
    BY <2>2, <1>1, <1>2, <1>3, <1>8, FramesOnly DEF StartWorker
<1>9. QED
  BY <1>5, <1>6, <1>7, <1>8 DEF CallerStep

LEMMA CancelKeeps ==
  ASSUME JobInv, NEW c \in Callers, NEW j \in Jobs, Cancel(c, j) PROVE JobInv'
<1> USE JobAssumption
<1>1. /\ j <= njobs /\ status[j] \in {"pending", "running"}
      /\ status' = [status EXCEPT ![j] = "cancelled"]
      /\ UNCHANGED <<njobs, queue, caller, worker, running, exits, taken>>
  BY DEF Cancel
<1>2. /\ njobs \in 0..MaxJobs /\ status \in [Jobs -> JobStatuses] /\ queue \in Seq(1..njobs)
      /\ \A w \in Jobs : worker[w].step = "handle" => worker[w].job \in 1..njobs
  BY DEF JobInv, TypeOK
<1>3. TypeOK'
  BY <1>1, <1>2 DEF JobInv, TypeOK, JobStatuses
<1>4. QueueOrder'
  BY <1>1 DEF JobInv, QueueOrder, IsAscending
<1>5. 1..njobs \subseteq Jobs /\ \A k \in DOMAIN queue : queue[k] \in 1..njobs
  BY <1>2 DEF Jobs
<1>6. \A i \in Jobs : status'[i] = status[i] \/ (i = j /\ status'[i] = "cancelled")
  BY <1>1, <1>2
<1>7. HandledOnce'
  BY <1>1, <1>2, <1>5, <1>6 DEF JobInv, HandledOnce
<1>8. WaitingHasNoOutcome'
  <2>1. \A i \in Jobs : i > njobs => i # j
    BY <1>1, <1>2 DEF Jobs
  <2>2. \A i \in Jobs : i > njobs => status'[i] = "pending"
    BY <2>1, <1>6 DEF JobInv, WaitingHasNoOutcome
  <2>3. \A k \in DOMAIN queue : status'[queue[k]] \in {"pending", "cancelled"}
    BY <1>5, <1>6 DEF JobInv, WaitingHasNoOutcome
  <2>4. QED
    BY <2>2, <2>3, <1>1 DEF WaitingHasNoOutcome
<1>9. QED
  BY <1>3, <1>4, <1>7, <1>8 DEF JobInv

-----------------------------------------------------------------------------
\* Steps of a thread that take up no job.
LEMMA IdleThreadKeeps ==
  ASSUME JobInv, NEW w \in Jobs, TestRunning(w) \/ FindNothing(w) \/ HandlerExits(w)
  PROVE  JobInv'
<1> USE JobAssumption
<1>1. /\ njobs \in 0..MaxJobs /\ caller \in [Callers -> CallerType] /\ worker \in [Jobs -> WorkerType]
      /\ running \in BOOLEAN /\ exits \in 0..MaxExits
      /\ \A d \in Callers : caller[d].step # "idle" => caller[d].job \in 1..njobs
  BY DEF JobInv, TypeOK, CallerType, WorkerType
<1>2. PICK t : /\ worker' = [worker EXCEPT ![w] = t] /\ t \in WorkerType /\ t.step # "handle"
               /\ exits' \in 0..MaxExits
               /\ UNCHANGED <<njobs, status, queue, caller, running, taken>>
  <2>1. CASE TestRunning(w)
    <3> DEFINE t == Thread(IF running THEN "take" ELSE "ended", 0)
    <3>1. t \in WorkerType /\ t.step # "handle"
      BY <1>1 DEF Thread, WorkerType
    <3> HIDE DEF t
    <3>2. worker' = [worker EXCEPT ![w] = t]
      BY <2>1 DEF TestRunning, t
    <3>3. QED
      BY <3>1, <3>2, <1>1, <2>1 DEF TestRunning
  <2>2. CASE FindNothing(w)
    <3>1. Thread("ended", 0) \in WorkerType /\ Thread("ended", 0).step # "handle"
      BY <1>1 DEF Thread, WorkerType
    <3>2. QED
      BY <3>1, <1>1, <2>2 DEF FindNothing
  <2>3. CASE HandlerExits(w)
    <3> DEFINE t == Thread("ended", worker[w].job)
    <3>1. worker[w].job \in 0..njobs
      BY <1>1 DEF WorkerType
    <3>2. t \in WorkerType /\ t.step # "handle"
      BY <3>1 DEF Thread, WorkerType
    <3>3. exits' \in 0..MaxExits
      BY <1>1, <2>3 DEF HandlerExits
    <3>4. worker' = [worker EXCEPT ![w] = t]
          /\ UNCHANGED <<njobs, status, queue, caller, running, taken>>
      BY <2>3 DEF HandlerExits
    <3> HIDE DEF t
    <3>5. QED
      BY <3>2, <3>3, <3>4
  <2>4. QED
    BY <2>1, <2>2, <2>3
<1>3. /\ worker' \in [Jobs -> WorkerType]
      /\ \A v \in Jobs : worker'[v].step = "handle" => worker'[v] = worker[v]
  BY <1>1, <1>2
<1>4. QED
  BY <1>1, <1>2, <1>3, FramesOnly

LEMMA TakeJobKeeps ==
  ASSUME JobInv, NEW w \in Jobs, TakeJob(w)
  PROVE  JobInv' /\ \A j \in Jobs : status[j] \in {"completed", "failed"} => status'[j] = status[j]
<1> USE JobAssumption
<1> DEFINE h == Head(queue)
<1>1. /\ queue # <<>> /\ queue' = Tail(queue) /\ status' = [status EXCEPT ![h] = "running"]
      /\ worker' = [worker EXCEPT ![w] = Thread("handle", h)] /\ taken' = Append(taken, h)
      /\ UNCHANGED <<njobs, caller, running, exits>>
  BY DEF TakeJob
<1>2. /\ njobs \in 0..MaxJobs /\ njobs \in Nat /\ status \in [Jobs -> JobStatuses]
      /\ queue \in Seq(1..njobs) /\ taken \in Seq(1..njobs) /\ worker \in [Jobs -> WorkerType]
  BY DEF JobInv, TypeOK, WorkerType
<1>3. /\ IsAscending(Tail(queue)) /\ Tail(queue) \in Seq(1..njobs) /\ h \in 1..njobs
      /\ h = queue[1] /\ 1 \in DOMAIN queue
      /\ \A i \in DOMAIN Tail(queue) :
           i + 1 \in DOMAIN queue /\ Tail(queue)[i] = queue[i + 1] /\ h < Tail(queue)[i]
  BY <1>1, <1>2, TailOrder DEF JobInv, QueueOrder
<1> HIDE DEF h
<1>4. \A i \in DOMAIN taken : taken[i] < h
  BY <1>3 DEF JobInv, QueueOrder
<1>5. /\ IsAscending(taken') /\ DOMAIN taken' = 1..(Len(taken) + 1) /\ DOMAIN taken = 1..Len(taken)
      /\ \A i \in DOMAIN taken : taken'[i] = taken[i]
      /\ taken'[Len(taken) + 1] = h
  BY <1>1, <1>2, <1>3, <1>4, AppendOrder DEF JobInv, QueueOrder
<1>6. Len(taken) \in Nat /\ h \in Jobs /\ 1..njobs \subseteq Jobs
  BY <1>2, <1>3 DEF Jobs
<1>7. \A k \in DOMAIN taken' : k \in DOMAIN taken \/ taken'[k] = h
  <2>1. \A k \in 1..(Len(taken) + 1) : k \in 1..Len(taken) \/ k = Len(taken) + 1
    BY <1>6
  <2>2. QED
    BY <2>1, <1>5
<1>8. status[h] \in {"pending", "cancelled"}
  BY <1>3 DEF JobInv, WaitingHasNoOutcome
<1>9. /\ Thread("handle", h) \in WorkerType /\ Thread("handle", h).job = h
      /\ Thread("handle", h).step = "handle"
  BY <1>3 DEF Thread, WorkerType
<1>10. TypeOK'
  <2>1. taken' \in Seq(1..njobs) /\ queue' \in Seq(1..njobs)
    BY <1>1, <1>2, <1>3
  <2>2. status' \in [Jobs -> JobStatuses]
    BY <1>1, <1>2 DEF JobStatuses
  <2>3. /\ worker' \in [Jobs -> WorkerType]
        /\ \A v \in Jobs : worker'[v].step = "handle" => worker'[v].job \in 1..njobs
    BY <1>1, <1>2, <1>3, <1>9 DEF JobInv, TypeOK
  <2>4. QED
    BY <2>1, <2>2, <2>3, <1>1 DEF JobInv, TypeOK, WorkerType
<1>11. QueueOrder'
  <2>1. \A i \in DOMAIN taken', k \in DOMAIN queue' : taken'[i] < queue'[k]
    <3> SUFFICES ASSUME NEW i \in DOMAIN taken', NEW k \in DOMAIN queue' PROVE taken'[i] < queue'[k]
      OBVIOUS
    <3>1. CASE i \in DOMAIN taken
      BY <3>1, <1>1, <1>3, <1>5 DEF JobInv, QueueOrder
    <3>2. CASE taken'[i] = h
      BY <3>2, <1>1, <1>3
    <3>3. QED
      BY <3>1, <3>2, <1>7
  <2>2. QED
    BY <2>1, <1>1, <1>3, <1>5 DEF QueueOrder, IsAscending
<1>12. \A v \in Jobs : worker[v].step = "handle" => worker[v].job # h /\ worker[v].job \in Jobs
  <2> SUFFICES ASSUME NEW v \in Jobs, worker[v].step = "handle"
               PROVE  worker[v].job # h /\ worker[v].job \in Jobs
    OBVIOUS
  <2>1. worker[v].job \in 1..njobs
    BY DEF JobInv, TypeOK
  <2>2. PICK i \in DOMAIN taken : taken[i] = worker[v].job
    BY DEF JobInv, HandledOnce
  <2>3. QED
    BY <2>1, <2>2, <1>3, <1>4, <1>6
<1>13. HandledOnce'
  <2> SUFFICES ASSUME NEW u \in Jobs, worker'[u].step = "handle"
               PROVE  /\ \E i \in DOMAIN taken' : taken'[i] = worker'[u].job
                      /\ status'[worker'[u].job] \in {"running", "cancelled"}
                      /\ \A v \in Jobs : worker'[v].step = "handle" /\ v # u
                                          => worker'[v].job # worker'[u].job
    BY DEF HandledOnce
  <2>1. CASE u = w
    <3>1. worker'[u].job = h /\ \A v \in Jobs : v # u => worker'[v] = worker[v]
      BY <2>1, <1>1, <1>2, <1>9
    <3>2. Len(taken) + 1 \in DOMAIN taken'
      BY <1>5, <1>6
    <3>3. status'[h] = "running"
      BY <1>1, <1>2, <1>6
    <3>4. QED
      BY <3>1, <3>2, <3>3, <1>5, <1>12
  <2>2. CASE u # w
    <3>1. worker'[u] = worker[u] /\ worker[u].job # h /\ worker[u].job \in Jobs
      BY <2>2, <1>1, <1>2, <1>12
    <3>2. status'[worker[u].job] = status[worker[u].job]
      BY <3>1, <1>1, <1>2
    <3>3. \A v \in Jobs : worker'[v].step = "handle" /\ v # u => worker'[v].job # worker[u].job
      <4> SUFFICES ASSUME NEW v \in Jobs, worker'[v].step = "handle", v # u
                   PROVE  worker'[v].job # worker[u].job
        OBVIOUS
      <4>1. CASE v = w
        BY <4>1, <3>1, <1>1, <1>2, <1>9
      <4>2. CASE v # w
        BY <4>2, <3>1, <1>1, <1>2 DEF JobInv, HandledOnce
      <4>3. QED
        BY <4>1, <4>2
    <3>4. \E i \in DOMAIN taken' : taken'[i] = worker[u].job
      <4>1. PICK i \in DOMAIN taken : taken[i] = worker[u].job
        BY <3>1 DEF JobInv, HandledOnce
      <4>2. i \in DOMAIN taken'
        BY <4>1, <1>5, <1>6
      <4>3. QED
        BY <4>1, <4>2, <1>5
    <3>5. QED
      BY <3>1, <3>2, <3>3, <3>4 DEF JobInv, HandledOnce
  <2>3. QED
    BY <2>1, <2>2
<1>14. WaitingHasNoOutcome'
  <2>1. \A k \in DOMAIN queue' : status'[queue'[k]] \in {"pending", "cancelled"}
    <3> SUFFICES ASSUME NEW k \in DOMAIN queue' PROVE status'[queue'[k]] \in {"pending", "cancelled"}
      OBVIOUS
    <3>1. k + 1 \in DOMAIN queue /\ queue'[k] = queue[k + 1] /\ h < queue'[k]
      BY <1>1, <1>3
    <3>2. queue'[k] \in Jobs /\ queue'[k] # h
      BY <3>1, <1>2, <1>3, <1>6
    <3>3. status'[queue'[k]] = status[queue[k + 1]]
      BY <3>1, <3>2, <1>1, <1>2
    <3>4. QED
      BY <3>1, <3>3 DEF JobInv, WaitingHasNoOutcome
  <2>2. \A j \in Jobs : j > njobs => status'[j] = "pending"
    BY <1>1, <1>2, <1>3 DEF JobInv, WaitingHasNoOutcome, Jobs
  <2>3. QED
    BY <2>1, <2>2, <1>1 DEF WaitingHasNoOutcome
<1>15. \A j \in Jobs : status[j] \in {"completed", "failed"} => status'[j] = status[j]
  BY <1>1, <1>2, <1>8
<1>16. QED
  BY <1>10, <1>11, <1>13, <1>14, <1>15 DEF JobInv

LEMMA FinishJobKeeps ==
  ASSUME JobInv, NEW w \in Jobs, NEW outcome \in {"completed", "failed"}, FinishJob(w, outcome)
  PROVE  JobInv' /\ \A j \in Jobs : status[j] \in {"completed", "failed"} => status'[j] = status[j]
<1> USE JobAssumption
<1> DEFINE j == worker[w].job
<1>1. /\ worker[w].step = "handle" /\ status' = [status EXCEPT ![j] = outcome]
      /\ worker' = [worker EXCEPT ![w] = Thread("test", 0)]
      /\ UNCHANGED <<njobs, queue, caller, running, exits, taken>>
  BY DEF FinishJob
<1>2. /\ njobs \in 0..MaxJobs /\ njobs \in Nat /\ status \in [Jobs -> JobStatuses]
      /\ queue \in Seq(1..njobs) /\ taken \in Seq(1..njobs) /\ worker \in [Jobs -> WorkerType]
      /\ j \in 1..njobs
  BY <1>1 DEF JobInv, TypeOK, WorkerType
<1>3. /\ status[j] \in {"running", "cancelled"} /\ \E i \in DOMAIN taken : taken[i] = j
      /\ \A v \in Jobs : worker[v].step = "handle" /\ v # w => worker[v].job # j
  BY <1>1 DEF JobInv, HandledOnce
<1> HIDE DEF j
<1>4. /\ Thread("test", 0) \in WorkerType /\ Thread("test", 0).step = "test"
      /\ j \in Jobs /\ 1..njobs \subseteq Jobs
  BY <1>2 DEF Thread, WorkerType, Jobs
<1>5. \A v \in Jobs : worker'[v].step = "handle" => v # w /\ worker'[v] = worker[v]
  BY <1>1, <1>2, <1>4
<1>6. TypeOK'
  <2>1. status' \in [Jobs -> JobStatuses]
    BY <1>1, <1>2 DEF JobStatuses
  <2>2. worker' \in [Jobs -> WorkerType]
    BY <1>1, <1>2, <1>4
  <2>3. \A v \in Jobs : worker'[v].step = "handle" => worker'[v].job \in 1..njobs
    BY <1>5 DEF JobInv, TypeOK
  <2>4. QED
    BY <2>1, <2>2, <2>3, <1>1 DEF JobInv, TypeOK, WorkerType
<1>7. QueueOrder'
  BY <1>1 DEF JobInv, QueueOrder, IsAscending
<1>8. HandledOnce'
  <2>1. \A v \in Jobs : worker'[v].step = "handle" => status'[worker'[v].job] = status[worker[v].job]
    <3> SUFFICES ASSUME NEW v \in Jobs, worker'[v].step = "handle"
                 PROVE  status'[worker'[v].job] = status[worker[v].job]
      OBVIOUS
    <3>1. v # w /\ worker'[v] = worker[v] /\ worker[v].job # j
      BY <1>3, <1>5
    <3> QED
      BY <1>1, <1>2, <3>1
  <2>2. QED
    BY <2>1, <1>1, <1>5 DEF JobInv, HandledOnce
<1>9. WaitingHasNoOutcome'
  <2>1. \A k \in DOMAIN queue : queue[k] # j /\ queue[k] \in Jobs
    <3>1. PICK i \in DOMAIN taken : taken[i] = j
      BY <1>3
    <3>2. \A k \in DOMAIN queue : j < queue[k] /\ queue[k] \in 1..njobs
      BY <3>1, <1>2 DEF JobInv, QueueOrder
    <3>3. QED
      BY <3>2, <1>2, <1>4
  <2>2. \A i \in Jobs : i # j => status'[i] = status[i]
    BY <1>1, <1>2
  <2>3. \A i \in Jobs : i > njobs => i # j
    BY <1>2 DEF Jobs
  <2>4. QED
    BY <2>1, <2>2, <2>3, <1>1 DEF JobInv, WaitingHasNoOutcome
<1>10. \A i \in Jobs : status[i] \in {"completed", "failed"} => status'[i] = status[i]
  BY <1>1, <1>2, <1>3
<1>11. QED
  BY <1>6, <1>7, <1>8, <1>9, <1>10 DEF JobInv

-----------------------------------------------------------------------------
LEMMA JobInvStep ==
  ASSUME JobInv, [Next]_vars
  PROVE  JobInv' /\ \A j \in Jobs : status[j] \in {"completed", "failed"} => status'[j] = status[j]
<1> DEFINE Final == \A j \in Jobs : status[j] \in {"completed", "failed"} => status'[j] = status[j]
<1> SUFFICES JobInv' /\ Final
  OBVIOUS
<1>1. ASSUME NEW c \in Callers, Enqueue(c) PROVE JobInv' /\ Final
  BY <1>1, EnqueueKeeps DEF Enqueue
<1>2. ASSUME NEW c \in Callers, CallerStep(c) PROVE JobInv' /\ Final
  <2>1. status' = status
    BY <1>2 DEF CallerStep, BeginCount, CountOne, CountRaises, StartWorker
  <2>2. QED
    BY <2>1, <1>2, CallerStepKeeps
<1>3. ASSUME NEW c \in Callers, NEW j \in Jobs, Cancel(c, j) PROVE JobInv' /\ Final
  <2>1. Final
    BY <1>3 DEF Cancel, JobInv, TypeOK
  <2>2. QED
    BY <2>1, <1>3, CancelKeeps
<1>4. ASSUME NEW w \in Jobs, WorkerStep(w) \/ HandlerExits(w) PROVE JobInv' /\ Final
  <2>1. CASE TestRunning(w) \/ FindNothing(w) \/ HandlerExits(w)
    <3>1. status' = status
      BY <2>1 DEF TestRunning, FindNothing, HandlerExits
    <3>2. QED
      BY <2>1, <3>1, IdleThreadKeeps
  <2>2. CASE TakeJob(w)
    BY <2>2, TakeJobKeeps
  <2>3. ASSUME NEW outcome \in {"completed", "failed"}, FinishJob(w, outcome) PROVE JobInv' /\ Final
    BY <2>3, FinishJobKeeps
  <2>4. QED
    BY <1>4, <2>1, <2>2, <2>3 DEF WorkerStep
<1>5. CASE Shutdown
  <2>1. TypeOK' /\ QueueOrder'
    BY <1>5 DEF Shutdown, JobInv, TypeOK, QueueOrder, IsAscending
  <2>2. HandledOnce' /\ WaitingHasNoOutcome'
    BY <1>5 DEF Shutdown, JobInv, HandledOnce, WaitingHasNoOutcome
  <2>3. QED
    BY <2>1, <2>2, <1>5 DEF Shutdown, JobInv
<1>6. CASE UNCHANGED vars
  <2>1. TypeOK' /\ QueueOrder'
    BY <1>6 DEF vars, JobInv, TypeOK, QueueOrder, IsAscending
  <2>2. HandledOnce' /\ WaitingHasNoOutcome'
    BY <1>6 DEF vars, JobInv, HandledOnce, WaitingHasNoOutcome
  <2>3. QED
    BY <2>1, <2>2, <1>6 DEF vars, JobInv
<1> HIDE DEF Final
<1>7. QED
  BY <1>1, <1>2, <1>3, <1>4, <1>5, <1>6 DEF Next

\* Every state of the processor is well-typed, whatever the interleaving of
\* callers and workers.
THEOREM JobTypes == Spec => []TypeOK
<1>1. JobInv => TypeOK
  BY DEF JobInv
<1>2. QED
  BY <1>1, JobInvInit, JobInvStep, PTL DEF Spec

\* The locked blocks of enqueue and _worker take the jobs in the order in
\* which they came, each at most once.
THEOREM JobsTakenInOrder == Spec => []TakenInOrderOnce
<1>1. JobInv => TakenInOrderOnce
  BY DEF JobInv, QueueOrder, IsAscending, TakenInOrderOnce
<1>2. QED
  BY <1>1, JobInvInit, JobInvStep, PTL DEF Spec

\* Once _process_job or _fail has stored an outcome nothing replaces it.
THEOREM OutcomesAreFinal == Spec => OutcomeIsFinal
<1>1. JobInv /\ [Next]_vars => JobInv'
  BY JobInvStep
<1>2. JobInv /\ [Next]_vars =>
        [\A j \in Jobs : status[j] \in {"completed", "failed"} => status'[j] = status[j]]_vars
  BY JobInvStep
<1>3. QED
  BY <1>1, <1>2, JobInvInit, PTL DEF Spec, OutcomeIsFinal

-----------------------------------------------------------------------------
\* Why no wake-up is lost: as long as no handler ended its thread,
\* - a job that is RUNNING is in the hands of a thread,
\* - the thread that an enqueue may start has not been started yet, and
\* - a count that has seen RUNNING jobs, and can still complete, is right that
\*   some thread will come to the queue, or the queue is empty.
Live == \E w \in Jobs : worker[w].step \in {"test", "take", "handle"}

RunningIsHandled ==
  exits = 0 => \A j \in Jobs : status[j] = "running" =>
    \E w \in Jobs : worker[w].step = "handle" /\ worker[w].job = j

ThreadsAreFresh ==
  /\ \A w \in Jobs : w > njobs => worker[w].step = "none"
  /\ \A c \in Callers : caller[c].step # "idle" =>
       /\ worker[caller[c].job].step = "none"
       /\ \A d \in Callers : caller[d].step # "idle" /\ d # c => caller[d].job # caller[c].job

CountedMeansLive ==
  running /\ exits = 0 /\ queue # <<>> =>
    \A c \in Callers : caller[c].step = "count" /\ njobs = caller[c].size
                         /\ caller[c].active # 0 => Live

\* A count begins at the first job with nothing seen.
CountsBegin ==
  \A c \in Callers : /\ caller[c].step = "added" => caller[c].active = 0
                     /\ caller[c].step = "count" => caller[c].next # 0

ServedInv ==
  RunningIsHandled /\ ThreadsAreFresh /\ CountedMeansLive /\ CountsBegin /\ QueueHasServer

LEMMA ServedInitially == Init => ServedInv
<1> SUFFICES ASSUME Init PROVE ServedInv
  OBVIOUS
<1> QED
  BY DEF Init, Idle, Thread, ServedInv, RunningIsHandled, ThreadsAreFresh, CountedMeansLive,
         CountsBegin, QueueHasServer, Jobs

\* The types of what the steps below change.
LEMMA JobShapes ==
  ASSUME JobInv
  PROVE  /\ njobs \in 0..MaxJobs /\ exits \in 0..MaxExits /\ queue \in Seq(1..njobs)
         /\ status \in [Jobs -> JobStatuses]
         /\ caller \in [Callers -> CallerType] /\ worker \in [Jobs -> WorkerType]
         /\ \A c \in Callers : caller[c].step # "idle" => caller[c].job \in 1..njobs
         /\ \A w \in Jobs : worker[w].step = "handle" => worker[w].job \in 1..njobs
BY DEF JobInv, TypeOK, CallerType, WorkerType

\* The new job has a number, and so a thread, that nobody had; whoever was
\* counting will find the dict grown, and the caller is about to count.
LEMMA EnqueueServes ==
  ASSUME JobInv, ServedInv, NEW c \in Callers, Enqueue(c) PROVE ServedInv'
<1> USE JobAssumption
<1> DEFINE frame == [Idle EXCEPT !.step = "added", !.job = njobs + 1]
<1>1. /\ njobs \in Nat /\ njobs < MaxJobs /\ njobs' = njobs + 1
      /\ caller' = [caller EXCEPT ![c] = frame] /\ UNCHANGED <<status, worker, running, exits>>
      /\ frame.step = "added" /\ frame.job = njobs + 1 /\ frame.active = 0
  BY JobShapes DEF Enqueue, Idle
<1>2. /\ \A d \in Callers : d # c => caller'[d] = caller[d]
      /\ caller'[c] = frame
      /\ \A d \in Callers : caller[d].size \in 0..njobs
      /\ \A d \in Callers : caller[d].step # "idle" => caller[d].job \in 1..njobs
  BY <1>1, JobShapes DEF CallerType
<1> HIDE DEF frame
<1>3. RunningIsHandled'
  BY <1>1 DEF ServedInv, RunningIsHandled
<1>4. ThreadsAreFresh'
  <2>1. njobs + 1 \in Jobs /\ worker[njobs + 1].step = "none"
    BY <1>1 DEF ServedInv, ThreadsAreFresh, Jobs
  <2>2. \A w \in Jobs : w > njobs' => worker'[w].step = "none"
    BY <1>1 DEF ServedInv, ThreadsAreFresh, Jobs
  <2>3. \A d \in Callers : caller'[d].step # "idle" => worker'[caller'[d].job].step = "none"
    BY <1>1, <1>2, <2>1 DEF ServedInv, ThreadsAreFresh
  <2>4. \A d, b \in Callers : caller'[d].step # "idle" /\ caller'[b].step # "idle" /\ b # d =>
          caller'[b].job # caller'[d].job
    BY <1>1, <1>2 DEF ServedInv, ThreadsAreFresh
  <2> QED
    BY <2>2, <2>3, <2>4 DEF ThreadsAreFresh
<1>5. CountedMeansLive'
  BY <1>1, <1>2 DEF CountedMeansLive
<1>6. QueueHasServer' /\ CountsBegin'
  BY <1>1, <1>2 DEF QueueHasServer, Deciding, ServedInv, CountsBegin
<1> QED
  BY <1>3, <1>4, <1>5, <1>6 DEF ServedInv

\* The steps of a count: whoever ends one without starting a thread found the
\* dict grown, so that a later enqueue decides, or had seen a RUNNING job.
LEMMA CountServes ==
  ASSUME JobInv, ServedInv, NEW c \in Callers, CallerStep(c) PROVE ServedInv'
<1> USE JobAssumption
<1> DEFINE k == caller[c]
<1>1. /\ UNCHANGED <<njobs, status, queue, running, exits>>
      /\ caller[c].step # "idle"
  BY DEF CallerStep, BeginCount, CountOne, CountRaises, StartWorker
<1>2. /\ k \in CallerType /\ k.job \in 1..njobs /\ k.job \in Jobs
      /\ worker[k.job].step = "none"
  BY <1>1, JobShapes DEF ServedInv, ThreadsAreFresh, Jobs
<1>3. \A d \in Callers : d # c => caller'[d] = caller[d]
  BY JobShapes DEF CallerStep, BeginCount, CountOne, CountRaises, StartWorker
<1>4. /\ caller'[c].step = "idle" \/ (caller'[c].step # "idle" /\ caller'[c].job = k.job)
      /\ CountsBegin'
  <2> SUFFICES \/ caller'[c].step = "idle"
               \/ caller'[c].step = "count" /\ caller'[c].job = k.job /\ caller'[c].next # 0
    BY <1>3 DEF ServedInv, CountsBegin
  <2>1. CASE BeginCount(c)
    BY <2>1, <1>2, JobShapes DEF BeginCount, CallerType
  <2>2. CASE CountOne(c)
    BY <2>2, <1>2, JobShapes DEF CountOne, CallerType
  <2>3. CASE CountRaises(c) \/ StartWorker(c)
    BY <2>3, JobShapes DEF CountRaises, StartWorker, Idle
  <2> QED
    BY <2>1, <2>2, <2>3 DEF CallerStep
<1>5. CASE ~ StartWorker(c)
  <2>1. worker' = worker
    BY <1>5 DEF CallerStep, BeginCount, CountOne, CountRaises
  <2>2. RunningIsHandled' /\ (Live' <=> Live)
    BY <1>1, <2>1 DEF ServedInv, RunningIsHandled, Live
  <2>3. ThreadsAreFresh'
    BY <1>1, <1>2, <1>3, <1>4, <2>1 DEF ServedInv, ThreadsAreFresh
  <2>4. CountedMeansLive'
    <3> SUFFICES ASSUME running, exits = 0, queue # <<>>, NEW d \in Callers,
                        caller'[d].step = "count", njobs = caller'[d].size,
                        caller'[d].active # 0
                 PROVE  Live
      BY <1>1, <2>2 DEF CountedMeansLive
    <3>1. CASE d # c
      BY <3>1, <1>3 DEF ServedInv, CountedMeansLive
    <3>2. CASE d = c /\ BeginCount(c)
      BY <3>2, <1>2, JobShapes DEF BeginCount, ServedInv, CountsBegin, CallerType
    <3>3. CASE d = c /\ CountOne(c)
      <4>1. /\ caller'[c] = [k EXCEPT !.next = k.next + 1,
                  !.active = IF status[k.next] = "running" THEN @ + 1 ELSE @]
            /\ k.step = "count" /\ njobs = k.size /\ k.next <= k.size
        BY <3>3, JobShapes DEF CountOne
      <4>2. CASE status[k.next] = "running"
        <5>1. k.next \in Jobs
          <6>1. k.next # 0 /\ k.next \in 0..(njobs + 1)
            BY <4>1, <1>2 DEF ServedInv, CountsBegin, CallerType
          <6>2. njobs \in Nat /\ njobs <= MaxJobs /\ k.next <= njobs
            BY <4>1, JobShapes
          <6> HIDE DEF k
          <6> QED
            BY <6>1, <6>2 DEF Jobs
        <5> QED
          BY <5>1, <4>2 DEF ServedInv, RunningIsHandled, Live
      <4>3. CASE status[k.next] # "running"
        <5>1. k.active # 0
          BY <4>1, <4>3, <1>2, <3>3 DEF CallerType
        <5> QED
          BY <5>1, <4>1 DEF ServedInv, CountedMeansLive
      <4> QED
        BY <4>2, <4>3
    <3>4. CASE d = c /\ CountRaises(c)
      BY <3>4, JobShapes DEF CountRaises, Idle
    <3> QED
      BY <1>5, <3>1, <3>2, <3>3, <3>4 DEF CallerStep
  <2>5. QueueHasServer'
    <3> SUFFICES ASSUME running, exits = 0, queue # <<>>
                 PROVE  Live \/ \E d \in Callers : Deciding(d)'
      BY <1>1, <2>2 DEF QueueHasServer, Live
    <3>1. Live \/ \E d \in Callers : Deciding(d)
      BY DEF ServedInv, QueueHasServer, Live
    <3>2. ASSUME NEW d \in Callers, d # c, Deciding(d) PROVE Deciding(d)'
      BY <3>2, <1>1, <1>3 DEF Deciding
    <3>3. ASSUME Deciding(c) PROVE Deciding(c)'
      <4>1. CASE BeginCount(c)
        BY <4>1, <1>1, <1>2, JobShapes DEF BeginCount, Deciding, CallerType
      <4>2. CASE CountOne(c)
        BY <4>2, <1>1, <1>2, JobShapes DEF CountOne, Deciding, CallerType
      <4>3. CASE CountRaises(c)
        BY <4>3, <3>3 DEF CountRaises, Deciding
      <4> QED
        BY <1>5, <4>1, <4>2, <4>3 DEF CallerStep
    <3> QED
      BY <3>1, <3>2, <3>3
  <2> QED
    BY <1>4, <2>2, <2>3, <2>4, <2>5 DEF ServedInv
<1>6. CASE StartWorker(c)
  <2>1. /\ k.step = "count" /\ njobs = k.size /\ k.active \in Nat
        /\ caller' = [caller EXCEPT ![c] = Idle]
        /\ worker' = IF k.active < MaxWorkers
                       THEN [worker EXCEPT ![k.job] = Thread("test", 0)] ELSE worker
    BY <1>2, <1>6 DEF StartWorker, CallerType
  <2>2. /\ worker \in [Jobs -> WorkerType] /\ caller'[c].step = "idle"
        /\ \A w \in Jobs : w # k.job => worker'[w] = worker[w]
        /\ worker'[k.job].step \in {"none", "test"}
        /\ worker'[k.job].step = "none" => worker' = worker /\ k.active # 0
    BY <1>2, <2>1, JobShapes DEF Thread, Idle
  <2>3. RunningIsHandled'
    BY <1>1, <1>2, <2>2 DEF ServedInv, RunningIsHandled
  <2>4. ThreadsAreFresh'
    <3>1. \A w \in Jobs : w > njobs => worker'[w].step = "none"
      <4>1. k.job \in 1..njobs /\ njobs \in Nat
        BY <1>2, <2>1, JobShapes
      <4>2. \A w \in Jobs : w > njobs => w # k.job
        BY <4>1
      <4>3. \A w \in Jobs : w > njobs => worker[w].step = "none"
        BY DEF ServedInv, ThreadsAreFresh
      <4> QED
        BY <2>2, <4>2, <4>3
    <3>2. \A d \in Callers : caller'[d].step # "idle" =>
            /\ d # c /\ caller'[d] = caller[d] /\ caller[d].job # k.job /\ caller[d].job \in Jobs
      BY <1>1, <1>3, <2>2, JobShapes DEF ServedInv, ThreadsAreFresh, Jobs
    <3> QED
      BY <1>1, <3>1, <3>2, <2>2 DEF ServedInv, ThreadsAreFresh
  <2>5. running /\ exits = 0 /\ queue # <<>> => Live'
    <3>1. CASE worker'[k.job].step = "test"
      BY <3>1, <1>2 DEF Live
    <3>2. CASE worker'[k.job].step = "none"
      BY <3>2, <2>1, <2>2 DEF ServedInv, CountedMeansLive, Live
    <3> QED
      BY <3>1, <3>2, <2>2
  <2>6. CountedMeansLive' /\ QueueHasServer'
    BY <1>1, <2>5 DEF CountedMeansLive, QueueHasServer, Live
  <2> QED
    BY <1>4, <2>3, <2>4, <2>6 DEF ServedInv
<1> QED
  BY <1>5, <1>6

\* A cancel takes a job from RUNNING, which nothing above minds.
LEMMA CancelServes ==
  ASSUME JobInv, ServedInv, NEW c \in Callers, NEW j \in Jobs, Cancel(c, j) PROVE ServedInv'
<1>1. /\ UNCHANGED <<njobs, queue, caller, worker, running, exits>>
      /\ status' = [status EXCEPT ![j] = "cancelled"] /\ status \in [Jobs -> JobStatuses]
  BY JobShapes DEF Cancel
<1>2. RunningIsHandled'
  BY <1>1 DEF ServedInv, RunningIsHandled
<1>3. ThreadsAreFresh' /\ CountedMeansLive' /\ CountsBegin' /\ QueueHasServer'
  BY <1>1 DEF ServedInv, ThreadsAreFresh, CountedMeansLive, CountsBegin, QueueHasServer, Deciding,
              Live
<1> QED
  BY <1>2, <1>3 DEF ServedInv

\* A thread that has begun stays, until it finds the queue empty or the
\* processor shut down.
LEMMA WorkerServes ==
  ASSUME JobInv, ServedInv, NEW w \in Jobs, WorkerStep(w) \/ HandlerExits(w) PROVE ServedInv'
<1> USE JobAssumption
<1>1. /\ UNCHANGED <<njobs, caller, running>> /\ worker[w].step # "none"
      /\ \A v \in Jobs : v # w => worker'[v] = worker[v]
      /\ exits' # 0 \/ exits' = exits
  BY JobShapes DEF WorkerStep, TestRunning, TakeJob, FindNothing, FinishJob, HandlerExits
<1>2. ThreadsAreFresh' /\ CountsBegin'
  <2>1. \A v \in Jobs : worker[v].step = "none" => worker'[v] = worker[v]
    BY <1>1
  <2>2. \A d \in Callers : caller[d].step # "idle" => caller[d].job \in Jobs
    BY JobShapes DEF Jobs
  <2> QED
    BY <1>1, <2>1, <2>2 DEF ServedInv, ThreadsAreFresh, CountsBegin
<1>3. CASE HandlerExits(w)
  <2>1. exits' # 0
    BY <1>3, JobShapes DEF HandlerExits
  <2> QED
    BY <1>2, <2>1 DEF ServedInv, RunningIsHandled, CountedMeansLive, QueueHasServer
<1>4. CASE WorkerStep(w)
  <2>1. exits' = exits
    BY <1>4 DEF WorkerStep, TestRunning, TakeJob, FindNothing, FinishJob
  <2>2. running /\ queue' # <<>> => Live'
    <3>1. CASE TestRunning(w)
      BY <3>1, JobShapes DEF TestRunning, Live, Thread
    <3>2. CASE TakeJob(w)
      BY <3>2, JobShapes DEF TakeJob, Live, Thread
    <3>3. CASE FindNothing(w)
      BY <3>3 DEF FindNothing
    <3>4. ASSUME NEW outcome \in {"completed", "failed"}, FinishJob(w, outcome)
          PROVE  running /\ queue' # <<>> => Live'
      BY <3>4, JobShapes DEF FinishJob, Live, Thread
    <3> QED
      BY <1>4, <3>1, <3>2, <3>3, <3>4 DEF WorkerStep
  <2>3. CountedMeansLive' /\ QueueHasServer'
    BY <1>1, <2>2 DEF CountedMeansLive, QueueHasServer, Live
  <2>4. RunningIsHandled'
    <3> SUFFICES ASSUME exits = 0, NEW j \in Jobs, status'[j] = "running"
                 PROVE  \E v \in Jobs : worker'[v].step = "handle" /\ worker'[v].job = j
      BY <2>1 DEF RunningIsHandled
    <3>1. CASE TestRunning(w) \/ FindNothing(w)
      <4>1. status' = status /\ worker[w].step # "handle"
        BY <3>1 DEF TestRunning, FindNothing
      <4> QED
        BY <4>1, <1>1 DEF ServedInv, RunningIsHandled
    <3>2. CASE TakeJob(w)
      <4>1. /\ status' = [status EXCEPT ![Head(queue)] = "running"]
            /\ worker'[w].step = "handle" /\ worker'[w].job = Head(queue)
            /\ worker[w].step # "handle"
        BY <3>2, JobShapes DEF TakeJob, Thread
      <4>2. CASE j = Head(queue)
        BY <4>1, <4>2
      <4>3. CASE j # Head(queue)
        <5>1. status[j] = "running"
          BY <4>1, <4>3, JobShapes
        <5> QED
          BY <5>1, <4>1, <1>1 DEF ServedInv, RunningIsHandled
      <4> QED
        BY <4>2, <4>3
    <3>3. ASSUME NEW outcome \in {"completed", "failed"}, FinishJob(w, outcome)
          PROVE  \E v \in Jobs : worker'[v].step = "handle" /\ worker'[v].job = j
      <4>1. /\ status' = [status EXCEPT ![worker[w].job] = outcome]
            /\ worker[w].step = "handle"
        BY <3>3 DEF FinishJob
      <4>2. worker[w].job \in Jobs
        BY <4>1, JobShapes DEF Jobs
      <4>3. j # worker[w].job /\ status[j] = "running"
        BY <4>1, <4>2, JobShapes
      <4> QED
        BY <4>3, <1>1 DEF ServedInv, RunningIsHandled
    <3> QED
      BY <1>4, <3>1, <3>2, <3>3 DEF WorkerStep
  <2> QED
    BY <1>2, <2>3, <2>4 DEF ServedInv
<1> QED
  BY <1>3, <1>4

LEMMA ServedStep == ASSUME JobInv, ServedInv, [Next]_vars PROVE ServedInv'
<1>1. CASE Shutdown
  BY <1>1 DEF Shutdown, ServedInv, RunningIsHandled, ThreadsAreFresh, CountedMeansLive,
              CountsBegin, QueueHasServer
<1>2. CASE UNCHANGED vars
  BY <1>2 DEF vars, ServedInv, RunningIsHandled, ThreadsAreFresh, CountedMeansLive,
              CountsBegin, QueueHasServer, Deciding, Live
<1> QED
  BY <1>1, <1>2, EnqueueServes, CountServes, CancelServes, WorkerServes DEF Next

\* No wake-up is lost, for any number of callers, workers and jobs: enqueue
\* decides without the lock whether to start a thread, and a queued job still
\* has a thread or an enqueue that will see to it (_maybe_process, _worker).
THEOREM NoWakeUpIsLost == Spec => []QueueHasServer
<1>1. JobInv /\ ServedInv /\ [Next]_vars => JobInv' /\ ServedInv'
  BY JobInvStep, ServedStep
<1>2. ServedInv => QueueHasServer
  BY DEF ServedInv
<1> QED
  BY <1>1, <1>2, JobInvInit, ServedInitially, PTL DEF Spec

-----------------------------------------------------------------------------
(***************************************************************************)
(* Background tasks.  What a task object shows is fixed by what its thread *)
(* does next.                                                              *)
(***************************************************************************)
Task == [id : TaskIds \cup {"none"}, status : {"created"} \cup RunningStatuses \cup Outcomes,
         exit : {"none", "zero", "other"}, told : BOOLEAN, completedAt : BOOLEAN]

ShellSteps == {"none", "registered", "started", "command", "status", "message", "end", "ended"}

\* What the object of a task shows while its thread is at a step.
Shows(o, step) ==
  /\ step = "none" => o.status = "created"
  /\ step \in {"registered", "started"} => o.status = "starting"
  /\ step \in {"command", "status"} => o.status = "running"
  /\ step = "message" => o.status \in {"killed", "failed"}
  /\ step = "end" => o.status \in Outcomes /\ o.told
  /\ step = "ended" => o.status \in Outcomes \cup {"starting"}
  /\ step \in {"none", "registered", "started", "command", "message"} => o.exit = "none"
  /\ step = "status" => o.exit # "none" /\ o.told
  /\ o.status = "completed" => o.exit = "zero" /\ o.told
  /\ o.status = "failed" /\ o.exit # "none" => o.told
  /\ o.completedAt => step = "ended" /\ o.status \in Outcomes /\ o.told

BackgroundShapes ==
  /\ registry \in [TaskIds -> 0..starts] /\ starts \in 0..MaxStarts
  /\ clearing \subseteq {i \in TaskIds : registry[i] # 0}
  /\ task \in [Objects -> Task] /\ shell \in [Objects -> ShellSteps]

BackgroundInv ==
  /\ BackgroundShapes
  /\ \A i \in TaskIds : registry[i] # 0 => task[registry[i]].id = i
  /\ \A t \in Objects :
       /\ (shell[t] = "none") <=> (t > starts)
       /\ t <= starts => task[t].id \in TaskIds
       /\ Shows(task[t], shell[t])
  /\ ClearedHadEnded

LEMMA BackgroundInitially == BackgroundInit => BackgroundInv
<1> SUFFICES ASSUME BackgroundInit PROVE BackgroundInv
  OBVIOUS
<1>1. NoTask \in Task /\ Shows(NoTask, "none")
  BY DEF NoTask, Task, Shows, RunningStatuses, Outcomes
<1>2. \A t \in Objects : t \in Nat /\ t > 0
  BY BackgroundAssumption DEF Objects
<1>3. BackgroundShapes
  BY <1>1, BackgroundAssumption DEF BackgroundInit, BackgroundShapes, ShellSteps
<1> QED
  BY <1>1, <1>2, <1>3 DEF BackgroundInit, BackgroundInv, ClearedHadEnded

\* A step of the thread of t changes its object, but not the identifier, and
\* never back from an outcome.
LEMMA ThreadStepKeeps ==
  ASSUME BackgroundInv, NEW t \in Objects, NEW from, NEW next \in ShellSteps \ {"none"}, from # "none",
         ThreadStep(t, from, next), NEW o \in Task, task' = [task EXCEPT ![t] = o],
         o.id = task[t].id, Shows(o, next), task[t].status \in Outcomes => o.status \in Outcomes
  PROVE  BackgroundInv'
<1>1. /\ shell[t] = from /\ shell' = [shell EXCEPT ![t] = next]
      /\ registry' = registry /\ starts' = starts /\ clearing' = clearing
  BY DEF ThreadStep
<1>2. /\ \A u \in Objects : task'[u] = IF u = t THEN o ELSE task[u]
      /\ \A u \in Objects : shell'[u] = IF u = t THEN next ELSE shell[u]
  BY <1>1 DEF BackgroundInv, BackgroundShapes
<1>3. BackgroundShapes'
  BY <1>1 DEF BackgroundInv, BackgroundShapes
<1>4. starts \in Nat /\ starts <= MaxStarts /\ \A u \in 1..starts : u \in Objects
  BY BackgroundAssumption DEF BackgroundInv, BackgroundShapes, Objects
<1>5. \A i \in TaskIds : registry[i] # 0 => registry[i] \in Objects
  BY <1>4 DEF BackgroundInv, BackgroundShapes
<1>6. (\A i \in TaskIds : registry[i] # 0 => task[registry[i]].id = i)'
  BY <1>1, <1>2, <1>5 DEF BackgroundInv
<1>7. (\A u \in Objects :
         /\ (shell[u] = "none") <=> (u > starts)
         /\ u <= starts => task[u].id \in TaskIds
         /\ Shows(task[u], shell[u]))'
  BY <1>1, <1>2 DEF BackgroundInv
<1>8. \A u \in Objects : task'[u].id = task[u].id /\ (task[u].status \in Outcomes => task'[u].status \in Outcomes)
  BY <1>2
<1>9. ClearedHadEnded'
  <2> SUFFICES ASSUME NEW u \in 1..starts
               PROVE  registry[task'[u].id] = u \/ task'[u].status \in Outcomes
                        \/ \E v \in (u + 1)..starts : task'[v].id = task'[u].id
    BY <1>1 DEF ClearedHadEnded
  <2>1. u \in Objects /\ \A v \in (u + 1)..starts : v \in Objects
    BY <1>4
  <2> QED
    BY <1>8, <2>1 DEF BackgroundInv, ClearedHadEnded
<1> QED
  BY <1>3, <1>6, <1>7, <1>9 DEF BackgroundInv

LEMMA RunShellKeeps ==
  ASSUME BackgroundInv, NEW t \in Objects, StartThread(t) \/ StartRaises(t) \/ RunShell(t)
  PROVE  BackgroundInv'
<1> DEFINE o == task[t]
<1>1. o \in Task /\ Shows(o, shell[t]) /\ task \in [Objects -> Task]
  BY DEF BackgroundInv, BackgroundShapes
<1> USE DEF ShellSteps, Shows, Outcomes, RunningStatuses
<1>2. ASSUME NEW next \in {"started", "ended"}, ThreadStep(t, "registered", next), task' = task
      PROVE  BackgroundInv'
  <2>1. task' = [task EXCEPT ![t] = o] /\ shell[t] = "registered"
    BY <1>1, <1>2 DEF ThreadStep
  <2>2. Shows(o, next)
    BY <1>1, <2>1
  <2> HIDE DEF o, Shows, Outcomes
  <2> QED
    BY <1>1, <1>2, <2>1, <2>2, ThreadStepKeeps DEF o
<1>3. ASSUME NEW from \in ShellSteps \ {"none"}, NEW next \in ShellSteps \ {"none"}, ThreadStep(t, from, next),
             NEW new, task' = [task EXCEPT ![t] = new], new \in Task, new.id = o.id,
             shell[t] = from => Shows(new, next) /\ (o.status \in Outcomes => new.status \in Outcomes)
      PROVE  BackgroundInv'
  <2>1. Shows(new, next) /\ (o.status \in Outcomes => new.status \in Outcomes)
    BY <1>3 DEF ThreadStep
  <2> HIDE DEF Shows, Outcomes, RunningStatuses, ShellSteps
  <2> QED
    BY <1>3, <2>1, ThreadStepKeeps
<1>4. CASE BeginRun(t)
  <2> DEFINE new == [o EXCEPT !.status = "running"]
  <2>1. task' = [task EXCEPT ![t] = new] /\ ThreadStep(t, "started", "command")
    BY <1>4 DEF BeginRun
  <2>2. new \in Task /\ new.id = o.id /\ (shell[t] = "started" => Shows(new, "command") /\ o.status \notin Outcomes)
    BY <1>1 DEF Task
  <2> HIDE DEF new, o, Shows, Outcomes
  <2> QED
    BY <1>3, <2>1, <2>2
<1>5. CASE StoreStatus(t)
  <2> DEFINE new == [o EXCEPT !.status = IF o.exit = "zero" THEN "completed" ELSE "failed"]
  <2>1. task' = [task EXCEPT ![t] = new] /\ ThreadStep(t, "status", "end")
    BY <1>5 DEF StoreStatus
  <2>2. new \in Task /\ new.id = o.id /\ (shell[t] = "status" => Shows(new, "end") /\ new.status \in Outcomes)
    BY <1>1 DEF Task
  <2> HIDE DEF new, o, Shows, Outcomes
  <2> QED
    BY <1>3, <2>1, <2>2
<1>6. CASE StoreMessage(t)
  <2> DEFINE new == [o EXCEPT !.told = TRUE]
  <2>1. task' = [task EXCEPT ![t] = new] /\ ThreadStep(t, "message", "end")
    BY <1>6 DEF StoreMessage
  <2>2. new \in Task /\ new.id = o.id /\ (shell[t] = "message" => Shows(new, "end") /\ new.status \in Outcomes)
    BY <1>1 DEF Task
  <2> HIDE DEF new, o, Shows, Outcomes
  <2> QED
    BY <1>3, <2>1, <2>2
<1>7. CASE StoreEnd(t)
  <2> DEFINE new == [o EXCEPT !.completedAt = TRUE]
  <2>1. task' = [task EXCEPT ![t] = new] /\ ThreadStep(t, "end", "ended")
    BY <1>7 DEF StoreEnd
  <2>2. new \in Task /\ new.id = o.id /\ (shell[t] = "end" => Shows(new, "ended") /\ new.status \in Outcomes)
    BY <1>1 DEF Task
  <2> HIDE DEF new, o, Shows, Outcomes
  <2> QED
    BY <1>3, <2>1, <2>2
<1>8. ASSUME NEW outcome \in {"killed", "failed"}, ThreadStep(t, "command", "message"),
             task' = [task EXCEPT ![t].status = outcome]
      PROVE  BackgroundInv'
  <2> DEFINE new == [o EXCEPT !.status = outcome]
  <2>1. task' = [task EXCEPT ![t] = new]
    BY <1>8
  <2>2. new \in Task /\ new.id = o.id /\ (shell[t] = "command" => Shows(new, "message") /\ new.status \in Outcomes)
    BY <1>1 DEF Task
  <2> HIDE DEF new, o, Shows, Outcomes
  <2>3. {"command", "message"} \subseteq ShellSteps \ {"none"}
    OBVIOUS
  <2> QED
    BY <1>3, <1>8, <2>1, <2>2, <2>3
<1>9. ASSUME NEW code \in {"zero", "other"}, CommandReturns(t, code)
      PROVE  BackgroundInv'
  <2> DEFINE new == [o EXCEPT !.told = TRUE, !.exit = code]
  <2>1. task' = [task EXCEPT ![t] = new] /\ ThreadStep(t, "command", "status")
    BY <1>9 DEF CommandReturns
  <2>2. new \in Task /\ new.id = o.id /\ (shell[t] = "command" => Shows(new, "status") /\ o.status \notin Outcomes)
    BY <1>1 DEF Task
  <2> HIDE DEF new, o, Shows, Outcomes
  <2>3. {"command", "status"} \subseteq ShellSteps \ {"none"}
    OBVIOUS
  <2> QED
    BY <1>3, <2>1, <2>2, <2>3
<1> QED
  BY <1>2, <1>4, <1>5, <1>6, <1>7, <1>8, <1>9
  DEF StartThread, StartRaises, RunShell, CommandTimesOut, CommandRaises

LEMMA RegisterKeeps ==
  ASSUME BackgroundInv, NEW i \in TaskIds, Register(i)
  PROVE  BackgroundInv'
<1> DEFINE n == starts + 1
           new == StartingTask(i)
<1>1. /\ starts \in Nat /\ n \in Objects /\ n \in Nat /\ starts' = n /\ n <= MaxStarts /\ n # 0
      /\ clearing = {} /\ clearing' = {}
  BY BackgroundAssumption DEF Register, BackgroundInv, BackgroundShapes, Objects, LockFree
<1>2. /\ new \in Task /\ new.id = i /\ Shows(new, "registered")
  BY DEF StartingTask, NoTask, Task, Shows, RunningStatuses, Outcomes
<1> HIDE DEF new
<1>3. /\ registry' = [registry EXCEPT ![i] = n] /\ task' = [task EXCEPT ![n] = new]
      /\ shell' = [shell EXCEPT ![n] = "registered"]
  BY DEF Register, new
<1>4. registry \in [TaskIds -> 0..starts] /\ task \in [Objects -> Task] /\ shell \in [Objects -> ShellSteps]
  BY DEF BackgroundInv, BackgroundShapes
<1> HIDE DEF n
<1>5. /\ \A j \in TaskIds : registry'[j] = IF j = i THEN n ELSE registry[j]
      /\ \A u \in Objects : task'[u] = IF u = n THEN new ELSE task[u]
      /\ \A u \in Objects : shell'[u] = IF u = n THEN "registered" ELSE shell[u]
  BY <1>3, <1>4
<1>6. \A j \in TaskIds : registry[j] \in 0..starts /\ registry[j] # n /\ registry[j] \in 0..n
                         /\ (registry[j] # 0 => registry[j] \in Objects)
  <2> SUFFICES ASSUME NEW j \in TaskIds
               PROVE  registry[j] \in 0..starts /\ registry[j] # n /\ registry[j] \in 0..n
                        /\ (registry[j] # 0 => registry[j] \in Objects)
    OBVIOUS
  <2>1. registry[j] \in 0..starts
    BY <1>4
  <2>2. starts \in Nat /\ n = starts + 1 /\ n <= MaxStarts /\ MaxStarts \in Nat
    BY <1>1, BackgroundAssumption DEF n
  <2> QED
    BY <2>1, <2>2 DEF Objects
<1>7. BackgroundShapes'
  <2>1. registry' \in [TaskIds -> 0..n]
    BY <1>1, <1>3, <1>6, <1>4
  <2> QED
    BY <1>1, <1>2, <1>3, <1>4, <2>1 DEF BackgroundShapes, ShellSteps
<1>8. (\A j \in TaskIds : registry[j] # 0 => task[registry[j]].id = j)'
  BY <1>1, <1>2, <1>5, <1>6 DEF BackgroundInv
<1>9. (\A u \in Objects :
         /\ (shell[u] = "none") <=> (u > starts)
         /\ u <= starts => task[u].id \in TaskIds
         /\ Shows(task[u], shell[u]))'
  <2> SUFFICES ASSUME NEW u \in Objects
               PROVE  /\ (shell'[u] = "none") <=> (u > n)
                      /\ u <= n => task'[u].id \in TaskIds
                      /\ Shows(task'[u], shell'[u])
    BY <1>1
  <2>1. u \in Nat
    BY BackgroundAssumption DEF Objects
  <2>2. CASE u = n
    BY <1>1, <1>2, <1>5, <2>2
  <2>3. CASE u # n
    <3>1. task'[u] = task[u] /\ shell'[u] = shell[u] /\ (u > n <=> u > starts) /\ (u <= n <=> u <= starts)
      BY <1>1, <1>5, <2>1, <2>3 DEF n
    <3> QED
      BY <3>1 DEF BackgroundInv
  <2> QED
    BY <2>2, <2>3
<1>10. ClearedHadEnded'
  <2> SUFFICES ASSUME NEW u \in 1..n
               PROVE  registry'[task'[u].id] = u \/ task'[u].status \in Outcomes
                        \/ \E v \in (u + 1)..n : task'[v].id = task'[u].id
    BY <1>1 DEF ClearedHadEnded
  <2>1. CASE u = n
    BY <1>1, <1>2, <1>5, <2>1
  <2>2. CASE u # n
    <3>1. u \in 1..starts /\ u \in Objects /\ n \in (u + 1)..n /\ u <= starts
      <4>1. starts \in Nat /\ n = starts + 1 /\ n <= MaxStarts /\ MaxStarts \in Nat
        BY <1>1, BackgroundAssumption DEF n
      <4> QED
        BY <2>2, <4>1 DEF Objects
    <3>2. task'[u] = task[u] /\ task[u].id \in TaskIds
      BY <1>5, <2>2, <3>1 DEF BackgroundInv
    <3>3. registry[task[u].id] = u \/ task[u].status \in Outcomes
            \/ \E v \in (u + 1)..starts : task[v].id = task[u].id
      BY <3>1 DEF BackgroundInv, ClearedHadEnded
    <3>4. ASSUME NEW v \in (u + 1)..starts PROVE v \in (u + 1)..n /\ v \in Objects /\ v # n
      <4>1. starts \in Nat /\ n = starts + 1 /\ n <= MaxStarts /\ MaxStarts \in Nat /\ u \in Nat
        BY <1>1, <3>1, BackgroundAssumption DEF n
      <4> QED
        BY <3>4, <4>1 DEF Objects
    <3>5. task'[n].id = i
      BY <1>1, <1>2, <1>5
    <3>6. CASE registry[task[u].id] = u
      BY <1>5, <3>1, <3>2, <3>5, <3>6
    <3>7. CASE \E v \in (u + 1)..starts : task[v].id = task[u].id
      BY <1>5, <3>2, <3>4, <3>7
    <3> QED
      BY <3>2, <3>3, <3>6, <3>7
  <2> QED
    BY <2>1, <2>2
<1> QED
  BY <1>7, <1>8, <1>9, <1>10 DEF BackgroundInv

LEMMA ClearKeeps ==
  ASSUME BackgroundInv, BeginClear \/ \E i \in TaskIds : ClearOne(i)
  PROVE  BackgroundInv'
<1>1. CASE BeginClear
  BY <1>1 DEF BeginClear, BackgroundInv, BackgroundShapes, ClearedHadEnded
<1>2. ASSUME NEW i \in TaskIds, ClearOne(i)
      PROVE  BackgroundInv'
  <2> DEFINE k == registry[i]
  <2>1. /\ UNCHANGED <<task, shell, starts>> /\ clearing' = clearing \ {i} /\ i \in clearing
        /\ registry' = [registry EXCEPT ![i] = IF task[k].status \in RunningStatuses THEN k ELSE 0]
    BY <1>2 DEF ClearOne
  <2>2. registry \in [TaskIds -> 0..starts] /\ starts \in 0..MaxStarts /\ k # 0 /\ k \in 1..starts
        /\ clearing \subseteq {j \in TaskIds : registry[j] # 0}
    BY <2>1, BackgroundAssumption DEF BackgroundInv, BackgroundShapes
  <2>3. \A j \in TaskIds : /\ j # i => registry'[j] = registry[j]
                           /\ registry'[j] \in {registry[j], 0}
    BY <2>1, <2>2
  <2>4. BackgroundShapes'
    <3>1. registry' \in [TaskIds -> 0..starts]
      BY <2>1, <2>2
    <3> QED
      BY <2>1, <2>2, <2>3, <3>1 DEF BackgroundInv, BackgroundShapes
  <2>5. k \in Objects /\ k <= starts /\ k \in Nat /\ starts \in Nat
    BY <2>2, BackgroundAssumption DEF Objects
  <2>6. registry'[i] = 0 => task[k].status \in Outcomes
    <3>1. Shows(task[k], shell[k]) /\ shell[k] # "none" /\ shell[k] \in ShellSteps
      BY <2>5 DEF BackgroundInv, BackgroundShapes
    <3>2. registry'[i] = 0 => task[k].status \notin RunningStatuses
      BY <2>1, <2>2
    <3> QED
      BY <3>1, <3>2 DEF Shows, ShellSteps, RunningStatuses, Outcomes
  <2>7. ClearedHadEnded'
    <3> SUFFICES ASSUME NEW u \in 1..starts
                 PROVE  registry'[task[u].id] = u \/ task[u].status \in Outcomes
                          \/ \E v \in (u + 1)..starts : task[v].id = task[u].id
      BY <2>1 DEF ClearedHadEnded
    <3>1. u \in Objects /\ u <= starts /\ u # 0
      BY <2>2, <2>5, BackgroundAssumption DEF Objects
    <3>2. task[u].id \in TaskIds
      BY <3>1 DEF BackgroundInv
    <3>3. registry[task[u].id] = u \/ task[u].status \in Outcomes
            \/ \E v \in (u + 1)..starts : task[v].id = task[u].id
      BY DEF BackgroundInv, ClearedHadEnded
    <3>4. CASE registry[task[u].id] = u /\ registry'[task[u].id] # u
      <4>1. task[u].id = i /\ k = u /\ registry'[i] = 0
        BY <2>3, <3>2, <3>4
      <4> QED
        BY <2>6, <4>1
    <3> QED
      BY <3>3, <3>4
  <2>8. (\A j \in TaskIds : registry[j] # 0 => task[registry[j]].id = j)'
    BY <2>1, <2>3 DEF BackgroundInv
  <2> QED
    BY <2>1, <2>4, <2>7, <2>8 DEF BackgroundInv
<1> QED
  BY <1>1, <1>2

LEMMA BackgroundStep == BackgroundInv /\ [BackgroundNext]_backgroundVars => BackgroundInv'
<1> SUFFICES ASSUME BackgroundInv, [BackgroundNext]_backgroundVars PROVE BackgroundInv'
  OBVIOUS
<1>1. CASE UNCHANGED backgroundVars
  BY <1>1 DEF backgroundVars, BackgroundInv, BackgroundShapes, ClearedHadEnded
<1> QED
  BY <1>1, RunShellKeeps, RegisterKeeps, ClearKeeps DEF BackgroundNext

LEMMA BackgroundFits == BackgroundInv => BackgroundTypeOK /\ TasksToldInOrder
<1> SUFFICES ASSUME BackgroundInv PROVE BackgroundTypeOK /\ TasksToldInOrder
  OBVIOUS
<1>1. \A t \in Objects : task[t] \in Task /\ shell[t] \in ShellSteps /\ Shows(task[t], shell[t])
  BY DEF BackgroundInv, BackgroundShapes
<1>2. StatusComesLast
  BY <1>1 DEF StatusComesLast, Shows
<1>3. BackgroundTypeOK
  BY <1>1 DEF BackgroundTypeOK, BackgroundInv, BackgroundShapes, Task, ShellSteps
<1> QED
  BY <1>2, <1>3 DEF TasksToldInOrder, BackgroundInv

\* The registry and the objects of its tasks keep their shapes (start_bash,
\* clear_completed, _run).
THEOREM BackgroundTypes == BackgroundSpec => []BackgroundTypeOK
  BY BackgroundInitially, BackgroundStep, BackgroundFits, PTL DEF BackgroundSpec

\* However the threads of tasks interleave with callers and with a
\* clear_completed in progress, an outcome has its exit code and output, and a
\* task that cannot be found any more has ended or was displaced.
THEOREM TasksAreTold == BackgroundSpec => []TasksToldInOrder
  BY BackgroundInitially, BackgroundStep, BackgroundFits, PTL DEF BackgroundSpec

-----------------------------------------------------------------------------
(***************************************************************************)
(* What stands in one sequence after another: an element that moves on, or *)
(* is put last.                                                            *)
(***************************************************************************)
LEMMA MoveOn ==
  ASSUME NEW S, NEW p \in Seq(S), NEW q \in Seq(S), q # <<>>
  PROVE  Append(p, Head(q)) \o Tail(q) = p \o q
<1>1. /\ Head(q) \in S /\ Tail(q) \in Seq(S) /\ Len(Tail(q)) = Len(q) - 1
      /\ \A i \in 1..Len(Tail(q)) : Tail(q)[i] = q[i + 1]
      /\ Len(q) \in Nat \ {0} /\ Head(q) = q[1] /\ Len(p) \in Nat
  BY HeadTailProperties
<1>2. PICK a : a = Append(p, Head(q))
  OBVIOUS
<1>3. a \in Seq(S) /\ Len(a) = Len(p) + 1 /\ a[Len(p) + 1] = Head(q) /\ \A i \in 1..Len(p) : a[i] = p[i]
  BY <1>1, <1>2, AppendProperties
<1>4. PICK t : t = Tail(q)
  OBVIOUS
<1>5. /\ a \o t \in Seq(S) /\ Len(a \o t) = Len(p) + Len(q)
      /\ \A i \in 1..(Len(p) + Len(q)) : (a \o t)[i] = IF i <= Len(a) THEN a[i] ELSE t[i - Len(a)]
  <2>1. t \in Seq(S) /\ Len(a) + Len(t) = Len(p) + Len(q)
    BY <1>1, <1>3, <1>4
  <2>2. /\ a \o t \in Seq(S) /\ Len(a \o t) = Len(a) + Len(t)
        /\ \A i \in 1..(Len(a) + Len(t)) : (a \o t)[i] = IF i <= Len(a) THEN a[i] ELSE t[i - Len(a)]
    <3>1. a \in Seq(S) /\ t \in Seq(S)
      BY <1>3, <2>1
    <3> QED
      BY <3>1, ConcatProperties
  <2> QED
    BY <2>1, <2>2
<1>6. /\ p \o q \in Seq(S) /\ Len(p \o q) = Len(p) + Len(q)
      /\ \A i \in 1..(Len(p) + Len(q)) : (p \o q)[i] = IF i <= Len(p) THEN p[i] ELSE q[i - Len(p)]
  BY ConcatProperties
<1>7. ASSUME NEW i \in 1..(Len(p) + Len(q)) PROVE (a \o t)[i] = (p \o q)[i]
  <2>1. CASE i <= Len(p)
    BY <1>1, <1>3, <1>5, <1>6, <2>1
  <2>2. CASE i = Len(p) + 1
    <3>1. (a \o t)[i] = q[1]
      BY <1>1, <1>3, <1>5, <2>2
    <3>2. (p \o q)[i] = q[1]
      BY <1>1, <1>6, <2>2
    <3> QED
      BY <3>1, <3>2
  <2>3. CASE i > Len(p) + 1
    <3>1. i - Len(a) \in 1..Len(t) /\ (i - Len(a)) + 1 = i - Len(p) /\ ~ (i <= Len(a)) /\ ~ (i <= Len(p))
      BY <1>1, <1>3, <1>4, <2>3
    <3>2. t[i - Len(a)] = q[i - Len(p)]
      BY <1>1, <1>4, <3>1
    <3> QED
      BY <1>5, <1>6, <3>1, <3>2
  <2>4. i \in Nat /\ Len(p) \in Nat
    BY <1>1
  <2>5. i <= Len(p) \/ i = Len(p) + 1 \/ i > Len(p) + 1
    BY <2>4
  <2> QED
    BY <2>1, <2>2, <2>3, <2>5
<1> QED
  BY <1>2, <1>4, <1>5, <1>6, <1>7, SeqEqual

LEMMA PutLast ==
  ASSUME NEW S, NEW p \in Seq(S), NEW q \in Seq(S), NEW x \in S
  PROVE  p \o Append(q, x) = Append(p \o q, x)
<1>1. <<x>> \in Seq(S) /\ Append(q, x) = q \o <<x>> /\ p \o q \in Seq(S)
  BY ConcatProperties
<1>2. Append(p \o q, x) = (p \o q) \o <<x>>
  BY <1>1
<1> QED
  BY <1>1, <1>2, ConcatAssociative

LEMMA DropFirst ==
  ASSUME NEW S, NEW p \in Seq(S), NEW q \in Seq(S), p # <<>>
  PROVE  /\ p \o q \in Seq(S) /\ p \o q # <<>>
         /\ Tail(p) \o q = Tail(p \o q) /\ Head(p \o q) = Head(p)
<1>1. /\ Len(p) \in Nat \ {0} /\ Len(q) \in Nat /\ Head(p) = p[1]
      /\ Tail(p) \in Seq(S) /\ Len(Tail(p)) = Len(p) - 1
      /\ \A i \in 1..Len(Tail(p)) : Tail(p)[i] = p[i + 1]
  BY HeadTailProperties
<1>2. PICK a : a = p \o q
  OBVIOUS
<1>3. /\ a \in Seq(S) /\ Len(a) = Len(p) + Len(q) /\ a # <<>>
      /\ \A i \in 1..(Len(p) + Len(q)) : a[i] = IF i <= Len(p) THEN p[i] ELSE q[i - Len(p)]
  <2>1. /\ a \in Seq(S) /\ Len(a) = Len(p) + Len(q)
        /\ \A i \in 1..(Len(p) + Len(q)) : a[i] = IF i <= Len(p) THEN p[i] ELSE q[i - Len(p)]
    BY <1>2, ConcatProperties
  <2> QED
    BY <1>1, <2>1
<1>4. /\ Tail(a) \in Seq(S) /\ Len(Tail(a)) = Len(a) - 1 /\ Head(a) = a[1]
      /\ \A i \in 1..Len(Tail(a)) : Tail(a)[i] = a[i + 1]
  BY <1>3, HeadTailProperties
<1>5. Head(a) = Head(p)
  BY <1>1, <1>3, <1>4
<1>6. PICK t : t = Tail(p)
  OBVIOUS
<1>7. /\ t \o q \in Seq(S) /\ Len(t \o q) = Len(t) + Len(q)
      /\ \A i \in 1..(Len(t) + Len(q)) : (t \o q)[i] = IF i <= Len(t) THEN t[i] ELSE q[i - Len(t)]
  BY <1>1, <1>6, ConcatProperties
<1>8. ASSUME NEW i \in 1..Len(Tail(a)) PROVE (t \o q)[i] = Tail(a)[i]
  <2>1. /\ i \in 1..(Len(t) + Len(q)) /\ i + 1 \in 1..(Len(p) + Len(q)) /\ i \in Nat /\ Len(t) = Len(p) - 1
        /\ Tail(a)[i] = a[i + 1]
    BY <1>1, <1>3, <1>4, <1>6
  <2>2. CASE i <= Len(t)
    <3>1. i \in 1..Len(Tail(p)) /\ i + 1 <= Len(p)
      BY <1>1, <1>6, <2>1, <2>2
    <3> QED
      BY <1>1, <1>3, <1>6, <1>7, <2>1, <2>2, <3>1
  <2>3. CASE ~ (i <= Len(t))
    <3>1. ~ (i + 1 <= Len(p)) /\ (i + 1) - Len(p) = i - Len(t)
      BY <1>1, <2>1, <2>3
    <3> QED
      BY <1>3, <1>7, <2>1, <2>3, <3>1
  <2> QED
    BY <2>2, <2>3
<1>9. Len(t \o q) = Len(Tail(a))
  BY <1>1, <1>3, <1>4, <1>6, <1>7
<1>10. t \o q = Tail(a)
  BY <1>4, <1>7, <1>8, <1>9, SeqEqual
<1> QED
  BY <1>2, <1>3, <1>5, <1>6, <1>10

-----------------------------------------------------------------------------
(***************************************************************************)
(* A wire channel.  What was received and what is queued are one sequence, *)
(* which only grows, and to which a receiver changes nothing.              *)
(***************************************************************************)
AnyMessage == [from : Senders, nr : 1..MaxMessages] \cup {ShutdownMark}

\* Messages grow with their place, a message that is being sent is larger than
\* all its sender has put, and a sender looks at the flag before each message.
InChannel(all, put, last, flag) ==
  /\ \A i \in DOMAIN all : all[i].from \in Senders =>
       /\ all[i].nr <= last
       /\ put[all[i].from] # 0 => all[i].nr < put[all[i].from]
       /\ \A k \in DOMAIN all : i < k /\ all[k].from = all[i].from => all[i].nr < all[k].nr
  /\ \A m, i \in DOMAIN all : all[m] = ShutdownMark /\ all[i].from \in Senders /\ m < i =>
       /\ put[all[i].from] = 0
       /\ \A k \in DOMAIN all : i < k => all[k].from # all[i].from
  /\ \A m \in DOMAIN all : all[m] = ShutdownMark => flag

WireInv ==
  /\ shut \in BOOLEAN /\ (shut <=> shutdowns > 0)
  /\ sending \in [Senders -> 0..sent] /\ sent \in 0..MaxMessages
  /\ shutdowns \in 0..MaxShutdowns /\ marking \in 0..shutdowns
  /\ channel \in Seq(AnyMessage) /\ received \in Seq(AnyMessage)
  /\ InChannel(received \o channel, sending, sent, shut)

\* A message put at the end keeps the order if it is in order itself.
LEMMA PutKeepsOrder ==
  ASSUME NEW all \in Seq(AnyMessage), NEW x \in AnyMessage, NEW put \in [Senders -> Nat], NEW after,
         NEW last \in Nat, NEW flag, InChannel(all, put, last, flag),
         \/ x = ShutdownMark /\ flag /\ after = put
         \/ /\ x.from \in Senders /\ x.nr = put[x.from] /\ x.nr # 0 /\ x.nr <= last
            /\ after = [put EXCEPT ![x.from] = 0]
  PROVE  InChannel(Append(all, x), after, last, flag)
<1> DEFINE new == Append(all, x)
<1>1. ShutdownMark.from = "shutdown" /\ "shutdown" \notin Senders
  BY WireAssumption DEF ShutdownMark
<1>2. /\ Len(all) \in Nat /\ DOMAIN all = 1..Len(all) /\ DOMAIN new = 1..(Len(all) + 1)
      /\ new[Len(all) + 1] = x /\ \A i \in DOMAIN all : new[i] = all[i] /\ all[i] \in AnyMessage
  BY AppendProperties
<1> HIDE DEF new
<1>3. PICK n : n = Len(all) + 1
  OBVIOUS
<1>4. /\ \A i \in DOMAIN new : i \in Nat /\ (i = n \/ (i \in DOMAIN all /\ i < n))
      /\ n \in DOMAIN new /\ new[n] = x /\ n \notin DOMAIN all
  BY <1>2, <1>3
<1>5. \A s \in Senders : /\ put[s] \in Nat /\ (after[s] = put[s] \/ after[s] = 0)
                         /\ (x.from = s => after[s] = 0)
  BY <1>1
<1>6. \A i \in DOMAIN all : all[i].from \in Senders => all[i].nr \in Nat
  BY <1>1, <1>2, WireAssumption DEF AnyMessage
<1>7. ASSUME NEW i \in DOMAIN new, new[i].from \in Senders
      PROVE  /\ new[i].nr <= last
             /\ after[new[i].from] # 0 => new[i].nr < after[new[i].from]
             /\ \A k \in DOMAIN new : i < k /\ new[k].from = new[i].from => new[i].nr < new[k].nr
  <2>1. CASE i = n
    <3>1. \A k \in DOMAIN new : ~ (i < k)
      BY <1>4, <2>1
    <3>2. x.from \in Senders /\ x # ShutdownMark
      BY <1>1, <1>4, <1>7, <2>1
    <3> QED
      BY <1>4, <1>5, <2>1, <3>1, <3>2
  <2>2. CASE i # n
    <3>1. i \in DOMAIN all /\ new[i] = all[i]
      BY <1>2, <1>4, <2>2
    <3>2. ASSUME NEW k \in DOMAIN new, i < k, new[k].from = new[i].from PROVE new[i].nr < new[k].nr
      <4>1. CASE k = n
        <5>1. x.from \in Senders /\ x # ShutdownMark /\ x.nr = put[x.from] /\ x.nr # 0
          BY <1>1, <1>4, <1>7, <3>2, <4>1
        <5> QED
          BY <1>4, <3>1, <3>2, <4>1, <5>1 DEF InChannel
      <4>2. CASE k # n
        BY <1>2, <1>4, <1>7, <3>1, <3>2, <4>2 DEF InChannel
      <4> QED
        BY <4>1, <4>2
    <3> QED
      BY <1>5, <1>7, <3>1, <3>2 DEF InChannel
  <2> QED
    BY <2>1, <2>2
<1>8. ASSUME NEW m \in DOMAIN new, NEW i \in DOMAIN new,
             new[m] = ShutdownMark, new[i].from \in Senders, m < i
      PROVE  after[new[i].from] = 0 /\ \A k \in DOMAIN new : i < k => new[k].from # new[i].from
  <2>1. m \in DOMAIN all /\ all[m] = ShutdownMark
    BY <1>2, <1>4, <1>8
  <2>2. CASE i = n
    <3>1. \A k \in DOMAIN new : ~ (i < k)
      BY <1>4, <2>2
    <3> QED
      BY <1>4, <1>5, <1>8, <2>2, <3>1
  <2>3. CASE i # n
    <3>1. i \in DOMAIN all /\ new[i] = all[i] /\ put[all[i].from] = 0
      BY <1>2, <1>4, <1>8, <2>1, <2>3 DEF InChannel
    <3>2. after[all[i].from] = 0
      BY <1>5, <1>8, <3>1
    <3>3. ASSUME NEW k \in DOMAIN new, i < k PROVE new[k].from # new[i].from
      <4>1. CASE k = n
        BY <1>1, <1>4, <1>8, <3>1, <4>1
      <4>2. CASE k # n
        BY <1>2, <1>4, <1>8, <2>1, <3>1, <3>3, <4>2 DEF InChannel
      <4> QED
        BY <4>1, <4>2
    <3> QED
      BY <3>1, <3>2, <3>3
  <2> QED
    BY <2>2, <2>3
<1>9. ASSUME NEW m \in DOMAIN new, new[m] = ShutdownMark PROVE flag
  BY <1>1, <1>2, <1>4, <1>9 DEF InChannel
<1> QED
  BY <1>7, <1>8, <1>9 DEF InChannel, new

LEMMA WireStep ==
  ASSUME WireInv, [WireNext]_wireVars
  PROVE  WireInv'
<1> DEFINE all == received \o channel
<1>1. /\ channel \in Seq(AnyMessage) /\ received \in Seq(AnyMessage) /\ all \in Seq(AnyMessage)
      /\ sending \in [Senders -> Nat] /\ sent \in Nat /\ sent <= MaxMessages /\ MaxMessages \in Nat
      /\ MaxShutdowns \in Nat /\ shutdowns \in Nat /\ marking \in Nat
  BY WireAssumption, ConcatProperties DEF WireInv
<1>2. ASSUME NEW s \in Senders, BeginSend(s) PROVE WireInv'
  <2>1. /\ ~ shut /\ sending' = [sending EXCEPT ![s] = sent + 1] /\ sent' = sent + 1 /\ sent + 1 <= MaxMessages
        /\ received' = received /\ channel' = channel /\ shut' = shut
    BY <1>1, <1>2 DEF BeginSend
  <2>2. \A i \in DOMAIN all : all[i] \in AnyMessage
    BY <1>1
  <2>3. \A i \in DOMAIN all : all[i].from \in Senders => all[i].nr \in Nat /\ all[i].nr <= sent /\ all[i].nr < sent + 1
    <3> SUFFICES ASSUME NEW i \in DOMAIN all, all[i].from \in Senders
                 PROVE  all[i].nr \in Nat /\ all[i].nr <= sent /\ all[i].nr < sent + 1
      OBVIOUS
    <3>1. all[i].nr \in Nat
      BY <1>1, <2>2, WireAssumption DEF AnyMessage, ShutdownMark
    <3>2. InChannel(all, sending, sent, shut)
      BY DEF WireInv
    <3>3. all[i].nr <= sent
      <4> HIDE DEF all
      <4> QED
        BY <3>2 DEF InChannel
    <3>4. sent \in Nat
      BY <1>1
    <3> HIDE DEF all
    <3> QED
      BY <3>1, <3>3, <3>4
  <2>4. \A i \in DOMAIN all : all[i] # ShutdownMark
    BY <2>1 DEF WireInv, InChannel
  <2>5. \A r \in Senders : sending'[r] = IF r = s THEN sent + 1 ELSE sending[r]
    BY <1>1, <2>1
  <2>6. InChannel(all, sending', sent', shut')
    <3> HIDE DEF all
    <3>1. \A i \in DOMAIN all : all[i].from \in Senders =>
            /\ all[i].nr <= sent'
            /\ sending'[all[i].from] # 0 => all[i].nr < sending'[all[i].from]
            /\ \A k \in DOMAIN all : i < k /\ all[k].from = all[i].from => all[i].nr < all[k].nr
      <4> SUFFICES ASSUME NEW i \in DOMAIN all, all[i].from \in Senders
                   PROVE  /\ all[i].nr <= sent'
                          /\ sending'[all[i].from] # 0 => all[i].nr < sending'[all[i].from]
                          /\ \A k \in DOMAIN all : i < k /\ all[k].from = all[i].from => all[i].nr < all[k].nr
        OBVIOUS
      <4>1. InChannel(all, sending, sent, shut)
        BY DEF WireInv, all
      <4> QED
        BY <1>1, <2>1, <2>3, <2>5, <4>1 DEF InChannel
    <3> QED
      BY <2>4, <3>1 DEF InChannel
  <2>7. sending' \in [Senders -> 0..sent'] /\ sent' \in 0..MaxMessages
    <3>1. \A r \in Senders : sending[r] \in 0..(sent + 1) /\ sent + 1 \in 0..(sent + 1)
      BY <1>1 DEF WireInv
    <3> QED
      BY <1>1, <2>1, <3>1
  <2> QED
    BY <1>2, <2>6, <2>7 DEF WireInv, BeginSend
<1>3. ASSUME NEW s \in Senders, Put(s) PROVE WireInv'
  <2>1. /\ channel' = Append(channel, Message(s, sending[s])) /\ sending' = [sending EXCEPT ![s] = 0]
        /\ shut' = shut /\ sent' = sent /\ received' = received /\ sending[s] # 0
        /\ marking' = marking /\ shutdowns' = shutdowns
    BY <1>3 DEF Put
  <2>2. PICK x : x = Message(s, sending[s])
    OBVIOUS
  <2>3. x \in AnyMessage /\ x.from = s /\ x.nr = sending[s] /\ sending[s] \in Nat /\ sending[s] <= sent
    BY <1>1, <2>1, <2>2 DEF Message, AnyMessage, WireInv
  <2>4. channel' \in Seq(AnyMessage) /\ received' \o channel' = Append(all, x)
    BY <1>1, <2>1, <2>2, <2>3, PutLast, AppendProperties
  <2>5. InChannel(received' \o channel', sending', sent', shut')
    <3> HIDE DEF all
    <3>1. InChannel(all, sending, sent, shut)
      BY DEF all, WireInv
    <3> QED
      BY <1>1, <2>1, <2>3, <2>4, <3>1, PutKeepsOrder
  <2>6. sending' \in [Senders -> 0..sent]
    BY <1>1, <2>1 DEF WireInv
  <2> QED
    BY <2>1, <2>4, <2>5, <2>6 DEF WireInv
<1>4. CASE SetShutdown
  <2>1. shut' = TRUE /\ shutdowns' = shutdowns + 1 /\ marking' = marking + 1 /\ shutdowns < MaxShutdowns
        /\ channel' = channel /\ sending' = sending /\ sent' = sent /\ received' = received
    BY <1>4 DEF SetShutdown
  <2>2. InChannel(all, sending', sent', shut')
    BY <2>1 DEF WireInv, InChannel
  <2>3. shutdowns' \in 0..MaxShutdowns /\ marking' \in 0..shutdowns' /\ shutdowns' > 0
    BY <1>1, <2>1 DEF WireInv
  <2> QED
    BY <2>1, <2>2, <2>3 DEF WireInv
<1>5. CASE PutShutdown
  <2>1. /\ channel' = Append(channel, ShutdownMark) /\ sending' = sending /\ marking > 0 /\ marking' = marking - 1
        /\ shut' = shut /\ sent' = sent /\ received' = received /\ shutdowns' = shutdowns
    BY <1>5 DEF PutShutdown
  <2>2. PICK x : x = ShutdownMark
    OBVIOUS
  <2>3. x \in AnyMessage /\ shut
    BY <1>1, <2>1, <2>2 DEF AnyMessage, WireInv
  <2>4. channel' \in Seq(AnyMessage) /\ received' \o channel' = Append(all, x)
    BY <1>1, <2>1, <2>2, <2>3, PutLast, AppendProperties
  <2>5. InChannel(received' \o channel', sending', sent', shut')
    <3> HIDE DEF all
    <3>1. InChannel(all, sending, sent, shut)
      BY DEF all, WireInv
    <3> QED
      BY <1>1, <2>1, <2>2, <2>3, <2>4, <3>1, PutKeepsOrder
  <2>6. marking' \in 0..shutdowns
    BY <1>1, <2>1 DEF WireInv
  <2> QED
    BY <2>1, <2>4, <2>5, <2>6 DEF WireInv
<1>6. CASE Receive
  <2>1. /\ channel # <<>> /\ received' = Append(received, Head(channel)) /\ channel' = Tail(channel)
        /\ shut' = shut /\ sending' = sending /\ sent' = sent /\ marking' = marking /\ shutdowns' = shutdowns
    BY <1>6 DEF Receive
  <2>2. received' \o channel' = all /\ received' \in Seq(AnyMessage) /\ channel' \in Seq(AnyMessage)
    BY <1>1, <2>1, MoveOn, HeadTailProperties, AppendProperties
  <2>3. InChannel(received' \o channel', sending', sent', shut')
    <3>1. InChannel(all, sending, sent, shut)
      BY DEF WireInv
    <3> HIDE DEF all
    <3> QED
      BY <2>1, <2>2, <3>1
  <2> QED
    BY <2>1, <2>2, <2>3 DEF WireInv
<1>7. CASE UNCHANGED wireVars
  BY <1>7 DEF wireVars, WireInv
<1> QED
  BY <1>2, <1>3, <1>4, <1>5, <1>6, <1>7 DEF WireNext

\* Each message of a sender is later than the one before, and a shutdown
\* strands at most one of them.
LEMMA WireHolds == WireInv => WireTypeOK /\ WireInOrder
<1> SUFFICES ASSUME WireInv PROVE WireTypeOK /\ WireInOrder
  OBVIOUS
<1> DEFINE all == received \o channel
<1>1. /\ channel \in Seq(AnyMessage) /\ all \in Seq(AnyMessage) /\ InChannel(all, sending, sent, shut) /\ sent \in Nat
      /\ received \in Seq(AnyMessage)
  BY ConcatProperties DEF WireInv
<1>2. WireTypeOK
  <2>1. ASSUME NEW k \in DOMAIN channel, channel[k] # ShutdownMark
        PROVE  channel[k] \in [from : Senders, nr : 1..sent]
    <3>1. /\ Len(received) \in Nat /\ Len(channel) \in Nat /\ k \in 1..Len(channel)
          /\ Len(all) = Len(received) + Len(channel) /\ DOMAIN all = 1..Len(all)
          /\ all[Len(received) + k] = channel[k]
      <4>1. /\ Len(received) \in Nat /\ Len(channel) \in Nat /\ k \in 1..Len(channel)
            /\ Len(all) = Len(received) + Len(channel) /\ DOMAIN all = 1..Len(all)
        BY <1>1, ConcatProperties
      <4>2. Len(received) + k \in 1..(Len(received) + Len(channel)) /\ ~ (Len(received) + k <= Len(received))
            /\ (Len(received) + k) - Len(received) = k
        BY <4>1
      <4> QED
        BY <1>1, <4>1, <4>2, ConcatProperties
    <3> HIDE DEF all
    <3>2. Len(received) + k \in DOMAIN all
      BY <3>1
    <3>3. channel[k] \in [from : Senders, nr : 1..MaxMessages]
      BY <1>1, <2>1 DEF AnyMessage
    <3>4. channel[k].nr <= sent
      BY <1>1, <3>1, <3>2, <3>3 DEF InChannel
    <3> QED
      BY <1>1, <3>3, <3>4, WireAssumption
  <2> QED
    BY <2>1 DEF WireInv, WireTypeOK
<1>3. SenderInOrder
  BY <1>1 DEF SenderInOrder, InChannel
<1> DEFINE markers == {k \in DOMAIN all : all[k] = ShutdownMark}
           stranded == {k \in DOMAIN all : all[k].from \in Senders /\ \E m \in markers : m < k}
<1>4. ASSUME NEW s \in Senders
      PROVE  Cardinality({k \in stranded : all[k].from = s}) <= 1
  <2> DEFINE T == {k \in stranded : all[k].from = s}
  <2>1. DOMAIN all \subseteq Nat
    BY <1>1
  <2>2. \A i, k \in T : ~ (i < k)
    <3> HIDE DEF all
    <3> QED
      BY <1>1 DEF InChannel
  <2>3. \A i, k \in T : i = k
    <3>1. \A i, k \in T : i \in Nat /\ k \in Nat
      BY <2>1
    <3> HIDE DEF T
    <3> QED
      BY <2>2, <3>1
  <2> HIDE DEF T
  <2>4. Cardinality(T) <= 1
    <3>1. CASE T = {}
      BY <3>1, FS_EmptySet
    <3>2. CASE T # {}
      <4>1. PICK i : T = {i}
        BY <2>3, <3>2
      <4>2. Cardinality(T) = 1
        BY <4>1, FS_Singleton
      <4> QED
        BY <4>2
    <3> QED
      BY <3>1, <3>2
  <2> QED
    BY <2>4 DEF T
<1>5. StrandedBounded
  BY <1>4 DEF StrandedBounded
<1> QED
  BY <1>2, <1>3, <1>5 DEF WireInOrder

LEMMA WireInitially == WireInit => WireInv
<1> SUFFICES ASSUME WireInit PROVE WireInv
  OBVIOUS
<1>1. received \o channel = <<>> /\ <<>> \in Seq(AnyMessage)
  BY ConcatEmptySeq DEF WireInit
<1>2. InChannel(<<>>, sending, sent, shut)
  BY DEF InChannel
<1>3. InChannel(received \o channel, sending, sent, shut)
  BY <1>1, <1>2
<1>4. sending \in [Senders -> 0..sent] /\ sent \in 0..MaxMessages
  BY WireAssumption DEF WireInit
<1>5. shutdowns \in 0..MaxShutdowns /\ marking \in 0..shutdowns /\ shutdowns = 0 /\ shut = FALSE
  BY WireAssumption DEF WireInit
<1>6. channel \in Seq(AnyMessage) /\ received \in Seq(AnyMessage)
  BY <1>1 DEF WireInit
<1>7. shut \in BOOLEAN /\ (shut <=> shutdowns > 0)
  <2>1. ~ (shutdowns > 0)
    BY <1>5
  <2> QED
    BY <1>5, <2>1
<1> QED
  BY <1>3, <1>4, <1>5, <1>6, <1>7 DEF WireInv

-----------------------------------------------------------------------------
(***************************************************************************)
(* The client of MCP servers.  The answers on their way, read, in the pipe *)
(* and to come, are those of consecutive requests; the first of them is    *)
(* the request that is Due, and every answer given was of one before it.   *)
(***************************************************************************)
Line == (buffered \o pipe) \o toAnswer

Due == asked + (IF waiting = 0 THEN 1 ELSE 0) - Cardinality(GaveUpHere)

McpShapes ==
  /\ server \in {"none", "alive", "dead"} /\ servers \in 0..MaxServers
  /\ asked \in 0..MaxRequests /\ waiting \in {0, asked} /\ before \in 0..asked
  /\ toAnswer \in Seq(Nat) /\ pipe \in Seq(Nat) /\ buffered \in Seq(Nat)
  /\ got \in [Requests -> 0..asked] /\ gaveUp \subseteq 1..asked

McpInv ==
  /\ McpShapes
  /\ before < Due
  /\ \A i \in DOMAIN Line : Line[i] = Due + i - 1
  /\ \A i \in DOMAIN Line : Line[i] <= asked
  /\ server = "alive" => Len(Line) = asked + 1 - Due
  /\ server # "alive" => toAnswer = <<>>
  /\ server = "none" => Line = <<>> /\ waiting = 0
  /\ waiting # 0 => waiting \notin gaveUp /\ got[waiting] = 0 /\ before < waiting
  /\ \A r \in Requests : got[r] < Due /\ (got[r] # 0 => r <= asked)
  /\ AnswersInOrder
  /\ waiting = 0 /\ asked > before /\ got[asked] # 0 => got[asked] > before /\ got[asked] = Due - 1

LEMMA LineIsSeq ==
  ASSUME McpShapes
  PROVE  Line \in Seq(Nat) /\ buffered \o pipe \in Seq(Nat) /\ Len(Line) \in Nat /\ DOMAIN Line = 1..Len(Line)
         /\ Len(Line) = Len(buffered) + Len(pipe) + Len(toAnswer)
BY ConcatProperties DEF McpShapes, Line

LEMMA GaveUpFinite ==
  ASSUME McpShapes
  PROVE  IsFiniteSet(GaveUpHere) /\ Cardinality(GaveUpHere) \in Nat /\ asked \in Nat /\ Due \in Int
<1>1. asked \in Nat /\ GaveUpHere \subseteq 1..asked
  <2>1. asked \in Nat /\ gaveUp \subseteq 1..asked
    BY McpAssumption DEF McpShapes
  <2> QED
    BY <2>1 DEF GaveUpHere
<1>2. IsFiniteSet(1..asked)
  BY <1>1, FS_Interval
<1>3. IsFiniteSet(GaveUpHere)
  BY <1>1, <1>2, FS_Subset
<1>4. Cardinality(GaveUpHere) \in Nat
  BY <1>3, FS_CardinalityType
<1> QED
  BY <1>1, <1>3, <1>4 DEF Due

LEMMA SeqWithin ==
  ASSUME NEW S, NEW T, NEW s \in Seq(S), \A i \in 1..Len(s) : s[i] \in T
  PROVE  s \in Seq(T)
<1>1. PICK n \in Nat : n = Len(s)
  OBVIOUS
<1>2. s \in [1..n -> S]
  BY <1>1
<1>3. s \in [1..n -> T]
  BY <1>1, <1>2
<1> QED
  BY <1>1, <1>3

LEMMA McpStep ==
  ASSUME McpInv, [McpNext]_mcpVars
  PROVE  McpInv'
<1>1. /\ asked \in Nat /\ asked <= MaxRequests /\ MaxRequests \in Nat /\ before \in Nat /\ Due \in Int
      /\ Line \in Seq(Nat) /\ Len(Line) \in Nat /\ DOMAIN Line = 1..Len(Line)
      /\ MaxServers \in Nat /\ servers \in Nat
  BY LineIsSeq, GaveUpFinite, McpAssumption DEF McpInv, McpShapes
<1>2. CASE Connect
  <2>1. /\ waiting = 0 /\ servers < MaxServers /\ servers' = servers + 1 /\ server' = "alive"
        /\ toAnswer' = <<>> /\ pipe' = <<>> /\ buffered' = <<>> /\ before' = asked
        /\ asked' = asked /\ waiting' = 0 /\ got' = got /\ gaveUp' = gaveUp
    BY <1>2 DEF Connect
  <2>2. McpShapes'
    <3>1. servers + 1 \in 0..MaxServers /\ asked \in 0..asked
      BY <1>1, <2>1
    <3> QED
      BY <2>1, <3>1 DEF McpInv, McpShapes, Requests
  <2>3. Due' = asked + 1
    <3>1. GaveUpHere' = {}
      <4>1. \A r \in gaveUp : r \in Nat /\ ~ (r > asked)
        BY <1>1 DEF McpInv, McpShapes
      <4> QED
        BY <2>1, <4>1 DEF GaveUpHere
    <3>2. Cardinality(GaveUpHere') = 0
      BY <3>1, FS_EmptySet
    <3> QED
      BY <1>1, <2>1, <3>2 DEF Due
  <2>4. Line' = <<>>
    BY <2>1 DEF Line
  <2>5. \A r \in Requests : got[r] \in Nat /\ got[r] < Due'
    BY <1>1, <2>3 DEF McpInv, McpShapes
  <2>6. AnswersInOrder'
    BY <2>1 DEF McpInv, AnswersInOrder, Requests
  <2>7. before' < Due' /\ Len(Line') = asked' + 1 - Due'
    BY <1>1, <2>1, <2>3, <2>4
  <2> QED
    BY <1>1, <2>1, <2>2, <2>4, <2>5, <2>6, <2>7 DEF McpInv, Requests
<1>3. CASE Send
  <2>1. /\ waiting = 0 /\ server = "alive" /\ asked < MaxRequests /\ asked' = asked + 1 /\ waiting' = asked + 1
        /\ toAnswer' = Append(toAnswer, asked + 1) /\ server' = server /\ servers' = servers /\ pipe' = pipe
        /\ buffered' = buffered /\ got' = got /\ gaveUp' = gaveUp /\ before' = before
    BY <1>3 DEF Send
  <2>2. McpShapes'
    <3>1. asked + 1 \in 0..MaxRequests /\ before \in 0..(asked + 1) /\ asked + 1 \in Nat
      BY <1>1, <2>1 DEF McpInv, McpShapes
    <3>2. got \in [Requests -> 0..(asked + 1)] /\ gaveUp \subseteq 1..(asked + 1)
      BY <1>1 DEF McpInv, McpShapes
    <3> QED
      BY <2>1, <3>1, <3>2 DEF McpInv, McpShapes, Requests
  <2>3. Due' = Due
    <3>1. GaveUpHere' = GaveUpHere
      BY <2>1 DEF GaveUpHere
    <3>2. PICK c \in Nat : c = Cardinality(GaveUpHere)
      BY GaveUpFinite DEF McpInv
    <3>3. Due = asked + 1 - c /\ Due' = asked + 1 + 0 - c
      BY <1>1, <2>1, <3>1, <3>2 DEF Due
    <3> QED
      BY <1>1, <3>2, <3>3
  <2>4. Line' = Append(Line, asked + 1)
    <3>1. PICK p : p = buffered \o pipe
      OBVIOUS
    <3>2. p \in Seq(Nat) /\ toAnswer \in Seq(Nat)
      BY <3>1, LineIsSeq DEF McpInv, McpShapes
    <3>3. PICK n \in Nat : n = asked + 1
      BY <1>1
    <3>4. p \o Append(toAnswer, n) = Append(p \o toAnswer, n)
      BY <3>2, PutLast
    <3> QED
      BY <2>1, <3>1, <3>3, <3>4 DEF Line
  <2>5. Len(Line) = asked + 1 - Due
    BY <2>1 DEF McpInv
  <2>6. /\ Len(Line') = Len(Line) + 1 /\ Line'[Len(Line) + 1] = asked + 1
        /\ \A i \in 1..Len(Line) : Line'[i] = Line[i]
        /\ DOMAIN Line' = 1..(Len(Line) + 1)
    <3>1. asked + 1 \in Nat
      BY <1>1
    <3> HIDE DEF Line
    <3> QED
      BY <1>1, <2>4, <3>1, AppendProperties
  <2>7. ASSUME NEW i \in DOMAIN Line' PROVE Line'[i] = Due + i - 1 /\ Line'[i] <= asked + 1
    <3>1. CASE i \in 1..Len(Line)
      BY <1>1, <2>6, <3>1 DEF McpInv
    <3>2. CASE i = Len(Line) + 1
      BY <1>1, <2>5, <2>6, <3>2
    <3> QED
      BY <1>1, <2>6, <2>7, <3>1, <3>2
  <2>8. \A r \in Requests : got[r] \in Nat /\ got[r] < Due
    BY <1>1 DEF McpInv, McpShapes
  <2>9. asked + 1 \notin gaveUp /\ got[asked + 1] = 0 /\ before < asked + 1
    <3>1. asked + 1 \in Requests /\ ~ (asked + 1 <= asked) /\ before <= asked
      BY <1>1, <2>1 DEF Requests, McpInv, McpShapes
    <3>2. \A r \in gaveUp : r <= asked
      BY <1>1 DEF McpInv, McpShapes
    <3>3. before < asked + 1
      BY <1>1, <3>1
    <3> QED
      BY <3>1, <3>2, <3>3 DEF McpInv
  <2>10. AnswersInOrder'
    BY <2>1 DEF McpInv, AnswersInOrder, Requests
  <2> QED
    BY <1>1, <2>1, <2>2, <2>3, <2>5, <2>6, <2>7, <2>8, <2>9, <2>10 DEF McpInv, Requests
<1>4. CASE Answer
  <2>1. /\ server = "alive" /\ toAnswer # <<>> /\ pipe' = Append(pipe, Head(toAnswer)) /\ toAnswer' = Tail(toAnswer)
        /\ server' = server /\ servers' = servers /\ asked' = asked /\ buffered' = buffered /\ waiting' = waiting
        /\ got' = got /\ gaveUp' = gaveUp /\ before' = before
    BY <1>4 DEF Answer
  <2>2. /\ buffered \in Seq(Nat) /\ pipe \in Seq(Nat) /\ toAnswer \in Seq(Nat) /\ buffered \o pipe \in Seq(Nat)
        /\ Head(toAnswer) \in Nat /\ Tail(toAnswer) \in Seq(Nat) /\ pipe' \in Seq(Nat)
    <3>1. /\ buffered \in Seq(Nat) /\ pipe \in Seq(Nat) /\ toAnswer \in Seq(Nat) /\ buffered \o pipe \in Seq(Nat)
      BY LineIsSeq DEF McpInv, McpShapes
    <3>2. Head(toAnswer) \in Nat /\ Tail(toAnswer) \in Seq(Nat)
      BY <2>1, <3>1, HeadTailProperties
    <3> QED
      BY <2>1, <3>1, <3>2, AppendProperties
  <2>3. Line' = Line
    <3>1. buffered' \o pipe' = Append(buffered \o pipe, Head(toAnswer))
      <4>1. PICK x \in Nat : x = Head(toAnswer)
        BY <2>2
      <4>2. buffered \in Seq(Nat) /\ pipe \in Seq(Nat)
        BY <2>2
      <4>3. buffered \o Append(pipe, x) = Append(buffered \o pipe, x)
        BY <4>2, PutLast
      <4> QED
        BY <2>1, <4>1, <4>3
    <3>2. PICK p : p = buffered \o pipe
      OBVIOUS
    <3>3. p \in Seq(Nat) /\ toAnswer \in Seq(Nat) /\ toAnswer # <<>>
      BY <2>1, <2>2, <3>2
    <3>4. Append(p, Head(toAnswer)) \o Tail(toAnswer) = p \o toAnswer
      BY <3>3, MoveOn
    <3> QED
      BY <2>1, <3>1, <3>2, <3>4 DEF Line
  <2>4. Due' = Due
    BY <2>1 DEF Due, GaveUpHere
  <2>5. McpShapes'
    BY <2>1, <2>2 DEF McpInv, McpShapes, Requests
  <2>6. Requests' = Requests /\ AnswersInOrder'
    BY <2>1 DEF McpInv, Requests, AnswersInOrder
  <2> QED
    BY <2>1, <2>3, <2>4, <2>5, <2>6 DEF McpInv
<1>5. CASE Die
  <2>1. /\ server = "alive" /\ server' = "dead" /\ toAnswer' = <<>>
        /\ servers' = servers /\ asked' = asked /\ buffered' = buffered /\ waiting' = waiting /\ pipe' = pipe
        /\ got' = got /\ gaveUp' = gaveUp /\ before' = before
    BY <1>5 DEF Die
  <2>2. /\ buffered \o pipe \in Seq(Nat) /\ toAnswer \in Seq(Nat) /\ Len(buffered \o pipe) \in Nat
        /\ Len(toAnswer) \in Nat
    <3>1. McpShapes /\ buffered \in Seq(Nat) /\ pipe \in Seq(Nat) /\ toAnswer \in Seq(Nat)
      BY DEF McpInv, McpShapes
    <3>2. buffered \o pipe \in Seq(Nat)
      BY <3>1, LineIsSeq
    <3> QED
      BY <3>1, <3>2
  <2>3. Line' = buffered \o pipe
    BY <2>1, <2>2, ConcatEmptySeq DEF Line
  <2>4. PICK p : p = buffered \o pipe
    OBVIOUS
  <2>5. /\ Len(Line) = Len(p) + Len(toAnswer) /\ Line'= p /\ DOMAIN p = 1..Len(p) /\ Len(p) \in Nat
        /\ \A i \in 1..Len(p) + Len(toAnswer) : Line[i] = IF i <= Len(p) THEN p[i] ELSE toAnswer[i - Len(p)]
    BY <2>2, <2>3, <2>4, ConcatProperties DEF Line
  <2>6. \A i \in DOMAIN p : i \in DOMAIN Line /\ p[i] = Line[i]
    BY <1>1, <2>2, <2>5
  <2>7. Due' = Due
    BY <2>1 DEF Due, GaveUpHere
  <2>8. \A i \in DOMAIN Line' : Line'[i] = Due + i - 1 /\ Line'[i] <= asked
    BY <2>5, <2>6 DEF McpInv
  <2>9. McpShapes'
    BY <2>1 DEF McpInv, McpShapes, Requests
  <2> QED
    BY <2>1, <2>7, <2>8, <2>9 DEF McpInv, Requests, AnswersInOrder
<1>6. CASE ReadLine
  <2>1. /\ waiting # 0 /\ waiting' = 0 /\ buffered \o pipe # <<>>
        /\ server' = server /\ servers' = servers /\ asked' = asked /\ toAnswer' = toAnswer /\ gaveUp' = gaveUp
        /\ before' = before
    BY <1>6 DEF ReadLine
  <2>2. /\ buffered \in Seq(Nat) /\ pipe \in Seq(Nat) /\ toAnswer \in Seq(Nat) /\ buffered \o pipe \in Seq(Nat)
    BY LineIsSeq DEF McpInv, McpShapes
  <2>3. /\ got' = [got EXCEPT ![waiting] = Head(buffered \o pipe)]
        /\ buffered' \o pipe' = Tail(buffered \o pipe) /\ buffered' \in Seq(Nat) /\ pipe' \in Seq(Nat)
    <3>1. CASE buffered # <<>>
      <4>1. got' = [got EXCEPT ![waiting] = Head(buffered)] /\ buffered' = Tail(buffered) /\ pipe' = pipe
        BY <1>6, <3>1 DEF ReadLine
      <4> QED
        BY <2>2, <3>1, <4>1, DropFirst, HeadTailProperties
    <3>2. CASE buffered = <<>>
      <4>1. got' = [got EXCEPT ![waiting] = Head(pipe)] /\ buffered' = Tail(pipe) /\ pipe' = <<>>
        BY <1>6, <3>2 DEF ReadLine
      <4>2. buffered \o pipe = pipe /\ pipe # <<>>
        BY <2>1, <2>2, <3>2, ConcatEmptySeq
      <4>3. Tail(pipe) \in Seq(Nat) /\ Tail(pipe) \o <<>> = Tail(pipe) /\ <<>> \in Seq(Nat)
        BY <2>2, <4>2, ConcatEmptySeq, HeadTailProperties
      <4> QED
        BY <4>1, <4>2, <4>3
    <3> QED
      BY <3>1, <3>2
  <2>4. Line' = Tail(Line) /\ Head(Line) = Head(buffered \o pipe) /\ Line # <<>>
    <3>1. PICK p : p = buffered \o pipe
      OBVIOUS
    <3>2. p \in Seq(Nat) /\ p # <<>> /\ toAnswer \in Seq(Nat)
      BY <2>1, <2>2, <3>1
    <3>3. Tail(p) \o toAnswer = Tail(p \o toAnswer) /\ Head(p \o toAnswer) = Head(p) /\ p \o toAnswer # <<>>
      BY <3>2, DropFirst
    <3>4. Line = p \o toAnswer /\ Line' = Tail(p) \o toAnswer
      BY <2>1, <2>3, <3>1 DEF Line
    <3> QED
      BY <3>1, <3>3, <3>4
  <2>5. /\ Len(Line) >= 1 /\ Len(Line') = Len(Line) - 1 /\ DOMAIN Line' = 1..(Len(Line) - 1)
        /\ \A i \in DOMAIN Line' : Line'[i] = Line[i + 1] /\ i + 1 \in DOMAIN Line
        /\ Head(Line) = Line[1] /\ 1 \in DOMAIN Line
    <3>1. PICK p \in Seq(Nat) : p = Line
      BY <1>1
    <3>2. p # <<>> /\ Line' = Tail(p)
      BY <2>4, <3>1
    <3> QED
      BY <3>1, <3>2
  <2>6. waiting = asked /\ asked \in Requests /\ Line[1] = Due /\ Due <= asked
    <3>1. waiting = asked /\ asked \in Requests
      BY <1>1, <2>1 DEF McpInv, McpShapes, Requests
    <3>2. /\ \A i \in DOMAIN Line : Line[i] = Due + i - 1
          /\ \A i \in DOMAIN Line : Line[i] <= asked
      BY DEF McpInv
    <3>3. Line[1] = Due + 1 - 1 /\ Line[1] <= asked
      BY <2>5, <3>2
    <3> QED
      BY <1>1, <3>1, <3>3
  <2>7. \A r \in Requests : got'[r] = IF r = asked THEN Due ELSE got[r]
    BY <2>3, <2>4, <2>5, <2>6 DEF McpInv, McpShapes
  <2>8. Due' = Due + 1
    <3>1. GaveUpHere' = GaveUpHere /\ Cardinality(GaveUpHere) \in Nat
      BY <2>1, GaveUpFinite DEF GaveUpHere, McpInv
    <3> QED
      BY <1>1, <2>1, <3>1 DEF Due
  <2>9. before < Due
    BY DEF McpInv
  <2>10. \A r \in Requests : got[r] \in Nat /\ got[r] < Due /\ r \in Nat /\ (got[r] # 0 => r <= asked)
    <3>1. \A r \in Requests : got[r] \in 0..asked /\ r \in Nat
      <4>1. got \in [Requests -> 0..asked]
        BY DEF McpInv, McpShapes
      <4>2. \A r \in Requests : r \in Nat
        BY <1>1 DEF Requests
      <4> QED
        BY <4>1, <4>2
    <3>2. \A r \in Requests : got[r] < Due /\ (got[r] # 0 => r <= asked)
      BY DEF McpInv
    <3> QED
      BY <1>1, <3>1, <3>2
  <2>11. McpShapes'
    <3>1. got' \in [Requests -> 0..asked]
      <4>1. Due \in 0..asked
        BY <1>1, <2>6, <2>9
      <4> QED
        BY <2>3, <2>4, <2>5, <2>6, <4>1 DEF McpInv, McpShapes
    <3> QED
      BY <2>1, <2>3, <3>1 DEF McpInv, McpShapes, Requests
  <2>12. \A i \in DOMAIN Line' : Line'[i] = Due' + i - 1 /\ Line'[i] <= asked
    <3>1. \A i \in DOMAIN Line' : i \in Nat /\ Line[i + 1] = Due + (i + 1) - 1 /\ Line[i + 1] <= asked
      BY <1>1, <2>5 DEF McpInv
    <3> QED
      BY <1>1, <2>5, <2>8, <3>1
  <2>13. server = "alive" => Len(Line') = asked + 1 - Due'
    <3> SUFFICES ASSUME server = "alive" PROVE Len(Line') = asked + 1 - Due'
      OBVIOUS
    <3>1. Len(Line) = asked + 1 - Due
      BY DEF McpInv
    <3>2. Len(Line') = Len(Line) - 1
      BY <2>5
    <3> QED
      BY <1>1, <2>8, <3>1, <3>2
  <2>14. server # "none"
    BY <2>1 DEF McpInv
  <2>15. AnswersInOrder'
    <3> SUFFICES ASSUME NEW q \in Requests, NEW r \in Requests, q < r, got'[q] # 0, got'[r] # 0
                 PROVE  got'[q] < got'[r]
      BY DEF AnswersInOrder, Requests
    <3>1. q \in Nat /\ r \in Nat /\ r <= asked /\ q # asked
      BY <1>1, <2>7, <2>10
    <3> QED
      BY <2>7, <2>10, <3>1 DEF McpInv, AnswersInOrder
  <2>16. \A r \in Requests : got'[r] < Due' /\ (got'[r] # 0 => r <= asked)
    BY <1>1, <2>7, <2>8, <2>10
  <2>17. before < Due' /\ (got'[asked] > before /\ got'[asked] = Due' - 1)
    BY <1>1, <2>6, <2>7, <2>8, <2>9
  <2> QED
    BY <2>1, <2>11, <2>12, <2>13, <2>14, <2>15, <2>16, <2>17 DEF McpInv, Requests
<1>7. CASE GiveUp
  <2>1. /\ waiting # 0 /\ waiting' = 0 /\ gaveUp' = gaveUp \cup {waiting}
        /\ server' = server /\ servers' = servers /\ asked' = asked /\ toAnswer' = toAnswer /\ pipe' = pipe
        /\ buffered' = buffered /\ got' = got /\ before' = before
    BY <1>7 DEF GiveUp
  <2>2. waiting = asked /\ asked \in 1..asked
    BY <1>1, <2>1 DEF McpInv, McpShapes
  <2>3. Due' = Due
    <3>1. IsFiniteSet(GaveUpHere) /\ Cardinality(GaveUpHere) \in Nat /\ waiting \notin GaveUpHere
      BY <2>1, GaveUpFinite DEF McpInv, GaveUpHere
    <3>2. GaveUpHere' = GaveUpHere \cup {waiting}
      BY <1>1, <2>1, <2>2 DEF McpInv, GaveUpHere
    <3>3. Cardinality(GaveUpHere') = Cardinality(GaveUpHere) + 1
      BY <3>1, <3>2, FS_AddElement
    <3>4. Due = asked - Cardinality(GaveUpHere)
      BY <1>1, <2>1, <3>1 DEF Due
    <3>5. Due' = asked + 1 - (Cardinality(GaveUpHere) + 1)
      BY <2>1, <3>3 DEF Due
    <3> QED
      BY <1>1, <3>1, <3>4, <3>5
  <2>4. Line' = Line
    BY <2>1 DEF Line
  <2>5. McpShapes'
    BY <2>1, <2>2 DEF McpInv, McpShapes, Requests
  <2>6. got[asked] = 0 /\ server # "none"
    BY <2>1, <2>2 DEF McpInv
  <2> QED
    BY <2>1, <2>3, <2>4, <2>5, <2>6 DEF McpInv, Requests, AnswersInOrder
<1>8. CASE Close
  <2>1. /\ waiting = 0 /\ server' = "none" /\ toAnswer' = <<>> /\ pipe' = <<>> /\ buffered' = <<>>
        /\ servers' = servers /\ asked' = asked /\ waiting' = waiting /\ got' = got /\ gaveUp' = gaveUp /\ before' = before
    BY <1>8 DEF Close
  <2>2. Line' = <<>> /\ Due' = Due
    BY <2>1 DEF Line, Due, GaveUpHere
  <2>3. McpShapes'
    BY <2>1 DEF McpInv, McpShapes, Requests
  <2> QED
    BY <2>1, <2>2, <2>3 DEF McpInv, Requests, AnswersInOrder
<1>9. CASE UNCHANGED mcpVars
  <2>1. Line' = Line /\ Due' = Due /\ McpShapes'
    BY <1>9 DEF mcpVars, Line, Due, GaveUpHere, McpInv, McpShapes, Requests
  <2> QED
    BY <1>9, <2>1 DEF mcpVars, McpInv, Requests, AnswersInOrder
<1> QED
  BY <1>2, <1>3, <1>4, <1>5, <1>6, <1>7, <1>8, <1>9 DEF McpNext

\* Answers come in order, and lag behind by the calls that gave up.
LEMMA McpHolds == McpInv => McpTypeOK /\ AnswersLagKnown
<1> SUFFICES ASSUME McpInv PROVE McpTypeOK /\ AnswersLagKnown
  OBVIOUS
<1>1. /\ asked \in Nat /\ before \in Nat /\ Due \in Int /\ Line \in Seq(Nat) /\ DOMAIN Line = 1..Len(Line)
      /\ Len(Line) = Len(buffered) + Len(pipe) + Len(toAnswer) /\ Cardinality(GaveUpHere) \in Nat
      /\ Len(buffered) \in Nat /\ Len(pipe) \in Nat /\ Len(toAnswer) \in Nat
  BY LineIsSeq, GaveUpFinite, McpAssumption DEF McpInv, McpShapes
<1>2. \A i \in DOMAIN Line : Line[i] \in 1..asked
  <2> SUFFICES ASSUME NEW i \in DOMAIN Line PROVE Line[i] \in 1..asked
    OBVIOUS
  <2>1. Line[i] = Due + i - 1 /\ Line[i] <= asked /\ before < Due
    BY DEF McpInv
  <2>2. PICK d \in Int : d = Due
    BY <1>1
  <2>3. i \in Nat /\ i >= 1 /\ d >= 1
    BY <1>1, <2>1, <2>2
  <2>4. d + i - 1 \in Nat /\ d + i - 1 >= 1
    BY <2>3
  <2> QED
    BY <1>1, <2>1, <2>2, <2>4
<1>3. /\ \A i \in DOMAIN buffered : \E k \in DOMAIN Line : Line[k] = buffered[i]
      /\ \A i \in DOMAIN pipe : \E k \in DOMAIN Line : Line[k] = pipe[i]
      /\ \A i \in DOMAIN toAnswer : \E k \in DOMAIN Line : Line[k] = toAnswer[i]
  <2>1. /\ buffered \in Seq(Nat) /\ pipe \in Seq(Nat) /\ toAnswer \in Seq(Nat) /\ buffered \o pipe \in Seq(Nat)
    BY LineIsSeq DEF McpInv, McpShapes
  <2>2. PICK p : p = buffered \o pipe
    OBVIOUS
  <2>3. /\ p \in Seq(Nat) /\ Len(p) = Len(buffered) + Len(pipe)
        /\ \A i \in 1..Len(buffered) + Len(pipe) :
              p[i] = IF i <= Len(buffered) THEN buffered[i] ELSE pipe[i - Len(buffered)]
    BY <2>1, <2>2, ConcatProperties
  <2>4. /\ Line = p \o toAnswer
        /\ \A i \in 1..Len(p) + Len(toAnswer) : (p \o toAnswer)[i] = IF i <= Len(p) THEN p[i] ELSE toAnswer[i - Len(p)]
    BY <2>1, <2>2, <2>3, ConcatProperties DEF Line
  <2>5. /\ Len(buffered) \in Nat /\ Len(pipe) \in Nat /\ Len(toAnswer) \in Nat /\ Len(p) \in Nat
        /\ Len(p) = Len(buffered) + Len(pipe) /\ DOMAIN Line = 1..Len(p) + Len(toAnswer)
    <3>1. Len(p) = Len(buffered) + Len(pipe)
      BY <2>3
    <3> QED
      BY <1>1, <3>1
  <2>6. ASSUME NEW i \in DOMAIN buffered PROVE \E k \in DOMAIN Line : Line[k] = buffered[i]
    <3>5. i \in 1..Len(buffered)
      BY <2>1
    <3>1. i \in DOMAIN Line /\ i \in 1..Len(p) + Len(toAnswer) /\ i <= Len(p)
      <4>1. i \in Nat /\ i <= Len(buffered) /\ i >= 1
        BY <1>1, <3>5
      <4> QED
        BY <2>5, <4>1
    <3>2. Line[i] = buffered[i]
      BY <1>1, <2>3, <2>4, <3>1
    <3> QED
      BY <3>1, <3>2
  <2>7. ASSUME NEW i \in DOMAIN pipe PROVE \E k \in DOMAIN Line : Line[k] = pipe[i]
    <3>1. i \in 1..Len(pipe)
      BY <2>1
    <3>2. /\ Len(buffered) + i \in DOMAIN Line /\ Len(buffered) + i \in 1..Len(p) + Len(toAnswer)
          /\ Len(buffered) + i <= Len(p) /\ ~ (Len(buffered) + i <= Len(buffered))
          /\ (Len(buffered) + i) - Len(buffered) = i
      <4>1. i \in Nat /\ i >= 1 /\ i <= Len(pipe)
        BY <1>1, <3>1
      <4> QED
        BY <2>5, <4>1
    <3>3. Line[Len(buffered) + i] = pipe[i]
      BY <1>1, <2>3, <2>4, <3>1, <3>2
    <3> QED
      BY <3>2, <3>3
  <2>8. ASSUME NEW i \in DOMAIN toAnswer PROVE \E k \in DOMAIN Line : Line[k] = toAnswer[i]
    <3>1. i \in 1..Len(toAnswer)
      BY <2>1
    <3>2. /\ Len(p) + i \in DOMAIN Line /\ Len(p) + i \in 1..Len(p) + Len(toAnswer)
          /\ ~ (Len(p) + i <= Len(p)) /\ (Len(p) + i) - Len(p) = i
      <4>1. i \in Nat /\ i >= 1 /\ i <= Len(toAnswer)
        BY <1>1, <3>1
      <4> QED
        BY <2>5, <4>1
    <3>3. Line[Len(p) + i] = toAnswer[i]
      BY <1>1, <2>3, <2>4, <3>1, <3>2
    <3> QED
      BY <3>2, <3>3
  <2> QED
    BY <2>6, <2>7, <2>8
<1>4. McpTypeOK
  <2>1. ASSUME NEW s \in Seq(Nat), \A i \in DOMAIN s : \E k \in DOMAIN Line : Line[k] = s[i]
        PROVE  s \in Seq(1..asked)
    <3>1. \A i \in 1..Len(s) : s[i] \in 1..asked
      BY <1>2, <2>1
    <3> QED
      BY <3>1, SeqWithin
  <2>2. toAnswer \in Seq(1..asked) /\ pipe \in Seq(1..asked) /\ buffered \in Seq(1..asked)
    BY <1>3, <2>1 DEF McpInv, McpShapes
  <2> QED
    BY <2>2 DEF McpTypeOK, McpInv, McpShapes
<1>5. LagBounded
  <2> SUFFICES ASSUME waiting = 0, asked > before, got[asked] # 0
               PROVE  got[asked] \in (before + 1)..asked /\ asked - got[asked] <= Cardinality(GaveUpHere)
    BY DEF LagBounded
  <2>1. got[asked] > before /\ got[asked] = Due - 1 /\ asked \in Requests
    BY <1>1, McpAssumption DEF McpInv, McpShapes, Requests
  <2>2. got[asked] \in 0..asked
    BY <2>1 DEF McpInv, McpShapes
  <2>3. Due = asked + 1 - Cardinality(GaveUpHere)
    BY DEF Due
  <2>4. PICK c \in Nat : c = Cardinality(GaveUpHere)
    BY <1>1
  <2>5. PICK g \in Nat : g = got[asked]
    BY <1>1, <2>2
  <2>6. g > before /\ g <= asked /\ g = (asked + 1 - c) - 1
    BY <1>1, <2>1, <2>2, <2>3, <2>4, <2>5
  <2>7. g \in (before + 1)..asked /\ asked - g <= c
    BY <1>1, <2>6
  <2> QED
    BY <2>4, <2>5, <2>7
<1>6. NeverInStepAgain
  <2> SUFFICES ASSUME server = "alive", waiting = 0
               PROVE  Len(toAnswer) + Len(pipe) + Len(buffered) = Cardinality(GaveUpHere)
    BY DEF NeverInStepAgain
  <2>1. Len(Line) = asked + 1 - Due
    BY DEF McpInv
  <2>2. Due = asked + 1 - Cardinality(GaveUpHere)
    BY DEF Due
  <2>3. Len(Line) = Len(toAnswer) + Len(pipe) + Len(buffered)
    BY <1>1
  <2>4. PICK c \in Nat : c = Cardinality(GaveUpHere)
    BY <1>1
  <2> QED
    <3>1. PICK d \in Int : d = Due
      BY <1>1
    <3>2. d = asked + 1 - c
      BY <2>2, <2>4, <3>1
    <3>3. Len(Line) = asked + 1 - d
      BY <2>1, <3>1
    <3>4. Len(Line) = c
      <4>1. asked \in Nat /\ c \in Nat /\ d \in Int
        BY <1>1
      <4>2. asked + 1 - d = c
        BY <3>2, <4>1
      <4> QED
        BY <3>3, <4>2
    <3> QED
      BY <2>3, <2>4, <3>4
<1> QED
  BY <1>4, <1>5, <1>6 DEF AnswersLagKnown, McpInv

LEMMA McpInitially == McpInit => McpInv
<1> SUFFICES ASSUME McpInit PROVE McpInv
  OBVIOUS
<1>1. Line = <<>> /\ GaveUpHere = {} /\ Cardinality(GaveUpHere) = 0
  BY FS_EmptySet DEF McpInit, Line, GaveUpHere
<1>2. Due = 1
  BY <1>1 DEF McpInit, Due
<1>3. McpShapes
  BY McpAssumption DEF McpInit, McpShapes
<1>4. \A r \in Requests : got[r] = 0
  BY DEF McpInit
<1> QED
  BY <1>1, <1>2, <1>3, <1>4 DEF McpInit, McpInv, AnswersInOrder

-----------------------------------------------------------------------------
(***************************************************************************)
(* The client of language servers.                                         *)
(***************************************************************************)
Said == [id : Nat, wanted : BOOLEAN]
Wanted(q) == {k \in DOMAIN q : q[k].wanted}

LEMMA WantedAppend ==
  ASSUME NEW q \in Seq(Said), NEW x \in Said
  PROVE  /\ IsFiniteSet(Wanted(q)) /\ Cardinality(Wanted(q)) \in Nat
         /\ Cardinality(Wanted(Append(q, x))) = Cardinality(Wanted(q)) + (IF x.wanted THEN 1 ELSE 0)
<1>1. Len(q) \in Nat /\ DOMAIN q = 1..Len(q)
  OBVIOUS
<1>2. IsFiniteSet(Wanted(q)) /\ Cardinality(Wanted(q)) \in Nat
  <2>1. IsFiniteSet(1..Len(q)) /\ Wanted(q) \subseteq 1..Len(q)
    BY <1>1, FS_Interval DEF Wanted
  <2> QED
    BY <2>1, FS_Subset, FS_CardinalityType
<1>3. PICK r : r = Append(q, x)
  OBVIOUS
<1>4. PICK n \in Nat : n = Len(q) + 1
  BY <1>1
<1>5. /\ DOMAIN r = 1..n /\ r[n] = x /\ n \notin DOMAIN q /\ n \in 1..n
      /\ \A k \in DOMAIN q : k \in 1..n /\ r[k] = q[k]
      /\ \A k \in 1..n : k = n \/ k \in DOMAIN q
  BY <1>1, <1>3, <1>4, AppendProperties
<1>6. CASE x.wanted
  <2>1. Wanted(r) = Wanted(q) \cup {n} /\ n \notin Wanted(q)
    BY <1>5, <1>6 DEF Wanted
  <2> QED
    BY <1>2, <1>3, <1>6, <2>1, FS_AddElement
<1>7. CASE ~ x.wanted
  <2>1. Wanted(r) = Wanted(q)
    BY <1>5, <1>7 DEF Wanted
  <2> QED
    BY <1>2, <1>3, <1>7, <2>1
<1> QED
  BY <1>2, <1>6, <1>7

LEMMA WantedTail ==
  ASSUME NEW q \in Seq(Said), q # <<>>
  PROVE  Cardinality(Wanted(q)) = Cardinality(Wanted(Tail(q))) + (IF Head(q).wanted THEN 1 ELSE 0)
<1>1. PICK r : r = Tail(q)
  OBVIOUS
<1>2. PICK n \in Nat : n = Len(q) - 1
  OBVIOUS
<1>3. /\ r \in Seq(Said) /\ DOMAIN r = 1..n /\ DOMAIN q = 1..(n + 1) /\ Head(q) = q[1] /\ Len(r) = n
      /\ \A k \in 1..n : r[k] = q[k + 1]
  BY <1>1, <1>2, HeadTailProperties
<1> DEFINE Rest == Wanted(q) \ {1}
<1>4. IsFiniteSet(Wanted(r)) /\ Cardinality(Wanted(r)) \in Nat /\ IsFiniteSet(Wanted(q)) /\ Cardinality(Wanted(q)) \in Nat
  <2>1. \E x : x \in Said
    <3>1. [id |-> 0, wanted |-> TRUE] \in Said
      BY DEF Said
    <3> QED
      BY <3>1
  <2> QED
    BY <1>3, <2>1, WantedAppend
<1>5. PICK f : f = [k \in Wanted(r) |-> k + 1]
  OBVIOUS
<1>6. f \in [Wanted(r) -> Rest]
  <2>1. ASSUME NEW k \in Wanted(r) PROVE k + 1 \in Rest
    <3>1. k \in 1..n /\ r[k].wanted /\ k + 1 \in 1..(n + 1) /\ k + 1 # 1
      BY <1>3 DEF Wanted
    <3> QED
      BY <1>3, <3>1 DEF Wanted
  <2> QED
    BY <1>5, <2>1
<1>7. \A k, m \in Wanted(r) : f[k] = f[m] => k = m
  <2>1. Wanted(r) \subseteq Nat
    BY <1>3 DEF Wanted
  <2> QED
    BY <1>5, <2>1
<1>8. \A m \in Rest : \E k \in Wanted(r) : f[k] = m
  <2> SUFFICES ASSUME NEW m \in Rest PROVE \E k \in Wanted(r) : f[k] = m
    OBVIOUS
  <2>1. m \in 1..(n + 1) /\ q[m].wanted /\ m # 1
    BY <1>3 DEF Wanted
  <2>2. m - 1 \in 1..n /\ (m - 1) + 1 = m
    BY <2>1
  <2>3. m - 1 \in Wanted(r)
    BY <1>3, <2>1, <2>2 DEF Wanted
  <2> QED
    BY <1>5, <2>2, <2>3
<1>9. Cardinality(Rest) = Cardinality(Wanted(r))
  <2> HIDE DEF Rest
  <2>1. f \in Bijection(Wanted(r), Rest)
    <3>1. f \in Injection(Wanted(r), Rest)
      BY <1>6, <1>7 DEF Injection, IsInjective
    <3>2. f \in Surjection(Wanted(r), Rest)
      BY <1>6, <1>8 DEF Surjection
    <3> QED
      BY <3>1, <3>2 DEF Bijection
  <2>2. ExistsBijection(Wanted(r), Rest)
    BY <2>1 DEF ExistsBijection
  <2> QED
    BY <1>4, <2>2, FS_Bijection
<1>10. CASE Head(q).wanted
  <2>1. 1 \in Wanted(q)
    <3>1. 1 \in 1..(n + 1)
      OBVIOUS
    <3> QED
      BY <1>3, <1>10, <3>1 DEF Wanted
  <2>2. Cardinality(Rest) = Cardinality(Wanted(q)) - 1
    BY <1>4, <2>1, FS_RemoveElement
  <2> HIDE DEF Rest
  <2> QED
    BY <1>1, <1>4, <1>9, <1>10, <2>2
<1>11. CASE ~ Head(q).wanted
  <2>1. Rest = Wanted(q)
    BY <1>3, <1>11 DEF Wanted
  <2> HIDE DEF Rest
  <2> QED
    BY <1>1, <1>4, <1>9, <1>11, <2>1
<1> QED
  BY <1>10, <1>11

LspShapes ==
  /\ lspServer \in {"none", "alive", "dead"} /\ requestId \in 0..MaxLspMessages
  /\ wants \in {0, requestId} /\ late \subseteq 1..requestId /\ remarks \in Nat
  /\ toServer \in Seq(Said) /\ fromServer \in Seq(Nat)
  /\ \A k \in DOMAIN toServer : toServer[k].id <= requestId
  /\ \A k \in DOMAIN fromServer : fromServer[k] <= requestId
  /\ answered \in [1..MaxLspMessages -> Nat]

\* The answer of a call that came after a remark is not the next message, nor
\* will it be.
OthersInFront ==
  wants \in late =>
    /\ \A k \in DOMAIN fromServer : fromServer[k] = wants => k # 1
    /\ \A k \in DOMAIN toServer : toServer[k].wanted /\ toServer[k].id = wants =>
         fromServer # <<>> \/ \E j \in DOMAIN toServer : j < k /\ toServer[j].wanted

LspInv ==
  /\ LspShapes
  /\ \A i \in late : answered[i] # i
  /\ \A i \in DOMAIN answered : answered[i] \in 0..i \cup {Nothing, Unanswered}
  /\ \A i \in DOMAIN answered : i > requestId => answered[i] = Unanswered
  /\ lspServer = "alive" =>
       Len(fromServer) + Cardinality(Wanted(toServer)) = remarks + (IF wants = 0 THEN 0 ELSE 1)
  /\ OthersInFront

\* A call that is given something else than its answer.
LEMMA TakeKeeps ==
  ASSUME LspInv, wants # 0, NEW x \in 0..requestId \cup {Nothing}, wants \in late => x # wants,
         answered' = [answered EXCEPT ![wants] = x], requestId' = requestId, late' = late
  PROVE  /\ answered' \in [1..MaxLspMessages -> Nat]
         /\ \A i \in late : answered'[i] # i
         /\ \A i \in DOMAIN answered' : answered'[i] \in 0..i \cup {Nothing, Unanswered}
         /\ \A i \in DOMAIN answered' : i > requestId => answered'[i] = Unanswered
<1>1. /\ requestId \in Nat /\ MaxLspMessages \in Nat /\ requestId <= MaxLspMessages
      /\ wants = requestId /\ wants \in 1..MaxLspMessages /\ x \in Nat
  BY LspAssumption DEF LspInv, LspShapes, Nothing
<1>2. answered \in [1..MaxLspMessages -> Nat]
  BY DEF LspInv, LspShapes
<1>3. \A i \in 1..MaxLspMessages : answered'[i] = IF i = wants THEN x ELSE answered[i]
  BY <1>1, <1>2
<1>4. answered' \in [1..MaxLspMessages -> Nat]
  BY <1>1, <1>2
<1>5. \A i \in late : i \in 1..MaxLspMessages
  BY <1>1 DEF LspInv, LspShapes
<1>6. \A i \in late : answered'[i] # i
  BY <1>3, <1>5 DEF LspInv
<1>7. \A i \in 1..MaxLspMessages : answered'[i] \in 0..i \cup {Nothing, Unanswered}
  BY <1>1, <1>2, <1>3 DEF LspInv
<1>8. \A i \in 1..MaxLspMessages : i > requestId => answered'[i] = Unanswered
  <2>1. ~ (wants > requestId)
    BY <1>1
  <2> QED
    BY <1>2, <1>3, <2>1 DEF LspInv
<1> QED
  BY <1>2, <1>4, <1>6, <1>7, <1>8

\* The server sends x, an answer to the message it read last or a remark.
LEMMA SendKeeps ==
  ASSUME LspInv, NEW x \in 0..requestId, wants = 0 \/ x # wants \/ fromServer # <<>> \/ wants \notin late
  PROVE  /\ Append(fromServer, x) \in Seq(Nat) /\ Append(fromServer, x) # <<>>
         /\ Len(Append(fromServer, x)) = Len(fromServer) + 1 /\ Len(fromServer) \in Nat
         /\ \A k \in DOMAIN Append(fromServer, x) : Append(fromServer, x)[k] <= requestId
         /\ wants \in late =>
              \A k \in DOMAIN Append(fromServer, x) : Append(fromServer, x)[k] = wants => k # 1
<1>1. requestId \in Nat /\ fromServer \in Seq(Nat) /\ x \in Nat /\ x <= requestId /\ Len(fromServer) \in Nat
  BY LspAssumption DEF LspInv, LspShapes
<1>2. PICK f : f = Append(fromServer, x)
  OBVIOUS
<1>3. PICK n \in Nat : n = Len(fromServer)
  BY <1>1
<1>4. /\ f \in Seq(Nat) /\ f # <<>> /\ Len(f) = n + 1 /\ DOMAIN f = 1..(n + 1) /\ f[n + 1] = x
      /\ DOMAIN fromServer = 1..n /\ \A k \in 1..n : f[k] = fromServer[k]
  BY <1>1, <1>2, <1>3, AppendProperties
<1>5. \A k \in 1..(n + 1) : k \in 1..n \/ k = n + 1
  OBVIOUS
<1>6. \A k \in DOMAIN f : f[k] <= requestId
  BY <1>1, <1>4, <1>5 DEF LspInv, LspShapes
<1>7. ASSUME wants \in late, NEW k \in DOMAIN f, f[k] = wants PROVE k # 1
  <2>1. wants # 0
    BY <1>1, <1>7 DEF LspInv, LspShapes
  <2>2. CASE k \in 1..n
    BY <1>4, <1>7, <2>2 DEF LspInv, OthersInFront
  <2>3. CASE k = n + 1
    <3>1. fromServer # <<>>
      BY <1>4, <1>7, <2>1, <2>3
    <3>2. n # 0
      BY <1>1, <1>3, <3>1
    <3> QED
      BY <2>3, <3>2
  <2> QED
    BY <1>4, <1>5, <2>2, <2>3
<1> QED
  BY <1>1, <1>2, <1>3, <1>4, <1>6, <1>7

LEMMA LspSayKeeps == ASSUME LspInv, NEW wanted \in BOOLEAN, Say(wanted) PROVE LspInv'
<1> DEFINE id == requestId + 1
<1>1. /\ MaxLspMessages \in Nat /\ requestId \in Nat /\ requestId' = id /\ id \in 1..MaxLspMessages /\ id \in Nat
      /\ wants = 0 /\ lspServer' = lspServer /\ fromServer' = fromServer /\ remarks' = remarks /\ id # 0
      /\ requestId < id
  BY LspAssumption DEF Say, LspInv, LspShapes
<1>2. /\ late \subseteq 1..requestId /\ remarks \in Nat /\ toServer \in Seq(Said) /\ fromServer \in Seq(Nat)
      /\ answered \in [1..MaxLspMessages -> Nat] /\ Nothing \in Nat /\ Nothing # id
  BY <1>1 DEF LspInv, LspShapes, Nothing
<1> HIDE DEF id
<1>3. \A i \in late : i # id /\ i \in 1..id /\ i \in 1..MaxLspMessages
  BY <1>1, <1>2
<1>4. \A k \in DOMAIN fromServer : fromServer[k] \in Nat /\ fromServer[k] <= id /\ fromServer[k] # id
  BY <1>1, <1>2 DEF LspInv, LspShapes
<1>5. \A k \in DOMAIN toServer : toServer[k].id <= id /\ toServer[k].id # id
  <2> SUFFICES ASSUME NEW k \in DOMAIN toServer PROVE toServer[k].id <= id /\ toServer[k].id # id
    OBVIOUS
  <2>1. toServer[k] \in Said
    BY <1>2
  <2>2. toServer[k].id \in Nat /\ toServer[k].id <= requestId
    BY <2>1 DEF Said, LspInv, LspShapes
  <2> QED
    BY <1>1, <2>2
<1>6. \A i \in 1..MaxLspMessages : i > id => i > requestId /\ i # id
  BY <1>1
<1>7. answered[id] = Unanswered /\ Unanswered # id
  BY <1>1, <1>2 DEF LspInv, Unanswered
<1>8. CASE lspServer = "none"
  <2>1. /\ answered' = [answered EXCEPT ![id] = IF wanted THEN Nothing ELSE @]
        /\ toServer' = toServer /\ wants' = 0 /\ late' = late
    BY <1>1, <1>8 DEF Say, id
  <2>2. answered' \in [1..MaxLspMessages -> Nat]
    BY <1>1, <1>2, <2>1
  <2>3. \A i \in 1..MaxLspMessages : answered'[i] = answered[i] \/ (i = id /\ answered'[i] = Nothing)
    BY <1>1, <1>2, <2>1
  <2>4. \A i \in late : answered'[i] # i
    BY <1>3, <2>3 DEF LspInv
  <2>5. \A i \in 1..MaxLspMessages : answered'[i] \in 0..i \cup {Nothing, Unanswered}
    BY <1>2, <2>3 DEF LspInv
  <2>6. \A k \in DOMAIN toServer : toServer[k].id <= id
    BY <1>5
  <2>7. late \subseteq 1..id /\ id \in 0..MaxLspMessages
    BY <1>1, <1>3
  <2>8. LspShapes'
    BY <1>1, <1>2, <1>4, <2>1, <2>2, <2>6, <2>7 DEF LspInv, LspShapes
  <2>9. 0 \notin late /\ lspServer' # "alive"
    BY <1>1, <1>2, <1>8
  <2> QED
    BY <1>1, <1>2, <1>6, <2>1, <2>2, <2>3, <2>4, <2>5, <2>8, <2>9 DEF LspInv, OthersInFront, Nothing, Unanswered
<1>9. CASE lspServer = "alive"
  <2> DEFINE x == [id |-> id, wanted |-> wanted]
  <2>1. /\ toServer' = Append(toServer, x) /\ wants' = (IF wanted THEN id ELSE 0)
        /\ late' = late \cup {i \in {id} : remarks > 0} /\ answered' = answered
    BY <1>9 DEF Say, id
  <2>2. x \in Said /\ x.id = id /\ x.wanted = wanted
    BY <1>1 DEF Said
  <2> HIDE DEF x
  <2>3. Cardinality(Wanted(toServer')) = Cardinality(Wanted(toServer)) + (IF wanted THEN 1 ELSE 0)
        /\ Cardinality(Wanted(toServer)) \in Nat
    BY <1>2, <2>1, <2>2, WantedAppend
  <2>4. Len(fromServer) + Cardinality(Wanted(toServer)) = remarks /\ Len(fromServer) \in Nat
    BY <1>1, <1>2, <1>9 DEF LspInv
  <2>5. Len(fromServer') + Cardinality(Wanted(toServer')) = remarks' + (IF wants' = 0 THEN 0 ELSE 1)
    <3>1. PICK c \in Nat : c = Cardinality(Wanted(toServer))
      BY <2>3
    <3>2. PICK d : d = Cardinality(Wanted(toServer'))
      OBVIOUS
    <3>3. d = c + (IF wanted THEN 1 ELSE 0) /\ Len(fromServer) + c = remarks
      BY <2>3, <2>4, <3>1, <3>2
    <3>4. Len(fromServer) + d = remarks + (IF wanted THEN 1 ELSE 0)
      BY <1>2, <2>4, <3>1, <3>3
    <3> QED
      BY <1>1, <2>1, <3>2, <3>4
  <2>6. PICK n \in Nat : n = Len(toServer) + 1
    BY <1>2
  <2>7. /\ toServer' \in Seq(Said) /\ DOMAIN toServer' = 1..n /\ toServer'[n] = x /\ n \notin DOMAIN toServer
        /\ \A k \in DOMAIN toServer : k \in 1..n /\ k < n /\ toServer'[k] = toServer[k]
        /\ \A k \in 1..n : k = n \/ k \in DOMAIN toServer
    BY <1>2, <2>1, <2>2, <2>6, AppendProperties
  <2>9. \A k \in DOMAIN toServer' : toServer'[k].id <= id
    BY <1>1, <1>5, <2>2, <2>7
  <2>10. late' \subseteq 1..id /\ id \in 0..MaxLspMessages /\ id \in 1..id
    BY <1>1, <1>3, <2>1
  <2>11. LspShapes'
    BY <1>1, <1>2, <1>4, <2>1, <2>7, <2>9, <2>10 DEF LspInv, LspShapes
  <2>12. \A i \in late' : answered'[i] # i
    BY <1>7, <2>1 DEF LspInv
  <2>13. OthersInFront'
    <3> SUFFICES ASSUME wants' \in late'
                 PROVE  /\ \A k \in DOMAIN fromServer' : fromServer'[k] = wants' => k # 1
                        /\ \A k \in DOMAIN toServer' : toServer'[k].wanted /\ toServer'[k].id = wants' =>
                             fromServer' # <<>> \/ \E j \in DOMAIN toServer' : j < k /\ toServer'[j].wanted
      BY DEF OthersInFront
    <3>1. wants' = id /\ remarks > 0
      BY <1>1, <1>2, <1>3, <2>1
    <3>2. ASSUME NEW k \in DOMAIN toServer', toServer'[k].id = id, fromServer = <<>>
          PROVE  \E j \in DOMAIN toServer' : j < k /\ toServer'[j].wanted
      <4>1. k = n
        BY <1>5, <2>7, <3>2
      <4>2. Cardinality(Wanted(toServer)) # 0
        BY <1>2, <2>3, <2>4, <3>1, <3>2
      <4>3. Wanted(toServer) # {}
        BY <4>2, FS_EmptySet
      <4> QED
        BY <2>7, <4>1, <4>3 DEF Wanted
    <3> QED
      BY <1>1, <1>4, <3>1, <3>2
  <2> QED
    BY <1>1, <1>2, <1>6, <2>1, <2>5, <2>11, <2>12, <2>13 DEF LspInv, Nothing, Unanswered
<1> QED
  BY <1>8, <1>9 DEF Say, LspInv, LspShapes

LEMMA LspReplyKeeps == ASSUME LspInv, Reply PROVE LspInv'
<1>1. /\ lspServer = "alive" /\ toServer # <<>> /\ toServer' = Tail(toServer) /\ lspServer' = lspServer
      /\ requestId' = requestId /\ wants' = wants /\ answered' = answered /\ late' = late
      /\ requestId \in Nat /\ remarks \in Nat
  BY LspAssumption DEF Reply, LspInv, LspShapes
<1>2. toServer \in Seq(Said) /\ fromServer \in Seq(Nat) /\ Len(fromServer) \in Nat
  BY DEF LspInv, LspShapes
<1>3. PICK m : m = Head(toServer)
  OBVIOUS
<1>4. PICK n \in Nat : n = Len(toServer) - 1
  BY <1>1, <1>2
<1>5. /\ m \in Said /\ m = toServer[1] /\ 1 \in DOMAIN toServer /\ toServer' \in Seq(Said)
      /\ DOMAIN toServer' = 1..n /\ \A k \in 1..n : toServer'[k] = toServer[k + 1] /\ k + 1 \in DOMAIN toServer
      /\ \A k \in DOMAIN toServer : k # 1 => k - 1 \in 1..n /\ toServer'[k - 1] = toServer[k]
  <2>1. /\ m \in Said /\ m = toServer[1] /\ toServer' \in Seq(Said) /\ Len(toServer') = n
        /\ \A k \in 1..n : toServer'[k] = toServer[k + 1]
    BY <1>1, <1>2, <1>3, <1>4, HeadTailProperties
  <2>2. DOMAIN toServer = 1..(n + 1) /\ DOMAIN toServer' = 1..n
    BY <1>2, <1>4, <2>1
  <2>3. 1 \in 1..(n + 1) /\ \A k \in 1..n : k + 1 \in 1..(n + 1)
    OBVIOUS
  <2>4. \A k \in 1..(n + 1) : k # 1 => k - 1 \in 1..n /\ (k - 1) + 1 = k
    OBVIOUS
  <2> QED
    BY <2>1, <2>2, <2>3, <2>4
<1>6. /\ Cardinality(Wanted(toServer)) = Cardinality(Wanted(toServer')) + (IF m.wanted THEN 1 ELSE 0)
      /\ Cardinality(Wanted(toServer')) \in Nat
  BY <1>1, <1>2, <1>3, <1>5, WantedTail, WantedAppend
<1>7. \A k \in DOMAIN toServer' : toServer'[k].id <= requestId
  BY <1>5 DEF LspInv, LspShapes
<1>8. m.id \in 0..requestId
  BY <1>1, <1>5 DEF LspInv, LspShapes, Said
<1>9. PICK c \in Nat : c = Cardinality(Wanted(toServer'))
  BY <1>6
<1>10. Len(fromServer) + (c + (IF m.wanted THEN 1 ELSE 0)) = remarks + (IF wants = 0 THEN 0 ELSE 1)
  BY <1>1, <1>6, <1>9 DEF LspInv
<1>11. CASE fromServer' = fromServer /\ remarks' = remarks /\ ~ m.wanted
  <2>1. OthersInFront'
    <3> SUFFICES ASSUME wants \in late, NEW k \in DOMAIN toServer', toServer'[k].wanted, toServer'[k].id = wants,
                        fromServer = <<>>
                 PROVE  \E j \in DOMAIN toServer' : j < k /\ toServer'[j].wanted
      BY <1>1, <1>11 DEF LspInv, OthersInFront
    <3>1. k \in 1..n /\ k + 1 \in DOMAIN toServer /\ toServer[k + 1] = toServer'[k]
      BY <1>5
    <3>2. PICK j \in DOMAIN toServer : j < k + 1 /\ toServer[j].wanted
      BY <3>1 DEF LspInv, OthersInFront
    <3>3. j # 1
      BY <1>5, <1>11, <3>2
    <3>4. j - 1 \in 1..n /\ toServer'[j - 1] = toServer[j]
      BY <1>5, <3>3
    <3>5. j - 1 < k
      BY <1>2, <3>1, <3>2
    <3> QED
      BY <1>5, <3>2, <3>4, <3>5
  <2>2. Len(fromServer') + Cardinality(Wanted(toServer')) = remarks' + (IF wants' = 0 THEN 0 ELSE 1)
    BY <1>1, <1>9, <1>10, <1>11
  <2>3. LspShapes'
    BY <1>1, <1>5, <1>7, <1>11 DEF LspInv, LspShapes
  <2> QED
    BY <1>1, <2>1, <2>2, <2>3 DEF LspInv, Nothing, Unanswered
<1>12. CASE \E x \in {0, m.id} : /\ fromServer' = Append(fromServer, x)
                                 /\ IF m.wanted THEN x = m.id /\ remarks' = remarks
                                                ELSE x = 0 /\ remarks' = remarks + 1
  <2>1. PICK x \in {0, m.id} : /\ fromServer' = Append(fromServer, x)
                               /\ IF m.wanted THEN x = m.id /\ remarks' = remarks
                                              ELSE x = 0 /\ remarks' = remarks + 1
    BY <1>12
  <2>2. x \in 0..requestId
    BY <1>1, <1>8
  <2>3. wants = 0 \/ x # wants \/ fromServer # <<>> \/ wants \notin late
    <3> SUFFICES ASSUME wants # 0, x = wants, wants \in late PROVE fromServer # <<>>
      OBVIOUS
    <3>1. m.wanted /\ m.id = wants
      BY <2>1
    <3>2. \A j \in DOMAIN toServer : ~ (j < 1)
      BY <1>2
    <3> QED
      BY <1>5, <3>1, <3>2 DEF LspInv, OthersInFront
  <2>4. /\ fromServer' \in Seq(Nat) /\ fromServer' # <<>> /\ Len(fromServer') = Len(fromServer) + 1
        /\ \A k \in DOMAIN fromServer' : fromServer'[k] <= requestId
        /\ wants \in late => \A k \in DOMAIN fromServer' : fromServer'[k] = wants => k # 1
    BY <2>1, <2>2, <2>3, SendKeeps
  <2>5. Len(fromServer') + Cardinality(Wanted(toServer')) = remarks' + (IF wants' = 0 THEN 0 ELSE 1)
    <3>1. Len(fromServer) + 1 + c = remarks' + (IF wants = 0 THEN 0 ELSE 1)
      BY <1>1, <1>2, <1>10, <2>1
    <3> QED
      BY <1>1, <1>9, <2>4, <3>1
  <2>6. LspShapes'
    <3>1. remarks' \in Nat
      BY <1>1, <2>1
    <3> QED
      BY <1>1, <1>5, <1>7, <2>4, <3>1 DEF LspInv, LspShapes
  <2>7. OthersInFront'
    BY <1>1, <2>4 DEF OthersInFront
  <2> QED
    BY <1>1, <2>5, <2>6, <2>7 DEF LspInv, Nothing, Unanswered
<1> QED
  BY <1>3, <1>11, <1>12 DEF Reply

LEMMA LspStep ==
  ASSUME LspInv, [LspNext]_lspVars
  PROVE  LspInv'
<1> USE DEF Nothing, Unanswered
<1>1. /\ requestId \in Nat /\ remarks \in Nat /\ fromServer \in Seq(Nat) /\ toServer \in Seq(Said)
      /\ Len(fromServer) \in Nat /\ late \subseteq 1..requestId /\ 0 \notin late
      /\ Wanted(<<>>) = {} /\ Cardinality(Wanted(<<>>)) = 0
  BY LspAssumption, FS_EmptySet DEF LspInv, LspShapes, Wanted
<1>2. CASE LspStart
  <2>1. /\ wants = 0 /\ toServer' = <<>> /\ fromServer' = <<>> /\ remarks' = 0 /\ lspServer' = "alive"
        /\ requestId' = requestId /\ wants' = wants /\ answered' = answered /\ late' = late
    BY <1>2 DEF LspStart
  <2>2. LspShapes'
    BY <2>1 DEF LspInv, LspShapes
  <2>3. Len(fromServer') + Cardinality(Wanted(toServer')) = remarks' + (IF wants' = 0 THEN 0 ELSE 1)
    BY <1>1, <2>1
  <2> QED
    BY <1>1, <2>1, <2>2, <2>3 DEF LspInv, OthersInFront
<1>3. ASSUME NEW w \in BOOLEAN, Say(w) PROVE LspInv'
  BY <1>3, LspSayKeeps
<1>4. CASE TakeNext
  <2>1. /\ wants # 0 /\ fromServer # <<>> /\ fromServer' = Tail(fromServer)
        /\ answered' = [answered EXCEPT ![wants] = Head(fromServer)] /\ wants' = 0
        /\ lspServer' = lspServer /\ requestId' = requestId /\ toServer' = toServer /\ remarks' = remarks
        /\ late' = late
    BY <1>4 DEF TakeNext
  <2>2. PICK x : x = Head(fromServer)
    OBVIOUS
  <2>3. PICK n \in Nat : n = Len(fromServer) - 1
    <3>1. Len(fromServer) # 0
      BY <1>1, <2>1
    <3>2. Len(fromServer) - 1 \in Nat
      BY <1>1, <3>1
    <3> QED
      BY <3>2
  <2>4. /\ x \in Nat /\ x = fromServer[1] /\ 1 \in DOMAIN fromServer /\ fromServer' \in Seq(Nat)
        /\ Len(fromServer') = n /\ DOMAIN fromServer' = 1..n
        /\ \A k \in 1..n : fromServer'[k] = fromServer[k + 1] /\ k + 1 \in DOMAIN fromServer
    BY <1>1, <2>1, <2>2, <2>3, HeadTailProperties
  <2>5. x \in 0..requestId /\ (wants \in late => x # wants)
    BY <1>1, <2>4 DEF LspInv, LspShapes, OthersInFront
  <2>6. /\ answered' \in [1..MaxLspMessages -> Nat]
        /\ \A i \in late : answered'[i] # i
        /\ \A i \in DOMAIN answered' : answered'[i] \in 0..i \cup {Nothing, Unanswered}
        /\ \A i \in DOMAIN answered' : i > requestId => answered'[i] = Unanswered
    <3> HIDE DEF Nothing, Unanswered
    <3> QED
      BY <2>1, <2>2, <2>5, TakeKeeps
  <2>7. \A k \in DOMAIN fromServer' : fromServer'[k] <= requestId
    BY <2>4 DEF LspInv, LspShapes
  <2>8. LspShapes'
    BY <2>1, <2>4, <2>6, <2>7 DEF LspInv, LspShapes
  <2>9. lspServer = "alive" => Len(fromServer') + Cardinality(Wanted(toServer)) = remarks
    <3> SUFFICES ASSUME lspServer = "alive" PROVE n + Cardinality(Wanted(toServer)) = remarks
      BY <2>4
    <3>1. Len(fromServer) + Cardinality(Wanted(toServer)) = remarks + 1
      BY <2>1 DEF LspInv
    <3>2. PICK c \in Nat : c = Cardinality(Wanted(toServer))
      <4>1. [id |-> 0, wanted |-> TRUE] \in Said
        BY DEF Said
      <4> QED
        BY <1>1, <4>1, WantedAppend
    <3>3. Len(fromServer) = n + 1
      BY <1>1, <2>3
    <3> QED
      BY <1>1, <3>1, <3>2, <3>3
  <2> QED
    BY <1>1, <2>1, <2>6, <2>8, <2>9 DEF LspInv, OthersInFront
<1>5. CASE TakeEnd
  <2>1. /\ wants # 0 /\ lspServer = "dead" /\ answered' = [answered EXCEPT ![wants] = Nothing] /\ wants' = 0
        /\ lspServer' = lspServer /\ requestId' = requestId /\ toServer' = toServer /\ remarks' = remarks
        /\ late' = late /\ fromServer' = fromServer
    BY <1>5 DEF TakeEnd
  <2>2. Nothing # wants
    BY LspAssumption DEF LspInv, LspShapes
  <2>3. /\ answered' \in [1..MaxLspMessages -> Nat]
        /\ \A i \in late : answered'[i] # i
        /\ \A i \in DOMAIN answered' : answered'[i] \in 0..i \cup {Nothing, Unanswered}
        /\ \A i \in DOMAIN answered' : i > requestId => answered'[i] = Unanswered
    <3> HIDE DEF Nothing, Unanswered
    <3> QED
      BY <2>1, <2>2, TakeKeeps
  <2>4. LspShapes'
    BY <2>1, <2>3 DEF LspInv, LspShapes
  <2> QED
    BY <1>1, <2>1, <2>3, <2>4 DEF LspInv, OthersInFront
<1>6. CASE LspShutdown
  <2>1. /\ wants = 0 /\ lspServer' = "none" /\ toServer' = <<>> /\ fromServer' = <<>>
        /\ requestId' = requestId /\ wants' = wants /\ answered' = answered /\ remarks' = remarks /\ late' = late
    BY <1>6 DEF LspShutdown
  <2>2. LspShapes'
    BY <2>1 DEF LspInv, LspShapes
  <2> QED
    BY <1>1, <2>1, <2>2 DEF LspInv, OthersInFront
<1>7. CASE Reply
  BY <1>7, LspReplyKeeps
<1>8. CASE Remark
  <2>1. /\ lspServer = "alive" /\ fromServer' = Append(fromServer, 0) /\ remarks' = remarks + 1
        /\ lspServer' = lspServer /\ requestId' = requestId /\ toServer' = toServer /\ wants' = wants
        /\ answered' = answered /\ late' = late
    BY <1>8 DEF Remark
  <2>2. /\ fromServer' \in Seq(Nat) /\ fromServer' # <<>> /\ Len(fromServer') = Len(fromServer) + 1
        /\ \A k \in DOMAIN fromServer' : fromServer'[k] <= requestId
        /\ wants \in late => \A k \in DOMAIN fromServer' : fromServer'[k] = wants => k # 1
    <3>1. 0 \in 0..requestId /\ (wants = 0 \/ 0 # wants)
      BY <1>1
    <3> QED
      BY <2>1, <3>1, SendKeeps
  <2>3. LspShapes'
    BY <1>1, <2>1, <2>2 DEF LspInv, LspShapes
  <2>4. Len(fromServer') + Cardinality(Wanted(toServer')) = remarks' + (IF wants' = 0 THEN 0 ELSE 1)
    <3>1. Len(fromServer) + Cardinality(Wanted(toServer)) = remarks + (IF wants = 0 THEN 0 ELSE 1)
      BY <2>1 DEF LspInv
    <3>2. PICK c \in Nat : c = Cardinality(Wanted(toServer))
      <4>1. [id |-> 0, wanted |-> TRUE] \in Said
        BY DEF Said
      <4> QED
        BY <1>1, <4>1, WantedAppend
    <3>3. Len(fromServer) + 1 + c = remarks + 1 + (IF wants = 0 THEN 0 ELSE 1)
      BY <1>1, <3>1, <3>2
    <3> QED
      BY <2>1, <2>2, <3>2, <3>3
  <2> QED
    BY <2>1, <2>2, <2>3, <2>4 DEF LspInv, OthersInFront
<1>9. CASE Perish
  <2>1. /\ lspServer' = "dead" /\ toServer' = <<>> /\ fromServer' = fromServer /\ remarks' = remarks
        /\ requestId' = requestId /\ wants' = wants /\ answered' = answered /\ late' = late
    BY <1>9 DEF Perish
  <2>2. LspShapes'
    BY <2>1 DEF LspInv, LspShapes
  <2> QED
    BY <2>1, <2>2 DEF LspInv, OthersInFront
<1>10. CASE UNCHANGED lspVars
  <2>1. LspShapes' /\ OthersInFront'
    BY <1>10 DEF lspVars, LspInv, LspShapes, OthersInFront
  <2> QED
    BY <1>10, <2>1 DEF lspVars, LspInv
<1> QED
  BY <1>2, <1>3, <1>4, <1>5, <1>6, <1>7, <1>8, <1>9, <1>10 DEF LspNext

LEMMA LspInitially == LspInit => LspInv
<1> SUFFICES ASSUME LspInit PROVE LspInv
  OBVIOUS
<1>1. LspShapes
  BY LspAssumption DEF LspInit, LspShapes, Unanswered
<1> QED
  BY <1>1 DEF LspInit, LspInv, OthersInFront, Unanswered

LEMMA LspHolds == LspInv => LspTypeOK /\ OutOfStepForGood
<1> SUFFICES ASSUME LspInv PROVE LspTypeOK /\ OutOfStepForGood
  OBVIOUS
<1>1. /\ MaxLspMessages \in Nat /\ requestId \in Nat /\ remarks \in Nat /\ fromServer \in Seq(Nat)
      /\ answered \in [1..MaxLspMessages -> Nat]
  BY LspAssumption DEF LspInv, LspShapes
<1>2. \A i \in DOMAIN answered : answered[i] \in 0..Unanswered
  <2> SUFFICES ASSUME NEW i \in 1..MaxLspMessages PROVE answered[i] \in 0..Unanswered
    BY <1>1
  <2>1. answered[i] \in 0..i \cup {Nothing, Unanswered}
    BY <1>1 DEF LspInv
  <2> QED
    BY <1>1, <2>1 DEF Nothing, Unanswered
<1>3. \A i \in DOMAIN fromServer : fromServer[i] \in 0..requestId
  BY <1>1 DEF LspInv, LspShapes
<1>4. LspTypeOK
  BY <1>1, <1>2, <1>3 DEF LspTypeOK, LspInv, LspShapes
<1>5. lspServer = "alive" /\ wants = 0 =>
        Len(fromServer) + Cardinality({k \in DOMAIN toServer : toServer[k].wanted}) = remarks
  BY <1>1 DEF LspInv, Wanted
<1> QED
  BY <1>4, <1>5 DEF LspInv, OutOfStepForGood

-----------------------------------------------------------------------------
(***************************************************************************)
(* FlattenSeq, where what a call of the terminal read is added at the end.  *)
(***************************************************************************)
\* What is flattened up to each place.
Flattens(f, s, n) == \A i \in 1..n : f[i] = IF i = 1 THEN s[i] ELSE f[i - 1] \o s[i]

LEMMA LeastNumber ==
  ASSUME NEW S \in SUBSET Nat, S # {}
  PROVE  \E x \in S : \A y \in S : x <= y
<1> DEFINE R == OpToRel(<, Nat)
<1>1. IsWellFoundedOn(R, Nat)
  BY NatLessThanWellFounded
<1>2. \A x, y \in Nat : x < y => <<x, y>> \in R
  BY DEF OpToRel
<1> HIDE DEF R
<1>3. PICK x \in S : \A y \in S : <<y, x>> \notin R
  BY <1>1, WFMin
<1>4. \A y \in S : ~ (y < x)
  BY <1>2, <1>3
<1> QED
  BY <1>3, <1>4

\* A sequence of sequences can be flattened, and in one way.
LEMMA FlatteningExists ==
  ASSUME NEW S, NEW s \in Seq(Seq(S))
  PROVE  \E f \in [1..Len(s) -> Seq(S)] : Flattens(f, s, Len(s))
<1> DEFINE Missing == {n \in 0..Len(s) : \A f \in [1..n -> Seq(S)] : ~ Flattens(f, s, n)}
<1>1. 0 \notin Missing
  <2>1. <<>> \in [1..0 -> Seq(S)] /\ Flattens(<<>>, s, 0)
    BY DEF Flattens
  <2> QED
    BY <2>1
<1>2. ASSUME NEW n \in 0..Len(s), n + 1 <= Len(s), NEW f \in [1..n -> Seq(S)], Flattens(f, s, n)
      PROVE  \E g \in [1..(n + 1) -> Seq(S)] : Flattens(g, s, n + 1)
  <2> DEFINE g == [i \in 1..(n + 1) |-> IF i = 1 THEN s[i] ELSE f[i - 1] \o s[i]]
  <2>1. n \in Nat /\ \A i \in 1..(n + 1) : s[i] \in Seq(S)
    BY <1>2
  <2>2. \A i \in 1..(n + 1) : i # 1 => i - 1 \in 1..n
    BY <2>1
  <2>3. g \in [1..(n + 1) -> Seq(S)]
    <3> SUFFICES ASSUME NEW i \in 1..(n + 1) PROVE (IF i = 1 THEN s[i] ELSE f[i - 1] \o s[i]) \in Seq(S)
      OBVIOUS
    <3>1. i # 1 => f[i - 1] \in Seq(S)
      BY <1>2, <2>2
    <3> QED
      BY <2>1, <3>1, ConcatProperties
  <2>4. \A i \in 1..n : g[i] = f[i]
    <3>1. \A i \in 1..n : i \in 1..(n + 1)
      BY <2>1
    <3> QED
      BY <1>2, <3>1 DEF Flattens
  <2>5. Flattens(g, s, n + 1)
    BY <2>2, <2>4 DEF Flattens
  <2> QED
    BY <2>3, <2>5
<1>3. Missing \in SUBSET Nat
  OBVIOUS
<1>4. Missing = {}
  <2> SUFFICES ASSUME Missing # {} PROVE FALSE
    OBVIOUS
  <2>1. PICK n \in Missing : \A m \in Missing : n <= m
    BY <1>3, LeastNumber
  <2>2. n \in Nat /\ n <= Len(s) /\ Len(s) \in Nat /\ n # 0
    BY <1>1, <2>1
  <2>3. n - 1 \in 0..Len(s) /\ (n - 1) + 1 = n
    BY <2>2
  <2>4. n - 1 \notin Missing
    <3> HIDE DEF Missing
    <3> QED
      BY <1>3, <2>1, <2>2
  <2>5. \E f \in [1..n -> Seq(S)] : Flattens(f, s, n)
    BY <1>2, <2>2, <2>3, <2>4
  <2> QED
    BY <2>5
<1> QED
  BY <1>4

LEMMA FlatteningIsOne ==
  ASSUME NEW n \in Nat, NEW s, NEW f, NEW r, NEW g, Flattens(f, s, n), Flattens(g, r, n),
         \A i \in 1..n : r[i] = s[i]
  PROVE  \A i \in 1..n : f[i] = g[i]
<1> DEFINE Apart == {i \in 1..n : f[i] # g[i]}
<1> SUFFICES ASSUME Apart # {} PROVE FALSE
  OBVIOUS
<1>1. Apart \in SUBSET Nat
  OBVIOUS
<1>2. PICK i \in Apart : \A k \in Apart : i <= k
  <2> HIDE DEF Apart
  <2> QED
    BY <1>1, LeastNumber
<1>3. i \in 1..n /\ (i # 1 => i - 1 \in 1..n /\ i - 1 \notin Apart)
  <2>1. i - 1 \notin Apart
    <3> HIDE DEF Apart
    <3> QED
      BY <1>1, <1>2
  <2> QED
    BY <2>1
<1>4. f[i] = (IF i = 1 THEN s[i] ELSE f[i - 1] \o s[i]) /\ g[i] = IF i = 1 THEN s[i] ELSE g[i - 1] \o s[i]
  BY <1>3 DEF Flattens
<1> QED
  BY <1>2, <1>3, <1>4

LEMMA FlattenIsLast ==
  ASSUME NEW S, NEW s \in Seq(Seq(S)), s # <<>>
  PROVE  \E f \in [1..Len(s) -> Seq(S)] : Flattens(f, s, Len(s)) /\ FlattenSeq(s) = f[Len(s)]
<1> DEFINE Is(f) == f = [i \in 1..Len(s) |-> IF i = 1 THEN s[i] ELSE f[i - 1] \o s[i]]
           c == CHOOSE f : Is(f)
<1>1. PICK g \in [1..Len(s) -> Seq(S)] : Flattens(g, s, Len(s))
  BY FlatteningExists
<1>2. Is(g)
  BY <1>1 DEF Flattens
<1>3. Len(s) \in Nat /\ Len(s) # 0
  OBVIOUS
<1>4. FlattenSeq(s) = c[Len(s)]
  BY <1>3 DEF FlattenSeq
<1>5. Is(c)
  <2> HIDE DEF Is
  <2> QED
    BY <1>2
<1> HIDE DEF c
<1>6. Flattens(c, s, Len(s))
  <2> SUFFICES ASSUME NEW i \in 1..Len(s) PROVE c[i] = IF i = 1 THEN s[i] ELSE c[i - 1] \o s[i]
    BY DEF Flattens
  <2> QED
    BY <1>5
<1>7. \A i \in 1..Len(s) : g[i] = c[i]
  <2> HIDE DEF Is
  <2> QED
    BY <1>1, <1>3, <1>6, FlatteningIsOne
<1>8. FlattenSeq(s) = g[Len(s)]
  BY <1>3, <1>4, <1>7
<1> QED
  BY <1>1, <1>8

LEMMA FlattenAppend ==
  ASSUME NEW S, NEW s \in Seq(Seq(S)), NEW x \in Seq(S)
  PROVE  FlattenSeq(s) \in Seq(S) /\ FlattenSeq(Append(s, x)) = FlattenSeq(s) \o x
<1>1. PICK t : t = Append(s, x)
  OBVIOUS
<1>2. /\ t \in Seq(Seq(S)) /\ Len(t) = Len(s) + 1 /\ Len(s) \in Nat
      /\ t[Len(t)] = x /\ \A i \in 1..Len(s) : t[i] = s[i]
  BY <1>1, AppendProperties
<1>3. PICK g \in [1..Len(t) -> Seq(S)] : Flattens(g, t, Len(t)) /\ FlattenSeq(t) = g[Len(t)]
  BY <1>2, FlattenIsLast
<1>4. Len(t) \in 1..Len(t) /\ FlattenSeq(t) = IF Len(t) = 1 THEN x ELSE g[Len(t) - 1] \o x
  <2>1. Len(t) \in 1..Len(t)
    BY <1>2
  <2> QED
    BY <1>2, <1>3, <2>1 DEF Flattens
<1>5. CASE s = <<>>
  <2>1. Len(s) = 0 /\ FlattenSeq(s) = <<>>
    BY <1>5 DEF FlattenSeq
  <2>2. FlattenSeq(t) = x
    BY <1>2, <1>4, <2>1
  <2> QED
    BY <1>1, <2>1, <2>2
<1>6. CASE s # <<>>
  <2>1. PICK f : f \in [1..Len(s) -> Seq(S)] /\ Flattens(f, s, Len(s)) /\ FlattenSeq(s) = f[Len(s)]
    BY <1>6, FlattenIsLast
  <2>2. Len(s) \in 1..Len(s) /\ Len(t) # 1 /\ Len(t) - 1 = Len(s)
    BY <1>2, <1>6
  <2>3. Flattens(g, t, Len(s))
    <3>1. \A i \in 1..Len(s) : i \in 1..Len(t)
      BY <1>2
    <3> QED
      BY <1>2, <1>3, <3>1 DEF Flattens
  <2>4. \A i \in 1..Len(s) : f[i] = g[i]
    <3>1. PICK n \in Nat : n = Len(s)
      BY <1>2
    <3>2. Flattens(f, s, n) /\ Flattens(g, t, n) /\ \A i \in 1..n : t[i] = s[i]
      BY <1>2, <2>1, <2>3, <3>1
    <3>3. \A i \in 1..n : f[i] = g[i]
      <4>1. PICK u : u = t
        OBVIOUS
      <4>2. Flattens(g, u, n) /\ \A i \in 1..n : u[i] = s[i]
        BY <3>2, <4>1
      <4>3. Flattens(f, s, n)
        BY <3>2
      <4> QED
        BY <4>2, <4>3, FlatteningIsOne
    <3> QED
      BY <3>1, <3>3
  <2> QED
    BY <1>1, <1>4, <2>1, <2>2, <2>4
<1> QED
  BY <1>5, <1>6

\* Nothing comes of results that are empty.
LEMMA FlattenEmpties ==
  ASSUME NEW s, NEW n \in Nat, s = [i \in 1..n |-> <<>>]
  PROVE  FlattenSeq(s) = <<>>
<1>1. s \in Seq(Seq({}))
  <2>1. <<>> \in Seq({})
    OBVIOUS
  <2> QED
    BY <2>1
<1>2. FlattenSeq(s) \in Seq({})
  <2>1. <<>> \in Seq({})
    OBVIOUS
  <2> QED
    BY <1>1, <2>1, FlattenAppend
<1> QED
  BY <1>2

-----------------------------------------------------------------------------
(***************************************************************************)
(* The terminal.                                                           *)
(***************************************************************************)
Of(ns) == [of : ns, is : Texts \cup {"prompt", "line", "not found"}]
Shown == Of(0..MaxCommands)

\* Some of the lines that were read, at their places.
Kept == UNION {[places -> Shown] : places \in SUBSET Nat}

\* What is printed before the prompt that follows command n.
Unfinished(n) == Of({0, n}) \ {Item(n, "prompt")}

\* The commands so far.
Given == 1..Len(said)

TerminalShapes ==
  /\ shellRuns \in 0..Closed /\ typed \in Seq(Given) /\ reading \in 0..MaxCommands
  /\ screen \in Seq(Shown) /\ output \in Seq(Shown) /\ printed \in Seq(Shown)
  /\ heard \in Seq(Seq(Shown)) /\ Executed <= MaxCommands /\ hasty \in BOOLEAN
  /\ said \in Seq(Texts) /\ results \in Seq(Kept)

\* Unless an execute was hasty, the shell is where the last one left it.
InStep ==
  /\ output \in Seq(Of({0, reading})) /\ screen \in Seq(Of({0, reading}))
  /\ \A n \in DOMAIN heard : heard[n] \in Seq(Of({0, n}))
  /\ reading = 0 => typed = <<>> /\ shellRuns \in {0, Closed}
  /\ reading # 0 =>
       \/ typed = <<>> /\ shellRuns = 0
       \/ /\ output \in Seq(Unfinished(reading)) /\ screen \in Seq(Unfinished(reading))
          /\ \/ typed = <<>> /\ shellRuns = reading
             \/ typed = <<reading>> /\ shellRuns = 0

\* Nothing is returned that was not read.
ReturnedIsHeard ==
  \A n \in DOMAIN heard : \A k \in DOMAIN results[n] :
    k \in DOMAIN heard[n] /\ results[n][k] = heard[n][k]

TerminalInv ==
  /\ TerminalShapes
  /\ reading # 0 => reading = Len(heard) + 1
  /\ Len(said) = IF reading = 0 THEN Len(heard) ELSE Len(heard) + 1
  /\ Len(results) = Len(heard) /\ ReadIsReturned /\ ReturnedIsHeard
  /\ reading = 0 => output = <<>>
  /\ shellRuns = Closed => typed = <<>> /\ screen = <<>> /\ reading = 0
  /\ PrintedIsRead
  /\ ~ hasty => InStep

LEMMA TerminalFacts ==
  ASSUME TerminalInv
  PROVE  /\ MaxCommands \in Nat /\ reading \in Nat /\ Len(heard) \in Nat /\ Closed \notin Commands /\ Closed # 0
         /\ FlattenSeq(heard) \in Seq(Shown) /\ FlattenSeq(heard) \o output \in Seq(Shown)
         /\ typed \in Seq(Given) /\ screen \in Seq(Shown) /\ output \in Seq(Shown) /\ printed \in Seq(Shown)
         /\ output \o screen \in Seq(Shown) /\ heard \in Seq(Seq(Shown)) /\ hasty \in BOOLEAN
         /\ \A n \in Commands : n # 0 /\ n \in 0..MaxCommands
         /\ said \in Seq(Texts) /\ results \in Seq(Kept) /\ Len(said) = Executed
         /\ Given \subseteq Commands
<1>1. /\ MaxCommands \in Nat /\ heard \in Seq(Seq(Shown)) /\ output \in Seq(Shown) /\ screen \in Seq(Shown)
  BY TerminalAssumption DEF TerminalInv, TerminalShapes
<1>2. FlattenSeq(heard) \in Seq(Shown)
  <2>1. <<>> \in Seq(Shown)
    OBVIOUS
  <2> QED
    BY <1>1, <2>1, FlattenAppend
<1>3. FlattenSeq(heard) \o output \in Seq(Shown) /\ output \o screen \in Seq(Shown)
  BY <1>1, <1>2, ConcatProperties
<1>4. reading \in Nat /\ Len(heard) \in Nat /\ Closed \notin Commands /\ Closed # 0
  BY <1>1 DEF TerminalInv, TerminalShapes, Closed, Commands
<1>5. \A n \in Commands : n # 0 /\ n \in 0..MaxCommands
  BY <1>1 DEF Commands
<1> QED
  BY <1>1, <1>2, <1>3, <1>4, <1>5 DEF TerminalInv, TerminalShapes, Executed, Given, Commands

LEMMA ItemIsShown ==
  ASSUME NEW n \in 0..MaxCommands, NEW what \in Texts \cup {"prompt", "line", "not found"}
  PROVE  Item(n, what) \in Shown /\ Item(n, what).of = n /\ Item(n, what).is = what
BY DEF Item, Shown, Of

\* x is printed: it is still to be read.
LEMMA PrintedStays ==
  ASSUME TerminalInv, NEW x \in Shown, Prints(<<x>>), output' = output, heard' = heard
  PROVE  PrintedIsRead' /\ screen' \in Seq(Shown) /\ printed' \in Seq(Shown)
<1>1. /\ screen' = screen \o <<x>> /\ printed' = printed \o <<x>> /\ <<x>> \in Seq(Shown)
  BY DEF Prints
<1>2. screen' \in Seq(Shown) /\ printed' \in Seq(Shown)
  BY <1>1, TerminalFacts, ConcatProperties
<1>3. PrintedIsRead'
  <2>1. PICK f : f = FlattenSeq(heard) \o output
    OBVIOUS
  <2>2. f \in Seq(Shown) /\ screen \in Seq(Shown) /\ printed = f \o screen
    BY <2>1, TerminalFacts DEF TerminalInv, PrintedIsRead
  <2>3. f \o (screen \o <<x>>) = (f \o screen) \o <<x>>
    BY <1>1, <2>2, ConcatAssociative
  <2> QED
    BY <1>1, <2>1, <2>2, <2>3 DEF PrintedIsRead
<1> QED
  BY <1>2, <1>3

\* What was returned stays so while calls, texts and results do.
LEMMA ReturnedStays ==
  ASSUME TerminalInv, UNCHANGED told PROVE (ReadIsReturned /\ ReturnedIsHeard)'
BY DEF TerminalInv, told, ReadIsReturned, ReturnedIsHeard

\* The shell prints x.
LEMMA PrintKeeps ==
  ASSUME TerminalInv, NEW x \in Shown, Prints(<<x>>),
         reading' = reading, output' = output, UNCHANGED told, hasty' = hasty,
         typed' \in Seq(Given), shellRuns' \in 0..MaxCommands,
         ~ hasty =>
           /\ x.of \in {0, reading}
           /\ reading = 0 => typed' = <<>> /\ shellRuns' = 0
           /\ reading # 0 =>
                \/ typed' = <<>> /\ shellRuns' = 0
                \/ /\ output \in Seq(Unfinished(reading)) /\ screen \in Seq(Unfinished(reading))
                   /\ x # Item(reading, "prompt") /\ typed' = <<>> /\ shellRuns' = reading
  PROVE  TerminalInv'
<1>1. /\ screen' = screen \o <<x>> /\ printed' = printed \o <<x>> /\ <<x>> \in Seq(Shown)
  BY DEF Prints
<1>2. heard' = heard /\ said' = said /\ results' = results
  BY DEF told
<1>3. PrintedIsRead' /\ screen' \in Seq(Shown) /\ printed' \in Seq(Shown)
  BY <1>2, PrintedStays
<1>4. shellRuns' # Closed /\ Closed' = Closed
  BY TerminalFacts DEF Closed
<1>5. ASSUME ~ hasty PROVE InStep'
  <2>1. x \in Of({0, reading})
    BY <1>5 DEF Shown, Of
  <2>2. <<x>> \in Seq(Of({0, reading})) /\ screen \in Seq(Of({0, reading}))
    BY <1>5, <2>1 DEF TerminalInv, InStep
  <2>3. screen' \in Seq(Of({0, reading}))
    BY <1>1, <2>2, ConcatProperties
  <2>4. CASE reading = 0 \/ (typed' = <<>> /\ shellRuns' = 0)
    BY <1>2, <1>5, <2>3, <2>4 DEF TerminalInv, InStep
  <2>5. CASE /\ reading # 0 /\ output \in Seq(Unfinished(reading)) /\ screen \in Seq(Unfinished(reading))
             /\ x # Item(reading, "prompt") /\ typed' = <<>> /\ shellRuns' = reading
    <3>1. <<x>> \in Seq(Unfinished(reading))
      BY <2>1, <2>5 DEF Unfinished
    <3>2. screen' \in Seq(Unfinished(reading))
      BY <1>1, <2>5, <3>1, ConcatProperties
    <3> QED
      BY <1>2, <1>5, <2>3, <2>5, <3>2 DEF TerminalInv, InStep
  <2> QED
    BY <1>5, <2>4, <2>5
<1>6. TerminalShapes'
  <2>1. shellRuns' \in 0..Closed
    BY TerminalFacts DEF Closed
  <2> QED
    BY <1>2, <1>3, <2>1 DEF TerminalInv, TerminalShapes, Executed, Given
<1> QED
  BY <1>2, <1>3, <1>4, <1>5, <1>6, ReturnedStays DEF TerminalInv

\* An execute returns what it has read.
LEMMA ReturnKeeps ==
  ASSUME TerminalInv, reading # 0, NEW items \in Seq(Shown), items = output \o screen, Returns(items),
         screen' = <<>>, shellRuns' = shellRuns, typed' = typed, printed' = printed
  PROVE  TerminalInv'
<1>1. /\ heard' = Append(heard, items) /\ reading' = 0 /\ output' = <<>>
      /\ results' = Append(results, Cleaned(said[reading], items)) /\ said' = said
      /\ hasty' = (hasty \/ Item(reading, "prompt") \notin ToSet(items))
  BY DEF Returns
<1>2. PICK n : n = Len(heard) + 1
  OBVIOUS
<1>3. /\ heard' \in Seq(Seq(Shown)) /\ Len(heard') = n /\ DOMAIN heard' = 1..n /\ heard'[n] = items
      /\ \A k \in DOMAIN heard : heard'[k] = heard[k]
      /\ \A k \in 1..n : k = n \/ k \in DOMAIN heard
      /\ reading = n /\ n \in Nat /\ n <= MaxCommands
  <2>1. /\ heard' \in Seq(Seq(Shown)) /\ Len(heard') = n /\ heard'[n] = items
        /\ \A k \in 1..Len(heard) : heard'[k] = heard[k]
    BY <1>1, <1>2, TerminalFacts, AppendProperties
  <2>2. Len(heard) \in Nat /\ DOMAIN heard = 1..Len(heard) /\ DOMAIN heard' = 1..n
    BY <2>1, TerminalFacts
  <2>3. reading = n /\ n <= MaxCommands
    BY <1>2, TerminalFacts DEF TerminalInv, TerminalShapes, Executed
  <2> QED
    BY <1>2, <2>1, <2>2, <2>3
<1> DEFINE kept == Cleaned(said[n], items)
<1>7. DOMAIN kept \subseteq DOMAIN items /\ \A k \in DOMAIN kept : kept[k] = items[k]
  BY DEF Cleaned
<1>8. \A k \in DOMAIN items : items[k].is # said[n] => k \in DOMAIN kept
  BY DEF Cleaned, Repeats
<1>9. kept \in Kept
  <2>1. PICK places : places = DOMAIN kept /\ places \in SUBSET Nat
    BY <1>7
  <2>2. kept \in [places -> Shown]
    BY <1>7, <2>1 DEF Cleaned
  <2> QED
    BY <2>1, <2>2 DEF Kept
<1>10. /\ results' \in Seq(Kept) /\ Len(results') = n /\ DOMAIN results' = 1..n
       /\ \A k \in DOMAIN heard : results'[k] = results[k]
       /\ results'[n] = kept
  <2>1. results' = Append(results, kept) /\ Len(results) = Len(heard) /\ n = Len(results) + 1
    BY <1>1, <1>2, <1>3 DEF TerminalInv
  <2>2. PICK g \in Kept : g = kept
    BY <1>9
  <2> HIDE DEF kept
  <2>3. /\ results' \in Seq(Kept) /\ Len(results') = n /\ results'[n] = kept
        /\ \A k \in 1..Len(results) : results'[k] = results[k]
    BY <2>1, <2>2, TerminalFacts, AppendProperties
  <2> QED
    BY <1>3, <2>1, <2>3, TerminalFacts
<1>11. (ReadIsReturned /\ ReturnedIsHeard)'
  <2> HIDE DEF kept
  <2>1. ASSUME NEW c \in 1..n, NEW k \in DOMAIN heard'[c], heard'[c][k].is # said'[c]
        PROVE  k \in DOMAIN results'[c] /\ results'[c][k] = heard'[c][k]
    <3>1. CASE c = n
      BY <1>1, <1>3, <1>7, <1>8, <1>10, <2>1, <3>1
    <3>2. CASE c \in DOMAIN heard
      BY <1>1, <1>3, <1>10, <2>1, <3>2 DEF TerminalInv, ReadIsReturned
    <3> QED
      BY <1>3, <3>1, <3>2
  <2>2. ASSUME NEW c \in 1..n, NEW k \in DOMAIN results'[c]
        PROVE  k \in DOMAIN heard'[c] /\ results'[c][k] = heard'[c][k]
    <3>1. CASE c = n
      BY <1>3, <1>7, <1>10, <2>2, <3>1
    <3>2. CASE c \in DOMAIN heard
      BY <1>3, <1>10, <2>2, <3>2 DEF TerminalInv, ReturnedIsHeard
    <3> QED
      BY <1>3, <3>1, <3>2
  <2> QED
    BY <1>3, <2>1, <2>2 DEF ReadIsReturned, ReturnedIsHeard
<1>4. PrintedIsRead'
  <2>1. PICK f : f = FlattenSeq(heard)
    OBVIOUS
  <2>2. f \in Seq(Shown) /\ output \in Seq(Shown) /\ screen \in Seq(Shown) /\ printed = (f \o output) \o screen
    BY <2>1, TerminalFacts DEF TerminalInv, PrintedIsRead
  <2>3. printed = f \o items
    <3>1. f \in Seq(Shown) /\ output \in Seq(Shown) /\ screen \in Seq(Shown)
      BY <2>2
    <3>2. (f \o output) \o screen = f \o (output \o screen)
      BY <3>1, ConcatAssociative
    <3> QED
      BY <2>2, <3>2
  <2>4. FlattenSeq(heard') = f \o items
    BY <1>1, <2>1, TerminalFacts, FlattenAppend
  <2>5. (f \o items) \o <<>> = f \o items
    BY <2>2, ConcatProperties, ConcatEmptySeq
  <2> QED
    BY <1>1, <2>3, <2>4, <2>5 DEF PrintedIsRead
<1>5. ASSUME ~ hasty' PROVE InStep'
  <2>1. ~ hasty /\ Item(reading, "prompt") \in ToSet(items)
    BY <1>1, <1>5, TerminalFacts
  <2>2. PICK k \in DOMAIN items : items[k] = Item(reading, "prompt")
    BY <2>1 DEF ToSet
  <2>3. ~ (output \in Seq(Unfinished(reading)) /\ screen \in Seq(Unfinished(reading)))
    <3> SUFFICES ASSUME output \in Seq(Unfinished(reading)), screen \in Seq(Unfinished(reading)) PROVE FALSE
      OBVIOUS
    <3>1. items \in Seq(Unfinished(reading))
      BY ConcatProperties
    <3> QED
      BY <2>2, <3>1 DEF Unfinished
  <2>4. typed = <<>> /\ shellRuns = 0
    BY <2>1, <2>3 DEF TerminalInv, InStep
  <2>5. items \in Seq(Of({0, n}))
    BY <1>3, <2>1, ConcatProperties DEF TerminalInv, InStep
  <2>6. \A c \in DOMAIN heard' : heard'[c] \in Seq(Of({0, c}))
    BY <1>3, <2>1, <2>5 DEF TerminalInv, InStep
  <2>7. <<>> \in Seq(Of({0, 0}))
    OBVIOUS
  <2>8. output' = <<>> /\ screen' = <<>> /\ reading' = 0 /\ typed' = <<>> /\ shellRuns' = 0
    BY <1>1, <2>4
  <2> QED
    BY <2>6, <2>7, <2>8 DEF InStep
<1>6. TerminalShapes'
  <2>1. Executed' = n /\ Len(said') = n
    BY <1>1, <1>2, <1>3 DEF TerminalInv, Executed
  <2>2. hasty' \in BOOLEAN
    BY <1>1, TerminalFacts
  <2> QED
    BY <1>1, <1>3, <1>10, <2>1, <2>2, TerminalFacts DEF TerminalInv, TerminalShapes, Given
<1>12. Len(said') = n
  BY <1>1, <1>2, <1>3 DEF TerminalInv
<1> HIDE DEF kept
<1> QED
  BY <1>1, <1>3, <1>4, <1>5, <1>6, <1>10, <1>11, <1>12 DEF TerminalInv

LEMMA TerminalStep ==
  ASSUME TerminalInv, [TerminalNext]_terminalVars
  PROVE  TerminalInv'
<1>1. CASE Spawn
  <2>1. /\ shellRuns = Closed /\ shellRuns' = 0 /\ Prints(<<Item(0, "prompt")>>) /\ typed' = typed
        /\ reading' = reading /\ output' = output /\ UNCHANGED told /\ hasty' = hasty
    BY <1>1 DEF Spawn
  <2>2. reading = 0 /\ typed = <<>>
    BY <2>1 DEF TerminalInv
  <2>3. Item(0, "prompt") \in Shown /\ Item(0, "prompt").of = 0 /\ shellRuns' \in 0..MaxCommands
    <3>1. 0 \in 0..MaxCommands
      BY TerminalFacts
    <3> QED
      BY <2>1, <3>1, ItemIsShown
  <2> QED
    BY <2>1, <2>2, <2>3, TerminalFacts, PrintKeeps
<1>2. ASSUME NEW text \in Texts, Execute(text) PROVE TerminalInv'
  <2>1. /\ reading = 0 /\ shellRuns # Closed /\ Executed < MaxCommands /\ reading' = Executed + 1
        /\ typed' = Append(typed, Executed + 1) /\ output' = <<>> /\ said' = Append(said, text)
        /\ shellRuns' = shellRuns /\ heard' = heard /\ results' = results /\ hasty' = hasty
        /\ Prints(IF shellRuns = 0 THEN <<>> ELSE <<Item(Executed + 1, text)>>)
    BY <1>2 DEF Execute
  <2>2. PICK n : n = Executed + 1
    OBVIOUS
  <2>3. /\ n = Len(heard) + 1 /\ n \in Nat /\ n # 0 /\ n \in Commands /\ n \in 0..MaxCommands
        /\ Executed' = n /\ said' \in Seq(Texts) /\ Len(said') = n
        /\ \A c \in DOMAIN heard : said'[c] = said[c]
    <3>1. Executed = Len(heard) /\ Len(said) = Len(heard)
      BY <2>1 DEF TerminalInv, Executed
    <3>2. /\ said' \in Seq(Texts) /\ Len(said') = Len(said) + 1
          /\ \A c \in 1..Len(said) : said'[c] = said[c]
      BY <2>1, TerminalFacts, AppendProperties
    <3> QED
      BY <2>1, <2>2, <3>1, <3>2, TerminalFacts DEF Executed, Commands
  <2>4. typed' \in Seq(1..n)
    <3>1. Given \subseteq 1..n /\ n \in 1..n
      BY <2>2, <2>3, TerminalFacts DEF Given
    <3>2. typed \in Seq(1..n)
      BY <3>1, TerminalFacts, SeqMonotonic
    <3> QED
      BY <2>1, <2>2, <3>1, <3>2, AppendProperties
  <2>5. output = <<>> /\ output' = output
    BY <2>1 DEF TerminalInv
  <2>6. PrintedIsRead' /\ screen' \in Seq(Shown) /\ printed' \in Seq(Shown)
    <3>1. CASE shellRuns = 0
      <4>1. screen' = screen /\ printed' = printed
        BY <2>1, <3>1, TerminalFacts, ConcatEmptySeq DEF Prints
      <4> QED
        BY <2>1, <2>5, <4>1, TerminalFacts DEF TerminalInv, PrintedIsRead
    <3>2. CASE shellRuns # 0
      <4>1. PICK x : x = Item(n, text)
        OBVIOUS
      <4>2. x \in Shown
        BY <2>3, <4>1, ItemIsShown
      <4>3. Prints(<<x>>)
        BY <2>1, <2>2, <3>2, <4>1
      <4> QED
        BY <2>1, <2>5, <4>2, <4>3, PrintedStays
    <3> QED
      BY <3>1, <3>2
  <2>7. TerminalShapes'
    <3>1. <<>> \in Seq(Shown)
      OBVIOUS
    <3> QED
      BY <2>1, <2>2, <2>3, <2>4, <2>6, <3>1, TerminalFacts DEF TerminalInv, TerminalShapes, Given
  <2>8. ASSUME ~ hasty PROVE InStep'
    <3>1. typed = <<>> /\ shellRuns = 0 /\ screen \in Seq(Of({0, 0}))
      BY <2>1, <2>8 DEF TerminalInv, InStep
    <3>2. Of({0, 0}) \subseteq Of({0, n}) /\ Of({0, 0}) \subseteq Unfinished(n)
      <4>1. \A x \in Of({0, 0}) : x \in Of({0, n}) /\ x.of = 0
        BY DEF Of
      <4>2. Item(n, "prompt").of = n
        BY DEF Item
      <4> QED
        BY <2>3, <4>1, <4>2 DEF Unfinished
    <3>3. screen \in Seq(Of({0, n})) /\ screen \in Seq(Unfinished(n))
      <4> HIDE DEF Of
      <4> QED
        BY <3>1, <3>2, SeqMonotonic
    <3>4. typed' = <<n>>
      BY <2>1, <2>2, <3>1
    <3>5. <<>> \in Seq(Of({0, n})) /\ <<>> \in Seq(Unfinished(n))
      OBVIOUS
    <3>6. screen' = screen
      BY <2>1, <3>1, TerminalFacts, ConcatEmptySeq DEF Prints
    <3> QED
      BY <2>1, <2>2, <2>3, <2>8, <3>1, <3>3, <3>4, <3>5, <3>6 DEF TerminalInv, InStep
  <2>9. (ReadIsReturned /\ ReturnedIsHeard)'
    BY <2>1, <2>3 DEF TerminalInv, ReadIsReturned, ReturnedIsHeard
  <2> QED
    BY <2>1, <2>2, <2>3, <2>6, <2>7, <2>8, <2>9 DEF TerminalInv, Closed
<1>3. CASE Chunk
  <2>1. /\ reading # 0 /\ screen # <<>> /\ screen' = <<>> /\ shellRuns' = shellRuns /\ typed' = typed
        /\ printed' = printed
    BY <1>3 DEF Chunk
  <2>2. CASE Returns(output \o screen)
    BY <2>1, <2>2, TerminalFacts, ReturnKeeps
  <2>3. CASE output' = output \o screen /\ UNCHANGED <<reading, told, hasty>>
    <3>4. heard' = heard /\ said' = said /\ results' = results
      BY <2>3 DEF told
    <3>1. PrintedIsRead'
      <4>1. PICK f : f = FlattenSeq(heard)
        OBVIOUS
      <4>2. f \in Seq(Shown) /\ output \in Seq(Shown) /\ screen \in Seq(Shown) /\ printed = (f \o output) \o screen
        BY <4>1, TerminalFacts DEF TerminalInv, PrintedIsRead
      <4>3. printed = f \o (output \o screen) /\ printed \in Seq(Shown)
        <5>1. printed = f \o (output \o screen)
          BY <4>2, ConcatAssociative
        <5> QED
          BY <5>1, TerminalFacts
      <4>4. printed \o <<>> = printed
        BY <4>3, ConcatEmptySeq
      <4> QED
        BY <2>1, <2>3, <3>4, <4>1, <4>3, <4>4 DEF PrintedIsRead
    <3>2. ASSUME ~ hasty PROVE InStep'
      <4>1. output' \in Seq(Of({0, reading})) /\ screen' \in Seq(Of({0, reading}))
        BY <2>1, <2>3, <3>2, ConcatProperties DEF TerminalInv, InStep
      <4>2. output \in Seq(Unfinished(reading)) /\ screen \in Seq(Unfinished(reading))
              => output' \in Seq(Unfinished(reading)) /\ screen' \in Seq(Unfinished(reading))
        BY <2>1, <2>3, ConcatProperties
      <4> QED
        BY <2>1, <2>3, <3>2, <3>4, <4>1, <4>2 DEF TerminalInv, InStep
    <3>3. TerminalShapes'
      BY <2>1, <2>3, <3>4, TerminalFacts DEF TerminalInv, TerminalShapes, Executed, Given
    <3> QED
      BY <2>1, <2>3, <3>1, <3>2, <3>3, <3>4, ReturnedStays DEF TerminalInv
  <2> QED
    BY <1>3, <2>2, <2>3 DEF Chunk
<1>4. CASE Silence
  <2>1. /\ reading # 0 /\ screen = <<>> /\ Returns(output) /\ shellRuns' = shellRuns /\ typed' = typed
        /\ screen' = <<>> /\ printed' = printed
    BY <1>4 DEF Silence
  <2>2. output = output \o screen /\ output \in Seq(Shown)
    BY <2>1, TerminalFacts, ConcatEmptySeq
  <2> QED
    BY <2>1, <2>2, ReturnKeeps
<1>5. CASE CloseTerminal
  <2>1. /\ reading = 0 /\ shellRuns' = Closed /\ typed' = <<>> /\ screen' = <<>> /\ printed' = <<>>
        /\ hasty' = FALSE /\ heard' = [i \in DOMAIN heard |-> <<>>] /\ reading' = 0 /\ output' = output
        /\ results' = [i \in DOMAIN heard |-> <<>>] /\ said' = said
    BY <1>5 DEF CloseTerminal
  <2>2. PICK n \in Nat : n = Len(heard)
    BY TerminalFacts
  <2>3. heard' = [i \in 1..n |-> <<>>] /\ results' = [i \in 1..n |-> <<>>] /\ output = <<>>
    BY <2>1, <2>2, TerminalFacts DEF TerminalInv
  <2>4. FlattenSeq(heard') = <<>>
    BY <2>3, FlattenEmpties
  <2>5. PrintedIsRead'
    <3>1. (<<>> \o <<>>) \o <<>> = <<>>
      OBVIOUS
    <3> QED
      BY <2>1, <2>3, <2>4, <3>1 DEF PrintedIsRead
  <2>6. \A S : <<>> \in Seq(S)
    OBVIOUS
  <2>7. heard' \in Seq(Seq(Shown)) /\ Len(heard') = n /\ DOMAIN heard' = 1..n
    BY <2>3, <2>6
  <2>8. InStep'
    BY <2>1, <2>3, <2>6, <2>7 DEF InStep
  <2>9. TerminalShapes'
    <3>1. Executed' = n /\ n <= MaxCommands /\ Closed \in 0..Closed
      BY <2>1, <2>2, TerminalFacts DEF TerminalInv, TerminalShapes, Executed, Closed
    <3>2. results' \in Seq(Kept)
      <4>1. <<>> \in [{} -> Shown]
        OBVIOUS
      <4>2. <<>> \in Kept
        BY <4>1 DEF Kept
      <4> QED
        BY <2>3, <4>2
    <3> QED
      BY <2>1, <2>3, <2>6, <2>7, <3>1, <3>2, TerminalFacts DEF TerminalInv, TerminalShapes, Closed
  <2>10. /\ Len(results') = n /\ Len(said') = n
         /\ \A c \in 1..n : DOMAIN heard'[c] = {} /\ DOMAIN results'[c] = {}
    BY <2>1, <2>2, <2>3 DEF TerminalInv
  <2>11. (ReadIsReturned /\ ReturnedIsHeard)'
    BY <2>7, <2>10 DEF ReadIsReturned, ReturnedIsHeard
  <2> QED
    BY <2>1, <2>3, <2>5, <2>7, <2>8, <2>9, <2>10, <2>11 DEF TerminalInv
<1>6. CASE ShellReads
  <2>1. /\ shellRuns = 0 /\ typed # <<>> /\ shellRuns' = Head(typed) /\ typed' = Tail(typed)
        /\ Prints(<<Item(Head(typed), said[Head(typed)])>>)
        /\ reading' = reading /\ output' = output /\ UNCHANGED told /\ hasty' = hasty
    BY <1>6 DEF ShellReads
  <2>2. PICK c : c = Head(typed)
    OBVIOUS
  <2>3. c \in Given /\ c \in Commands /\ typed' \in Seq(Given)
    BY <2>1, <2>2, TerminalFacts, HeadTailProperties
  <2>4. PICK text \in Texts : text = said[c]
    BY <2>3, TerminalFacts DEF Given
  <2>5. /\ Item(c, text) \in Shown /\ Item(c, text).of = c /\ Item(c, text) # Item(reading, "prompt")
        /\ c \in 0..MaxCommands
    <3>1. c \in 0..MaxCommands
      BY <2>3, TerminalFacts DEF Commands
    <3>2. Item(reading, "prompt").is = "prompt" /\ text # "prompt"
      BY TerminalAssumption DEF Item
    <3>3. text \in Texts \cup {"prompt", "line", "not found"}
      OBVIOUS
    <3>4. Item(c, text) \in Shown /\ Item(c, text).of = c /\ Item(c, text).is = text
      BY <3>1, <3>3, ItemIsShown
    <3> QED
      BY <3>1, <3>2, <3>4
  <2>6. ~ hasty => /\ reading # 0 /\ typed = <<reading>>
                   /\ output \in Seq(Unfinished(reading)) /\ screen \in Seq(Unfinished(reading))
    BY <2>1 DEF TerminalInv, InStep
  <2>7. typed = <<reading>> => c = reading /\ typed' = <<>>
    BY <2>1, <2>2
  <2> QED
    BY <2>1, <2>2, <2>3, <2>4, <2>5, <2>6, <2>7, PrintKeeps
<1>7. ASSUME NEW what \in Texts \cup {"line", "not found"}, ShellPrints(what) PROVE TerminalInv'
  <2>1. /\ shellRuns \in Commands /\ Prints(<<Item(shellRuns, what)>>) /\ shellRuns' = shellRuns /\ typed' = typed
        /\ reading' = reading /\ output' = output /\ UNCHANGED told /\ hasty' = hasty
    BY <1>7 DEF ShellPrints
  <2>2. PICK x : x = Item(shellRuns, what)
    OBVIOUS
  <2>3. x \in Shown /\ x.of = shellRuns /\ x # Item(reading, "prompt") /\ shellRuns \in 0..MaxCommands /\ shellRuns # 0
    <3>1. PICK n \in 0..MaxCommands : n = shellRuns /\ n # 0
      BY <2>1, TerminalFacts
    <3>2. PICK w \in Texts \cup {"prompt", "line", "not found"} : w = what /\ w # "prompt"
      BY TerminalAssumption
    <3>3. Item(reading, "prompt").is = "prompt"
      BY DEF Item
    <3>4. Item(n, w) \in Shown /\ Item(n, w).of = n /\ Item(n, w).is = w
      BY ItemIsShown
    <3> QED
      BY <2>2, <3>1, <3>2, <3>3, <3>4
  <2>4. ~ hasty => /\ reading # 0 /\ typed = <<>> /\ shellRuns = reading
                   /\ output \in Seq(Unfinished(reading)) /\ screen \in Seq(Unfinished(reading))
    BY <2>1, <2>3, TerminalFacts DEF TerminalInv, InStep
  <2> QED
    BY <2>1, <2>2, <2>3, <2>4, TerminalFacts, PrintKeeps
<1>8. CASE ShellPrompts
  <2>1. /\ shellRuns \in Commands /\ Prints(<<Item(shellRuns, "prompt")>>) /\ shellRuns' = 0 /\ typed' = typed
        /\ reading' = reading /\ output' = output /\ UNCHANGED told /\ hasty' = hasty
    BY <1>8 DEF ShellPrompts
  <2>2. PICK x : x = Item(shellRuns, "prompt")
    OBVIOUS
  <2>3. x \in Shown /\ x.of = shellRuns /\ 0 \in 0..MaxCommands /\ shellRuns # 0
    <3>1. shellRuns \in 0..MaxCommands /\ shellRuns # 0 /\ 0 \in 0..MaxCommands
      BY <2>1, TerminalFacts DEF Commands
    <3> QED
      BY <2>2, <3>1, ItemIsShown
  <2>4. ~ hasty => reading # 0 /\ typed = <<>> /\ shellRuns = reading
    BY <2>1, <2>3, TerminalFacts DEF TerminalInv, InStep
  <2> QED
    BY <2>1, <2>2, <2>3, <2>4, TerminalFacts, PrintKeeps
<1>9. CASE ProgramReads
  <2>1. /\ shellRuns \in Commands /\ typed # <<>> /\ typed' = Tail(typed) /\ shellRuns' = shellRuns
        /\ screen' = screen /\ reading' = reading /\ output' = output /\ heard' = heard
        /\ said' = said /\ results' = results
        /\ printed' = printed /\ hasty' = hasty
    BY <1>9 DEF ProgramReads, told
  <2>2. typed' \in Seq(Given)
    BY <2>1, TerminalFacts, HeadTailProperties
  <2>3. hasty
    BY <2>1, TerminalFacts DEF TerminalInv, InStep
  <2>4. TerminalShapes' /\ PrintedIsRead' /\ shellRuns' # Closed' /\ hasty'
    BY <2>1, <2>2, <2>3, TerminalFacts DEF TerminalInv, TerminalShapes, PrintedIsRead, Executed, Closed, Given
  <2>5. (ReadIsReturned /\ ReturnedIsHeard)'
    BY <2>1, ReturnedStays DEF told
  <2> QED
    BY <2>1, <2>4, <2>5 DEF TerminalInv
<1>10. CASE UNCHANGED terminalVars
  <2>1. (ReadIsReturned /\ ReturnedIsHeard)'
    BY <1>10, ReturnedStays DEF terminalVars
  <2> QED
    BY <1>10, <2>1 DEF terminalVars, told, TerminalInv, TerminalShapes, PrintedIsRead, InStep, Executed, Closed, Given
<1> QED
  BY <1>1, <1>2, <1>3, <1>4, <1>5, <1>6, <1>7, <1>8, <1>9, <1>10 DEF TerminalNext

LEMMA TerminalInitially == TerminalInit => TerminalInv
<1> SUFFICES ASSUME TerminalInit PROVE TerminalInv
  OBVIOUS
<1>1. \A S : <<>> \in Seq(S)
  OBVIOUS
<1>2. FlattenSeq(heard) = <<>>
  BY DEF TerminalInit, FlattenSeq
<1>3. PrintedIsRead
  <2>1. (<<>> \o <<>>) \o <<>> = <<>>
    OBVIOUS
  <2> QED
    BY <1>2, <2>1 DEF TerminalInit, PrintedIsRead
<1>4. Executed = 0
  BY DEF TerminalInit, Executed
<1>5. TerminalShapes
  <2>0. MaxCommands \in Nat
    BY TerminalAssumption
  <2>1. Closed \in 0..Closed /\ 0 \in 0..MaxCommands /\ Executed <= MaxCommands
    BY <1>4, <2>0 DEF Closed
  <2> QED
    BY <1>1, <2>1 DEF TerminalInit, TerminalShapes, Given
<1>6. InStep
  BY <1>1 DEF TerminalInit, InStep
<1> QED
  BY <1>3, <1>5, <1>6 DEF TerminalInit, TerminalInv, ReadIsReturned, ReturnedIsHeard

LEMMA TerminalHolds == TerminalInv => TerminalTypeOK /\ TerminalKept
<1> SUFFICES ASSUME TerminalInv PROVE TerminalTypeOK /\ TerminalKept
  OBVIOUS
<1>1. TerminalTypeOK
  <2>1. Len(said) <= MaxCommands
    BY TerminalFacts DEF TerminalInv, TerminalShapes
  <2>2. \A i \in DOMAIN typed : typed[i] \in Commands
    BY TerminalFacts
  <2> QED
    BY <2>1, <2>2 DEF TerminalInv, TerminalShapes, TerminalTypeOK
<1>2. OwnUnlessHasty
  <2> SUFFICES ASSUME ~ hasty, NEW n \in DOMAIN results, NEW k \in DOMAIN results[n]
               PROVE  results[n][k].of \in {n, 0}
    BY DEF OwnUnlessHasty
  <2>1. n \in DOMAIN heard
    BY TerminalFacts DEF TerminalInv
  <2>2. heard[n] \in Seq(Of({0, n})) /\ k \in DOMAIN heard[n] /\ results[n][k] = heard[n][k]
    BY <2>1 DEF TerminalInv, InStep, ReturnedIsHeard
  <2>3. heard[n][k] \in Of({0, n})
    BY <2>2
  <2> QED
    BY <2>2, <2>3 DEF Of
<1> QED
  BY <1>1, <1>2 DEF TerminalInv, TerminalKept

-----------------------------------------------------------------------------
(***************************************************************************)
(* All subjects at once: a step is of one of them and leaves the others,   *)
(* whose invariants a stuttering step keeps.                               *)
(***************************************************************************)
ThreadsInv ==
  /\ subject \in {"jobs", "background", "wire", "mcp", "lsp", "terminal"}
  /\ JobInv /\ BackgroundInv /\ WireInv /\ McpInv /\ LspInv /\ TerminalInv

LEMMA ThreadsInitially == ThreadsInit => ThreadsInv
  BY JobInvInit, BackgroundInitially, WireInitially, McpInitially, LspInitially,
     TerminalInitially DEF ThreadsInit, ThreadsInv

LEMMA ThreadsStep == ThreadsInv /\ [ThreadsNext]_ThreadsVars => ThreadsInv'
<1> SUFFICES ASSUME ThreadsInv, [ThreadsNext]_ThreadsVars PROVE ThreadsInv'
  OBVIOUS
<1>1. /\ [Next]_vars /\ [BackgroundNext]_backgroundVars
      /\ [WireNext]_wireVars /\ [McpNext]_mcpVars
      /\ [LspNext]_lspVars /\ [TerminalNext]_terminalVars
  BY DEF ThreadsNext, ThreadsVars, pipeVars
<1>2. JobInv /\ BackgroundInv /\ WireInv /\ McpInv /\ LspInv /\ TerminalInv
  BY DEF ThreadsInv
<1>3. JobInv' /\ BackgroundInv'
  BY <1>1, <1>2, JobInvStep, BackgroundStep
<1>4. WireInv' /\ McpInv'
  BY <1>1, <1>2, WireStep, McpStep
<1>5. LspInv' /\ TerminalInv'
  BY <1>1, <1>2, LspStep, TerminalStep
<1>6. subject' \in {"jobs", "background", "wire", "mcp", "lsp", "terminal"}
  BY DEF ThreadsInv, ThreadsNext, ThreadsVars
<1> QED
  BY <1>3, <1>4, <1>5, <1>6 DEF ThreadsInv

\* The state of every subject keeps its type: queues, registries, pipes and
\* the screen hold what their code puts there.
THEOREM ThreadsTypes == ThreadsSpec => []ThreadsTypeOK
<1>1. ThreadsInv => ThreadsTypeOK
  BY BackgroundFits, WireHolds, McpHolds, LspHolds, TerminalHolds
  DEF ThreadsInv, JobInv, ThreadsTypeOK
<1> QED
  BY <1>1, ThreadsInitially, ThreadsStep, PTL DEF ThreadsSpec

\* Whatever the senders, the servers and the reader do, a channel delivers
\* each sender's messages in order and once, a client of an MCP or a language
\* server is behind by exactly the replies it left in the pipe, and the
\* terminal keeps the output of every command to its own part.
THEOREM PipesInOrder == ThreadsSpec => []PipesKeepOrder
<1>1. ThreadsInv => PipesKeepOrder
  BY WireHolds, McpHolds, LspHolds, TerminalHolds DEF ThreadsInv, PipesKeepOrder
<1> QED
  BY <1>1, ThreadsInitially, ThreadsStep, PTL DEF ThreadsSpec
==============================================================================

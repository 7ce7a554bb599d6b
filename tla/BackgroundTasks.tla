--------------------------- MODULE BackgroundTasks ---------------------------
(***************************************************************************)
(* The shell tasks of src/background: a registry under a lock, and one     *)
(* thread for each task, which writes to the task object without it.       *)
(*                                                                         *)
(* Nothing ever assigns task.process, so kill always returns False and     *)
(* reconcile finds nothing to do: neither is an action here.               *)
(***************************************************************************)
EXTENDS Naturals, FiniteSets

CONSTANTS
  TaskIds,      \* the ids that callers give
  MaxStarts     \* bound: calls of start_bash

ASSUME BackgroundAssumption == MaxStarts \in Nat

VARIABLES
  registry,     \* self._tasks: the task object under each id, 0 for none
  task,         \* the objects, in the order in which they were registered
  shell,        \* what the thread of each object does next
  starts,       \* objects so far
  clearing      \* the ids that clear_completed, which holds the lock, has
                \* still to look at

backgroundVars == <<registry, task, shell, starts, clearing>>

Objects == 1..MaxStarts
NoTask == [id |-> "none", status |-> "created", exit |-> "none",
           told |-> FALSE, completedAt |-> FALSE]
StartingTask(i) == [NoTask EXCEPT !.id = i, !.status = "starting"]

LockFree == clearing = {}
RunningStatuses == {"running", "starting"}
Outcomes == {"completed", "failed", "killed"}

BackgroundInit ==
  /\ registry = [i \in TaskIds |-> 0]
  /\ task = [t \in Objects |-> NoTask]
  /\ shell = [t \in Objects |-> "none"]
  /\ starts = 0 /\ clearing = {}

\* A step of the thread of t: it leaves the thread at `next`.
ThreadStep(t, from, next) ==
  /\ shell[t] = from
  /\ shell' = [shell EXCEPT ![t] = next]
  /\ UNCHANGED <<registry, starts, clearing>>

-----------------------------------------------------------------------------
(***************************************************************************)
(* Callers.                                                                *)
(***************************************************************************)
\* start_bash, the locked line.  Another task under the id is forgotten.
Register(i) ==
  /\ LockFree /\ starts < MaxStarts
  /\ starts' = starts + 1
  /\ registry' = [registry EXCEPT ![i] = starts + 1]
  /\ task' = [task EXCEPT ![starts + 1] = StartingTask(i)]
  /\ shell' = [shell EXCEPT ![starts + 1] = "registered"]
  /\ UNCHANGED clearing

\* thread.start
StartThread(t) == ThreadStep(t, "registered", "started") /\ UNCHANGED task

\* It raises: the task stays in the registry as it is.
StartRaises(t) == ThreadStep(t, "registered", "ended") /\ UNCHANGED task

\* clear_completed takes the lock and looks at one task after the other.
BeginClear ==
  /\ LockFree
  /\ clearing' = {i \in TaskIds : registry[i] # 0} /\ clearing' # {}
  /\ UNCHANGED <<registry, task, shell, starts>>

ClearOne(i) ==
  /\ i \in clearing /\ clearing' = clearing \ {i}
  /\ registry' = [registry EXCEPT ![i] = IF task[@].status \in RunningStatuses THEN @ ELSE 0]
  /\ UNCHANGED <<task, shell, starts>>

-----------------------------------------------------------------------------
(***************************************************************************)
(* The thread of a task: _run.                                             *)
(***************************************************************************)
BeginRun(t) ==
  /\ ThreadStep(t, "started", "command")
  /\ task' = [task EXCEPT ![t].status = "running"]

\* Mutant of CommandReturns: the status is stored before the output.
CommandReturnsStatus(t, code) ==
  /\ ThreadStep(t, "command", "status")
  /\ task' = [task EXCEPT ![t].status = IF code = "zero" THEN "completed" ELSE "failed",
                          ![t].exit = code]

\* subprocess.run returns: stdout, stderr and the exit code are stored.
CommandReturns(t, code) ==
  /\ ThreadStep(t, "command", "status")
  /\ task' = [task EXCEPT ![t].told = TRUE, ![t].exit = code]

StoreStatus(t) ==
  /\ ThreadStep(t, "status", "end")
  /\ task' = [task EXCEPT ![t].status = IF task[t].exit = "zero" THEN "completed" ELSE "failed"]

\* TimeoutExpired: the status first, the message after it.
CommandTimesOut(t) ==
  /\ ThreadStep(t, "command", "message")
  /\ task' = [task EXCEPT ![t].status = "killed"]

\* Any other exception, a missing directory for instance.
CommandRaises(t) ==
  /\ ThreadStep(t, "command", "message")
  /\ task' = [task EXCEPT ![t].status = "failed"]

StoreMessage(t) ==
  /\ ThreadStep(t, "message", "end")
  /\ task' = [task EXCEPT ![t].told = TRUE]

StoreEnd(t) ==
  /\ ThreadStep(t, "end", "ended")
  /\ task' = [task EXCEPT ![t].completedAt = TRUE]

RunShell(t) ==
  \/ BeginRun(t) \/ StoreStatus(t) \/ StoreMessage(t) \/ StoreEnd(t)
  \/ CommandTimesOut(t) \/ CommandRaises(t)
  \/ \E code \in {"zero", "other"} : CommandReturns(t, code)

BackgroundNext ==
  \/ \E i \in TaskIds : ClearOne(i) \/ Register(i)
  \/ BeginClear
  \/ \E t \in Objects : StartThread(t) \/ StartRaises(t) \/ RunShell(t)

BackgroundSpec == BackgroundInit /\ [][BackgroundNext]_backgroundVars

-----------------------------------------------------------------------------
\* Types; the registry keeps objects under their own ids.
BackgroundTypeOK ==
  /\ registry \in [TaskIds -> 0..starts] /\ starts \in 0..MaxStarts
  /\ clearing \subseteq {i \in TaskIds : registry[i] # 0}
  /\ \A i \in TaskIds : registry[i] # 0 => task[registry[i]].id = i
  /\ \A t \in Objects :
       /\ task[t].status \in {"created"} \cup RunningStatuses \cup Outcomes
       /\ task[t].exit \in {"none", "zero", "other"}
       /\ {task[t].told, task[t].completedAt} \subseteq BOOLEAN
       /\ shell[t] \in {"none", "registered", "started", "command", "status", "message",
                        "end", "ended"}
       /\ (shell[t] = "none") <=> (t > starts)

\* Who sees that a command returned can read its exit code and its output,
\* without the lock and at any moment.  (A task that was killed, or whose
\* command could not be run, has its status before its message.)
StatusComesLast ==
  \A t \in Objects :
    /\ task[t].status = "completed" => task[t].exit = "zero" /\ task[t].told
    /\ task[t].status = "failed" /\ task[t].exit # "none" => task[t].told
    /\ task[t].completedAt => task[t].status \in Outcomes /\ task[t].told

\* A task that is not in the registry has ended, or was displaced by a
\* later one of its id, whatever its thread did while clear_completed went
\* through the registry.
ClearedHadEnded ==
  \A t \in 1..starts :
    registry[task[t].id] = t \/ task[t].status \in Outcomes
      \/ \E u \in (t + 1)..starts : task[u].id = task[t].id
\* What a caller learns of a task is true: an outcome has its exit code and
\* output, and a task that cannot be found any more has ended.
TasksToldInOrder == StatusComesLast /\ ClearedHadEnded
=============================================================================

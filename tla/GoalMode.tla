------------------------------ MODULE GoalMode ------------------------------
(***************************************************************************)
(* The current goal of src/goal: one goal in memory, its budget limits,    *)
(* and the file active_goal.json that each operation rewrites after it has *)
(* changed the memory.  The process may stop between two calls, between    *)
(* the change and the write, or in the middle of the write.                *)
(*                                                                         *)
(* goal.wallClockMs is called milliseconds and holds seconds: pausing adds *)
(* a difference of time.time().  The clock that is reported multiplies by  *)
(* 1000, but of a goal that is active it multiplies only the time since    *)
(* the last resume.                                                        *)
(***************************************************************************)
EXTENDS Integers

CONSTANTS
  Absent,       \* None: no goal, no limit, no time
  Deltas,       \* arguments of record_token_usage
  Limits,       \* turn budgets
  MaxGoals,     \* bound: goals created
  MaxUsage,     \* bound: tokens, and turns, of a goal
  MaxSeconds,   \* bound: the clock
  MaxStops      \* bound: the process stops

Goal == [id : 1..MaxGoals, status : {"active", "paused", "blocked"},
         turns : Nat, tokens : Nat, wallClockMs : Nat]

ASSUME GoalAssumption ==
  /\ Deltas \subseteq Int /\ Limits \subseteq Nat
  /\ MaxGoals \in Nat /\ MaxUsage \in Nat /\ MaxSeconds \in Nat /\ MaxStops \in Nat
  /\ Absent \notin Nat /\ Absent \notin Goal

VARIABLES
  goal,         \* self._state
  limit,        \* self._budget_limits: the turn budget stands for the three
  resumedAt,    \* self._wall_clock_resumed_at, Absent for None
  goalFile,     \* the file: NoFile, TornFile or what _save wrote
  goalUp,       \* the process runs
  seconds,      \* time.time()
  stops,        \* how often the process stopped
  created,      \* goals created so far: the identity of the last
  told,         \* history: goal and limit as the last call returned them
  torn,         \* history: a write was cut in the middle since then
  activeFor     \* history: per goal, the seconds for which it was active

memoryVars == <<goal, limit, resumedAt>>
goalVars == <<memoryVars, goalFile, goalUp, seconds, stops, created, told, torn, activeFor>>

LimitValue == Nat \cup {Absent}

Is(g, status) == g # Absent /\ g.status = status
NoFile == [file |-> "none"]
TornFile == [file |-> "torn"]
Image(g, l, r) == [goal |-> g, limit |-> l, resumedAt |-> r]
Images == [goal : Goal, limit : LimitValue, resumedAt : 0..MaxSeconds \cup {Absent}]

GoalInit ==
  /\ goal = Absent /\ limit = Absent /\ resumedAt = Absent
  /\ goalFile = NoFile /\ goalUp = TRUE
  /\ seconds = 0 /\ stops = 0 /\ created = 0
  /\ told = [goal |-> Absent, limit |-> Absent]
  /\ torn = FALSE /\ activeFor = [i \in 1..MaxGoals |-> 0]

-----------------------------------------------------------------------------
(***************************************************************************)
(* _save and what can become of it.                                        *)
(***************************************************************************)
\* The file that _save writes for goal g; without a goal it unlinks it.
Saved(g, l, r) == IF g = Absent THEN NoFile ELSE Image(g, l, r)

\* The process stops: what it had in memory is gone.
Down ==
  /\ stops < MaxStops /\ stops' = stops + 1
  /\ goalUp' = FALSE
  /\ goal' = Absent /\ limit' = Absent /\ resumedAt' = Absent

\* An operation leaves goal g, limit l and mark r: it writes them and
\* returns, or the process stops before or in the middle of the write.
Save(g, l, r) ==
  /\ UNCHANGED <<seconds, activeFor>>
  /\ \/ /\ goal' = g /\ limit' = l /\ resumedAt' = r
        /\ goalFile' = Saved(g, l, r)
        /\ told' = [goal |-> g, limit |-> l]
        /\ torn' = FALSE
        /\ UNCHANGED <<goalUp, stops>>
     \/ Down /\ UNCHANGED <<goalFile, told, torn>>
     \/ Down /\ g # Absent /\ goalFile' = TornFile /\ torn' = TRUE /\ UNCHANGED told

\* _apply_status: the time since the last resume is added, in seconds.
ApplyStatus(status) ==
  Save([goal EXCEPT !.status = status,
          !.wallClockMs = IF resumedAt = Absent THEN @ ELSE @ + (seconds - resumedAt)],
       limit, IF status = "active" THEN seconds ELSE Absent)

-----------------------------------------------------------------------------
(***************************************************************************)
(* Operations.  Those that raise or return early change nothing.           *)
(***************************************************************************)
CreateGoal(replace) ==
  /\ goalUp /\ created < MaxGoals
  /\ goal = Absent \/ replace
  /\ created' = created + 1
  /\ Save([id |-> created + 1, status |-> "active", turns |-> 0, tokens |-> 0,
           wallClockMs |-> 0], Absent, seconds)

PauseGoal == goalUp /\ Is(goal, "active") /\ ApplyStatus("paused") /\ UNCHANGED created

ResumeGoal ==
  /\ goalUp /\ (Is(goal, "paused") \/ Is(goal, "blocked"))
  /\ ApplyStatus("active")
  /\ UNCHANGED created

MarkBlocked == goalUp /\ Is(goal, "active") /\ ApplyStatus("blocked") /\ UNCHANGED created

\* cancel_goal in any status and mark_complete of an active goal: the goal
\* is forgotten, its limits stay in memory until the next create_goal.
CancelGoal == goalUp /\ goal # Absent /\ Save(Absent, limit, Absent) /\ UNCHANGED created

MarkComplete ==
  goalUp /\ Is(goal, "active") /\ Save(Absent, limit, Absent) /\ UNCHANGED created

\* A negative delta counts as 0.
RecordTokenUsage(delta) ==
  LET used == goal.tokens + (IF delta > 0 THEN delta ELSE 0) IN
  /\ goalUp /\ Is(goal, "active") /\ used <= MaxUsage
  /\ Save([goal EXCEPT !.tokens = used], limit, resumedAt)
  /\ UNCHANGED created

IncrementTurn ==
  /\ goalUp /\ Is(goal, "active") /\ goal.turns < MaxUsage
  /\ Save([goal EXCEPT !.turns = @ + 1], limit, resumedAt)
  /\ UNCHANGED created

\* set_budget_limits, in any status.
SetBudgetLimits(l) ==
  goalUp /\ goal # Absent /\ Save(goal, l, resumedAt) /\ UNCHANGED created

\* The process ends between two calls.
Stop ==
  goalUp /\ Down /\ UNCHANGED <<goalFile, seconds, created, told, torn, activeFor>>

\* Mutant of Normalized: an active goal is taken up as it was saved.
NormalizedNot(image) == image

\* _normalize_after_replay: a goal that was active comes back paused; the
\* time since its last resume is not added.
Normalized(image) ==
  IF image.goal.status = "active"
    THEN Image([image.goal EXCEPT !.status = "paused"], image.limit, Absent)
    ELSE image

\* _load.  A file that cannot be parsed means no goal.  A goal that was
\* active is saved as paused, and that write can be cut as well.
Load ==
  /\ ~ goalUp
  /\ UNCHANGED <<seconds, created, activeFor, told>>
  /\ \/ /\ goalFile \in {NoFile, TornFile}
        /\ goal' = Absent /\ limit' = Absent /\ resumedAt' = Absent
        /\ goalUp' = TRUE /\ UNCHANGED <<goalFile, stops, torn>>
     \/ /\ goalFile \notin {NoFile, TornFile}
        /\ LET image == Normalized(goalFile) IN
             /\ goal' = image.goal /\ limit' = image.limit
             /\ resumedAt' = image.resumedAt
             /\ goalFile' = image
        /\ goalUp' = TRUE /\ UNCHANGED <<stops, torn>>
     \/ /\ goalFile \notin {NoFile, TornFile} /\ goalFile.goal.status = "active"
        /\ Down /\ goalFile' = TornFile /\ torn' = TRUE

\* A second passes.
Tick ==
  /\ seconds < MaxSeconds
  /\ seconds' = seconds + 1
  /\ activeFor' = IF Is(goal, "active") THEN [activeFor EXCEPT ![goal.id] = @ + 1]
                  ELSE activeFor
  /\ UNCHANGED <<memoryVars, goalFile, goalUp, stops, created, told, torn>>

GoalNext ==
  \/ \E replace \in BOOLEAN : CreateGoal(replace)
  \/ PauseGoal \/ ResumeGoal \/ MarkBlocked \/ CancelGoal \/ MarkComplete
  \/ \E delta \in Deltas : RecordTokenUsage(delta)
  \/ IncrementTurn
  \/ \E l \in Limits \cup {Absent} : SetBudgetLimits(l)
  \/ Stop \/ Load \/ Tick

GoalSpec == GoalInit /\ [][GoalNext]_goalVars

-----------------------------------------------------------------------------
\* _live_wall_clock_ms, in milliseconds.
LiveWallClockMs ==
  IF goal = Absent THEN 0
  ELSE IF goal.status = "active" /\ resumedAt # Absent
    THEN goal.wallClockMs + (seconds - resumedAt) * 1000
    ELSE goal.wallClockMs * 1000

\* Types.
GoalTypeOK ==
  /\ goal \in Goal \cup {Absent} /\ limit \in LimitValue
  /\ resumedAt \in 0..MaxSeconds \cup {Absent}
  /\ goalFile \in {NoFile, TornFile} \cup Images
  /\ goalUp \in BOOLEAN /\ torn \in BOOLEAN
  /\ stops \in 0..MaxStops /\ created \in 0..MaxGoals
  /\ seconds \in 0..MaxSeconds /\ activeFor \in [1..MaxGoals -> 0..MaxSeconds]

\* What the last call returned is what the process has, through any number
\* of stops: a goal that was active may have become paused, and only a
\* write cut in the middle loses it (tests/test_goal.py, test_persistence).
ToldIsKept ==
  (goalUp /\ ~ torn) =>
    \/ goal = told.goal /\ (goal # Absent => limit = told.limit)
    \/ /\ Is(told.goal, "active")
       /\ goal = [told.goal EXCEPT !.status = "paused"] /\ limit = told.limit

\* The clock that is reported, and compared with the budget, never counts
\* time in which the goal was not active: not while it was paused or blocked,
\* and not while the process was down.
ClockNeverAhead == goal # Absent => LiveWallClockMs <= activeFor[goal.id] * 1000

\* The clock of a goal runs exactly while the goal is active, whatever
\* brought it there: create, resume or a restart.
ClockRunsWhileActive == Is(goal, "active") <=> resumedAt # Absent
\* A goal comes through any number of stops as it was told, with a clock that
\* runs exactly while it is active and counts nothing else.
GoalOutlivesStops == ToldIsKept /\ ClockNeverAhead /\ ClockRunsWhileActive
=============================================================================

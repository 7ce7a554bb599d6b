---------------------------- MODULE FilesProofs ----------------------------
(***************************************************************************)
(* Theorems about what is kept in files, for every bound.                  *)
(*                                                                         *)
(* The current goal: ClockInv bounds the clock of the goal in memory and   *)
(* of the goal in the file by the time it was active, and KeptInv relates  *)
(* memory, file and what the last call returned.  The document store:      *)
(* MiniInv relates memory, the data file and the log, and from it follow   *)
(* that what was answered survives and that the store is a map.            *)
(*                                                                         *)
(* Transcript, directory snapshots, mutation tracker, migrations, JSON     *)
(* objects, file calls, forks and patches have an invariant each, in a     *)
(* section of their own; the last section conjoins them for the united     *)
(* module.  What is computed over whole sequences is in ContentProofs.     *)
(***************************************************************************)
EXTENDS MCFiles, FiniteSetTheorems, SequenceTheorems, TLAPS

-----------------------------------------------------------------------------
(***************************************************************************)
(* Numbers: a least one exists, and numbers that have all smaller ones     *)
(* with them are an interval.                                              *)
(***************************************************************************)
LEMMA LeastNumber ==
  ASSUME NEW S \in SUBSET Nat, S # {}
  PROVE  \E x \in S : \A y \in S : x <= y
<1> DEFINE R == OpToRel(<, Nat)
<1>1. IsWellFoundedOn(R, Nat)
  BY NatLessThanWellFounded
<1>2. \A x, y \in Nat : x < y => <<x, y>> \in R
  BY DEF OpToRel
<1> HIDE DEF R
<1>3. PICK x \in S : \A y \in S : <<y, x>> \notin R
  BY <1>1, WFMin
<1>4. \A y \in S : ~ (y < x)
  BY <1>2, <1>3
<1> QED
  BY <1>3, <1>4

LEMMA IsInterval ==
  ASSUME NEW n \in Nat, NEW S \in SUBSET (1..n),
         \A i \in S : \A j \in 1..i : j \in S
  PROVE  Cardinality(S) \in 0..n /\ S = 1..Cardinality(S)
<1>1. PICK a \in 0..n : S = 1..a
  <2> DEFINE Out == {i \in 1..(n + 1) : i \notin S}
  <2>1. Out \in SUBSET Nat /\ n + 1 \in Out
    OBVIOUS
  <2>2. PICK x \in Out : \A y \in Out : x <= y
    BY <2>1, LeastNumber
  <2>3. x \in 1..(n + 1) /\ x \notin S /\ x - 1 \in 0..n
    BY <2>2
  <2>4. \A i \in 1..n : i \notin S => x <= i
    BY <2>2
  <2>5. \A i \in S : i \in 1..n /\ i < x
    BY <2>3
  <2>6. S = 1..(x - 1)
    <3>1. ASSUME NEW i \in S PROVE i \in 1..(x - 1)
      BY <2>3, <2>5
    <3>2. ASSUME NEW i \in 1..(x - 1) PROVE i \in S
      <4>1. i \in 1..n /\ ~ (x <= i)
        BY <2>3
      <4> QED
        BY <2>4, <4>1
    <3> QED
      BY <3>1, <3>2
  <2> QED
    BY <2>3, <2>6
<1>2. Cardinality(1..a) = a
  BY FS_Interval
<1> QED
  BY <1>1, <1>2

-----------------------------------------------------------------------------
\* The goal in memory: its stored time, and when it is active the time since
\* the last resume as well, was time in which it was active.
MemoryClockOK(g, r) ==
  g # Absent =>
    /\ g.wallClockMs <= activeFor[g.id]
    /\ g.status = "active" =>
         r # Absent /\ r <= seconds /\ g.wallClockMs + (seconds - r) <= activeFor[g.id]

\* The goal in the file: the time since the last resume is never read from
\* it, so only the stored time is bounded.
FileClockOK(f) ==
  f \in Images =>
    /\ f.goal.id <= created
    /\ f.goal.wallClockMs <= activeFor[f.goal.id]
    /\ f.goal.status # "active" => f.resumedAt = Absent

ClockInv ==
  /\ GoalTypeOK
  /\ goal # Absent => goal.id <= created
  /\ MemoryClockOK(goal, resumedAt)
  /\ ClockRunsWhileActive
  /\ FileClockOK(goalFile)
  /\ ~ goalUp => goal = Absent
  /\ \A i \in 1..MaxGoals : activeFor[i] <= seconds

LEMMA AbsentIsNothing ==
  (\A n \in Nat : n # Absent) /\ (\A g \in Goal : g # Absent)
  BY GoalAssumption

LEMMA FilesDiffer == NoFile \notin Images /\ TornFile \notin Images /\ NoFile # TornFile
<1>1. ASSUME NEW f \in Images PROVE f.goal \in Goal /\ DOMAIN f = {"goal", "limit", "resumedAt"}
  BY <1>1 DEF Images
<1>2. DOMAIN NoFile = {"file"} /\ DOMAIN TornFile = {"file"}
  BY DEF NoFile, TornFile
<1>3. "goal" \notin {"file"}
  OBVIOUS
<1>4. NoFile \notin Images /\ TornFile \notin Images
  BY <1>1, <1>2, <1>3
<1>5. NoFile.file # TornFile.file
  BY DEF NoFile, TornFile
<1>6. QED
  BY <1>4, <1>5

LEMMA ClockInvInit == GoalInit => ClockInv
<1> SUFFICES ASSUME GoalInit PROVE ClockInv
  OBVIOUS
<1> USE GoalAssumption
<1>1. GoalTypeOK
  <2>1. goal \in Goal \cup {Absent} /\ limit \in LimitValue /\ resumedAt \in 0..MaxSeconds \cup {Absent}
    BY DEF GoalInit, LimitValue
  <2>2. goalFile \in {NoFile, TornFile} \cup Images
    BY DEF GoalInit
  <2>3. goalUp \in BOOLEAN /\ torn \in BOOLEAN
    BY DEF GoalInit
  <2>4. stops \in 0..MaxStops /\ created \in 0..MaxGoals /\ seconds \in 0..MaxSeconds
    BY DEF GoalInit
  <2>5. activeFor \in [1..MaxGoals -> 0..MaxSeconds]
    BY DEF GoalInit
  <2>6. QED
    BY <2>1, <2>2, <2>3, <2>4, <2>5 DEF GoalTypeOK
<1>2. MemoryClockOK(goal, resumedAt) /\ ClockRunsWhileActive
  BY DEF GoalInit, MemoryClockOK, ClockRunsWhileActive, Is
<1>3. FileClockOK(goalFile)
  BY FilesDiffer DEF GoalInit, FileClockOK
<1>4. QED
  BY <1>1, <1>2, <1>3 DEF GoalInit, ClockInv

-----------------------------------------------------------------------------
\* An operation that leaves goal g, limit l and mark r keeps ClockInv, when
\* g and r satisfy it and the operation creates at most the next goal.
LEMMA SaveKeepsClock ==
  ASSUME ClockInv, goalUp,
         NEW g \in Goal \cup {Absent}, NEW l \in LimitValue,
         NEW r \in 0..MaxSeconds \cup {Absent},
         Save(g, l, r),
         created' \in 0..MaxGoals, created <= created',
         g # Absent => g.id <= created',
         MemoryClockOK(g, r), Is(g, "active") <=> r # Absent
  PROVE  ClockInv'
<1> USE GoalAssumption
<1> DEFINE image == Image(g, l, r)
<1>1. /\ seconds' = seconds /\ activeFor' = activeFor
      /\ seconds \in 0..MaxSeconds /\ activeFor \in [1..MaxGoals -> 0..MaxSeconds]
      /\ created \in 0..MaxGoals
  BY DEF Save, ClockInv, GoalTypeOK
<1>2. g # Absent => image \in Images /\ image.goal = g /\ image.resumedAt = r
  BY DEF Image, Images
<1>3. \A f : FileClockOK(f) => FileClockOK(f)'
  BY <1>1 DEF FileClockOK, Images, Goal
<1>4. CASE /\ goal' = g /\ limit' = l /\ resumedAt' = r
           /\ goalFile' = Saved(g, l, r)
           /\ torn' = FALSE /\ goalUp' = goalUp /\ stops' = stops
  <2>1. goalFile' \in {NoFile, TornFile} \cup Images
    BY <1>4, <1>2 DEF Saved
  <2>2. FileClockOK(goalFile)'
    <3>1. CASE g = Absent
      BY <3>1, <1>4, FilesDiffer DEF Saved, FileClockOK
    <3>2. CASE g # Absent
      <4>1. goalFile' = image /\ g \in Goal
        BY <3>2, <1>4 DEF Saved
      <4>2. g.id <= created' /\ g.wallClockMs <= activeFor'[g.id]
        BY <3>2, <1>1 DEF MemoryClockOK
      <4>3. g.status # "active" => r = Absent
        BY <3>2 DEF Is
      <4>4. QED
        BY <4>1, <4>2, <4>3, <1>2, <3>2 DEF FileClockOK
    <3>3. QED
      BY <3>1, <3>2
  <2>3. GoalTypeOK'
    BY <1>4, <1>1, <2>1 DEF ClockInv, GoalTypeOK
  <2>4. MemoryClockOK(goal, resumedAt)' /\ ClockRunsWhileActive'
    BY <1>4, <1>1 DEF MemoryClockOK, ClockRunsWhileActive, Is
  <2>5. \A i \in 1..MaxGoals : activeFor'[i] <= seconds'
    BY <1>1 DEF ClockInv
  <2>6. QED
    BY <1>4, <2>2, <2>3, <2>4, <2>5 DEF ClockInv
<1>5. CASE Down /\ goalFile' \in {goalFile, TornFile} /\ torn' \in BOOLEAN
  <2>1. GoalTypeOK'
    <3>1. goalFile' \in {NoFile, TornFile} \cup Images
      BY <1>5 DEF ClockInv, GoalTypeOK
    <3>2. stops' \in 0..MaxStops
      BY <1>5 DEF Down, ClockInv, GoalTypeOK
    <3>3. goal' \in Goal \cup {Absent} /\ limit' \in LimitValue
          /\ resumedAt' \in 0..MaxSeconds \cup {Absent} /\ goalUp' \in BOOLEAN
      BY <1>5 DEF Down, LimitValue
    <3>4. QED
      BY <1>5, <1>1, <3>1, <3>2, <3>3 DEF GoalTypeOK
  <2>2. FileClockOK(goalFile)'
    <3>1. CASE goalFile' = TornFile
      BY <3>1, FilesDiffer DEF FileClockOK
    <3>2. CASE goalFile' = goalFile
      <4>1. CASE goalFile \in Images
        <5>1. goalFile.goal.id \in Nat /\ goalFile.goal.id <= created
              /\ goalFile.goal.wallClockMs <= activeFor[goalFile.goal.id]
              /\ (goalFile.goal.status # "active" => goalFile.resumedAt = Absent)
          BY <4>1 DEF ClockInv, FileClockOK, Images, Goal
        <5>2. goalFile.goal.id <= created'
          BY <5>1, <1>1
        <5>3. QED
          BY <3>2, <5>1, <5>2, <1>1 DEF FileClockOK
      <4>2. CASE goalFile \notin Images
        BY <3>2, <4>2 DEF FileClockOK
      <4>3. QED
        BY <4>1, <4>2
    <3>3. QED
      BY <1>5, <3>1, <3>2
  <2>3. MemoryClockOK(goal, resumedAt)' /\ ClockRunsWhileActive'
    BY <1>5 DEF Down, MemoryClockOK, ClockRunsWhileActive, Is
  <2>4. \A i \in 1..MaxGoals : activeFor'[i] <= seconds'
    BY <1>1 DEF ClockInv
  <2>5. QED
    BY <1>5, <2>1, <2>2, <2>3, <2>4 DEF Down, ClockInv
<1>6. torn \in BOOLEAN
  BY DEF ClockInv, GoalTypeOK
<1>7. QED
  BY <1>4, <1>5, <1>6 DEF Save

\* The new goal of pause, resume and mark_blocked: the time since the last
\* resume was active time.
LEMMA ApplyStatusKeepsClock ==
  ASSUME ClockInv, goalUp, goal # Absent,
         NEW status \in {"active", "paused", "blocked"},
         ApplyStatus(status), UNCHANGED created
  PROVE  ClockInv'
<1> USE GoalAssumption
<1> DEFINE g == [goal EXCEPT !.status = status,
                   !.wallClockMs = IF resumedAt = Absent THEN @ ELSE @ + (seconds - resumedAt)]
           r == IF status = "active" THEN seconds ELSE Absent
<1>1. /\ goal \in Goal /\ limit \in LimitValue /\ created \in 0..MaxGoals
      /\ seconds \in 0..MaxSeconds /\ activeFor \in [1..MaxGoals -> 0..MaxSeconds]
      /\ resumedAt \in 0..MaxSeconds \cup {Absent}
  BY DEF ClockInv, GoalTypeOK
<1>2. /\ goal.id \in 1..MaxGoals /\ goal.wallClockMs \in Nat /\ activeFor[goal.id] \in Nat
      /\ goal.id <= created /\ goal.wallClockMs <= activeFor[goal.id]
  BY <1>1 DEF Goal, ClockInv, MemoryClockOK
<1>3. /\ g.id = goal.id /\ g.status = status
      /\ g.wallClockMs = IF resumedAt = Absent THEN goal.wallClockMs
                           ELSE goal.wallClockMs + (seconds - resumedAt)
  BY <1>1 DEF Goal
<1>4. g.wallClockMs \in Nat /\ g.wallClockMs <= activeFor[goal.id]
  <2>1. CASE resumedAt = Absent
    BY <2>1, <1>2, <1>3
  <2>2. CASE resumedAt # Absent
    <3>1. goal.status = "active"
      BY <2>2 DEF ClockInv, ClockRunsWhileActive, Is
    <3>2. resumedAt <= seconds /\ goal.wallClockMs + (seconds - resumedAt) <= activeFor[goal.id]
      BY <3>1 DEF ClockInv, MemoryClockOK
    <3>3. QED
      BY <2>2, <3>2, <1>1, <1>2, <1>3
  <2>3. QED
    BY <2>1, <2>2
<1>5. g \in Goal
  BY <1>1, <1>4 DEF Goal
<1>6. Save(g, limit, r)
  BY DEF ApplyStatus
<1>7. seconds' = seconds /\ activeFor' = activeFor
  BY <1>6 DEF Save
<1>8. MemoryClockOK(g, r)
  <2>1. status = "active" => r = seconds /\ r # Absent
    BY <1>1, AbsentIsNothing
  <2>2. g.wallClockMs + (seconds - seconds) <= activeFor[g.id]
    BY <1>1, <1>3, <1>4
  <2>3. g.wallClockMs <= activeFor[g.id]
    BY <1>2, <1>3, <1>4
  <2> HIDE DEF g, r
  <2>4. QED
    BY <2>1, <2>2, <2>3, <1>1, <1>3 DEF MemoryClockOK
<1>9. Is(g, "active") <=> r # Absent
  <2>1. g # Absent
    BY <1>5, AbsentIsNothing
  <2>2. QED
    BY <2>1, <1>1, <1>3, AbsentIsNothing DEF Is
<1>10. r \in 0..MaxSeconds \cup {Absent}
  BY <1>1
<1>11. created' \in 0..MaxGoals /\ created <= created' /\ g.id <= created'
  BY <1>1, <1>2, <1>3
<1> HIDE DEF g, r
<1>12. QED
  BY <1>1, <1>5, <1>6, <1>8, <1>9, <1>10, <1>11, SaveKeepsClock

\* Usage counters do not matter to the clock.
LEMMA UsageKeepsClock ==
  ASSUME ClockInv, goalUp, goal # Absent, NEW g \in Goal, NEW l \in LimitValue,
         g.id = goal.id, g.status = goal.status, g.wallClockMs = goal.wallClockMs,
         Save(g, l, resumedAt), UNCHANGED created
  PROVE  ClockInv'
<1>1. /\ goal \in Goal /\ resumedAt \in 0..MaxSeconds \cup {Absent}
      /\ created \in 0..MaxGoals /\ goal.id <= created /\ goal.id \in 1..MaxGoals
  BY DEF ClockInv, GoalTypeOK, Goal
<1>2. MemoryClockOK(g, resumedAt) /\ g # Absent
  BY AbsentIsNothing DEF ClockInv, MemoryClockOK
<1>3. Is(g, "active") <=> resumedAt # Absent
  BY <1>2 DEF ClockInv, ClockRunsWhileActive, Is
<1>4. created' \in 0..MaxGoals /\ created <= created' /\ g.id <= created'
  BY <1>1
<1>5. QED
  BY <1>1, <1>2, <1>3, <1>4, SaveKeepsClock

LEMMA ForgetKeepsClock ==
  ASSUME ClockInv, goalUp, Save(Absent, limit, Absent), UNCHANGED created
  PROVE  ClockInv'
<1>1. /\ limit \in LimitValue /\ created \in 0..MaxGoals
      /\ MemoryClockOK(Absent, Absent) /\ ~ Is(Absent, "active")
  BY DEF ClockInv, GoalTypeOK, MemoryClockOK, Is
<1>2. created' \in 0..MaxGoals /\ created <= created'
  BY <1>1
<1>3. QED
  BY <1>1, <1>2, SaveKeepsClock

LEMMA LoadKeepsClock == ClockInv /\ Load => ClockInv'
<1> SUFFICES ASSUME ClockInv, Load PROVE ClockInv'
  OBVIOUS
<1> USE GoalAssumption
<1>1. /\ goal = Absent /\ resumedAt = Absent /\ ~ goalUp
      /\ UNCHANGED <<seconds, created, activeFor>>
  BY DEF Load, ClockInv, ClockRunsWhileActive, Is
<1>2. \A i \in 1..MaxGoals : activeFor'[i] <= seconds'
  BY <1>1 DEF ClockInv
<1>3. CASE /\ goalFile \in {NoFile, TornFile}
           /\ goal' = Absent /\ limit' = Absent /\ resumedAt' = Absent
           /\ goalUp' = TRUE /\ UNCHANGED <<goalFile, stops, torn>>
  <2>1. GoalTypeOK'
    BY <1>3, <1>1 DEF ClockInv, GoalTypeOK, LimitValue
  <2>2. MemoryClockOK(goal, resumedAt)' /\ ClockRunsWhileActive'
    BY <1>3 DEF MemoryClockOK, ClockRunsWhileActive, Is
  <2>3. FileClockOK(goalFile)'
    BY <1>3, <1>1 DEF ClockInv, FileClockOK
  <2>4. QED
    BY <1>2, <1>3, <2>1, <2>2, <2>3 DEF ClockInv
<1> DEFINE image == Normalized(goalFile)
<1>4. CASE /\ goalFile \notin {NoFile, TornFile}
           /\ goal' = image.goal /\ limit' = image.limit /\ resumedAt' = image.resumedAt
           /\ goalFile' = image /\ goalUp' = TRUE /\ UNCHANGED <<stops, torn>>
  <2>1. /\ goalFile \in Images /\ goalFile.goal \in Goal /\ goalFile.limit \in LimitValue
        /\ goalFile.resumedAt \in 0..MaxSeconds \cup {Absent}
    BY <1>4 DEF ClockInv, GoalTypeOK, Images
  <2>2. /\ goalFile.goal.id <= created
        /\ goalFile.goal.wallClockMs <= activeFor[goalFile.goal.id]
        /\ goalFile.goal.status # "active" => goalFile.resumedAt = Absent
    BY <2>1 DEF ClockInv, FileClockOK
  <2>3. /\ image \in Images /\ image.goal \in Goal
        /\ image.goal.id = goalFile.goal.id /\ image.goal.status # "active"
        /\ image.goal.wallClockMs = goalFile.goal.wallClockMs
        /\ image.resumedAt = Absent /\ image.limit \in LimitValue
    <3>1. CASE goalFile.goal.status = "active"
      <4> DEFINE g == [goalFile.goal EXCEPT !.status = "paused"]
      <4>1. /\ g \in Goal /\ g.id = goalFile.goal.id /\ g.status = "paused"
            /\ g.wallClockMs = goalFile.goal.wallClockMs
        BY <2>1 DEF Goal
      <4>2. image = Image(g, goalFile.limit, Absent)
        BY <3>1 DEF Normalized
      <4> HIDE DEF g
      <4>3. QED
        BY <4>1, <4>2, <2>1 DEF Image, Images
    <3>2. CASE goalFile.goal.status # "active"
      BY <3>2, <2>1, <2>2 DEF Normalized
    <3>3. QED
      BY <3>1, <3>2
  <2> HIDE DEF image
  <2>4. goal' \in Goal /\ Is(goal, "active")' = FALSE /\ resumedAt' = Absent
    BY <1>4, <2>3 DEF Is
  <2>5. GoalTypeOK'
    BY <1>4, <1>1, <2>3 DEF ClockInv, GoalTypeOK
  <2>6. MemoryClockOK(goal, resumedAt)' /\ ClockRunsWhileActive'
    BY <1>4, <1>1, <2>2, <2>3, <2>4 DEF MemoryClockOK, ClockRunsWhileActive
  <2>7. FileClockOK(goalFile)'
    BY <1>4, <1>1, <2>2, <2>3 DEF FileClockOK
  <2>8. goal'.id <= created'
    BY <1>4, <1>1, <2>2, <2>3
  <2>9. QED
    BY <1>2, <1>4, <2>5, <2>6, <2>7, <2>8 DEF ClockInv
<1>5. CASE Down /\ goalFile' = TornFile /\ torn' = TRUE
  <2>1. stops' \in 0..MaxStops
    BY <1>5 DEF Down, ClockInv, GoalTypeOK
  <2>2. GoalTypeOK'
    BY <1>5, <1>1, <2>1 DEF Down, ClockInv, GoalTypeOK, LimitValue
  <2>3. FileClockOK(goalFile)'
    BY <1>5, FilesDiffer DEF FileClockOK
  <2>4. MemoryClockOK(goal, resumedAt)' /\ ClockRunsWhileActive'
    BY <1>5 DEF Down, MemoryClockOK, ClockRunsWhileActive, Is
  <2>5. QED
    BY <1>2, <1>5, <2>2, <2>3, <2>4 DEF Down, ClockInv
<1>6. QED
  BY <1>3, <1>4, <1>5 DEF Load

LEMMA TickKeepsClock == ClockInv /\ Tick => ClockInv'
<1> SUFFICES ASSUME ClockInv, Tick PROVE ClockInv'
  OBVIOUS
<1> USE GoalAssumption
<1>1. /\ seconds \in 0..MaxSeconds /\ activeFor \in [1..MaxGoals -> 0..MaxSeconds]
      /\ seconds < MaxSeconds /\ seconds' = seconds + 1 /\ created' = created
      /\ UNCHANGED <<goal, limit, resumedAt, goalFile, goalUp, stops, torn>>
      /\ goal \in Goal \cup {Absent} /\ resumedAt \in 0..MaxSeconds \cup {Absent}
  BY DEF Tick, memoryVars, ClockInv, GoalTypeOK
<1>2. /\ activeFor' \in [1..MaxGoals -> 0..MaxSeconds]
      /\ \A i \in 1..MaxGoals :
           /\ activeFor'[i] <= seconds' /\ activeFor[i] <= activeFor'[i]
           /\ Is(goal, "active") /\ i = goal.id => activeFor'[i] = activeFor[i] + 1
  <2>1. \A i \in 1..MaxGoals : activeFor[i] <= seconds /\ activeFor[i] \in Nat
    BY <1>1 DEF ClockInv
  <2>2. CASE Is(goal, "active")
    <3>1. goal.id \in 1..MaxGoals
      BY <2>2, <1>1 DEF Is, Goal
    <3>2. activeFor' = [activeFor EXCEPT ![goal.id] = @ + 1]
      BY <2>2 DEF Tick
    <3>3. \A i \in 1..MaxGoals :
            activeFor'[i] = IF i = goal.id THEN activeFor[i] + 1 ELSE activeFor[i]
      BY <1>1, <3>1, <3>2
    <3>4. \A i \in 1..MaxGoals : activeFor'[i] \in 0..MaxSeconds /\ activeFor'[i] <= seconds'
      BY <1>1, <2>1, <3>3
    <3>5. activeFor' \in [1..MaxGoals -> 0..MaxSeconds]
      BY <1>1, <3>1, <3>2, <3>4
    <3>6. QED
      BY <2>1, <3>3, <3>4, <3>5
  <2>3. CASE ~ Is(goal, "active")
    BY <2>1, <2>3, <1>1 DEF Tick
  <2>4. QED
    BY <2>2, <2>3
<1>3. GoalTypeOK'
  BY <1>1, <1>2 DEF ClockInv, GoalTypeOK
<1>4. MemoryClockOK(goal, resumedAt)'
  <2> SUFFICES ASSUME goal # Absent PROVE MemoryClockOK(goal, resumedAt)'
    BY <1>1 DEF MemoryClockOK
  <2>1. goal.id \in 1..MaxGoals /\ goal.wallClockMs \in Nat
    BY <1>1 DEF Goal
  <2>2. activeFor[goal.id] <= activeFor'[goal.id] /\ activeFor[goal.id] \in Nat /\ activeFor'[goal.id] \in Nat
    BY <2>1, <1>1, <1>2
  <2>3. goal.wallClockMs <= activeFor'[goal.id]
    BY <2>1, <2>2 DEF ClockInv, MemoryClockOK
  <2>4. ASSUME goal.status = "active"
        PROVE  /\ resumedAt # Absent /\ resumedAt <= seconds'
               /\ goal.wallClockMs + (seconds' - resumedAt) <= activeFor'[goal.id]
    <3>1. /\ resumedAt # Absent /\ resumedAt <= seconds
          /\ goal.wallClockMs + (seconds - resumedAt) <= activeFor[goal.id]
      BY <2>4 DEF ClockInv, MemoryClockOK
    <3>2. activeFor'[goal.id] = activeFor[goal.id] + 1
      BY <2>4, <2>1, <1>2 DEF Is
    <3>3. QED
      BY <3>1, <3>2, <2>1, <2>2, <1>1
  <2>5. QED
    BY <2>3, <2>4, <1>1 DEF MemoryClockOK
<1>5. FileClockOK(goalFile)'
  <2> SUFFICES ASSUME goalFile \in Images PROVE FileClockOK(goalFile)'
    BY <1>1 DEF FileClockOK
  <2>1. goalFile.goal.id \in 1..MaxGoals /\ goalFile.goal.wallClockMs \in Nat
    BY DEF Images, Goal
  <2>2. /\ activeFor[goalFile.goal.id] <= activeFor'[goalFile.goal.id]
        /\ activeFor[goalFile.goal.id] \in Nat /\ activeFor'[goalFile.goal.id] \in Nat
    BY <2>1, <1>1, <1>2
  <2>3. QED
    BY <2>1, <2>2, <1>1 DEF ClockInv, FileClockOK
<1>6. ClockRunsWhileActive' /\ (goal' # Absent => goal'.id <= created') /\ (~ goalUp' => goal' = Absent)
  BY <1>1 DEF ClockInv, ClockRunsWhileActive, Is
<1>7. QED
  BY <1>2, <1>3, <1>4, <1>5, <1>6 DEF ClockInv

LEMMA StopKeepsClock == ClockInv /\ Stop => ClockInv'
<1> SUFFICES ASSUME ClockInv, Stop PROVE ClockInv'
  OBVIOUS
<1>1. stops' \in 0..MaxStops
  BY GoalAssumption DEF Stop, Down, ClockInv, GoalTypeOK
<1>2. GoalTypeOK'
  BY <1>1 DEF Stop, Down, ClockInv, GoalTypeOK, LimitValue
<1>3. QED
  BY <1>2 DEF Stop, Down, ClockInv, MemoryClockOK, FileClockOK, ClockRunsWhileActive, Is

LEMMA ClockInvStep == ClockInv /\ [GoalNext]_goalVars => ClockInv'
<1> SUFFICES ASSUME ClockInv, [GoalNext]_goalVars PROVE ClockInv'
  OBVIOUS
<1> USE GoalAssumption
<1>1. /\ goal \in Goal \cup {Absent} /\ limit \in LimitValue
      /\ created \in 0..MaxGoals /\ seconds \in 0..MaxSeconds
      /\ activeFor \in [1..MaxGoals -> 0..MaxSeconds]
  BY DEF ClockInv, GoalTypeOK
<1>2. ASSUME NEW replace \in BOOLEAN, CreateGoal(replace) PROVE ClockInv'
  <2> DEFINE g == [id |-> created + 1, status |-> "active", turns |-> 0, tokens |-> 0,
                   wallClockMs |-> 0]
  <2>1. created' = created + 1 /\ created' \in 0..MaxGoals /\ created <= created'
    BY <1>1, <1>2 DEF CreateGoal
  <2>2. g \in Goal /\ g.id = created' /\ g.status = "active" /\ g.wallClockMs = 0
    BY <1>1, <1>2, <2>1 DEF CreateGoal, Goal
  <2>3. goalUp /\ Save(g, Absent, seconds)
    BY <1>2 DEF CreateGoal
  <2> HIDE DEF g
  <2>4. seconds # Absent /\ g # Absent /\ Absent \in LimitValue
    BY <1>1, <2>2, AbsentIsNothing DEF LimitValue
  <2>5. activeFor[g.id] \in Nat
    BY <1>1, <2>1, <2>2
  <2>6. MemoryClockOK(g, seconds) /\ (Is(g, "active") <=> seconds # Absent)
    BY <1>1, <2>2, <2>4, <2>5 DEF MemoryClockOK, Is
  <2>7. g.id <= created'
    BY <1>1, <2>1, <2>2
  <2>8. QED
    BY <1>1, <2>1, <2>2, <2>3, <2>4, <2>6, <2>7, SaveKeepsClock
<1>3. ASSUME PauseGoal \/ ResumeGoal \/ MarkBlocked PROVE ClockInv'
  BY <1>3, ApplyStatusKeepsClock DEF PauseGoal, ResumeGoal, MarkBlocked, Is
<1>4. ASSUME CancelGoal \/ MarkComplete PROVE ClockInv'
  BY <1>4, ForgetKeepsClock DEF CancelGoal, MarkComplete
<1>5. ASSUME NEW delta \in Deltas, RecordTokenUsage(delta) PROVE ClockInv'
  <2> DEFINE g == [goal EXCEPT !.tokens = goal.tokens + (IF delta > 0 THEN delta ELSE 0)]
  <2>1. goal \in Goal /\ goalUp /\ goal # Absent /\ UNCHANGED created
    BY <1>1, <1>5 DEF RecordTokenUsage, Is
  <2>2. /\ g \in Goal /\ g.id = goal.id /\ g.status = goal.status
        /\ g.wallClockMs = goal.wallClockMs
    <3>1. goal.tokens + (IF delta > 0 THEN delta ELSE 0) \in Nat
      BY <2>1 DEF Goal
    <3>2. QED
      BY <2>1, <3>1 DEF Goal
  <2>3. Save(g, limit, resumedAt)
    BY <1>5 DEF RecordTokenUsage
  <2> HIDE DEF g
  <2>4. QED
    BY <1>1, <2>1, <2>2, <2>3, UsageKeepsClock
<1>6. ASSUME IncrementTurn PROVE ClockInv'
  <2> DEFINE g == [goal EXCEPT !.turns = @ + 1]
  <2>1. goal \in Goal /\ goalUp /\ goal # Absent /\ UNCHANGED created
    BY <1>1, <1>6 DEF IncrementTurn, Is
  <2>2. /\ g \in Goal /\ g.id = goal.id /\ g.status = goal.status
        /\ g.wallClockMs = goal.wallClockMs
    BY <2>1 DEF Goal
  <2>3. Save(g, limit, resumedAt)
    BY <1>6 DEF IncrementTurn
  <2> HIDE DEF g
  <2>4. QED
    BY <1>1, <2>1, <2>2, <2>3, UsageKeepsClock
<1>7. ASSUME NEW l \in Limits \cup {Absent}, SetBudgetLimits(l) PROVE ClockInv'
  <2>1. goal \in Goal /\ goalUp /\ goal # Absent /\ l \in LimitValue
        /\ Save(goal, l, resumedAt) /\ UNCHANGED created
    BY <1>1, <1>7 DEF SetBudgetLimits, LimitValue
  <2>2. QED
    BY <2>1, UsageKeepsClock
<1>8. CASE UNCHANGED goalVars
  BY <1>8 DEF goalVars, memoryVars, ClockInv, GoalTypeOK, MemoryClockOK, FileClockOK,
              ClockRunsWhileActive, Is
<1>9. QED
  BY <1>2, <1>3, <1>4, <1>5, <1>6, <1>7, <1>8, StopKeepsClock, LoadKeepsClock, TickKeepsClock
     DEF GoalNext

-----------------------------------------------------------------------------
\* The goal, its limits, its clock and the file keep the shapes of
\* src/goal, for any bounds and through any number of stops.
THEOREM GoalTypes == GoalSpec => []GoalTypeOK
<1>1. ClockInv => GoalTypeOK
  BY DEF ClockInv
<1>2. QED
  BY <1>1, ClockInvInit, ClockInvStep, PTL DEF GoalSpec

\* The clock that GoalMode reports never counts time in which its goal was
\* paused, blocked, or the process down.
THEOREM ClockNeverRunsAhead == GoalSpec => []ClockNeverAhead
<1>1. ClockInv => ClockNeverAhead
  <2> SUFFICES ASSUME ClockInv, goal # Absent
               PROVE  LiveWallClockMs <= activeFor[goal.id] * 1000
    BY DEF ClockNeverAhead
  <2> USE GoalAssumption
  <2>1. /\ goal \in Goal /\ activeFor \in [1..MaxGoals -> 0..MaxSeconds]
        /\ seconds \in 0..MaxSeconds /\ resumedAt \in 0..MaxSeconds \cup {Absent}
    BY DEF ClockInv, GoalTypeOK
  <2>2. /\ goal.id \in 1..MaxGoals /\ goal.wallClockMs \in Nat /\ activeFor[goal.id] \in Nat
        /\ goal.wallClockMs <= activeFor[goal.id]
    BY <2>1 DEF Goal, ClockInv, MemoryClockOK
  <2>3. CASE goal.status = "active" /\ resumedAt # Absent
    <3>1. resumedAt <= seconds /\ goal.wallClockMs + (seconds - resumedAt) <= activeFor[goal.id]
      BY <2>3 DEF ClockInv, MemoryClockOK
    <3>2. LiveWallClockMs = goal.wallClockMs + (seconds - resumedAt) * 1000
      BY <2>3 DEF LiveWallClockMs
    <3>3. \A a, d, b \in Nat : a + d <= b => a + d * 1000 <= b * 1000
      OBVIOUS
    <3>4. seconds - resumedAt \in Nat
      BY <2>1, <2>3, <3>1, AbsentIsNothing
    <3>5. QED
      BY <2>2, <3>1, <3>2, <3>3, <3>4
  <2>4. CASE ~ (goal.status = "active" /\ resumedAt # Absent)
    <3>1. LiveWallClockMs = goal.wallClockMs * 1000
      BY <2>4 DEF LiveWallClockMs
    <3>2. QED
      BY <2>2, <3>1
  <2>5. QED
    BY <2>3, <2>4
<1>2. QED
  BY <1>1, ClockInvInit, ClockInvStep, PTL DEF GoalSpec

\* The clock of a goal runs exactly while the goal is active, also after a
\* restart.
THEOREM ClockRuns == GoalSpec => []ClockRunsWhileActive
<1>1. ClockInv => ClockRunsWhileActive
  BY DEF ClockInv
<1>2. QED
  BY <1>1, ClockInvInit, ClockInvStep, PTL DEF GoalSpec

-----------------------------------------------------------------------------
\* Goal g and limit l are what the last call returned, but for a goal that
\* was active and has become paused.
Kept(g, l) ==
  \/ g = told.goal /\ (g # Absent => l = told.limit)
  \/ Is(told.goal, "active") /\ g = [told.goal EXCEPT !.status = "paused"] /\ l = told.limit

\* While no write was cut, memory and file agree as long as the process runs,
\* and what is in the file is what was told as long as it does not.
KeptInv ==
  /\ told.goal \in Goal \cup {Absent}
  /\ ~ torn =>
       /\ goalUp => goalFile = Saved(goal, limit, resumedAt) /\ Kept(goal, limit)
       /\ ~ goalUp =>
            \/ goalFile = NoFile /\ told.goal = Absent
            \/ goalFile \in Images /\ Kept(goalFile.goal, goalFile.limit)

LEMMA KeptInvInit == GoalInit => KeptInv
  BY DEF GoalInit, KeptInv, Kept, Saved

\* A stop that leaves the file alone leaves what was told in it.
LEMMA DownKeeps ==
  ASSUME ClockInv, KeptInv, goalUp, Down, UNCHANGED <<goalFile, told, torn>>
  PROVE  KeptInv'
<1> SUFFICES ASSUME ~ torn
             PROVE  \/ goalFile = NoFile /\ told.goal = Absent
                    \/ goalFile \in Images /\ Kept(goalFile.goal, goalFile.limit)
  BY DEF Down, KeptInv, Kept, Is
<1>1. goalFile = Saved(goal, limit, resumedAt) /\ Kept(goal, limit) /\ told.goal \in Goal \cup {Absent}
  BY DEF KeptInv
<1>2. CASE goal = Absent
  <2>1. Is(told.goal, "active") => [told.goal EXCEPT !.status = "paused"] \in Goal
    BY <1>1 DEF Is, Goal
  <2>2. told.goal = Absent
    BY <1>1, <1>2, <2>1, AbsentIsNothing DEF Kept
  <2>3. QED
    BY <1>1, <1>2, <2>2 DEF Saved
<1>3. CASE goal # Absent
  <2>1. goal \in Goal /\ limit \in LimitValue /\ resumedAt \in 0..MaxSeconds \cup {Absent}
    BY <1>3 DEF ClockInv, GoalTypeOK
  <2>2. goalFile = Image(goal, limit, resumedAt)
    BY <1>1, <1>3 DEF Saved
  <2>3. goalFile \in Images /\ goalFile.goal = goal /\ goalFile.limit = limit
    BY <2>1, <2>2 DEF Image, Images
  <2>4. QED
    BY <1>1, <2>3
<1>4. QED
  BY <1>2, <1>3

LEMMA SaveKeeps ==
  ASSUME ClockInv, KeptInv, goalUp, NEW g \in Goal \cup {Absent}, NEW l, NEW r, Save(g, l, r)
  PROVE  KeptInv'
<1>1. CASE /\ goal' = g /\ limit' = l /\ resumedAt' = r
           /\ goalFile' = Saved(g, l, r) /\ told' = [goal |-> g, limit |-> l]
           /\ goalUp' = goalUp
  <2>1. told'.goal = g /\ told'.limit = l
    BY <1>1
  <2>2. Kept(goal, limit)'
    BY <1>1, <2>1 DEF Kept
  <2>3. (goalFile = Saved(goal, limit, resumedAt))'
    BY <1>1 DEF Saved, Image
  <2>4. QED
    BY <1>1, <2>1, <2>2, <2>3 DEF KeptInv
<1>2. CASE Down /\ UNCHANGED <<goalFile, told, torn>>
  BY <1>2, DownKeeps
<1>3. CASE torn' = TRUE /\ UNCHANGED told
  BY <1>3 DEF KeptInv
<1>4. QED
  BY <1>1, <1>2, <1>3 DEF Save

LEMMA LoadKeeps == ClockInv /\ KeptInv /\ Load => KeptInv'
<1> SUFFICES ASSUME ClockInv, KeptInv, Load PROVE KeptInv'
  OBVIOUS
<1>1. ~ goalUp /\ told' = told
  BY DEF Load
<1>2. CASE torn' = TRUE
  BY <1>1, <1>2 DEF KeptInv
<1>3. CASE /\ goalFile \in {NoFile, TornFile}
           /\ goal' = Absent /\ limit' = Absent /\ resumedAt' = Absent
           /\ goalUp' = TRUE /\ UNCHANGED <<goalFile, torn>>
  <2> SUFFICES ASSUME ~ torn
               PROVE  (goalFile = Saved(goal, limit, resumedAt) /\ Kept(goal, limit))'
    BY <1>1, <1>3 DEF KeptInv
  <2>1. goalFile = NoFile /\ told.goal = Absent
    BY <1>1, <1>3, FilesDiffer DEF KeptInv
  <2>2. QED
    BY <2>1, <1>1, <1>3 DEF Saved, Kept
<1> DEFINE image == Normalized(goalFile)
<1>4. CASE /\ goalFile \notin {NoFile, TornFile}
           /\ goal' = image.goal /\ limit' = image.limit /\ resumedAt' = image.resumedAt
           /\ goalFile' = image /\ goalUp' = TRUE /\ UNCHANGED torn
  <2> SUFFICES ASSUME ~ torn
               PROVE  (goalFile = Saved(goal, limit, resumedAt) /\ Kept(goal, limit))'
    BY <1>1, <1>4 DEF KeptInv
  <2>1. goalFile \in Images /\ Kept(goalFile.goal, goalFile.limit) /\ told.goal \in Goal \cup {Absent}
    BY <1>1, <1>4 DEF KeptInv
  <2>2. goalFile = Image(goalFile.goal, goalFile.limit, goalFile.resumedAt) /\ goalFile.goal \in Goal
    BY <2>1 DEF Image, Images
  <2>3. CASE goalFile.goal.status # "active"
    <3>1. image = goalFile
      BY <2>3 DEF Normalized
    <3>2. QED
      BY <3>1, <2>1, <2>2, <1>1, <1>4, AbsentIsNothing DEF Saved, Image, Kept, Is
  <2>4. CASE goalFile.goal.status = "active"
    <3> DEFINE g == [goalFile.goal EXCEPT !.status = "paused"]
    <3>1. g \in Goal
      BY <2>2 DEF Goal
    <3>2. image = Image(g, goalFile.limit, Absent)
      BY <2>4 DEF Normalized
    <3>3. image.goal = g /\ image.limit = goalFile.limit /\ image.resumedAt = Absent
      BY <3>2 DEF Image
    <3>4. goalFile.goal = told.goal /\ goalFile.limit = told.limit
      <4>1. ASSUME NEW h \in Goal PROVE [h EXCEPT !.status = "paused"].status = "paused"
        BY DEF Goal
      <4>2. Is(told.goal, "active") => [told.goal EXCEPT !.status = "paused"].status = "paused"
        BY <4>1, <2>1 DEF Is
      <4>3. goalFile.goal # Absent
        BY <2>2, AbsentIsNothing
      <4>4. QED
        BY <2>1, <2>4, <4>2, <4>3 DEF Kept
    <3>5. Is(told.goal, "active") /\ g = [told.goal EXCEPT !.status = "paused"]
      BY <2>2, <2>4, <3>4, AbsentIsNothing DEF Is
    <3> HIDE DEF g
    <3>6. Kept(goal, limit)'
      BY <1>1, <1>4, <3>3, <3>4, <3>5 DEF Kept, Is
    <3>7. (goalFile = Saved(goal, limit, resumedAt))'
      BY <1>4, <3>1, <3>2, <3>3, AbsentIsNothing DEF Saved
    <3>8. QED
      BY <3>6, <3>7
  <2>5. QED
    BY <2>3, <2>4
<1>5. QED
  BY <1>2, <1>3, <1>4 DEF Load

LEMMA KeptInvStep == ClockInv /\ KeptInv /\ [GoalNext]_goalVars => KeptInv'
<1> SUFFICES ASSUME ClockInv, KeptInv, [GoalNext]_goalVars PROVE KeptInv'
  OBVIOUS
<1> USE GoalAssumption
<1>1. /\ goal \in Goal \cup {Absent} /\ created \in 0..MaxGoals /\ seconds \in 0..MaxSeconds
      /\ resumedAt \in 0..MaxSeconds \cup {Absent}
  BY DEF ClockInv, GoalTypeOK
<1>2. ASSUME NEW replace \in BOOLEAN, CreateGoal(replace) PROVE KeptInv'
  <2> DEFINE g == [id |-> created + 1, status |-> "active", turns |-> 0, tokens |-> 0,
                   wallClockMs |-> 0]
  <2>1. g \in Goal
    BY <1>1, <1>2 DEF CreateGoal, Goal
  <2>2. goalUp /\ Save(g, Absent, seconds)
    BY <1>2 DEF CreateGoal
  <2> HIDE DEF g
  <2>3. QED
    BY <2>1, <2>2, SaveKeeps
<1>3. ASSUME goalUp, goal # Absent, NEW status \in {"active", "paused", "blocked"}, ApplyStatus(status)
      PROVE  KeptInv'
  <2> DEFINE g == [goal EXCEPT !.status = status,
                     !.wallClockMs = IF resumedAt = Absent THEN @ ELSE @ + (seconds - resumedAt)]
             r == IF status = "active" THEN seconds ELSE Absent
  <2>1. g \in Goal
    <3>1. goal \in Goal /\ goal.wallClockMs \in Nat
      BY <1>1, <1>3 DEF Goal
    <3>2. (IF resumedAt = Absent THEN goal.wallClockMs
             ELSE goal.wallClockMs + (seconds - resumedAt)) \in Nat
      <4>1. CASE resumedAt = Absent
        BY <4>1, <3>1
      <4>2. CASE resumedAt # Absent
        <5>1. resumedAt <= seconds
          BY <1>3, <4>2 DEF ClockInv, ClockRunsWhileActive, MemoryClockOK, Is
        <5>2. QED
          BY <5>1, <4>2, <3>1, <1>1
      <4>3. QED
        BY <4>1, <4>2
    <3>3. QED
      BY <3>1, <3>2 DEF Goal
  <2>2. Save(g, limit, r)
    BY <1>3 DEF ApplyStatus
  <2> HIDE DEF g, r
  <2>3. QED
    BY <1>3, <2>1, <2>2, SaveKeeps
<1>4. ASSUME PauseGoal \/ ResumeGoal \/ MarkBlocked PROVE KeptInv'
  BY <1>3, <1>4 DEF PauseGoal, ResumeGoal, MarkBlocked, Is
<1>5. ASSUME CancelGoal \/ MarkComplete PROVE KeptInv'
  BY <1>5, SaveKeeps DEF CancelGoal, MarkComplete
<1>6. ASSUME NEW delta \in Deltas, RecordTokenUsage(delta) PROVE KeptInv'
  <2> DEFINE spent == goal.tokens + (IF delta > 0 THEN delta ELSE 0)
             g == [goal EXCEPT !.tokens = spent]
  <2>1. goalUp /\ goal \in Goal /\ Save(g, limit, resumedAt)
    BY <1>1, <1>6 DEF RecordTokenUsage, Is
  <2>2. spent \in Nat
    BY <2>1 DEF Goal
  <2>3. g \in Goal
    BY <2>1, <2>2 DEF Goal
  <2> HIDE DEF g
  <2>4. QED
    BY <2>1, <2>3, SaveKeeps
<1>7. ASSUME IncrementTurn PROVE KeptInv'
  <2> DEFINE g == [goal EXCEPT !.turns = @ + 1]
  <2>1. goalUp /\ goal \in Goal /\ Save(g, limit, resumedAt)
    BY <1>1, <1>7 DEF IncrementTurn, Is
  <2>2. g \in Goal
    BY <2>1 DEF Goal
  <2> HIDE DEF g
  <2>3. QED
    BY <2>1, <2>2, SaveKeeps
<1>8. ASSUME NEW l \in Limits \cup {Absent}, SetBudgetLimits(l) PROVE KeptInv'
  BY <1>1, <1>8, SaveKeeps DEF SetBudgetLimits
<1>9. CASE Stop
  BY <1>9, DownKeeps DEF Stop
<1>10. CASE Tick \/ UNCHANGED goalVars
  BY <1>10 DEF Tick, goalVars, memoryVars, KeptInv, Kept, Saved, Image, Is
<1>11. QED
  BY <1>2, <1>4, <1>5, <1>6, <1>7, <1>8, <1>9, <1>10, LoadKeeps DEF GoalNext

\* What the last call returned outlives the process: only a write that was
\* cut in the middle loses the goal, and a restart only ever pauses it.
THEOREM ToldStaysKept == GoalSpec => []ToldIsKept
<1>1. KeptInv => ToldIsKept
  BY DEF KeptInv, Kept, ToldIsKept
<1>2. QED
  BY <1>1, ClockInvInit, ClockInvStep, KeptInvInit, KeptInvStep, PTL DEF GoalSpec

\* What the files run checks of the goal, for any bounds and any number of
\* stops: what was told is kept, and the clock runs while the goal is active
\* and never else.
THEOREM GoalSurvives == GoalSpec => []GoalOutlivesStops
<1>1. ToldIsKept /\ ClockNeverAhead /\ ClockRunsWhileActive => GoalOutlivesStops
  BY DEF GoalOutlivesStops
<1>2. QED
  BY <1>1, ToldStaysKept, ClockNeverRunsAhead, ClockRuns, PTL

-----------------------------------------------------------------------------
(***************************************************************************)
(* The document store.  What is on disk differs from the memory by what    *)
(* the operation under way has still to write.                             *)
(***************************************************************************)
Docs == [Ids -> Data \cup {None}]
LogEntries ==
  [op : {"set"}, id : Ids, data : Data] \cup [op : {"delete"}, id : Ids]

\* What a document is after an entry.
LeftBy(e) == IF e.op = "set" THEN e.data ELSE None

\* The lines of a log about a document, and the last of some lines.
LinesAbout(log, i) == {k \in DOMAIN log : log[k].id = i}
LastOf(S) == CHOOSE k \in S : \A m \in S : m <= k

\* The documents that a snapshot and a log amount to.
Amount(base, log) ==
  [i \in Ids |-> IF LinesAbout(log, i) = {} THEN base[i] ELSE LeftBy(log[LastOf(LinesAbout(log, i))])]

Held == IF snapshot = Torn THEN Empty ELSE snapshot

DiskShapes == (snapshot = Torn \/ snapshot \in Docs) /\ wal \in Seq(LogEntries)

MiniShapes ==
  /\ docs \in [Ids -> Data \cup {None, Unserialisable}] /\ index \in [Words -> SUBSET Ids]
  /\ DiskShapes /\ undeleted \in SUBSET Ids /\ unindexed \in SUBSET Ids
  /\ step \in {"idle", "append", "compact", "truncate", "clear", "clear_wal"}
  /\ IF step = "append" THEN entry \in LogEntries ELSE entry = Torn

\* The documents in memory are those on disk, changed by the entry that is still
\* to be written, but for those that a call put there, or deleted, and raised; or
\* all gone when a clear is under way.
MemoryAndDisk ==
  /\ step \in {"idle", "compact", "truncate"} =>
       \A i \in Ids \ (Refused \cup undeleted) : docs[i] = Amount(Held, wal)[i]
  /\ step = "append" =>
       /\ docs[entry.id] = LeftBy(entry) /\ entry.id \notin undeleted
       /\ \A i \in Ids \ (Refused \cup undeleted) :
            i # entry.id => docs[i] = Amount(Held, wal)[i]
  /\ step \in {"compact", "truncate"} => Refused = {}
  /\ step \in {"clear", "clear_wal"} => docs = Empty /\ undeleted = {}
  /\ step \in {"truncate", "clear_wal"} => docs = snapshot
  /\ \A i \in undeleted : docs[i] = None

MiniInv == MiniShapes /\ MemoryAndDisk /\ SearchFindsAll

\* Of some lines one is the last.
LEMMA LastIsThere ==
  ASSUME NEW n \in Nat, NEW S \in SUBSET (1..n), S # {}
  PROVE  LastOf(S) \in S /\ \A m \in S : m <= LastOf(S)
<1> DEFINE above == {u \in Nat : \A m \in S : m <= u}
<1>1. n \in above
  OBVIOUS
<1>2. PICK u \in above : \A v \in above : u <= v
  BY <1>1, LeastNumber
<1>3. u \in S
  <2> SUFFICES ASSUME u \notin S PROVE FALSE
    OBVIOUS
  <2>1. PICK s \in S : TRUE
    OBVIOUS
  <2>2. s \in Nat /\ s >= 1 /\ s <= u /\ u \in Nat
    BY <1>2
  <2>3. u - 1 \in Nat
    BY <2>2
  <2>4. \A m \in S : m <= u - 1
    <3> SUFFICES ASSUME NEW m \in S PROVE m <= u - 1
      OBVIOUS
    <3>1. m \in Nat /\ m <= u /\ m # u
      BY <1>2
    <3> QED
      BY <2>2, <3>1
  <2>5. u <= u - 1
    BY <1>2, <2>3, <2>4
  <2> QED
    BY <2>2, <2>5
<1>4. \E k \in S : \A m \in S : m <= k
  BY <1>2, <1>3
<1> QED
  BY <1>4 DEF LastOf

\* No entry of the log is a torn line, and none has data in place of no document.
LEMMA EntriesAreWhole ==
  /\ \A e \in LogEntries : e # Torn /\ e.id \in Ids /\ LeftBy(e) \in Data \cup {None}
  /\ \A e \in LogEntries : e.op \in {"set", "delete"} /\ (e.op = "set" => e.data \in Data)
  /\ \A e \in LogEntries : e.op = "delete" => LeftBy(e) = None
<1>1. ASSUME NEW e \in [op : {"set"}, id : Ids, data : Data]
      PROVE  e.op = "set" /\ e.id \in Ids /\ e.data \in Data
  OBVIOUS
<1>2. ASSUME NEW e \in [op : {"delete"}, id : Ids] PROVE e.op = "delete" /\ e.id \in Ids
  OBVIOUS
<1>3. Torn.op = "torn"
  BY DEF Torn
<1>4. "torn" # "set" /\ "torn" # "delete" /\ "set" # "delete"
  OBVIOUS
<1> QED
  BY <1>1, <1>2, <1>3, <1>4 DEF LogEntries, LeftBy

LEMMA EmptyIsDocs == Empty \in Docs /\ None \notin Data
  BY MiniDBAssumption DEF Empty, Docs

\* What a start loads, from files without a torn line.
LEMMA LoadedIsAmount ==
  DiskShapes => Readable = DOMAIN wal /\ Loaded = Amount(Held, wal) /\ Held \in Docs
<1> SUFFICES ASSUME DiskShapes
             PROVE  Readable = DOMAIN wal /\ Loaded = Amount(Held, wal) /\ Held \in Docs
  OBVIOUS
<1>1. PICK n \in Nat : n = Len(wal) /\ DOMAIN wal = 1..n
  BY DEF MiniShapes, DiskShapes
<1>2. \A k \in 1..n : wal[k] \in LogEntries /\ wal[k] # Torn
  <2>1. wal \in Seq(LogEntries)
    BY DEF MiniShapes, DiskShapes
  <2>2. \A k \in 1..n : wal[k] \in LogEntries
    BY <1>1, <2>1
  <2> QED
    BY <2>2, EntriesAreWhole
<1>3. Readable = 1..n
  BY <1>1, <1>2 DEF Readable
<1>4. \A i \in Ids : {k \in Readable : k <= n /\ wal[k].id = i} = LinesAbout(wal, i)
  BY <1>1, <1>3 DEF LinesAbout
<1>5. Loaded = Amount(Held, wal)
  <2>1. Held = FromSnapshot
    BY DEF Held, FromSnapshot
  <2>2. Loaded = [i \in Ids |->
          IF {k \in Readable : k <= n /\ wal[k].id = i} = {} THEN FromSnapshot[i]
          ELSE LeftBy(wal[LastOf({k \in Readable : k <= n /\ wal[k].id = i})])]
    BY <1>1 DEF Loaded, Replayed, LastOf, LeftBy
  <2>3. Loaded = [i \in Ids |-> IF LinesAbout(wal, i) = {} THEN FromSnapshot[i]
                                ELSE LeftBy(wal[LastOf(LinesAbout(wal, i))])]
    BY <1>4, <2>2
  <2> QED
    BY <2>1, <2>3 DEF Amount
<1>6. Held \in Docs
  BY EmptyIsDocs DEF DiskShapes, Held
<1> QED
  BY <1>1, <1>3, <1>5, <1>6

\* The last line about a document, if there is one.
LEMMA LastLine ==
  ASSUME NEW log \in Seq(LogEntries), NEW i \in Ids, LinesAbout(log, i) # {}
  PROVE  /\ LastOf(LinesAbout(log, i)) \in LinesAbout(log, i)
         /\ \A m \in LinesAbout(log, i) : m <= LastOf(LinesAbout(log, i))
<1>1. LinesAbout(log, i) \in SUBSET (1..Len(log)) /\ Len(log) \in Nat
  BY DEF LinesAbout
<1> QED
  BY <1>1, LastIsThere

LEMMA AmountIsDocs ==
  ASSUME NEW base \in Docs, NEW log \in Seq(LogEntries) PROVE Amount(base, log) \in Docs
<1> SUFFICES ASSUME NEW i \in Ids PROVE Amount(base, log)[i] \in Data \cup {None}
  BY DEF Amount, Docs
<1>1. CASE LinesAbout(log, i) = {}
  BY <1>1 DEF Amount, Docs
<1>2. CASE LinesAbout(log, i) # {}
  <2>1. PICK k : k = LastOf(LinesAbout(log, i)) /\ k \in DOMAIN log
    BY <1>2, LastLine DEF LinesAbout
  <2>2. log[k] \in LogEntries
    BY <2>1
  <2> QED
    BY <1>2, <2>1, <2>2, EntriesAreWhole DEF Amount
<1> QED
  BY <1>1, <1>2

\* A line more changes its document only.
LEMMA AmountOfAppended ==
  ASSUME NEW base \in Docs, NEW log \in Seq(LogEntries), NEW e \in LogEntries
  PROVE  Amount(base, Append(log, e)) = [Amount(base, log) EXCEPT ![e.id] = LeftBy(e)]
<1>1. PICK n \in Nat : n = Len(log) /\ DOMAIN log = 1..n
  OBVIOUS
<1>2. PICK q : q = Append(log, e)
  OBVIOUS
<1>3. /\ q \in Seq(LogEntries) /\ DOMAIN q = 1..(n + 1) /\ q[n + 1] = e
      /\ \A k \in 1..n : q[k] = log[k]
  BY <1>1, <1>2
<1>4. \A k \in 1..(n + 1) : k \in 1..n \/ k = n + 1
  OBVIOUS
<1>5. \A i \in Ids : i # e.id => LinesAbout(q, i) = LinesAbout(log, i)
  BY <1>1, <1>3, <1>4 DEF LinesAbout
<1>6. n + 1 \in LinesAbout(q, e.id) /\ e.id \in Ids
  BY <1>3, EntriesAreWhole DEF LinesAbout
<1>7. LastOf(LinesAbout(q, e.id)) = n + 1
  <2>1. PICK k : k = LastOf(LinesAbout(q, e.id))
    OBVIOUS
  <2>2. k \in LinesAbout(q, e.id) /\ n + 1 <= k
    BY <1>3, <1>6, <2>1, LastLine
  <2>3. k \in 1..(n + 1)
    BY <1>3, <2>2 DEF LinesAbout
  <2> QED
    BY <2>1, <2>2, <2>3
<1>8. ASSUME NEW i \in Ids
      PROVE  Amount(base, q)[i] = IF i = e.id THEN LeftBy(e) ELSE Amount(base, log)[i]
  <2>1. CASE i = e.id
    BY <1>3, <1>6, <1>7, <2>1 DEF Amount
  <2>2. CASE i # e.id /\ LinesAbout(log, i) = {}
    BY <1>5, <2>2 DEF Amount
  <2>3. CASE i # e.id /\ LinesAbout(log, i) # {}
    <3>1. PICK k : k = LastOf(LinesAbout(log, i)) /\ k \in 1..n
      BY <1>1, <2>3, LastLine DEF LinesAbout
    <3>2. q[k] = log[k]
      BY <1>3, <3>1
    <3> QED
      BY <1>5, <2>3, <3>1, <3>2 DEF Amount
  <2> QED
    BY <2>1, <2>2, <2>3
<1> QED
  BY <1>2, <1>8 DEF Amount

\* The same lines on what they and a base amount to change nothing more.
LEMMA AmountAgain ==
  ASSUME NEW base \in Docs, NEW log \in Seq(LogEntries)
  PROVE  Amount(Amount(base, log), log) = Amount(base, log)
  BY DEF Amount

LEMMA AmountOfNothing == ASSUME NEW base \in Docs PROVE Amount(base, <<>>) = base
<1>1. \A i \in Ids : LinesAbout(<<>>, i) = {}
  BY DEF LinesAbout
<1> QED
  BY <1>1 DEF Amount, Docs

LEMMA DocsAreDocs ==
  ASSUME MiniShapes, Refused = {} PROVE docs \in Docs
BY DEF MiniShapes, Refused, Docs

LEMMA MiniInitially == Init => MiniInv
<1> SUFFICES ASSUME Init PROVE MiniInv
  OBVIOUS
<1>1. Held = Empty /\ snapshot \in Docs /\ docs = Empty
  BY EmptyIsDocs DEF Init, Held
<1>2. wal = <<>> /\ wal \in Seq(LogEntries) /\ Amount(Held, wal) = Empty
  BY <1>1, EmptyIsDocs, AmountOfNothing DEF Init
<1>3. MiniShapes
  BY <1>1, <1>2 DEF Init, MiniShapes, DiskShapes, Docs
<1>4. MemoryAndDisk
  BY <1>1, <1>2 DEF Init, MemoryAndDisk
<1>5. SearchFindsAll
  <2>1. \A i \in Ids : docs[i] \notin Data
    BY <1>1, EmptyIsDocs DEF Empty
  <2> QED
    BY <2>1 DEF SearchFindsAll
<1> QED
  BY <1>3, <1>4, <1>5 DEF MiniInv

LEMMA SetEntryIsEntry ==
  ASSUME NEW i \in Ids, NEW d \in Data
  PROVE  /\ SetEntry(i, d) \in LogEntries /\ SetEntry(i, d).id = i /\ LeftBy(SetEntry(i, d)) = d
         /\ DeleteEntry(i) \in LogEntries /\ DeleteEntry(i).id = i /\ LeftBy(DeleteEntry(i)) = None
BY DEF SetEntry, DeleteEntry, LogEntries, LeftBy

\* A word of ASCII letters that does not stand right behind an escape is found.
LEMMA ClearWordsAreFound ==
  ASSUME NEW d \in Data, NEW w \in Words \ Escaped, <<w, "clear">> \in d PROVE w \in WordsOf(d)
<1>1. Found[<<w, "clear">>] = {w}
  BY MiniDBAssumption
<1> QED
  BY <1>1 DEF WordsOf

LEMMA SetKeepsDocs ==
  ASSUME MiniInv, NEW i \in Ids, NEW d \in Data, Set(i, d) PROVE MiniInv'
<1>1. /\ docs' = [docs EXCEPT ![i] = d] /\ entry' = SetEntry(i, d) /\ step' = "append"
      /\ index' = [w \in Words |-> IF w \in WordsOf(d) THEN index[w] \cup {i} ELSE index[w]]
      /\ step = "idle" /\ snapshot' = snapshot /\ wal' = wal
      /\ undeleted' = undeleted \ {i} /\ unindexed' = unindexed \ {i}
  BY DEF Set, Begin, disk
<1>2. docs \in [Ids -> Data \cup {None, Unserialisable}] /\ index \in [Words -> SUBSET Ids]
  BY DEF MiniInv, MiniShapes, DiskShapes
<1>3. docs' \in [Ids -> Data \cup {None, Unserialisable}] /\ index' \in [Words -> SUBSET Ids]
  BY <1>1, <1>2
<1>4. MiniShapes'
  BY <1>1, <1>3, SetEntryIsEntry DEF MiniInv, MiniShapes, DiskShapes
<1>5. MemoryAndDisk'
  <2>1. /\ \A j \in Ids \ (Refused \cup undeleted) : docs[j] = Amount(Held, wal)[j]
        /\ \A j \in undeleted : docs[j] = None
        /\ Amount(Held, wal)' = Amount(Held, wal)
    BY <1>1 DEF MiniInv, MemoryAndDisk, Held, Amount, LinesAbout
  <2>2. entry'.id = i /\ LeftBy(entry') = d
    BY <1>1, SetEntryIsEntry
  <2>3. Refused' \cup {i} = Refused \cup {i}
    BY <1>1, <1>2 DEF Refused
  <2>4. docs'[i] = d /\ \A j \in Ids : j # i => docs'[j] = docs[j]
    BY <1>1, <1>2
  <2>5. \A j \in Ids \ (Refused' \cup undeleted') : j # i => docs'[j] = Amount(Held, wal)'[j]
    BY <1>1, <2>1, <2>3, <2>4
  <2>6. \A j \in undeleted' : docs'[j] = None
    <3>1. undeleted \in SUBSET Ids
      BY DEF MiniInv, MiniShapes
    <3> QED
      BY <1>1, <2>1, <2>4, <3>1
  <2> QED
    BY <1>1, <2>2, <2>4, <2>5, <2>6 DEF MemoryAndDisk
<1>6. SearchFindsAll'
  <2> SUFFICES ASSUME NEW j \in Ids \ unindexed', NEW w \in Words \ Escaped,
                      docs'[j] \in Data, <<w, "clear">> \in docs'[j]
               PROVE  j \in index'[w]
    BY DEF SearchFindsAll
  <2>1. CASE j = i
    <3>1. docs'[j] = d
      BY <1>1, <1>2, <2>1
    <3>2. w \in WordsOf(d)
      BY <3>1, ClearWordsAreFound
    <3> QED
      BY <1>1, <2>1, <3>2
  <2>2. CASE j # i
    <3>1. docs'[j] = docs[j]
      BY <1>1, <1>2, <2>2
    <3>2. j \in index[w]
      BY <1>1, <2>2, <3>1 DEF MiniInv, SearchFindsAll
    <3> QED
      BY <1>1, <3>2
  <2> QED
    BY <2>1, <2>2
<1> QED
  BY <1>4, <1>5, <1>6 DEF MiniInv

LEMMA SetRaisesKeepsDocs ==
  ASSUME MiniInv, NEW i \in Ids, SetRaises(i) PROVE MiniInv'
<1>1. /\ docs' = [docs EXCEPT ![i] = Unserialisable] /\ step' = "idle" /\ step = "idle"
      /\ undeleted' = undeleted \ {i}
      /\ UNCHANGED <<index, snapshot, wal, entry, unindexed>>
  BY DEF SetRaises, Begin, disk
<1>2. docs \in [Ids -> Data \cup {None, Unserialisable}] /\ undeleted \in SUBSET Ids
  BY DEF MiniInv, MiniShapes, DiskShapes
<1>3. docs' \in [Ids -> Data \cup {None, Unserialisable}]
  BY <1>1, <1>2
<1>4. MiniShapes'
  BY <1>1, <1>3 DEF MiniInv, MiniShapes, DiskShapes
<1>5. docs'[i] = Unserialisable /\ \A j \in Ids : j # i => docs'[j] = docs[j]
  BY <1>1, <1>2
<1>6. Refused' = Refused \cup {i}
  BY <1>5 DEF Refused
<1>7. MemoryAndDisk'
  <2>1. /\ \A j \in Ids \ (Refused \cup undeleted) : docs[j] = Amount(Held, wal)[j]
        /\ \A j \in undeleted : docs[j] = None
        /\ Amount(Held, wal)' = Amount(Held, wal)
    BY <1>1 DEF MiniInv, MemoryAndDisk, Held, Amount, LinesAbout
  <2>2. \A j \in Ids \ (Refused' \cup undeleted') : docs'[j] = Amount(Held, wal)'[j]
    BY <1>1, <1>5, <1>6, <2>1
  <2>3. \A j \in undeleted' : docs'[j] = None
    BY <1>1, <1>2, <1>5, <2>1
  <2> QED
    BY <1>1, <2>2, <2>3 DEF MemoryAndDisk
<1>8. SearchFindsAll'
  <2>1. Unserialisable \notin Data
    BY MiniDBAssumption
  <2> QED
    BY <1>1, <1>5, <2>1 DEF MiniInv, SearchFindsAll
<1> QED
  BY <1>4, <1>7, <1>8 DEF MiniInv

LEMMA DeleteKeepsDocs ==
  ASSUME MiniInv, NEW i \in Ids, Delete(i) PROVE MiniInv'
<1>1. /\ docs' = [docs EXCEPT ![i] = None] /\ entry' = DeleteEntry(i) /\ step' = "append"
      /\ index' = [w \in Words |-> {j \in Ids : w \in WordsOf(docs'[j])}]
      /\ step = "idle" /\ snapshot' = snapshot /\ wal' = wal
      /\ undeleted' = undeleted \ {i} /\ unindexed' = {}
  BY DEF Delete, Begin, disk, Rebuilt
<1>2. docs \in [Ids -> Data \cup {None, Unserialisable}] /\ undeleted \in SUBSET Ids
  BY DEF MiniInv, MiniShapes, DiskShapes
<1>3. docs' \in [Ids -> Data \cup {None, Unserialisable}] /\ index' \in [Words -> SUBSET Ids]
  BY <1>1, <1>2
<1>4. /\ DeleteEntry(i) \in LogEntries /\ DeleteEntry(i).id = i /\ LeftBy(DeleteEntry(i)) = None
  BY DEF DeleteEntry, LogEntries, LeftBy
<1>5. MiniShapes'
  BY <1>1, <1>2, <1>3, <1>4 DEF MiniInv, MiniShapes, DiskShapes
<1>6. docs'[i] = None /\ \A j \in Ids : j # i => docs'[j] = docs[j]
  BY <1>1, <1>2
<1>7. MemoryAndDisk'
  <2>1. /\ \A j \in Ids \ (Refused \cup undeleted) : docs[j] = Amount(Held, wal)[j]
        /\ \A j \in undeleted : docs[j] = None
        /\ Amount(Held, wal)' = Amount(Held, wal)
    BY <1>1 DEF MiniInv, MemoryAndDisk, Held, Amount, LinesAbout
  <2>2. Refused' \cup {i} = Refused \cup {i}
    BY <1>6 DEF Refused
  <2>3. \A j \in Ids \ (Refused' \cup undeleted') : j # i => docs'[j] = Amount(Held, wal)'[j]
    BY <1>1, <1>6, <2>1, <2>2
  <2>4. \A j \in undeleted' : docs'[j] = None
    BY <1>1, <1>2, <1>6, <2>1
  <2> QED
    BY <1>1, <1>4, <1>6, <2>3, <2>4 DEF MemoryAndDisk
<1>8. SearchFindsAll'
  <2> SUFFICES ASSUME NEW j \in Ids, NEW w \in Words \ Escaped,
                      docs'[j] \in Data, <<w, "clear">> \in docs'[j]
               PROVE  j \in index'[w]
    BY DEF SearchFindsAll
  <2>1. w \in WordsOf(docs'[j])
    BY ClearWordsAreFound
  <2> QED
    BY <1>1, <2>1
<1> QED
  BY <1>5, <1>7, <1>8 DEF MiniInv

LEMMA DeleteRaisesKeepsDocs ==
  ASSUME MiniInv, NEW i \in Ids, DeleteRaises(i) PROVE MiniInv'
<1>1. /\ docs' = [docs EXCEPT ![i] = None] /\ step' = "idle" /\ step = "idle"
      /\ undeleted' = undeleted \cup {i}
      /\ UNCHANGED <<snapshot, wal, entry>>
  BY DEF DeleteRaises, Begin, disk
<1>2. PICK before \in SUBSET {j \in Ids : docs'[j] \in Data} :
        /\ index' = [w \in Words |-> {j \in before : w \in WordsOf(docs'[j])}]
        /\ unindexed' = {j \in Ids : docs'[j] \in Data} \ before
  BY DEF DeleteRaises
<1>3. docs \in [Ids -> Data \cup {None, Unserialisable}] /\ undeleted \in SUBSET Ids
  BY DEF MiniInv, MiniShapes, DiskShapes
<1>4. docs' \in [Ids -> Data \cup {None, Unserialisable}]
  BY <1>1, <1>3
<1>5. index' \in [Words -> SUBSET Ids] /\ unindexed' \in SUBSET Ids
  BY <1>2
<1>6. MiniShapes'
  BY <1>1, <1>3, <1>4, <1>5 DEF MiniInv, MiniShapes, DiskShapes
<1>7. docs'[i] = None /\ \A j \in Ids : j # i => docs'[j] = docs[j]
  BY <1>1, <1>3
<1>8. MemoryAndDisk'
  <2>1. /\ \A j \in Ids \ (Refused \cup undeleted) : docs[j] = Amount(Held, wal)[j]
        /\ \A j \in undeleted : docs[j] = None
        /\ Amount(Held, wal)' = Amount(Held, wal)
    BY <1>1 DEF MiniInv, MemoryAndDisk, Held, Amount, LinesAbout
  <2>2. Refused' \cup {i} = Refused \cup {i}
    BY <1>7 DEF Refused
  <2>3. \A j \in Ids \ (Refused' \cup undeleted') : docs'[j] = Amount(Held, wal)'[j]
    BY <1>1, <1>7, <2>1, <2>2
  <2>4. \A j \in undeleted' : docs'[j] = None
    BY <1>1, <1>3, <1>7, <2>1
  <2> QED
    BY <1>1, <2>3, <2>4 DEF MemoryAndDisk
<1>9. SearchFindsAll'
  <2> SUFFICES ASSUME NEW j \in Ids \ unindexed', NEW w \in Words \ Escaped,
                      docs'[j] \in Data, <<w, "clear">> \in docs'[j]
               PROVE  j \in index'[w]
    BY DEF SearchFindsAll
  <2>1. w \in WordsOf(docs'[j])
    BY ClearWordsAreFound
  <2>2. j \in before
    BY <1>2
  <2> QED
    BY <1>2, <2>1, <2>2
<1> QED
  BY <1>6, <1>8, <1>9 DEF MiniInv

LEMMA WritesKeepDocs ==
  ASSUME MiniInv, AppendWal \/ Compact \/ Clear \/ SaveSnapshot \/ Truncate PROVE MiniInv'
<1>1. CASE AppendWal
  <2>1. /\ wal' = Append(wal, entry) /\ step' = "idle" /\ entry' = Torn /\ step = "append"
        /\ UNCHANGED <<docs, index, snapshot, undeleted, unindexed>>
    BY <1>1 DEF AppendWal, memory, raised
  <2>2. wal \in Seq(LogEntries) /\ entry \in LogEntries /\ Held \in Docs
    BY <2>1, LoadedIsAmount DEF MiniInv, MiniShapes, DiskShapes
  <2>3. wal' \in Seq(LogEntries) /\ Held' = Held
    BY <2>1, <2>2 DEF Held
  <2>4. Amount(Held, wal') = [Amount(Held, wal) EXCEPT ![entry.id] = LeftBy(entry)]
    BY <2>1, <2>2, AmountOfAppended
  <2>5. MiniShapes'
    BY <2>1, <2>3 DEF MiniInv, MiniShapes, DiskShapes
  <2>6. MemoryAndDisk'
    <3>1. Amount(Held, wal) \in Docs /\ entry.id \in Ids
      BY <2>2, AmountIsDocs, EntriesAreWhole
    <3>2. \A i \in Ids : Amount(Held, wal')[i] = IF i = entry.id THEN LeftBy(entry) ELSE Amount(Held, wal)[i]
      BY <2>4, <3>1 DEF Docs
    <3>3. /\ docs[entry.id] = LeftBy(entry)
          /\ \A i \in Ids \ (Refused \cup undeleted) : i # entry.id => docs[i] = Amount(Held, wal)[i]
          /\ \A i \in undeleted : docs[i] = None
      BY <2>1 DEF MiniInv, MemoryAndDisk
    <3>4. Refused' = Refused /\ Amount(Held, wal)' = Amount(Held, wal')
      BY <2>1, <2>3 DEF Refused, Amount, LinesAbout
    <3> QED
      BY <2>1, <3>2, <3>3, <3>4 DEF MemoryAndDisk
  <2> QED
    BY <2>1, <2>5, <2>6 DEF MiniInv, SearchFindsAll
<1>2. CASE Compact
  <2>1. /\ UNCHANGED <<docs, index, snapshot, wal, entry, undeleted, unindexed>>
        /\ Refused = {} /\ step = "idle" /\ step' = "compact"
    BY <1>2 DEF Compact, Begin, memory, disk, raised
  <2>2. Refused' = Refused /\ Amount(Held, wal)' = Amount(Held, wal)
    BY <2>1 DEF Refused, Amount, LinesAbout, Held
  <2>3. MemoryAndDisk'
    BY <2>1, <2>2 DEF MiniInv, MemoryAndDisk
  <2> QED
    BY <2>1, <2>3 DEF MiniInv, MiniShapes, DiskShapes, SearchFindsAll
<1>3. CASE Clear
  <2>1. /\ docs' = Empty /\ index' = [w \in Words |-> {}] /\ step' = "clear" /\ step = "idle"
        /\ undeleted' = {} /\ unindexed' = {} /\ UNCHANGED <<snapshot, wal, entry>>
    BY <1>3 DEF Clear, Begin, disk
  <2>2. MiniShapes'
    BY <2>1, EmptyIsDocs DEF MiniInv, MiniShapes, DiskShapes, Docs
  <2>3. MemoryAndDisk'
    BY <2>1 DEF MemoryAndDisk
  <2>4. \A i \in Ids : docs'[i] \notin Data
    BY <2>1, EmptyIsDocs DEF Empty
  <2> QED
    BY <2>2, <2>3, <2>4 DEF MiniInv, SearchFindsAll
<1>4. CASE SaveSnapshot
  <2>1. /\ snapshot' = docs /\ UNCHANGED <<docs, index, wal, entry, undeleted, unindexed>>
        /\ \/ step = "compact" /\ step' = "truncate"
           \/ step = "clear" /\ step' = "clear_wal"
    BY <1>4 DEF SaveSnapshot, memory, raised
  <2>2. docs \in Docs /\ wal \in Seq(LogEntries) /\ Held \in Docs
    <3>1. step = "compact" => Refused = {}
      BY DEF MiniInv, MemoryAndDisk
    <3>2. step = "clear" => docs = Empty
      BY DEF MiniInv, MemoryAndDisk
    <3>3. docs \in Docs
      BY <2>1, <3>1, <3>2, EmptyIsDocs, DocsAreDocs DEF MiniInv
    <3> QED
      BY <3>3, LoadedIsAmount DEF MiniInv, MiniShapes, DiskShapes
  <2>3. docs # Torn
    BY <2>2, TornAssumption DEF Docs
  <2>4. Held' = docs
    BY <2>1, <2>3 DEF Held
  <2>5. MiniShapes'
    BY <2>1, <2>2 DEF MiniInv, MiniShapes, DiskShapes
  <2>6. CASE step = "compact"
    <3>1. /\ Refused = {} /\ \A i \in undeleted : docs[i] = None
          /\ \A i \in Ids \ undeleted : docs[i] = Amount(Held, wal)[i]
      BY <2>6 DEF MiniInv, MemoryAndDisk
    <3>2. \A i \in Ids \ undeleted : Amount(docs, wal)[i] = docs[i]
      BY <3>1 DEF Amount
    <3>3. Refused' = {} /\ Amount(Held, wal)' = Amount(docs, wal)
      BY <2>1, <2>4, <3>1 DEF Refused, Amount, LinesAbout
    <3>4. MemoryAndDisk'
      BY <2>1, <2>6, <3>1, <3>2, <3>3 DEF MemoryAndDisk
    <3> QED
      BY <2>1, <2>5, <3>4 DEF MiniInv, SearchFindsAll
  <2>7. CASE step = "clear"
    <3>1. MemoryAndDisk'
      BY <2>1, <2>7 DEF MiniInv, MemoryAndDisk
    <3> QED
      BY <2>1, <2>5, <3>1 DEF MiniInv, SearchFindsAll
  <2> QED
    BY <2>1, <2>6, <2>7
<1>5. CASE Truncate
  <2>1. /\ wal' = <<>> /\ step' = "idle" /\ step \in {"truncate", "clear_wal"} /\ undeleted' = {}
        /\ UNCHANGED <<docs, index, snapshot, entry, unindexed>>
    BY <1>5 DEF Truncate, memory
  <2>2. docs = snapshot /\ docs \in Docs /\ wal' \in Seq(LogEntries)
    <3>1. docs = snapshot
      BY <2>1 DEF MiniInv, MemoryAndDisk
    <3>2. step = "truncate" => Refused = {}
      BY DEF MiniInv, MemoryAndDisk
    <3>3. step = "clear_wal" => docs = Empty
      BY DEF MiniInv, MemoryAndDisk
    <3>4. docs \in Docs
      BY <2>1, <3>2, <3>3, EmptyIsDocs, DocsAreDocs DEF MiniInv
    <3> QED
      BY <2>1, <3>1, <3>4
  <2>3. Held' = docs
    BY <2>1, <2>2, TornAssumption DEF Held, Docs
  <2>4. Amount(Held', wal') = docs
    BY <2>1, <2>2, <2>3, AmountOfNothing
  <2>5. MiniShapes'
    BY <2>1, <2>2 DEF MiniInv, MiniShapes, DiskShapes
  <2>6. MemoryAndDisk'
    BY <2>1, <2>4 DEF MemoryAndDisk
  <2> QED
    BY <2>1, <2>5, <2>6 DEF MiniInv, SearchFindsAll
<1> QED
  BY <1>1, <1>2, <1>3, <1>4, <1>5

\* A start finds every word of every document it loads: what was indexed before the
\* last delete is indexed again with it, and every later set adds its words.
LEMMA LoadedIndexFindsAll ==
  DiskShapes => \A i \in Ids, w \in Words : w \in WordsOf(Loaded[i]) => i \in LoadedIndex[w]
<1> SUFFICES ASSUME DiskShapes, NEW i \in Ids, NEW w \in Words, w \in WordsOf(Loaded[i])
             PROVE  i \in LoadedIndex[w]
  OBVIOUS
<1>1. PICK n \in Nat : n = Len(wal) /\ DOMAIN wal = 1..n
  BY DEF MiniShapes, DiskShapes
<1>2. PICK r : r = LastRebuild
  OBVIOUS
<1>3. Readable = 1..n /\ wal \in Seq(LogEntries)
  BY <1>1, LoadedIsAmount DEF MiniShapes, DiskShapes
<1>4. r \in Nat
  <2> DEFINE deletes == {k \in Readable : wal[k].op = "delete"}
  <2>1. CASE deletes = {}
    BY <1>2, <2>1 DEF LastRebuild
  <2>2. CASE deletes # {}
    <3>1. LastOf(deletes) \in deletes
      BY <1>3, <2>2, LastIsThere
    <3>2. r = LastOf(deletes)
      BY <1>2, <2>2 DEF LastRebuild, LastOf
    <3> QED
      BY <1>3, <3>1, <3>2
  <2> QED
    BY <2>1, <2>2
<1>5. Loaded = Amount(Held, wal)
  BY LoadedIsAmount
<1>6. PICK L : L = LinesAbout(wal, i)
  OBVIOUS
<1>7. L \in SUBSET (1..n) /\ L = {k \in 1..n : wal[k].id = i}
  BY <1>1, <1>6 DEF LinesAbout
<1>8. PICK early : early = {k \in Readable : k <= r /\ wal[k].id = i}
  OBVIOUS
<1>9. early = {k \in L : k <= r}
  BY <1>3, <1>7, <1>8
<1>10. Replayed(r)[i] = IF early = {} THEN Held[i] ELSE LeftBy(wal[LastOf(early)])
  BY <1>8 DEF Replayed, FromSnapshot, Held, LastOf, LeftBy
<1>11. Loaded[i] = IF L = {} THEN Held[i] ELSE LeftBy(wal[LastOf(L)])
  BY <1>5, <1>6 DEF Amount
<1>12. \/ w \in WordsOf(Replayed(r)[i])
       \/ \E k \in Readable : k > r /\ wal[k].id = i /\ w \in WordsOf(wal[k].data)
  <2>1. CASE L = {}
    BY <1>9, <1>10, <1>11, <2>1
  <2>2. CASE L # {}
    <3>1. PICK k : k = LastOf(L)
      OBVIOUS
    <3>2. k \in L /\ \A m \in L : m <= k
      BY <1>7, <2>2, <3>1, LastIsThere
    <3>3. w \in WordsOf(LeftBy(wal[k])) /\ k \in 1..n /\ wal[k].id = i
      BY <1>7, <1>11, <2>2, <3>1, <3>2
    <3>4. CASE k <= r
      <4>1. early = L
        BY <1>4, <1>7, <1>9, <3>2, <3>4
      <4> QED
        BY <1>10, <2>2, <3>1, <3>3, <4>1
    <3>5. CASE k > r
      <4>1. wal[k] \in LogEntries
        BY <1>1, <1>3, <3>3
      <4>2. w \in WordsOf(wal[k].data)
        BY <3>3, <4>1, EntriesAreWhole, EmptyIsDocs DEF WordsOf, LeftBy
      <4> QED
        BY <1>3, <3>3, <3>5, <4>2
    <3> QED
      BY <1>4, <1>7, <3>3, <3>4, <3>5
  <2> QED
    BY <2>1, <2>2
<1> QED
  BY <1>2, <1>12 DEF LoadedIndex

LEMMA LoadsAfterwards ==
  /\ DiskShapes' => Loaded' = Amount(Held, wal)' /\ Held' \in Docs
  /\ DiskShapes' => \A i \in Ids, w \in Words : w \in WordsOf(Loaded'[i]) => i \in LoadedIndex'[w]
<1>1. DiskShapes' => (Readable = DOMAIN wal /\ Loaded = Amount(Held, wal) /\ Held \in Docs)'
  BY LoadedIsAmount, PTL
<1>2. DiskShapes' => (\A i \in Ids, w \in Words : w \in WordsOf(Loaded[i]) => i \in LoadedIndex[w])'
  BY LoadedIndexFindsAll, PTL
<1> QED
  BY <1>1, <1>2

LEMMA RestartKeepsDocs ==
  ASSUME MiniInv, "wal" \notin TornWrites, Restart PROVE MiniInv'
<1>1. /\ docs' = Loaded' /\ index' = LoadedIndex' /\ step' = "idle" /\ entry' = Torn
      /\ wal' = wal /\ (snapshot' = snapshot \/ snapshot' = Torn)
      /\ undeleted' = {} /\ unindexed' = {}
  BY DEF Restart, DiskAfterCrash, disk
<1>2. DiskShapes'
  BY <1>1 DEF MiniInv, MiniShapes, DiskShapes
<1>3. Loaded' = Amount(Held, wal)' /\ Loaded' = Amount(Held', wal') /\ Held' \in Docs
  BY <1>2, LoadsAfterwards DEF Amount
<1>4. docs' \in Docs
  BY <1>1, <1>2, <1>3, AmountIsDocs DEF DiskShapes
<1>5. index' \in [Words -> SUBSET Ids]
  BY <1>1 DEF LoadedIndex
<1>6. MiniShapes'
  <2>1. docs' \in [Ids -> Data \cup {None, Unserialisable}]
    BY <1>4 DEF Docs
  <2> QED
    BY <1>1, <1>2, <1>5, <2>1 DEF MiniShapes
<1>7. MemoryAndDisk'
  BY <1>1, <1>3 DEF MemoryAndDisk
<1>8. SearchFindsAll'
  <2> SUFFICES ASSUME NEW j \in Ids, NEW w \in Words \ Escaped,
                      docs'[j] \in Data, <<w, "clear">> \in docs'[j]
               PROVE  j \in index'[w]
    BY DEF SearchFindsAll
  <2>1. w \in WordsOf(Loaded'[j])
    BY <1>1, ClearWordsAreFound
  <2> QED
    BY <1>1, <1>2, <2>1, LoadsAfterwards
<1> QED
  BY <1>6, <1>7, <1>8 DEF MiniInv

LEMMA MiniStep == MiniInv /\ "wal" \notin TornWrites /\ [Next]_vars => MiniInv'
<1> SUFFICES ASSUME MiniInv, "wal" \notin TornWrites, [Next]_vars PROVE MiniInv'
  OBVIOUS
<1>1. CASE UNCHANGED vars
  <2>1. UNCHANGED <<docs, index, snapshot, wal, step, entry, undeleted, unindexed>>
    BY <1>1 DEF vars, memory, disk, raised
  <2>2. Refused' = Refused /\ Amount(Held, wal)' = Amount(Held, wal)
    BY <2>1 DEF Refused, Amount, LinesAbout, Held
  <2> QED
    BY <2>1, <2>2 DEF MiniInv, MiniShapes, DiskShapes, MemoryAndDisk, SearchFindsAll
<1> QED
  BY <1>1, SetKeepsDocs, SetRaisesKeepsDocs, DeleteKeepsDocs, DeleteRaisesKeepsDocs,
     WritesKeepDocs, RestartKeepsDocs DEF Next

LEMMA MiniHasTypes == MiniInv => TypeOK
<1> SUFFICES ASSUME MiniInv PROVE TypeOK
  OBVIOUS
<1>1. \A k \in DOMAIN wal : wal[k] \in LogEntries
  BY DEF MiniInv, MiniShapes, DiskShapes
<1> QED
  BY <1>1, EntriesAreWhole DEF MiniInv, MiniShapes, DiskShapes, Docs, TypeOK

\* Types of the document store, as long as no crash cuts a line of its log.
THEOREM DocumentTypes == ASSUME "wal" \notin TornWrites PROVE Spec => []TypeOK
<1>1. "wal" \notin TornWrites
  OBVIOUS
<1> QED
  BY <1>1, MiniHasTypes, MiniInitially, MiniStep, PTL DEF Spec

\* Between operations get returns what the next start loads, and search finds every
\* document that has the word, for any documents, operations and crashes, with the
\* exceptions that the parts name (calls that raised, words that json.dumps writes
\* another way), as long as no crash cuts a line of the log: a snapshot may be left
\* half written.
THEOREM AnswersSurvive == ASSUME "wal" \notin TornWrites PROVE Spec => []AnswersAreDurable
<1>1. MiniInv => AnswersAreDurable
  BY LoadedIsAmount DEF MiniInv, MiniShapes, MemoryAndDisk, AnswersAreDurable, ReadsAreDurable
<1>2. "wal" \notin TornWrites
  OBVIOUS
<1> QED
  BY <1>1, <1>2, MiniInitially, MiniStep, PTL DEF Spec

-----------------------------------------------------------------------------
(***************************************************************************)
(* The refinement of the document map.                                     *)
(***************************************************************************)
Clearing == step \in {"clear", "clear_wal"}

MapUnmoved == UNCHANGED <<Loaded, Clearing, undeleted>>

\* Deletes that raised are undone for good, or come to nothing.
LEMMA NothingSettles ==
  ASSUME Loaded \in Docs, Loaded' = Loaded, Clearing' = Clearing, undeleted' \subseteq undeleted
  PROVE  Map!Next
<1>1. Map!Without({}) = Loaded
  BY DEF Map!Without, Docs
<1>2. Map!Settle({}) /\ {} \in SUBSET Ids
  BY <1>1 DEF Map!Settle, Clearing
<1> QED
  BY <1>2 DEF Map!Next

\* An operation takes effect where its entry is appended, a clear where its snapshot
\* is written and where the log is emptied, a delete that raised where a compaction
\* writes the snapshot or empties the log.
LEMMA WritesAreMapped ==
  ASSUME MiniInv, MiniInv', TornWrites = {}, Next
  PROVE  Map!Next \/ MapUnmoved
<1>1. /\ Loaded = Amount(Held, wal) /\ Loaded' = Amount(Held', wal') /\ Held \in Docs /\ Held' \in Docs
      /\ wal \in Seq(LogEntries)
  <2>1. DiskShapes /\ DiskShapes'
    BY DEF MiniInv, MiniShapes
  <2> QED
    BY <2>1, LoadedIsAmount, LoadsAfterwards DEF Amount, DiskShapes
<1>2. Loaded \in Docs
  BY <1>1, AmountIsDocs
<1>3. UNCHANGED disk => Loaded' = Loaded
  BY <1>1 DEF disk, Held, Amount
<1>4. ASSUME NEW i \in Ids, Delete(i) \/ SetRaises(i) \/ \E d \in Data : Set(i, d) PROVE Map!Next
  <2>1. UNCHANGED disk /\ Clearing' = Clearing /\ undeleted' \subseteq undeleted
    BY <1>4 DEF Delete, Set, SetRaises, Begin, disk, Clearing
  <2> QED
    BY <1>2, <1>3, <2>1, NothingSettles
<1>5. ASSUME NEW i \in Ids, DeleteRaises(i) PROVE Map!Next
  <2>1. UNCHANGED disk /\ Clearing' = Clearing /\ undeleted' = undeleted \cup {i}
    BY <1>5 DEF DeleteRaises, Begin, disk, Clearing
  <2>2. Map!DeleteRaises(i)
    BY <1>3, <2>1 DEF Map!DeleteRaises, Clearing
  <2> QED
    BY <2>2 DEF Map!Next
<1>6. CASE AppendWal
  <2>1. /\ wal' = Append(wal, entry) /\ Held' = Held /\ entry \in LogEntries /\ ~ Clearing /\ ~ Clearing'
        /\ undeleted' = undeleted
    BY <1>6 DEF AppendWal, Held, Clearing, MiniInv, MiniShapes, raised
  <2>2. Loaded' = [Loaded EXCEPT ![entry.id] = LeftBy(entry)]
    BY <1>1, <2>1, AmountOfAppended
  <2>3. entry.id \in Ids /\ (entry.op = "set" => entry.data \in Data) /\ entry.op \in {"set", "delete"}
    BY <2>1, EntriesAreWhole
  <2>4. CASE entry.op = "set"
    <3>1. Map!Set(entry.id, entry.data)
      BY <2>1, <2>2, <2>4 DEF Map!Set, LeftBy, Clearing
    <3> QED
      BY <2>3, <2>4, <3>1 DEF Map!Next
  <2>5. CASE entry.op = "delete"
    <3>1. Map!Delete(entry.id)
      BY <2>1, <2>2, <2>5 DEF Map!Delete, LeftBy, Clearing
    <3> QED
      BY <2>3, <3>1 DEF Map!Next
  <2> QED
    BY <2>3, <2>4, <2>5
<1>7. CASE Compact
  BY <1>3, <1>7 DEF Compact, Begin, disk, raised, Clearing, MapUnmoved
<1>8. CASE Clear
  <2>1. Map!BeginClear
    BY <1>3, <1>8 DEF Clear, Begin, disk, Clearing, Map!BeginClear
  <2> QED
    BY <2>1 DEF Map!Next
<1>9. CASE SaveSnapshot
  <2>1. /\ wal' = wal /\ snapshot' = docs /\ undeleted' = undeleted
        /\ \/ step = "compact" /\ step' = "truncate"
           \/ step = "clear" /\ step' = "clear_wal"
    BY <1>9 DEF SaveSnapshot, raised
  <2>2. snapshot' = docs /\ docs # Torn
    <3>1. step' \in {"truncate", "clear_wal"} /\ UNCHANGED docs
      BY <1>9 DEF SaveSnapshot, memory
    <3>2. (snapshot' = Torn \/ snapshot' \in Docs)
      BY DEF MiniInv, MiniShapes, DiskShapes
    <3>3. step = "compact" => docs \in Docs
      BY DocsAreDocs DEF MiniInv, MemoryAndDisk
    <3>4. step = "clear" => docs \in Docs
      BY EmptyIsDocs DEF MiniInv, MemoryAndDisk
    <3> QED
      BY <2>1, <3>3, <3>4, TornAssumption DEF Docs
  <2>3. Held' = docs
    BY <2>2 DEF Held
  <2> DEFINE bare == {i \in Ids : LinesAbout(wal, i) = {}}
  <2>4. \A i \in Ids : Loaded'[i] = IF i \in bare THEN docs[i] ELSE Loaded[i]
    BY <1>1, <2>1, <2>3 DEF Amount
  <2>5. Loaded' = [i \in Ids |-> Loaded'[i]]
    BY <1>1 DEF Amount
  <2>6. CASE step = "compact"
    <3>1. /\ \A i \in Ids \ undeleted : docs[i] = Loaded[i]
          /\ \A i \in undeleted : docs[i] = None
      BY <1>1, <2>6 DEF MiniInv, MemoryAndDisk
    <3>2. Loaded' = Map!Without(undeleted \cap bare)
      <4>1. \A i \in Ids : Loaded'[i] = IF i \in undeleted \cap bare THEN None ELSE Loaded[i]
        BY <2>4, <3>1
      <4> QED
        BY <2>5, <4>1 DEF Map!Without
    <3>3. Map!Settle(undeleted \cap bare)
      BY <2>1, <2>6, <3>2 DEF Map!Settle, Clearing
    <3> QED
      BY <3>3 DEF Map!Next
  <2>7. CASE step = "clear"
    <3>1. docs = Empty
      BY <2>7 DEF MiniInv, MemoryAndDisk
    <3>2. Loaded' = Map!Without(bare)
      <4>1. \A i \in Ids : Loaded'[i] = IF i \in bare THEN None ELSE Loaded[i]
        BY <2>4, <3>1 DEF Empty
      <4> QED
        BY <2>5, <4>1 DEF Map!Without
    <3>3. Map!Forget(bare)
      BY <2>1, <2>7, <3>2 DEF Map!Forget, Clearing
    <3> QED
      BY <3>3 DEF Map!Next
  <2> QED
    BY <2>1, <2>6, <2>7
<1>10. CASE Truncate
  <2>1. /\ wal' = <<>> /\ snapshot' = snapshot /\ step' = "idle" /\ step \in {"truncate", "clear_wal"}
        /\ undeleted' = {} /\ docs' = docs
    BY <1>10 DEF Truncate, memory
  <2>2. docs = snapshot /\ docs \in Docs
    <3>1. step = "truncate" => docs \in Docs
      BY DocsAreDocs DEF MiniInv, MemoryAndDisk
    <3>2. step = "clear_wal" => docs \in Docs
      BY EmptyIsDocs DEF MiniInv, MemoryAndDisk
    <3> QED
      BY <2>1, <3>1, <3>2 DEF MiniInv, MemoryAndDisk
  <2>3. Held' = docs
    BY <2>1, <2>2, TornAssumption DEF Held, Docs
  <2>4. Loaded' = docs
    BY <1>1, <2>1, <2>3, <2>2, AmountOfNothing
  <2>5. CASE step = "truncate"
    <3>1. \A i \in Ids : docs[i] = IF i \in undeleted THEN None ELSE Loaded[i]
      BY <1>1, <2>5 DEF MiniInv, MemoryAndDisk
    <3>2. docs = Map!Without(undeleted)
      BY <2>2, <3>1 DEF Map!Without, Docs
    <3>3. Map!Settle(undeleted) /\ undeleted \in SUBSET Ids
      BY <2>1, <2>4, <2>5, <3>2 DEF Map!Settle, Clearing, MiniInv, MiniShapes
    <3> QED
      BY <3>3 DEF Map!Next
  <2>6. CASE step = "clear_wal"
    <3>1. Loaded' = Empty /\ undeleted' = undeleted
      BY <2>1, <2>4, <2>6 DEF MiniInv, MemoryAndDisk
    <3>2. Map!EndClear
      BY <2>1, <2>6, <3>1 DEF Map!EndClear, Map!Without, Empty, Clearing
    <3> QED
      BY <3>2 DEF Map!Next
  <2> QED
    BY <2>1, <2>5, <2>6
<1>11. CASE Restart
  <2>1. Loaded' = Loaded /\ step' = "idle" /\ undeleted' = {}
    BY <1>3, <1>11 DEF Restart, DiskAfterCrash
  <2>2. CASE Clearing
    <3>1. undeleted = {}
      BY <2>2 DEF MiniInv, MemoryAndDisk, Clearing
    <3>2. Map!CutShort
      BY <2>1, <2>2, <3>1 DEF Map!CutShort, Clearing
    <3> QED
      BY <3>2 DEF Map!Next
  <2>3. CASE ~ Clearing
    <3>1. Clearing' = Clearing
      BY <2>1, <2>3 DEF Clearing
    <3> QED
      BY <1>2, <2>1, <3>1, NothingSettles
  <2> QED
    BY <2>2, <2>3
<1> QED
  BY <1>4, <1>5, <1>6, <1>7, <1>8, <1>9, <1>10, <1>11 DEF Next

\* What is on disk is a map of documents that outlives the process: neither a
\* compaction nor a crash between two writes loses, brings back or mixes up documents
\* (minidb), for any documents and any number of operations and crashes.
THEOREM DiskIsMap == ASSUME TornWrites = {} PROVE Spec => ImplementsMap
<1>1. Init => Map!Init
  <2> SUFFICES ASSUME Init PROVE Map!Init
    OBVIOUS
  <2>1. Loaded = Empty
    <3>1. DiskShapes /\ Held = Empty /\ wal = <<>>
      BY EmptyIsDocs DEF Init, DiskShapes, Held
    <3> QED
      BY <3>1, LoadedIsAmount, AmountOfNothing
  <2> QED
    BY <2>1 DEF Map!Init, Init, Empty
<1>2. MiniInv /\ MiniInv' /\ TornWrites = {} /\ [Next]_vars
        => [Map!Next]_(Map!mapVars)
  <2> SUFFICES ASSUME MiniInv, MiniInv', TornWrites = {}, [Next]_vars
               PROVE  Map!Next \/ MapUnmoved
    BY DEF Clearing, MapUnmoved, Map!mapVars
  <2>1. CASE UNCHANGED vars
    <3>1. Loaded = Amount(Held, wal) /\ Loaded' = Amount(Held', wal')
      BY LoadedIsAmount, LoadsAfterwards DEF Amount, MiniInv, MiniShapes
    <3> QED
      BY <2>1, <3>1 DEF vars, memory, disk, raised, Held, Amount, Clearing, MapUnmoved
  <2> QED
    BY <2>1, WritesAreMapped
<1>3. "wal" \notin TornWrites /\ TornWrites = {}
  OBVIOUS
<1>4. MiniInv /\ TornWrites = {} /\ [Next]_vars => MiniInv'
  BY MiniStep
<1> QED
  BY <1>1, <1>2, <1>3, <1>4, MiniInitially, PTL DEF Spec, ImplementsMap, Map!Spec

-----------------------------------------------------------------------------
(***************************************************************************)
(* The transcript.  The list is the log, but for the line that is being    *)
(* written; and an append that iterates has called every subscription      *)
(* behind its slot that is still there, and none ahead of it.              *)
(***************************************************************************)
Lines == Entry \cup {CutLine}
NoCutIn(log) == \A k \in DOMAIN log : log[k] # CutLine
IsFirstCut(log, c) ==
  c \in DOMAIN log /\ log[c] = CutLine /\ \A k \in 1..(c - 1) : log[k] # CutLine

ParsedOf(log) ==
  LET cuts == {k \in DOMAIN log : log[k] = CutLine} IN
  IF cuts = {} THEN log
  ELSE SubSeq(log, 1, (CHOOSE k \in cuts : \A m \in cuts : k <= m) - 1)

BatchesUp(list) == \A i, k \in DOMAIN list : i < k => list[i].batch < list[k].batch

LargestOf(b, list) ==
  LET all == {b} \cup {list[k].batch : k \in DOMAIN list} IN
  CHOOSE n \in all : \A m \in all : m <= n

Writing == under # <<>> /\ Top.step = "write"

\* The list is the log, and one entry more while its line is not yet written.
ListIsLog ==
  /\ Writing => entries # <<>>
  /\ NoCutIn(wireLog) => IF Writing THEN \E e \in Entry : entries = Append(wireLog, e)
                         ELSE entries = wireLog
  /\ BatchesUp(ParsedOf(wireLog))

\* The callback of a subscription was given entry n.
Has(list, n) == \E k \in DOMAIN list : list[k] = n

\* An append f under way after n appends, with subscriptions taken of those
\* there were, and with what their callbacks were told.
FrameFits(f, n, places, taken, heard) ==
  /\ f.nr <= n /\ f.owed \subseteq places /\ (f.step = "write" => f.next = 1)
  /\ \A i \in 1..MaxSlots : i >= f.next => ~ Has(heard[i], f.nr)
  /\ \A i \in f.owed \cap taken : i < f.next => Has(heard[i], f.nr)

FrameOK(f) == FrameFits(f, appends, DOMAIN slots, Taken, notified)

TranscriptInv ==
  /\ TranscriptTypeOK
  /\ ListIsLog
  /\ BatchesAscend
  /\ NotifiedOnce
  /\ \A i \in 1..MaxSlots : \A k \in DOMAIN notified[i] : notified[i][k] <= appends
  /\ \A k \in DOMAIN under : FrameOK(under[k])
  /\ \A j, k \in DOMAIN under : j < k => under[j].nr < under[k].nr

LEMMA ItemsAreIn ==
  ASSUME NEW S, NEW q \in Seq(S) PROVE \A i \in DOMAIN q : q[i] \in S
OBVIOUS

LEMMA CutLineIsNoEntry == \A e \in Entry : e # CutLine /\ e.batch \in Nat /\ e.nr \in 1..MaxEntries
  BY DEF Entry, CutLine

LEMMA FirstCutExists ==
  ASSUME NEW log \in Seq(Lines), ~ NoCutIn(log) PROVE \E c : IsFirstCut(log, c)
<1> DEFINE cuts == {k \in DOMAIN log : log[k] = CutLine}
<1>1. PICK n \in Nat : n = Len(log) /\ DOMAIN log = 1..n
  OBVIOUS
<1>2. cuts \in SUBSET Nat /\ cuts # {}
  BY <1>1 DEF NoCutIn
<1>3. PICK c \in cuts : \A m \in cuts : c <= m
  BY <1>2, LeastNumber
<1>4. c \in 1..n /\ log[c] = CutLine
  BY <1>1, <1>3
<1>5. ASSUME NEW k \in 1..(c - 1) PROVE log[k] # CutLine
  <2> SUFFICES ASSUME log[k] = CutLine PROVE FALSE
    OBVIOUS
  <2>1. k \in 1..n
    BY <1>4
  <2>2. k \in cuts
    BY <1>1, <2>1
  <2> QED
    BY <1>3, <1>4, <2>2
<1> QED
  BY <1>1, <1>4, <1>5 DEF IsFirstCut

LEMMA ParsedBeforeCut ==
  ASSUME NEW log \in Seq(Lines), NEW c, IsFirstCut(log, c)
  PROVE  ParsedOf(log) = SubSeq(log, 1, c - 1)
<1> DEFINE cuts == {k \in DOMAIN log : log[k] = CutLine}
<1>1. PICK n \in Nat : n = Len(log) /\ DOMAIN log = 1..n
  OBVIOUS
<1>2. c \in cuts /\ c \in 1..n
  BY <1>1 DEF IsFirstCut
<1>3. \A m \in cuts : c <= m
  <2> SUFFICES ASSUME NEW m \in cuts, ~ (c <= m) PROVE FALSE
    OBVIOUS
  <2>1. m \in 1..n /\ log[m] = CutLine
    BY <1>1
  <2>2. m \in 1..(c - 1)
    BY <1>2, <2>1
  <2> QED
    BY <2>1, <2>2 DEF IsFirstCut
<1>4. ASSUME NEW k \in cuts, \A m \in cuts : k <= m PROVE k = c
  <2>1. k \in 1..n /\ k <= c /\ c <= k
    BY <1>1, <1>2, <1>3, <1>4
  <2> QED
    BY <1>2, <2>1
<1>5. (CHOOSE k \in cuts : \A m \in cuts : k <= m) = c
  BY <1>2, <1>3, <1>4
<1>6. cuts # {}
  BY <1>2
<1>7. ParsedOf(log) = IF cuts = {} THEN log
                      ELSE SubSeq(log, 1, (CHOOSE k \in cuts : \A m \in cuts : k <= m) - 1)
  BY DEF ParsedOf
<1> QED
  BY <1>5, <1>6, <1>7

LEMMA ParsedWhole == ASSUME NEW log, NoCutIn(log) PROVE ParsedOf(log) = log
  BY DEF ParsedOf, NoCutIn

\* What is parsed is a beginning of the log, of whole entries.
LEMMA ParsedIsPrefix ==
  ASSUME NEW log \in Seq(Lines)
  PROVE  /\ ParsedOf(log) \in Seq(Entry) /\ Len(ParsedOf(log)) <= Len(log)
         /\ \A k \in 1..Len(ParsedOf(log)) : ParsedOf(log)[k] = log[k]
<1>1. PICK n \in Nat : n = Len(log) /\ DOMAIN log = 1..n
  OBVIOUS
<1>2. \A k \in 1..n : log[k] \in Entry \/ log[k] = CutLine
  BY <1>1 DEF Lines
<1>3. CASE NoCutIn(log)
  <2>1. \A k \in 1..n : log[k] \in Entry
    BY <1>1, <1>2, <1>3 DEF NoCutIn
  <2>2. log \in [1..n -> Entry]
    BY <1>1, <2>1
  <2>3. log \in Seq(Entry)
    BY <1>1, <2>2
  <2> QED
    BY <1>1, <1>3, <2>3, ParsedWhole
<1>4. CASE ~ NoCutIn(log)
  <2>1. PICK c : IsFirstCut(log, c)
    BY <1>4, FirstCutExists
  <2>2. c \in 1..n /\ \A k \in 1..(c - 1) : log[k] # CutLine /\ k \in 1..n
    BY <1>1, <2>1 DEF IsFirstCut
  <2>3. PICK q : q = SubSeq(log, 1, c - 1)
    OBVIOUS
  <2>4. q = [k \in 1..(c - 1) |-> log[k]] /\ Len(q) = c - 1
    BY <1>1, <2>2, <2>3
  <2>5. q \in [1..(c - 1) -> Entry]
    BY <1>2, <2>2, <2>4
  <2>6. q \in Seq(Entry)
    BY <2>2, <2>5
  <2>7. ParsedOf(log) = q
    BY <2>1, <2>3, ParsedBeforeCut
  <2>8. Len(q) <= n /\ \A k \in 1..Len(q) : q[k] = log[k]
    BY <2>2, <2>4
  <2> QED
    BY <1>1, <2>6, <2>7, <2>8
<1> QED
  BY <1>3, <1>4

\* One line more is parsed if it is whole and no line was cut before.
ParsedNext(log, x) ==
  /\ Append(log, x) \in Seq(Lines)
  /\ ~ NoCutIn(log) => ~ NoCutIn(Append(log, x)) /\ ParsedOf(Append(log, x)) = ParsedOf(log)
  /\ NoCutIn(log) /\ x # CutLine => NoCutIn(Append(log, x))
  /\ NoCutIn(log) /\ x = CutLine => ~ NoCutIn(Append(log, x)) /\ ParsedOf(Append(log, x)) = log

LEMMA ParsedOfAppended ==
  ASSUME NEW log \in Seq(Lines), NEW x \in Lines PROVE ParsedNext(log, x)
<1>1. PICK n \in Nat : n = Len(log) /\ DOMAIN log = 1..n
  OBVIOUS
<1>2. PICK q : q = Append(log, x)
  OBVIOUS
<1>3. /\ q \in Seq(Lines) /\ DOMAIN q = 1..(n + 1) /\ Len(q) = n + 1 /\ q[n + 1] = x
      /\ \A k \in 1..n : q[k] = log[k] /\ k \in 1..(n + 1)
  BY <1>1, <1>2
<1>4. \A k \in 1..(n + 1) : k \in 1..n \/ k = n + 1
  OBVIOUS
<1>5. ASSUME ~ NoCutIn(log) PROVE ~ NoCutIn(q) /\ ParsedOf(q) = ParsedOf(log)
  <2>1. PICK c : IsFirstCut(log, c)
    BY <1>5, FirstCutExists
  <2>2. c \in 1..n /\ log[c] = CutLine /\ \A k \in 1..(c - 1) : log[k] # CutLine
    BY <1>1, <2>1 DEF IsFirstCut
  <2>3. \A k \in 1..(c - 1) : k \in 1..n
    BY <2>2
  <2>4. IsFirstCut(q, c)
    BY <1>3, <2>2, <2>3 DEF IsFirstCut
  <2>5. SubSeq(q, 1, c - 1) = [k \in 1..(c - 1) |-> q[k]] /\ SubSeq(log, 1, c - 1) = [k \in 1..(c - 1) |-> log[k]]
    BY <1>1, <1>3, <2>2
  <2>6. SubSeq(q, 1, c - 1) = SubSeq(log, 1, c - 1)
    BY <1>3, <2>3, <2>5
  <2> QED
    BY <1>3, <2>1, <2>4, <2>6, ParsedBeforeCut DEF IsFirstCut, NoCutIn
<1>6. ASSUME NoCutIn(log), x # CutLine PROVE NoCutIn(q)
  BY <1>1, <1>3, <1>4, <1>6 DEF NoCutIn
<1>7. ASSUME NoCutIn(log), x = CutLine PROVE ~ NoCutIn(q) /\ ParsedOf(q) = log
  <2>1. IsFirstCut(q, n + 1)
    <3>1. (n + 1) - 1 = n /\ n + 1 \in 1..(n + 1)
      OBVIOUS
    <3> QED
      BY <1>1, <1>3, <1>7, <3>1 DEF IsFirstCut, NoCutIn
  <2>2. SubSeq(q, 1, n) = [k \in 1..n |-> q[k]]
    BY <1>3
  <2>3. log = [k \in 1..n |-> log[k]]
    BY <1>1
  <2>4. SubSeq(q, 1, (n + 1) - 1) = log
    <3>1. (n + 1) - 1 = n
      OBVIOUS
    <3> QED
      BY <1>3, <2>2, <2>3, <3>1
  <2> QED
    BY <1>3, <2>1, <2>4, ParsedBeforeCut DEF IsFirstCut, NoCutIn
<1> QED
  BY <1>2, <1>3, <1>5, <1>6, <1>7 DEF ParsedNext

LEMMA LargestIsThere ==
  ASSUME NEW b \in Nat, NEW list \in Seq(Entry), BatchesUp(list)
  PROVE  /\ LargestOf(b, list) \in Nat /\ b <= LargestOf(b, list)
         /\ \A k \in DOMAIN list : list[k].batch <= LargestOf(b, list)
<1> DEFINE all == {b} \cup {list[k].batch : k \in DOMAIN list}
<1>1. PICK n \in Nat : n = Len(list) /\ DOMAIN list = 1..n
  OBVIOUS
<1>2. \A k \in 1..n : list[k].batch \in Nat
  BY <1>1, CutLineIsNoEntry
<1>3. all \in SUBSET Nat
  BY <1>1, <1>2
<1>4. \E x \in all : \A m \in all : m <= x
  <2>1. CASE n = 0
    BY <1>1, <2>1
  <2>2. CASE n # 0
    <3>1. n \in 1..n /\ list[n].batch \in Nat
      BY <1>2, <2>2
    <3>2. \A k \in 1..n : list[k].batch <= list[n].batch
      <4> SUFFICES ASSUME NEW k \in 1..n PROVE list[k].batch <= list[n].batch
        OBVIOUS
      <4>1. k = n \/ k < n
        OBVIOUS
      <4> QED
        BY <1>1, <1>2, <3>1, <4>1 DEF BatchesUp
    <3>3. CASE b <= list[n].batch
      BY <1>1, <3>1, <3>2, <3>3
    <3>4. CASE ~ (b <= list[n].batch)
      <4>1. \A k \in 1..n : list[k].batch <= b
        BY <1>2, <3>1, <3>2, <3>4
      <4> QED
        BY <1>1, <4>1
    <3> QED
      BY <3>3, <3>4
  <2> QED
    BY <2>1, <2>2
<1>5. LargestOf(b, list) \in all /\ \A m \in all : m <= LargestOf(b, list)
  <2>1. LargestOf(b, list) = CHOOSE x \in all : \A m \in all : m <= x
    BY DEF LargestOf
  <2> HIDE DEF all
  <2> QED
    BY <1>4, <2>1
<1> QED
  BY <1>1, <1>3, <1>5

LEMMA TopIsFrame ==
  ASSUME TranscriptInv, under # <<>>
  PROVE  /\ Len(under) \in Nat /\ Len(under) \in DOMAIN under /\ DOMAIN under = 1..Len(under)
         /\ Top = under[Len(under)] /\ Top \in Appending /\ FrameOK(Top)
         /\ \A k \in 1..(Len(under) - 1) : under[k] \in Appending /\ under[k].step = "called"
                                           /\ under[k].nr < Top.nr
<1>1. under \in Seq(Appending) /\ \A k \in 1..(Len(under) - 1) : under[k].step = "called"
  BY DEF TranscriptInv, TranscriptTypeOK
<1>2. /\ Len(under) \in Nat /\ Len(under) # 0 /\ DOMAIN under = 1..Len(under)
      /\ \A k \in 1..Len(under) : under[k] \in Appending
  BY <1>1
<1>3. Len(under) \in 1..Len(under) /\ \A k \in 1..(Len(under) - 1) : k \in 1..Len(under) /\ k < Len(under)
  BY <1>2
<1> QED
  BY <1>1, <1>2, <1>3 DEF Top, TranscriptInv

\* A step that replaces the innermost append by f.
LEMMA TopReplaced ==
  ASSUME TranscriptInv, under # <<>>, NEW f \in Appending
  PROVE  /\ WithTop(f) \in Seq(Appending) /\ Len(WithTop(f)) = Len(under)
         /\ DOMAIN WithTop(f) = 1..Len(under) /\ WithTop(f) # <<>>
         /\ WithTop(f)[Len(under)] = f
         /\ \A k \in 1..(Len(under) - 1) : WithTop(f)[k] = under[k]
<1>1. PICK n \in Nat : n = Len(under) /\ n \in 1..n /\ DOMAIN under = 1..n
  BY TopIsFrame
<1>2. under \in Seq(Appending)
  BY DEF TranscriptInv, TranscriptTypeOK
<1>3. PICK q : q = WithTop(f)
  OBVIOUS
<1>4. q = [under EXCEPT ![n] = f]
  BY <1>1, <1>3 DEF WithTop
<1>5. q \in Seq(Appending) /\ Len(q) = n /\ DOMAIN q = 1..n
  <2> HIDE DEF Appending
  <2> QED
    BY <1>1, <1>2, <1>4
<1>6. q[n] = f /\ \A k \in 1..(n - 1) : q[k] = under[k]
  BY <1>1, <1>4
<1>7. q # <<>>
  BY <1>1, <1>5
<1> QED
  BY <1>1, <1>3, <1>5, <1>6, <1>7

LEMMA TranscriptInitially == TranscriptInit => TranscriptInv
<1> SUFFICES ASSUME TranscriptInit PROVE TranscriptInv
  OBVIOUS
<1>1. entries = <<>> /\ batch = 0 /\ wireLog = <<>> /\ slots = <<>> /\ under = <<>> /\ appends = 0 /\ halts = 0
  BY DEF TranscriptInit
<1>2. \A i \in 1..MaxSlots : notified[i] = <<>>
  BY DEF TranscriptInit
<1>3. TranscriptTypeOK
  <2>1. notified \in [1..MaxSlots -> Seq(1..MaxEntries)]
    <3>1. <<>> \in Seq(1..MaxEntries)
      OBVIOUS
    <3> QED
      BY <3>1 DEF TranscriptInit
  <2>2. 0 \in 0..MaxEntries /\ 0 \in 0..MaxHalts /\ Len(<<>>) <= MaxSlots
    BY TranscriptAssumption
  <2> QED
    BY <1>1, <2>1, <2>2 DEF TranscriptTypeOK
<1>4. ListIsLog
  <2>1. NoCutIn(<<>>) /\ BatchesUp(<<>>)
    BY DEF NoCutIn, BatchesUp
  <2> QED
    BY <1>1, <2>1, ParsedWhole DEF ListIsLog, Writing
<1>5. BatchesAscend
  BY <1>1 DEF BatchesAscend
<1>6. NotifiedOnce /\ \A i \in 1..MaxSlots : \A k \in DOMAIN notified[i] : notified[i][k] <= appends
  BY <1>2 DEF NotifiedOnce
<1> QED
  BY <1>1, <1>3, <1>4, <1>5, <1>6 DEF TranscriptInv

LEMMA AppendEntryKeeps == ASSUME TranscriptInv, AppendEntry PROVE TranscriptInv'
<1> DEFINE new == [step |-> "write", nr |-> appends + 1, next |-> 1, size |-> 0, owed |-> {}]
           e == [batch |-> batch + 1, nr |-> appends + 1]
<1>1. /\ appends' = appends + 1 /\ batch' = batch + 1 /\ entries' = Append(entries, e)
      /\ under' = Append(under, new) /\ Callable /\ appends < MaxEntries
      /\ UNCHANGED <<wireLog, slots, notified, halts>>
  BY DEF AppendEntry
<1>2. /\ entries \in Seq(Entry) /\ batch \in Nat /\ appends \in Nat /\ MaxEntries \in Nat /\ MaxSlots \in Nat
      /\ under \in Seq(Appending)
  BY TranscriptAssumption DEF TranscriptInv, TranscriptTypeOK
<1>3. e \in Entry /\ new \in Appending /\ appends + 1 \in 1..MaxEntries /\ e.batch = batch + 1
  BY <1>1, <1>2 DEF Entry, Appending
<1>4. new.step = "write" /\ new.nr = appends + 1 /\ new.next = 1 /\ new.owed = {}
  OBVIOUS
<1>5. PICK m \in Nat : m = Len(entries) /\ DOMAIN entries = 1..m
  BY <1>2
<1>6. PICK n \in Nat : n = Len(under) /\ DOMAIN under = 1..n
  BY <1>2
<1> HIDE DEF new, e
<1>7. /\ entries' \in Seq(Entry) /\ DOMAIN entries' = 1..(m + 1) /\ entries'[m + 1] = e
      /\ \A k \in 1..m : entries'[k] = entries[k]
  BY <1>1, <1>2, <1>3, <1>5
<1>8. /\ under' \in Seq(Appending) /\ DOMAIN under' = 1..(n + 1) /\ Len(under') = n + 1
      /\ under'[n + 1] = new /\ \A k \in 1..n : under'[k] = under[k]
  <2> HIDE DEF Appending
  <2> QED
    BY <1>1, <1>2, <1>3, <1>6
<1>9. \A k \in 1..(n + 1) : k \in 1..n \/ k = n + 1
  OBVIOUS
<1>10. \A k \in 1..n : under[k].step = "called" /\ under[k].nr <= appends /\ under[k].nr \in Nat
  <2> SUFFICES ASSUME NEW k \in 1..n PROVE under[k].step = "called" /\ under[k].nr <= appends /\ under[k].nr \in Nat
    OBVIOUS
  <2>1. under # <<>>
    BY <1>6
  <2>2. k \in 1..(n - 1) \/ k = n
    OBVIOUS
  <2>3. Top.step = "called" /\ Top = under[n]
    BY <1>1, <1>6, <2>1 DEF Callable, Top
  <2>4. under[k].step = "called"
    BY <1>6, <2>1, <2>2, <2>3, TopIsFrame
  <2>5. under[k] \in Appending /\ FrameOK(under[k])
    BY <1>2, <1>6 DEF TranscriptInv
  <2>6. under[k].nr \in 1..MaxEntries
    BY <2>5 DEF Appending
  <2> QED
    BY <2>4, <2>5, <2>6 DEF FrameOK, FrameFits
<1>11. TranscriptTypeOK'
  <2>1. \A k \in 1..(Len(under') - 1) : under'[k].step = "called"
    <3>1. Len(under') - 1 = n
      BY <1>8
    <3> QED
      BY <1>8, <1>10, <3>1
  <2> QED
    BY <1>1, <1>2, <1>3, <1>7, <1>8, <2>1 DEF TranscriptInv, TranscriptTypeOK
<1>12. ListIsLog'
  <2>1. ~ Writing
    BY <1>1 DEF Writing, Callable
  <2>2. entries' # <<>> /\ Writing'
    <3>1. under' # <<>> /\ Top' = new
      BY <1>8 DEF Top
    <3> QED
      BY <1>4, <1>7, <3>1 DEF Writing
  <2>3. NoCutIn(wireLog) => entries = wireLog
    BY <2>1 DEF TranscriptInv, ListIsLog
  <2> QED
    BY <1>1, <1>3, <2>2, <2>3 DEF TranscriptInv, ListIsLog, NoCutIn
<1>13. BatchesAscend'
  <2>1. \A k \in 1..m : entries[k].batch <= batch /\ entries[k].batch \in Nat
    <3>1. \A k \in 1..m : entries[k] \in Entry
      BY <1>2, <1>5
    <3> QED
      BY <1>5, <3>1, CutLineIsNoEntry DEF TranscriptInv, BatchesAscend
  <2>2. \A k \in 1..(m + 1) : k \in 1..m \/ k = m + 1
    OBVIOUS
  <2>3. \A i, k \in 1..m : i < k => entries[i].batch < entries[k].batch
    BY <1>5 DEF TranscriptInv, BatchesAscend
  <2>4. ASSUME NEW i \in 1..(m + 1), NEW k \in 1..(m + 1), i < k
        PROVE  entries'[i].batch < entries'[k].batch
    <3>1. i \in 1..m
      BY <2>4
    <3>2. CASE k = m + 1
      BY <1>2, <1>3, <1>7, <2>1, <3>1, <3>2
    <3>3. CASE k \in 1..m
      BY <1>7, <2>3, <2>4, <3>1, <3>3
    <3> QED
      BY <2>2, <3>2, <3>3
  <2>5. ASSUME NEW k \in 1..(m + 1) PROVE entries'[k].batch <= batch'
    BY <1>1, <1>2, <1>3, <1>7, <2>1, <2>2
  <2> QED
    BY <1>7, <2>4, <2>5 DEF BatchesAscend
<1>14. \A i \in 1..MaxSlots : \A k \in DOMAIN notified[i] : notified[i][k] \in Nat /\ notified[i][k] <= appends
  <2>1. \A i \in 1..MaxSlots : notified[i] \in Seq(1..MaxEntries)
    BY DEF TranscriptInv, TranscriptTypeOK
  <2>2. ASSUME NEW i \in 1..MaxSlots, NEW k \in DOMAIN notified[i] PROVE notified[i][k] \in Nat
    <3>1. notified[i][k] \in 1..MaxEntries
      BY <2>1, ItemsAreIn
    <3> QED
      BY <3>1
  <2> QED
    BY <2>2 DEF TranscriptInv
<1>15. NotifiedOnce' /\ \A i \in 1..MaxSlots : \A k \in DOMAIN notified'[i] : notified'[i][k] <= appends'
  <2>1. NotifiedOnce'
    BY <1>1 DEF TranscriptInv, NotifiedOnce
  <2>2. ASSUME NEW i \in 1..MaxSlots, NEW k \in DOMAIN notified[i] PROVE notified[i][k] <= appends + 1
    BY <1>2, <1>14
  <2> QED
    BY <1>1, <2>1, <2>2
<1>16. \A k \in DOMAIN under' : FrameFits(under'[k], appends', DOMAIN slots', Taken', notified')
  <2>1. \A k \in 1..n : FrameFits(under[k], appends', DOMAIN slots', Taken', notified')
    <3> SUFFICES ASSUME NEW k \in 1..n PROVE FrameFits(under[k], appends', DOMAIN slots', Taken', notified')
      OBVIOUS
    <3>1. FrameOK(under[k])
      BY <1>6 DEF TranscriptInv
    <3>2. Taken' = Taken
      BY <1>1 DEF Taken
    <3>3. under[k].nr <= appends'
      BY <1>1, <1>2, <1>10
    <3> QED
      BY <1>1, <3>1, <3>2, <3>3 DEF FrameOK, FrameFits
  <2>2. FrameFits(new, appends', DOMAIN slots', Taken', notified')
    <3>1. ASSUME NEW i \in 1..MaxSlots PROVE ~ Has(notified[i], appends + 1)
      BY <1>2, <1>14 DEF Has
    <3> QED
      BY <1>1, <1>2, <1>4, <3>1 DEF FrameFits
  <2> QED
    BY <1>8, <1>9, <2>1, <2>2
<1>17. \A j, k \in DOMAIN under' : j < k => under'[j].nr < under'[k].nr
  <2> SUFFICES ASSUME NEW j \in 1..(n + 1), NEW k \in 1..(n + 1), j < k PROVE under'[j].nr < under'[k].nr
    BY <1>8
  <2>1. j \in 1..n
    OBVIOUS
  <2>2. CASE k = n + 1
    BY <1>2, <1>4, <1>8, <1>10, <2>1, <2>2
  <2>3. CASE k \in 1..n
    BY <1>6, <1>8, <2>1, <2>3 DEF TranscriptInv
  <2> QED
    BY <1>9, <2>2, <2>3
<1> QED
  BY <1>11, <1>12, <1>13, <1>15, <1>16, <1>17 DEF TranscriptInv, FrameOK

\* The appends under way after the innermost moved to f, and the others stayed.
FramesFit ==
  /\ under \in Seq(Appending)
  /\ \A k \in 1..(Len(under) - 1) : under[k].step = "called"
  /\ \A k \in DOMAIN under : FrameOK(under[k])
  /\ \A j, k \in DOMAIN under : j < k => under[j].nr < under[k].nr

LEMMA TopMoves ==
  ASSUME TranscriptInv, under # <<>>, NEW f \in Appending, f.nr = Top.nr, under' = WithTop(f),
         FrameFits(f, appends', DOMAIN slots', Taken', notified'), \A k \in 1..(Len(under) - 1) : FrameFits(under[k], appends', DOMAIN slots', Taken', notified')
  PROVE  FramesFit' /\ under' # <<>> /\ Top' = f
<1>1. PICK n \in Nat : n = Len(under) /\ n \in 1..n /\ DOMAIN under = 1..n /\ Top = under[n]
  BY TopIsFrame
<1>2. /\ under' \in Seq(Appending) /\ Len(under') = n /\ DOMAIN under' = 1..n /\ under' # <<>>
      /\ under'[n] = f /\ \A k \in 1..(n - 1) : under'[k] = under[k]
  BY <1>1, TopReplaced
<1>3. Top' = f
  BY <1>2 DEF Top
<1>4. \A k \in 1..n : k \in 1..(n - 1) \/ k = n
  OBVIOUS
<1>5. \A k \in 1..n : under'[k].nr = under[k].nr
  BY <1>1, <1>2, <1>4
<1>6. \A k \in 1..(n - 1) : under'[k].step = "called"
  BY <1>1, <1>2, TopIsFrame
<1>7. \A k \in 1..n : FrameFits(under'[k], appends', DOMAIN slots', Taken', notified')
  BY <1>1, <1>2, <1>4
<1>8. \A j, k \in 1..n : j < k => under'[j].nr < under'[k].nr
  BY <1>1, <1>5 DEF TranscriptInv
<1> QED
  BY <1>2, <1>3, <1>6, <1>7, <1>8 DEF FramesFit, FrameOK

\* A frame stays as it is in order while what it refers to stays.
LEMMA FrameStays ==
  ASSUME NEW f, FrameOK(f), appends' = appends, slots' = slots, notified' = notified
  PROVE  FrameFits(f, appends', DOMAIN slots', Taken', notified')
BY DEF FrameOK, FrameFits, Taken

LEMMA TakenCounts ==
  ASSUME TranscriptInv
  PROVE  /\ Taken \in SUBSET (1..MaxSlots) /\ Cardinality(Taken) \in 0..MaxSlots
         /\ DOMAIN slots = 1..Len(slots) /\ Len(slots) \in 0..MaxSlots
<1>1. slots \in Seq(BOOLEAN) /\ Len(slots) <= MaxSlots /\ MaxSlots \in Nat
  BY TranscriptAssumption DEF TranscriptInv, TranscriptTypeOK
<1>2. DOMAIN slots = 1..Len(slots) /\ Len(slots) \in 0..MaxSlots
  BY <1>1
<1>3. Taken \in SUBSET (1..MaxSlots)
  BY <1>1, <1>2 DEF Taken
<1>4. IsFiniteSet(1..MaxSlots) /\ Cardinality(1..MaxSlots) = MaxSlots
  BY <1>1, FS_Interval
<1>5. Cardinality(Taken) \in Nat /\ Cardinality(Taken) <= MaxSlots
  BY <1>3, <1>4, FS_Subset, FS_CardinalityType
<1> QED
  BY <1>1, <1>2, <1>3, <1>5

LEMMA WriteLineKeeps == ASSUME TranscriptInv, WriteLine PROVE TranscriptInv'
<1> DEFINE f == [Top EXCEPT !.step = "notify", !.size = Cardinality(Taken), !.owed = Taken]
<1>1. /\ under # <<>> /\ Top.step = "write" /\ wireLog' = Append(wireLog, entries[Len(entries)])
      /\ under' = WithTop(f) /\ UNCHANGED <<entries, batch, slots, notified, appends, halts>>
  BY DEF WriteLine
<1>2. Top \in Appending /\ FrameOK(Top)
  BY <1>1, TopIsFrame
<1>3. Taken \in SUBSET (1..MaxSlots) /\ Cardinality(Taken) \in 0..MaxSlots
  BY TakenCounts
<1>4. f \in Appending /\ f.nr = Top.nr /\ f.step = "notify" /\ f.next = Top.next
  BY <1>2, <1>3 DEF Appending
<1>5. FrameFits(f, appends', DOMAIN slots', Taken', notified')
  <2>1. \A i \in 1..MaxSlots : ~ (i < f.next)
    BY <1>1, <1>2, <1>4 DEF FrameOK, FrameFits
  <2>2. f.nr <= appends' /\ f.step # "write"
    BY <1>1, <1>2, <1>4 DEF FrameOK, FrameFits
  <2>3. \A i \in 1..MaxSlots : i >= f.next => ~ Has(notified[i], f.nr)
    BY <1>2, <1>4 DEF FrameOK, FrameFits
  <2>4. f.owed = Taken /\ Taken \subseteq DOMAIN slots'
    BY <1>1, <1>2, <1>3 DEF Taken, Appending
  <2> HIDE DEF f
  <2> QED
    BY <1>1, <1>3, <2>1, <2>2, <2>3, <2>4 DEF FrameFits
<1>6. \A k \in 1..(Len(under) - 1) : FrameFits(under[k], appends', DOMAIN slots', Taken', notified')
  <2> SUFFICES ASSUME NEW k \in 1..(Len(under) - 1) PROVE FrameFits(under[k], appends', DOMAIN slots', Taken', notified')
    OBVIOUS
  <2>1. FrameOK(under[k])
    <3>1. k \in DOMAIN under
      BY <1>1, TopIsFrame
    <3> QED
      BY <3>1 DEF TranscriptInv
  <2> QED
    BY <1>1, <2>1 DEF FrameOK, FrameFits, Taken
<1> HIDE DEF f
<1>7. FramesFit' /\ under' # <<>> /\ Top' = f
  BY <1>1, <1>4, <1>5, <1>6, TopMoves
<1>8. Writing /\ ~ Writing'
  BY <1>1, <1>4, <1>7 DEF Writing
<1>9. wireLog \in Seq(Lines) /\ entries \in Seq(Entry)
  BY DEF TranscriptInv, TranscriptTypeOK, Lines
<1>10. entries # <<>> /\ entries[Len(entries)] \in Entry
  BY <1>8, <1>9 DEF TranscriptInv, ListIsLog
<1>11. PICK x : x = entries[Len(entries)] /\ x \in Lines /\ x # CutLine
  BY <1>10, CutLineIsNoEntry DEF Lines
<1>12. wireLog' = Append(wireLog, x) /\ ParsedNext(wireLog, x)
  BY <1>1, <1>9, <1>11, ParsedOfAppended
<1>13. TranscriptTypeOK'
  BY <1>1, <1>7, <1>12 DEF TranscriptInv, TranscriptTypeOK, FramesFit, ParsedNext, Lines
<1>14. ListIsLog'
  <2>1. CASE NoCutIn(wireLog)
    <3>1. PICK e \in Entry : entries = Append(wireLog, e)
      BY <1>8, <2>1 DEF TranscriptInv, ListIsLog
    <3>2. x = e
      BY <1>9, <1>11, <3>1
    <3>3. entries' = wireLog' /\ NoCutIn(wireLog')
      BY <1>1, <1>11, <1>12, <2>1, <3>1, <3>2 DEF ParsedNext
    <3>4. ParsedOf(wireLog') = entries
      BY <1>1, <3>3, ParsedWhole
    <3>5. BatchesUp(entries)
      BY DEF TranscriptInv, BatchesAscend, BatchesUp
    <3> QED
      BY <1>8, <3>3, <3>4, <3>5 DEF ListIsLog
  <2>2. CASE ~ NoCutIn(wireLog)
    <3>1. ~ NoCutIn(wireLog') /\ ParsedOf(wireLog') = ParsedOf(wireLog)
      BY <1>12, <2>2 DEF ParsedNext
    <3> QED
      BY <1>8, <3>1 DEF TranscriptInv, ListIsLog
  <2> QED
    BY <2>1, <2>2
<1>15. BatchesAscend' /\ NotifiedOnce'
       /\ \A i \in 1..MaxSlots : \A k \in DOMAIN notified'[i] : notified'[i][k] <= appends'
  BY <1>1 DEF TranscriptInv, BatchesAscend, NotifiedOnce
<1> QED
  BY <1>7, <1>13, <1>14, <1>15 DEF TranscriptInv, FramesFit

\* The steps of an iteration leave the list, the log and the slots alone.
LEMMA IterationKeeps ==
  ASSUME TranscriptInv, ~ Writing, ~ Writing', FramesFit',
         notified' \in [1..MaxSlots -> Seq(1..MaxEntries)], NotifiedOnce',
         \A i \in 1..MaxSlots : \A k \in DOMAIN notified'[i] : notified'[i][k] <= appends',
         UNCHANGED <<entries, batch, wireLog, slots, appends, halts>>
  PROVE  TranscriptInv'
<1>1. TranscriptTypeOK'
  BY DEF TranscriptInv, TranscriptTypeOK, FramesFit
<1>2. ListIsLog'
  <2>1. ParsedOf(wireLog') = ParsedOf(wireLog)
    OBVIOUS
  <2> QED
    BY <2>1 DEF TranscriptInv, ListIsLog
<1>3. BatchesAscend'
  BY DEF TranscriptInv, BatchesAscend
<1> QED
  BY <1>1, <1>2, <1>3 DEF TranscriptInv, FramesFit

LEMMA NotifyOneKeeps == ASSUME TranscriptInv, NotifyOne PROVE TranscriptInv'
<1>1. PICK i : /\ i = CHOOSE n \in Ahead(Top.next) : \A j \in Ahead(Top.next) : n <= j
               /\ notified' = [notified EXCEPT ![i] = Append(@, Top.nr)]
               /\ under' = WithTop([Top EXCEPT !.step = "called", !.next = i + 1])
  BY DEF NotifyOne
<1>2. /\ under # <<>> /\ Top.step = "notify" /\ Ahead(Top.next) # {}
      /\ UNCHANGED <<entries, batch, wireLog, slots, appends, halts>>
  BY DEF NotifyOne
<1>3. /\ Top \in Appending /\ FrameOK(Top)
      /\ \A k \in 1..(Len(under) - 1) : under[k] \in Appending /\ under[k].nr < Top.nr /\ k \in DOMAIN under
  BY <1>2, TopIsFrame
<1>4. Ahead(Top.next) \in SUBSET Nat /\ Ahead(Top.next) \in SUBSET (1..MaxSlots)
  BY TakenCounts DEF Ahead
<1>5. i \in Ahead(Top.next) /\ \A j \in Ahead(Top.next) : i <= j
  <2>1. PICK j \in Ahead(Top.next) : \A l \in Ahead(Top.next) : j <= l
    BY <1>2, <1>4, LeastNumber
  <2> QED
    BY <1>1, <2>1
<1>6. i \in Taken /\ i \in 1..MaxSlots /\ i >= Top.next
  BY <1>4, <1>5 DEF Ahead
<1> DEFINE f == [Top EXCEPT !.step = "called", !.next = i + 1]
<1>7. f \in Appending /\ f.nr = Top.nr /\ f.step = "called" /\ f.next = i + 1 /\ f.owed = Top.owed
  <2>1. i + 1 \in 1..(MaxSlots + 1)
    BY <1>6, TranscriptAssumption
  <2> QED
    BY <1>3, <2>1 DEF Appending
<1> HIDE DEF f
<1>8. Top.nr \in 1..MaxEntries /\ Top.next \in Nat /\ Top.owed \in SUBSET (1..MaxSlots) /\ i \in Nat
  BY <1>3, <1>6 DEF Appending
<1>9. notified \in [1..MaxSlots -> Seq(1..MaxEntries)] /\ notified[i] \in Seq(1..MaxEntries)
  BY <1>6 DEF TranscriptInv, TranscriptTypeOK
<1>10. PICK m \in Nat : m = Len(notified[i]) /\ DOMAIN notified[i] = 1..m
  BY <1>9
<1>11. PICK q : q = Append(notified[i], Top.nr)
  OBVIOUS
<1>12. /\ q \in Seq(1..MaxEntries) /\ DOMAIN q = 1..(m + 1) /\ q[m + 1] = Top.nr
       /\ \A k \in 1..m : q[k] = notified[i][k] /\ k \in 1..(m + 1)
       /\ \A k \in 1..(m + 1) : k \in 1..m \/ k = m + 1
  BY <1>8, <1>9, <1>10, <1>11
<1>13. notified' \in [1..MaxSlots -> Seq(1..MaxEntries)] /\ notified'[i] = q
       /\ \A j \in 1..MaxSlots : j # i => notified'[j] = notified[j]
  BY <1>1, <1>6, <1>9, <1>11, <1>12
<1>14. ~ Has(notified[i], Top.nr)
  BY <1>3, <1>6 DEF FrameOK, FrameFits
<1>15. NotifiedOnce'
  <2> SUFFICES ASSUME NEW j \in 1..MaxSlots, NEW k \in DOMAIN notified'[j], NEW l \in DOMAIN notified'[j],
                      notified'[j][k] = notified'[j][l]
               PROVE  k = l
    BY DEF NotifiedOnce
  <2>1. CASE j # i
    BY <1>13, <2>1 DEF TranscriptInv, NotifiedOnce
  <2>2. CASE j = i
    <3>1. k \in 1..(m + 1) /\ l \in 1..(m + 1) /\ q[k] = q[l]
      BY <1>12, <1>13, <2>2
    <3>2. \A n \in 1..m : q[n] # Top.nr
      BY <1>10, <1>12, <1>14 DEF Has
    <3>3. CASE k \in 1..m /\ l \in 1..m
      BY <1>6, <1>10, <1>12, <3>1, <3>3 DEF TranscriptInv, NotifiedOnce
    <3> QED
      BY <1>12, <3>1, <3>2, <3>3
  <2> QED
    BY <2>1, <2>2
<1>16. \A j \in 1..MaxSlots : \A k \in DOMAIN notified'[j] : notified'[j][k] <= appends'
  <2> SUFFICES ASSUME NEW j \in 1..MaxSlots, NEW k \in DOMAIN notified'[j]
               PROVE  notified'[j][k] <= appends
    BY <1>2
  <2>1. CASE j # i
    BY <1>13, <2>1 DEF TranscriptInv
  <2>2. CASE j = i
    <3>1. k \in 1..(m + 1) /\ notified'[j][k] = q[k]
      BY <1>12, <1>13, <2>2
    <3>2. CASE k = m + 1
      BY <1>3, <1>12, <3>1, <3>2 DEF FrameOK, FrameFits
    <3>3. CASE k \in 1..m
      BY <1>6, <1>10, <1>12, <3>1, <3>3 DEF TranscriptInv
    <3> QED
      BY <1>12, <3>1, <3>2, <3>3
  <2> QED
    BY <2>1, <2>2
<1>17. ASSUME NEW j \in 1..MaxSlots, NEW n PROVE Has(notified'[j], n) <=> (Has(notified[j], n) \/ (j = i /\ n = Top.nr))
  <2>1. CASE j # i
    BY <1>13, <2>1
  <2>2. CASE j = i
    BY <1>10, <1>12, <1>13, <2>2 DEF Has
  <2> QED
    BY <2>1, <2>2
<1>18. Taken' = Taken
  BY <1>2 DEF Taken
<1>19. FrameFits(f, appends', DOMAIN slots', Taken', notified')
  <2>1. f.nr <= appends' /\ f.step # "write" /\ f.owed \subseteq DOMAIN slots'
    BY <1>2, <1>3, <1>7 DEF FrameOK, FrameFits
  <2>2. ASSUME NEW j \in 1..MaxSlots, j >= f.next PROVE ~ Has(notified'[j], f.nr)
    <3>1. j # i /\ j >= Top.next
      BY <1>6, <1>7, <1>8, <2>2
    <3> QED
      BY <1>3, <1>7, <1>17, <3>1 DEF FrameOK, FrameFits
  <2>3. ASSUME NEW j \in f.owed \cap Taken, j < f.next PROVE Has(notified'[j], f.nr)
    <3>1. j \in 1..MaxSlots /\ j \in Taken /\ j \in Top.owed
      BY <1>7, <1>8
    <3>2. CASE j = i
      BY <1>7, <1>17, <3>1, <3>2
    <3>3. CASE j # i
      <4>1. j < i
        BY <1>7, <1>8, <2>3, <3>1, <3>3
      <4>2. j < Top.next
        <5> SUFFICES ASSUME ~ (j < Top.next) PROVE FALSE
          OBVIOUS
        <5>1. j \in Ahead(Top.next)
          BY <1>8, <3>1 DEF Ahead
        <5> QED
          BY <1>5, <1>8, <3>1, <4>1, <5>1
      <4>3. Has(notified[j], Top.nr)
        BY <1>3, <3>1, <4>2 DEF FrameOK, FrameFits
      <4> QED
        BY <1>7, <1>17, <3>1, <4>3
    <3> QED
      BY <3>2, <3>3
  <2> QED
    BY <1>18, <2>1, <2>2, <2>3 DEF FrameOK, FrameFits
<1>20. \A k \in 1..(Len(under) - 1) : FrameFits(under[k], appends', DOMAIN slots', Taken', notified')
  <2> SUFFICES ASSUME NEW k \in 1..(Len(under) - 1) PROVE FrameFits(under[k], appends', DOMAIN slots', Taken', notified')
    OBVIOUS
  <2>1. PICK g : g = under[k]
    OBVIOUS
  <2>2. FrameOK(g) /\ g.nr # Top.nr /\ g.owed \in SUBSET (1..MaxSlots)
    <3>1. g \in Appending /\ g.nr < Top.nr /\ FrameOK(g)
      BY <1>3, <2>1 DEF TranscriptInv
    <3>2. g.nr \in 1..MaxEntries /\ g.owed \in SUBSET (1..MaxSlots)
      BY <3>1 DEF Appending
    <3> QED
      BY <1>8, <3>1, <3>2
  <2>3. FrameFits(g, appends', DOMAIN slots', Taken', notified')
    <3>1. \A j \in 1..MaxSlots : Has(notified'[j], g.nr) <=> Has(notified[j], g.nr)
      BY <1>17, <2>2
    <3> QED
      BY <1>2, <1>18, <2>2, <3>1 DEF FrameOK, FrameFits
  <2> QED
    BY <2>1, <2>3
<1>21. FramesFit' /\ under' # <<>> /\ Top' = f
  <2>1. under' = WithTop(f)
    BY <1>1 DEF f
  <2> QED
    BY <1>2, <1>7, <1>19, <1>20, <2>1, TopMoves
<1>22. ~ Writing /\ ~ Writing'
  BY <1>2, <1>7, <1>21 DEF Writing
<1> QED
  BY <1>2, <1>13, <1>15, <1>16, <1>21, <1>22, IterationKeeps

LEMMA CallbackEndsKeeps == ASSUME TranscriptInv, CallbackEnds PROVE TranscriptInv'
<1> DEFINE f == [Top EXCEPT !.step = "notify"]
<1>1. /\ under # <<>> /\ Top.step = "called" /\ under' = WithTop(f)
      /\ UNCHANGED <<entries, batch, wireLog, slots, notified, appends, halts>>
  BY DEF CallbackEnds
<1>2. Top \in Appending /\ FrameOK(Top)
  BY <1>1, TopIsFrame
<1>3. f \in Appending /\ f.nr = Top.nr /\ f.step = "notify" /\ f.next = Top.next /\ f.owed = Top.owed
  BY <1>2 DEF Appending
<1> HIDE DEF f
<1>4. Taken' = Taken
  BY <1>1 DEF Taken
<1>5. FrameFits(f, appends', DOMAIN slots', Taken', notified')
  BY <1>1, <1>2, <1>3, <1>4 DEF FrameOK, FrameFits
<1>6. \A k \in 1..(Len(under) - 1) : FrameFits(under[k], appends', DOMAIN slots', Taken', notified')
  <2> SUFFICES ASSUME NEW k \in 1..(Len(under) - 1)
               PROVE  FrameFits(under[k], appends', DOMAIN slots', Taken', notified')
    OBVIOUS
  <2>1. k \in DOMAIN under
    BY <1>1, TopIsFrame
  <2> QED
    BY <1>1, <1>4, <2>1 DEF TranscriptInv, FrameOK
<1>7. FramesFit' /\ under' # <<>> /\ Top' = f
  BY <1>1, <1>3, <1>5, <1>6, TopMoves
<1>8. ~ Writing /\ ~ Writing'
  BY <1>1, <1>3, <1>7 DEF Writing
<1>9. /\ notified' \in [1..MaxSlots -> Seq(1..MaxEntries)] /\ NotifiedOnce'
      /\ \A i \in 1..MaxSlots : \A k \in DOMAIN notified'[i] : notified'[i][k] <= appends'
  BY <1>1 DEF TranscriptInv, TranscriptTypeOK, NotifiedOnce
<1> QED
  BY <1>1, <1>7, <1>8, <1>9, IterationKeeps

LEMMA ReturnKeeps == ASSUME TranscriptInv, NotifyDone \/ NotifyRaises PROVE TranscriptInv'
<1>1. /\ under # <<>> /\ Top.step = "notify" /\ under' = Outer
      /\ UNCHANGED <<entries, batch, wireLog, slots, notified, appends, halts>>
  BY DEF NotifyDone, NotifyRaises
<1>2. PICK n \in Nat : n = Len(under) /\ n \in 1..n /\ DOMAIN under = 1..n /\ Top = under[n]
  BY <1>1, TopIsFrame
<1>3. \A k \in 1..(n - 1) : k \in 1..n /\ under[k] \in Appending /\ under[k].step = "called"
  BY <1>1, <1>2, TopIsFrame
<1>4. under' = [k \in 1..(n - 1) |-> under[k]]
  BY <1>1, <1>2 DEF Outer
<1>5. /\ under' \in Seq(Appending) /\ Len(under') = n - 1 /\ DOMAIN under' = 1..(n - 1)
      /\ \A k \in 1..(n - 1) : under'[k] = under[k]
  <2>1. under' \in [1..(n - 1) -> Appending] /\ n - 1 \in Nat
    <3> HIDE DEF Appending
    <3> QED
      BY <1>2, <1>3, <1>4
  <2> HIDE DEF Appending
  <2> QED
    BY <1>4, <2>1
<1>6. Taken' = Taken
  BY <1>1 DEF Taken
<1>7. \A k \in 1..(n - 1) : FrameFits(under'[k], appends', DOMAIN slots', Taken', notified')
  BY <1>1, <1>2, <1>3, <1>5, <1>6 DEF TranscriptInv, FrameOK
<1>8. \A k \in 1..(Len(under') - 1) : under'[k].step = "called"
  <2>1. \A k \in 1..((n - 1) - 1) : k \in 1..(n - 1)
    OBVIOUS
  <2> QED
    BY <1>3, <1>5, <2>1
<1>9. \A j, k \in 1..(n - 1) : j < k => under'[j].nr < under'[k].nr
  BY <1>2, <1>3, <1>5 DEF TranscriptInv
<1>10. FramesFit'
  BY <1>5, <1>7, <1>8, <1>9 DEF FramesFit, FrameOK
<1>11. ~ Writing /\ ~ Writing'
  <2>1. under' # <<>> => Top'.step = "called"
    <3> SUFFICES ASSUME under' # <<>> PROVE Top'.step = "called"
      OBVIOUS
    <3>1. n - 1 \in 1..(n - 1)
      BY <1>2, <1>5
    <3>2. Top' = under'[n - 1]
      BY <1>5 DEF Top
    <3> QED
      BY <1>3, <1>5, <3>1, <3>2
  <2> QED
    BY <1>1, <2>1 DEF Writing
<1>12. /\ notified' \in [1..MaxSlots -> Seq(1..MaxEntries)] /\ NotifiedOnce'
       /\ \A i \in 1..MaxSlots : \A k \in DOMAIN notified'[i] : notified'[i][k] <= appends'
  BY <1>1 DEF TranscriptInv, TranscriptTypeOK, NotifiedOnce
<1> QED
  BY <1>1, <1>10, <1>11, <1>12, IterationKeeps

\* A new subscription is owed nothing, and one that is gone neither.
LEMMA SlotsMove ==
  ASSUME TranscriptInv, slots' \in Seq(BOOLEAN), Len(slots') <= MaxSlots,
         DOMAIN slots \subseteq DOMAIN slots', \A i \in DOMAIN slots : i \in Taken' => i \in Taken,
         UNCHANGED <<entries, batch, wireLog, under, notified, appends, halts>>
  PROVE  TranscriptInv'
<1>1. TranscriptTypeOK'
  BY DEF TranscriptInv, TranscriptTypeOK
<1>2. Writing' <=> Writing
  BY DEF Writing, Top
<1>3. ListIsLog'
  <2>1. ParsedOf(wireLog') = ParsedOf(wireLog)
    OBVIOUS
  <2> QED
    BY <1>2, <2>1 DEF TranscriptInv, ListIsLog
<1>4. BatchesAscend' /\ NotifiedOnce'
      /\ \A i \in 1..MaxSlots : \A k \in DOMAIN notified'[i] : notified'[i][k] <= appends'
  BY DEF TranscriptInv, BatchesAscend, NotifiedOnce
<1>5. ASSUME NEW k \in DOMAIN under PROVE FrameFits(under[k], appends', DOMAIN slots', Taken', notified')
  <2>1. FrameFits(under[k], appends, DOMAIN slots, Taken, notified)
    BY DEF TranscriptInv, FrameOK
  <2> QED
    BY <2>1 DEF FrameFits
<1>6. \A j, k \in DOMAIN under' : j < k => under'[j].nr < under'[k].nr
  BY DEF TranscriptInv
<1> QED
  BY <1>1, <1>3, <1>4, <1>5, <1>6 DEF TranscriptInv, FrameOK

LEMMA ReplacedIsIn ==
  ASSUME NEW S, NEW q \in Seq(S), NEW i, NEW v \in S
  PROVE  [q EXCEPT ![i] = v] \in Seq(S) /\ Len([q EXCEPT ![i] = v]) = Len(q)
         /\ DOMAIN [q EXCEPT ![i] = v] = DOMAIN q
<1>1. PICK n \in Nat : n = Len(q) /\ DOMAIN q = 1..n
  OBVIOUS
<1>2. q \in [1..n -> S]
  <2>1. \A k \in 1..n : q[k] \in S
    BY <1>1, ItemsAreIn
  <2>2. q = [k \in 1..n |-> q[k]]
    BY <1>1
  <2> QED
    BY <2>1, <2>2
<1>3. PICK r : r = [q EXCEPT ![i] = v]
  OBVIOUS
<1>4. r \in [1..n -> S] /\ DOMAIN r = 1..n
  BY <1>2, <1>3
<1>5. r \in Seq(S) /\ Len(r) = n
  BY <1>4
<1> QED
  BY <1>1, <1>3, <1>4, <1>5

LEMMA SubscriptionsKeep ==
  ASSUME TranscriptInv, Subscribe \/ \E i \in 1..MaxSlots : Unsubscribe(i)
  PROVE  TranscriptInv'
<1>1. PICK n \in Nat : n = Len(slots) /\ DOMAIN slots = 1..n /\ slots \in Seq(BOOLEAN)
  BY DEF TranscriptInv, TranscriptTypeOK
<1>2. CASE Subscribe
  <2>1. /\ slots' = Append(slots, TRUE) /\ n < MaxSlots
        /\ UNCHANGED <<entries, batch, wireLog, under, notified, appends, halts>>
    BY <1>1, <1>2 DEF Subscribe
  <2>2. /\ slots' \in Seq(BOOLEAN) /\ Len(slots') = n + 1 /\ DOMAIN slots' = 1..(n + 1)
        /\ \A i \in 1..n : slots'[i] = slots[i] /\ i \in 1..(n + 1)
    BY <1>1, <2>1
  <2>3. n + 1 <= MaxSlots
    BY <2>1, TranscriptAssumption
  <2>4. \A i \in DOMAIN slots : i \in Taken' => i \in Taken
    BY <1>1, <2>2 DEF Taken
  <2> QED
    BY <1>1, <2>1, <2>2, <2>3, <2>4, SlotsMove
<1>3. ASSUME NEW i \in 1..MaxSlots, Unsubscribe(i) PROVE TranscriptInv'
  <2>1. /\ slots' = [slots EXCEPT ![i] = FALSE]
        /\ UNCHANGED <<entries, batch, wireLog, under, notified, appends, halts>>
    BY <1>3 DEF Unsubscribe
  <2>2. slots' \in Seq(BOOLEAN) /\ Len(slots') = n /\ DOMAIN slots' = 1..n
    <3>1. FALSE \in BOOLEAN
      OBVIOUS
    <3>2. [slots EXCEPT ![i] = FALSE] \in Seq(BOOLEAN) /\ Len([slots EXCEPT ![i] = FALSE]) = Len(slots)
          /\ DOMAIN [slots EXCEPT ![i] = FALSE] = DOMAIN slots
      BY <1>1, <3>1, ReplacedIsIn
    <3> QED
      BY <1>1, <2>1, <3>2
  <2>3. \A j \in DOMAIN slots : j \in Taken' => j \in Taken
    BY <1>1, <2>1, <2>2 DEF Taken
  <2>4. n <= MaxSlots
    BY <1>1 DEF TranscriptInv, TranscriptTypeOK
  <2> QED
    BY <1>1, <2>1, <2>2, <2>3, <2>4, SlotsMove
<1> QED
  BY <1>2, <1>3

\* A list that is read from the log.
LEMMA ListIsRead ==
  ASSUME NEW b \in Nat, NEW log \in Seq(Lines), BatchesUp(ParsedOf(log)),
         entries' = ParsedOf(log), batch' = LargestOf(b, ParsedOf(log))
  PROVE  entries' \in Seq(Entry) /\ batch' \in Nat /\ BatchesAscend'
<1>1. ParsedOf(log) \in Seq(Entry)
  BY ParsedIsPrefix
<1> QED
  BY <1>1, LargestIsThere DEF BatchesAscend, BatchesUp

LEMMA ColdRebuildKeeps == ASSUME TranscriptInv, ColdRebuild PROVE TranscriptInv'
<1>1. /\ entries' = ParsedOf(wireLog) /\ batch' = LargestOf(batch, ParsedOf(wireLog)) /\ Callable
      /\ UNCHANGED <<wireLog, slots, under, notified, appends, halts>>
  BY DEF ColdRebuild, Parsed, LargestBatch, ParsedOf, LargestOf
<1>2. wireLog \in Seq(Lines) /\ batch \in Nat /\ BatchesUp(ParsedOf(wireLog))
  BY DEF TranscriptInv, TranscriptTypeOK, ListIsLog, Lines
<1>3. entries' \in Seq(Entry) /\ batch' \in Nat /\ BatchesAscend'
  BY <1>1, <1>2, ListIsRead
<1>4. ~ Writing /\ ~ Writing' /\ Taken' = Taken
  BY <1>1 DEF Writing, Callable, Top, Taken
<1>5. TranscriptTypeOK'
  BY <1>1, <1>3 DEF TranscriptInv, TranscriptTypeOK
<1>6. ListIsLog'
  <2>1. NoCutIn(wireLog) => entries' = wireLog
    BY <1>1, ParsedWhole
  <2>2. ParsedOf(wireLog') = ParsedOf(wireLog)
    BY <1>1
  <2> QED
    BY <1>1, <1>2, <1>4, <2>1, <2>2 DEF ListIsLog
<1>7. NotifiedOnce' /\ \A i \in 1..MaxSlots : \A k \in DOMAIN notified'[i] : notified'[i][k] <= appends'
  BY <1>1 DEF TranscriptInv, NotifiedOnce
<1> QED
  BY <1>1, <1>3, <1>4, <1>5, <1>6, <1>7 DEF TranscriptInv, FrameOK

LEMMA ReopenKeeps == ASSUME TranscriptInv, Reopen PROVE TranscriptInv'
<1>1. /\ halts < MaxHalts /\ halts' = halts + 1 /\ appends' = appends
      /\ wireLog' = wireLog \/ wireLog' = Append(wireLog, CutLine)
      /\ slots' = <<>> /\ under' = <<>> /\ notified' = [i \in 1..MaxSlots |-> <<>>]
  BY DEF Reopen
<1>2. entries' = ParsedOf(wireLog') /\ batch' = LargestOf(0, ParsedOf(wireLog'))
  BY DEF Reopen, Parsed, LargestBatch, ParsedOf, LargestOf
<1>3. wireLog \in Seq(Lines) /\ BatchesUp(ParsedOf(wireLog)) /\ CutLine \in Lines
  BY DEF TranscriptInv, TranscriptTypeOK, ListIsLog, Lines
<1>4. wireLog' \in Seq(Lines) /\ BatchesUp(ParsedOf(wireLog'))
  <2>1. CASE wireLog' = wireLog
    BY <1>3, <2>1
  <2>2. CASE wireLog' = Append(wireLog, CutLine)
    <3>1. ParsedNext(wireLog, CutLine)
      BY <1>3, ParsedOfAppended
    <3>2. ParsedOf(Append(wireLog, CutLine)) = ParsedOf(wireLog)
      BY <3>1, ParsedWhole DEF ParsedNext
    <3> QED
      BY <1>3, <2>2, <3>1, <3>2 DEF ParsedNext
  <2> QED
    BY <1>1, <2>1, <2>2
<1>5. entries' \in Seq(Entry) /\ batch' \in Nat /\ BatchesAscend'
  <2>1. 0 \in Nat
    OBVIOUS
  <2> QED
    BY <1>2, <1>4, <2>1, ListIsRead
<1>6. ~ Writing'
  BY <1>1 DEF Writing
<1>7. TranscriptTypeOK'
  <2>1. notified' \in [1..MaxSlots -> Seq(1..MaxEntries)]
    <3>1. <<>> \in Seq(1..MaxEntries)
      OBVIOUS
    <3> QED
      BY <1>1, <3>1
  <2>2. slots' \in Seq(BOOLEAN) /\ Len(slots') <= MaxSlots /\ under' \in Seq(Appending)
        /\ \A k \in 1..(Len(under') - 1) : under'[k].step = "called"
    <3> HIDE DEF Appending
    <3> QED
      BY <1>1, TranscriptAssumption
  <2>3. appends' \in 0..MaxEntries /\ halts' \in 0..MaxHalts
    BY <1>1, TranscriptAssumption DEF TranscriptInv, TranscriptTypeOK
  <2> QED
    BY <1>4, <1>5, <2>1, <2>2, <2>3 DEF TranscriptTypeOK, Lines
<1>8. ListIsLog'
  BY <1>2, <1>4, <1>6, ParsedWhole DEF ListIsLog
<1>9. \A i \in 1..MaxSlots : DOMAIN notified'[i] = {}
  BY <1>1
<1> QED
  BY <1>1, <1>5, <1>7, <1>8, <1>9 DEF TranscriptInv, NotifiedOnce

LEMMA TranscriptStep == TranscriptInv /\ [TranscriptNext]_transcriptVars => TranscriptInv'
<1> SUFFICES ASSUME TranscriptInv, [TranscriptNext]_transcriptVars PROVE TranscriptInv'
  OBVIOUS
<1>1. CASE UNCHANGED transcriptVars
  <2>1. slots' \in Seq(BOOLEAN) /\ Len(slots') <= MaxSlots /\ slots' = slots /\ Taken' = Taken
    BY <1>1 DEF transcriptVars, TranscriptInv, TranscriptTypeOK, Taken
  <2> QED
    BY <1>1, <2>1, SlotsMove DEF transcriptVars
<1> QED
  BY <1>1, AppendEntryKeeps, WriteLineKeeps, NotifyOneKeeps, CallbackEndsKeeps, ReturnKeeps,
     SubscriptionsKeep, ColdRebuildKeeps, ReopenKeeps DEF TranscriptNext

LEMMA TranscriptHolds == TranscriptInv => TranscriptTypeOK /\ TranscriptIsTold
<1> SUFFICES ASSUME TranscriptInv PROVE TranscriptTypeOK /\ TranscriptIsTold
  OBVIOUS
<1>1. LogIsMemory
  BY DEF TranscriptInv, ListIsLog, LogIsMemory, NoCutIn, Writing, Callable
<1>2. ReturnedMeansNotified
  <2> SUFFICES ASSUME under # <<>>, Ahead(Top.next) = {}, NEW i \in Top.owed \cap Taken
               PROVE  \E k \in DOMAIN notified[i] : notified[i][k] = Top.nr
    BY DEF ReturnedMeansNotified
  <2>1. Top \in Appending /\ FrameOK(Top) /\ Taken \in SUBSET (1..MaxSlots)
    BY TopIsFrame, TakenCounts
  <2>2. Top.next \in Nat /\ i \in Nat /\ i \notin Ahead(Top.next)
    BY <2>1, TranscriptAssumption DEF Appending
  <2>3. i < Top.next
    BY <2>2 DEF Ahead
  <2> QED
    BY <2>1, <2>3 DEF FrameOK, FrameFits, Has
<1> QED
  BY <1>1, <1>2 DEF TranscriptInv, TranscriptIsTold

\* The transcript keeps its shapes for any number of entries, subscriptions and
\* halts.
THEOREM TranscriptTypes == TranscriptSpec => []TranscriptTypeOK
  BY TranscriptInitially, TranscriptStep, TranscriptHolds, PTL DEF TranscriptSpec

\* Its list is its log, its batches number the entries upwards, and every subscriber
\* that stays hears of an entry once before its append returns, although callbacks
\* append, subscribe, unsubscribe and rebuild in the middle of the iteration.
THEOREM TranscriptTold == TranscriptSpec => []TranscriptIsTold
  BY TranscriptInitially, TranscriptStep, TranscriptHolds, PTL DEF TranscriptSpec

-----------------------------------------------------------------------------
(***************************************************************************)
(* The directory snapshots.  The index in memory and the index in the file *)
(* are both true of the directories; which of them is read next depends on *)
(* what goes wrong.                                                        *)
(***************************************************************************)
CopiesOrRemoves == {"copy", "save", "remove", "save delete"}

SnapShapes ==
  /\ SnapTypeOK
  /\ doing = Resting \/ doing \in [step : CopiesOrRemoves, id : used, todo : SUBSET SourceFiles]
  /\ \A i \in SnapIds \ used :
       catalog[i] = Nowhere /\ catalogFile.read[i] = Nowhere /\ dirs[i] = Nowhere

\* What is known of the snapshot that is being made or removed.
DoingFits ==
  /\ doing.step = "copy" =>
       /\ catalog[doing.id] = Nowhere /\ catalogFile.read[doing.id] = Nowhere
       /\ dirs[doing.id] # Nowhere /\ doing.id \notin doomed
  /\ doing.step = "save" => catalog[doing.id] # Nowhere
  /\ doing.step = "remove" => dirs[doing.id] # Nowhere
  /\ doing.step \in {"remove", "save delete"} => catalog[doing.id] = Nowhere /\ doing.id \in doomed
  /\ doing.step = "save delete" => dirs[doing.id] = Nowhere

\* An index lists what is whole and nothing that is gone.
IndexTrue(listing) ==
  /\ \A i \in SnapIds \ doomed : listing[i] # Nowhere =>
       dirs[i] # Nowhere /\ Cardinality(dirs[i]) = listing[i]
  /\ \A i \in gone : listing[i] = Nowhere

\* An index lists everything that was returned.
ListsReturned(listing) == \A i \in returned \ doomed : listing[i] # Nowhere

\* Directories that an index does not list, but for the one in hand.
Strays(listing) ==
  {i \in SnapIds : dirs[i] # Nowhere /\ listing[i] = Nowhere /\ (doing = Resting \/ doing.id # i)}

Few(S, n) == IsFiniteSet(S) /\ Cardinality(S) <= n

SnapInv ==
  /\ SnapShapes /\ DoingFits
  /\ IndexTrue(catalog) /\ IndexTrue(catalogFile.read)
  /\ ~ forgotten => ListsReturned(catalog) /\ Few(Strays(catalog), mishaps)
  /\ ~ forgotten /\ ~ catalogFile.cut =>
       ListsReturned(catalogFile.read) /\ Few(Strays(catalog) \cup Strays(catalogFile.read), mishaps)

LEMMA FewerAreFew ==
  ASSUME NEW S, NEW T, T \subseteq S, NEW n \in Nat, Few(S, n) PROVE Few(T, n)
<1>1. IsFiniteSet(T) /\ Cardinality(T) <= Cardinality(S)
  BY FS_Subset DEF Few
<1>2. Cardinality(T) \in Nat /\ Cardinality(S) \in Nat
  BY <1>1, FS_CardinalityType DEF Few
<1> QED
  BY <1>1, <1>2 DEF Few

LEMMA OneMoreIsFew ==
  ASSUME NEW S, NEW x, NEW n \in Nat, Few(S, n) PROVE Few(S \cup {x}, n + 1)
<1>1. IsFiniteSet(S \cup {x}) /\ Cardinality(S) \in Nat
      /\ Cardinality(S \cup {x}) \in {Cardinality(S), Cardinality(S) + 1}
  BY FS_AddElement, FS_CardinalityType DEF Few
<1> QED
  BY <1>1 DEF Few

LEMMA SnapInitially == SnapInit => SnapInv
<1> SUFFICES ASSUME SnapInit PROVE SnapInv
  OBVIOUS
<1>1. /\ catalog = NoSnapshots /\ catalogFile = FileOf(NoSnapshots) /\ dirs = NoSnapshots
      /\ doing = Resting /\ used = {} /\ returned = {} /\ doomed = {} /\ gone = {}
      /\ forgotten = FALSE /\ mishaps = 0
  BY DEF SnapInit
<1>2. \A i \in SnapIds : NoSnapshots[i] = Nowhere
  BY DEF NoSnapshots
<1>3. NoSnapshots \in Catalogs /\ NoSnapshots \in [SnapIds -> {Nowhere} \cup SUBSET SourceFiles]
  BY DEF NoSnapshots, Catalogs
<1>4. catalogFile \in [cut : BOOLEAN, read : Catalogs] /\ catalogFile.read = NoSnapshots
  BY <1>1, <1>3 DEF FileOf
<1>5. doing.step = "idle"
  BY <1>1 DEF Resting
<1>6. 0 \in 0..MaxMishaps
  BY SnapshotAssumption
<1>7. SnapShapes
  BY <1>1, <1>2, <1>3, <1>4, <1>5, <1>6 DEF SnapShapes, SnapTypeOK
<1>8. Strays(catalog) = {} /\ Strays(catalogFile.read) = {}
  BY <1>1, <1>2 DEF Strays
<1>9. Few({}, 0)
  BY FS_EmptySet DEF Few
<1>10. DoingFits
  BY <1>5 DEF DoingFits
<1>11. IndexTrue(NoSnapshots) /\ ListsReturned(NoSnapshots)
  BY <1>1, <1>2 DEF IndexTrue, ListsReturned
<1>12. Strays(catalog) \cup Strays(catalogFile.read) = {}
  BY <1>8
<1> QED
  BY <1>1, <1>4, <1>7, <1>8, <1>9, <1>10, <1>11, <1>12 DEF SnapInv

LEMMA SnapFacts ==
  ASSUME SnapInv
  PROVE  /\ catalog \in Catalogs /\ catalogFile.read \in Catalogs
         /\ catalogFile \in [cut : BOOLEAN, read : Catalogs]
         /\ dirs \in [SnapIds -> {Nowhere} \cup SUBSET SourceFiles]
         /\ used \subseteq SnapIds /\ doomed \subseteq used /\ gone \subseteq doomed
         /\ returned \subseteq used
         /\ mishaps \in 0..MaxMishaps /\ mishaps \in Nat /\ forgotten \in BOOLEAN
         /\ doing.step \in CopiesOrRemoves => doing # Resting
         /\ doing # Resting =>
              /\ doing.step \in CopiesOrRemoves
              /\ doing.id \in used /\ doing.id \in SnapIds /\ doing.todo \subseteq SourceFiles
              /\ doing \in [step : CopiesOrRemoves, id : used, todo : SUBSET SourceFiles]
<1>1. SnapTypeOK /\ SnapShapes
  BY DEF SnapInv, SnapShapes
<1>2. Resting.step \notin CopiesOrRemoves
  BY DEF Resting, CopiesOrRemoves
<1>3. doing # Resting => doing \in [step : CopiesOrRemoves, id : used, todo : SUBSET SourceFiles]
  BY <1>1 DEF SnapShapes
<1>4. mishaps \in 0..MaxMishaps /\ mishaps \in Nat
  <2>1. mishaps \in 0..MaxMishaps
    BY <1>1 DEF SnapTypeOK
  <2> QED
    BY <2>1, SnapshotAssumption
<1>5. doing # Resting =>
        /\ doing.step \in CopiesOrRemoves
        /\ doing.id \in used /\ doing.id \in SnapIds /\ doing.todo \subseteq SourceFiles
  BY <1>1, <1>3 DEF SnapTypeOK
<1>6. catalogFile.read \in Catalogs
  BY <1>1 DEF SnapTypeOK
<1>7. used \subseteq SnapIds /\ doomed \subseteq used /\ gone \subseteq doomed /\ returned \subseteq used
  BY <1>1 DEF SnapTypeOK
<1>8. doing.step \in CopiesOrRemoves => doing # Resting
  BY <1>2
<1> QED
  BY <1>1, <1>3, <1>4, <1>5, <1>6, <1>7, <1>8 DEF SnapTypeOK

LEMMA BeginCreateKeeps ==
  ASSUME SnapInv, NEW i \in SnapIds, NEW S \in SUBSET SourceFiles, BeginCreate(i, S)
  PROVE  SnapInv'
<1>1. /\ doing = Resting /\ i \notin used /\ used' = used \cup {i}
      /\ dirs' = [dirs EXCEPT ![i] = {}] /\ doing' = Doing("copy", i, S)
      /\ UNCHANGED <<catalog, catalogFile, returned, doomed, gone, forgotten, mishaps>>
  BY DEF BeginCreate
<1>2. /\ catalog \in Catalogs /\ catalogFile.read \in Catalogs
      /\ dirs \in [SnapIds -> {Nowhere} \cup SUBSET SourceFiles]
      /\ used \subseteq SnapIds /\ doomed \subseteq used /\ gone \subseteq doomed
      /\ mishaps \in Nat
  BY SnapFacts
<1>3. /\ doing' \in [step : CopiesOrRemoves, id : used', todo : SUBSET SourceFiles]
      /\ doing'.step = "copy" /\ doing'.id = i /\ doing'.todo = S /\ doing' # Resting
  BY <1>1, SnapFacts DEF Doing, Resting, CopiesOrRemoves
<1>4. catalog[i] = Nowhere /\ catalogFile.read[i] = Nowhere
  BY <1>1 DEF SnapInv, SnapShapes
<1>5. dirs'[i] = {} /\ dirs'[i] # Nowhere /\ \A j \in SnapIds \ {i} : dirs'[j] = dirs[j]
  BY <1>1, <1>2, SnapshotAssumption
<1>6. SnapShapes'
  BY <1>1, <1>2, <1>3, <1>5 DEF SnapInv, SnapShapes, SnapTypeOK
<1>7. DoingFits'
  BY <1>1, <1>2, <1>3, <1>4, <1>5 DEF DoingFits
<1>8. IndexTrue(catalog)' /\ IndexTrue(catalogFile.read)'
  BY <1>1, <1>4, <1>5 DEF IndexTrue, SnapInv
<1>9. ListsReturned(catalog)' = ListsReturned(catalog)
      /\ ListsReturned(catalogFile.read)' = ListsReturned(catalogFile.read)
  BY <1>1 DEF ListsReturned
<1>10. /\ Strays(catalog)' \subseteq Strays(catalog)
       /\ Strays(catalogFile.read)' \subseteq Strays(catalogFile.read)
  BY <1>1, <1>3, <1>5 DEF Strays
<1>11. (Strays(catalog) \cup Strays(catalogFile.read))' \subseteq Strays(catalog) \cup Strays(catalogFile.read)
  BY <1>10
<1>12. ~ forgotten => ListsReturned(catalog)' /\ Few(Strays(catalog)', mishaps)
  BY <1>2, <1>9, <1>10, FewerAreFew DEF SnapInv
<1>13. ~ forgotten /\ ~ catalogFile.cut =>
         /\ ListsReturned(catalogFile.read)'
         /\ Few((Strays(catalog) \cup Strays(catalogFile.read))', mishaps)
  BY <1>2, <1>9, <1>11, FewerAreFew DEF SnapInv
<1> QED
  BY <1>1, <1>6, <1>7, <1>8, <1>12, <1>13 DEF SnapInv

LEMMA CopyFileKeeps ==
  ASSUME SnapInv, NEW f \in SourceFiles, CopyFile(f) PROVE SnapInv'
<1>1. /\ doing.step = "copy" /\ f \in doing.todo
      /\ dirs' = [dirs EXCEPT ![doing.id] = @ \cup {f}]
      /\ doing' = [doing EXCEPT !.todo = @ \ {f}]
      /\ UNCHANGED <<catalog, catalogFile, used, returned, doomed, gone, forgotten, mishaps>>
  BY DEF CopyFile
<1>2. /\ dirs \in [SnapIds -> {Nowhere} \cup SUBSET SourceFiles]
      /\ mishaps \in Nat /\ doing # Resting
      /\ doing.id \in used /\ doing.id \in SnapIds /\ doing.todo \subseteq SourceFiles
      /\ doing \in [step : CopiesOrRemoves, id : used, todo : SUBSET SourceFiles]
  BY <1>1, SnapFacts DEF CopiesOrRemoves
<1>3. /\ doing' \in [step : CopiesOrRemoves, id : used, todo : SUBSET SourceFiles]
      /\ doing'.step = "copy" /\ doing'.id = doing.id /\ doing' # Resting
      /\ doing'.todo \subseteq SourceFiles
  BY <1>1, <1>2 DEF Resting
<1>4. /\ catalog[doing.id] = Nowhere /\ catalogFile.read[doing.id] = Nowhere
      /\ dirs[doing.id] # Nowhere /\ doing.id \notin doomed
  BY <1>1 DEF SnapInv, DoingFits
<1>5. /\ dirs' \in [SnapIds -> {Nowhere} \cup SUBSET SourceFiles]
      /\ dirs'[doing.id] # Nowhere /\ \A j \in SnapIds \ {doing.id} : dirs'[j] = dirs[j]
  BY <1>1, <1>2, <1>4, SnapshotAssumption
<1>6. SnapShapes'
  BY <1>1, <1>2, <1>3, <1>5 DEF SnapInv, SnapShapes, SnapTypeOK
<1>7. DoingFits'
  BY <1>1, <1>3, <1>4, <1>5 DEF DoingFits
<1>8. IndexTrue(catalog)' /\ IndexTrue(catalogFile.read)'
  BY <1>1, <1>4, <1>5 DEF IndexTrue, SnapInv
<1>9. ListsReturned(catalog)' = ListsReturned(catalog)
      /\ ListsReturned(catalogFile.read)' = ListsReturned(catalogFile.read)
  BY <1>1 DEF ListsReturned
<1>10. /\ Strays(catalog)' \subseteq Strays(catalog)
       /\ Strays(catalogFile.read)' \subseteq Strays(catalogFile.read)
  BY <1>1, <1>2, <1>3, <1>5 DEF Strays
<1>11. (Strays(catalog) \cup Strays(catalogFile.read))' \subseteq Strays(catalog) \cup Strays(catalogFile.read)
  BY <1>10
<1>12. ~ forgotten => ListsReturned(catalog)' /\ Few(Strays(catalog)', mishaps)
  BY <1>2, <1>9, <1>10, FewerAreFew DEF SnapInv
<1>13. ~ forgotten /\ ~ catalogFile.cut =>
         /\ ListsReturned(catalogFile.read)'
         /\ Few((Strays(catalog) \cup Strays(catalogFile.read))', mishaps)
  BY <1>2, <1>9, <1>11, FewerAreFew DEF SnapInv
<1> QED
  BY <1>1, <1>6, <1>7, <1>8, <1>12, <1>13 DEF SnapInv

LEMMA EnterCatalogKeeps == ASSUME SnapInv, EnterCatalog PROVE SnapInv'
<1>1. /\ doing.step = "copy"
      /\ catalog' = [catalog EXCEPT ![doing.id] = Cardinality(dirs[doing.id])]
      /\ doing' = Doing("save", doing.id, {})
      /\ UNCHANGED <<catalogFile, dirs, used, returned, doomed, gone, forgotten, mishaps>>
  BY DEF EnterCatalog
<1>2. /\ dirs \in [SnapIds -> {Nowhere} \cup SUBSET SourceFiles]
      /\ catalog \in Catalogs /\ gone \subseteq doomed
      /\ mishaps \in Nat /\ doing # Resting
      /\ doing.id \in used /\ doing.id \in SnapIds
  BY <1>1, SnapFacts DEF CopiesOrRemoves
<1>3. /\ doing' \in [step : CopiesOrRemoves, id : used, todo : SUBSET SourceFiles]
      /\ doing'.step = "save" /\ doing'.id = doing.id /\ doing' # Resting /\ doing'.todo = {}
  BY <1>1, <1>2, SnapFacts DEF Doing, Resting, CopiesOrRemoves
<1>4. /\ dirs[doing.id] # Nowhere /\ doing.id \notin doomed
  BY <1>1 DEF SnapInv, DoingFits
<1>5. /\ Cardinality(dirs[doing.id]) \in 0..Cardinality(SourceFiles)
      /\ Cardinality(dirs[doing.id]) # Nowhere
  <2>1. dirs[doing.id] \subseteq SourceFiles
    BY <1>2, <1>4
  <2>2. IsFiniteSet(dirs[doing.id]) /\ Cardinality(dirs[doing.id]) <= Cardinality(SourceFiles)
    BY <2>1, SnapshotAssumption, FS_Subset
  <2>3. Cardinality(dirs[doing.id]) \in Nat /\ Cardinality(SourceFiles) \in Nat
    BY <2>2, SnapshotAssumption, FS_CardinalityType
  <2> QED
    BY <2>2, <2>3, SnapshotAssumption
<1>6. /\ catalog' \in Catalogs /\ catalog'[doing.id] = Cardinality(dirs[doing.id])
      /\ \A j \in SnapIds \ {doing.id} : catalog'[j] = catalog[j]
  BY <1>1, <1>2, <1>5 DEF Catalogs
<1>7. SnapShapes'
  BY <1>1, <1>2, <1>3, <1>6 DEF SnapInv, SnapShapes, SnapTypeOK
<1>8. DoingFits'
  BY <1>3, <1>5, <1>6 DEF DoingFits
<1>9. IndexTrue(catalog)' /\ IndexTrue(catalogFile.read)'
  BY <1>1, <1>2, <1>4, <1>6 DEF IndexTrue, SnapInv
<1>10. /\ ListsReturned(catalog) => ListsReturned(catalog)'
       /\ ListsReturned(catalogFile.read)' = ListsReturned(catalogFile.read)
  <2>1. returned \subseteq SnapIds
    BY SnapFacts
  <2> QED
    BY <2>1, <1>1, <1>5, <1>6 DEF ListsReturned
<1>11. /\ Strays(catalog)' \subseteq Strays(catalog)
       /\ Strays(catalogFile.read)' \subseteq Strays(catalogFile.read)
  BY <1>1, <1>2, <1>3, <1>6 DEF Strays
<1>12. (Strays(catalog) \cup Strays(catalogFile.read))' \subseteq Strays(catalog) \cup Strays(catalogFile.read)
  BY <1>11
<1>13. ~ forgotten => ListsReturned(catalog)' /\ Few(Strays(catalog)', mishaps)
  BY <1>2, <1>10, <1>11, FewerAreFew DEF SnapInv
<1>14. ~ forgotten /\ ~ catalogFile.cut =>
         /\ ListsReturned(catalogFile.read)'
         /\ Few((Strays(catalog) \cup Strays(catalogFile.read))', mishaps)
  BY <1>2, <1>10, <1>12, FewerAreFew DEF SnapInv
<1> QED
  BY <1>1, <1>7, <1>8, <1>9, <1>13, <1>14 DEF SnapInv

LEMMA SaveCreatedKeeps == ASSUME SnapInv, SaveCreated PROVE SnapInv'
<1>1. /\ doing.step = "save" /\ catalogFile' = FileOf(catalog)
      /\ returned' = returned \cup {doing.id} /\ doing' = Resting
      /\ UNCHANGED <<catalog, dirs, used, doomed, gone, forgotten, mishaps>>
  BY DEF SaveCreated
<1>2. /\ catalog \in Catalogs /\ mishaps \in Nat /\ doing # Resting
      /\ doing.id \in used /\ doing.id \in SnapIds
  BY <1>1, SnapFacts DEF CopiesOrRemoves
<1>3. /\ catalogFile' \in [cut : BOOLEAN, read : Catalogs] /\ catalogFile'.read = catalog
      /\ catalogFile'.read = catalog'
  BY <1>1, <1>2 DEF FileOf
<1>4. catalog[doing.id] # Nowhere
  BY <1>1 DEF SnapInv, DoingFits
<1>5. doing'.step = "idle"
  BY <1>1 DEF Resting
<1>6. SnapShapes'
  BY <1>1, <1>2, <1>3, <1>5 DEF SnapInv, SnapShapes, SnapTypeOK
<1>7. DoingFits'
  BY <1>5 DEF DoingFits
<1>8. IndexTrue(catalog)' /\ IndexTrue(catalogFile.read)'
  BY <1>1, <1>3 DEF IndexTrue, SnapInv
<1>9. ListsReturned(catalog) => ListsReturned(catalog)' /\ ListsReturned(catalogFile.read)'
  BY <1>1, <1>3, <1>4 DEF ListsReturned
<1>10. Strays(catalog)' \subseteq Strays(catalog) /\ Strays(catalogFile.read)' \subseteq Strays(catalog)
  BY <1>1, <1>3, <1>4 DEF Strays
<1>11. (Strays(catalog) \cup Strays(catalogFile.read))' \subseteq Strays(catalog)
  BY <1>10
<1>12. ~ forgotten =>
         /\ ListsReturned(catalog)' /\ ListsReturned(catalogFile.read)'
         /\ Few(Strays(catalog)', mishaps)
         /\ Few((Strays(catalog) \cup Strays(catalogFile.read))', mishaps)
  BY <1>2, <1>9, <1>10, <1>11, FewerAreFew DEF SnapInv
<1> QED
  BY <1>1, <1>6, <1>7, <1>8, <1>12 DEF SnapInv

LEMMA BeginDeleteKeeps ==
  ASSUME SnapInv, NEW i \in SnapIds, BeginDelete(i) PROVE SnapInv'
<1>1. /\ doing = Resting /\ catalog[i] # Nowhere
      /\ catalog' = [catalog EXCEPT ![i] = Nowhere] /\ doomed' = doomed \cup {i}
      /\ doing' = IF dirs[i] = Nowhere THEN Doing("save delete", i, {})
                  ELSE Doing("remove", i, dirs[i])
      /\ UNCHANGED <<catalogFile, dirs, used, returned, gone, forgotten, mishaps>>
  BY DEF BeginDelete
<1>2. /\ dirs \in [SnapIds -> {Nowhere} \cup SUBSET SourceFiles]
      /\ catalog \in Catalogs /\ gone \subseteq SnapIds /\ mishaps \in Nat
  BY SnapFacts
<1>3. i \in used
  BY <1>1 DEF SnapInv, SnapShapes
<1>4. /\ doing' \in [step : CopiesOrRemoves, id : used, todo : SUBSET SourceFiles]
      /\ doing'.id = i /\ doing' # Resting /\ doing'.todo \subseteq SourceFiles
      /\ doing'.step = IF dirs[i] = Nowhere THEN "save delete" ELSE "remove"
  <2>1. CASE dirs[i] = Nowhere
    BY <1>1, <1>3, <2>1 DEF Doing, Resting, CopiesOrRemoves
  <2>2. CASE dirs[i] # Nowhere
    <3>1. dirs[i] \in SUBSET SourceFiles
      BY <1>2, <2>2
    <3> QED
      BY <1>1, <1>3, <2>2, <3>1 DEF Doing, Resting, CopiesOrRemoves
  <2> QED
    BY <2>1, <2>2
<1>5. /\ catalog' \in Catalogs /\ catalog'[i] = Nowhere
      /\ \A j \in SnapIds \ {i} : catalog'[j] = catalog[j]
  BY <1>1, <1>2 DEF Catalogs
<1>6. SnapShapes'
  BY <1>1, <1>2, <1>3, <1>4, <1>5 DEF SnapInv, SnapShapes, SnapTypeOK
<1>7. DoingFits'
  BY <1>1, <1>4, <1>5 DEF DoingFits
<1>8. IndexTrue(catalog)' /\ IndexTrue(catalogFile.read)'
  <2>1. IndexTrue(catalog) /\ IndexTrue(catalogFile.read)
    BY DEF SnapInv
  <2>2. IndexTrue(catalogFile.read)'
    BY <1>1, <2>1 DEF IndexTrue
  <2>3. \A j \in SnapIds \ doomed' : catalog'[j] # Nowhere =>
          dirs'[j] # Nowhere /\ Cardinality(dirs'[j]) = catalog'[j]
    BY <1>1, <1>5, <2>1 DEF IndexTrue
  <2>4. \A j \in gone' : catalog'[j] = Nowhere
    BY <1>1, <1>2, <1>5, <2>1 DEF IndexTrue
  <2> QED
    BY <2>2, <2>3, <2>4 DEF IndexTrue
<1>9. /\ ListsReturned(catalog) => ListsReturned(catalog)'
      /\ ListsReturned(catalogFile.read) => ListsReturned(catalogFile.read)'
  <2>1. returned \subseteq SnapIds
    BY SnapFacts
  <2> QED
    BY <2>1, <1>1, <1>5 DEF ListsReturned
<1>10. /\ Strays(catalog)' \subseteq Strays(catalog)
       /\ Strays(catalogFile.read)' \subseteq Strays(catalogFile.read)
  BY <1>1, <1>4, <1>5 DEF Strays
<1>11. (Strays(catalog) \cup Strays(catalogFile.read))' \subseteq Strays(catalog) \cup Strays(catalogFile.read)
  BY <1>10
<1>12. ~ forgotten => ListsReturned(catalog)' /\ Few(Strays(catalog)', mishaps)
  BY <1>2, <1>9, <1>10, FewerAreFew DEF SnapInv
<1>13. ~ forgotten /\ ~ catalogFile.cut =>
         /\ ListsReturned(catalogFile.read)'
         /\ Few((Strays(catalog) \cup Strays(catalogFile.read))', mishaps)
  BY <1>2, <1>9, <1>11, FewerAreFew DEF SnapInv
<1> QED
  BY <1>1, <1>6, <1>7, <1>8, <1>12, <1>13 DEF SnapInv

LEMMA RemoveFileKeeps ==
  ASSUME SnapInv, NEW f \in SourceFiles, RemoveFile(f) PROVE SnapInv'
<1>1. /\ doing.step = "remove" /\ f \in doing.todo
      /\ dirs' = [dirs EXCEPT ![doing.id] = @ \ {f}]
      /\ doing' = [doing EXCEPT !.todo = @ \ {f}]
      /\ UNCHANGED <<catalog, catalogFile, used, returned, doomed, gone, forgotten, mishaps>>
  BY DEF RemoveFile
<1>2. /\ dirs \in [SnapIds -> {Nowhere} \cup SUBSET SourceFiles]
      /\ mishaps \in Nat /\ doing # Resting
      /\ doing.id \in used /\ doing.id \in SnapIds /\ doing.todo \subseteq SourceFiles
      /\ doing \in [step : CopiesOrRemoves, id : used, todo : SUBSET SourceFiles]
  BY <1>1, SnapFacts DEF CopiesOrRemoves
<1>3. /\ doing' \in [step : CopiesOrRemoves, id : used, todo : SUBSET SourceFiles]
      /\ doing'.step = "remove" /\ doing'.id = doing.id /\ doing' # Resting
      /\ doing'.todo \subseteq SourceFiles
  BY <1>1, <1>2 DEF Resting
<1>4. catalog[doing.id] = Nowhere /\ dirs[doing.id] # Nowhere /\ doing.id \in doomed
  BY <1>1 DEF SnapInv, DoingFits
<1>5. /\ dirs' \in [SnapIds -> {Nowhere} \cup SUBSET SourceFiles]
      /\ dirs'[doing.id] # Nowhere /\ \A j \in SnapIds \ {doing.id} : dirs'[j] = dirs[j]
  BY <1>1, <1>2, <1>4, SnapshotAssumption
<1>6. SnapShapes'
  BY <1>1, <1>2, <1>3, <1>5 DEF SnapInv, SnapShapes, SnapTypeOK
<1>7. DoingFits'
  BY <1>1, <1>3, <1>4, <1>5 DEF DoingFits
<1>8. IndexTrue(catalog)' /\ IndexTrue(catalogFile.read)'
  BY <1>1, <1>4, <1>5 DEF IndexTrue, SnapInv
<1>9. ListsReturned(catalog)' = ListsReturned(catalog)
      /\ ListsReturned(catalogFile.read)' = ListsReturned(catalogFile.read)
  BY <1>1 DEF ListsReturned
<1>10. /\ Strays(catalog)' \subseteq Strays(catalog)
       /\ Strays(catalogFile.read)' \subseteq Strays(catalogFile.read)
  BY <1>1, <1>2, <1>3, <1>5 DEF Strays
<1>11. (Strays(catalog) \cup Strays(catalogFile.read))' \subseteq Strays(catalog) \cup Strays(catalogFile.read)
  BY <1>10
<1>12. ~ forgotten => ListsReturned(catalog)' /\ Few(Strays(catalog)', mishaps)
  BY <1>2, <1>9, <1>10, FewerAreFew DEF SnapInv
<1>13. ~ forgotten /\ ~ catalogFile.cut =>
         /\ ListsReturned(catalogFile.read)'
         /\ Few((Strays(catalog) \cup Strays(catalogFile.read))', mishaps)
  BY <1>2, <1>9, <1>11, FewerAreFew DEF SnapInv
<1> QED
  BY <1>1, <1>6, <1>7, <1>8, <1>12, <1>13 DEF SnapInv

LEMMA RemoveDirectoryKeeps == ASSUME SnapInv, RemoveDirectory PROVE SnapInv'
<1>1. /\ doing.step = "remove"
      /\ dirs' = [dirs EXCEPT ![doing.id] = Nowhere]
      /\ doing' = Doing("save delete", doing.id, {})
      /\ UNCHANGED <<catalog, catalogFile, used, returned, doomed, gone, forgotten, mishaps>>
  BY DEF RemoveDirectory
<1>2. /\ dirs \in [SnapIds -> {Nowhere} \cup SUBSET SourceFiles]
      /\ mishaps \in Nat /\ doing # Resting /\ doing.id \in used /\ doing.id \in SnapIds
  BY <1>1, SnapFacts DEF CopiesOrRemoves
<1>3. /\ doing' \in [step : CopiesOrRemoves, id : used, todo : SUBSET SourceFiles]
      /\ doing'.step = "save delete" /\ doing'.id = doing.id /\ doing' # Resting /\ doing'.todo = {}
  BY <1>1, <1>2 DEF Doing, Resting, CopiesOrRemoves
<1>4. catalog[doing.id] = Nowhere /\ doing.id \in doomed
  BY <1>1 DEF SnapInv, DoingFits
<1>5. /\ dirs' \in [SnapIds -> {Nowhere} \cup SUBSET SourceFiles]
      /\ dirs'[doing.id] = Nowhere /\ \A j \in SnapIds \ {doing.id} : dirs'[j] = dirs[j]
  BY <1>1, <1>2
<1>6. SnapShapes'
  BY <1>1, <1>2, <1>3, <1>5 DEF SnapInv, SnapShapes, SnapTypeOK
<1>7. DoingFits'
  BY <1>1, <1>3, <1>4, <1>5 DEF DoingFits
<1>8. IndexTrue(catalog)' /\ IndexTrue(catalogFile.read)'
  BY <1>1, <1>4, <1>5 DEF IndexTrue, SnapInv
<1>9. ListsReturned(catalog)' = ListsReturned(catalog)
      /\ ListsReturned(catalogFile.read)' = ListsReturned(catalogFile.read)
  BY <1>1 DEF ListsReturned
<1>10. /\ Strays(catalog)' \subseteq Strays(catalog)
       /\ Strays(catalogFile.read)' \subseteq Strays(catalogFile.read)
  BY <1>1, <1>2, <1>3, <1>5 DEF Strays
<1>11. (Strays(catalog) \cup Strays(catalogFile.read))' \subseteq Strays(catalog) \cup Strays(catalogFile.read)
  BY <1>10
<1>12. ~ forgotten => ListsReturned(catalog)' /\ Few(Strays(catalog)', mishaps)
  BY <1>2, <1>9, <1>10, FewerAreFew DEF SnapInv
<1>13. ~ forgotten /\ ~ catalogFile.cut =>
         /\ ListsReturned(catalogFile.read)'
         /\ Few((Strays(catalog) \cup Strays(catalogFile.read))', mishaps)
  BY <1>2, <1>9, <1>11, FewerAreFew DEF SnapInv
<1> QED
  BY <1>1, <1>6, <1>7, <1>8, <1>12, <1>13 DEF SnapInv

LEMMA SaveDeletedKeeps == ASSUME SnapInv, SaveDeleted PROVE SnapInv'
<1>1. /\ doing.step = "save delete" /\ catalogFile' = FileOf(catalog)
      /\ gone' = gone \cup {doing.id} /\ doing' = Resting
      /\ UNCHANGED <<catalog, dirs, used, returned, doomed, forgotten, mishaps>>
  BY DEF SaveDeleted
<1>2. /\ catalog \in Catalogs /\ mishaps \in Nat /\ doing # Resting
      /\ doing.id \in used /\ doing.id \in SnapIds
  BY <1>1, SnapFacts DEF CopiesOrRemoves
<1>3. /\ catalogFile' \in [cut : BOOLEAN, read : Catalogs] /\ catalogFile'.read = catalog
      /\ catalogFile'.read = catalog'
  BY <1>1, <1>2 DEF FileOf
<1>4. catalog[doing.id] = Nowhere /\ doing.id \in doomed /\ dirs[doing.id] = Nowhere
  BY <1>1 DEF SnapInv, DoingFits
<1>5. doing'.step = "idle"
  BY <1>1 DEF Resting
<1>6. SnapShapes'
  BY <1>1, <1>2, <1>3, <1>4, <1>5 DEF SnapInv, SnapShapes, SnapTypeOK
<1>7. DoingFits'
  BY <1>5 DEF DoingFits
<1>8. IndexTrue(catalog)' /\ IndexTrue(catalogFile.read)'
  BY <1>1, <1>3, <1>4 DEF IndexTrue, SnapInv
<1>9. ListsReturned(catalog) => ListsReturned(catalog)' /\ ListsReturned(catalogFile.read)'
  BY <1>1, <1>3 DEF ListsReturned
<1>10. Strays(catalog)' \subseteq Strays(catalog) /\ Strays(catalogFile.read)' \subseteq Strays(catalog)
  BY <1>1, <1>3, <1>4 DEF Strays
<1>11. (Strays(catalog) \cup Strays(catalogFile.read))' \subseteq Strays(catalog)
  BY <1>10
<1>12. ~ forgotten =>
         /\ ListsReturned(catalog)' /\ ListsReturned(catalogFile.read)'
         /\ Few(Strays(catalog)', mishaps)
         /\ Few((Strays(catalog) \cup Strays(catalogFile.read))', mishaps)
  BY <1>2, <1>9, <1>10, <1>11, FewerAreFew DEF SnapInv
<1> QED
  BY <1>1, <1>6, <1>7, <1>8, <1>12 DEF SnapInv

\* The directories that an index does not list, the one in hand among them.
Unlisted(listing) == {i \in SnapIds : dirs[i] # Nowhere /\ listing[i] = Nowhere}

\* What goes wrong leaves at most the directory in hand behind.
LEMMA OneLeftBehind ==
  ASSUME SnapInv
  PROVE  /\ ~ forgotten => Few(Unlisted(catalog), mishaps + 1)
         /\ ~ forgotten /\ ~ catalogFile.cut =>
              /\ Few(Unlisted(catalog) \cup Unlisted(catalogFile.read), mishaps + 1)
              /\ Few(Unlisted(catalogFile.read), mishaps + 1)
<1>1. /\ Unlisted(catalog) \subseteq Strays(catalog) \cup {doing.id}
      /\ Unlisted(catalogFile.read) \subseteq Strays(catalogFile.read) \cup {doing.id}
  BY DEF Unlisted, Strays
<1>2. mishaps \in Nat /\ mishaps + 1 \in Nat
  BY SnapFacts
<1>3. ~ forgotten => Few(Strays(catalog) \cup {doing.id}, mishaps + 1)
  BY <1>2, OneMoreIsFew DEF SnapInv
<1>4. ~ forgotten /\ ~ catalogFile.cut =>
        Few((Strays(catalog) \cup Strays(catalogFile.read)) \cup {doing.id}, mishaps + 1)
  BY <1>2, OneMoreIsFew DEF SnapInv
<1>5. /\ Unlisted(catalog) \cup Unlisted(catalogFile.read)
           \subseteq (Strays(catalog) \cup Strays(catalogFile.read)) \cup {doing.id}
      /\ Unlisted(catalogFile.read)
           \subseteq (Strays(catalog) \cup Strays(catalogFile.read)) \cup {doing.id}
  BY <1>1
<1>6. ~ forgotten => Few(Unlisted(catalog), mishaps + 1)
  BY <1>1, <1>2, <1>3, FewerAreFew
<1>7. ~ forgotten /\ ~ catalogFile.cut =>
        /\ Few(Unlisted(catalog) \cup Unlisted(catalogFile.read), mishaps + 1)
        /\ Few(Unlisted(catalogFile.read), mishaps + 1)
  BY <1>2, <1>4, <1>5, FewerAreFew
<1> QED
  BY <1>6, <1>7

\* The file of the index afterwards: as it was, or cut and read as empty.
LEMMA FileAfterMishap ==
  ASSUME SnapInv, CatalogFileAfter,
         UNCHANGED <<dirs, used, returned, doomed, gone>>, doing' = Resting
  PROVE  /\ catalogFile' \in [cut : BOOLEAN, read : Catalogs] /\ catalogFile'.read \in Catalogs
         /\ catalogFile' = catalogFile \/ catalogFile'.cut
         /\ IndexTrue(catalogFile.read)'
         /\ \A i \in SnapIds \ used : catalogFile'.read[i] = Nowhere
<1>1. /\ catalogFile \in [cut : BOOLEAN, read : Catalogs] /\ catalogFile.read \in Catalogs
      /\ gone \subseteq SnapIds
  BY SnapFacts
<1>2. /\ IndexTrue(catalogFile.read)
      /\ \A i \in SnapIds \ used : catalogFile.read[i] = Nowhere
  BY DEF SnapInv, SnapShapes
<1>3. CASE UNCHANGED catalogFile
  BY <1>1, <1>2, <1>3 DEF IndexTrue
<1>4. CASE catalogFile' = CutFile
  <2>1. NoSnapshots \in Catalogs /\ \A i \in SnapIds : NoSnapshots[i] = Nowhere
    BY DEF NoSnapshots, Catalogs
  <2>2. /\ catalogFile' \in [cut : BOOLEAN, read : Catalogs] /\ catalogFile'.read = NoSnapshots
        /\ catalogFile'.cut
    BY <1>4, <2>1 DEF CutFile
  <2> QED
    BY <1>1, <2>1, <2>2 DEF IndexTrue
<1> QED
  BY <1>3, <1>4 DEF CatalogFileAfter

LEMMA RaisesKeeps == ASSUME SnapInv, Raises PROVE SnapInv'
<1>1. /\ mishaps < MaxMishaps /\ mishaps' = mishaps + 1 /\ CatalogFileAfter /\ doing' = Resting
      /\ UNCHANGED <<catalog, dirs, used, returned, doomed, gone, forgotten>>
  BY DEF Raises, Mishap
<1>2. /\ catalogFile' \in [cut : BOOLEAN, read : Catalogs]
      /\ catalogFile' = catalogFile \/ catalogFile'.cut
      /\ IndexTrue(catalogFile.read)'
      /\ \A i \in SnapIds \ used : catalogFile'.read[i] = Nowhere
  BY <1>1, FileAfterMishap
<1>3. mishaps' \in 0..MaxMishaps
  <2>1. mishaps \in 0..MaxMishaps /\ MaxMishaps \in Nat
    BY SnapFacts, SnapshotAssumption
  <2> QED
    BY <1>1, <2>1
<1>4. doing'.step = "idle"
  BY <1>1 DEF Resting
<1>5. SnapShapes'
  BY <1>1, <1>2, <1>3, <1>4 DEF SnapInv, SnapShapes, SnapTypeOK
<1>6. DoingFits'
  BY <1>4 DEF DoingFits
<1>7. IndexTrue(catalog)' /\ ListsReturned(catalog)' = ListsReturned(catalog)
  BY <1>1 DEF IndexTrue, ListsReturned, SnapInv
<1>8. Strays(catalog)' = Unlisted(catalog)
  BY <1>1 DEF Strays, Unlisted
<1>9. ~ forgotten' => ListsReturned(catalog)' /\ Few(Strays(catalog), mishaps)'
  BY <1>1, <1>7, <1>8, OneLeftBehind DEF SnapInv, Few
<1>10. ~ forgotten' /\ ~ catalogFile'.cut =>
         /\ ListsReturned(catalogFile.read)'
         /\ Few(Strays(catalog) \cup Strays(catalogFile.read), mishaps)'
  <2> SUFFICES ASSUME ~ forgotten, ~ catalogFile'.cut
               PROVE  /\ ListsReturned(catalogFile.read)'
                      /\ Few(Strays(catalog) \cup Strays(catalogFile.read), mishaps)'
    BY <1>1
  <2>1. catalogFile' = catalogFile
    BY <1>2
  <2>2. Strays(catalogFile.read)' = Unlisted(catalogFile.read)
    BY <1>1, <2>1 DEF Strays, Unlisted
  <2>3. ListsReturned(catalogFile.read)'
    BY <1>1, <2>1 DEF ListsReturned, SnapInv
  <2> QED
    BY <1>1, <1>8, <2>1, <2>2, <2>3, OneLeftBehind DEF Few
<1> QED
  BY <1>2, <1>5, <1>6, <1>7, <1>9, <1>10 DEF SnapInv

LEMMA ReloadKeeps == ASSUME SnapInv, Reload PROVE SnapInv'
<1>1. /\ mishaps < MaxMishaps /\ mishaps' = mishaps + 1 /\ CatalogFileAfter /\ doing' = Resting
      /\ catalog' = catalogFile'.read /\ forgotten' = (forgotten \/ catalogFile'.cut)
      /\ UNCHANGED <<dirs, used, returned, doomed, gone>>
  BY DEF Reload, Mishap
<1>2. /\ catalogFile' \in [cut : BOOLEAN, read : Catalogs] /\ catalogFile'.read \in Catalogs
      /\ catalogFile' = catalogFile \/ catalogFile'.cut
      /\ IndexTrue(catalogFile.read)'
      /\ \A i \in SnapIds \ used : catalogFile'.read[i] = Nowhere
  BY <1>1, FileAfterMishap
<1>3. mishaps' \in 0..MaxMishaps
  <2>1. mishaps \in 0..MaxMishaps /\ MaxMishaps \in Nat
    BY SnapFacts, SnapshotAssumption
  <2> QED
    BY <1>1, <2>1
<1>4. doing'.step = "idle"
  BY <1>1 DEF Resting
<1>5. forgotten' \in BOOLEAN
  BY <1>1, <1>2, SnapFacts
<1>6. SnapShapes'
  BY <1>1, <1>2, <1>3, <1>4, <1>5 DEF SnapInv, SnapShapes, SnapTypeOK
<1>7. DoingFits'
  BY <1>4 DEF DoingFits
<1>8. IndexTrue(catalog)'
  BY <1>1, <1>2 DEF IndexTrue
<1>9. ~ forgotten' =>
        /\ ListsReturned(catalog)' /\ Few(Strays(catalog), mishaps)'
        /\ ListsReturned(catalogFile.read)'
        /\ Few(Strays(catalog) \cup Strays(catalogFile.read), mishaps)'
  <2> SUFFICES ASSUME ~ forgotten'
               PROVE  /\ ListsReturned(catalog)' /\ Few(Strays(catalog), mishaps)'
                      /\ ListsReturned(catalogFile.read)'
                      /\ Few(Strays(catalog) \cup Strays(catalogFile.read), mishaps)'
    OBVIOUS
  <2>1. ~ forgotten /\ catalogFile' = catalogFile /\ ~ catalogFile.cut
    BY <1>1, <1>2
  <2>2. Strays(catalogFile.read)' = Unlisted(catalogFile.read)
        /\ Strays(catalog)' = Unlisted(catalogFile.read)
    BY <1>1, <2>1 DEF Strays, Unlisted
  <2>3. (Strays(catalog) \cup Strays(catalogFile.read))' = Unlisted(catalogFile.read)
    BY <2>2
  <2>4. ListsReturned(catalogFile.read)' /\ ListsReturned(catalog)'
    BY <1>1, <2>1 DEF ListsReturned, SnapInv
  <2>5. Few(Unlisted(catalogFile.read), mishaps')
    BY <1>1, <2>1, OneLeftBehind
  <2> QED
    BY <2>2, <2>3, <2>4, <2>5 DEF Few
<1> QED
  BY <1>2, <1>6, <1>7, <1>8, <1>9 DEF SnapInv

LEMMA SnapStep == SnapInv /\ [SnapNext]_snapVars => SnapInv'
<1> SUFFICES ASSUME SnapInv, [SnapNext]_snapVars PROVE SnapInv'
  OBVIOUS
<1>1. CASE UNCHANGED snapVars
  BY <1>1 DEF SnapInv, SnapShapes, SnapTypeOK, DoingFits, IndexTrue, ListsReturned, Strays, Few, snapVars
<1>2. CASE \E i \in SnapIds : BeginDelete(i)
  BY <1>2, BeginDeleteKeeps
<1>3. CASE \E i \in SnapIds : \E S \in SUBSET SourceFiles : BeginCreate(i, S)
  BY <1>3, BeginCreateKeeps
<1>4. CASE \E f \in SourceFiles : CopyFile(f)
  BY <1>4, CopyFileKeeps
<1>5. CASE \E f \in SourceFiles : RemoveFile(f)
  BY <1>5, RemoveFileKeeps
<1> QED
  BY <1>1, <1>2, <1>3, <1>4, <1>5, EnterCatalogKeeps, SaveCreatedKeeps, RemoveDirectoryKeeps,
     SaveDeletedKeeps, RaisesKeeps, ReloadKeeps DEF SnapNext

\* The type invariant of the snapshots.
THEOREM SnapshotTypes == SnapSpec => []SnapTypeOK
<1>1. SnapInv => SnapTypeOK
  BY DEF SnapInv, SnapShapes
<1> QED
  BY <1>1, SnapInitially, SnapStep, PTL DEF SnapSpec

LEMMA SnapInvIsEnough == SnapInv => CatalogMeansDirectories
<1> SUFFICES ASSUME SnapInv PROVE CatalogMeansDirectories
  OBVIOUS
<1>1. ListedIsWhole /\ GoneStaysGone
  BY DEF SnapInv, IndexTrue, ListedIsWhole, GoneStaysGone
<1>2. SnapshotsSurvive
  BY DEF SnapInv, ListsReturned, SnapshotsSurvive
<1>3. StrayDirectoriesBounded
  BY DEF SnapInv, Strays, Few, StrayDirectoriesBounded
<1> QED
  BY <1>1, <1>2, <1>3 DEF CatalogMeansDirectories

\* A snapshot that is listed has all its files, what create returned stays
\* listed until a delete begins or a cut index is loaded, what delete has
\* removed is never listed again, and at most one directory per mishap lies
\* about unlisted (create, delete and _load_index of snapshot/manager.py).
THEOREM SnapshotsAgree == SnapSpec => []CatalogMeansDirectories
  BY SnapInitially, SnapStep, SnapInvIsEnough, PTL DEF SnapSpec

-----------------------------------------------------------------------------
(***************************************************************************)
(* The migrations.  The statements of a version take effect from the first *)
(* on; who is in its script, and whether it was broken off, tells how far. *)
(***************************************************************************)
AtScript(p, v) == run[p].at = "script" /\ run[p].version = v

RunOK(p) ==
  \/ run[p] = NotAtIt
  \/ run[p] \in [at : {"script"}, version : Versions, next : 1..(Statements + 1)]

\* What took effect is what was executed: nothing in a version that nobody
\* began, a beginning in one that is under way, all in one that is recorded.
EffectsFit(v) ==
  /\ \A p \in Processes : AtScript(p, v) => \A s \in 1..Statements : s < run[p].next => effects[v][s] > 0
  /\ v \in recorded => \A s \in 1..Statements : effects[v][s] > 0
  /\ strict => \A s \in 1..Statements : effects[v][s] <= 1
  /\ v \notin broken \cup overlapped =>
       \A s \in 1..Statements :
         /\ effects[v][s] <= 1
         /\ v \notin recorded /\ (\A p \in Processes : AtScript(p, v) => s >= run[p].next) => effects[v][s] = 0

\* A version is run by one process at a time, and by none once it is recorded,
\* unless two looked it up before either recorded it.
RunAlone(v) ==
  v \notin overlapped =>
    /\ \A p, q \in Processes : AtScript(p, v) /\ AtScript(q, v) => p = q
    /\ v \in recorded => \A p \in Processes : ~ AtScript(p, v)

\* A broken version whose statements cannot be repeated gets no further.
StuckAtFirst(v) ==
  v \in broken \ overlapped /\ strict =>
    /\ v \notin recorded /\ effects[v][1] > 0
    /\ \A p \in Processes : AtScript(p, v) => run[p].next = 1

MigrationsInv ==
  /\ strict \in BOOLEAN
  /\ run = [p \in Processes |-> run[p]] /\ \A p \in Processes : RunOK(p)
  /\ effects \in [Versions -> [1..Statements -> Nat]]
  /\ recorded \subseteq Versions /\ broken \subseteq Versions /\ overlapped \subseteq Versions
  /\ known \subseteq Processes
  /\ row \in {"", "words", "digits", "json text"}
  /\ row # "" => given \in {"words", "digits", "object"} /\ row = Stored(given)
  /\ \A v \in Versions : EffectsFit(v) /\ RunAlone(v) /\ StuckAtFirst(v)

LEMMA MigrationsInitially == MigrationsInit => MigrationsInv
<1> SUFFICES ASSUME MigrationsInit PROVE MigrationsInv
  OBVIOUS
<1>1. /\ strict \in BOOLEAN /\ run = [p \in Processes |-> NotAtIt]
      /\ effects = [v \in Versions |-> [s \in 1..Statements |-> 0]]
      /\ recorded = {} /\ overlapped = {} /\ broken = {} /\ known = {} /\ row = ""
  BY DEF MigrationsInit
<1>2. \A p \in Processes : run[p] = NotAtIt /\ \A v : ~ AtScript(p, v)
  BY <1>1 DEF AtScript, NotAtIt
<1>3. \A v \in Versions : \A s \in 1..Statements : effects[v][s] = 0
  BY <1>1
<1>4. \A v \in Versions : EffectsFit(v) /\ RunAlone(v) /\ StuckAtFirst(v)
  <2> SUFFICES ASSUME NEW v \in Versions PROVE EffectsFit(v) /\ RunAlone(v) /\ StuckAtFirst(v)
    OBVIOUS
  <2>1. EffectsFit(v)
    <3>1. \A s \in 1..Statements : effects[v][s] = 0 /\ effects[v][s] <= 1
      BY <1>3
    <3>2. v \notin recorded /\ \A p \in Processes : ~ AtScript(p, v)
      BY <1>1, <1>2
    <3> QED
      BY <3>1, <3>2 DEF EffectsFit
  <2>2. RunAlone(v) /\ StuckAtFirst(v)
    BY <1>1, <1>2 DEF RunAlone, StuckAtFirst
  <2> QED
    BY <2>1, <2>2
<1>5. effects \in [Versions -> [1..Statements -> Nat]]
  BY <1>1
<1> QED
  BY <1>1, <1>2, <1>4, <1>5 DEF MigrationsInv, RunOK

LEMMA MigrationsStep == MigrationsInv /\ [MigrationsNext]_migrationVars => MigrationsInv'
<1> SUFFICES ASSUME MigrationsInv, [MigrationsNext]_migrationVars PROVE MigrationsInv'
  OBVIOUS
<1>0. Statements \in Nat /\ 1 \in 1..Statements /\ 1 \in 1..(Statements + 1)
  BY MigrationsAssumption
<1>a. /\ run = [p \in Processes |-> run[p]] /\ \A p \in Processes : RunOK(p)
      /\ effects \in [Versions -> [1..Statements -> Nat]]
  BY DEF MigrationsInv
<1>b. \A p \in Processes : run[p].at = "script" =>
        /\ run[p] \in [at : {"script"}, version : Versions, next : 1..(Statements + 1)]
        /\ run[p].version \in Versions /\ run[p].next \in 1..(Statements + 1)
  BY <1>a DEF RunOK, NotAtIt
<1>c. \A p \in Processes : run[p].at # "script" => run[p] = NotAtIt /\ run[p].next = 1
  BY <1>a DEF RunOK, NotAtIt
<1>1. ASSUME NEW p \in Processes, NEW v \in Versions, LookUp(p, v) PROVE MigrationsInv'
  <2>1. /\ run[p] = NotAtIt /\ v \notin recorded
        /\ run' = [run EXCEPT ![p] = [at |-> "script", version |-> v, next |-> 1]]
        /\ overlapped' = overlapped \cup {w \in {v} : \E q \in Processes : run[q].version = w}
        /\ UNCHANGED <<strict, effects, recorded, broken, known, row, given>>
    BY <1>1 DEF LookUp, dataVars
  <2>2. /\ run'[p] = [at |-> "script", version |-> v, next |-> 1]
        /\ \A q \in Processes \ {p} : run'[q] = run[q]
        /\ run' = [q \in Processes |-> run'[q]]
    BY <2>1 DEF MigrationsInv
  <2>3. /\ AtScript(p, v)' /\ \A w : w # v => ~ AtScript(p, w)'
        /\ \A q \in Processes \ {p} : \A w : AtScript(q, w)' <=> AtScript(q, w)
        /\ \A w : ~ AtScript(p, w)
    BY <2>1, <2>2 DEF AtScript, NotAtIt
  <2>4. \A q \in Processes : RunOK(q)'
    BY <2>2, <1>0, <1>a DEF RunOK
  <2>5. ASSUME NEW w \in Versions PROVE EffectsFit(w)' /\ RunAlone(w)' /\ StuckAtFirst(w)'
    <3>1. EffectsFit(w) /\ RunAlone(w) /\ StuckAtFirst(w)
      BY DEF MigrationsInv
    <3>2. effects[w] \in [1..Statements -> Nat]
      BY DEF MigrationsInv
    <3>3. w = v /\ w \notin overlapped' => \A q \in Processes : ~ AtScript(q, w)
      BY <2>1 DEF AtScript
    <3>4. EffectsFit(w)'
      BY <2>1, <2>2, <2>3, <3>1, <3>2, <3>3 DEF EffectsFit
    <3>5. RunAlone(w)'
      BY <2>1, <2>3, <3>1, <3>3 DEF RunAlone
    <3>6. StuckAtFirst(w)'
      BY <2>1, <2>2, <2>3, <3>1 DEF StuckAtFirst
    <3> QED
      BY <3>4, <3>5, <3>6
  <2> QED
    BY <2>1, <2>2, <2>4, <2>5 DEF MigrationsInv
<1>2. ASSUME NEW p \in Processes, Statement(p) PROVE MigrationsInv'
  <2> DEFINE v == run[p].version
             s == run[p].next
  <2>1. /\ run[p].at = "script" /\ s <= Statements /\ (strict => effects[v][s] = 0)
        /\ effects' = [effects EXCEPT ![v][s] = @ + 1]
        /\ run' = [run EXCEPT ![p].next = @ + 1]
        /\ UNCHANGED <<strict, recorded, overlapped, broken, known, row, given>>
    BY <1>2 DEF Statement, dataVars
  <2>2. /\ run[p] \in [at : {"script"}, version : Versions, next : 1..(Statements + 1)]
        /\ v \in Versions /\ s \in 1..Statements
    BY <2>1, <1>0, <1>b
  <2>3. /\ run'[p] \in [at : {"script"}, version : Versions, next : 1..(Statements + 1)]
        /\ run'[p].at = "script" /\ run'[p].version = v /\ run'[p].next = s + 1
        /\ \A q \in Processes \ {p} : run'[q] = run[q]
        /\ run' = [q \in Processes |-> run'[q]]
    <3>1. /\ run'[p] = [run[p] EXCEPT !.next = @ + 1]
          /\ \A q \in Processes \ {p} : run'[q] = run[q]
          /\ run' = [q \in Processes |-> run'[q]]
      BY <2>1, <1>a
    <3>2. s + 1 \in 1..(Statements + 1)
      BY <2>1, <2>2, <1>0
    <3> QED
      BY <2>2, <3>1, <3>2
  <2>4. /\ effects' \in [Versions -> [1..Statements -> Nat]]
        /\ effects'[v][s] = effects[v][s] + 1
        /\ \A w \in Versions \ {v} : effects'[w] = effects[w]
        /\ \A t \in (1..Statements) \ {s} : effects'[v][t] = effects[v][t]
    <3> HIDE DEF v, s
    <3>1. effects[v] \in [1..Statements -> Nat] /\ effects[v][s] \in Nat
      BY <2>2, <1>a
    <3>2. effects' = [effects EXCEPT ![v] = [effects[v] EXCEPT ![s] = effects[v][s] + 1]]
      BY <2>1
    <3>3. [effects[v] EXCEPT ![s] = effects[v][s] + 1] \in [1..Statements -> Nat]
      BY <2>2, <3>1
    <3> QED
      BY <2>2, <3>1, <3>2, <3>3, <1>a
  <2> HIDE DEF v, s
  <2>5. /\ \A q \in Processes, w \in Versions : AtScript(q, w)' <=> AtScript(q, w)
        /\ AtScript(p, v)
    BY <2>1, <2>3 DEF AtScript, v
  <2>6. \A q \in Processes : RunOK(q)'
    BY <2>3 DEF MigrationsInv, RunOK
  <2>7. ASSUME NEW w \in Versions PROVE EffectsFit(w)' /\ RunAlone(w)' /\ StuckAtFirst(w)'
    <3>1. EffectsFit(w) /\ RunAlone(w) /\ StuckAtFirst(w)
      BY DEF MigrationsInv
    <3>2. effects[w] \in [1..Statements -> Nat]
      BY DEF MigrationsInv
    <3>3. RunAlone(w)'
      BY <2>1, <2>5, <3>1 DEF RunAlone
    <3>4. CASE w # v
      <4>1. \A q \in Processes : AtScript(q, w) => run'[q] = run[q]
        BY <2>3, <2>5, <3>4 DEF AtScript
      <4>2. EffectsFit(w)'
        BY <2>1, <2>4, <2>5, <3>1, <3>4, <4>1 DEF EffectsFit
      <4>3. StuckAtFirst(w)'
        BY <2>1, <2>4, <2>5, <3>1, <3>4, <4>1 DEF StuckAtFirst
      <4> QED
        BY <3>3, <4>2, <4>3
    <3>5. CASE w = v
      <4>1. run[p].next = s
        BY DEF s
      <4>2. effects[w][s] \in Nat
        BY <2>2, <3>2
      <4>3. /\ \A q \in Processes : AtScript(q, w)' =>
                 \A t \in 1..Statements : t < run'[q].next => effects'[w][t] > 0
            /\ w \in recorded' => \A t \in 1..Statements : effects'[w][t] > 0
        <5>1. \A t \in 1..Statements : effects[w][t] > 0 => effects'[w][t] > 0
          <6> SUFFICES ASSUME NEW t \in 1..Statements, effects[w][t] > 0 PROVE effects'[w][t] > 0
            OBVIOUS
          <6>1. effects[w][t] \in Nat
            BY <3>2
          <6>2. effects'[w][t] = effects[w][t] \/ effects'[w][t] = effects[w][t] + 1
            BY <2>4, <3>5
          <6> QED
            BY <6>1, <6>2
        <5>2. effects'[w][s] > 0
          BY <2>4, <3>5, <4>2
        <5>3. \A t \in 1..Statements : t < s + 1 => t = s \/ t < s
          BY <2>2
        <5> QED
          BY <2>1, <2>2, <2>3, <2>5, <3>1, <3>5, <4>1, <5>1, <5>2, <5>3 DEF EffectsFit
      <4>4. strict' => \A t \in 1..Statements : effects'[w][t] <= 1
        BY <2>1, <2>2, <2>4, <3>1, <3>5 DEF EffectsFit
      <4>5. w \notin broken \cup overlapped =>
              /\ w \notin recorded /\ effects[w][s] = 0
              /\ \A q \in Processes : AtScript(q, w) => q = p
        <5> SUFFICES ASSUME w \notin broken \cup overlapped
                     PROVE  /\ w \notin recorded /\ effects[w][s] = 0
                            /\ \A q \in Processes : AtScript(q, w) => q = p
          OBVIOUS
        <5>1. w \notin recorded /\ \A q \in Processes : AtScript(q, w) => q = p
          BY <2>5, <3>1, <3>5 DEF RunAlone
        <5>2. \A q \in Processes : AtScript(q, w) => s >= run[q].next
          BY <5>1, <4>1, <2>2
        <5> QED
          BY <5>1, <5>2, <2>2, <3>1 DEF EffectsFit
      <4>6. w \notin (broken \cup overlapped)' =>
              \A t \in 1..Statements :
                /\ effects'[w][t] <= 1
                /\ w \notin recorded' /\ (\A q \in Processes : AtScript(q, w)' => t >= run'[q].next)
                     => effects'[w][t] = 0
        <5> SUFFICES ASSUME w \notin broken \cup overlapped, NEW t \in 1..Statements
                     PROVE  /\ effects'[w][t] <= 1
                            /\ (\A q \in Processes : AtScript(q, w)' => t >= run'[q].next)
                                 => effects'[w][t] = 0
          BY <2>1
        <5>1. CASE t = s
          <6>1. effects'[w][t] = 1
            BY <2>4, <3>5, <4>5, <5>1
          <6>2. AtScript(p, w)' /\ ~ (t >= run'[p].next)
            BY <2>2, <2>3, <2>5, <3>5, <5>1
          <6> QED
            BY <6>1, <6>2
        <5>2. CASE t # s
          <6>1. effects'[w][t] = effects[w][t]
            BY <2>4, <3>5, <5>2
          <6>2. AtScript(p, w)' /\ (t >= run'[p].next => t >= run[p].next)
            BY <2>2, <2>3, <2>5, <3>5, <4>1
          <6>3. (\A q \in Processes : AtScript(q, w)' => t >= run'[q].next)
                  => \A q \in Processes : AtScript(q, w) => t >= run[q].next
            BY <6>2, <4>5
          <6> QED
            BY <3>1, <4>5, <6>1, <6>3 DEF EffectsFit
        <5> QED
          BY <5>1, <5>2
      <4>7. EffectsFit(w)'
        BY <4>3, <4>4, <4>6 DEF EffectsFit
      <4>8. ~ (w \in broken \ overlapped /\ strict)
        <5> SUFFICES ASSUME w \in broken \ overlapped, strict PROVE FALSE
          OBVIOUS
        <5>1. s = 1 /\ effects[w][1] > 0
          BY <2>5, <3>1, <3>5, <4>1 DEF StuckAtFirst
        <5> QED
          BY <2>1, <3>5, <5>1, <4>2
      <4>9. StuckAtFirst(w)'
        BY <2>1, <4>8 DEF StuckAtFirst
      <4> QED
        BY <3>3, <4>7, <4>9
    <3> QED
      BY <3>4, <3>5
  <2>8. effects' \in [Versions -> [1..Statements -> Nat]] /\ run' = [q \in Processes |-> run'[q]]
    BY <2>3, <2>4
  <2> QED
    BY <2>1, <2>6, <2>7, <2>8 DEF MigrationsInv

<1>3. ASSUME NEW p \in Processes, StatementFails(p) PROVE MigrationsInv'
  <2> DEFINE v == run[p].version
             s == run[p].next
  <2>1. /\ run[p].at = "script" /\ s <= Statements /\ strict /\ effects[v][s] > 0
        /\ broken' = broken \cup {v} /\ run' = [run EXCEPT ![p] = NotAtIt]
        /\ UNCHANGED <<strict, effects, recorded, overlapped, known, row, given>>
    BY <1>3 DEF StatementFails, dataVars
  <2>2. v \in Versions /\ s \in 1..Statements
    BY <2>1, <1>0, <1>b
  <2>3. /\ run'[p] = NotAtIt /\ \A q \in Processes \ {p} : run'[q] = run[q]
        /\ run' = [q \in Processes |-> run'[q]]
    BY <2>1 DEF MigrationsInv
  <2> HIDE DEF v, s
  <2>4. /\ AtScript(p, v) /\ \A w : ~ AtScript(p, w)'
        /\ \A q \in Processes \ {p} : \A w : AtScript(q, w)' <=> AtScript(q, w)
    BY <2>1, <2>3 DEF AtScript, NotAtIt, v
  <2>5. \A q \in Processes : RunOK(q)'
    BY <2>3 DEF MigrationsInv, RunOK
  <2>6. ASSUME NEW w \in Versions PROVE EffectsFit(w)' /\ RunAlone(w)' /\ StuckAtFirst(w)'
    <3>1. EffectsFit(w) /\ RunAlone(w) /\ StuckAtFirst(w)
      BY DEF MigrationsInv
    <3>2. effects[w] \in [1..Statements -> Nat]
      BY DEF MigrationsInv
    <3>3. w # v => ~ AtScript(p, w)
      BY DEF AtScript, v
    <3>4. EffectsFit(w)'
      BY <2>1, <2>3, <2>4, <3>1, <3>3 DEF EffectsFit
    <3>5. RunAlone(w)'
      BY <2>1, <2>4, <3>1 DEF RunAlone
    <3>6. CASE w # v
      <4>1. (w \in broken' <=> w \in broken) /\ \A q \in Processes : AtScript(q, w)' => AtScript(q, w) /\ run'[q] = run[q]
        BY <2>1, <2>3, <2>4, <3>6
      <4> QED
        <5>1. w \in broken \ overlapped /\ strict =>
                /\ w \notin recorded /\ effects[w][1] > 0
                /\ \A q \in Processes : AtScript(q, w) => run[q].next = 1
          BY <3>1 DEF StuckAtFirst
        <5>2. w \in broken' \ overlapped' /\ strict' =>
                /\ w \notin recorded' /\ effects'[w][1] > 0
                /\ \A q \in Processes : AtScript(q, w)' => run'[q].next = 1
          BY <2>1, <4>1, <5>1
        <5> QED
          BY <3>4, <3>5, <5>2 DEF StuckAtFirst
    <3>7. CASE w = v
      <4>1. w \notin overlapped => effects[w][1] > 0
        <5>1. CASE s = 1
          BY <2>1, <3>7, <5>1
        <5>2. CASE s # 1
          <6>1. 1 < run[p].next
            BY <2>2, <5>2 DEF s
          <6> QED
            BY <1>0, <2>4, <3>1, <3>7, <6>1 DEF EffectsFit
        <5> QED
          BY <5>1, <5>2
      <4>2. w \notin overlapped => w \notin recorded /\ \A q \in Processes : ~ AtScript(q, w)'
        BY <2>1, <2>4, <3>1, <3>7 DEF RunAlone
      <4> QED
        BY <2>1, <3>4, <3>5, <4>1, <4>2 DEF StuckAtFirst
    <3> QED
      BY <3>4, <3>5, <3>6, <3>7
  <2>7. broken' \subseteq Versions
    BY <2>1, <2>2 DEF MigrationsInv
  <2> QED
    BY <2>1, <2>3, <2>5, <2>6, <2>7 DEF MigrationsInv
<1>4. ASSUME NEW p \in Processes, RecordVersion(p) PROVE MigrationsInv'
  <2> DEFINE v == run[p].version
  <2>1. /\ run[p].at = "script" /\ run[p].next > Statements
        /\ recorded' = recorded \cup {v} /\ run' = [run EXCEPT ![p] = NotAtIt]
        /\ UNCHANGED <<strict, effects, overlapped, broken, known, row, given>>
    BY <1>4 DEF RecordVersion, dataVars
  <2>2. v \in Versions /\ run[p].next \in Nat
    BY <2>1, <1>0, <1>b
  <2>3. /\ run'[p] = NotAtIt /\ \A q \in Processes \ {p} : run'[q] = run[q]
        /\ run' = [q \in Processes |-> run'[q]]
    BY <2>1 DEF MigrationsInv
  <2> HIDE DEF v
  <2>4. /\ AtScript(p, v) /\ \A w : ~ AtScript(p, w)'
        /\ \A q \in Processes \ {p} : \A w : AtScript(q, w)' <=> AtScript(q, w)
    BY <2>1, <2>3 DEF AtScript, NotAtIt, v
  <2>5. \A q \in Processes : RunOK(q)'
    BY <2>3 DEF MigrationsInv, RunOK
  <2>6. ASSUME NEW w \in Versions PROVE EffectsFit(w)' /\ RunAlone(w)' /\ StuckAtFirst(w)'
    <3>1. EffectsFit(w) /\ RunAlone(w) /\ StuckAtFirst(w)
      BY DEF MigrationsInv
    <3>2. effects[w] \in [1..Statements -> Nat]
      BY DEF MigrationsInv
    <3>3. w # v => ~ AtScript(p, w)
      BY DEF AtScript, v
    <3>4. CASE w # v
      <4>1. recorded' \subseteq recorded \cup {v} /\ (w \in recorded' <=> w \in recorded)
        BY <2>1, <3>4
      <4> QED
        BY <2>1, <2>3, <2>4, <3>1, <3>3, <3>4, <4>1 DEF EffectsFit, RunAlone, StuckAtFirst
    <3>5. CASE w = v
      <4>1. \A s \in 1..Statements : s < run[p].next
        BY <1>0, <2>1, <2>2
      <4>2. \A s \in 1..Statements : effects[w][s] > 0
        BY <2>4, <3>1, <3>5, <4>1 DEF EffectsFit
      <4>3. EffectsFit(w)'
        <5>1. w \in recorded'
          BY <2>1, <3>5
        <5>2. \A q \in Processes : AtScript(q, w)' => AtScript(q, w) /\ run'[q] = run[q]
          BY <2>3, <2>4
        <5> QED
          BY <2>1, <3>1, <4>2, <5>1, <5>2 DEF EffectsFit
      <4>4. RunAlone(w)'
        BY <2>1, <2>4, <3>1, <3>5 DEF RunAlone
      <4>5. ~ (w \in broken \ overlapped /\ strict)
        <5> SUFFICES ASSUME w \in broken \ overlapped, strict PROVE FALSE
          OBVIOUS
        <5>1. run[p].next = 1
          BY <2>4, <3>1, <3>5 DEF StuckAtFirst
        <5> QED
          BY <4>1, <1>0, <5>1
      <4> QED
        BY <2>1, <4>3, <4>4, <4>5 DEF StuckAtFirst
    <3> QED
      BY <3>4, <3>5
  <2>7. recorded' \subseteq Versions
    BY <2>1, <2>2 DEF MigrationsInv
  <2> QED
    BY <2>1, <2>3, <2>5, <2>6, <2>7 DEF MigrationsInv
<1>5. ASSUME NEW p \in Processes, Crash(p) PROVE MigrationsInv'
  <2> DEFINE v == run[p].version
             Cut == {w \in Versions : run[p].version = w /\ run[p].next > 1}
  <2>1. /\ broken' = broken \cup Cut /\ run' = [run EXCEPT ![p] = NotAtIt] /\ known' = known \ {p}
        /\ UNCHANGED <<strict, effects, recorded, overlapped, row, given>>
    BY <1>5 DEF Crash
  <2>2. run[p].at = "script" => v \in Versions /\ run[p].next \in 1..(Statements + 1)
    BY <1>b
  <2>3. /\ run'[p] = NotAtIt /\ \A q \in Processes \ {p} : run'[q] = run[q]
        /\ run' = [q \in Processes |-> run'[q]]
    BY <2>1 DEF MigrationsInv
  <2>4. /\ \A w : ~ AtScript(p, w)'
        /\ \A q \in Processes \ {p} : \A w : AtScript(q, w)' <=> AtScript(q, w)
    BY <2>3 DEF AtScript, NotAtIt
  <2>5. \A q \in Processes : RunOK(q)'
    BY <2>3 DEF MigrationsInv, RunOK
  <2>6. \A w \in Versions : w \in Cut <=> AtScript(p, w) /\ run[p].next > 1
    BY <1>b, <1>c DEF AtScript
  <2> HIDE DEF v, Cut
  <2>7. ASSUME NEW w \in Versions PROVE EffectsFit(w)' /\ RunAlone(w)' /\ StuckAtFirst(w)'
    <3>1. EffectsFit(w) /\ RunAlone(w) /\ StuckAtFirst(w)
      BY DEF MigrationsInv
    <3>2. effects[w] \in [1..Statements -> Nat]
      BY DEF MigrationsInv
    <3>3. RunAlone(w)'
      BY <2>1, <2>4, <3>1 DEF RunAlone
    <3>4. \A q \in Processes : AtScript(q, w)' => AtScript(q, w) /\ run'[q] = run[q]
      BY <2>3, <2>4
    <3>5. CASE w \in Cut
      <4>1. AtScript(p, w) /\ run[p].next > 1 /\ w \in broken'
        BY <2>1, <2>6, <3>5
      <4>2. EffectsFit(w)'
        BY <2>1, <3>1, <3>4, <4>1 DEF EffectsFit
      <4>3. w \notin overlapped => w \notin recorded /\ \A q \in Processes : ~ AtScript(q, w)'
        BY <2>4, <3>1, <4>1 DEF RunAlone
      <4>4. effects[w][1] > 0
        BY <1>0, <3>1, <4>1 DEF EffectsFit
      <4> QED
        BY <2>1, <3>3, <4>2, <4>3, <4>4 DEF StuckAtFirst
    <3>6. CASE w \notin Cut
      <4>1. w \in broken' <=> w \in broken
        BY <2>1, <3>6
      <4>2. AtScript(p, w) => run[p].next = 1
        BY <2>2, <2>6, <3>6 DEF AtScript, v
      <4>3. w \notin broken \cup overlapped =>
              \A s \in 1..Statements :
                w \notin recorded /\ (\A q \in Processes : AtScript(q, w)' => s >= run'[q].next)
                  => effects[w][s] = 0
        <5> SUFFICES ASSUME w \notin broken \cup overlapped, NEW s \in 1..Statements, w \notin recorded,
                            \A q \in Processes : AtScript(q, w)' => s >= run'[q].next
                     PROVE  effects[w][s] = 0
          OBVIOUS
        <5>1. \A q \in Processes : AtScript(q, w) => s >= run[q].next
          <6> SUFFICES ASSUME NEW q \in Processes, AtScript(q, w) PROVE s >= run[q].next
            OBVIOUS
          <6>1. CASE q = p
            BY <4>2, <6>1
          <6>2. CASE q # p
            BY <2>3, <2>4, <6>2
          <6> QED
            BY <6>1, <6>2
        <5> QED
          BY <3>1, <5>1 DEF EffectsFit
      <4>4. EffectsFit(w)'
        BY <2>1, <3>1, <3>4, <4>1, <4>3 DEF EffectsFit
      <4>5. StuckAtFirst(w)'
        BY <2>1, <3>1, <3>4, <4>1 DEF StuckAtFirst
      <4> QED
        BY <3>3, <4>4, <4>5
    <3> QED
      BY <3>5, <3>6
  <2>8. broken' \subseteq Versions /\ known' \subseteq Processes
    BY <2>1 DEF MigrationsInv, Cut
  <2> QED
    BY <2>1, <2>3, <2>5, <2>7, <2>8 DEF MigrationsInv
<1>6. ASSUME UNCHANGED <<strict, run, effects, recorded, overlapped, broken>>,
             known' \subseteq Processes, row' \in {"", "words", "digits", "json text"},
             row' # "" => given' \in {"words", "digits", "object"} /\ row' = Stored(given')
      PROVE  MigrationsInv'
  <2>1. \A p \in Processes : RunOK(p)'
    BY <1>6, <1>a DEF RunOK
  <2>2. ASSUME NEW v \in Versions PROVE EffectsFit(v)' /\ RunAlone(v)' /\ StuckAtFirst(v)'
    <3>1. EffectsFit(v) /\ RunAlone(v) /\ StuckAtFirst(v)
      BY DEF MigrationsInv
    <3>2. EffectsFit(v)'
      BY <1>6, <3>1 DEF EffectsFit, AtScript
    <3>3. RunAlone(v)'
      BY <1>6, <3>1 DEF RunAlone, AtScript
    <3>4. StuckAtFirst(v)'
      BY <1>6, <3>1 DEF StuckAtFirst, AtScript
    <3> QED
      BY <3>2, <3>3, <3>4
  <2> QED
    BY <1>6, <2>1, <2>2 DEF MigrationsInv, Stored
<1>7. ASSUME NEW p \in Processes, CreateTable(p) PROVE MigrationsInv'
  BY <1>6, <1>7 DEF CreateTable, MigrationsInv
<1>8. ASSUME NEW value \in {"words", "digits", "object"}, Insert(value) PROVE MigrationsInv'
  <2>1. Stored(value) \in {"words", "digits", "json text"}
    BY DEF Stored
  <2> QED
    BY <1>6, <1>8, <2>1 DEF Insert, MigrationsInv
<1>9. CASE UNCHANGED migrationVars
  BY <1>6, <1>9 DEF migrationVars, MigrationsInv
<1> QED
  BY <1>1, <1>2, <1>3, <1>4, <1>5, <1>7, <1>8, <1>9 DEF MigrationsNext

LEMMA MigrationsInvIsEnough == MigrationsInv => MigrationsSound
<1> SUFFICES ASSUME MigrationsInv PROVE MigrationsSound
  OBVIOUS
<1>1. MigratedOnce
  BY DEF MigrationsInv, EffectsFit, MigratedOnce
<1>2. BrokenStaysBroken
  BY DEF MigrationsInv, StuckAtFirst, BrokenStaysBroken
<1>3. SelectedAsGiven
  BY DEF MigrationsInv, SelectedAsGiven, Selected, Stored
<1> QED
  BY <1>1, <1>2, <1>3 DEF MigrationsSound

-----------------------------------------------------------------------------
(***************************************************************************)
(* Objects in JSON files.  What the calls do to an object does not matter: *)
(* a holder that has seen the last write has what the file has, or will    *)
(* have when the write ends, and all calls together made the same object   *)
(* unless a holder wrote from an old copy or a write was cut off.          *)
(***************************************************************************)
UpToDate(h) == h \in open /\ knows[h] = revision

RecordsInv ==
  /\ RecordsTypeOK
  /\ held = [h \in Holders |-> held[h]]
  /\ stale \in BOOLEAN /\ cut \in BOOLEAN
  /\ file = [is |-> file.is, data |-> file.data]
  /\ file.is = "none" => file.data = NewObject(keeper)
  \* The writer is one of those that have the object open, and the only one of
  \* them that has seen its write.
  /\ writer # "nobody" =>
       /\ writer \in open /\ knows[writer] = revision /\ revision > 0
       /\ \A h \in Holders : UpToDate(h) => h = writer
  /\ writer = "nobody" /\ ~ cut => file.is # "torn"
  /\ \A h \in Holders : UpToDate(h) /\ writer = "nobody" =>
       held[h] = (IF file.is = "whole" THEN file.data ELSE NewObject(keeper))
  /\ ~ stale /\ ~ cut =>
       /\ writer = "nobody" => file.data = truth
       /\ \A h \in Holders : UpToDate(h) => held[h] = truth

LEMMA RecordsInitially == RecordsInit => RecordsInv
<1> SUFFICES ASSUME RecordsInit PROVE RecordsInv
  OBVIOUS
<1>1. /\ keeper \in Keepers /\ held = [h \in Holders |-> NewObject(keeper)] /\ open = {}
      /\ file = [is |-> "none", data |-> NewObject(keeper)]
      /\ writer = "nobody" /\ now = 0 /\ revision = 0 /\ knows = [h \in Holders |-> 0]
      /\ truth = NewObject(keeper) /\ stale = FALSE /\ cut = FALSE
  BY DEF RecordsInit
<1>2. RecordsTypeOK
  BY <1>1, RecordsAssumption DEF RecordsTypeOK
<1>3. file.is = "none" /\ file.data = NewObject(keeper)
  BY <1>1
<1>4. file = [is |-> file.is, data |-> file.data] /\ held = [h \in Holders |-> held[h]]
  BY <1>1, <1>3
<1> QED
  BY <1>1, <1>2, <1>3, <1>4 DEF RecordsInv, UpToDate

LEMMA OpenKeeps == ASSUME RecordsInv, NEW h \in Holders, Open(h) PROVE RecordsInv'
<1>1. /\ h \notin open /\ writer # h /\ open' = open \cup {h}
      /\ held' = [held EXCEPT ![h] = IF file.is = "whole" THEN file.data ELSE NewObject(keeper)]
      /\ knows' = [knows EXCEPT ![h] = IF writer = "nobody" THEN revision ELSE revision - 1]
      /\ UNCHANGED <<keeper, file, writer, now, revision, truth, stale, cut>>
  BY DEF Open
<1>2. /\ knows \in [Holders -> 0..revision] /\ revision \in Nat
      /\ open \subseteq Holders /\ writer \in Holders \cup {"nobody"}
      /\ RecordsTypeOK
  BY RecordsAssumption DEF RecordsInv, RecordsTypeOK
<1>3. /\ held' = [g \in Holders |-> held'[g]]
      /\ held'[h] = (IF file.is = "whole" THEN file.data ELSE NewObject(keeper))
      /\ \A g \in Holders \ {h} : held'[g] = held[g]
  BY <1>1 DEF RecordsInv
<1>4. /\ knows'[h] = IF writer = "nobody" THEN revision ELSE revision - 1
      /\ \A g \in Holders \ {h} : knows'[g] = knows[g]
  BY <1>1, <1>2
<1>5. writer # "nobody" => revision > 0
  BY DEF RecordsInv
<1>6. knows' \in [Holders -> 0..revision]
  BY <1>1, <1>2, <1>5
<1>7. RecordsTypeOK'
  BY <1>1, <1>2, <1>6 DEF RecordsTypeOK
<1>8. /\ \A g \in Holders \ {h} : UpToDate(g)' <=> UpToDate(g)
      /\ UpToDate(h)' => writer = "nobody"
  BY <1>1, <1>2, <1>4, <1>5 DEF UpToDate
<1>9. writer # "nobody" =>
        /\ writer \in open' /\ knows'[writer] = revision
        /\ \A g \in Holders : UpToDate(g)' => g = writer
  BY <1>1, <1>2, <1>4, <1>8 DEF RecordsInv
<1>10. \A g \in Holders : UpToDate(g)' /\ writer = "nobody" =>
         held'[g] = (IF file.is = "whole" THEN file.data ELSE NewObject(keeper))
  BY <1>3, <1>8 DEF RecordsInv
<1>11. ~ stale /\ ~ cut => \A g \in Holders : UpToDate(g)' => held'[g] = truth
  <2> SUFFICES ASSUME ~ stale, ~ cut, NEW g \in Holders, UpToDate(g)' PROVE held'[g] = truth
    OBVIOUS
  <2>1. CASE g = h
    <3>1. writer = "nobody" /\ file.data = truth /\ file.is # "torn"
      BY <1>8, <2>1 DEF RecordsInv
    <3>2. file.is # "whole" => file.data = NewObject(keeper)
      BY <1>2, <3>1 DEF RecordsInv, RecordsTypeOK
    <3> QED
      BY <1>3, <2>1, <3>1, <3>2
  <2>2. CASE g # h
    BY <1>3, <1>8, <2>2 DEF RecordsInv
  <2> QED
    BY <2>1, <2>2
<1> QED
  BY <1>1, <1>3, <1>7, <1>9, <1>10, <1>11 DEF RecordsInv, NewObject

LEMMA ChangeKeeps ==
  ASSUME RecordsInv, NEW h \in Holders, NEW c, Change(h, c) PROVE RecordsInv'
<1>1. /\ h \in open /\ writer = "nobody" /\ revision < MaxSaves /\ Saves(c, held[h])
      /\ held' = [held EXCEPT ![h] = After(keeper, c, held[h])]
      /\ truth' = IF Saves(c, truth) THEN After(keeper, c, truth) ELSE truth
      /\ file' = [file EXCEPT !.is = "torn"]
      /\ writer' = h /\ stale' = (stale \/ knows[h] # revision)
      /\ revision' = revision + 1 /\ knows' = [knows EXCEPT ![h] = revision + 1]
      /\ UNCHANGED <<keeper, open, now, cut>>
  BY DEF Change
<1>2. /\ knows \in [Holders -> 0..revision] /\ revision \in Nat /\ MaxSaves \in Nat
      /\ open \subseteq Holders /\ RecordsTypeOK
  BY RecordsAssumption DEF RecordsInv, RecordsTypeOK
<1>3. /\ held' = [g \in Holders |-> held'[g]] /\ held'[h] = After(keeper, c, held[h])
      /\ \A g \in Holders \ {h} : held'[g] = held[g]
  BY <1>1 DEF RecordsInv
<1>4. /\ knows'[h] = revision' /\ \A g \in Holders \ {h} : knows'[g] = knows[g] /\ knows'[g] # revision'
      /\ knows' \in [Holders -> 0..revision']
  BY <1>1, <1>2
<1>5. file'.is = "torn" /\ file' = [is |-> file'.is, data |-> file'.data]
  BY <1>1 DEF RecordsInv
<1>6. h # "nobody"
  BY RecordsAssumption
<1>7. RecordsTypeOK'
  BY <1>1, <1>2, <1>4, <1>5 DEF RecordsTypeOK
<1>8. UpToDate(h)' /\ \A g \in Holders : UpToDate(g)' => g = h
  BY <1>1, <1>4 DEF UpToDate
<1>9. ~ stale' /\ ~ cut' => held'[h] = truth'
  <2> SUFFICES ASSUME ~ stale', ~ cut' PROVE held'[h] = truth'
    OBVIOUS
  <2>1. ~ stale /\ ~ cut /\ knows[h] = revision
    BY <1>1 DEF RecordsInv
  <2>2. held[h] = truth
    BY <1>1, <2>1 DEF RecordsInv, UpToDate
  <2> QED
    BY <1>1, <1>3, <2>2
<1>10. stale' \in BOOLEAN /\ cut' \in BOOLEAN /\ revision' > 0
  BY <1>1, <1>2 DEF RecordsInv
<1> QED
  BY <1>1, <1>3, <1>4, <1>5, <1>6, <1>7, <1>8, <1>9, <1>10 DEF RecordsInv

LEMMA EndWriteKeeps == ASSUME RecordsInv, EndWrite PROVE RecordsInv'
<1>1. /\ writer # "nobody" /\ file' = [is |-> "whole", data |-> held[writer]] /\ writer' = "nobody"
      /\ UNCHANGED <<keeper, held, open, now, revision, knows, truth, stale, cut>>
  BY DEF EndWrite
<1>2. /\ RecordsTypeOK /\ writer \in open /\ writer \in Holders /\ UpToDate(writer)
      /\ \A h \in Holders : UpToDate(h) => h = writer
  BY <1>1 DEF RecordsInv, RecordsTypeOK, UpToDate
<1>3. file'.is = "whole" /\ file'.data = held[writer] /\ file' = [is |-> file'.is, data |-> file'.data]
  BY <1>1
<1>4. RecordsTypeOK'
  BY <1>1, <1>2, <1>3 DEF RecordsTypeOK
<1>5. \A h \in Holders : UpToDate(h)' <=> UpToDate(h)
  BY <1>1 DEF UpToDate
<1>6. ~ stale /\ ~ cut => held[writer] = truth
  BY <1>2 DEF RecordsInv
<1> QED
  BY <1>1, <1>2, <1>3, <1>4, <1>5, <1>6 DEF RecordsInv

LEMMA LeaveKeeps == ASSUME RecordsInv, NEW h \in Holders, Leave(h) PROVE RecordsInv'
<1>1. /\ h \in open /\ open' = open \ {h} /\ held' = [held EXCEPT ![h] = NewObject(keeper)]
      /\ writer' = (IF writer = h THEN "nobody" ELSE writer)
      /\ cut' = (cut \/ writer = h)
      /\ UNCHANGED <<keeper, file, now, revision, knows, truth, stale>>
  BY DEF Leave
<1>2. RecordsTypeOK /\ h # "nobody"
  BY RecordsAssumption DEF RecordsInv
<1>3. /\ held' = [g \in Holders |-> held'[g]]
      /\ \A g \in Holders \ {h} : held'[g] = held[g]
  BY <1>1 DEF RecordsInv
<1>4. RecordsTypeOK'
  BY <1>1, <1>2 DEF RecordsTypeOK
<1>5. \A g \in Holders : UpToDate(g)' <=> UpToDate(g) /\ g # h
  BY <1>1 DEF UpToDate
<1>6. cut' \in BOOLEAN
  BY <1>1 DEF RecordsInv
<1>7. CASE writer = h
  <2>1. writer' = "nobody" /\ cut' = TRUE /\ \A g \in Holders : ~ UpToDate(g)'
    BY <1>1, <1>2, <1>5, <1>7 DEF RecordsInv
  <2> QED
    BY <1>1, <1>3, <1>4, <2>1 DEF RecordsInv, NewObject
<1>8. CASE writer # h
  <2>1. writer' = writer /\ (cut' <=> cut)
    BY <1>1, <1>8 DEF RecordsInv
  <2>2. \A g \in Holders : UpToDate(g)' => UpToDate(g) /\ held'[g] = held[g]
    BY <1>3, <1>5
  <2>3. writer' # "nobody" =>
          /\ writer' \in open' /\ knows'[writer'] = revision' /\ revision' > 0
          /\ \A g \in Holders : UpToDate(g)' => g = writer'
    BY <1>1, <1>8, <2>1, <2>2 DEF RecordsInv
  <2>4. \A g \in Holders : UpToDate(g)' /\ writer' = "nobody" =>
          held'[g] = (IF file.is = "whole" THEN file.data ELSE NewObject(keeper))
    BY <2>1, <2>2 DEF RecordsInv
  <2>5. ~ stale /\ ~ cut =>
          /\ writer = "nobody" => file.data = truth
          /\ \A g \in Holders : UpToDate(g)' => held'[g] = truth
    BY <2>2 DEF RecordsInv
  <2> QED
    BY <1>1, <1>3, <1>4, <1>6, <2>1, <2>3, <2>4, <2>5 DEF RecordsInv, NewObject
<1> QED
  BY <1>7, <1>8

LEMMA RecordsStep == RecordsInv /\ [RecordsNext]_recordVars => RecordsInv'
<1> SUFFICES ASSUME RecordsInv, [RecordsNext]_recordVars PROVE RecordsInv'
  OBVIOUS
<1>1. CASE TimePasses
  <2>1. /\ now < MaxNow /\ now' = now + 1
        /\ UNCHANGED <<keeper, held, open, file, writer, revision, knows, truth, stale, cut>>
    BY <1>1 DEF TimePasses
  <2>2. RecordsTypeOK'
    BY <2>1, RecordsAssumption DEF RecordsInv, RecordsTypeOK
  <2> QED
    BY <2>1, <2>2 DEF RecordsInv, UpToDate, NewObject
<1>2. CASE UNCHANGED recordVars
  BY <1>2 DEF recordVars, RecordsInv, RecordsTypeOK, UpToDate, NewObject
<1>3. CASE \E h \in Holders : Open(h)
  BY <1>3, OpenKeeps
<1>4. CASE \E h \in Holders : Leave(h)
  BY <1>4, LeaveKeeps
<1>5. CASE \E h \in Holders : \E c \in CallsOf(keeper) : Change(h, c)
  BY <1>5, ChangeKeeps
<1> QED
  BY <1>1, <1>2, <1>3, <1>4, <1>5, EndWriteKeeps DEF RecordsNext

\* TrimKeepsTheBest, about what a call computes, is proved in ContentProofs.
LEMMA RecordsInvIsEnough ==
  RecordsInv => OneObject /\ CutLosesAll /\ NoAccessByOldCopies
<1> SUFFICES ASSUME RecordsInv PROVE OneObject /\ CutLosesAll /\ NoAccessByOldCopies
  OBVIOUS
<1>1. open \subseteq Holders
  BY DEF RecordsInv, RecordsTypeOK
<1>2. OneObject
  BY <1>1 DEF RecordsInv, UpToDate, OneObject
<1>3. CutLosesAll
  BY <1>1 DEF RecordsInv, UpToDate, CutLosesAll
<1>4. NoAccessByOldCopies
  BY <1>2 DEF OneObject, NoAccessByOldCopies
<1> QED
  BY <1>2, <1>3, <1>4

-----------------------------------------------------------------------------
(***************************************************************************)
(* Calls on one file at a time.  What a call will write was made from the  *)
(* text it read; as long as nobody filled the file since, that is still    *)
(* the text, or will be once the file is no longer empty.                  *)
(***************************************************************************)
AllKinds == Kinds \cup {"command", "write_file"}
AllLines == Line \cup {""}

JobOK(c) ==
  \/ job[c] = Idle
  \/ job[c] \in [at : {"read", "emptied"}, kind : AllKinds, old : AllLines, new : AllLines,
                 content : Text, base : 0..fills]

Emptied(c) == job[c].at = "emptied"

\* A call that began when the file was last filled.
Fresher(c) == job[c].at \in {"read", "emptied"} /\ job[c].base = fills

\* The watcher: what the next poll does not tell happened after the last one.
WatchFits ==
  /\ snap.at \in 0..tick /\ snap.mtime \in 0..snap.at
  /\ ~ snap.there => snap.text = <<>>
  /\ there => (snap.there /\ mtime = snap.mtime /\ text = snap.text) \/ mtime >= snap.at

\* The file is empty while it is written, unless two write it.
WritesFit ==
  /\ ~ there => text = <<>> /\ \A c \in Callers : ~ Emptied(c)
  /\ \A c \in Callers : Emptied(c) /\ (~ both \/ Fresher(c)) => text = <<>>
  /\ ~ both => \A c, d \in Callers : Emptied(c) /\ Emptied(d) => c = d
  /\ ~ both /\ (\A c \in Callers : ~ Emptied(c)) => text = last

\* As long as nobody wrote from an old text, the calls followed one another.
EditsFit ==
  ~ lost =>
    /\ text = serial \/ (text = <<>> /\ \E c \in Callers : Emptied(c))
    /\ \A c \in Callers : Fresher(c) /\ job[c].kind \in Kinds =>
         job[c].content = Replaced(job[c].old, job[c].new, serial)

ToolsInv ==
  /\ there \in BOOLEAN /\ lost \in BOOLEAN /\ both \in BOOLEAN
  /\ tick \in 0..MaxTick /\ mtime \in 0..tick /\ calls \in 0..MaxCalls /\ fills \in Nat
  /\ text \in Text
  /\ job = [c \in Callers |-> job[c]] /\ \A c \in Callers : JobOK(c)
  /\ WatchFits /\ WritesFit /\ EditsFit

LEMMA TextIsSeq ==
  ASSUME NEW s
  PROVE  s \in Text <=> s \in Seq(Line) /\ Len(s) <= MaxText
<1>1. MaxText \in Nat
  BY FileToolsAssumption
<1>2. s \in Text <=> \E m \in 0..MaxText : s \in [1..m -> Line]
  BY DEF Text, BoundedSeq, SeqOf
<1>3. ASSUME NEW m \in 0..MaxText, s \in [1..m -> Line] PROVE s \in Seq(Line) /\ Len(s) <= MaxText
  BY <1>1, <1>3
<1>4. ASSUME s \in Seq(Line), Len(s) <= MaxText PROVE \E m \in 0..MaxText : s \in [1..m -> Line]
  BY <1>1, <1>4
<1> QED
  BY <1>2, <1>3, <1>4

LEMMA EmptyIsText == <<>> \in Text
<1>1. <<>> \in Seq(Line) /\ Len(<<>>) <= MaxText
  BY FileToolsAssumption
<1> QED
  BY <1>1, TextIsSeq, Zenon

LEMMA IdleIsIdle == Idle.at = "idle" /\ Idle.at \notin {"read", "emptied"}
BY DEF Idle

LEMMA ReplacedIsText ==
  ASSUME NEW s \in Text, NEW old, NEW new \in Line PROVE Replaced(old, new, s) \in Text
<1>1. PICK m \in 0..MaxText : s \in [1..m -> Line]
  BY DEF Text, BoundedSeq, SeqOf
<1>2. Replaced(old, new, s) \in [1..m -> Line]
  BY <1>1 DEF Replaced
<1> QED
  BY <1>1, <1>2 DEF Text, BoundedSeq, SeqOf

\* Written over the beginning of a text, and into an empty file.
LEMMA OverwrittenIsText ==
  ASSUME NEW s \in Text, NEW r \in Text
  PROVE  /\ s \o SubSeq(r, Len(s) + 1, Len(r)) \in Text
         /\ r = <<>> => s \o SubSeq(r, Len(s) + 1, Len(r)) = s
<1>1. /\ s \in Seq(Line) /\ Len(s) <= MaxText /\ r \in Seq(Line) /\ Len(r) <= MaxText
      /\ MaxText \in Nat /\ Len(s) \in Nat /\ Len(r) \in Nat
  BY TextIsSeq, FileToolsAssumption
<1>2. CASE Len(s) < Len(r)
  <2>1. /\ SubSeq(r, Len(s) + 1, Len(r)) \in Seq(Line)
        /\ Len(SubSeq(r, Len(s) + 1, Len(r))) = Len(r) - Len(s)
    BY <1>1, <1>2
  <2>2. s \o SubSeq(r, Len(s) + 1, Len(r)) \in Seq(Line)
        /\ Len(s \o SubSeq(r, Len(s) + 1, Len(r))) = Len(r)
    BY <1>1, <2>1
  <2>3. r # <<>>
    BY <1>1, <1>2
  <2> QED
    BY <1>1, <2>2, <2>3, TextIsSeq
<1>3. CASE ~ (Len(s) < Len(r))
  <2>1. SubSeq(r, Len(s) + 1, Len(r)) = <<>>
    BY <1>1, <1>3
  <2>2. s \o SubSeq(r, Len(s) + 1, Len(r)) = s
    <3>1. s \o <<>> = s
      BY <1>1
    <3> QED
      BY <2>1, <3>1
  <2> QED
    BY <2>2
<1> QED
  BY <1>2, <1>3

LEMMA ToolsInitially == ToolsInit => ToolsInv
<1> SUFFICES ASSUME ToolsInit PROVE ToolsInv
  OBVIOUS
<1>1. /\ there \in BOOLEAN /\ text \in (IF there THEN Text ELSE {<<>>})
      /\ mtime = 0 /\ tick = 0 /\ calls = 0 /\ fills = 0
      /\ job = [c \in Callers |-> Idle]
      /\ snap = [there |-> FALSE, mtime |-> 0, text |-> <<>>, at |-> 0]
      /\ serial = text /\ last = text /\ lost = FALSE /\ both = FALSE
  BY DEF ToolsInit
<1>2. <<>> \in Text
  BY EmptyIsText
<1>3. \A c \in Callers : job[c] = Idle /\ ~ Emptied(c) /\ ~ Fresher(c)
  BY <1>1, IdleIsIdle DEF Emptied, Fresher
<1>4. WatchFits
  BY <1>1 DEF WatchFits
<1>5. WritesFit
  BY <1>1, <1>3 DEF WritesFit
<1>6. EditsFit
  BY <1>1, <1>3 DEF EditsFit
<1>7. /\ tick \in 0..MaxTick /\ mtime \in 0..tick /\ calls \in 0..MaxCalls /\ fills \in Nat
  BY <1>1, FileToolsAssumption
<1> QED
  BY <1>1, <1>2, <1>3, <1>4, <1>5, <1>6, <1>7 DEF ToolsInv, JobOK

\* A call that begins knows what it will write.
Begun(c, kind, old, new, content) ==
  /\ job[c] = Idle /\ calls < MaxCalls /\ calls' = calls + 1
  /\ job' = [job EXCEPT ![c] = [at |-> "read", kind |-> kind, old |-> old, new |-> new,
                                content |-> content, base |-> fills]]
  /\ kind \in Kinds /\ ~ lost => content = Replaced(old, new, serial)
  /\ UNCHANGED <<text, there, mtime, tick, snap, fills, serial, last, lost, both>>

LEMMA BeginKeeps ==
  ASSUME ToolsInv, NEW c \in Callers, NEW kind \in AllKinds, NEW old \in AllLines, NEW new \in AllLines,
         NEW content \in Text, Begun(c, kind, old, new, content)
  PROVE  ToolsInv'
<1>0. /\ job[c] = Idle /\ calls < MaxCalls /\ calls' = calls + 1
      /\ UNCHANGED <<text, there, mtime, tick, snap, fills, serial, last, lost, both>>
  BY DEF Begun
<1>00. kind \in Kinds /\ ~ lost => content = Replaced(old, new, serial)
  BY DEF Begun
<1>1. /\ job = [d \in Callers |-> job[d]] /\ \A d \in Callers : JobOK(d)
      /\ fills \in Nat /\ calls \in 0..MaxCalls /\ WatchFits /\ WritesFit /\ EditsFit
  BY DEF ToolsInv
<1>2. /\ job' = [d \in Callers |-> job'[d]] /\ \A d \in Callers \ {c} : job'[d] = job[d]
      /\ job'[c] = [at |-> "read", kind |-> kind, old |-> old, new |-> new,
                    content |-> content, base |-> fills]
  BY <1>1 DEF Begun
<1>3. /\ job'[c] \in [at : {"read", "emptied"}, kind : AllKinds, old : AllLines, new : AllLines,
                      content : Text, base : 0..fills]
      /\ job'[c].at = "read" /\ job'[c].kind = kind /\ job'[c].old = old /\ job'[c].new = new
      /\ job'[c].content = content
  <2>0. fills \in Nat
    BY DEF ToolsInv
  <2>1. fills \in 0..fills
    BY <2>0
  <2>2. [at |-> "read", kind |-> kind, old |-> old, new |-> new, content |-> content, base |-> fills]
          \in [at : {"read", "emptied"}, kind : AllKinds, old : AllLines, new : AllLines,
              content : Text, base : 0..fills]
    BY <2>1
  <2>3. job'[c] = [at |-> "read", kind |-> kind, old |-> old, new |-> new,
                   content |-> content, base |-> fills]
    BY <1>2
  <2> QED
    BY <2>2, <2>3
<1>4. \A d \in Callers : JobOK(d)'
  BY <1>0, <1>1, <1>2, <1>3 DEF JobOK
<1>5. /\ \A d \in Callers : Emptied(d)' <=> Emptied(d)
      /\ \A d \in Callers \ {c} : Fresher(d)' <=> Fresher(d)
      /\ ~ Emptied(c)
  <2>1. ~ Emptied(c)
    BY <1>0, IdleIsIdle DEF Emptied
  <2>2. ~ Emptied(c)'
    BY <1>3 DEF Emptied
  <2>3. \A d \in Callers \ {c} : (Emptied(d)' <=> Emptied(d)) /\ (Fresher(d)' <=> Fresher(d))
    BY <1>0, <1>2 DEF Emptied, Fresher
  <2> QED
    BY <2>1, <2>2, <2>3
<1>6. WatchFits'
  BY <1>0, <1>1 DEF WatchFits
<1>7. WritesFit'
  BY <1>0, <1>1, <1>5 DEF WritesFit
<1>8. EditsFit'
  <2>1. ~ lost => text = serial \/ (text = <<>> /\ \E d \in Callers : Emptied(d)')
    BY <1>1, <1>5 DEF EditsFit
  <2>2. ASSUME ~ lost, NEW d \in Callers, Fresher(d)', job'[d].kind \in Kinds
        PROVE  job'[d].content = Replaced(job'[d].old, job'[d].new, serial)
    <3>1. CASE d = c
      BY <1>00, <1>3, <2>2, <3>1
    <3>2. CASE d # c
      BY <1>1, <1>2, <1>5, <2>2, <3>2 DEF EditsFit
    <3> QED
      BY <3>1, <3>2
  <2> QED
    BY <1>0, <2>1, <2>2 DEF EditsFit, Replaced
<1>9. calls' \in 0..MaxCalls
  <2>1. MaxCalls \in Nat
    BY FileToolsAssumption
  <2>2. calls \in 0..MaxCalls
    BY DEF ToolsInv
  <2>3. calls < MaxCalls /\ calls' = calls + 1
    BY <1>0
  <2> QED
    BY <2>1, <2>2, <2>3
<1> QED
  BY <1>0, <1>2, <1>4, <1>6, <1>7, <1>8, <1>9 DEF ToolsInv

LEMMA BeginEditKeeps ==
  ASSUME ToolsInv, NEW c \in Callers, NEW kind \in Kinds, NEW old \in Line, NEW new \in Line,
         BeginEdit(c, kind, old, new)
  PROVE  ToolsInv'
<1>1. /\ job[c] = Idle /\ calls < MaxCalls /\ calls' = calls + 1
      /\ UNCHANGED <<text, there, mtime, tick, snap, fills, serial, last, lost, both>>
  BY DEF BeginEdit
<1>2. CASE Refusal(kind, old) # ""
  <2>1. UNCHANGED job
    BY <1>2 DEF BeginEdit
  <2>2. calls' \in 0..MaxCalls
    BY <1>1, FileToolsAssumption DEF ToolsInv
  <2>3. WatchFits' /\ WritesFit' /\ EditsFit' /\ \A d \in Callers : JobOK(d)'
    BY <1>1, <2>1 DEF ToolsInv, WatchFits, WritesFit, EditsFit, JobOK, Emptied, Fresher
  <2> QED
    BY <1>1, <2>1, <2>2, <2>3 DEF ToolsInv
<1>3. CASE Refusal(kind, old) = ""
  <2>1. job' = [job EXCEPT ![c] = [at |-> "read", kind |-> kind, old |-> old, new |-> new,
                                   content |-> Replaced(old, new, text), base |-> fills]]
    BY <1>3 DEF BeginEdit
  <2>2. Matches(old) # {}
    BY <1>3 DEF Refusal, ToolsInv
  <2>3. text # <<>> /\ text \in Text
    BY <2>2 DEF Matches, ToolsInv
  <2>4. ~ lost => text = serial
    BY <2>3 DEF ToolsInv, EditsFit
  <2>5. Replaced(old, new, text) \in Text
    BY <2>3, ReplacedIsText
  <2>6. kind \in AllKinds /\ old \in AllLines /\ new \in AllLines
    BY DEF AllKinds, AllLines
  <2> QED
    BY <1>1, <2>1, <2>4, <2>5, <2>6, BeginKeeps DEF Begun
<1> QED
  BY <1>2, <1>3

LEMMA BeginWriteKeeps ==
  ASSUME ToolsInv, NEW c \in Callers, NEW kind \in {"command", "write_file"}, NEW content \in Text,
         BeginWrite(c, kind, content)
  PROVE  ToolsInv'
<1>1. /\ job[c] = Idle /\ calls < MaxCalls /\ calls' = calls + 1
      /\ job' = [job EXCEPT ![c] = [at |-> "read", kind |-> kind, old |-> "", new |-> "",
                                    content |-> content, base |-> fills]]
      /\ UNCHANGED <<text, there, mtime, tick, snap, fills, serial, last, lost, both>>
  BY DEF BeginWrite
<1>2. kind \in AllKinds /\ kind \notin Kinds /\ "" \in AllLines
  BY DEF AllKinds, AllLines, Kinds
<1> QED
  BY <1>1, <1>2, BeginKeeps DEF Begun

LEMMA EmptiesKeeps ==
  ASSUME ToolsInv, NEW c \in Callers, Empties(c) PROVE ToolsInv'
<1>1. /\ job[c].at = "read" /\ job' = [job EXCEPT ![c].at = "emptied"]
      /\ text' = <<>> /\ there' = TRUE /\ mtime' = tick
      /\ both' = (both \/ \E d \in Callers : job[d].at = "emptied")
      /\ UNCHANGED <<calls, tick, snap, fills, serial, last, lost>>
  BY DEF Empties
<1>2. /\ job = [d \in Callers |-> job[d]] /\ \A d \in Callers : JobOK(d)
      /\ WatchFits /\ WritesFit /\ EditsFit /\ tick \in Nat /\ both \in BOOLEAN
  BY FileToolsAssumption DEF ToolsInv
<1>3. job[c] \in [at : {"read", "emptied"}, kind : AllKinds, old : AllLines, new : AllLines,
                  content : Text, base : 0..fills]
  BY <1>1, <1>2, IdleIsIdle DEF JobOK
<1>4. /\ job' = [d \in Callers |-> job'[d]] /\ \A d \in Callers \ {c} : job'[d] = job[d]
      /\ job'[c] = [job[c] EXCEPT !.at = "emptied"]
  BY <1>1, <1>2
<1>5. /\ job'[c] \in [at : {"read", "emptied"}, kind : AllKinds, old : AllLines,
                      new : AllLines, content : Text, base : 0..fills]
      /\ job'[c].at = "emptied" /\ job'[c].kind = job[c].kind /\ job'[c].old = job[c].old
      /\ job'[c].new = job[c].new /\ job'[c].content = job[c].content /\ job'[c].base = job[c].base
  BY <1>3, <1>4
<1>6. \A d \in Callers : JobOK(d)'
  BY <1>1, <1>2, <1>4, <1>5 DEF JobOK
<1>7. /\ Emptied(c)' /\ \A d \in Callers \ {c} : Emptied(d)' <=> Emptied(d)
      /\ \A d \in Callers : Fresher(d)' <=> Fresher(d)
  BY <1>1, <1>4, <1>5 DEF Emptied, Fresher
<1>8. <<>> \in Text
  BY EmptyIsText
<1>9. WatchFits'
  BY <1>1, <1>2 DEF WatchFits
<1>10. WritesFit'
  <2>1. ~ both' => \A d \in Callers : Emptied(d)' => d = c
    BY <1>1, <1>7 DEF Emptied
  <2> QED
    BY <1>1, <1>7, <2>1 DEF WritesFit
<1>11. EditsFit'
  <2>1. text' = <<>> /\ \E d \in Callers : Emptied(d)'
    BY <1>1, <1>7
  <2>2. ASSUME ~ lost, NEW d \in Callers, Fresher(d)', job'[d].kind \in Kinds
        PROVE  job'[d].content = Replaced(job'[d].old, job'[d].new, serial)
    <3>1. /\ Fresher(d) /\ job'[d].kind = job[d].kind /\ job'[d].content = job[d].content
          /\ job'[d].old = job[d].old /\ job'[d].new = job[d].new
      BY <1>4, <1>5, <1>7, <2>2
    <3> QED
      BY <1>2, <2>2, <3>1 DEF EditsFit
  <2> QED
    BY <1>1, <2>1, <2>2 DEF EditsFit, Replaced
<1>12. both' \in BOOLEAN
  BY <1>1, <1>2
<1> QED
  BY <1>1, <1>2, <1>4, <1>6, <1>8, <1>9, <1>10, <1>11, <1>12 DEF ToolsInv

LEMMA FillsKeeps ==
  ASSUME ToolsInv, NEW c \in Callers, Fills(c) PROVE ToolsInv'
<1> DEFINE content == job[c].content
<1>1. /\ job[c].at = "emptied"
      /\ text' = content \o SubSeq(text, Len(content) + 1, Len(text))
      /\ mtime' = tick /\ fills' = fills + 1
      /\ serial' = IF job[c].kind \in Kinds THEN Replaced(job[c].old, job[c].new, serial) ELSE content
      /\ last' = content
      /\ lost' = (lost \/ (job[c].base # fills))
      /\ job' = [job EXCEPT ![c] = Idle]
      /\ UNCHANGED <<there, calls, tick, snap, both>>
  BY DEF Fills
<1>2. /\ job = [d \in Callers |-> job[d]] /\ \A d \in Callers : JobOK(d)
      /\ WatchFits /\ WritesFit /\ EditsFit /\ tick \in Nat /\ lost \in BOOLEAN
      /\ fills \in Nat /\ text \in Text
  BY FileToolsAssumption DEF ToolsInv
<1>3. content \in Text
  BY <1>1, <1>2, IdleIsIdle DEF JobOK
<1> HIDE DEF content
<1>4. text' \in Text /\ (text = <<>> => text' = content)
  BY <1>1, <1>2, <1>3, OverwrittenIsText
<1>5. /\ job' = [d \in Callers |-> job'[d]] /\ \A d \in Callers \ {c} : job'[d] = job[d]
      /\ job'[c] = Idle
  BY <1>1, <1>2
<1>6. /\ Emptied(c) /\ ~ Emptied(c)'
      /\ \A d \in Callers \ {c} : Emptied(d)' <=> Emptied(d)
  BY <1>1, <1>5, IdleIsIdle DEF Emptied
<1>7. \A d \in Callers : JobOK(d)' /\ ~ Fresher(d)'
  <2> SUFFICES ASSUME NEW d \in Callers PROVE JobOK(d)' /\ ~ Fresher(d)'
    OBVIOUS
  <2>1. CASE job'[d] = Idle
    BY <2>1, IdleIsIdle DEF JobOK, Fresher
  <2>2. CASE job'[d] # Idle
    <3>1. d # c /\ job'[d] = job[d]
      BY <1>5, <2>2
    <3>2. job[d] \in [at : {"read", "emptied"}, kind : AllKinds, old : AllLines,
                      new : AllLines, content : Text, base : 0..fills]
      BY <1>2, <2>2, <3>1 DEF JobOK
    <3>3. job[d].base # fills + 1 /\ 0..fills \subseteq 0..(fills + 1)
      <4>1. job[d].base \in 0..fills
        BY <3>2
      <4> QED
        BY <1>2, <4>1
    <3> QED
      BY <1>1, <3>1, <3>2, <3>3 DEF JobOK, Fresher
  <2> QED
    BY <2>1, <2>2
<1>8. there
  BY <1>2, <1>6 DEF WritesFit
<1>9. WatchFits'
  BY <1>1, <1>2 DEF WatchFits
<1>10. WritesFit'
  <2>1. ~ both => /\ text = <<>> /\ \A d \in Callers : ~ Emptied(d)'
    BY <1>2, <1>6 DEF WritesFit
  <2> QED
    BY <1>1, <1>4, <1>7, <1>8, <2>1 DEF WritesFit
<1>11. EditsFit'
  <2> SUFFICES ASSUME ~ lost' PROVE text' = serial'
    BY <1>7 DEF EditsFit
  <2>1. ~ lost /\ Fresher(c)
    BY <1>1, <1>2 DEF Fresher
  <2>2. text = <<>>
    BY <1>2, <1>6, <2>1 DEF WritesFit
  <2>3. job[c].kind \in Kinds => content = Replaced(job[c].old, job[c].new, serial)
    BY <1>2, <2>1 DEF EditsFit, content
  <2> QED
    BY <1>1, <1>4, <2>2, <2>3
<1>12. lost' \in BOOLEAN /\ fills' \in Nat
  BY <1>1, <1>2
<1>13. mtime' \in 0..tick'
  BY <1>1, <1>2
<1> QED
  BY <1>1, <1>4, <1>5, <1>7, <1>9, <1>10, <1>11, <1>12, <1>13 DEF ToolsInv

LEMMA UnlinkKeeps == ASSUME ToolsInv, Unlink PROVE ToolsInv'
<1>1. /\ calls < MaxCalls /\ calls' = calls + 1 /\ \A c \in Callers : ~ Emptied(c)
      /\ there' = FALSE /\ text' = <<>> /\ serial' = <<>> /\ last' = <<>>
      /\ fills' = fills + 1
      /\ UNCHANGED <<mtime, job, tick, snap, lost, both>>
  BY DEF Unlink, Emptied
<1>2. /\ \A d \in Callers : JobOK(d)
      /\ WatchFits /\ WritesFit /\ EditsFit /\ fills \in Nat /\ calls \in 0..MaxCalls
  BY DEF ToolsInv
<1>3. \A d \in Callers : JobOK(d)' /\ ~ Fresher(d)'
  <2> SUFFICES ASSUME NEW d \in Callers PROVE JobOK(d)' /\ ~ Fresher(d)'
    OBVIOUS
  <2>1. CASE job[d] = Idle
    BY <1>1, <2>1, IdleIsIdle DEF JobOK, Fresher
  <2>2. CASE job[d] # Idle
    <3>1. job[d] \in [at : {"read", "emptied"}, kind : AllKinds, old : AllLines,
                      new : AllLines, content : Text, base : 0..fills]
      BY <1>2, <2>2 DEF JobOK
    <3>2. job[d].base # fills + 1 /\ 0..fills \subseteq 0..(fills + 1)
      <4>1. job[d].base \in 0..fills
        BY <3>1
      <4> QED
        BY <1>2, <4>1
    <3> QED
      BY <1>1, <3>1, <3>2 DEF JobOK, Fresher
  <2> QED
    BY <2>1, <2>2
<1>4. <<>> \in Text
  BY EmptyIsText
<1>5. \A d \in Callers : ~ Emptied(d)'
  BY <1>1 DEF Emptied
<1>6. WatchFits'
  BY <1>1, <1>2 DEF WatchFits
<1>7. WritesFit'
  BY <1>1, <1>5 DEF WritesFit
<1>8. EditsFit'
  BY <1>1, <1>3 DEF EditsFit
<1>9. calls' \in 0..MaxCalls /\ fills' \in Nat
  BY <1>1, <1>2, FileToolsAssumption
<1> QED
  BY <1>1, <1>3, <1>4, <1>6, <1>7, <1>8, <1>9 DEF ToolsInv

LEMMA ToolsStep == ToolsInv /\ [ToolsNext]_toolVars => ToolsInv'
<1> SUFFICES ASSUME ToolsInv, [ToolsNext]_toolVars PROVE ToolsInv'
  OBVIOUS
<1>1. ASSUME UNCHANGED <<text, there, job, calls, fills, serial, last, lost, both>>,
             tick' \in 0..MaxTick, mtime' \in 0..tick', WatchFits'
      PROVE  ToolsInv'
  <2>1. WritesFit' /\ EditsFit' /\ \A c \in Callers : JobOK(c)'
    BY <1>1 DEF ToolsInv, WritesFit, EditsFit, JobOK, Emptied, Fresher
  <2> QED
    BY <1>1, <2>1 DEF ToolsInv
<1>2. CASE Poll
  <2>1. /\ snap' = [there |-> there, mtime |-> mtime, text |-> text, at |-> tick]
        /\ UNCHANGED <<text, there, mtime, job, calls, tick, fills, serial, last, lost, both>>
    BY <1>2 DEF Poll
  <2>2. tick \in 0..MaxTick /\ tick \in Nat /\ mtime \in 0..tick /\ (~ there => text = <<>>)
    BY FileToolsAssumption DEF ToolsInv, WritesFit
  <2>3. WatchFits'
    BY <2>1, <2>2 DEF WatchFits
  <2> QED
    BY <1>1, <2>1, <2>2, <2>3
<1>3. CASE ClockTicks
  <2>1. /\ tick < MaxTick /\ tick' = tick + 1
        /\ UNCHANGED <<text, there, mtime, job, calls, snap, fills, serial, last, lost, both>>
    BY <1>3 DEF ClockTicks
  <2>2. tick \in 0..MaxTick /\ MaxTick \in Nat /\ mtime \in 0..tick /\ WatchFits
    BY FileToolsAssumption DEF ToolsInv
  <2>3. tick' \in 0..MaxTick /\ mtime' \in 0..tick' /\ WatchFits'
    BY <2>1, <2>2 DEF WatchFits
  <2> QED
    BY <1>1, <2>1, <2>3
<1>4. ASSUME UNCHANGED <<text, there, mtime, job, calls, tick, snap, fills, serial, last, lost, both>>
      PROVE  ToolsInv'
  <2>1. WatchFits'
    BY <1>4 DEF ToolsInv, WatchFits
  <2> QED
    BY <1>1, <1>4, <2>1 DEF ToolsInv
<1>5. CASE \E c \in Callers : TimesOut(c)
  BY <1>4, <1>5 DEF TimesOut
<1>6. CASE UNCHANGED toolVars
  BY <1>4, <1>6 DEF toolVars
<1>7. CASE \E c \in Callers, kind \in Kinds, old \in Line, new \in Line : BeginEdit(c, kind, old, new)
  BY <1>7, BeginEditKeeps
<1>8. CASE \E c \in Callers, s \in Text :
             BeginWrite(c, IF Len(s) = 1 THEN "command" ELSE "write_file", s)
  <2>1. PICK c \in Callers, s \in Text :
               BeginWrite(c, IF Len(s) = 1 THEN "command" ELSE "write_file", s)
    BY <1>8
  <2>2. (IF Len(s) = 1 THEN "command" ELSE "write_file") \in {"command", "write_file"}
    OBVIOUS
  <2> QED
    BY <2>1, <2>2, BeginWriteKeeps
<1>9. CASE \E c \in Callers : Empties(c)
  BY <1>9, EmptiesKeeps
<1>10. CASE \E c \in Callers : Fills(c)
  BY <1>10, FillsKeeps
<1> QED
  BY <1>2, <1>3, <1>5, <1>6, <1>7, <1>8, <1>9, <1>10, UnlinkKeeps DEF ToolsNext

LEMMA ToolsInvIsEnough == ToolsInv => NoEditIsLost /\ MissedOnlyWithinATick
<1> SUFFICES ASSUME ToolsInv PROVE NoEditIsLost /\ MissedOnlyWithinATick
  OBVIOUS
<1>1. WatchFits /\ WritesFit /\ EditsFit /\ mtime \in 0..tick /\ tick \in Nat
      /\ lost \in BOOLEAN /\ both \in BOOLEAN /\ there \in BOOLEAN
  BY FileToolsAssumption DEF ToolsInv
<1>2. NoEditIsLost
  BY <1>1 DEF NoEditIsLost, WritesFit, EditsFit, Emptied
<1>3. snap.at \in Nat /\ snap.mtime \in 0..snap.at /\ mtime \in Nat
  BY <1>1 DEF WatchFits
<1>4. Report = "nothing" => (there <=> snap.there) /\ (there => mtime = snap.mtime)
  BY <1>1 DEF Report
<1>5. Report = "modified" => there /\ snap.there /\ mtime # snap.mtime
  BY <1>1 DEF Report
<1>6. MissedOnlyWithinATick
  BY <1>1, <1>3, <1>4, <1>5 DEF MissedOnlyWithinATick, WatchFits, WritesFit
<1> QED
  BY <1>2, <1>6

-----------------------------------------------------------------------------
(***************************************************************************)
(* The mutation tracker.  A detection records every file that changed,     *)
(* once.  TrackerInv: the first record about a file starts from what the   *)
(* file was at the snapshot, so that undoing it, whatever was undone or    *)
(* left alone before, leads back there; the last ends at what was seen.    *)
(***************************************************************************)

\* A sequence that holds each element of a set once, and nothing else.
Enumerates(q, A) ==
  /\ q \in Seq(A)
  /\ \A k, l \in 1..Len(q) : q[k] = q[l] => k = l
  /\ \A p \in A : \E k \in 1..Len(q) : q[k] = p

LEMMA SortedPathsAreAll == ASSUME NEW S \in SUBSET Paths PROVE Enumerates(SortedPaths(S), S)
<1> DEFINE n == Cardinality(S)
           Below(p) == {q \in S : q < p}
           rank == [p \in S |-> Cardinality(Below(p))]
           sorted == [k \in 1..n |-> CHOOSE p \in S : Cardinality(Below(p)) = k - 1]
<1>1. IsFiniteSet(S) /\ n \in Nat /\ S \subseteq Nat
  BY TrackerAssumption, FS_Subset, FS_CardinalityType
<1>2. ASSUME NEW p \in S
      PROVE  IsFiniteSet(Below(p)) /\ rank[p] \in 0..(n - 1)
  <2>1. Below(p) \in SUBSET (S \ {p})
    BY <1>1
  <2>2. IsFiniteSet(S \ {p}) /\ Cardinality(S \ {p}) = n - 1
    BY <1>1, FS_RemoveElement
  <2>3. IsFiniteSet(Below(p)) /\ Cardinality(Below(p)) <= Cardinality(S \ {p})
    BY <2>1, <2>2, FS_Subset
  <2>4. Cardinality(Below(p)) \in Nat
    BY <2>3, FS_CardinalityType
  <2> HIDE DEF n, Below
  <2> QED
    BY <1>1, <2>2, <2>3, <2>4
<1>3. ASSUME NEW p \in S, NEW q \in S, p < q
      PROVE  rank[p] # rank[q]
  <2>0. p \in Nat /\ q \in Nat /\ \A r \in Nat : r < p => r < q
    BY <1>1, <1>3
  <2>1. Below(p) \in SUBSET Below(q)
    BY <1>1, <2>0
  <2>2. p \in Below(q) /\ p \notin Below(p)
    BY <1>1, <1>3
  <2>3. Cardinality(Below(p)) # Cardinality(Below(q))
    BY <1>2, <2>1, <2>2, FS_Subset
  <2> QED
    BY <2>3
<1>4. ASSUME NEW p \in S, NEW q \in S, rank[p] = rank[q]
      PROVE  p = q
  BY <1>1, <1>3, <1>4
<1>5. ASSUME NEW k \in 1..n
      PROVE  \E p \in S : rank[p] = k - 1
  <2> DEFINE T == (0..(n - 1)) \ {k - 1}
  <2>1. SUFFICES ASSUME \A p \in S : rank[p] # k - 1 PROVE FALSE
    OBVIOUS
  <2>2. /\ IsFiniteSet(0..(n - 1)) /\ Cardinality(0..(n - 1)) = n
    <3>1. n >= 1 /\ n - 1 \in Int /\ ~ (0 > n - 1)
      BY <1>1
    <3> HIDE DEF n
    <3>2. Cardinality(0..(n - 1)) = (n - 1) - 0 + 1 /\ IsFiniteSet(0..(n - 1))
      BY <3>1, FS_Interval
    <3> QED
      BY <1>1, <3>2
  <2>3. IsFiniteSet(T) /\ Cardinality(T) < n
    <3>1. k - 1 \in 0..(n - 1)
      BY <1>1
    <3> DEFINE I == 0..(n - 1)
               x == k - 1
    <3>2. IsFiniteSet(I) /\ Cardinality(I) = n /\ x \in I /\ T = I \ {x}
      BY <2>2, <3>1
    <3> HIDE DEF n, T, I, x
    <3>3. IsFiniteSet(T) /\ Cardinality(T) = n - 1
      BY <3>2, FS_RemoveElement
    <3> QED
      BY <1>1, <3>3
  <2>4. rank \in [S -> T]
    <3>1. \A p \in S : rank[p] \in T
      BY <1>2, <2>1
    <3> QED
      BY <3>1
  <2> HIDE DEF rank, T
  <2>5. \E p, q \in S : p # q /\ rank[p] = rank[q]
    BY <1>1, <2>3, <2>4, FS_PigeonHole
  <2> QED
    BY <1>4, <2>5
<1>6. \A k \in 1..n : sorted[k] \in S /\ rank[sorted[k]] = k - 1
  <2> SUFFICES ASSUME NEW k \in 1..n PROVE sorted[k] \in S /\ rank[sorted[k]] = k - 1
    OBVIOUS
  <2>1. \E p \in S : Cardinality(Below(p)) = k - 1
    BY <1>5
  <2> HIDE DEF Below
  <2>2. sorted[k] \in S /\ Cardinality(Below(sorted[k])) = k - 1
    BY <2>1
  <2> QED
    BY <2>2
<1>7. sorted = SortedPaths(S)
  BY DEF SortedPaths
<1> HIDE DEF rank
<1>8. /\ sorted \in Seq(S) /\ Len(sorted) = n
  <2>1. sorted \in [1..n -> S]
    BY <1>6
  <2> HIDE DEF sorted, n
  <2> QED
    BY <1>1, <2>1
<1>9. \A k, l \in 1..n : sorted[k] = sorted[l] => k = l
  <2> HIDE DEF sorted
  <2> QED
    BY <1>1, <1>6
<1>10. ASSUME NEW p \in S PROVE \E k \in 1..n : sorted[k] = p
  <2>1. rank[p] \in 0..(n - 1) /\ rank[p] + 1 \in 1..n
    <3>1. rank[p] \in 0..(n - 1)
      BY <1>2
    <3> HIDE DEF n
    <3> QED
      BY <1>1, <3>1
  <2>2. sorted[rank[p] + 1] \in S /\ rank[sorted[rank[p] + 1]] = rank[p]
    <3>1. rank[p] + 1 - 1 = rank[p]
      BY <2>1
    <3> HIDE DEF sorted, n
    <3> QED
      BY <1>6, <2>1, <3>1
  <2> HIDE DEF sorted, n
  <2>3. sorted[rank[p] + 1] = p
    BY <1>4, <2>2
  <2> QED
    BY <2>1, <2>3
<1> HIDE DEF sorted, n
<1> QED
  BY <1>7, <1>8, <1>9, <1>10 DEF Enumerates

LEMMA EnumeratesBoth ==
  ASSUME NEW A, NEW B, A \cap B = {}, NEW a, NEW b, Enumerates(a, A), Enumerates(b, B)
  PROVE  Enumerates(a \o b, A \cup B)
<1>1. a \in Seq(A) /\ b \in Seq(B) /\ Len(a) \in Nat /\ Len(b) \in Nat
  BY DEF Enumerates
<1>2. a \in Seq(A \cup B) /\ b \in Seq(A \cup B)
  BY <1>1
<1>3. /\ a \o b \in Seq(A \cup B) /\ Len(a \o b) = Len(a) + Len(b)
      /\ \A k \in 1..(Len(a) + Len(b)) : (a \o b)[k] = IF k <= Len(a) THEN a[k] ELSE b[k - Len(a)]
  BY <1>2
<1>4. \A k \in 1..Len(a) : a[k] \in A
  BY <1>1
<1>5. \A k \in 1..Len(b) : b[k] \in B
  BY <1>1
<1>6. \A k \in 1..(Len(a) + Len(b)) : k > Len(a) => k - Len(a) \in 1..Len(b)
  BY <1>1
<1>7. ASSUME NEW k \in 1..(Len(a) + Len(b)), NEW l \in 1..(Len(a) + Len(b)), (a \o b)[k] = (a \o b)[l]
      PROVE  k = l
  <2>1. CASE k <= Len(a) /\ l <= Len(a)
    <3>1. a[k] = a[l] /\ k \in 1..Len(a) /\ l \in 1..Len(a)
      BY <1>1, <1>3, <1>7, <2>1
    <3> QED
      BY <3>1 DEF Enumerates
  <2>2. CASE k > Len(a) /\ l > Len(a)
    <3>1. b[k - Len(a)] = b[l - Len(a)] /\ k - Len(a) \in 1..Len(b) /\ l - Len(a) \in 1..Len(b)
      BY <1>1, <1>3, <1>6, <1>7, <2>2
    <3>2. k - Len(a) = l - Len(a)
      BY <3>1 DEF Enumerates
    <3> QED
      BY <1>1, <3>2
  <2>3. CASE k <= Len(a) /\ l > Len(a)
    <3>1. (a \o b)[k] \in A /\ (a \o b)[l] \in B
      BY <1>1, <1>3, <1>4, <1>5, <1>6, <2>3
    <3> QED
      BY <1>7, <3>1
  <2>4. CASE k > Len(a) /\ l <= Len(a)
    <3>1. (a \o b)[k] \in B /\ (a \o b)[l] \in A
      BY <1>1, <1>3, <1>4, <1>5, <1>6, <2>4
    <3> QED
      BY <1>7, <3>1
  <2> QED
    BY <1>1, <2>1, <2>2, <2>3, <2>4
<1>8. ASSUME NEW p \in A \cup B PROVE \E k \in 1..(Len(a) + Len(b)) : (a \o b)[k] = p
  <2>1. CASE p \in A
    <3>1. PICK k \in 1..Len(a) : a[k] = p
      BY <2>1 DEF Enumerates
    <3>2. k \in 1..(Len(a) + Len(b)) /\ k <= Len(a)
      BY <1>1
    <3> QED
      BY <1>3, <3>1, <3>2
  <2>2. CASE p \in B
    <3>1. PICK k \in 1..Len(b) : b[k] = p
      BY <2>2 DEF Enumerates
    <3>2. /\ k + Len(a) \in 1..(Len(a) + Len(b)) /\ ~ (k + Len(a) <= Len(a))
          /\ k + Len(a) - Len(a) = k
      BY <1>1
    <3> QED
      BY <1>3, <3>1, <3>2
  <2> QED
    BY <2>1, <2>2
<1> QED
  BY <1>3, <1>7, <1>8 DEF Enumerates

TrackerRecord == [type : {"created", "edited", "deleted"}, path : Paths, old : Texts, new : Texts]

FirstAbout(i) == \A j \in 1..(i - 1) : records[j].path # records[i].path

FirstFits(i) ==
  LET p == records[i].path IN
  /\ records[i].type = "created" => first[p] = NoFileThere
  /\ records[i].type = "edited" => first[p] # NoFileThere /\ records[i].old = TextOf(first[p])
  /\ records[i].type = "deleted" => p \in deletedFirst

FirstRecordsFit == tracked => \A i \in DOMAIN records : FirstAbout(i) => FirstFits(i)

UntoldFits ==
  tracked => \A p \in Paths : ~ IsTold(p) =>
    /\ ~ undoing => seen[p] = first[p]
    /\ undoing /\ p \notin deletedFirst => IsBack(p)

TrackerTypes ==
  /\ files \in [Paths -> Contents \cup {NoFileThere}]
  /\ seen \in [Paths -> Contents \cup {NoFileThere}]
  /\ first \in [Paths -> Contents \cup {NoFileThere}]
  /\ records \in Seq(TrackerRecord)
  /\ \A k \in DOMAIN records :
       /\ records[k].type = "created" => records[k].old = ""
       /\ records[k].type = "deleted" => records[k].new = ""
  /\ writes \in 0..MaxWrites /\ undoing \in BOOLEAN /\ tracked \in BOOLEAN

TrackerInv == TrackerTypes /\ RecordsChain /\ FirstRecordsFit /\ UntoldFits

LEMMA TextsOfContents ==
  /\ \A c \in Contents : TextOf(c) \in Texts
  /\ "" \in Texts /\ NoFileThere \notin Contents /\ NoFileThere # ""
BY TrackerAssumption DEF Contents, TextOf

\* One record for each file that changed, from what was seen to what is there.
Says(r, p) ==
  /\ r.path = p
  /\ r.type \in {"created", "edited", "deleted"}
  /\ (r.type = "created") <=> (seen[p] = NoFileThere)
  /\ (r.type = "deleted") <=> (files[p] = NoFileThere)
  /\ r.type = "created" => r.old = ""
  /\ r.type = "deleted" => r.new = ""
  /\ seen[p] # NoFileThere => r.old = TextOf(seen[p])
  /\ files[p] # NoFileThere => r.new = TextOf(files[p])

LEMMA RecordOfTracker ==
  ASSUME NEW x \in {"created", "edited", "deleted"}, NEW p \in Paths, NEW t \in Texts, NEW u \in Texts
  PROVE  [type |-> x, path |-> p, old |-> t, new |-> u] \in TrackerRecord
BY DEF TrackerRecord

LEMMA DifferenceSays ==
  ASSUME TrackerTypes, NEW p \in Paths, seen[p] # files[p], NEW r,
         r = [type |-> CASE p \in CreatedPaths -> "created"
                         [] p \in DeletedPaths -> "deleted"
                         [] OTHER -> "edited",
              path |-> p,
              old |-> IF p \in CreatedPaths THEN "" ELSE TextOf(seen[p]),
              new |-> IF p \in DeletedPaths THEN "" ELSE TextOf(files[p])]
  PROVE  r \in TrackerRecord /\ Says(r, p)
<1>1. /\ "" \in Texts
      /\ files[p] # NoFileThere => TextOf(files[p]) \in Texts
      /\ seen[p] # NoFileThere => TextOf(seen[p]) \in Texts
  <2>1. files[p] \in Contents \cup {NoFileThere} /\ seen[p] \in Contents \cup {NoFileThere}
    BY DEF TrackerTypes
  <2> QED
    BY <2>1, TextsOfContents
<1>2. /\ p \in CreatedPaths <=> seen[p] = NoFileThere
      /\ p \in DeletedPaths <=> files[p] = NoFileThere
      /\ ~ (p \in CreatedPaths /\ p \in DeletedPaths)
  BY DEF CreatedPaths, DeletedPaths
<1>3. CASE p \in CreatedPaths
  <2>1. r.type = "created" /\ r.path = p /\ r.old = "" /\ r.new = TextOf(files[p])
    BY <1>2, <1>3
  <2>2. r = [type |-> "created", path |-> p, old |-> "", new |-> TextOf(files[p])]
    BY <1>2, <1>3
  <2>3. r \in TrackerRecord
    <3>1. "" \in Texts /\ TextOf(files[p]) \in Texts
      BY <1>1, <1>2, <1>3
    <3>2. [type |-> "created", path |-> p, old |-> "", new |-> TextOf(files[p])] \in TrackerRecord
      BY <3>1, RecordOfTracker
    <3> QED
      BY <2>2, <3>2
  <2> QED
    BY <1>2, <1>3, <2>1, <2>3 DEF Says
<1>4. CASE p \in DeletedPaths
  <2>1. r.type = "deleted" /\ r.path = p /\ r.old = TextOf(seen[p]) /\ r.new = ""
    BY <1>2, <1>4
  <2>2. r = [type |-> "deleted", path |-> p, old |-> TextOf(seen[p]), new |-> ""]
    BY <1>2, <1>4
  <2>3. r \in TrackerRecord
    <3>1. TextOf(seen[p]) \in Texts /\ "" \in Texts
      BY <1>1, <1>2, <1>4
    <3>2. [type |-> "deleted", path |-> p, old |-> TextOf(seen[p]), new |-> ""] \in TrackerRecord
      BY <3>1, RecordOfTracker
    <3> QED
      BY <2>2, <3>2
  <2> QED
    BY <1>2, <1>4, <2>1, <2>3 DEF Says
<1>5. CASE p \notin CreatedPaths /\ p \notin DeletedPaths
  <2>1. r.type = "edited" /\ r.path = p /\ r.old = TextOf(seen[p]) /\ r.new = TextOf(files[p])
    BY <1>5
  <2>2. r = [type |-> "edited", path |-> p, old |-> TextOf(seen[p]), new |-> TextOf(files[p])]
    BY <1>5
  <2>3. r \in TrackerRecord
    <3>1. TextOf(seen[p]) \in Texts /\ TextOf(files[p]) \in Texts
      BY <1>1, <1>2, <1>5
    <3>2. [type |-> "edited", path |-> p, old |-> TextOf(seen[p]), new |-> TextOf(files[p])] \in TrackerRecord
      BY <3>1, RecordOfTracker
    <3> QED
      BY <2>2, <3>2
  <2> QED
    BY <1>2, <1>5, <2>1, <2>3 DEF Says
<1> QED
  BY <1>3, <1>4, <1>5

LEMMA ChangesAreAll ==
  ASSUME TrackerTypes
  PROVE  /\ Changes \in Seq(TrackerRecord)
         /\ \A k \in 1..Len(Changes) :
              /\ Changes[k].path \in Paths
              /\ seen[Changes[k].path] # files[Changes[k].path]
              /\ Says(Changes[k], Changes[k].path)
         /\ \A k, l \in 1..Len(Changes) : Changes[k].path = Changes[l].path => k = l
         /\ \A p \in Paths : seen[p] # files[p] => \E k \in 1..Len(Changes) : Changes[k].path = p
<1> DEFINE A == CreatedPaths \cup DeletedPaths \cup EditedPaths
           q == ChangedPaths
<1>1. /\ CreatedPaths \in SUBSET Paths /\ DeletedPaths \in SUBSET Paths /\ EditedPaths \in SUBSET Paths
      /\ CreatedPaths \cap DeletedPaths = {} /\ (CreatedPaths \cup DeletedPaths) \cap EditedPaths = {}
      /\ \A p \in Paths : p \in A <=> seen[p] # files[p]
  BY DEF CreatedPaths, DeletedPaths, EditedPaths
<1>2. Enumerates(q, A)
  <2>1. /\ Enumerates(SortedPaths(CreatedPaths), CreatedPaths)
        /\ Enumerates(SortedPaths(DeletedPaths), DeletedPaths)
        /\ Enumerates(SortedPaths(EditedPaths), EditedPaths)
    BY <1>1, SortedPathsAreAll
  <2>2. Enumerates(SortedPaths(CreatedPaths) \o SortedPaths(DeletedPaths), CreatedPaths \cup DeletedPaths)
    BY <1>1, <2>1, EnumeratesBoth
  <2> QED
    BY <1>1, <2>1, <2>2, EnumeratesBoth DEF ChangedPaths
<1>3. \A p \in A : p \in Paths /\ seen[p] # files[p]
  BY <1>1 DEF A
<1> HIDE DEF A, q
<1>4. q \in Seq(A) /\ Len(q) \in Nat /\ \A k \in 1..Len(q) : q[k] \in A
  BY <1>2 DEF Enumerates
<1>5. Changes = [k \in 1..Len(q) |-> Difference(q[k])]
  BY DEF Changes, q
<1>6. \A k \in 1..Len(q) : Changes[k] \in TrackerRecord /\ Says(Changes[k], q[k])
  <2> SUFFICES ASSUME NEW k \in 1..Len(q) PROVE Changes[k] \in TrackerRecord /\ Says(Changes[k], q[k])
    OBVIOUS
  <2>1. Changes[k] = Difference(q[k])
    BY <1>5
  <2>2. q[k] \in Paths /\ seen[q[k]] # files[q[k]]
    BY <1>3, <1>4
  <2> QED
    BY <2>1, <2>2, DifferenceSays DEF Difference
<1>7. Changes \in [1..Len(q) -> TrackerRecord]
  BY <1>5, <1>6
<1>8. Changes \in Seq(TrackerRecord) /\ Len(Changes) = Len(q)
  BY <1>4, <1>7
<1>9. \A k \in 1..Len(q) : Changes[k].path = q[k]
  BY <1>6 DEF Says
<1> QED
  BY <1>1, <1>2, <1>3, <1>4, <1>6, <1>8, <1>9 DEF Enumerates

LEMMA TrackerInitially == TrackerInit => TrackerInv
<1> SUFFICES ASSUME TrackerInit PROVE TrackerInv
  OBVIOUS
<1>1. TrackerTypes
  <2>1. /\ files \in [Paths -> Contents \cup {NoFileThere}] /\ first = files
        /\ seen = [p \in Paths |-> NoFileThere] /\ records = <<>> /\ writes = 0
        /\ undoing = FALSE /\ tracked = FALSE
    BY DEF TrackerInit
  <2>2. writes \in 0..MaxWrites
    <3>1. MaxWrites \in Nat
      BY TrackerAssumption
    <3>2. writes = 0
      BY <2>1
    <3> QED
      BY <3>1, <3>2
  <2>3. seen \in [Paths -> Contents \cup {NoFileThere}]
    BY <2>1
  <2>4. records \in Seq(TrackerRecord) /\ DOMAIN records = {}
    BY <2>1
  <2> QED
    BY <2>1, <2>2, <2>3, <2>4 DEF TrackerTypes
<1>2. tracked = FALSE
  BY DEF TrackerInit
<1> QED
  BY <1>1, <1>2 DEF TrackerInv, RecordsChain, FirstRecordsFit, UntoldFits

LEMMA EmptyHasNoDomain == DOMAIN <<>> = {}
OBVIOUS

\* With no record taken back and none added, the story stays as it is.
SameHistory == UNCHANGED <<seen, records, first, undoing, deletedFirst>>

LEMMA WriteKeeps ==
  ASSUME TrackerInv, NEW p \in Paths, NEW c \in Contents \cup {NoFileThere}, Write(p, c)
  PROVE  TrackerInv'
<1>1. /\ SameHistory /\ writes < MaxWrites /\ writes' = writes + 1
      /\ files' = [files EXCEPT ![p] = c] /\ tracked' = (tracked /\ ~ undoing)
  BY DEF Write, SameHistory
<1>2. TrackerTypes'
  <2>1. writes' \in 0..MaxWrites
    <3>1. writes \in 0..MaxWrites
      BY DEF TrackerInv, TrackerTypes
    <3>2. MaxWrites \in Nat
      BY TrackerAssumption
    <3>3. writes < MaxWrites /\ writes' = writes + 1
      BY <1>1
    <3> QED
      BY <3>1, <3>2, <3>3
  <2>2. files' \in [Paths -> Contents \cup {NoFileThere}]
    BY <1>1 DEF TrackerInv, TrackerTypes
  <2>3. tracked' \in BOOLEAN
    BY <1>1 DEF TrackerInv, TrackerTypes
  <2> QED
    BY <1>1, <2>1, <2>2, <2>3 DEF TrackerInv, TrackerTypes, SameHistory
<1>3. RecordsChain'
  <2>1. UNCHANGED <<seen, records, undoing>> /\ (tracked' => tracked)
    BY <1>1 DEF SameHistory
  <2>2. RecordsChain
    BY DEF TrackerInv
  <2> QED
    BY <2>1, <2>2 DEF RecordsChain, Consecutive
<1>4. FirstRecordsFit'
  BY <1>1 DEF TrackerInv, FirstRecordsFit, FirstAbout, FirstFits, SameHistory
<1>5. UntoldFits'
  BY <1>1 DEF TrackerInv, UntoldFits, IsTold, SameHistory
<1> QED
  BY <1>2, <1>3, <1>4, <1>5 DEF TrackerInv

LEMMA SnapshotKeeps == ASSUME TrackerInv, Snapshot PROVE TrackerInv'
<1>1. /\ seen' = files /\ first' = files /\ undoing' = FALSE /\ deletedFirst' = {}
      /\ tracked' = (records = <<>>) /\ UNCHANGED <<files, records, writes>>
  BY DEF Snapshot
<1>2. TrackerTypes'
  BY <1>1 DEF TrackerInv, TrackerTypes
<1>3. tracked' => DOMAIN records' = {} /\ records' = <<>>
  <2>1. tracked' => records' = <<>>
    BY <1>1
  <2> QED
    BY <2>1, EmptyHasNoDomain
<1>4. RecordsChain'
  BY <1>3 DEF RecordsChain
<1>5. FirstRecordsFit'
  BY <1>3 DEF FirstRecordsFit
<1>6. UntoldFits'
  BY <1>1 DEF UntoldFits
<1> QED
  BY <1>2, <1>4, <1>5, <1>6 DEF TrackerInv

LEMMA ClearKeeps == ASSUME TrackerInv, ClearHistory PROVE TrackerInv'
<1>1. /\ records' = <<>> /\ tracked' = FALSE
      /\ UNCHANGED <<files, seen, writes, first, undoing, deletedFirst>>
  BY DEF ClearHistory
<1>2. TrackerTypes'
  <2>1. records' \in Seq(TrackerRecord) /\ DOMAIN records' = {}
    BY <1>1
  <2> QED
    BY <1>1, <2>1 DEF TrackerInv, TrackerTypes
<1> QED
  BY <1>1, <1>2 DEF TrackerInv, RecordsChain, FirstRecordsFit, UntoldFits

LEMMA UpToLast == ASSUME NEW n \in Nat \ {0} PROVE \A k \in 1..n : k = n \/ k \in 1..(n - 1)
OBVIOUS

LEMMA FrontOfSeq ==
  ASSUME NEW S, NEW s \in Seq(S), Len(s) \in Nat \ {0}
  PROVE  /\ SubSeq(s, 1, Len(s) - 1) \in Seq(S)
         /\ Len(SubSeq(s, 1, Len(s) - 1)) = Len(s) - 1
         /\ \A k \in 1..(Len(s) - 1) : SubSeq(s, 1, Len(s) - 1)[k] = s[k]
<1> DEFINE n == Len(s)
           q == SubSeq(s, 1, n - 1)
<1>1. n \in Nat \ {0} /\ n - 1 \in (1 - 1)..Len(s) /\ 1 \in 1..(Len(s) + 1)
  OBVIOUS
<1>2. /\ q \in Seq(S) /\ Len(q) = (IF 1 <= n - 1 THEN n - 1 - 1 + 1 ELSE 0)
      /\ \A i \in 1..(n - 1 - 1 + 1) : q[i] = s[1 + i - 1]
  BY <1>1, SubSeqProperties
<1> HIDE DEF n, q
<1>3. Len(q) = n - 1 /\ n - 1 - 1 + 1 = n - 1
  BY <1>1, <1>2
<1>4. \A i \in 1..(n - 1) : 1 + i - 1 = i
  BY <1>1
<1>5. \A i \in 1..(n - 1) : q[i] = s[i]
  BY <1>2, <1>3, <1>4
<1> QED
  BY <1>2, <1>3, <1>5 DEF n, q

LEMMA UndoKeeps == ASSUME TrackerInv, UndoLast PROVE TrackerInv'
<1> DEFINE n == Len(records)
           p == records[n].path
<1>1. /\ records # <<>> /\ records' = Front(records)
      /\ files' = [files EXCEPT ![Last(records).path] = Undone(Last(records))]
      /\ undoing' = TRUE /\ tracked' = (tracked /\ (undoing \/ files = seen))
      /\ UNCHANGED <<seen, writes, first, deletedFirst>>
  BY DEF UndoLast
<1>2. /\ records \in Seq(TrackerRecord) /\ n \in Nat \ {0} /\ Last(records) = records[n]
      /\ DOMAIN records = 1..n /\ n \in 1..n
      /\ records[n] \in TrackerRecord /\ p \in Paths
  <2>0. records \in Seq(TrackerRecord) /\ records # <<>>
    BY <1>1 DEF TrackerInv, TrackerTypes
  <2>1. records \in Seq(TrackerRecord) /\ n \in Nat \ {0} /\ DOMAIN records = 1..n
    BY <2>0
  <2>2. n \in 1..n
    BY <2>1
  <2>3. records[n] \in TrackerRecord
    BY <2>1, <2>2
  <2>4. p \in Paths
    BY <2>3 DEF TrackerRecord
  <2> QED
    BY <2>1, <2>2, <2>3, <2>4 DEF Last
<1>3. /\ records' \in Seq(TrackerRecord) /\ DOMAIN records' = 1..(n - 1)
      /\ \A k \in 1..(n - 1) : records'[k] = records[k] /\ k \in 1..n
  <2>1. records' = SubSeq(records, 1, n - 1)
    BY <1>1 DEF Front
  <2>2. records \in Seq(TrackerRecord) /\ Len(records) \in Nat \ {0}
    BY <1>2
  <2>3. /\ SubSeq(records, 1, n - 1) \in Seq(TrackerRecord) /\ Len(SubSeq(records, 1, n - 1)) = n - 1
        /\ \A k \in 1..(n - 1) : SubSeq(records, 1, n - 1)[k] = records[k]
    BY <2>2, FrontOfSeq
  <2>4. \A k \in 1..(n - 1) : k \in 1..n
    BY <2>2
  <2> HIDE DEF n
  <2> QED
    BY <2>1, <2>3, <2>4
<1>4. /\ files \in [Paths -> Contents \cup {NoFileThere}]
      /\ files'[p] = Undone(records[n]) /\ \A q \in Paths \ {p} : files'[q] = files[q]
      /\ Undone(records[n]) \in Contents \cup {NoFileThere}
  <2>1. files \in [Paths -> Contents \cup {NoFileThere}]
    BY DEF TrackerInv, TrackerTypes
  <2>2. Undone(records[n]) \in Contents \cup {NoFileThere}
    BY <1>2, <2>1 DEF Undone, TrackerRecord, Contents
  <2> QED
    BY <1>1, <1>2, <2>1, <2>2
<1>5. TrackerTypes'
  <2>1. files' \in [Paths -> Contents \cup {NoFileThere}]
    BY <1>1, <1>2, <1>4
  <2>2. \A k \in DOMAIN records' :
          /\ records'[k].type = "created" => records'[k].old = ""
          /\ records'[k].type = "deleted" => records'[k].new = ""
    BY <1>2, <1>3 DEF TrackerInv, TrackerTypes
  <2>3. tracked' \in BOOLEAN /\ undoing' \in BOOLEAN
    BY <1>1 DEF TrackerInv, TrackerTypes
  <2> QED
    BY <1>1, <1>3, <2>1, <2>2, <2>3 DEF TrackerInv, TrackerTypes
<1>6. RecordsChain'
  BY <1>1 DEF RecordsChain
<1>7. FirstRecordsFit'
  <2> SUFFICES ASSUME tracked', NEW i \in 1..(n - 1), FirstAbout(i)' PROVE FirstFits(i)'
    BY <1>3 DEF FirstRecordsFit
  <2> HIDE DEF n, p
  <2>1. \A j \in 1..(i - 1) : j \in 1..(n - 1)
    BY <1>2
  <2>2. FirstAbout(i)
    BY <1>3, <2>1 DEF FirstAbout
  <2>3. FirstFits(i)
    BY <1>1, <1>2, <1>3, <2>2 DEF TrackerInv, FirstRecordsFit
  <2> QED
    BY <1>1, <1>3, <2>3 DEF FirstFits
<1>8. UntoldFits'
  <2> SUFFICES ASSUME tracked', NEW q \in Paths, ~ IsTold(q)', q \notin deletedFirst
               PROVE  IsBack(q)'
    BY <1>1 DEF UntoldFits
  <2> HIDE DEF n
  <2>1. tracked /\ (undoing \/ files = seen)
    BY <1>1
  <2>2. \A k \in 1..(n - 1) : records[k].path # q
    BY <1>3 DEF IsTold
  <2>3. CASE q = p
    <3>1. FirstAbout(n)
      BY <2>2, <2>3 DEF FirstAbout
    <3>2. FirstFits(n)
      BY <1>2, <2>1, <3>1 DEF TrackerInv, FirstRecordsFit
    <3>3. first[q] \in Contents \cup {NoFileThere}
      BY DEF TrackerInv, TrackerTypes
    <3>5. records[n].type \in {"created", "edited", "deleted"}
      BY <1>2 DEF TrackerRecord
    <3>6. /\ records[n].type # "deleted"
          /\ records[n].type = "created" => first[q] = NoFileThere
          /\ records[n].type = "edited" => first[q] # NoFileThere /\ records[n].old = TextOf(first[q])
      BY <2>3, <3>2 DEF FirstFits
    <3>7. files'[q] = Undone(records[n]) /\ first' = first
      BY <1>1, <1>4, <2>3
    <3>8. CASE records[n].type = "created"
      <4>1. files'[q] = NoFileThere
        BY <3>7, <3>8 DEF Undone
      <4> QED
        BY <3>6, <3>7, <3>8, <4>1 DEF IsBack
    <3>9. CASE records[n].type = "edited"
      <4>1. TextOf(first[q]) # "" => files'[q] = TextOf(first[q])
        BY <3>6, <3>7, <3>9 DEF Undone
      <4>2. TextOf(first[q])' = TextOf(first[q])
        BY <3>7 DEF TextOf
      <4> QED
        BY <3>6, <3>7, <3>9, <4>1, <4>2 DEF IsBack
    <3> QED
      BY <3>5, <3>6, <3>8, <3>9
  <2>4. CASE q # p
    <3>0. n \in Nat \ {0}
      BY <1>2
    <3>1. \A k \in 1..n : k = n \/ k \in 1..(n - 1)
      BY <3>0, UpToLast
    <3>2. ~ IsTold(q)
      BY <1>2, <2>2, <2>4, <3>1 DEF IsTold
    <3>3. IsBack(q)
      <4>1. CASE undoing
        BY <2>1, <3>2, <4>1 DEF TrackerInv, UntoldFits
      <4>2. CASE ~ undoing
        <5>1. files[q] = first[q]
          BY <2>1, <3>2, <4>2 DEF TrackerInv, UntoldFits
        <5> QED
          BY <5>1 DEF IsBack
      <4> QED
        BY <4>1, <4>2
    <3>4. files'[q] = files[q] /\ first' = first
      BY <1>1, <1>4, <2>4
    <3> QED
      BY <3>3, <3>4 DEF IsBack, TextOf
  <2> QED
    BY <2>3, <2>4
<1> QED
  BY <1>5, <1>6, <1>7, <1>8 DEF TrackerInv

LEMMA DetectKeeps == ASSUME TrackerInv, DetectChanges PROVE TrackerInv'
<1> DEFINE n == Len(records)
           m == Len(Changes)
           fresh == Changes
<1>1. /\ records' = records \o fresh /\ seen' = files /\ tracked' = (tracked /\ ~ undoing)
      /\ deletedFirst' = deletedFirst \cup {p \in DeletedPaths : ~ IsTold(p)}
      /\ UNCHANGED <<files, writes, first, undoing>>
  BY DEF DetectChanges
<1>2. TrackerTypes
  BY DEF TrackerInv
<1>3. /\ fresh \in Seq(TrackerRecord)
      /\ \A k \in 1..m : /\ fresh[k].path \in Paths /\ seen[fresh[k].path] # files[fresh[k].path]
                         /\ Says(fresh[k], fresh[k].path)
      /\ \A k, l \in 1..m : fresh[k].path = fresh[l].path => k = l
      /\ \A p \in Paths : seen[p] # files[p] => \E k \in 1..m : fresh[k].path = p
  BY <1>2, ChangesAreAll
<1> HIDE DEF fresh
<1>4. /\ records \in Seq(TrackerRecord) /\ n \in Nat /\ m \in Nat /\ DOMAIN records = 1..n
      /\ \A k \in 1..n : records[k] \in TrackerRecord /\ records[k].path \in Paths
  <2>1. records \in Seq(TrackerRecord) /\ fresh \in Seq(TrackerRecord) /\ m = Len(fresh)
    BY <1>2, <1>3 DEF TrackerTypes, fresh
  <2>2. \A k \in 1..n : records[k] \in TrackerRecord
    BY <2>1
  <2> QED
    BY <2>1, <2>2 DEF TrackerRecord
<1> DEFINE Old(i) == i \in 1..n
           New(i) == i \in 1..(n + m) /\ i > n /\ i - n \in 1..m
<1>5. /\ records' \in Seq(TrackerRecord) /\ DOMAIN records' = 1..(n + m) /\ Len(records') = n + m
      /\ \A i \in 1..(n + m) : Old(i) \/ New(i)
      /\ \A i \in 1..n : i \in 1..(n + m) /\ records'[i] = records[i]
      /\ \A i \in 1..(n + m) : New(i) => records'[i] = fresh[i - n]
      /\ \A k \in 1..m : New(n + k) /\ records'[n + k] = fresh[k]
  <2>1. m = Len(fresh) /\ fresh \in Seq(TrackerRecord) /\ records \in Seq(TrackerRecord)
    BY <1>3, <1>4 DEF fresh
  <2> HIDE DEF m
  <2>2. /\ records \o fresh \in Seq(TrackerRecord) /\ Len(records \o fresh) = n + m
        /\ \A i \in 1..(n + m) : (records \o fresh)[i] = IF i <= n THEN records[i] ELSE fresh[i - n]
    BY <2>1
  <2> HIDE DEF n
  <2>3. n \in Nat /\ m \in Nat
    BY <1>4
  <2>4. /\ \A i \in 1..(n + m) : Old(i) \/ New(i)
        /\ \A i \in 1..n : i \in 1..(n + m) /\ i <= n
        /\ \A i \in 1..(n + m) : New(i) => ~ (i <= n)
        /\ \A k \in 1..m : New(n + k) /\ n + k - n = k
    BY <2>3
  <2>5. records' = records \o fresh
    BY <1>1
  <2>6. \A i \in 1..n : records'[i] = records[i]
    BY <2>2, <2>4, <2>5
  <2>7. \A i \in 1..(n + m) : New(i) => records'[i] = fresh[i - n]
    BY <2>2, <2>4, <2>5
  <2>8. ASSUME NEW k \in 1..m PROVE records'[n + k] = fresh[k]
    <3> DEFINE x == n + k
    <3>1. New(x) /\ x \in 1..(n + m) /\ x - n = k
      BY <2>3, <2>4
    <3> HIDE DEF x
    <3>2. records'[x] = fresh[x - n]
      BY <2>7, <3>1
    <3> QED
      BY <3>1, <3>2 DEF x
  <2>9. records' \in Seq(TrackerRecord) /\ Len(records') = n + m
    BY <2>2, <2>5
  <2>10. DOMAIN records' = 1..(n + m)
    BY <2>9
  <2> QED
    BY <2>4, <2>6, <2>7, <2>8, <2>9, <2>10
<1> HIDE DEF n, m
\* A file about which nothing is new is as it was seen.
<1>6. ASSUME NEW p \in Paths, \A i \in 1..(n + m) : New(i) => records'[i].path # p
      PROVE  seen[p] = files[p]
  <2>1. \A k \in 1..m : fresh[k].path # p
    BY <1>5, <1>6
  <2> QED
    BY <1>3, <2>1
<1>7. TrackerTypes'
  <2>1. \A i \in 1..(n + m) :
          /\ records'[i].type = "created" => records'[i].old = ""
          /\ records'[i].type = "deleted" => records'[i].new = ""
    <3> SUFFICES ASSUME NEW i \in 1..(n + m)
                 PROVE  /\ records'[i].type = "created" => records'[i].old = ""
                        /\ records'[i].type = "deleted" => records'[i].new = ""
      OBVIOUS
    <3>1. CASE Old(i)
      BY <1>2, <1>4, <1>5, <3>1 DEF TrackerTypes
    <3>2. CASE New(i)
      <4>1. records'[i] = fresh[i - n] /\ i - n \in 1..m
        BY <1>5, <3>2
      <4>2. Says(fresh[i - n], fresh[i - n].path)
        BY <1>3, <4>1
      <4>3. /\ fresh[i - n].type = "created" => fresh[i - n].old = ""
            /\ fresh[i - n].type = "deleted" => fresh[i - n].new = ""
        BY <4>2 DEF Says
      <4> QED
        BY <4>1, <4>3
    <3> QED
      BY <1>5, <3>1, <3>2
  <2>2. tracked' \in BOOLEAN
    BY <1>1, <1>2 DEF TrackerTypes
  <2> QED
    BY <1>1, <1>2, <1>5, <2>1, <2>2 DEF TrackerTypes
<1>8. RecordsChain'
  <2> SUFFICES ASSUME tracked', ~ undoing'
               PROVE  /\ \A i, j \in 1..(n + m) : Consecutive(i, j)' =>
                           /\ (records'[i].type = "deleted") <=> (records'[j].type = "created")
                           /\ records'[i].new = records'[j].old
                      /\ \A i \in 1..(n + m) :
                           (\A j \in (i + 1)..(n + m) : records'[j].path # records'[i].path) =>
                             /\ (records'[i].type = "deleted") <=> (seen'[records'[i].path] = NoFileThere)
                             /\ seen'[records'[i].path] # NoFileThere =>
                                  records'[i].new = TextOf(seen'[records'[i].path])
    BY <1>5 DEF RecordsChain, TextOf
  <2>1. /\ \A i, j \in 1..n : Consecutive(i, j) =>
             /\ (records[i].type = "deleted") <=> (records[j].type = "created")
             /\ records[i].new = records[j].old
        /\ \A i \in 1..n :
             (\A j \in (i + 1)..n : records[j].path # records[i].path) =>
               /\ (records[i].type = "deleted") <=> (seen[records[i].path] = NoFileThere)
               /\ seen[records[i].path] # NoFileThere =>
                    records[i].new = TextOf(seen[records[i].path])
    <3>1. tracked /\ ~ undoing /\ RecordsChain /\ DOMAIN records = 1..n /\ Len(records) = n
      BY <1>1, <1>4 DEF TrackerInv, n
    <3> QED
      BY <3>1 DEF RecordsChain
  <2>2. ASSUME NEW i \in 1..(n + m), NEW j \in 1..(n + m), Consecutive(i, j)'
        PROVE  /\ (records'[i].type = "deleted") <=> (records'[j].type = "created")
               /\ records'[i].new = records'[j].old
    <3>1. /\ i < j /\ records'[i].path = records'[j].path
          /\ \A k \in (i + 1)..(j - 1) : records'[k].path # records'[i].path
      BY <2>2 DEF Consecutive
    <3>2. CASE Old(j)
      <4>1. i \in 1..n /\ j \in 1..n /\ \A k \in (i + 1)..(j - 1) : k \in 1..n
        BY <1>4, <3>1, <3>2
      <4>2. Consecutive(i, j)
        BY <1>5, <3>1, <4>1 DEF Consecutive
      <4> QED
        BY <1>5, <2>1, <4>1, <4>2
    <3>3. CASE Old(i) /\ New(j)
      <4>1. \A k \in (i + 1)..n : k \in (i + 1)..(j - 1) /\ k \in 1..n
        BY <1>4, <3>3
      <4>2. \A k \in (i + 1)..n : records[k].path # records[i].path
        BY <1>5, <3>1, <3>3, <4>1
      <4> DEFINE p == records[i].path
      <4>3. /\ (records[i].type = "deleted") <=> (seen[p] = NoFileThere)
            /\ seen[p] # NoFileThere => records[i].new = TextOf(seen[p])
            /\ records[i].type = "deleted" => records[i].new = ""
        BY <1>2, <1>4, <2>1, <3>3, <4>2 DEF TrackerTypes
      <4>4. records'[j] = fresh[j - n] /\ j - n \in 1..m /\ fresh[j - n].path = p
        BY <1>5, <3>1, <3>3
      <4>5. Says(fresh[j - n], p)
        BY <1>3, <4>4
      <4>6. records'[i] = records[i]
        BY <1>5, <3>3
      <4> HIDE DEF p
      <4> QED
        BY <4>3, <4>4, <4>5, <4>6 DEF Says
    <3>4. CASE New(i) /\ New(j)
      <4>1. i - n \in 1..m /\ j - n \in 1..m /\ fresh[i - n].path = fresh[j - n].path
        BY <1>5, <3>1, <3>4
      <4>2. i - n = j - n
        BY <1>3, <4>1
      <4>3. i = j
        BY <1>4, <4>2
      <4> QED
        BY <3>1, <4>3
    <3>5. ~ (New(i) /\ Old(j))
      BY <1>4, <3>1
    <3> QED
      BY <1>5, <3>2, <3>3, <3>4, <3>5
  <2>3. ASSUME NEW i \in 1..(n + m), \A j \in (i + 1)..(n + m) : records'[j].path # records'[i].path
        PROVE  /\ (records'[i].type = "deleted") <=> (seen'[records'[i].path] = NoFileThere)
               /\ seen'[records'[i].path] # NoFileThere =>
                    records'[i].new = TextOf(seen'[records'[i].path])
    <3>1. CASE New(i)
      <4>1. records'[i] = fresh[i - n] /\ Says(fresh[i - n], fresh[i - n].path)
        BY <1>3, <1>5, <3>1
      <4> QED
        BY <1>1, <4>1 DEF Says
    <3>2. CASE Old(i)
      <4> DEFINE p == records[i].path
      <4>1. records'[i] = records[i] /\ p \in Paths
        BY <1>4, <1>5, <3>2
      <4>2. \A k \in 1..(n + m) : New(k) => k \in (i + 1)..(n + m)
        BY <1>4, <3>2
      <4>3. seen[p] = files[p]
        BY <1>6, <2>3, <4>1, <4>2
      <4>4. \A k \in (i + 1)..n : k \in (i + 1)..(n + m) /\ k \in 1..n
        BY <1>4, <3>2
      <4>5. \A k \in (i + 1)..n : records[k].path # p
        BY <1>5, <2>3, <4>1, <4>4
      <4> QED
        BY <1>1, <2>1, <3>2, <4>1, <4>3, <4>5
    <3> QED
      BY <1>5, <3>1, <3>2
  <2> QED
    BY <2>2, <2>3
<1>9. ASSUME tracked', NEW p \in Paths, \A i \in 1..n : records[i].path # p
      PROVE  seen[p] = first[p]
  <2>1. ~ IsTold(p)
    BY <1>4, <1>9 DEF IsTold
  <2> QED
    BY <1>1, <1>9, <2>1 DEF TrackerInv, UntoldFits
<1>10. FirstRecordsFit'
  <2> SUFFICES ASSUME tracked', NEW i \in 1..(n + m), FirstAbout(i)' PROVE FirstFits(i)'
    BY <1>5 DEF FirstRecordsFit
  <2>1. \A j \in 1..(i - 1) : records'[j].path # records'[i].path
    BY DEF FirstAbout
  <2>2. CASE Old(i)
    <3>1. \A j \in 1..(i - 1) : j \in 1..n
      BY <1>4, <2>2
    <3>2. FirstAbout(i)
      BY <1>5, <2>1, <2>2, <3>1 DEF FirstAbout
    <3>3. FirstFits(i)
      BY <1>1, <1>4, <2>2, <3>2 DEF TrackerInv, FirstRecordsFit
    <3>4. records'[i] = records[i] /\ first' = first /\ deletedFirst \subseteq deletedFirst'
      BY <1>1, <1>5, <2>2
    <3> QED
      BY <3>3, <3>4 DEF FirstFits, TextOf
  <2>3. CASE New(i)
    <3> DEFINE p == fresh[i - n].path
    <3>1. /\ records'[i] = fresh[i - n] /\ p \in Paths /\ seen[p] # files[p] /\ Says(fresh[i - n], p)
      BY <1>3, <1>5, <2>3
    <3>2. \A j \in 1..n : j \in 1..(i - 1)
      BY <1>4, <2>3
    <3>3. \A j \in 1..n : records[j].path # p
      BY <1>5, <2>1, <3>1, <3>2
    <3>4. seen[p] = first[p]
      BY <1>9, <3>1, <3>3
    <3>5. files[p] = NoFileThere => p \in deletedFirst'
      <4>1. ~ IsTold(p)
        BY <1>4, <3>3 DEF IsTold
      <4> QED
        BY <1>1, <3>1, <4>1 DEF DeletedPaths
    <3>6. /\ records'[i].path = p /\ first' = first
          /\ records'[i].type = "created" => first[p] = NoFileThere
          /\ records'[i].type = "edited" => first[p] # NoFileThere /\ records'[i].old = TextOf(first[p])
          /\ records'[i].type = "deleted" => p \in deletedFirst'
      <4>1. fresh[i - n].type = "edited" => fresh[i - n].type # "created"
        OBVIOUS
      <4> HIDE DEF p
      <4>2. first' = first
        BY <1>1
      <4>3. fresh[i - n].path = p
        BY DEF p
      <4> QED
        BY <3>1, <3>4, <3>5, <4>1, <4>2, <4>3 DEF Says
    <3> HIDE DEF p
    <3> QED
      BY <3>6 DEF FirstFits, TextOf
  <2> QED
    BY <1>5, <2>2, <2>3
<1>11. UntoldFits'
  <2> SUFFICES ASSUME tracked', NEW p \in Paths, ~ IsTold(p)' PROVE seen'[p] = first[p] /\ ~ undoing'
    BY <1>1 DEF UntoldFits
  <2>1. \A i \in 1..(n + m) : records'[i].path # p
    BY <1>5 DEF IsTold
  <2>2. seen[p] = files[p]
    BY <1>6, <2>1
  <2>3. \A i \in 1..n : records[i].path # p
    BY <1>5, <2>1
  <2>4. seen[p] = first[p]
    BY <1>9, <2>3
  <2> QED
    BY <1>1, <2>2, <2>4
<1> QED
  BY <1>7, <1>8, <1>10, <1>11 DEF TrackerInv

LEMMA TrackerStep == TrackerInv /\ [TrackerNext]_trackerVars => TrackerInv'
<1> SUFFICES ASSUME TrackerInv, [TrackerNext]_trackerVars PROVE TrackerInv'
  OBVIOUS
<1>1. CASE UNCHANGED trackerVars
  <2>1. UNCHANGED <<files, seen, records, writes, first, undoing, deletedFirst, tracked>>
    BY <1>1 DEF trackerVars
  <2>2. TrackerTypes'
    BY <2>1 DEF TrackerInv, TrackerTypes
  <2>3. RecordsChain'
    BY <2>1 DEF TrackerInv, RecordsChain, Consecutive
  <2>4. FirstRecordsFit'
    BY <2>1 DEF TrackerInv, FirstRecordsFit, FirstAbout, FirstFits
  <2>5. UntoldFits'
    BY <2>1 DEF TrackerInv, UntoldFits, IsTold, IsBack, TextOf
  <2> QED
    BY <2>2, <2>3, <2>4, <2>5 DEF TrackerInv
<1>2. CASE \E p \in Paths, c \in Contents \cup {NoFileThere} : Write(p, c)
  BY <1>2, WriteKeeps
<1>3. CASE Snapshot
  BY <1>3, SnapshotKeeps
<1>4. CASE DetectChanges
  BY <1>4, DetectKeeps
<1>5. CASE UndoLast
  BY <1>5, UndoKeeps
<1>6. CASE ClearHistory
  BY <1>6, ClearKeeps
<1> QED
  BY <1>1, <1>2, <1>3, <1>4, <1>5, <1>6 DEF TrackerNext

LEMMA TrackerHolds == TrackerInv => TrackerTypeOK /\ StoriesCanBeUndone
<1> SUFFICES ASSUME TrackerInv PROVE TrackerTypeOK /\ StoriesCanBeUndone
  OBVIOUS
<1>1. TrackerTypes /\ RecordsChain /\ UntoldFits
  BY DEF TrackerInv
<1>2. \A k \in DOMAIN records : records[k] \in TrackerRecord
  <2>1. records \in Seq(TrackerRecord)
    BY <1>1 DEF TrackerTypes
  <2> QED
    BY <2>1
<1>3. TrackerTypeOK
  BY <1>1, <1>2 DEF TrackerTypes, TrackerTypeOK, TrackerRecord
<1>4. UndoneIsFirst
  <2> SUFFICES ASSUME tracked, undoing, records = <<>>, NEW p \in Paths \ deletedFirst
               PROVE  IsBack(p)
    BY DEF UndoneIsFirst
  <2>2. DOMAIN records = {}
    BY EmptyHasNoDomain
  <2> QED
    BY <1>1, <2>2 DEF UntoldFits, IsTold
<1> QED
  BY <1>1, <1>3, <1>4 DEF StoriesCanBeUndone

\* The files under the directory, what was seen of them and the records are of
\* their types (src/mutation/tracker.py).
THEOREM TrackerTyped == TrackerSpec => []TrackerTypeOK
<1>1. TrackerInit => TrackerInv
  BY TrackerInitially
<1>2. TrackerInv /\ [TrackerNext]_trackerVars => TrackerInv'
  BY TrackerStep
<1>3. TrackerInv => TrackerTypeOK
  BY TrackerHolds
<1> QED
  BY <1>1, <1>2, <1>3, PTL DEF TrackerSpec

\* The records of a file tell one story, and undoing all of them leads to the
\* files of the last snapshot, with the exceptions that undo_last makes.
THEOREM StoriesAreUndone == TrackerSpec => []StoriesCanBeUndone
<1>1. TrackerInit => TrackerInv
  BY TrackerInitially
<1>2. TrackerInv /\ [TrackerNext]_trackerVars => TrackerInv'
  BY TrackerStep
<1>3. TrackerInv => StoriesCanBeUndone
  BY TrackerHolds
<1> QED
  BY <1>1, <1>2, <1>3, PTL DEF TrackerSpec

-----------------------------------------------------------------------------
(***************************************************************************)
(* Forks and the tree of sessions: their type invariant.                   *)
(***************************************************************************)
Names == {f.id : f \in ToSet(forked)} \cup {Original}

TreeNodes == [parent : Sessions \cup {""}, children : Seq(Sessions), depth : Nat]

BranchesInv ==
  /\ DOMAIN own = DOMAIN wires /\ second \in 0..MaxSecond
  /\ forked \in Seq([id : Seq(Nat \X Nat), at : Nat])
  /\ DOMAIN listed \cup DOMAIN wires \subseteq Names
  /\ Names \subseteq Seq(Nat \X Nat)
  /\ current \in Sessions \cup {""}
  /\ DOMAIN nodes \subseteq Sessions
  /\ \A s \in DOMAIN nodes : nodes[s] \in TreeNodes

LEMMA BranchesInitially == BranchesInit => BranchesInv
<1> SUFFICES ASSUME BranchesInit PROVE BranchesInv
  OBVIOUS
<1>1. /\ wires = [d \in {Original} |-> [lines |-> <<>>, ended |-> TRUE]]
      /\ listed = <<>> /\ second = 0 /\ forked = <<>> /\ own = [d \in {Original} |-> <<>>]
      /\ nodes = <<>> /\ current = ""
  BY DEF BranchesInit
<1>2. DOMAIN wires = {Original} /\ DOMAIN own = {Original}
  BY <1>1
<1>3. DOMAIN nodes = {} /\ DOMAIN listed = {} /\ DOMAIN forked = {}
  BY <1>1, EmptyHasNoDomain
<1>4. Names = {Original}
  BY <1>3 DEF Names, ToSet
<1>5. Original \in Seq(Nat \X Nat)
  BY DEF Original
<1>6. second \in 0..MaxSecond
  <2>1. MaxSecond \in Nat
    BY BranchesAssumption
  <2>2. second = 0
    BY <1>1
  <2> QED
    BY <2>1, <2>2
<1>7. forked \in Seq([id : Seq(Nat \X Nat), at : Nat])
  <2>1. forked = <<>>
    BY <1>1
  <2> QED
    BY <2>1
<1> QED
  BY <1>1, <1>2, <1>3, <1>4, <1>5, <1>6, <1>7 DEF BranchesInv

\* The tree is left alone, and so are the forks and the clock.
SameTree == UNCHANGED <<nodes, current>>
SameForks == UNCHANGED <<wires, listed, second, forked, own>>

LEMMA ForksMove ==
  ASSUME BranchesInv, SameTree, second' = second, forked' = forked,
         DOMAIN own' = DOMAIN wires', DOMAIN listed' \cup DOMAIN wires' \subseteq DOMAIN listed \cup DOMAIN wires
  PROVE  BranchesInv'
BY DEF BranchesInv, SameTree, Names

LEMMA ForkKeeps ==
  ASSUME BranchesInv, NEW d \in DOMAIN wires \cup DOMAIN listed, NEW t \in 0..MaxTurn, Fork(d, t)
  PROVE  BranchesInv'
<1> DEFINE id == NameOf(d, t)
           forkEntry == [id |-> id, at |-> second]
<1>1. /\ forked' = Append(forked, forkEntry) /\ UNCHANGED <<second, nodes, current>>
  BY DEF Fork, treeVars
<1>2. /\ second \in Nat /\ t \in Nat /\ d \in Seq(Nat \X Nat)
  <2>1. MaxTurn \in Nat /\ MaxSecond \in Nat
    BY BranchesAssumption
  <2>2. second \in 0..MaxSecond /\ d \in Names /\ Names \subseteq Seq(Nat \X Nat)
    BY DEF BranchesInv
  <2> QED
    BY <2>1, <2>2
<1>3. id \in Seq(Nat \X Nat) /\ forkEntry \in [id : Seq(Nat \X Nat), at : Nat]
  <2>1. <<t, second>> \in Nat \X Nat
    BY <1>2
  <2>2. id \in Seq(Nat \X Nat)
    BY <1>2, <2>1 DEF NameOf
  <2> QED
    BY <1>2, <2>2
<1>4. /\ forked' \in Seq([id : Seq(Nat \X Nat), at : Nat])
      /\ ToSet(forked') = ToSet(forked) \cup {forkEntry}
  <2>1. forked \in Seq([id : Seq(Nat \X Nat), at : Nat])
    BY DEF BranchesInv
  <2> HIDE DEF forkEntry
  <2>2. /\ forked' \in Seq([id : Seq(Nat \X Nat), at : Nat])
        /\ DOMAIN forked' = DOMAIN forked \cup {Len(forked) + 1}
        /\ \A i \in DOMAIN forked : forked'[i] = forked[i]
        /\ forked'[Len(forked) + 1] = forkEntry
    <3> DEFINE ForkEntries == [id : Seq(Nat \X Nat), at : Nat]
    <3>1. forked' = Append(forked, forkEntry) /\ forkEntry \in ForkEntries /\ forked \in Seq(ForkEntries)
      BY <1>1, <1>3, <2>1
    <3> HIDE DEF ForkEntries
    <3>2. forked' \in Seq(ForkEntries) /\ forked'[Len(forked) + 1] = forkEntry
      BY <3>1
    <3>3. Len(forked') = Len(forked) + 1 /\ Len(forked) \in Nat
      BY <3>1
    <3>4. DOMAIN forked' = 1..Len(forked') /\ DOMAIN forked = 1..Len(forked)
      BY <3>1, <3>2
    <3>5. DOMAIN forked' = DOMAIN forked \cup {Len(forked) + 1}
      BY <3>3, <3>4
    <3>6. \A i \in DOMAIN forked : forked'[i] = forked[i]
      BY <3>1, <3>4
    <3> QED
      BY <3>2, <3>5, <3>6 DEF ForkEntries
  <2> QED
    BY <2>2 DEF ToSet
<1>5. /\ Names' = Names \cup {id} /\ Names' \subseteq Seq(Nat \X Nat)
  <2>1. forkEntry.id = id
    OBVIOUS
  <2>2. Names' = {f.id : f \in ToSet(forked')} \cup {Original}
    BY DEF Names, Original
  <2> HIDE DEF forkEntry, id
  <2>3. Names' = Names \cup {id}
    BY <1>4, <2>1, <2>2 DEF Names
  <2> QED
    BY <1>3, <2>3 DEF BranchesInv
<1>6. /\ DOMAIN listed' = DOMAIN listed \cup {id}
      /\ DOMAIN own' = DOMAIN wires' /\ DOMAIN wires' \subseteq DOMAIN wires \cup {id}
  <2>1. DOMAIN own = DOMAIN wires
    BY DEF BranchesInv
  <2>2. \A f, v : DOMAIN Extended(f, id, v) = DOMAIN f \cup {id}
    BY DEF Extended
  <2> HIDE DEF id
  <2>3. DOMAIN listed' = DOMAIN listed \cup {id}
    BY <2>2 DEF Fork, id
  <2>4. IF d \in DOMAIN wires
        THEN DOMAIN wires' = DOMAIN wires \cup {id} /\ DOMAIN own' = DOMAIN own \cup {id}
        ELSE wires' = wires /\ own' = own
    BY <2>2 DEF Fork, id
  <2> QED
    BY <2>1, <2>3, <2>4
<1> QED
  BY <1>1, <1>4, <1>5, <1>6 DEF BranchesInv

LEMMA ForkingKeeps == ASSUME BranchesInv, BranchesNext PROVE BranchesInv'
<1>1. ASSUME NEW d \in DOMAIN wires, Continue(d) PROVE BranchesInv'
  <2>1. /\ DOMAIN wires' = DOMAIN wires /\ DOMAIN own' = DOMAIN own
        /\ UNCHANGED <<listed, second, forked, nodes, current>>
    BY <1>1 DEF Continue, treeVars
  <2> QED
    BY <2>1, ForksMove DEF BranchesInv, SameTree
<1>2. ASSUME NEW d \in DOMAIN wires \cup DOMAIN listed, NEW t \in 0..MaxTurn, Fork(d, t) PROVE BranchesInv'
  BY <1>2, ForkKeeps
<1>3. ASSUME NEW id \in DOMAIN listed, DeleteFork(id) PROVE BranchesInv'
  <2>1. /\ DOMAIN wires' = DOMAIN wires \ {id} /\ DOMAIN own' = DOMAIN own \ {id}
        /\ DOMAIN listed' = DOMAIN listed \ {id} /\ UNCHANGED <<second, forked, nodes, current>>
    BY <1>3 DEF DeleteFork, treeVars
  <2> QED
    BY <2>1, ForksMove DEF BranchesInv, SameTree
<1>4. CASE NewProcess
  <2>1. listed' = <<>> /\ UNCHANGED <<wires, second, forked, own, nodes, current>>
    BY <1>4 DEF NewProcess, treeVars
  <2>2. DOMAIN listed' = {}
    BY <2>1, EmptyHasNoDomain
  <2> QED
    BY <2>1, <2>2, ForksMove DEF BranchesInv, SameTree
<1>5. CASE NextSecond
  <2>1. second < MaxSecond /\ second' = second + 1 /\ UNCHANGED <<wires, listed, forked, own, nodes, current>>
    BY <1>5 DEF NextSecond, treeVars
  <2>2. second' \in 0..MaxSecond
    <3>1. second \in 0..MaxSecond
      BY DEF BranchesInv
    <3>2. MaxSecond \in Nat
      BY BranchesAssumption
    <3> QED
      BY <2>1, <3>1, <3>2
  <2> QED
    BY <2>1, <2>2 DEF BranchesInv, Names
<1> QED
  BY <1>1, <1>2, <1>3, <1>4, <1>5 DEF BranchesNext

LEMMA NodeIsNode ==
  ASSUME NEW p \in Sessions \cup {""}, NEW q \in Seq(Sessions), NEW k \in Nat
  PROVE  [parent |-> p, children |-> q, depth |-> k] \in TreeNodes
BY DEF TreeNodes

LEMMA GrowingKeeps == ASSUME BranchesInv, TreeNext PROVE BranchesInv'
<1>0. <<>> \in Seq(Sessions)
  OBVIOUS
<1>1. ASSUME NEW s \in Sessions, SetRoot(s) PROVE BranchesInv'
  <2> DEFINE node == [parent |-> "", children |-> <<>>, depth |-> 0]
  <2>1. /\ nodes' = Extended(nodes, s, node) /\ current' = s
        /\ UNCHANGED <<wires, listed, second, forked, own>>
    BY <1>1 DEF SetRoot, forkVars
  <2>2. node \in TreeNodes
    BY <1>0, NodeIsNode
  <2> HIDE DEF node
  <2>3. /\ DOMAIN nodes' = DOMAIN nodes \cup {s} /\ nodes'[s] = node
        /\ \A r \in DOMAIN nodes \ {s} : nodes'[r] = nodes[r]
    BY <2>1 DEF Extended
  <2> QED
    BY <2>1, <2>2, <2>3 DEF BranchesInv, Names
<1>2. ASSUME NEW s \in Sessions, NavigateTo(s) PROVE BranchesInv'
  <2>1. current' = s /\ UNCHANGED <<nodes, wires, listed, second, forked, own>>
    BY <1>2 DEF NavigateTo, forkVars
  <2> QED
    BY <2>1 DEF BranchesInv, Names
<1>3. ASSUME NEW p \in Sessions, NEW s \in Sessions, AddChild(p, s) PROVE BranchesInv'
  <2> DEFINE isKnown == p \in DOMAIN nodes
             node == [parent |-> p, children |-> <<>>, depth |-> IF isKnown THEN nodes[p].depth + 1 ELSE 0]
             before == IF isKnown /\ p # s THEN [nodes EXCEPT ![p].children = Append(@, s)] ELSE nodes
  <2>1. /\ nodes' = Extended(before, s, node)
        /\ UNCHANGED <<current, wires, listed, second, forked, own>>
    BY <1>3 DEF AddChild, forkVars
  <2>2. node \in TreeNodes
    <3>1. isKnown => nodes[p].depth \in Nat
      BY DEF BranchesInv, TreeNodes
    <3>2. (IF isKnown THEN nodes[p].depth + 1 ELSE 0) \in Nat
      BY <3>1
    <3> QED
      BY <1>0, <3>2, NodeIsNode
  <2>3. DOMAIN before = DOMAIN nodes /\ \A r \in DOMAIN nodes : before[r] \in TreeNodes
    <3>1. \A r \in DOMAIN nodes : nodes[r] \in TreeNodes
      BY DEF BranchesInv
    <3>2. CASE isKnown /\ p # s
      <4>0. nodes[p] \in TreeNodes /\ nodes[p].children \in Seq(Sessions)
        BY <3>1, <3>2 DEF TreeNodes
      <4>1. Append(nodes[p].children, s) \in Seq(Sessions)
        BY <4>0, AppendProperties
      <4>2. [nodes[p] EXCEPT !.children = Append(nodes[p].children, s)] \in TreeNodes
        BY <4>0, <4>1 DEF TreeNodes
      <4>3. /\ before = [nodes EXCEPT ![p] = [nodes[p] EXCEPT !.children = Append(nodes[p].children, s)]]
        BY <3>2
      <4> QED
        BY <3>1, <4>2, <4>3
    <3>3. CASE ~ (isKnown /\ p # s)
      BY <3>1, <3>3
    <3> QED
      BY <3>2, <3>3
  <2> HIDE DEF node, before
  <2>4. /\ DOMAIN nodes' = DOMAIN nodes \cup {s} /\ nodes'[s] = node
        /\ \A r \in DOMAIN nodes \ {s} : nodes'[r] = before[r]
    BY <2>1, <2>3 DEF Extended
  <2> QED
    BY <2>1, <2>2, <2>3, <2>4 DEF BranchesInv, Names
<1>4. CASE NavigateParent
  <2>1. current' = nodes[current].parent /\ current \in DOMAIN nodes
        /\ UNCHANGED <<nodes, wires, listed, second, forked, own>>
    BY <1>4 DEF NavigateParent, forkVars
  <2>2. nodes[current].parent \in Sessions \cup {""}
    BY <2>1 DEF BranchesInv, TreeNodes
  <2> QED
    BY <2>1, <2>2 DEF BranchesInv, Names
<1>5. ASSUME NEW k \in 1..Cardinality(Sessions), NavigateChild(k) PROVE BranchesInv'
  <2>1. /\ current' = nodes[current].children[k] /\ current \in DOMAIN nodes
        /\ k \in DOMAIN nodes[current].children
        /\ UNCHANGED <<nodes, wires, listed, second, forked, own>>
    BY <1>5 DEF NavigateChild, forkVars
  <2>2. nodes[current].children \in Seq(Sessions)
    BY <2>1 DEF BranchesInv, TreeNodes
  <2>3. nodes[current].children[k] \in Sessions
    BY <2>1, <2>2
  <2> QED
    BY <2>1, <2>3 DEF BranchesInv, Names
<1> QED
  BY <1>1, <1>2, <1>3, <1>4, <1>5 DEF TreeNext

LEMMA BranchesStep == BranchesInv /\ [BranchesNext \/ TreeNext]_branchVars => BranchesInv'
<1> SUFFICES ASSUME BranchesInv, [BranchesNext \/ TreeNext]_branchVars PROVE BranchesInv'
  OBVIOUS
<1>1. CASE UNCHANGED branchVars
  <2>1. UNCHANGED <<wires, listed, second, forked, own, nodes, current>>
    BY <1>1 DEF branchVars, forkVars, treeVars
  <2> QED
    BY <2>1 DEF BranchesInv, Names
<1> QED
  BY <1>1, ForkingKeeps, GrowingKeeps

LEMMA BranchesHaveTypes == BranchesInv => BranchesTypeOK
BY DEF BranchesInv, BranchesTypeOK, Names

-----------------------------------------------------------------------------
(***************************************************************************)
(* Patches: the type invariant.  A hunk changes one line, so the offset is *)
(* never larger than the number of hunks applied.                          *)
(***************************************************************************)
PatchLines == {"a", "b", "c"}

HunkType == [oldStart : Int, old : Seq(PatchLines), newStart : Int, new : Seq(PatchLines), joined : BOOLEAN]

SmallHunk(h) == h \in HunkType /\ Len(h.new) - Len(h.old) \in -1..1

PatchInv ==
  /\ lines \in Seq(PatchLines) /\ expected \in Seq(PatchLines)
  /\ hunks \in Seq(HunkType) /\ \A i \in DOMAIN hunks : SmallHunk(hunks[i])
  /\ applied \in Nat /\ failed \in Nat /\ applied + failed + Len(hunks) <= 2
  /\ offset \in Int /\ -applied <= offset /\ offset <= applied

LEMMA PartsOfLines ==
  ASSUME NEW s \in Seq(PatchLines), NEW c \in Nat
  PROVE  EndOf(c, s) \in Seq(PatchLines) /\ StartOf(c, s) \in Seq(PatchLines)
<1>1. Len(s) \in Nat
  OBVIOUS
<1>2. ASSUME NEW m \in Nat \ {0}, NEW k \in 0..Len(s) PROVE SubSeq(s, m, k) \in Seq(PatchLines)
  <2>1. \A i \in m..k : s[i] \in PatchLines
    BY <1>1
  <2> QED
    BY <1>1, <2>1, SubSeqProperties
<1> QED
  BY <1>1, <1>2 DEF EndOf, StartOf

LEMMA HunkIsSmall ==
  ASSUME NEW c \in Nat, NEW before \in Seq(PatchLines), NEW after \in Seq(PatchLines),
         NEW del \in Seq(PatchLines), NEW ins \in Seq(PatchLines), Len(del) \in 0..1, Len(ins) \in 0..1,
         NEW shift \in Int
  PROVE  SmallHunk(Hunk(c, before, del, ins, after, shift))
<1> DEFINE b == EndOf(c, before)
           a == StartOf(c, after)
           was == b \o del \o a
           becomes == b \o ins \o a
           h == Hunk(c, before, del, ins, after, shift)
           from == Len(before) - Len(b) + (IF was = <<>> THEN 0 ELSE 1)
           to == Len(before) - Len(b) + shift + (IF becomes = <<>> THEN 0 ELSE 1)
           glued == del # <<>> /\ ins # <<>> /\ Last(del) = "c"
<1>1. a \in Seq(PatchLines) /\ b \in Seq(PatchLines)
  BY PartsOfLines
<1> HIDE DEF a, b
<1>2. /\ was \in Seq(PatchLines) /\ becomes \in Seq(PatchLines)
      /\ Len(was) = Len(b) + Len(del) + Len(a) /\ Len(becomes) = Len(b) + Len(ins) + Len(a)
  BY <1>1
<1>3. from \in Int /\ to \in Int
  BY <1>1
<1>4. Len(becomes) - Len(was) \in -1..1
  <2>1. /\ Len(b) \in Nat /\ Len(a) \in Nat /\ Len(del) \in 0..1 /\ Len(ins) \in 0..1
    BY <1>1
  <2>2. Len(was) = Len(b) + Len(del) + Len(a) /\ Len(becomes) = Len(b) + Len(ins) + Len(a)
    BY <1>2
  <2>3. \A x, y \in Nat, d, i \in 0..1 : (x + i + y) - (x + d + y) \in -1..1
    OBVIOUS
  <2> HIDE DEF was, becomes
  <2> QED
    BY <2>1, <2>2, <2>3
<1>5. h = [oldStart |-> from, old |-> was, newStart |-> to, new |-> becomes, joined |-> glued]
  BY DEF Hunk, a, b
<1>6. glued \in BOOLEAN
  OBVIOUS
<1> HIDE DEF was, becomes, from, to, glued, h
<1>7. h \in HunkType
  BY <1>2, <1>3, <1>5, <1>6 DEF HunkType
<1>8. h.old = was /\ h.new = becomes
  BY <1>5
<1>9. Len(h.new) - Len(h.old) \in -1..1
  BY <1>4, <1>8
<1> QED
  BY <1>7, <1>9 DEF SmallHunk, h

LEMMA ReversedIsSmall == ASSUME NEW h, SmallHunk(h) PROVE SmallHunk(Reversed(h))
<1>1. h \in HunkType /\ Len(h.new) \in Nat /\ Len(h.old) \in Nat /\ Len(h.new) - Len(h.old) \in -1..1
  BY DEF SmallHunk, HunkType
<1>2. Len(h.old) - Len(h.new) \in -1..1
  BY <1>1
<1>3. Reversed(h) \in HunkType
  BY <1>1 DEF Reversed, HunkType
<1>4. Reversed(h).old = h.new /\ Reversed(h).new = h.old
  BY DEF Reversed
<1> QED
  BY <1>2, <1>3, <1>4 DEF SmallHunk

LEMMA FewLines ==
  /\ <<"a">> \in Seq(PatchLines) /\ <<"b">> \in Seq(PatchLines) /\ <<"c">> \in Seq(PatchLines)
  /\ <<>> \in Seq(PatchLines) /\ <<"b", "a">> \in Seq(PatchLines)
  /\ Len(<<"a">>) \in 0..1 /\ Len(<<"b">>) \in 0..1 /\ Len(<<"c">>) \in 0..1 /\ Len(<<>>) \in 0..1
BY DEF PatchLines

LEMMA GivenLines == Fronts \cup Gaps \cup Backs \subseteq Seq(PatchLines)
<1> SUFFICES ASSUME NEW s \in Fronts \cup Gaps \cup Backs PROVE s \in Seq(PatchLines)
  OBVIOUS
<1>1. s \in Seq({"a", "b"})
  BY PatchingAssumption
<1> QED
  BY <1>1 DEF PatchLines

LEMMA OneAndOne ==
  ASSUME NEW S, NEW x \in S, NEW y \in S
  PROVE  LET d == <<x>> \o <<y>> IN d \in Seq(S) /\ Len(d) = 2 /\ d[1] = x /\ d[2] = y
<1>1. <<x>> \in Seq(S) /\ <<y>> \in Seq(S) /\ Len(<<x>>) = 1 /\ Len(<<y>>) = 1
  OBVIOUS
<1> QED
  BY <1>1

LEMMA PatchInitially == PatchInit => PatchInv
<1> SUFFICES ASSUME PatchInit PROVE PatchInv
  OBVIOUS
<1>1. PICK c \in Contexts, reverse \in BOOLEAN, front \in Fronts, one \in Replacements,
           two \in LastReplacements \cup {NoChange}, back \in Backs,
           drift \in {<<>>, <<"a">>, <<"b", "a">>} :
        \E between \in {g \in Gaps : Len(g) > 2 * c} :
          LET was == front \o one[1] \o between \o two[1] \o back
              becomes == front \o one[2] \o between \o two[2] \o back
              shift == Len(one[2]) - Len(one[1])
              diff == <<Hunk(c, front, one[1], one[2], between \o two[1] \o back, 0)>> \o
                (IF two = NoChange THEN <<>>
                 ELSE <<Hunk(c, front \o one[1] \o between, two[1], two[2], back, shift)>>)
          IN /\ back # <<>> => <<"c">> \notin {two[1], two[2]}
             /\ reversed = reverse /\ drifted = (drift # <<>>)
             /\ lines = drift \o (IF reverse THEN becomes ELSE was)
             /\ expected = drift \o (IF reverse THEN was ELSE becomes)
             /\ hunks = IF reverse THEN [i \in DOMAIN diff |-> Reversed(diff[i])] ELSE diff
  BY DEF PatchInit
<1> DEFINE TextLines == Seq(PatchLines)
<1>2. PICK between \in {g \in Gaps : Len(g) > 2 * c} :
          LET was == front \o one[1] \o between \o two[1] \o back
              becomes == front \o one[2] \o between \o two[2] \o back
              shift == Len(one[2]) - Len(one[1])
              diff == <<Hunk(c, front, one[1], one[2], between \o two[1] \o back, 0)>> \o
                (IF two = NoChange THEN <<>>
                 ELSE <<Hunk(c, front \o one[1] \o between, two[1], two[2], back, shift)>>)
          IN /\ back # <<>> => <<"c">> \notin {two[1], two[2]}
             /\ reversed = reverse /\ drifted = (drift # <<>>)
             /\ lines = drift \o (IF reverse THEN becomes ELSE was)
             /\ expected = drift \o (IF reverse THEN was ELSE becomes)
             /\ hunks = IF reverse THEN [i \in DOMAIN diff |-> Reversed(diff[i])] ELSE diff
  BY <1>1
<1> DEFINE was == front \o one[1] \o between \o two[1] \o back
           becomes == front \o one[2] \o between \o two[2] \o back
           shift == Len(one[2]) - Len(one[1])
           firstHunk == Hunk(c, front, one[1], one[2], between \o two[1] \o back, 0)
           secondHunk == Hunk(c, front \o one[1] \o between, two[1], two[2], back, shift)
           diff == <<firstHunk>> \o (IF two = NoChange THEN <<>> ELSE <<secondHunk>>)
<1>3. /\ lines = drift \o (IF reverse THEN becomes ELSE was)
      /\ expected = drift \o (IF reverse THEN was ELSE becomes)
      /\ hunks = IF reverse THEN [i \in DOMAIN diff |-> Reversed(diff[i])] ELSE diff
  BY <1>2
<1>4. /\ front \in TextLines /\ back \in TextLines /\ drift \in TextLines /\ between \in TextLines
      /\ \A k \in {1, 2} : one[k] \in TextLines /\ Len(one[k]) \in 0..1 /\ two[k] \in TextLines /\ Len(two[k]) \in 0..1
  <2>1. front \in TextLines /\ back \in TextLines /\ drift \in TextLines
    BY FewLines, GivenLines
  <2>2. between \in TextLines
    BY GivenLines
  <2>3. one \in {<<>>, <<"a">>, <<"b">>} \X {<<>>, <<"a">>, <<"b">>}
    BY DEF Replacements
  <2>4. one[1] \in {<<>>, <<"a">>, <<"b">>} /\ one[2] \in {<<>>, <<"a">>, <<"b">>}
    BY <2>3
  <2>5. two[1] \in {<<>>, <<"a">>, <<"c">>} /\ two[2] \in {<<>>, <<"a">>, <<"c">>}
    <3>1. CASE two = NoChange
      BY <3>1 DEF NoChange
    <3>2. CASE two \in LastReplacements
      <4>1. two \in {<<>>, <<"a">>, <<"c">>} \X {<<>>, <<"a">>, <<"c">>}
        BY <3>2 DEF LastReplacements
      <4> QED
        BY <4>1
    <3> QED
      BY <3>1, <3>2
  <2>6. \A s \in {<<>>, <<"a">>, <<"b">>, <<"c">>} : s \in TextLines /\ Len(s) \in 0..1
    BY FewLines
  <2>7. \A k \in {1, 2} : /\ one[k] \in {<<>>, <<"a">>, <<"b">>, <<"c">>}
                          /\ two[k] \in {<<>>, <<"a">>, <<"b">>, <<"c">>}
    BY <2>4, <2>5
  <2> QED
    BY <2>1, <2>2, <2>6, <2>7
<1>5. \A s, t \in TextLines : s \o t \in TextLines
  BY DEF PatchLines
<1>6. c \in Nat
  BY PatchingAssumption
<1> HIDE DEF TextLines
<1>7. was \in TextLines /\ becomes \in TextLines
  BY <1>4, <1>5
<1>8. SmallHunk(firstHunk) /\ SmallHunk(secondHunk)
  <2>1. between \o two[1] \o back \in TextLines /\ front \o one[1] \o between \in TextLines
    BY <1>4, <1>5
  <2>2. shift \in Int
    <3>1. Len(one[1]) \in Nat /\ Len(one[2]) \in Nat
      BY <1>4 DEF TextLines
    <3> QED
      BY <3>1
  <2>3. one[1] \in TextLines /\ Len(one[1]) \in 0..1 /\ one[2] \in TextLines /\ Len(one[2]) \in 0..1
    BY <1>4
  <2>4. two[1] \in TextLines /\ Len(two[1]) \in 0..1 /\ two[2] \in TextLines /\ Len(two[2]) \in 0..1
    BY <1>4
  <2> HIDE DEF shift
  <2>5. SmallHunk(firstHunk)
    <3> DEFINE rest == between \o two[1] \o back
    <3>1. rest \in Seq(PatchLines) /\ front \in Seq(PatchLines) /\ 0 \in Int
      BY <1>4, <2>1 DEF TextLines
    <3> HIDE DEF rest
    <3>2. SmallHunk(Hunk(c, front, one[1], one[2], rest, 0))
      BY <1>6, <2>3, <3>1, HunkIsSmall DEF TextLines
    <3> QED
      BY <3>2 DEF rest
  <2>6. SmallHunk(secondHunk)
    BY <1>4, <1>6, <2>1, <2>2, <2>4, HunkIsSmall DEF TextLines
  <2> QED
    BY <2>5, <2>6
<1> HIDE DEF was, becomes, firstHunk, secondHunk
<1>9. /\ diff \in Seq(HunkType) /\ Len(diff) \in 1..2 /\ DOMAIN diff = 1..Len(diff)
      /\ \A i \in DOMAIN diff : SmallHunk(diff[i])
  <2>1. firstHunk \in HunkType /\ secondHunk \in HunkType
    BY <1>8 DEF SmallHunk
  <2>2. CASE two = NoChange
    <3>1. diff = <<firstHunk>>
      BY <2>2
    <3> QED
      BY <1>8, <2>1, <3>1
  <2>3. CASE two # NoChange
    <3>1. diff = <<firstHunk>> \o <<secondHunk>>
      BY <2>3
    <3>2. /\ diff \in Seq(HunkType) /\ Len(diff) = 2 /\ diff[1] = firstHunk /\ diff[2] = secondHunk
      BY <2>1, <3>1, OneAndOne
    <3>3. DOMAIN diff = 1..2
      BY <3>2
    <3> HIDE DEF diff
    <3>4. \A i \in DOMAIN diff : i = 1 \/ i = 2
      BY <3>3
    <3> QED
      BY <1>8, <3>2, <3>3, <3>4
  <2> QED
    BY <2>2, <2>3
<1> HIDE DEF diff
<1>10. /\ hunks \in Seq(HunkType) /\ Len(hunks) \in 1..2 /\ \A i \in DOMAIN hunks : SmallHunk(hunks[i])
  <2>1. CASE reverse
    <3>1. hunks = [i \in 1..Len(diff) |-> Reversed(diff[i])]
      BY <1>3, <1>9, <2>1
    <3>2. \A i \in 1..Len(diff) : SmallHunk(Reversed(diff[i])) /\ Reversed(diff[i]) \in HunkType
      BY <1>9, ReversedIsSmall DEF SmallHunk
    <3>3. hunks \in [1..Len(diff) -> HunkType] /\ Len(diff) \in Nat
      BY <1>9, <3>1, <3>2
    <3>4. hunks \in Seq(HunkType) /\ Len(hunks) = Len(diff) /\ DOMAIN hunks = 1..Len(diff)
      BY <3>3
    <3> QED
      BY <1>9, <3>1, <3>2, <3>4
  <2>2. CASE ~ reverse
    BY <1>3, <1>9, <2>2
  <2> QED
    BY <2>1, <2>2
<1>11. lines \in TextLines /\ expected \in TextLines
  BY <1>3, <1>4, <1>5, <1>7
<1>12. applied = 0 /\ failed = 0 /\ offset = 0
  BY DEF PatchInit
<1>13. applied + failed + Len(hunks) <= 2
  BY <1>10, <1>12
<1> QED
  BY <1>10, <1>11, <1>12, <1>13 DEF PatchInv, TextLines

LEMMA PatchStep == PatchInv /\ [ApplyHunk]_patchVars => PatchInv'
<1> SUFFICES ASSUME PatchInv, [ApplyHunk]_patchVars PROVE PatchInv'
  OBVIOUS
<1>1. CASE UNCHANGED patchVars
  BY <1>1 DEF patchVars, PatchInv
<1>2. CASE ApplyHunk
  <2> DEFINE h == Head(hunks)
             moved == Len(h.new) - Len(h.old)
  <2>1. /\ hunks # <<>> /\ hunks' = Tail(hunks) /\ expected' = expected
        /\ IF Place(h) = {}
           THEN failed' = failed + 1 /\ UNCHANGED <<lines, offset, applied>>
           ELSE \E p \in Place(h) :
                  /\ lines' = SubSeq(lines, 1, Where(p)) \o h.new
                                \o SubSeq(lines, Where(p) + Len(h.old) + 1, Len(lines))
                  /\ offset' = offset + moved /\ applied' = applied + 1 /\ UNCHANGED failed
    BY <1>2 DEF ApplyHunk
  <2>2. /\ lines \in Seq(PatchLines) /\ expected \in Seq(PatchLines)
        /\ hunks \in Seq(HunkType) /\ \A i \in DOMAIN hunks : SmallHunk(hunks[i])
        /\ applied \in Nat /\ failed \in Nat /\ applied + failed + Len(hunks) <= 2
        /\ offset \in Int /\ -applied <= offset /\ offset <= applied
    BY DEF PatchInv
  <2>3. /\ h = hunks[1] /\ 1 \in DOMAIN hunks
        /\ hunks' \in Seq(HunkType) /\ Len(hunks') = Len(hunks) - 1 /\ Len(hunks) \in Nat
        /\ \A i \in DOMAIN hunks' : i + 1 \in DOMAIN hunks /\ hunks'[i] = hunks[i + 1]
    BY <2>1, <2>2
  <2>4. SmallHunk(h) /\ \A i \in DOMAIN hunks' : SmallHunk(hunks'[i])
    BY <2>2, <2>3
  <2> HIDE DEF h
  <2>5. h.old \in Seq(PatchLines) /\ h.new \in Seq(PatchLines) /\ h.oldStart \in Int /\ moved \in -1..1
    BY <2>4 DEF SmallHunk, HunkType
  <2>6. /\ lines' \in Seq(PatchLines) /\ failed' \in Nat /\ applied' \in Nat
        /\ applied' + failed' = applied + failed + 1
        /\ offset' \in Int /\ -applied' <= offset' /\ offset' <= applied'
    <3>1. CASE Place(h) = {}
      BY <2>1, <2>2, <3>1
    <3>2. CASE Place(h) # {}
      <4>1. PICK p \in Place(h) :
              /\ lines' = SubSeq(lines, 1, Where(p)) \o h.new
                            \o SubSeq(lines, Where(p) + Len(h.old) + 1, Len(lines))
              /\ offset' = offset + moved /\ applied' = applied + 1 /\ UNCHANGED failed
        BY <2>1, <3>2
      <4>2. p \in Int
        BY <2>2, <2>5 DEF Place
      <4>3. Where(p) \in 0..Len(lines)
        <5>1. Len(lines) \in Nat /\ (lines # <<>> => Len(lines) > 0)
          BY <2>2
        <5> QED
          BY <4>2, <5>1 DEF Where
      <4>4. \A m \in Nat \ {0}, k \in 0..Len(lines) : SubSeq(lines, m, k) \in Seq(PatchLines)
        <5>1. Len(lines) \in Nat /\ \A i \in 1..Len(lines) : lines[i] \in PatchLines
          BY <2>2
        <5> SUFFICES ASSUME NEW m \in Nat \ {0}, NEW k \in 0..Len(lines)
                     PROVE  SubSeq(lines, m, k) \in Seq(PatchLines)
          OBVIOUS
        <5>2. \A i \in m..k : lines[i] \in PatchLines
          BY <5>1
        <5> QED
          BY <5>1, <5>2, SubSeqProperties
      <4>5. /\ SubSeq(lines, 1, Where(p)) \in Seq(PatchLines)
            /\ SubSeq(lines, Where(p) + Len(h.old) + 1, Len(lines)) \in Seq(PatchLines)
        <5>1. Len(h.old) \in Nat /\ Len(lines) \in Nat
          BY <2>2, <2>5
        <5>2. /\ Where(p) + Len(h.old) + 1 \in Nat \ {0} /\ 1 \in Nat \ {0}
              /\ Len(lines) \in 0..Len(lines)
          BY <4>3, <5>1
        <5>3. SubSeq(lines, 1, Where(p)) \in Seq(PatchLines)
          BY <4>3, <4>4, <5>2
        <5>4. SubSeq(lines, Where(p) + Len(h.old) + 1, Len(lines)) \in Seq(PatchLines)
          BY <4>4, <5>2
        <5> QED
          BY <5>3, <5>4
      <4>6. lines' \in Seq(PatchLines)
        BY <2>5, <4>1, <4>5
      <4>7. offset' \in Int /\ -applied' <= offset' /\ offset' <= applied'
        <5>1. offset \in Int /\ applied \in Nat /\ -applied <= offset /\ offset <= applied
          BY <2>2
        <5>2. moved \in -1..1 /\ offset' = offset + moved /\ applied' = applied + 1
          BY <2>5, <4>1
        <5> HIDE DEF moved
        <5> QED
          BY <5>1, <5>2
      <4>8. failed' = failed /\ applied' = applied + 1 /\ applied \in Nat /\ failed \in Nat
        BY <2>2, <4>1
      <4>9. failed' \in Nat /\ applied' \in Nat /\ applied' + failed' = applied + failed + 1
        BY <4>8
      <4> QED
        BY <4>6, <4>7, <4>9
    <3> QED
      BY <3>1, <3>2
  <2>7. applied' + failed' + Len(hunks') <= 2
    <3>1. /\ applied \in Nat /\ failed \in Nat /\ applied' \in Nat /\ failed' \in Nat
          /\ Len(hunks) \in Nat /\ Len(hunks') = Len(hunks) - 1
          /\ applied + failed + Len(hunks) <= 2 /\ applied' + failed' = applied + failed + 1
      BY <2>2, <2>3, <2>6
    <3>2. \A x, y, z, w, l \in Nat : x + y + l <= 2 /\ z + w = x + y + 1 => z + w + (l - 1) <= 2
      OBVIOUS
    <3> QED
      BY <3>1, <3>2
  <2> QED
    BY <2>1, <2>2, <2>3, <2>4, <2>6, <2>7 DEF PatchInv
<1> QED
  BY <1>1, <1>2

LEMMA PatchesHaveTypes == PatchInv => PatchTypeOK
<1> SUFFICES ASSUME PatchInv PROVE PatchTypeOK
  OBVIOUS
<1>1. lines \in Seq(PatchLines) /\ expected \in Seq(PatchLines)
  BY DEF PatchInv
<1>2. ToSet(lines) \cup ToSet(expected) \subseteq PatchLines
  BY <1>1 DEF ToSet
<1>3. Len(hunks) \in Nat
  BY DEF PatchInv
<1>4. applied \in 0..2 /\ applied + failed + Len(hunks) <= 2
  BY <1>3 DEF PatchInv
<1>5. offset \in -2..2
  BY <1>4 DEF PatchInv
<1> QED
  BY <1>2, <1>4, <1>5 DEF PatchTypeOK, PatchLines

LEMMA MigrationsHaveTypes == MigrationsInv => MigrationsTypeOK
<1> SUFFICES ASSUME MigrationsInv PROVE MigrationsTypeOK
  OBVIOUS
<1> USE MigrationsAssumption
<1>1. ASSUME NEW p \in Processes
      PROVE  run[p].version \in Versions \cup {0} /\ run[p].next \in 1..(Statements + 1)
  <2>1. RunOK(p)
    BY DEF MigrationsInv
  <2>2. CASE run[p] = NotAtIt
    BY <2>2 DEF NotAtIt
  <2>3. CASE run[p] \in [at : {"script"}, version : Versions, next : 1..(Statements + 1)]
    BY <2>3
  <2> QED
    BY <2>1, <2>2, <2>3 DEF RunOK
<1> QED
  BY <1>1 DEF MigrationsInv, MigrationsTypeOK

LEMMA ToolsHaveTypes == ToolsInv => ToolsTypeOK
<1> SUFFICES ASSUME ToolsInv PROVE ToolsTypeOK
  OBVIOUS
<1>1. ASSUME NEW c \in Callers
      PROVE  job[c].at \in {"idle", "read", "emptied"} /\ job[c].content \in Text
  <2>1. JobOK(c)
    BY DEF ToolsInv
  <2>2. CASE job[c] = Idle
    <3>1. job[c].at = "idle" /\ job[c].content = <<>>
      <4>1. Idle.at = "idle" /\ Idle.content = <<>>
        BY DEF Idle
      <4> QED
        BY <2>2, <4>1
    <3> QED
      BY <3>1, EmptyIsText
  <2>3. CASE job[c] # Idle
    BY <2>1, <2>3 DEF JobOK
  <2> QED
    BY <2>2, <2>3
<1> QED
  BY <1>1 DEF ToolsInv, WatchFits, ToolsTypeOK

-----------------------------------------------------------------------------
(***************************************************************************)
(* All subjects together: the steps of one leave the others as they were.  *)
(***************************************************************************)
FileStep ==
  /\ [GoalNext]_goalVars /\ [TranscriptNext]_transcriptVars /\ [SnapNext]_snapVars
  /\ [TrackerNext]_trackerVars /\ [RecordsNext]_recordVars /\ [MigrationsNext]_migrationVars
  /\ [StoreNext]_storeVars /\ [BranchesNext \/ TreeNext]_branchVars /\ [ToolsNext]_toolVars
  /\ [ApplyHunk]_patchVars

LEMMA OneSubjectMoves == [FilesNext]_FilesVars => FileStep /\ [Next]_vars /\ UNCHANGED subject
<1> SUFFICES ASSUME [FilesNext]_FilesVars PROVE FileStep /\ [Next]_vars /\ UNCHANGED subject
  OBVIOUS
<1> USE DEF FileStep, oldVars, newVars, databaseVars, editVars
<1>1. CASE UNCHANGED FilesVars
  BY <1>1 DEF FilesVars
<1>2. CASE FilesNext
  BY <1>2 DEF FilesNext
<1> QED
  BY <1>1, <1>2

FilesInv ==
  /\ ClockInv /\ TranscriptInv /\ SnapInv /\ TrackerInv /\ RecordsInv /\ MigrationsInv
  /\ StoreInv /\ BranchesInv /\ ToolsInv
  /\ subject \in Subjects /\ (subject = "patch" => PatchInv)

LEMMA FilesInitially == FilesInit => FilesInv
BY ClockInvInit, TranscriptInitially, SnapInitially, TrackerInitially, RecordsInitially,
   MigrationsInitially, StoreInitially, BranchesInitially, ToolsInitially, PatchInitially
   DEF FilesInit, FilesInv

LEMMA FilesKeep == FilesInv /\ [FilesNext]_FilesVars => FilesInv'
<1> SUFFICES ASSUME FilesInv, [FilesNext]_FilesVars PROVE FilesInv'
  OBVIOUS
<1>1. FileStep /\ subject' = subject
  BY OneSubjectMoves
<1>2. /\ ClockInv' /\ TranscriptInv' /\ SnapInv' /\ TrackerInv' /\ RecordsInv' /\ MigrationsInv'
      /\ StoreInv' /\ BranchesInv' /\ ToolsInv'
  BY <1>1, ClockInvStep, TranscriptStep, SnapStep, TrackerStep, RecordsStep, MigrationsStep,
     StoreStep, BranchesStep, ToolsStep DEF FileStep, FilesInv
<1>3. subject' \in Subjects /\ (subject' = "patch" => PatchInv')
  BY <1>1, PatchStep DEF FileStep, FilesInv
<1> QED
  BY <1>2, <1>3 DEF FilesInv

\* What the transcript, the snapshots and the tracker keep can be told and
\* undone afterwards, whatever subject a behaviour exercises: the list is the
\* log, listed snapshots are whole, and each file's records lead from its
\* content at the snapshot to the one last seen.
THEOREM HistoriesAreHeld == FilesSpec => []HistoriesHold
<1>1. FilesInv => HistoriesHold
  BY TranscriptHolds, SnapInvIsEnough, TrackerHolds DEF FilesInv, HistoriesHold
<1> QED
  BY FilesInitially, FilesKeep, <1>1, PTL DEF FilesSpec

\* Objects in JSON files, the migrations and values in SQLite, and files that
\* several callers edit hold what was agreed on, up to the failures that the
\* parts name: a cut file, a broken script, a thread whose write was refused,
\* two calls at once, a change within one tick of the clock.
THEOREM RecordsAreHeld == FilesSpec => []RecordsHold
<1>1. FilesInv => RecordsHold
  BY RecordsInvIsEnough, MigrationsInvIsEnough, OpenTransactionBinds, ToolsInvIsEnough
     DEF FilesInv, RecordsHold, ObjectsHold
<1> QED
  BY FilesInitially, FilesKeep, <1>1, PTL DEF FilesSpec

\* The type invariants of all subjects, for any bounds and any instance, where
\* the log of documents is not torn (the type of a document that is read from a
\* torn line is any).
THEOREM FilesTypes == ASSUME "wal" \notin TornWrites PROVE FilesSpec => []FilesTypeOK
<1>1. FilesInit => MiniInv
  BY MiniInitially DEF FilesInit
<1>2. "wal" \notin TornWrites
  OBVIOUS
<1>3. MiniInv /\ [FilesNext]_FilesVars => MiniInv'
  BY <1>2, OneSubjectMoves, MiniStep
<1>4. FilesInv /\ MiniInv => FilesTypeOK
  <2> SUFFICES ASSUME FilesInv, MiniInv PROVE FilesTypeOK
    OBVIOUS
  <2>1. TypeOK
    BY MiniHasTypes
  <2>2. GoalTypeOK /\ TranscriptTypeOK /\ SnapTypeOK /\ TrackerTypeOK /\ RecordsTypeOK /\ StoreTypeOK
    BY TranscriptHolds, TrackerHolds DEF FilesInv, ClockInv, SnapInv, SnapShapes, RecordsInv, StoreInv
  <2>3. MigrationsTypeOK
    BY MigrationsHaveTypes DEF FilesInv
  <2>4. BranchesTypeOK /\ ToolsTypeOK
    BY BranchesHaveTypes, ToolsHaveTypes DEF FilesInv
  <2>5. subject = "patch" => PatchTypeOK
    BY PatchesHaveTypes DEF FilesInv
  <2>6. subject \in Subjects
    BY DEF FilesInv
  <2> QED
    BY <2>1, <2>2, <2>3, <2>4, <2>5, <2>6 DEF FilesTypeOK, Subjects
<1> QED
  BY <1>1, <1>3, <1>4, FilesInitially, FilesKeep, PTL DEF FilesSpec
=============================================================================

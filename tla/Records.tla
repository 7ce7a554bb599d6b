------------------------------- MODULE Records -------------------------------
(***************************************************************************)
(* Objects that are kept in one JSON file each and written whole after     *)
(* every change: SessionStateManager (src/session/state.py), Workboard     *)
(* (src/workboard), RepositoryCache (src/repository/cache.py),             *)
(* SessionSharing (src/share) and ActiveMemory (src/memory).               *)
(*                                                                         *)
(* Several holders (processes) may have the same file loaded.  write_text  *)
(* empties the file before it fills it, and a process may die in between.  *)
(* Bound: the calls of different holders do not overlap.                   *)
(***************************************************************************)
EXTENDS Naturals, Sequences, SequencesExt, FiniteSets, TLC

CONSTANTS
  Holders,      \* processes that have the object open
  MaxMemories,   \* max_entries of the memory
  MaxNow,       \* bound: readings of the clock
  MaxSaves      \* bound: calls that write

ASSUME RecordsAssumption ==
  /\ "nobody" \notin Holders
  /\ MaxMemories \in Nat \ {0} /\ MaxNow \in Nat /\ MaxSaves \in Nat

VARIABLES
  keeper,       \* which of the five the file belongs to
  held,         \* per holder, the object in its memory
  open,         \* holders that have loaded it
  file,         \* [is |-> "none", "torn" or "whole", data]
  writer,       \* the holder that is in the middle of write_text, or "nobody"
  now,          \* time.time()
  revision,     \* history: how many calls have written
  knows,        \* history: per holder, the revision its memory goes back to
  truth,        \* history: the object after all calls, one after the other
  stale,        \* history: a holder wrote that had not seen the last version
  cut           \* history: a write was cut off

recordVars == <<keeper, held, open, file, writer, now, revision, knows, truth, stale, cut>>

Keepers == {"state", "board", "repos", "shares", "memory"}

\* What the constructors start from.
DefaultState == [yolo |-> FALSE, auto |-> {}, todos |-> <<>>]
NewObject(k) == IF k = "state" THEN DefaultState ELSE <<>>

Call(name, key, arg) == [name |-> name, key |-> key, arg |-> arg]

\* Without one key, as del does.
Dropped(f, key) == [k \in DOMAIN f \ {key} |-> f[k]]

-----------------------------------------------------------------------------
(***************************************************************************)
(* The calls of each keeper, those that save, and what they leave.         *)
(***************************************************************************)
StateCalls == {Call("yolo", 0, TRUE), Call("auto", 0, "bash"), Call("todo", 0, ""),
               Call("done", 1, ""), Call("clear", 0, "")}

\* set_yolo (set_afk, set_plan_mode and set_title likewise), add_auto_approve,
\* add_todo, update_todo, clear.
StateAfter(c, m) ==
  CASE c.name = "yolo" -> [m EXCEPT !.yolo = c.arg]
    [] c.name = "auto" -> [m EXCEPT !.auto = @ \cup {c.arg}]
    [] c.name = "todo" -> [m EXCEPT !.todos = Append(@, "pending")]
    [] c.name = "done" -> [m EXCEPT !.todos[c.key] = "done"]
    [] c.name = "clear" -> DefaultState

BoardCalls == {Call("add", now, "todo")}
                \cup {Call(n, i, "review") : n \in {"move", "delete"}, i \in 0..MaxNow}

\* The id is the time of the call: a second item of the same instant takes
\* the place of the first.
BoardAfter(c, m) ==
  CASE c.name = "add" -> (c.key :> c.arg) @@ m
    [] c.name = "move" -> [m EXCEPT ![c.key] = c.arg]
    [] c.name = "delete" -> Dropped(m, c.key)

RepoCalls == {Call(n, u, now) : n \in {"add", "remove", "fetch"}, u \in {"u1", "u2"}}
               \cup {Call("clear", "", 0)}

\* add replaces the whole entry, its last fetch included.
RepoAfter(c, m) ==
  CASE c.name = "add" -> (c.key :> 0) @@ m
    [] c.name = "remove" -> Dropped(m, c.key)
    [] c.name = "fetch" -> [m EXCEPT ![c.key] = c.arg]
    [] c.name = "clear" -> <<>>

\* One session; the argument of share is what expires_in makes of the time.
ShareCalls == {Call("share", o, e) : o \in {"o1", "o2"}, e \in {0, now + 1}}
                \cup {Call(n, u, 0) : n \in {"add", "remove"}, u \in {"o1", "u1"}}
                \cup {Call("revoke", o, 0) : o \in {"o1", "o2"}}

\* share asks nobody: the new share replaces that of another owner, with all
\* its users; revoke is for the owner alone.
ShareAfter(c, m) ==
  CASE c.name = "share" -> "s" :> [owner |-> c.key, users |-> {"u1"}, until |-> c.arg]
    [] c.name = "add" /\ m # <<>> -> [m EXCEPT !["s"].users = @ \cup {c.key}]
    [] c.name = "remove" /\ m # <<>> -> [m EXCEPT !["s"].users = @ \ {c.key}]
    [] c.name = "revoke" /\ m # <<>> -> IF m["s"].owner = c.key THEN <<>> ELSE m
    [] OTHER -> m

\* check_access
Access(m, user) ==
  CASE m = <<>> -> "denied"
    [] m # <<>> /\ m["s"].owner = user -> "admin"
    [] m # <<>> /\ m["s"].owner # user ->
         IF (m["s"].until = 0 \/ now <= m["s"].until) /\ user \in m["s"].users
           THEN "read" ELSE "denied"

MemoryCalls == {Call("remember", now, i) : i \in 1..2} \cup {Call("recall", 0, 0)}
                 \cup {Call(n, i, 2) : n \in {"forget", "weigh"}, i \in 0..MaxNow}

\* The entries of m at the positions P, each after those that R puts before it.
Arranged(m, P, R) ==
  [k \in 1..Cardinality(P) |->
     m[CHOOSE i \in P : Cardinality({j \in P : <<j, i>> \in R}) = k - 1]]

AsTheyCame(m) == {p \in (DOMAIN m) \X (DOMAIN m) : p[1] < p[2]}

\* sort keeps equal entries as they came, with reverse and without.
LeastFirst(m) ==
  {p \in (DOMAIN m) \X (DOMAIN m) :
     LET a == m[p[1]]
         b == m[p[2]]
     IN \/ a.weight < b.weight
        \/ a.weight = b.weight /\ (a.id < b.id \/ (a.id = b.id /\ p[1] < p[2]))}
MostFirst(m) ==
  {p \in (DOMAIN m) \X (DOMAIN m) :
     \/ m[p[1]].weight > m[p[2]].weight
     \/ m[p[1]].weight = m[p[2]].weight /\ p[1] < p[2]}

\* _expire: every entry of the model lives for two readings of the clock.
Fresh(m) == Arranged(m, {i \in DOMAIN m : now - m[i].id < 2}, AsTheyCame(m))

\* _trim: the last of the entries ordered by importance and age.
Trimmed(m) ==
  IF Len(m) <= MaxMemories THEN m
  ELSE SubSeq(Arranged(m, DOMAIN m, LeastFirst(m)), Len(m) - MaxMemories + 1, Len(m))

\* The first entry of the id, 0 if there is none.
FirstOf(m, id) == SelectInSeq(m, LAMBDA e : e.id = id)

\* remember expires, appends and trims; recall without a query sorts the
\* entries in place (here by importance alone); forget takes every entry of
\* the id, update_importance the first.
MemoryAfter(c, m) ==
  CASE c.name = "remember" -> Trimmed(Append(Fresh(m), [id |-> c.key, weight |-> c.arg]))
    [] c.name = "recall" -> Arranged(m, DOMAIN m, MostFirst(m))
    [] c.name = "forget" -> Arranged(m, {i \in DOMAIN m : m[i].id # c.key}, AsTheyCame(m))
    [] c.name = "weigh" ->
         IF FirstOf(m, c.key) = 0 THEN m ELSE [m EXCEPT ![FirstOf(m, c.key)].weight = c.arg]

CallsOf(k) ==
  CASE k = "state" -> StateCalls [] k = "board" -> BoardCalls [] k = "repos" -> RepoCalls
    [] k = "shares" -> ShareCalls [] k = "memory" -> MemoryCalls

After(k, c, m) ==
  CASE k = "state" -> StateAfter(c, m) [] k = "board" -> BoardAfter(c, m)
    [] k = "repos" -> RepoAfter(c, m) [] k = "shares" -> ShareAfter(c, m)
    [] k = "memory" -> MemoryAfter(c, m)

\* The other calls find nothing to change and return without saving.
Saves(c, m) ==
  CASE c.name \in {"done", "move", "delete", "fetch"} ->
         c.key \in DOMAIN (IF keeper = "state" THEN m.todos ELSE m)
    [] c.name = "remove" /\ keeper = "repos" -> c.key \in DOMAIN m
    [] c.name \in {"add", "remove", "revoke"} /\ keeper = "shares" -> ShareAfter(c, m) # m
    [] c.name \in {"forget", "weigh"} -> \E i \in DOMAIN m : m[i].id = c.key
    [] OTHER -> TRUE

-----------------------------------------------------------------------------
RecordsInit ==
  /\ keeper \in Keepers
  /\ held = [h \in Holders |-> NewObject(keeper)] /\ open = {}
  /\ file = [is |-> "none", data |-> NewObject(keeper)]
  /\ writer = "nobody" /\ now = 0 /\ revision = 0
  /\ knows = [h \in Holders |-> 0]
  /\ truth = NewObject(keeper) /\ stale = FALSE /\ cut = FALSE

\* What _load raises in the constructor keeps the object from being opened:
\* of the five, state, board and memory take a file they cannot read for an
\* empty one.
Loadable == file.is = "torn" => keeper \in {"state", "board", "memory"}

\* __init__, _load
Open(h) ==
  /\ h \notin open /\ writer # h /\ Loadable
  /\ open' = open \cup {h}
  /\ held' = [held EXCEPT ![h] = IF file.is = "whole" THEN file.data ELSE NewObject(keeper)]
  /\ knows' = [knows EXCEPT ![h] = IF writer = "nobody" THEN revision ELSE revision - 1]
  /\ UNCHANGED <<keeper, file, writer, now, revision, truth, stale, cut>>

\* A call changes the object in memory and begins to write the file.
Change(h, c) ==
  /\ h \in open /\ writer = "nobody" /\ revision < MaxSaves
  /\ Saves(c, held[h])
  /\ held' = [held EXCEPT ![h] = After(keeper, c, @)]
  /\ truth' = IF Saves(c, truth) THEN After(keeper, c, truth) ELSE truth
  /\ file' = [file EXCEPT !.is = "torn"]
  /\ writer' = h
  /\ stale' = (stale \/ knows[h] # revision)
  /\ revision' = revision + 1
  /\ knows' = [knows EXCEPT ![h] = revision + 1]
  /\ UNCHANGED <<keeper, open, now, cut>>

EndWrite ==
  /\ writer # "nobody"
  /\ file' = [is |-> "whole", data |-> held[writer]]
  /\ writer' = "nobody"
  /\ UNCHANGED <<keeper, held, open, now, revision, knows, truth, stale, cut>>

\* The process ends, in the middle of a write or not.
Leave(h) ==
  /\ h \in open
  /\ open' = open \ {h}
  /\ held' = [held EXCEPT ![h] = NewObject(keeper)]
  /\ writer' = IF writer = h THEN "nobody" ELSE writer
  /\ cut' = (cut \/ writer = h)
  /\ UNCHANGED <<keeper, file, now, revision, knows, truth, stale>>

TimePasses ==
  /\ now < MaxNow /\ writer = "nobody"
  /\ now' = now + 1
  /\ UNCHANGED <<keeper, held, open, file, writer, revision, knows, truth, stale, cut>>

RecordsNext ==
  \/ \E h \in Holders :
       Open(h) \/ Leave(h) \/ \E c \in CallsOf(keeper) : Change(h, c)
  \/ EndWrite \/ TimePasses

-----------------------------------------------------------------------------
RecordsTypeOK ==
  /\ keeper \in Keepers /\ file.is \in {"none", "torn", "whole"}
  /\ open \subseteq Holders /\ writer \in Holders \cup {"nobody"}
  /\ knows \in [Holders -> 0..revision] /\ revision \in 0..MaxSaves /\ now \in 0..MaxNow

\* As long as no holder writes from a copy that others have overtaken, and no
\* write is cut off, the file is the object that all calls together made, and
\* every holder that has seen the last write has it too.
OneObject == ~ stale /\ ~ cut =>
  /\ writer = "nobody" => file.data = truth
  /\ \A h \in open : knows[h] = revision => held[h] = truth

\* A file that was cut off loses everything that was in it, never a part: the
\* next holder starts from nothing, or cannot start.
CutLosesAll ==
  \A h \in open : knows[h] = revision /\ writer = "nobody" =>
    held[h] = (IF file.is = "whole" THEN file.data ELSE NewObject(keeper))

\* A user who was taken off a share, or whose share was revoked, is let in
\* again by a new grant alone, unless a holder wrote from an old copy.
NoAccessByOldCopies ==
  keeper = "shares" /\ ~ stale /\ ~ cut =>
    \A h \in open, u \in {"o1", "u1"} :
      knows[h] = revision => Access(held[h], u) = Access(truth, u)

\* remember keeps within max_entries, and what it drops, the new entry not
\* excepted, is old or no more important than all that it keeps.
TrimKeepsTheBest ==
  keeper = "memory" => \A h \in open, w \in 1..2 :
    LET new == [id |-> now, weight |-> w]
        was == ToSet(held[h]) \cup {new}
        kept == ToSet(MemoryAfter(Call("remember", now, w), held[h]))
    IN /\ Len(MemoryAfter(Call("remember", now, w), held[h])) <= MaxMemories
       /\ \A e \in was \ kept : now - e.id >= 2 \/ \A k \in kept : e.weight <= k.weight

\* What is on disk and what a process has in memory are one object.
ObjectsHold == OneObject /\ CutLosesAll /\ NoAccessByOldCopies
=============================================================================

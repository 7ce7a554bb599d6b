---------------------------- MODULE SessionStore ----------------------------
(***************************************************************************)
(* The SQLite session store of src/session/store.py, as the threads of the *)
(* API server (src/deployment/inference_server.py) use it.                 *)
(*                                                                         *)
(* Every method takes self._lock around its SQL, but a call that changes a *)
(* session takes it several times: append_message reads the row, releases  *)
(* the lock, builds the new list, takes the lock to write it, releases it, *)
(* stamps an event and takes the lock once more to insert it.  Each locked *)
(* block, and the stamping between two of them, is one action here.        *)
(***************************************************************************)
EXTENDS Naturals, Sequences, FiniteSets

CONSTANTS
  Threads,      \* the worker threads that serve API calls
  SessionIds,   \* the ids uuid4 may draw for sessions
  Ranks,        \* where a random event id falls among the others
  MaxCalls,     \* bound: calls that append, change a status or delete
  MaxCrashes,   \* bound: crashes of the server process
  None          \* no row

ASSUME StoreAssumption ==
  /\ SessionIds # {}
  /\ Ranks \subseteq Nat
  /\ MaxCalls \in Nat
  /\ MaxCrashes \in Nat
  /\ None \notin [status : {"active", "finished", "interrupted", "error"},
                  messages : Seq(1..MaxCalls)]

VARIABLES
  sessions,     \* the sessions table: id -> row, None where there is no row
  drawn,        \* ids that create_session has already used
  events,       \* the session_events table
  commits,      \* number of committed transactions: the clock _now() reads
  calls,        \* number of mutating calls begun: the identity of the last
  local,        \* per thread, the step it is at and the values it carries
  crashes       \* number of crashes so far

table == <<sessions, drawn, events, commits>>
storeVars == <<table, calls, local, crashes>>

(***************************************************************************)
(* Rows, events and frames.  A message is the identity of the call that    *)
(* appended it.  An event carries the status or the call it reports; its   *)
(* random id is a rank, made distinct by the number of the commit that     *)
(* inserted it.                                                            *)
(***************************************************************************)
Statuses == {"active", "finished", "interrupted", "error"}
EventTypes == {"session.created", "message.added", "session.status_changed"}
Row == [status : Statuses, messages : Seq(1..MaxCalls)]
Event == [sid : SessionIds, type : EventTypes, status : Statuses,
          call : 0..MaxCalls, at : Nat, rank : Ranks, nr : Nat]
Frame == [step : {"idle", "update", "stamp", "emit"}, sid : SessionIds,
          type : EventTypes, status : Statuses, call : 0..MaxCalls,
          read : Seq(1..MaxCalls), at : Nat]

Exists(s) == sessions[s] # None
EventsOf(s) == {e \in events : e.sid = s}
Busy(t) == local[t].step # "idle"
InFlight(s) == {t \in Threads : Busy(t) /\ local[t].sid = s}

\* ORDER BY created_at, id
Before(e, f) ==
  \/ e.at < f.at
  \/ e.at = f.at /\ e.rank < f.rank
  \/ e.at = f.at /\ e.rank = f.rank /\ e.nr < f.nr

\* The frame of a thread that has begun call c on session s.
Begun(step, s, type, c) ==
  [step |-> step, sid |-> s, type |-> type, status |-> "active",
   call |-> c, read |-> <<>>, at |-> 0]

IdleFrame == Begun("idle", CHOOSE s \in SessionIds : TRUE, "session.created", 0)

Init ==
  /\ sessions = [s \in SessionIds |-> None]
  /\ drawn = {}
  /\ events = {}
  /\ commits = 0
  /\ calls = 0
  /\ local = [t \in Threads |-> IdleFrame]
  /\ crashes = 0

-----------------------------------------------------------------------------
(***************************************************************************)
(* The locked blocks.  A commit outlasts the clock's microsecond, so the   *)
(* number of commits stands for the time.                                  *)
(***************************************************************************)
Commit == commits' = commits + 1

NewCall == calls < MaxCalls /\ calls' = calls + 1

\* create_session: INSERT the row; its event is still to come.
CreateSession(t, s) ==
  /\ ~ Busy(t)
  /\ s \notin drawn
  /\ drawn' = drawn \cup {s}
  /\ sessions' = [sessions EXCEPT ![s] = [status |-> "active", messages |-> <<>>]]
  /\ local' = [local EXCEPT ![t] = Begun("stamp", s, "session.created", 0)]
  /\ Commit
  /\ UNCHANGED <<events, calls, crashes>>

\* append_message, first block: get_session.  A missing row ends the call.
AppendRead(t, s) ==
  /\ ~ Busy(t)
  /\ Exists(s)
  /\ NewCall
  /\ local' = [local EXCEPT ![t] =
       [Begun("update", s, "message.added", calls + 1)
          EXCEPT !.read = sessions[s].messages]]
  /\ UNCHANGED <<table, crashes>>

\* Mutants of AppendWrite: the table and the next step as given.
AppendWriteAs(t, row(_), step) ==
  LET f == local[t] IN
  /\ f.step = "update"
  /\ sessions' = [sessions EXCEPT ![f.sid] = row(f)]
  /\ local' = [local EXCEPT ![t].step = step]
  /\ Commit
  /\ UNCHANGED <<drawn, events, calls, crashes>>

\* Mutant of AppendWrite: an UPSERT where the code has an UPDATE.
AppendWriteUpsert(t) ==
  LET Upsert(f) == [status |-> "active", messages |-> Append(f.read, f.call)]
  IN AppendWriteAs(t, Upsert, "stamp")

\* Mutant of AppendWrite: the new message goes to the front of the list.
AppendWriteFront(t) ==
  LET Front(f) == IF Exists(f.sid)
                    THEN [sessions[f.sid] EXCEPT !.messages = <<f.call>> \o f.read]
                    ELSE None
  IN AppendWriteAs(t, Front, "stamp")

\* Mutant of AppendWrite: the list is written back without the message.
AppendWriteLost(t) ==
  LET Same(f) == sessions[f.sid] IN AppendWriteAs(t, Same, "stamp")

\* Mutant of AppendWrite: returns after the UPDATE, without an event.
AppendWriteSilent(t) ==
  LET New(f) == [sessions[f.sid] EXCEPT !.messages = Append(f.read, f.call)]
  IN AppendWriteAs(t, New, "idle")

\* append_message, second block: UPDATE with the list that was read.  It
\* changes no row when the session is gone, and the code does not look.
AppendWrite(t) ==
  LET f == local[t] IN
  /\ f.step = "update"
  /\ sessions' = [s \in SessionIds |->
       IF s = f.sid /\ Exists(s)
         THEN [sessions[s] EXCEPT !.messages = Append(f.read, f.call)]
         ELSE sessions[s]]
  /\ local' = [local EXCEPT ![t].step = "stamp"]
  /\ Commit
  /\ UNCHANGED <<drawn, events, calls, crashes>>

\* update_status: UPDATE; the event follows only if a row was changed.
UpdateStatus(t, s, status) ==
  /\ ~ Busy(t)
  /\ Exists(s)
  /\ NewCall
  /\ sessions' = [sessions EXCEPT ![s] = [@ EXCEPT !.status = status]]
  /\ local' = [local EXCEPT ![t] =
       [Begun("stamp", s, "session.status_changed", calls + 1)
          EXCEPT !.status = status]]
  /\ Commit
  /\ UNCHANGED <<drawn, events, crashes>>

\* _emit_event, before it takes the lock: now = self._now().
StampEvent(t) ==
  /\ local[t].step = "stamp"
  /\ local' = [local EXCEPT ![t] = [@ EXCEPT !.step = "emit", !.at = commits]]
  /\ UNCHANGED <<table, calls, crashes>>

\* Mutant of EmitEvent: the INSERT is retried as if it had failed.
EmitEventRetried(t) ==
  LET f == local[t] IN
  /\ f.step = "emit"
  /\ \E r \in Ranks :
       events' = events \cup {[sid |-> f.sid, type |-> f.type,
         status |-> f.status, call |-> f.call, at |-> f.at,
         rank |-> r, nr |-> commits]}
  /\ \E retry \in BOOLEAN : local' = [local EXCEPT ![t] = IF retry THEN f ELSE IdleFrame]
  /\ Commit
  /\ UNCHANGED <<sessions, drawn, calls, crashes>>

\* _emit_event, under the lock: INSERT, and the call returns.
EmitEvent(t) ==
  LET f == local[t] IN
  /\ f.step = "emit"
  /\ \E r \in Ranks :
       events' = events \cup {[sid |-> f.sid, type |-> f.type,
         status |-> f.status, call |-> f.call, at |-> f.at,
         rank |-> r, nr |-> commits]}
  /\ local' = [local EXCEPT ![t] = IdleFrame]
  /\ Commit
  /\ UNCHANGED <<sessions, drawn, calls, crashes>>

\* Mutant of DeleteSession: only the session row is deleted.
DeleteSessionRowOnly(t, s) ==
  /\ ~ Busy(t)
  /\ s \in drawn
  /\ NewCall
  /\ sessions' = [sessions EXCEPT ![s] = None]
  /\ Commit
  /\ UNCHANGED <<drawn, events, local, crashes>>

\* delete_session: both DELETEs in one transaction.  The events go even
\* when the session row is already gone.
DeleteSession(t, s) ==
  /\ ~ Busy(t)
  /\ s \in drawn
  /\ NewCall
  /\ events' = events \ EventsOf(s)
  /\ sessions' = [sessions EXCEPT ![s] = None]
  /\ Commit
  /\ UNCHANGED <<drawn, local, crashes>>

\* The server process dies between two statements; the tables survive.
Crash ==
  /\ crashes < MaxCrashes
  /\ crashes' = crashes + 1
  /\ local' = [t \in Threads |-> IdleFrame]
  /\ UNCHANGED <<table, calls>>

ThreadStep(t) ==
  \/ \E s \in SessionIds :
       \/ CreateSession(t, s)
       \/ AppendRead(t, s)
       \/ \E status \in Statuses : UpdateStatus(t, s, status)
       \/ DeleteSession(t, s)
  \/ AppendWrite(t)
  \/ StampEvent(t)
  \/ EmitEvent(t)

Next == (\E t \in Threads : ThreadStep(t)) \/ Crash

Spec == Init /\ [][Next]_storeVars

-----------------------------------------------------------------------------
\* Types: rows, events and frames have the shapes of the schema.
TypeOK ==
  /\ sessions \in [SessionIds -> Row \cup {None}]
  /\ drawn \in SUBSET SessionIds
  /\ events \in SUBSET Event
  /\ commits \in Nat
  /\ calls \in 0..MaxCalls
  /\ local \in [Threads -> Frame]
  /\ crashes \in 0..MaxCrashes

Ascending(q) == \A i, j \in 1..Len(q) : i < j => q[i] < q[j]

\* However the calls overlap, the messages of a session stay in the order
\* in which their appends read the row, and none is stored twice
\* (append_message writes back a list it read under an earlier lock).
MessagesOrdered ==
  \A s \in SessionIds : Exists(s) => Ascending(sessions[s].messages)

\* A deleted session stays deleted: an append that read its row before the
\* DELETE cannot bring it back (append_message UPDATEs, it never INSERTs).
NoResurrection ==
  [][\A s \in drawn : sessions[s] = None => sessions'[s] = None]_storeVars

\* A call is reported by at most one event, crash or no crash.
OneEventPerCall ==
  \A e, f \in events : e.call = f.call /\ e.call # 0 => e = f

\* Deleting a session deletes its events for good.
DeletedSessionHasNoEvents == \A e \in events : Exists(e.sid)

\* The log never runs ahead of the row: a message reported as added is in
\* the row, for as long as the session exists.
LoggedMessagesStored ==
  \A e \in events : e.type = "message.added" /\ Exists(e.sid) =>
    \E i \in DOMAIN sessions[e.sid].messages : sessions[e.sid].messages[i] = e.call

\* The row runs ahead of the log only by the calls in flight and by one
\* event for each crash: nothing else separates the UPDATE from the event.
LogDebtBounded ==
  \A s \in SessionIds : Exists(s) =>
    Len(sessions[s].messages)
      <= Cardinality({e \in EventsOf(s) : e.type = "message.added"})
           + Cardinality(InFlight(s)) + crashes

\* The stream of a session starts with its creation.
CreatedFirst ==
  \A e, f \in events : e.sid = f.sid /\ e.type = "session.created" /\ e # f
    => Before(e, f)

\* The last status in the stream is the status of the row, once no call on
\* the session is in flight and nothing crashed.
StatusMatchesLog ==
  \A e \in events :
    (/\ e.type = "session.status_changed"
     /\ \A f \in EventsOf(e.sid) : f.type = e.type /\ f # e => Before(f, e)
     /\ InFlight(e.sid) = {} /\ crashes = 0 /\ Exists(e.sid))
    => sessions[e.sid].status = e.status
\* With calls one at a time the log tells the story of the row: it begins
\* with the creation, ends with the status of the row, and lags by no more
\* than the call in flight and one event for each crash.
LogFitsRow == LogDebtBounded /\ CreatedFirst /\ StatusMatchesLog
=============================================================================

---------------------------- MODULE SessionStream ----------------------------
(***************************************************************************)
(* Clients that follow a session's events with after_id, composed with the *)
(* store: GET /v1/sessions/{id}/events?after_id=... answered by            *)
(* get_event_stream.  A client keeps the last event it was given and asks  *)
(* for what comes after it in (created_at, id) order.                      *)
(***************************************************************************)
EXTENDS SessionStore

CONSTANTS
  Pollers,      \* the clients
  MaxPolls,     \* bound: answers a client may receive
  NoEvent       \* the cursor before the first answer (no after_id)

ASSUME StreamAssumption == MaxPolls \in Nat /\ NoEvent \notin Event

VARIABLES
  cursor,       \* per client and session: the event whose id it sends
  given         \* per client and session: all events it was given, in order

streamVars == <<storeVars, cursor, given>>

\* Mutant of StreamAfter: the cursor's own event is included again.
StreamAfterInclusive(s, c) ==
  IF c = NoEvent THEN EventsOf(s)
  ELSE IF c \in events THEN {e \in EventsOf(s) : ~ Before(e, c)}
  ELSE {}

\* Mutant of StreamAfter: WHERE id > after_id, without created_at.
StreamAfterById(s, c) ==
  IF c = NoEvent THEN EventsOf(s)
  ELSE IF c \in events THEN {e \in EventsOf(s) : e.rank > c.rank}
  ELSE {}

\* get_event_stream: all events, or those after the cursor's event; nothing
\* when the cursor's event is no longer in the table.
StreamAfter(s, c) ==
  IF c = NoEvent THEN EventsOf(s)
  ELSE IF c \in events THEN {e \in EventsOf(s) : Before(c, e)}
  ELSE {}

\* ORDER BY created_at, id: the events of a set in the order of the stream.
Ordered(S) ==
  [n \in 1..Cardinality(S) |->
     CHOOSE e \in S : Cardinality({f \in S : Before(f, e)}) = n - 1]

StreamInit ==
  /\ Init
  /\ cursor = [p \in Pollers |-> [s \in SessionIds |-> NoEvent]]
  /\ given = [p \in Pollers |-> [s \in SessionIds |-> <<>>]]

\* Mutant of Poll: the id is kept as the cursor without the event it names.
PollIdOnly(p, s) ==
  LET answer == Ordered(StreamAfter(s, cursor[p][s]))
      last == answer[Len(answer)]
  IN
  /\ Len(given[p][s]) < MaxPolls
  /\ answer # <<>>
  /\ given' = [given EXCEPT ![p][s] = @ \o answer]
  /\ cursor' = [cursor EXCEPT ![p][s] = [rank |-> last.rank, nr |-> last.nr]]
  /\ UNCHANGED storeVars

\* One request and its answer: the rows are read under the store's lock.
Poll(p, s) ==
  LET answer == Ordered(StreamAfter(s, cursor[p][s]))
      last == answer[Len(answer)]
  IN
  /\ Len(given[p][s]) < MaxPolls
  /\ answer # <<>>
  /\ given' = [given EXCEPT ![p][s] = @ \o answer]
  /\ cursor' = [cursor EXCEPT ![p][s] = last]
  /\ UNCHANGED storeVars

StoreStep == Next /\ UNCHANGED <<cursor, given>>

StreamNext == StoreStep \/ \E p \in Pollers, s \in SessionIds : Poll(p, s)

StreamSpec == StreamInit /\ [][StreamNext]_streamVars

-----------------------------------------------------------------------------
\* Types of the client side.
StreamTypeOK ==
  /\ TypeOK
  /\ cursor \in [Pollers -> [SessionIds -> Event \cup {NoEvent}]]
  /\ \A p \in Pollers, s \in SessionIds :
       \A i \in DOMAIN given[p][s] : given[p][s][i] \in Event

\* A client that resumes from the last event is never given one twice, and
\* what it is given is in stream order, whatever the threads do meanwhile.
GivenInOrderOnce ==
  \A p \in Pollers, s \in SessionIds :
    \A i, j \in DOMAIN given[p][s] : i < j => Before(given[p][s][i], given[p][s][j])

\* A client that has caught up has every event of the session: resuming
\* with after_id skips none.
NothingSkipped ==
  \A p \in Pollers, s \in SessionIds :
    (cursor[p][s] \in events /\ StreamAfter(s, cursor[p][s]) = {})
      => \A e \in EventsOf(s) : \E i \in DOMAIN given[p][s] : given[p][s][i] = e
=============================================================================

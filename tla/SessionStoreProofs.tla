------------------------- MODULE SessionStoreProofs -------------------------
(***************************************************************************)
(* Theorems about the session store and the stream of its events, for      *)
(* every set of threads, clients, ids and every bound.  For any number of  *)
(* threads the inductive invariant has these parts beyond the types: what  *)
(* a suspended append has read is older than the append itself, the rows   *)
(* are in order, a call in flight has not been reported yet, and a cursor  *)
(* is the last of what a client was given.  With one thread it also knows  *)
(* what the call in flight owes the log.                                   *)
(***************************************************************************)
EXTENDS SessionStream, FiniteSetTheorems, TLAPS

-----------------------------------------------------------------------------
\* A frame about to UPDATE belongs to a counted call, and every message it
\* has read was appended by an earlier call.
FramesOrdered ==
  \A t \in Threads : local[t].step = "update" =>
    /\ local[t].call \in 1..calls
    /\ Ascending(local[t].read)
    /\ \A i \in 1..Len(local[t].read) : local[t].read[i] < local[t].call

\* Every stored message was appended by a call that has begun.
RowsOrdered ==
  \A s \in SessionIds : Exists(s) =>
    /\ Ascending(sessions[s].messages)
    /\ \A i \in 1..Len(sessions[s].messages) : sessions[s].messages[i] <= calls

OrderInv == TypeOK /\ FramesOrdered /\ RowsOrdered

LEMMA RowIsNotNone == None \notin Row
  BY StoreAssumption DEF Row, Statuses

LEMMA IdleFrameType == IdleFrame \in Frame /\ IdleFrame.step = "idle" /\ IdleFrame.call = 0
  BY StoreAssumption DEF IdleFrame, Begun, Frame, Statuses, EventTypes

LEMMA EmptyMessages == <<>> \in Seq(1..MaxCalls) /\ Ascending(<<>>)
  BY DEF Ascending

\* Appending a call to a list of earlier calls keeps the list in order.
LEMMA AppendAscending ==
  ASSUME NEW q \in Seq(1..MaxCalls), NEW c \in 1..MaxCalls,
         Ascending(q), \A i \in 1..Len(q) : q[i] < c
  PROVE  /\ Append(q, c) \in Seq(1..MaxCalls)
         /\ Ascending(Append(q, c))
         /\ \A i \in 1..Len(Append(q, c)) : Append(q, c)[i] <= c
<1> USE StoreAssumption
<1>1. Append(q, c) \in Seq(1..MaxCalls) /\ Len(Append(q, c)) = Len(q) + 1
  OBVIOUS
<1>2. \A i \in 1..Len(q) : Append(q, c)[i] = q[i] /\ q[i] \in 1..MaxCalls
  OBVIOUS
<1>3. Append(q, c)[Len(q) + 1] = c
  OBVIOUS
<1>4. \A i \in 1..(Len(q) + 1) : i \in 1..Len(q) \/ i = Len(q) + 1
  OBVIOUS
<1>5. Ascending(Append(q, c))
  BY <1>1, <1>2, <1>3, <1>4 DEF Ascending
<1>6. QED
  BY <1>1, <1>2, <1>3, <1>4, <1>5

LEMMA OrderInvInit == Init => OrderInv
<1> SUFFICES ASSUME Init PROVE OrderInv
  OBVIOUS
<1>1. TypeOK
  BY StoreAssumption, IdleFrameType DEF Init, TypeOK
<1>2. FramesOrdered
  BY IdleFrameType DEF Init, FramesOrdered
<1>3. RowsOrdered
  BY DEF Init, RowsOrdered, Exists
<1>4. QED
  BY <1>1, <1>2, <1>3 DEF OrderInv

LEMMA OrderInvNext == OrderInv /\ [Next]_storeVars => OrderInv'
<1> SUFFICES ASSUME OrderInv, [Next]_storeVars PROVE OrderInv'
  OBVIOUS
<1> USE StoreAssumption, RowIsNotNone, IdleFrameType DEF OrderInv, Exists
<1>1. ASSUME NEW t \in Threads, NEW s \in SessionIds, CreateSession(t, s)
      PROVE  OrderInv'
  <2>1. TypeOK'
    BY <1>1, EmptyMessages
    DEF TypeOK, CreateSession, Begun, Commit, Row, Frame, Statuses, EventTypes
  <2>2. FramesOrdered'
    BY <1>1 DEF TypeOK, FramesOrdered, CreateSession, Begun
  <2>3. RowsOrdered'
    BY <1>1, EmptyMessages DEF TypeOK, RowsOrdered, CreateSession
  <2>4. QED
    BY <2>1, <2>2, <2>3
<1>2. ASSUME NEW t \in Threads, NEW s \in SessionIds, AppendRead(t, s)
      PROVE  OrderInv'
  <2>1. sessions[s].messages \in Seq(1..MaxCalls) /\ calls \in Nat /\ calls' = calls + 1
    BY <1>2 DEF TypeOK, AppendRead, NewCall, Row
  <2>2. TypeOK'
    <3> DEFINE g == [Begun("update", s, "message.added", calls + 1)
                       EXCEPT !.read = sessions[s].messages]
    <3>1. calls + 1 \in 0..MaxCalls
      BY <1>2, <2>1 DEF AppendRead, NewCall
    <3>2. g \in Frame
      BY <2>1, <3>1 DEF Begun, Frame, Statuses, EventTypes
    <3>3. local' = [local EXCEPT ![t] = g]
      BY <1>2 DEF AppendRead
    <3>4. QED
      BY <1>2, <2>1, <3>1, <3>2, <3>3 DEF TypeOK, AppendRead, table
  <2>3. FramesOrdered'
    <3> SUFFICES ASSUME NEW u \in Threads, local'[u].step = "update"
        PROVE  /\ local'[u].call \in 1..calls'
               /\ Ascending(local'[u].read)
               /\ \A i \in 1..Len(local'[u].read) : local'[u].read[i] < local'[u].call
      BY DEF FramesOrdered
    <3>1. CASE u = t
      <4>1. local'[u].call = calls + 1 /\ local'[u].read = sessions[s].messages
        BY <1>2, <3>1 DEF TypeOK, AppendRead, Begun
      <4>2. /\ Ascending(sessions[s].messages)
            /\ \A i \in 1..Len(sessions[s].messages) :
                 /\ sessions[s].messages[i] <= calls
                 /\ sessions[s].messages[i] \in Nat
        BY <1>2, <2>1 DEF RowsOrdered, AppendRead
      <4>3. local'[u].call \in 1..calls'
        BY <2>1, <4>1
      <4>4. \A i \in 1..Len(sessions[s].messages) : sessions[s].messages[i] < calls + 1
        BY <2>1, <4>2
      <4>5. QED
        BY <4>1, <4>2, <4>3, <4>4
    <3>2. CASE u # t
      BY <1>2, <2>1, <3>2 DEF TypeOK, FramesOrdered, AppendRead
    <3>3. QED
      BY <3>1, <3>2
  <2>4. RowsOrdered'
    <3> SUFFICES ASSUME NEW r \in SessionIds, sessions[r] # None
        PROVE  /\ Ascending(sessions[r].messages)
               /\ \A i \in 1..Len(sessions[r].messages) : sessions[r].messages[i] <= calls'
      BY <1>2 DEF RowsOrdered, AppendRead, table
    <3>1. sessions[r].messages \in Seq(1..MaxCalls)
      BY DEF TypeOK, Row
    <3>2. QED
      BY <2>1, <3>1 DEF RowsOrdered
  <2>5. QED
    BY <2>2, <2>3, <2>4
<1>3. ASSUME NEW t \in Threads, AppendWrite(t)
      PROVE  OrderInv'
  <2> DEFINE f == local[t]
             new == Append(f.read, f.call)
  <2>1. f \in Frame /\ f.step = "update" /\ f.call \in 1..calls /\ f.call \in 1..MaxCalls
    BY <1>3 DEF TypeOK, FramesOrdered, AppendWrite
  <2>2. f.read \in Seq(1..MaxCalls)
    BY <2>1 DEF Frame
  <2>3. Ascending(f.read) /\ \A i \in 1..Len(f.read) : f.read[i] < f.call
    BY <2>1 DEF FramesOrdered
  <2>. HIDE DEF f
  <2>10. /\ new \in Seq(1..MaxCalls)
        /\ Ascending(new)
        /\ \A i \in 1..Len(new) : new[i] <= f.call
    BY <2>1, <2>2, <2>3, AppendAscending
  <2>11. \A i \in 1..Len(new) : new[i] \in Nat
    BY <2>10
  <2>. HIDE DEF new
  <2>4. \A s \in SessionIds : sessions'[s] =
          IF s = f.sid /\ sessions[s] # None
            THEN [sessions[s] EXCEPT !.messages = new] ELSE sessions[s]
    BY <1>3 DEF AppendWrite, f, new
  <2>5. \A s \in SessionIds : sessions'[s] \in Row \cup {None}
    BY <2>10, <2>4 DEF TypeOK, Row
  <2>6. TypeOK'
    <3>1. sessions' \in [SessionIds -> Row \cup {None}]
      BY <1>3, <2>5 DEF AppendWrite
    <3>2. local' \in [Threads -> Frame]
      BY <1>3, <2>1 DEF TypeOK, AppendWrite, Frame, f
    <3>3. QED
      BY <1>3, <3>1, <3>2 DEF TypeOK, AppendWrite, Commit
  <2>7. FramesOrdered'
    BY <1>3 DEF TypeOK, FramesOrdered, AppendWrite, Frame
  <2>8. RowsOrdered'
    <3> SUFFICES ASSUME NEW r \in SessionIds, sessions'[r] # None
        PROVE  /\ Ascending(sessions'[r].messages)
               /\ \A i \in 1..Len(sessions'[r].messages) : sessions'[r].messages[i] <= calls
      BY <1>3 DEF RowsOrdered, AppendWrite
    <3>1. CASE r = f.sid /\ sessions[r] # None
      <4>1. sessions'[r].messages = new
        <5>1. sessions[r] \in Row /\ sessions'[r] = [sessions[r] EXCEPT !.messages = new]
          BY <2>4, <3>1 DEF TypeOK
        <5>2. QED
          BY <5>1 DEF Row
      <4>2. \A i \in 1..Len(new) : new[i] <= calls
        <5>1. f.call \in Nat /\ calls \in Nat /\ f.call <= calls
          BY <2>1 DEF TypeOK
        <5>2. QED
          BY <2>10, <2>11, <5>1
      <4>3. QED
        BY <2>10, <4>1, <4>2
    <3>2. CASE ~ (r = f.sid /\ sessions[r] # None)
      BY <2>4, <3>2 DEF RowsOrdered
    <3>3. QED
      BY <3>1, <3>2
  <2>9. QED
    BY <2>6, <2>7, <2>8
<1>4. ASSUME NEW t \in Threads, NEW s \in SessionIds, NEW status \in Statuses,
             UpdateStatus(t, s, status)
      PROVE  OrderInv'
  <2>1. calls \in Nat /\ calls' = calls + 1 /\ calls' \in 0..MaxCalls
    BY <1>4 DEF TypeOK, UpdateStatus, NewCall
  <2>2. sessions[s] \in Row
    BY <1>4 DEF TypeOK, UpdateStatus
  <2>3. TypeOK'
    <3> DEFINE g == [Begun("stamp", s, "session.status_changed", calls + 1)
                       EXCEPT !.status = status]
    <3>1. g \in Frame
      BY <2>1, EmptyMessages DEF Begun, Frame, Statuses, EventTypes
    <3>2. [sessions[s] EXCEPT !.status = status] \in Row
      BY <2>2 DEF Row
    <3>3. /\ local' = [local EXCEPT ![t] = g]
          /\ sessions' = [sessions EXCEPT ![s] = [sessions[s] EXCEPT !.status = status]]
      BY <1>4 DEF TypeOK, UpdateStatus
    <3>4. QED
      BY <1>4, <2>1, <3>1, <3>2, <3>3 DEF TypeOK, UpdateStatus, Commit
  <2>4. FramesOrdered'
    BY <1>4, <2>1 DEF TypeOK, FramesOrdered, UpdateStatus, Begun
  <2>5. RowsOrdered'
    <3> SUFFICES ASSUME NEW r \in SessionIds, sessions'[r] # None
        PROVE  /\ Ascending(sessions'[r].messages)
               /\ \A i \in 1..Len(sessions'[r].messages) : sessions'[r].messages[i] <= calls'
      BY DEF RowsOrdered
    <3>1. sessions[r] # None /\ sessions'[r].messages = sessions[r].messages
      BY <1>4, <2>2 DEF TypeOK, UpdateStatus, Row
    <3>2. sessions[r].messages \in Seq(1..MaxCalls)
      BY <3>1 DEF TypeOK, Row
    <3>3. QED
      BY <2>1, <3>1, <3>2 DEF RowsOrdered
  <2>6. QED
    BY <2>3, <2>4, <2>5
<1>5. ASSUME NEW t \in Threads, StampEvent(t)
      PROVE  OrderInv'
  <2>1. TypeOK'
    BY <1>5 DEF TypeOK, StampEvent, table, Frame
  <2>2. FramesOrdered'
    BY <1>5 DEF TypeOK, FramesOrdered, StampEvent, Frame
  <2>3. RowsOrdered'
    BY <1>5 DEF RowsOrdered, StampEvent, table
  <2>4. QED
    BY <2>1, <2>2, <2>3
<1>6. ASSUME NEW t \in Threads, EmitEvent(t)
      PROVE  OrderInv'
  <2>1. local[t] \in Frame
    BY DEF TypeOK
  <2>2. TypeOK'
    BY <1>6, <2>1 DEF TypeOK, EmitEvent, Commit, Frame, Event
  <2>3. FramesOrdered'
    BY <1>6 DEF TypeOK, FramesOrdered, EmitEvent
  <2>4. RowsOrdered'
    BY <1>6 DEF RowsOrdered, EmitEvent
  <2>5. QED
    BY <2>2, <2>3, <2>4
<1>7. ASSUME NEW t \in Threads, NEW s \in SessionIds, DeleteSession(t, s)
      PROVE  OrderInv'
  <2>1. calls \in Nat /\ calls' = calls + 1 /\ calls' \in 0..MaxCalls
    BY <1>7 DEF TypeOK, DeleteSession, NewCall
  <2>2. TypeOK'
    BY <1>7, <2>1 DEF TypeOK, DeleteSession, Commit
  <2>3. FramesOrdered'
    BY <1>7, <2>1 DEF FramesOrdered, DeleteSession
  <2>4. RowsOrdered'
    <3> SUFFICES ASSUME NEW r \in SessionIds, sessions'[r] # None
        PROVE  /\ Ascending(sessions'[r].messages)
               /\ \A i \in 1..Len(sessions'[r].messages) : sessions'[r].messages[i] <= calls'
      BY DEF RowsOrdered
    <3>1. sessions[r] # None /\ sessions'[r] = sessions[r]
      BY <1>7 DEF TypeOK, DeleteSession
    <3>2. sessions[r].messages \in Seq(1..MaxCalls)
      BY <3>1 DEF TypeOK, Row
    <3>3. QED
      BY <2>1, <3>1, <3>2 DEF RowsOrdered
  <2>5. QED
    BY <2>2, <2>3, <2>4
<1>8. CASE Crash
  <2>1. TypeOK'
    BY <1>8 DEF TypeOK, Crash, table
  <2>2. FramesOrdered'
    BY <1>8 DEF FramesOrdered, Crash
  <2>3. RowsOrdered'
    BY <1>8 DEF RowsOrdered, Crash, table
  <2>4. QED
    BY <2>1, <2>2, <2>3
<1>9. CASE UNCHANGED storeVars
  BY <1>9 DEF storeVars, table, TypeOK, FramesOrdered, RowsOrdered
<1>10. QED
  BY <1>1, <1>2, <1>3, <1>4, <1>5, <1>6, <1>7, <1>8, <1>9 DEF Next, ThreadStep

\* In every reachable state the rows, events and frames have their types.
THEOREM TypeCorrect == Spec => []TypeOK
<1>1. OrderInv => TypeOK
  BY DEF OrderInv
<1>2. QED
  BY <1>1, OrderInvInit, OrderInvNext, PTL DEF Spec

\* For any number of threads, the messages of a session stay in the order
\* of their appends (the list append_message writes back was read earlier).
THEOREM MessagesStayOrdered == Spec => []MessagesOrdered
<1>1. OrderInv => MessagesOrdered
  BY DEF OrderInv, RowsOrdered, MessagesOrdered
<1>2. QED
  BY <1>1, OrderInvInit, OrderInvNext, PTL DEF Spec

-----------------------------------------------------------------------------
(***************************************************************************)
(* Deleted sessions.                                                       *)
(***************************************************************************)
LEMMA NoResurrectionStep ==
  ASSUME TypeOK, [Next]_storeVars
  PROVE  \A s \in drawn : sessions[s] = None => sessions'[s] = None
<1> SUFFICES ASSUME NEW s \in drawn, sessions[s] = None PROVE sessions'[s] = None
  OBVIOUS
<1>1. s \in SessionIds
  BY DEF TypeOK
<1>2. ASSUME NEW t \in Threads, NEW r \in SessionIds, CreateSession(t, r)
      PROVE  sessions'[s] = None
  BY <1>1, <1>2 DEF TypeOK, CreateSession
<1>3. ASSUME NEW t \in Threads, AppendWrite(t)
      PROVE  sessions'[s] = None
  BY <1>1, <1>3 DEF AppendWrite, Exists
<1>4. ASSUME NEW t \in Threads, NEW r \in SessionIds, NEW status \in Statuses,
             UpdateStatus(t, r, status)
      PROVE  sessions'[s] = None
  BY <1>1, <1>4 DEF TypeOK, UpdateStatus, Exists
<1>5. ASSUME NEW t \in Threads, NEW r \in SessionIds, DeleteSession(t, r)
      PROVE  sessions'[s] = None
  BY <1>1, <1>5 DEF TypeOK, DeleteSession
<1>6. ASSUME NEW t \in Threads,
             \/ \E r \in SessionIds : AppendRead(t, r)
             \/ StampEvent(t)
             \/ EmitEvent(t)
      PROVE  sessions'[s] = None
  BY <1>6 DEF AppendRead, StampEvent, EmitEvent, table
<1>7. CASE Crash
  BY <1>7 DEF Crash, table
<1>8. CASE UNCHANGED storeVars
  BY <1>8 DEF storeVars, table
<1>9. QED
  BY <1>2, <1>3, <1>4, <1>5, <1>6, <1>7, <1>8 DEF Next, ThreadStep

\* For any number of threads, no call brings a deleted session back
\* (append_message on a session deleted after it was read).
THEOREM DeletedStaysDeleted == Spec => NoResurrection
<1>1. TypeOK /\ [Next]_storeVars
        => [\A s \in drawn : sessions[s] = None => sessions'[s] = None]_storeVars
  BY NoResurrectionStep
<1>2. QED
  BY <1>1, TypeCorrect, PTL DEF Spec, NoResurrection

-----------------------------------------------------------------------------
(***************************************************************************)
(* One event per call.  A call in flight has not been reported, and no two *)
(* threads carry the same call.                                            *)
(***************************************************************************)
CallsDistinct ==
  /\ \A e \in events : e.call <= calls
  /\ \A t \in Threads : local[t].call <= calls
  /\ \A t \in Threads, e \in events : local[t].call # 0 => e.call # local[t].call
  /\ \A t, u \in Threads : local[t].call = local[u].call /\ local[t].call # 0 => t = u

EventInv == TypeOK /\ CallsDistinct /\ OneEventPerCall

LEMMA EventInvInit == Init => EventInv
<1> SUFFICES ASSUME Init PROVE EventInv
  OBVIOUS
<1>1. TypeOK
  BY OrderInvInit DEF OrderInv
<1>2. CallsDistinct
  BY IdleFrameType DEF Init, CallsDistinct
<1>3. OneEventPerCall
  BY DEF Init, OneEventPerCall
<1>4. QED
  BY <1>1, <1>2, <1>3 DEF EventInv

\* A call that has just begun has an identity no frame and no event carries.
LEMMA NewCallDistinct ==
  ASSUME EventInv, NEW t \in Threads, NEW g,
         calls' = calls + 1, g.call = calls + 1,
         local' = [local EXCEPT ![t] = g], events' = events
  PROVE  CallsDistinct'
<1>1. /\ calls \in Nat
      /\ \A e \in events : e.call \in Nat
      /\ \A u \in Threads : local[u].call \in Nat
  BY StoreAssumption DEF EventInv, TypeOK, Event, Frame
<1>2. \A u \in Threads : local'[u] = IF u = t THEN g ELSE local[u]
  BY DEF EventInv, TypeOK
<1>3. \A e \in events' : e.call <= calls' /\ e.call # calls + 1
  BY <1>1 DEF EventInv, CallsDistinct
<1>4. \A u \in Threads : local'[u].call <= calls'
  BY <1>1, <1>2 DEF EventInv, CallsDistinct
<1>5. \A u \in Threads, e \in events' : local'[u].call # 0 => e.call # local'[u].call
  BY <1>2, <1>3 DEF EventInv, CallsDistinct
<1>6. \A u, v \in Threads : local'[u].call = local'[v].call /\ local'[u].call # 0 => u = v
  BY <1>1, <1>2 DEF EventInv, CallsDistinct
<1>7. QED
  BY <1>3, <1>4, <1>5, <1>6 DEF CallsDistinct

\* A step that only drops calls from frames, or keeps them, changes nothing.
LEMMA FewerCallsDistinct ==
  ASSUME EventInv, events' \subseteq events, calls' \in Nat, calls <= calls',
         \A u \in Threads : local'[u].call \in {0, local[u].call}
  PROVE  CallsDistinct' /\ OneEventPerCall'
<1>1. /\ calls \in Nat
      /\ \A e \in events : e.call \in Nat
      /\ \A u \in Threads : local[u].call \in Nat
  BY StoreAssumption DEF EventInv, TypeOK, Event, Frame
<1>2. \A e \in events' : e.call <= calls'
  BY <1>1 DEF EventInv, CallsDistinct
<1>3. \A u \in Threads : local'[u].call <= calls'
  BY <1>1 DEF EventInv, CallsDistinct
<1>4. \A u \in Threads, e \in events' : local'[u].call # 0 => e.call # local'[u].call
  BY DEF EventInv, CallsDistinct
<1>5. \A u, v \in Threads : local'[u].call = local'[v].call /\ local'[u].call # 0 => u = v
  BY DEF EventInv, CallsDistinct
<1>6. OneEventPerCall'
  BY DEF EventInv, OneEventPerCall
<1>7. QED
  BY <1>2, <1>3, <1>4, <1>5, <1>6 DEF CallsDistinct

\* The event of a call in flight is the first of that call.
LEMMA EmitDistinct ==
  ASSUME EventInv, NEW t \in Threads, EmitEvent(t)
  PROVE  CallsDistinct' /\ OneEventPerCall'
<1> DEFINE c == local[t].call
<1> DEFINE new(r) == [sid |-> local[t].sid, type |-> local[t].type,
                      status |-> local[t].status, call |-> c,
                      at |-> local[t].at, rank |-> r, nr |-> commits]
<1>1. PICK r \in Ranks : events' = events \cup {new(r)}
  BY DEF EmitEvent
<1>11. new(r).call = c
  OBVIOUS
<1> HIDE DEF new
<1>2. \A u \in Threads : local'[u] = IF u = t THEN IdleFrame ELSE local[u]
  BY DEF EmitEvent, EventInv, TypeOK
<1>3. calls' = calls
  BY DEF EmitEvent
<1>4. \A e \in events : e.call = c => c = 0
  BY DEF EventInv, CallsDistinct
<1>5. \A e \in events' : e.call <= calls'
  BY <1>1, <1>11, <1>3 DEF EventInv, CallsDistinct
<1>6. \A u \in Threads : local'[u].call <= calls'
  BY <1>2, <1>3, IdleFrameType, StoreAssumption DEF EventInv, CallsDistinct, TypeOK
<1>7. \A u \in Threads, e \in events' : local'[u].call # 0 => e.call # local'[u].call
  BY <1>1, <1>11, <1>2, IdleFrameType DEF EventInv, CallsDistinct
<1>8. \A u, v \in Threads : local'[u].call = local'[v].call /\ local'[u].call # 0 => u = v
  BY <1>2, IdleFrameType DEF EventInv, CallsDistinct
<1>9. OneEventPerCall'
  BY <1>1, <1>11, <1>4 DEF EventInv, OneEventPerCall
<1>10. QED
  BY <1>5, <1>6, <1>7, <1>8, <1>9 DEF CallsDistinct

LEMMA EventInvNext == OrderInv /\ EventInv /\ [Next]_storeVars => EventInv'
<1> SUFFICES ASSUME OrderInv, EventInv, [Next]_storeVars
    PROVE  CallsDistinct' /\ OneEventPerCall'
  BY OrderInvNext DEF OrderInv, EventInv
<1> USE StoreAssumption
<1>0. calls \in Nat
  BY DEF EventInv, TypeOK
<1>1. ASSUME NEW t \in Threads, NEW s \in SessionIds, CreateSession(t, s)
      PROVE  CallsDistinct' /\ OneEventPerCall'
  BY <1>0, <1>1, FewerCallsDistinct DEF CreateSession, Begun, EventInv, TypeOK
<1>2. ASSUME NEW t \in Threads, NEW s \in SessionIds, AppendRead(t, s)
      PROVE  CallsDistinct' /\ OneEventPerCall'
  <2>1. CallsDistinct'
    BY <1>2, NewCallDistinct DEF AppendRead, NewCall, Begun, table
  <2>2. OneEventPerCall'
    BY <1>2 DEF EventInv, OneEventPerCall, AppendRead, table
  <2>3. QED
    BY <2>1, <2>2
<1>3. ASSUME NEW t \in Threads, AppendWrite(t)
      PROVE  CallsDistinct' /\ OneEventPerCall'
  <2>1. \A u \in Threads : local'[u].call = local[u].call
    BY <1>3 DEF AppendWrite, EventInv, TypeOK, Frame
  <2>2. QED
    BY <1>0, <1>3, <2>1, FewerCallsDistinct DEF AppendWrite
<1>4. ASSUME NEW t \in Threads, NEW s \in SessionIds, NEW status \in Statuses,
             UpdateStatus(t, s, status)
      PROVE  CallsDistinct' /\ OneEventPerCall'
  <2>1. CallsDistinct'
    BY <1>4, NewCallDistinct DEF UpdateStatus, NewCall, Begun
  <2>2. OneEventPerCall'
    BY <1>4 DEF EventInv, OneEventPerCall, UpdateStatus
  <2>3. QED
    BY <2>1, <2>2
<1>5. ASSUME NEW t \in Threads, StampEvent(t)
      PROVE  CallsDistinct' /\ OneEventPerCall'
  <2>1. \A u \in Threads : local'[u].call = local[u].call
    BY <1>5 DEF StampEvent, EventInv, TypeOK, Frame
  <2>2. QED
    BY <1>0, <1>5, <2>1, FewerCallsDistinct DEF StampEvent, table
<1>6. ASSUME NEW t \in Threads, EmitEvent(t)
      PROVE  CallsDistinct' /\ OneEventPerCall'
  BY <1>6, EmitDistinct
<1>7. ASSUME NEW t \in Threads, NEW s \in SessionIds, DeleteSession(t, s)
      PROVE  CallsDistinct' /\ OneEventPerCall'
  BY <1>0, <1>7, FewerCallsDistinct DEF DeleteSession, NewCall
<1>8. CASE Crash
  BY <1>0, <1>8, FewerCallsDistinct, IdleFrameType DEF Crash, table
<1>9. CASE UNCHANGED storeVars
  BY <1>0, <1>9, FewerCallsDistinct DEF storeVars, table
<1>10. QED
  BY <1>1, <1>2, <1>3, <1>4, <1>5, <1>6, <1>7, <1>8, <1>9 DEF Next, ThreadStep

\* For any number of threads and crashes, a call is reported at most once
\* (_emit_event after each mutation).
THEOREM OneEventForEachCall == Spec => []OneEventPerCall
<1>1. EventInv => OneEventPerCall
  BY DEF EventInv
<1>2. QED
  BY <1>1, OrderInvInit, OrderInvNext, EventInvInit, EventInvNext, PTL DEF Spec

-----------------------------------------------------------------------------
(***************************************************************************)
(* One thread, as in the command line and in the store's tests.  What      *)
(* overlapping calls break then holds for any number of sessions, calls    *)
(* and crashes: the call in flight has the session to itself.              *)
(***************************************************************************)
Logged(c, s) == \E i \in DOMAIN sessions[s].messages : sessions[s].messages[i] = c

SerialInv ==
  /\ TypeOK
  /\ \A s \in SessionIds : Exists(s) => s \in drawn
  /\ DeletedSessionHasNoEvents
  /\ LoggedMessagesStored
  /\ \A t \in Threads :
       /\ Busy(t) => Exists(local[t].sid)
       /\ local[t].step = "update" => local[t].read = sessions[local[t].sid].messages
       /\ local[t].step \in {"stamp", "emit"} /\ local[t].type = "message.added"
            => Logged(local[t].call, local[t].sid)

LEMMA SerialInvInit == Init => SerialInv
<1> SUFFICES ASSUME Init PROVE SerialInv
  OBVIOUS
<1>1. TypeOK
  BY OrderInvInit DEF OrderInv
<1>2. \A s \in SessionIds : ~ Exists(s)
  BY DEF Init, Exists
<1>3. events = {} /\ \A t \in Threads : local[t].step = "idle"
  BY IdleFrameType DEF Init
<1>4. QED
  BY <1>1, <1>2, <1>3
  DEF SerialInv, Busy, DeletedSessionHasNoEvents, LoggedMessagesStored

LEMMA SerialInvNext ==
  ASSUME NEW t0, Threads = {t0}
  PROVE  OrderInv /\ SerialInv /\ [Next]_storeVars => SerialInv'
<1> SUFFICES ASSUME OrderInv, SerialInv, [Next]_storeVars PROVE SerialInv'
  OBVIOUS
<1>0. TypeOK'
  BY OrderInvNext DEF OrderInv
<1> USE <1>0, StoreAssumption, RowIsNotNone DEF Exists, Busy
<1>1. ASSUME NEW s \in SessionIds, CreateSession(t0, s)
      PROVE  SerialInv'
  <2>1. s \notin drawn /\ sessions[s] = None /\ \A e \in events : e.sid # s
    BY <1>1 DEF SerialInv, CreateSession, DeletedSessionHasNoEvents, TypeOK, Event
  <2>2. \A r \in SessionIds : r # s => sessions'[r] = sessions[r]
    BY <1>1 DEF SerialInv, TypeOK, CreateSession
  <2>3. sessions'[s] = [status |-> "active", messages |-> <<>>] /\ sessions'[s] # None
    <3>1. [status |-> "active", messages |-> <<>>] \in Row
      BY EmptyMessages DEF Row, Statuses
    <3>2. sessions'[s] = [status |-> "active", messages |-> <<>>]
      BY <1>1 DEF SerialInv, TypeOK, CreateSession
    <3>3. QED
      BY <3>1, <3>2
  <2>4. events' = events /\ drawn' = drawn \cup {s}
        /\ local'[t0] = Begun("stamp", s, "session.created", 0)
    BY <1>1 DEF SerialInv, TypeOK, CreateSession
  <2>5. DeletedSessionHasNoEvents'
    BY <2>1, <2>2, <2>4 DEF SerialInv, DeletedSessionHasNoEvents, TypeOK, Event
  <2>6. LoggedMessagesStored'
    BY <2>1, <2>2, <2>4 DEF SerialInv, LoggedMessagesStored, TypeOK, Event
  <2>7. QED
    BY <2>2, <2>3, <2>4, <2>5, <2>6 DEF SerialInv, Begun
<1>2. ASSUME NEW s \in SessionIds, AppendRead(t0, s)
      PROVE  SerialInv'
  <2>1. /\ sessions' = sessions /\ events' = events /\ drawn' = drawn
        /\ local'[t0].step = "update" /\ local'[t0].sid = s
        /\ local'[t0].read = sessions[s].messages /\ sessions[s] # None
    BY <1>2 DEF SerialInv, TypeOK, AppendRead, Begun, table
  <2>2. DeletedSessionHasNoEvents' /\ LoggedMessagesStored'
    BY <2>1 DEF SerialInv, DeletedSessionHasNoEvents, LoggedMessagesStored
  <2>3. QED
    BY <2>1, <2>2 DEF SerialInv
<1>3. ASSUME AppendWrite(t0)
      PROVE  SerialInv'
  <2> DEFINE f == local[t0]
             s == f.sid
             new == Append(f.read, f.call)
  <2>1. /\ f \in Frame /\ s \in SessionIds /\ sessions[s] \in Row
        /\ f.step = "update" /\ f.read = sessions[s].messages
        /\ f.read \in Seq(1..MaxCalls) /\ f.call \in 1..MaxCalls
    BY <1>3 DEF AppendWrite, SerialInv, TypeOK, Frame, Row, OrderInv, FramesOrdered
  <2>2. /\ \A r \in SessionIds : r # s => sessions'[r] = sessions[r]
        /\ sessions'[s] = [sessions[s] EXCEPT !.messages = new]
    BY <1>3, <2>1 DEF AppendWrite
  <2>3. sessions'[s].messages = new /\ sessions'[s] # None
    <3>1. sessions'[s] \in Row \cup {None}
      BY <2>1 DEF TypeOK
    <3>2. sessions'[s].messages = new
      BY <2>1, <2>2 DEF Row
    <3>5. new \in Seq(1..MaxCalls)
      BY <2>1
    <3> HIDE DEF new
    <3>3. [sessions[s] EXCEPT !.messages = new] \in Row
      BY <2>1, <3>5 DEF Row
    <3>4. QED
      BY <2>2, <3>2, <3>3
  <2>4. /\ DOMAIN new = 1..(Len(f.read) + 1)
        /\ \A i \in DOMAIN f.read : i \in DOMAIN new /\ new[i] = f.read[i]
        /\ new[Len(f.read) + 1] = f.call /\ Len(f.read) + 1 \in DOMAIN new
    BY <2>1
  <2>5. /\ events' = events /\ drawn' = drawn
        /\ local'[t0] = [f EXCEPT !.step = "stamp"]
    BY <1>3 DEF AppendWrite, SerialInv, TypeOK
  <2>6. /\ local'[t0].sid = s /\ local'[t0].call = f.call
        /\ local'[t0].step = "stamp"
    BY <2>1, <2>5 DEF Frame
  <2> HIDE DEF new
  <2>7. \A r \in SessionIds : sessions'[r] # None <=> sessions[r] # None
    BY <2>1, <2>2, <2>3
  <2>8. DeletedSessionHasNoEvents'
    BY <2>5, <2>7 DEF SerialInv, DeletedSessionHasNoEvents, TypeOK, Event
  <2>9. LoggedMessagesStored'
    <3> SUFFICES ASSUME NEW e \in events, e.type = "message.added", sessions'[e.sid] # None
        PROVE  \E i \in DOMAIN sessions'[e.sid].messages :
                 sessions'[e.sid].messages[i] = e.call
      BY <2>5 DEF LoggedMessagesStored
    <3>1. /\ e.sid \in SessionIds /\ sessions[e.sid] # None
          /\ \E i \in DOMAIN sessions[e.sid].messages :
               sessions[e.sid].messages[i] = e.call
      BY <2>7 DEF SerialInv, LoggedMessagesStored, TypeOK, Event
    <3>2. CASE e.sid = s
      <4>1. PICK i \in DOMAIN f.read : f.read[i] = e.call
        BY <2>1, <3>1, <3>2
      <4>2. i \in DOMAIN new /\ new[i] = e.call
        BY <2>4, <4>1
      <4>3. QED
        BY <2>3, <3>2, <4>2
    <3>3. CASE e.sid # s
      BY <2>2, <3>1, <3>3
    <3>4. QED
      BY <3>2, <3>3
  <2>10. Logged(f.call, s)'
    BY <2>3, <2>4, <2>5, <2>6 DEF Logged
  <2>11. QED
    BY <2>3, <2>5, <2>6, <2>7, <2>8, <2>9, <2>10 DEF SerialInv
<1>4. ASSUME NEW s \in SessionIds, NEW status \in Statuses, UpdateStatus(t0, s, status)
      PROVE  SerialInv'
  <2>1. sessions[s] \in Row
    BY <1>4 DEF SerialInv, TypeOK, UpdateStatus
  <2>2. \A r \in SessionIds : /\ sessions'[r] # None <=> sessions[r] # None
                              /\ sessions[r] # None => sessions'[r].messages = sessions[r].messages
    BY <1>4, <2>1 DEF SerialInv, TypeOK, UpdateStatus, Row
  <2>3. /\ events' = events /\ drawn' = drawn /\ local'[t0].sid = s
        /\ local'[t0].step = "stamp" /\ local'[t0].type = "session.status_changed"
        /\ sessions[s] # None
    BY <1>4 DEF SerialInv, TypeOK, UpdateStatus, Begun
  <2>4. DeletedSessionHasNoEvents'
    BY <2>2, <2>3 DEF SerialInv, DeletedSessionHasNoEvents, TypeOK, Event
  <2>5. LoggedMessagesStored'
    BY <2>2, <2>3 DEF SerialInv, LoggedMessagesStored, TypeOK, Event
  <2>6. QED
    BY <2>2, <2>3, <2>4, <2>5 DEF SerialInv
<1>5. ASSUME StampEvent(t0)
      PROVE  SerialInv'
  <2>1. /\ sessions' = sessions /\ events' = events /\ drawn' = drawn
        /\ local[t0].step = "stamp" /\ local'[t0].step = "emit"
        /\ local'[t0].sid = local[t0].sid /\ local'[t0].call = local[t0].call
        /\ local'[t0].type = local[t0].type
    BY <1>5 DEF SerialInv, TypeOK, StampEvent, Frame, table
  <2>2. DeletedSessionHasNoEvents' /\ LoggedMessagesStored'
    BY <2>1 DEF SerialInv, DeletedSessionHasNoEvents, LoggedMessagesStored
  <2>3. QED
    BY <2>1, <2>2 DEF SerialInv, Logged
<1>6. ASSUME EmitEvent(t0)
      PROVE  SerialInv'
  <2> DEFINE f == local[t0]
             new(r) == [sid |-> f.sid, type |-> f.type, status |-> f.status,
                        call |-> f.call, at |-> f.at, rank |-> r, nr |-> commits]
  <2>1. PICK r \in Ranks : events' = events \cup {new(r)}
    BY <1>6 DEF EmitEvent
  <2>2. new(r).sid = f.sid /\ new(r).type = f.type /\ new(r).call = f.call
    OBVIOUS
  <2> HIDE DEF new
  <2>3. /\ sessions' = sessions /\ drawn' = drawn /\ local'[t0].step = "idle"
        /\ f.step = "emit"
    BY <1>6, IdleFrameType DEF SerialInv, TypeOK, EmitEvent
  <2>4. sessions[f.sid] # None /\ (f.type = "message.added" => Logged(f.call, f.sid))
    BY <2>3 DEF SerialInv
  <2>5. DeletedSessionHasNoEvents'
    BY <2>1, <2>2, <2>3, <2>4 DEF SerialInv, DeletedSessionHasNoEvents
  <2>6. LoggedMessagesStored'
    BY <2>1, <2>2, <2>3, <2>4 DEF SerialInv, LoggedMessagesStored, Logged
  <2>7. QED
    BY <2>3, <2>5, <2>6 DEF SerialInv
<1>7. ASSUME NEW s \in SessionIds, DeleteSession(t0, s)
      PROVE  SerialInv'
  <2>1. /\ sessions'[s] = None
        /\ \A r \in SessionIds : r # s => sessions'[r] = sessions[r]
        /\ events' = {e \in events : e.sid # s}
        /\ drawn' = drawn /\ local' = local /\ local[t0].step = "idle"
    BY <1>7 DEF SerialInv, TypeOK, DeleteSession, EventsOf, Frame
  <2>2. DeletedSessionHasNoEvents'
    BY <2>1 DEF SerialInv, DeletedSessionHasNoEvents, TypeOK, Event
  <2>3. LoggedMessagesStored'
    BY <2>1 DEF SerialInv, LoggedMessagesStored, TypeOK, Event
  <2>4. QED
    BY <2>1, <2>2, <2>3 DEF SerialInv
<1>8. CASE Crash
  <2>1. /\ sessions' = sessions /\ events' = events /\ drawn' = drawn
        /\ local'[t0].step = "idle"
    BY <1>8, IdleFrameType DEF Crash, table
  <2>2. DeletedSessionHasNoEvents' /\ LoggedMessagesStored'
    BY <2>1 DEF SerialInv, DeletedSessionHasNoEvents, LoggedMessagesStored
  <2>3. QED
    BY <2>1, <2>2 DEF SerialInv
<1>9. CASE UNCHANGED storeVars
  BY <1>9 DEF storeVars, table, SerialInv, DeletedSessionHasNoEvents,
              LoggedMessagesStored, Logged
<1>10. QED
  BY <1>1, <1>2, <1>3, <1>4, <1>5, <1>6, <1>7, <1>8, <1>9 DEF Next, ThreadStep

\* With one thread, deleting a session deletes its events for good
\* (delete_session, and the event that follows every other mutation).
THEOREM SerialDeletion ==
  ASSUME NEW t0, Threads = {t0}
  PROVE  Spec => []DeletedSessionHasNoEvents
<1>1. SerialInv => DeletedSessionHasNoEvents
  BY DEF SerialInv
<1>2. OrderInv /\ SerialInv /\ [Next]_storeVars => SerialInv'
  BY SerialInvNext
<1>3. QED
  BY <1>1, <1>2, OrderInvInit, OrderInvNext, SerialInvInit, PTL DEF Spec

\* With one thread, the log never reports a message that the row lost
\* (append_message's read, UPDATE and event).
THEOREM SerialLog ==
  ASSUME NEW t0, Threads = {t0}
  PROVE  Spec => []LoggedMessagesStored
<1>1. SerialInv => LoggedMessagesStored
  BY DEF SerialInv
<1>2. OrderInv /\ SerialInv /\ [Next]_storeVars => SerialInv'
  BY SerialInvNext
<1>3. QED
  BY <1>1, <1>2, OrderInvInit, OrderInvNext, SerialInvInit, PTL DEF Spec

-----------------------------------------------------------------------------
(***************************************************************************)
(* The log and the row, with one thread.  An event is stamped later than   *)
(* all that were inserted before, so the log can be read as a history; the *)
(* row is ahead of it by what the frame carries.                           *)
(***************************************************************************)
Carries(t, type) == local[t].step \in {"stamp", "emit"} /\ local[t].type = type
CarriesFor(t, type, s) == Carries(t, type) /\ local[t].sid = s

\* Events are numbered by their commits, and stamped before them.
EventsNumbered ==
  /\ IsFiniteSet(events)
  /\ \A e \in events : e.at < commits /\ e.nr < commits
  /\ \A e, f \in events : e.nr = f.nr => e = f
  /\ \A t \in Threads : local[t].at <= commits

AddedTo(s) == {e \in EventsOf(s) : e.type = "message.added"}
LastOfType(e) == \A f \in EventsOf(e.sid) : f.type = e.type /\ f # e => Before(f, e)

FramesFresh ==
  \A t \in Threads :
    /\ local[t].step = "update" => local[t].type = "message.added"
    /\ local[t].step = "emit" => \A e \in events : e.at < local[t].at
    /\ Carries(t, "session.created") => \A e \in events : e.sid # local[t].sid

StatusCarried ==
  crashes = 0 => \A t \in Threads :
    Carries(t, "session.status_changed") => sessions[local[t].sid].status = local[t].status

DebtInv ==
  \A s \in SessionIds, t \in Threads : Exists(s) =>
    Len(sessions[s].messages)
      <= Cardinality(AddedTo(s)) + crashes + (IF CarriesFor(t, "message.added", s) THEN 1 ELSE 0)

StatusLogged ==
  crashes = 0 => \A e \in events :
    (/\ e.type = "session.status_changed" /\ Exists(e.sid) /\ LastOfType(e)
     /\ \A t \in Threads : ~ CarriesFor(t, "session.status_changed", e.sid))
    => sessions[e.sid].status = e.status

LogInv == FramesFresh /\ CreatedFirst /\ StatusCarried /\ DebtInv /\ StatusLogged

LEMMA FewerNumbered ==
  ASSUME TypeOK, EventsNumbered, events' \subseteq events, commits' \in {commits, commits + 1},
         \A t \in Threads : local'[t].at \in {0, commits, local[t].at}
  PROVE  EventsNumbered'
<1>1. commits \in Nat /\ \A e \in events : e.at \in Nat /\ e.nr \in Nat
  BY DEF TypeOK, Event
<1>2. \A t \in Threads : local[t].at \in Nat
  BY DEF TypeOK, Frame
<1>3. IsFiniteSet(events')
  BY FS_Subset DEF EventsNumbered
<1>4. (\A e \in events : e.at < commits /\ e.nr < commits)'
  BY <1>1 DEF EventsNumbered
<1>5. (\A t \in Threads : local[t].at <= commits)'
  BY <1>1, <1>2 DEF EventsNumbered
<1>6. (\A e, f \in events : e.nr = f.nr => e = f)'
  BY DEF EventsNumbered
<1> QED
  BY <1>3, <1>4, <1>5, <1>6 DEF EventsNumbered

\* What an emit inserts has the number of its commit, and an earlier stamp.
LEMMA EmitInserts ==
  ASSUME TypeOK, EventsNumbered, NEW t \in Threads, EmitEvent(t)
  PROVE  \E new \in Event :
           /\ events' = events \cup {new} /\ new \notin events
           /\ new.nr = commits /\ commits' = commits + 1 /\ commits \in Nat
           /\ new.at = local[t].at /\ new.at < commits' /\ new.at <= commits
           /\ new.sid = local[t].sid /\ new.type = local[t].type /\ new.status = local[t].status
           /\ \A e \in events : e.nr < new.nr
           /\ \A u \in Threads : local'[u] = IF u = t THEN IdleFrame ELSE local[u]
           /\ local[t].step = "emit" /\ sessions' = sessions /\ drawn' = drawn /\ crashes' = crashes
<1> DEFINE f == local[t]
           evt(r) == [sid |-> f.sid, type |-> f.type, status |-> f.status, call |-> f.call,
                      at |-> f.at, rank |-> r, nr |-> commits]
<1>1. PICK r \in Ranks : events' = events \cup {evt(r)}
  BY DEF EmitEvent
<1>2. f \in Frame /\ commits \in Nat /\ f.at \in Nat /\ f.at <= commits
  BY DEF TypeOK, Frame, EventsNumbered
<1>3. evt(r) \in Event
  BY <1>2, StoreAssumption DEF Event, Frame
<1>4. PICK new : new = evt(r)
  OBVIOUS
<1>5. /\ new.nr = commits /\ new.at = f.at /\ new.sid = f.sid /\ new.type = f.type
      /\ new.status = f.status /\ new \in Event /\ events' = events \cup {new}
  BY <1>1, <1>3, <1>4
<1> HIDE DEF evt
<1>6. /\ local' = [local EXCEPT ![t] = IdleFrame] /\ f.step = "emit" /\ commits' = commits + 1
      /\ UNCHANGED <<sessions, drawn, crashes>>
  BY DEF EmitEvent, Commit
<1>7. \A u \in Threads : local'[u] = IF u = t THEN IdleFrame ELSE local[u]
  BY <1>6 DEF TypeOK
<1>8. \A e \in events : e.nr < new.nr /\ e.nr \in Nat
  BY <1>5 DEF TypeOK, Event, EventsNumbered
<1>9. new \notin events
  BY <1>2, <1>5, <1>8
<1> QED
  BY <1>2, <1>5, <1>6, <1>7, <1>8, <1>9

LEMMA NumberedInit == Init => EventsNumbered
  BY FS_EmptySet DEF Init, EventsNumbered, IdleFrame, Begun

LEMMA NumberedNext == TypeOK /\ EventsNumbered /\ [Next]_storeVars => EventsNumbered'
<1> SUFFICES ASSUME TypeOK, EventsNumbered, [Next]_storeVars PROVE EventsNumbered'
  OBVIOUS
<1>0. IdleFrame.at = 0
  BY DEF IdleFrame, Begun
<1>1. ASSUME NEW t \in Threads, NEW s \in SessionIds, CreateSession(t, s)
      PROVE  EventsNumbered'
  <2>1. \A u \in Threads : local'[u].at \in {0, local[u].at}
    BY <1>1 DEF TypeOK, CreateSession, Begun
  <2> QED
    BY <1>1, <2>1, FewerNumbered DEF CreateSession, Commit
<1>2. ASSUME NEW t \in Threads, NEW s \in SessionIds, AppendRead(t, s)
      PROVE  EventsNumbered'
  <2>1. \A u \in Threads : local'[u].at \in {0, local[u].at}
    BY <1>2 DEF TypeOK, AppendRead, Begun
  <2> QED
    BY <1>2, <2>1, FewerNumbered DEF AppendRead, table
<1>3. ASSUME NEW t \in Threads, AppendWrite(t)
      PROVE  EventsNumbered'
  <2>1. \A u \in Threads : local'[u].at = local[u].at
    BY <1>3 DEF TypeOK, AppendWrite, Frame
  <2> QED
    BY <1>3, <2>1, FewerNumbered DEF AppendWrite, Commit
<1>4. ASSUME NEW t \in Threads, NEW s \in SessionIds, NEW status \in Statuses,
             UpdateStatus(t, s, status)
      PROVE  EventsNumbered'
  <2>1. \A u \in Threads : local'[u].at \in {0, local[u].at}
    BY <1>4 DEF TypeOK, UpdateStatus, Begun
  <2> QED
    BY <1>4, <2>1, FewerNumbered DEF UpdateStatus, Commit
<1>5. ASSUME NEW t \in Threads, StampEvent(t)
      PROVE  EventsNumbered'
  <2>1. \A u \in Threads : local'[u].at \in {commits, local[u].at}
    BY <1>5 DEF TypeOK, StampEvent, Frame
  <2> QED
    BY <1>5, <2>1, FewerNumbered DEF StampEvent, table
<1>6. ASSUME NEW t \in Threads, EmitEvent(t)
      PROVE  EventsNumbered'
  <2>1. PICK new \in Event :
           /\ events' = events \cup {new} /\ new.nr = commits /\ commits' = commits + 1
           /\ commits \in Nat /\ new.at <= commits /\ \A e \in events : e.nr < new.nr
           /\ \A u \in Threads : local'[u] = IF u = t THEN IdleFrame ELSE local[u]
    BY <1>6, EmitInserts
  <2>2. \A e \in events : e.at \in Nat /\ e.nr \in Nat /\ e.at < commits /\ e.nr < commits
    BY DEF TypeOK, Event, EventsNumbered
  <2>3. new.at \in Nat /\ new.nr \in Nat
    BY <2>1 DEF Event
  <2>4. IsFiniteSet(events')
    BY <2>1, FS_AddElement DEF EventsNumbered
  <2>5. \A e \in events' : e.at < commits' /\ e.nr < commits'
    BY <2>1, <2>2, <2>3
  <2>6. \A e, f \in events' : e.nr = f.nr => e = f
    BY <2>1, <2>2, <2>3 DEF EventsNumbered
  <2>7. \A u \in Threads : local[u].at \in Nat /\ local[u].at <= commits
    BY DEF TypeOK, Frame, EventsNumbered
  <2>8. \A u \in Threads : local'[u].at <= commits'
    BY <1>0, <2>1, <2>7
  <2> QED
    BY <2>4, <2>5, <2>6, <2>8 DEF EventsNumbered
<1>7. ASSUME NEW t \in Threads, NEW s \in SessionIds, DeleteSession(t, s)
      PROVE  EventsNumbered'
  BY <1>7, FewerNumbered DEF DeleteSession, Commit
<1>8. CASE Crash
  <2>1. \A u \in Threads : local'[u].at = 0
    BY <1>0, <1>8 DEF Crash
  <2> QED
    BY <1>8, <2>1, FewerNumbered DEF Crash, table
<1>9. CASE UNCHANGED storeVars
  BY <1>9, FewerNumbered DEF storeVars, table
<1>10. QED
  BY <1>1, <1>2, <1>3, <1>4, <1>5, <1>6, <1>7, <1>8, <1>9 DEF Next, ThreadStep

LEMMA AddedCounted ==
  ASSUME EventsNumbered, NEW s
  PROVE  IsFiniteSet(AddedTo(s)) /\ Cardinality(AddedTo(s)) \in Nat
<1>1. AddedTo(s) \in SUBSET events
  BY DEF AddedTo, EventsOf
<1> QED
  BY <1>1, FS_Subset, FS_CardinalityType DEF EventsNumbered

\* A step that leaves the events alone leaves what is read off them alone.
LEMMA SameLog ==
  ASSUME CreatedFirst, events' = events
  PROVE  /\ CreatedFirst'
         /\ \A s : AddedTo(s)' = AddedTo(s)
         /\ \A e : LastOfType(e)' <=> LastOfType(e)
  BY DEF CreatedFirst, AddedTo, EventsOf, LastOfType

LEMMA LogInvInit == Init => LogInv
<1> SUFFICES ASSUME Init PROVE LogInv
  OBVIOUS
<1>1. events = {} /\ (\A s \in SessionIds : ~ Exists(s)) /\ \A t \in Threads : local[t].step = "idle"
  BY IdleFrameType DEF Init, Exists
<1> QED
  BY <1>1 DEF LogInv, FramesFresh, CreatedFirst, StatusCarried, DebtInv, StatusLogged, Carries

LEMMA CreateKeepsLog ==
  ASSUME NEW t0, Threads = {t0}, TypeOK, SerialInv, EventsNumbered, LogInv,
         NEW s \in SessionIds, CreateSession(t0, s)
  PROVE  LogInv'
<1>1. crashes \in Nat /\ \A r \in SessionIds : Cardinality(AddedTo(r)) \in Nat
  BY AddedCounted, StoreAssumption DEF TypeOK
<1>2. \A e \in events : e.sid \in SessionIds /\ Exists(e.sid)
  BY DEF SerialInv, DeletedSessionHasNoEvents, TypeOK, Event
<1>4. /\ events' = events /\ crashes' = crashes /\ local[t0].step = "idle"
      /\ local'[t0] = Begun("stamp", s, "session.created", 0) /\ s \notin drawn
      /\ sessions'[s].messages = <<>>
      /\ \A r \in SessionIds : r # s => sessions'[r] = sessions[r]
  BY DEF CreateSession, TypeOK, Busy
<1>5. ~ Exists(s) /\ \A e \in events : e.sid # s
  BY <1>2, <1>4 DEF SerialInv
<1>3. /\ CreatedFirst' /\ (\A r : AddedTo(r)' = AddedTo(r))
      /\ \A e : LastOfType(e)' <=> LastOfType(e)
  BY <1>4, SameLog DEF LogInv
<1>6. /\ local'[t0].step = "stamp" /\ local'[t0].type = "session.created" /\ local'[t0].sid = s
  BY <1>4 DEF Begun
<1>7. FramesFresh' /\ StatusCarried'
  BY <1>4, <1>5, <1>6 DEF FramesFresh, StatusCarried, Carries
<1>8. DebtInv'
  <2> SUFFICES ASSUME NEW r \in SessionIds, Exists(r)'
               PROVE  (Len(sessions[r].messages) <= Cardinality(AddedTo(r)) + crashes
                         + (IF CarriesFor(t0, "message.added", r) THEN 1 ELSE 0))'
    BY DEF DebtInv
  <2>0. ~ CarriesFor(t0, "message.added", r)'
    BY <1>4, <1>6 DEF Carries, CarriesFor
  <2>1. CASE r = s
    BY <1>1, <1>3, <1>4, <2>0, <2>1
  <2>2. CASE r # s
    <3>1. Exists(r) /\ sessions'[r] = sessions[r]
      BY <1>4, <2>2 DEF Exists
    <3>2. ~ CarriesFor(t0, "message.added", r)
      BY <1>4 DEF CarriesFor, Carries
    <3> QED
      BY <1>1, <1>3, <1>4, <2>0, <3>1, <3>2 DEF LogInv, DebtInv
  <2> QED
    BY <2>1, <2>2
<1>9. StatusLogged'
  BY <1>2, <1>3, <1>4, <1>5 DEF LogInv, StatusLogged, Exists, CarriesFor, Carries
<1> QED
  BY <1>3, <1>7, <1>8, <1>9 DEF LogInv

LEMMA ReadKeepsLog ==
  ASSUME NEW t0, Threads = {t0}, TypeOK, SerialInv, EventsNumbered, LogInv,
         NEW s \in SessionIds, AppendRead(t0, s)
  PROVE  LogInv'
<1>1. crashes \in Nat /\ \A r \in SessionIds : Cardinality(AddedTo(r)) \in Nat
  BY AddedCounted, StoreAssumption DEF TypeOK
<1>2. \A e \in events : e.sid \in SessionIds /\ Exists(e.sid)
  BY DEF SerialInv, DeletedSessionHasNoEvents, TypeOK, Event
<1>4. /\ events' = events /\ crashes' = crashes /\ local[t0].step = "idle" /\ sessions' = sessions
      /\ local'[t0].step = "update" /\ local'[t0].type = "message.added"
  BY DEF AppendRead, TypeOK, Busy, table, Begun
<1>3. /\ CreatedFirst' /\ (\A r : AddedTo(r)' = AddedTo(r))
      /\ \A e : LastOfType(e)' <=> LastOfType(e)
  BY <1>4, SameLog DEF LogInv
<1>5. FramesFresh' /\ StatusCarried' /\ DebtInv' /\ StatusLogged'
  BY <1>1, <1>3, <1>4 DEF LogInv, FramesFresh, StatusCarried, DebtInv, StatusLogged, Exists, CarriesFor, Carries
<1> QED
  BY <1>3, <1>5 DEF LogInv

LEMMA WriteKeepsLog ==
  ASSUME NEW t0, Threads = {t0}, TypeOK, SerialInv, EventsNumbered, LogInv,
         AppendWrite(t0)
  PROVE  LogInv'
<1>1. crashes \in Nat /\ \A r \in SessionIds : Cardinality(AddedTo(r)) \in Nat
  BY AddedCounted, StoreAssumption DEF TypeOK
<1>2. \A e \in events : e.sid \in SessionIds /\ Exists(e.sid)
  BY DEF SerialInv, DeletedSessionHasNoEvents, TypeOK, Event
<1> DEFINE f == local[t0]
           s == f.sid
<1>4. /\ events' = events /\ crashes' = crashes /\ f.step = "update" /\ f \in Frame
      /\ local'[t0] = [f EXCEPT !.step = "stamp"] /\ f.type = "message.added"
      /\ s \in SessionIds /\ Exists(s) /\ f.read = sessions[s].messages /\ sessions[s] \in Row
      /\ f.call \in 0..MaxCalls
  BY DEF AppendWrite, TypeOK, Frame, LogInv, FramesFresh, SerialInv, Busy, Exists
<1>5. local'[t0].step = "stamp" /\ local'[t0].type = "message.added" /\ local'[t0].sid = s
  BY <1>4 DEF Frame
<1>6. /\ sessions'[s] = [sessions[s] EXCEPT !.messages = Append(sessions[s].messages, f.call)]
      /\ \A r \in SessionIds : r # s => sessions'[r] = sessions[r]
  BY <1>4 DEF AppendWrite
<1>7. /\ Len(sessions'[s].messages) = Len(sessions[s].messages) + 1 /\ Len(sessions[s].messages) \in Nat
      /\ sessions'[s].status = sessions[s].status
  <2>1. sessions'[s].messages = Append(sessions[s].messages, f.call) /\ sessions[s].messages \in Seq(1..MaxCalls)
        /\ sessions'[s].status = sessions[s].status
    BY <1>4, <1>6 DEF Row
  <2> QED
    BY <2>1
<1>3. /\ CreatedFirst' /\ (\A r : AddedTo(r)' = AddedTo(r))
      /\ \A e : LastOfType(e)' <=> LastOfType(e)
  BY <1>4, SameLog DEF LogInv
<1> HIDE DEF f
<1>8. FramesFresh' /\ StatusCarried'
  BY <1>4, <1>5 DEF FramesFresh, StatusCarried, Carries
<1>9. DebtInv'
  <2> SUFFICES ASSUME NEW r \in SessionIds, Exists(r)'
               PROVE  (Len(sessions[r].messages) <= Cardinality(AddedTo(r)) + crashes
                         + (IF CarriesFor(t0, "message.added", r) THEN 1 ELSE 0))'
    BY DEF DebtInv
  <2>1. \A q \in SessionIds : ~ CarriesFor(t0, "message.added", q)
    BY <1>4 DEF CarriesFor, Carries, f
  <2>2. CASE r = s
    <3>1. Len(sessions[s].messages) <= Cardinality(AddedTo(s)) + crashes
      BY <1>1, <1>4, <2>1 DEF LogInv, DebtInv
    <3>2. CarriesFor(t0, "message.added", r)'
      BY <1>5, <2>2 DEF CarriesFor, Carries
    <3>3. Len(sessions'[r].messages) <= Cardinality(AddedTo(r)) + crashes + 1
      BY <1>1, <1>4, <1>7, <2>2, <3>1
    <3> QED
      BY <1>3, <1>4, <3>2, <3>3
  <2>3. CASE r # s
    <3>1. Exists(r) /\ sessions'[r] = sessions[r]
      BY <1>6, <2>3 DEF Exists
    <3>2. ~ CarriesFor(t0, "message.added", r)'
      BY <1>5, <2>3 DEF CarriesFor, Carries
    <3>3. Len(sessions[r].messages) <= Cardinality(AddedTo(r)) + crashes
      BY <1>1, <2>1, <3>1 DEF LogInv, DebtInv
    <3> QED
      BY <1>1, <1>3, <1>4, <3>1, <3>2, <3>3
  <2> QED
    BY <2>2, <2>3
<1>10. StatusLogged'
  <2> SUFFICES ASSUME crashes = 0, NEW e \in events,
                      e.type = "session.status_changed", LastOfType(e)
               PROVE  sessions'[e.sid].status = e.status
    BY <1>3, <1>4 DEF StatusLogged
  <2>1. \A t \in Threads : ~ CarriesFor(t, "session.status_changed", e.sid)
    BY <1>4 DEF CarriesFor, Carries, f
  <2>2. sessions[e.sid].status = e.status
    BY <1>2, <2>1 DEF LogInv, StatusLogged
  <2> QED
    BY <1>2, <1>6, <1>7, <2>2
<1> QED
  BY <1>3, <1>8, <1>9, <1>10 DEF LogInv

LEMMA UpdateKeepsLog ==
  ASSUME NEW t0, Threads = {t0}, TypeOK, SerialInv, EventsNumbered, LogInv,
         NEW s \in SessionIds, NEW status \in Statuses, UpdateStatus(t0, s, status)
  PROVE  LogInv'
<1>1. crashes \in Nat /\ \A r \in SessionIds : Cardinality(AddedTo(r)) \in Nat
  BY AddedCounted, StoreAssumption DEF TypeOK
<1>2. \A e \in events : e.sid \in SessionIds /\ Exists(e.sid)
  BY DEF SerialInv, DeletedSessionHasNoEvents, TypeOK, Event
<1>4. /\ events' = events /\ crashes' = crashes /\ local[t0].step = "idle"
      /\ local'[t0].step = "stamp" /\ local'[t0].type = "session.status_changed"
      /\ local'[t0].sid = s /\ local'[t0].status = status /\ sessions[s] \in Row /\ Exists(s)
      /\ sessions'[s] = [sessions[s] EXCEPT !.status = status]
      /\ \A r \in SessionIds : r # s => sessions'[r] = sessions[r]
  BY DEF UpdateStatus, TypeOK, Busy, Exists, Begun
<1>5. sessions'[s].status = status /\ sessions'[s].messages = sessions[s].messages
  BY <1>4 DEF Row
<1>3. /\ CreatedFirst' /\ (\A r : AddedTo(r)' = AddedTo(r))
      /\ \A e : LastOfType(e)' <=> LastOfType(e)
  BY <1>4, SameLog DEF LogInv
<1>6. FramesFresh' /\ StatusCarried'
  BY <1>4, <1>5 DEF FramesFresh, StatusCarried, Carries
<1>7. \A t \in Threads, type \in EventTypes, r \in SessionIds : ~ CarriesFor(t, type, r)
  BY <1>4 DEF CarriesFor, Carries
<1>8. DebtInv'
  <2> SUFFICES ASSUME NEW r \in SessionIds, Exists(r)'
               PROVE  (Len(sessions[r].messages) <= Cardinality(AddedTo(r)) + crashes
                         + (IF CarriesFor(t0, "message.added", r) THEN 1 ELSE 0))'
    BY DEF DebtInv
  <2>0. ~ CarriesFor(t0, "message.added", r)'
    BY <1>4 DEF Carries, CarriesFor
  <2>1. Exists(r) /\ sessions'[r].messages = sessions[r].messages
    BY <1>4, <1>5 DEF Exists
  <2> QED
    BY <1>1, <1>3, <1>4, <1>7, <2>0, <2>1 DEF LogInv, DebtInv, EventTypes
<1>9. StatusLogged'
  <2> SUFFICES ASSUME crashes = 0, NEW e \in events,
                      e.type = "session.status_changed", LastOfType(e), e.sid # s
               PROVE  sessions'[e.sid].status = e.status
    BY <1>3, <1>4 DEF StatusLogged, CarriesFor, Carries
  <2> QED
    BY <1>2, <1>4, <1>7 DEF LogInv, StatusLogged, EventTypes
<1> QED
  BY <1>3, <1>6, <1>8, <1>9 DEF LogInv

LEMMA StampKeepsLog ==
  ASSUME NEW t0, Threads = {t0}, TypeOK, SerialInv, EventsNumbered, LogInv,
         StampEvent(t0)
  PROVE  LogInv'
<1>1. crashes \in Nat /\ \A r \in SessionIds : Cardinality(AddedTo(r)) \in Nat
  BY AddedCounted, StoreAssumption DEF TypeOK
<1>2. \A e \in events : e.sid \in SessionIds /\ Exists(e.sid)
  BY DEF SerialInv, DeletedSessionHasNoEvents, TypeOK, Event
<1>4. /\ events' = events /\ crashes' = crashes /\ local[t0].step = "stamp" /\ sessions' = sessions
      /\ local'[t0].step = "emit" /\ local'[t0].type = local[t0].type /\ local'[t0].at = commits
      /\ local'[t0].sid = local[t0].sid /\ local'[t0].status = local[t0].status
  BY DEF StampEvent, TypeOK, Frame, table
<1>3. /\ CreatedFirst' /\ (\A r : AddedTo(r)' = AddedTo(r))
      /\ \A e : LastOfType(e)' <=> LastOfType(e)
  BY <1>4, SameLog DEF LogInv
<1>5. \A t \in Threads : \A type : /\ Carries(t, type)' <=> Carries(t, type)
                                   /\ \A r : CarriesFor(t, type, r)' <=> CarriesFor(t, type, r)
  BY <1>4 DEF CarriesFor, Carries
<1>6. FramesFresh'
  BY <1>4, <1>5 DEF LogInv, FramesFresh, EventsNumbered
<1>7. StatusCarried'
  BY <1>4, <1>5 DEF LogInv, StatusCarried
<1>8. DebtInv'
  BY <1>3, <1>4, <1>5 DEF LogInv, DebtInv, Exists
<1>9. StatusLogged'
  BY <1>3, <1>4, <1>5 DEF LogInv, StatusLogged, Exists
<1> QED
  BY <1>3, <1>6, <1>7, <1>8, <1>9 DEF LogInv

LEMMA EmitKeepsLog ==
  ASSUME NEW t0, Threads = {t0}, TypeOK, SerialInv, EventsNumbered, LogInv, EmitEvent(t0)
  PROVE  LogInv'
<1> DEFINE f == local[t0]
<1>1. PICK new \in Event :
        /\ events' = events \cup {new} /\ new \notin events
        /\ new.at = f.at /\ new.sid = f.sid /\ new.type = f.type /\ new.status = f.status
        /\ \A u \in Threads : local'[u] = IF u = t0 THEN IdleFrame ELSE local[u]
        /\ f.step = "emit" /\ sessions' = sessions /\ crashes' = crashes
  BY EmitInserts
<1>2. crashes \in Nat /\ (\A r \in SessionIds : Cardinality(AddedTo(r)) \in Nat) /\ f.sid \in SessionIds
  BY AddedCounted, StoreAssumption DEF TypeOK, Frame
<1>3. \A e \in events : e \in Event /\ e.sid \in SessionIds /\ Exists(e.sid)
  BY DEF SerialInv, DeletedSessionHasNoEvents, TypeOK, Event
<1>4. \A e \in events : Before(e, new) /\ ~ Before(new, e)
  <2> SUFFICES ASSUME NEW e \in events PROVE Before(e, new) /\ ~ Before(new, e)
    OBVIOUS
  <2>1. e.at \in Nat /\ new.at \in Nat
    BY <1>3 DEF Event
  <2>2. e.at < new.at
    BY <1>1 DEF LogInv, FramesFresh
  <2> QED
    BY <2>1, <2>2 DEF Before
<1> HIDE DEF f
<1>5. local'[t0].step = "idle"
  BY <1>1, IdleFrameType
<1>6. \A t \in Threads : \A type : ~ Carries(t, type)' /\ \A r : ~ CarriesFor(t, type, r)'
  BY <1>5 DEF Carries, CarriesFor
<1>7. FramesFresh' /\ StatusCarried'
  BY <1>5, <1>6 DEF FramesFresh, StatusCarried
<1>8. CreatedFirst'
  <2> SUFFICES ASSUME NEW d \in events', NEW e \in events',
                      d.sid = e.sid, d.type = "session.created", d # e
               PROVE  Before(d, e)
    BY DEF CreatedFirst
  <2>1. CASE d = new
    <3>1. \A x \in events : x.sid # f.sid
      BY <1>1, <2>1 DEF LogInv, FramesFresh, Carries, f
    <3> QED
      BY <1>1, <2>1, <3>1
  <2>2. CASE d # new
    BY <1>1, <1>4, <2>2 DEF LogInv, CreatedFirst
  <2> QED
    BY <2>1, <2>2
<1>9. DebtInv'
  <2> SUFFICES ASSUME NEW r \in SessionIds, Exists(r)'
               PROVE  (Len(sessions[r].messages) <= Cardinality(AddedTo(r)) + crashes
                         + (IF CarriesFor(t0, "message.added", r) THEN 1 ELSE 0))'
    BY DEF DebtInv
  <2>0. ~ CarriesFor(t0, "message.added", r)' /\ Exists(r) /\ Cardinality(AddedTo(r)) \in Nat
    BY <1>1, <1>2, <1>6 DEF Exists
  <2>1. Len(sessions[r].messages) <= Cardinality(AddedTo(r)) + crashes
                                       + (IF CarriesFor(t0, "message.added", r) THEN 1 ELSE 0)
    BY <2>0 DEF LogInv, DebtInv
  <2>2. CASE CarriesFor(t0, "message.added", r)
    <3>1. AddedTo(r)' = AddedTo(r) \cup {new}
      BY <1>1, <2>2 DEF AddedTo, EventsOf, CarriesFor, Carries, f
    <3>2. new \notin AddedTo(r) /\ IsFiniteSet(AddedTo(r))
      BY <1>1, AddedCounted DEF AddedTo, EventsOf
    <3>3. Cardinality(AddedTo(r)') = Cardinality(AddedTo(r)) + 1
      BY <3>1, <3>2, FS_AddElement
    <3>4. Len(sessions[r].messages) <= Cardinality(AddedTo(r)') + crashes
      <4>1. sessions[r].messages \in Seq(1..MaxCalls)
        BY <2>0 DEF TypeOK, Row, Exists
      <4> QED
        BY <1>2, <2>0, <2>1, <2>2, <3>3, <4>1
    <3> QED
      BY <1>1, <1>2, <2>0, <3>3, <3>4
  <2>3. CASE ~ CarriesFor(t0, "message.added", r)
    <3>1. AddedTo(r)' = AddedTo(r)
      BY <1>1, <2>3 DEF AddedTo, EventsOf, CarriesFor, Carries, f
    <3> QED
      BY <1>1, <1>2, <2>0, <2>1, <2>3, <3>1
  <2> QED
    BY <2>2, <2>3
<1>10. StatusLogged'
  <2> SUFFICES ASSUME crashes = 0, NEW e \in events', e.type = "session.status_changed", LastOfType(e)'
               PROVE  sessions[e.sid].status = e.status
    BY <1>1 DEF StatusLogged
  <2>1. CASE e = new
    BY <1>1, <2>1 DEF LogInv, StatusCarried, Carries, f
  <2>2. CASE e # new
    <3>1. e \in events
      BY <1>1, <2>2
    <3>2. ~ (new.sid = e.sid /\ new.type = e.type)
      BY <1>1, <1>4, <2>2, <3>1 DEF LastOfType, EventsOf
    <3>3. ~ CarriesFor(t0, "session.status_changed", e.sid)
      BY <1>1, <3>2 DEF CarriesFor, Carries, f
    <3>4. LastOfType(e)
      BY <1>1 DEF LastOfType, EventsOf
    <3> QED
      BY <1>3, <3>1, <3>3, <3>4 DEF LogInv, StatusLogged
  <2> QED
    BY <2>1, <2>2
<1> QED
  BY <1>7, <1>8, <1>9, <1>10 DEF LogInv

LEMMA DeleteKeepsLog ==
  ASSUME NEW t0, Threads = {t0}, TypeOK, SerialInv, EventsNumbered, LogInv,
         NEW s \in SessionIds, DeleteSession(t0, s)
  PROVE  LogInv'
<1>1. /\ events' = {e \in events : e.sid # s} /\ crashes' = crashes
      /\ local' = local /\ local[t0].step = "idle" /\ sessions'[s] = None
      /\ \A r \in SessionIds : r # s => sessions'[r] = sessions[r]
  BY DEF DeleteSession, EventsOf, TypeOK, Busy
<1>2. \A r : r # s => AddedTo(r)' = AddedTo(r)
  BY <1>1 DEF AddedTo, EventsOf
<1>3. \A e : e.sid # s => (LastOfType(e)' <=> LastOfType(e))
  BY <1>1 DEF LastOfType, EventsOf
<1>4. FramesFresh' /\ StatusCarried'
  BY <1>1 DEF FramesFresh, StatusCarried, Carries
<1>5. CreatedFirst'
  BY <1>1 DEF LogInv, CreatedFirst
<1>6. \A t \in Threads : \A type, r : ~ CarriesFor(t, type, r) /\ ~ CarriesFor(t, type, r)'
  BY <1>1 DEF CarriesFor, Carries
<1>7. DebtInv'
  BY <1>1, <1>2, <1>6 DEF LogInv, DebtInv, Exists
<1>8. StatusLogged'
  <2> SUFFICES ASSUME crashes = 0, NEW e \in events', e.type = "session.status_changed", LastOfType(e)'
               PROVE  sessions'[e.sid].status = e.status
    BY <1>1 DEF StatusLogged
  <2>1. e \in events /\ e.sid # s /\ LastOfType(e) /\ e.sid \in SessionIds /\ Exists(e.sid)
    BY <1>1, <1>3 DEF SerialInv, DeletedSessionHasNoEvents, TypeOK, Event
  <2> QED
    BY <1>1, <1>6, <2>1 DEF LogInv, StatusLogged
<1> QED
  BY <1>4, <1>5, <1>7, <1>8 DEF LogInv

LEMMA CrashKeepsLog ==
  ASSUME TypeOK, EventsNumbered, LogInv, Crash
  PROVE  LogInv'
<1>1. /\ events' = events /\ sessions' = sessions /\ crashes' = crashes + 1 /\ crashes \in Nat
      /\ \A t \in Threads : local'[t].step = "idle"
  BY IdleFrameType, StoreAssumption DEF Crash, TypeOK, table
<1>2. /\ CreatedFirst' /\ (\A r : AddedTo(r)' = AddedTo(r))
      /\ \A r \in SessionIds : Cardinality(AddedTo(r)) \in Nat
  BY <1>1, SameLog, AddedCounted DEF LogInv
<1>3. crashes' # 0
  BY <1>1
<1>4. FramesFresh' /\ StatusCarried' /\ StatusLogged'
  BY <1>1, <1>3 DEF FramesFresh, StatusCarried, StatusLogged, Carries
<1>5. DebtInv'
  <2> SUFFICES ASSUME NEW r \in SessionIds, NEW t \in Threads, Exists(r)
               PROVE  (Len(sessions[r].messages) <= Cardinality(AddedTo(r)) + crashes
                         + (IF CarriesFor(t, "message.added", r) THEN 1 ELSE 0))'
    BY <1>1 DEF DebtInv, Exists
  <2>1. ~ CarriesFor(t, "message.added", r)'
    BY <1>1 DEF CarriesFor, Carries
  <2>2. \/ Len(sessions[r].messages) <= Cardinality(AddedTo(r)) + crashes + 1
        \/ Len(sessions[r].messages) <= Cardinality(AddedTo(r)) + crashes + 0
    BY DEF LogInv, DebtInv
  <2>3. sessions[r].messages \in Seq(1..MaxCalls)
    BY DEF TypeOK, Row, Exists
  <2>4. Len(sessions[r].messages) \in Nat
    BY <2>3
  <2>5. Len(sessions[r].messages) <= Cardinality(AddedTo(r)) + (crashes + 1)
    BY <1>1, <1>2, <2>2, <2>4
  <2> QED
    BY <1>1, <1>2, <2>1, <2>5
<1> QED
  BY <1>2, <1>4, <1>5 DEF LogInv

LEMMA LogInvNext ==
  ASSUME NEW t0, Threads = {t0}
  PROVE  TypeOK /\ SerialInv /\ EventsNumbered /\ LogInv /\ [Next]_storeVars => LogInv'
<1> SUFFICES ASSUME TypeOK, SerialInv, EventsNumbered, LogInv, [Next]_storeVars PROVE LogInv'
  OBVIOUS
<1>1. ASSUME UNCHANGED storeVars PROVE LogInv'
  BY <1>1 DEF storeVars, table, LogInv, FramesFresh, CreatedFirst, StatusCarried, DebtInv, StatusLogged,
              Carries, CarriesFor, AddedTo, LastOfType, EventsOf, Exists
<1> QED
  BY <1>1, CreateKeepsLog, ReadKeepsLog, WriteKeepsLog, UpdateKeepsLog, StampKeepsLog, EmitKeepsLog,
     DeleteKeepsLog, CrashKeepsLog DEF Next, ThreadStep

\* With one thread the log tells the story of the row: creation first, the
\* last status last, and behind by no more than the call in flight and one
\* event for each crash (create_session, append_message, update_status,
\* _emit_event).
THEOREM LogTellsTheRow ==
  ASSUME NEW t0, Threads = {t0}
  PROVE  Spec => []LogFitsRow
<1>1. TypeOK /\ EventsNumbered /\ LogInv => LogFitsRow
  <2> SUFFICES ASSUME TypeOK, EventsNumbered, LogInv PROVE LogFitsRow
    OBVIOUS
  <2>1. LogDebtBounded
    <3> SUFFICES ASSUME NEW s \in SessionIds, Exists(s)
                 PROVE  Len(sessions[s].messages)
                          <= Cardinality(AddedTo(s)) + Cardinality(InFlight(s)) + crashes
      BY DEF LogDebtBounded, AddedTo
    <3>1. /\ Len(sessions[s].messages)
               <= Cardinality(AddedTo(s)) + crashes + (IF CarriesFor(t0, "message.added", s) THEN 1 ELSE 0)
          /\ Cardinality(AddedTo(s)) \in Nat /\ crashes \in Nat
      BY AddedCounted, StoreAssumption DEF LogInv, DebtInv, TypeOK
    <3>2. Cardinality(InFlight(s)) \in Nat /\ (InFlight(s) = {t0} => Cardinality(InFlight(s)) = 1)
      <4>1. InFlight(s) \in SUBSET {t0}
        BY DEF InFlight
      <4> QED
        BY <4>1, FS_Singleton, FS_Subset, FS_CardinalityType
    <3>3. CarriesFor(t0, "message.added", s) => InFlight(s) = {t0}
      BY DEF CarriesFor, Carries, InFlight, Busy
    <3>4. sessions[s].messages \in Seq(1..MaxCalls)
      BY DEF TypeOK, Row, Exists
    <3>5. Len(sessions[s].messages) \in Nat
      BY <3>4
    <3> QED
      BY <3>1, <3>2, <3>3, <3>5
  <2>2. StatusMatchesLog
    <3> SUFFICES ASSUME NEW e \in events, e.type = "session.status_changed", LastOfType(e),
                        InFlight(e.sid) = {}, crashes = 0, Exists(e.sid)
                 PROVE  sessions[e.sid].status = e.status
      BY DEF StatusMatchesLog, LastOfType
    <3>1. \A t \in Threads : ~ CarriesFor(t, "session.status_changed", e.sid)
      BY DEF InFlight, CarriesFor, Carries, Busy
    <3> QED
      BY <3>1 DEF LogInv, StatusLogged
  <2> QED
    BY <2>1, <2>2 DEF LogInv, LogFitsRow
<1>2. OrderInv => TypeOK
  BY DEF OrderInv
<1>3. /\ OrderInv /\ SerialInv /\ [Next]_storeVars => SerialInv'
      /\ TypeOK /\ SerialInv /\ EventsNumbered /\ LogInv /\ [Next]_storeVars => LogInv'
  BY SerialInvNext, LogInvNext
<1> QED
  BY <1>1, <1>2, <1>3, OrderInvInit, OrderInvNext, SerialInvInit, NumberedInit, NumberedNext, LogInvInit,
     PTL DEF Spec

-----------------------------------------------------------------------------
(***************************************************************************)
(* The stream.  Events are totally ordered by Before, for their numbers    *)
(* differ, so the rows of an answer have a first, a second and so on.      *)
(***************************************************************************)
LEMMA BeforeIsStrict ==
  ASSUME NEW d \in Event, NEW e \in Event, NEW f \in Event
  PROVE  /\ ~ Before(d, d)
         /\ Before(d, e) => ~ Before(e, d)
         /\ Before(d, e) /\ Before(e, f) => Before(d, f)
         /\ d.nr # e.nr => Before(d, e) \/ Before(e, d)
<1>1. /\ d.at \in Nat /\ e.at \in Nat /\ f.at \in Nat
      /\ d.rank \in Nat /\ e.rank \in Nat /\ f.rank \in Nat
      /\ d.nr \in Nat /\ e.nr \in Nat /\ f.nr \in Nat
  BY StoreAssumption DEF Event
<1> QED
  BY <1>1 DEF Before

\* How many of a set come before an event.
Earlier(S, e) == {f \in S : Before(f, e)}
Numbered(S) == IsFiniteSet(S) /\ S \subseteq Event /\ \A e, f \in S : e.nr = f.nr => e = f

LEMMA EarlierCounts ==
  ASSUME NEW S, Numbered(S), NEW d \in S, NEW e \in S
  PROVE  /\ Cardinality(Earlier(S, d)) \in 0..(Cardinality(S) - 1)
         /\ Before(d, e) => Cardinality(Earlier(S, d)) < Cardinality(Earlier(S, e))
         /\ d # e => Cardinality(Earlier(S, d)) # Cardinality(Earlier(S, e))
<1>1. /\ IsFiniteSet(S) /\ d \in Event /\ e \in Event
      /\ Cardinality(S) \in Nat
  BY FS_CardinalityType DEF Numbered
<1>2. \A x \in S : IsFiniteSet(Earlier(S, x)) /\ Cardinality(Earlier(S, x)) \in Nat
  <2> SUFFICES ASSUME NEW x \in S PROVE IsFiniteSet(Earlier(S, x)) /\ Cardinality(Earlier(S, x)) \in Nat
    OBVIOUS
  <2>1. Earlier(S, x) \in SUBSET S
    BY DEF Earlier
  <2> QED
    BY <1>1, <2>1, FS_Subset, FS_CardinalityType
<1>3. \A x \in S, y \in S : Before(x, y) => Cardinality(Earlier(S, x)) < Cardinality(Earlier(S, y))
  <2> SUFFICES ASSUME NEW x \in S, NEW y \in S, Before(x, y)
               PROVE  Cardinality(Earlier(S, x)) < Cardinality(Earlier(S, y))
    OBVIOUS
  <2>1. x \in Event /\ y \in Event /\ \A f \in S : f \in Event
    BY DEF Numbered
  <2>2. x \notin Earlier(S, x) /\ Earlier(S, x) \cup {x} \in SUBSET Earlier(S, y)
    <3>1. \A f \in S : Before(f, x) => Before(f, y)
      BY <2>1, BeforeIsStrict
    <3>2. ~ Before(x, x)
      BY <2>1, BeforeIsStrict
    <3> QED
      BY <3>1, <3>2 DEF Earlier
  <2>3. Cardinality(Earlier(S, x) \cup {x}) = Cardinality(Earlier(S, x)) + 1
    BY <1>2, <2>2, FS_AddElement
  <2>4. Cardinality(Earlier(S, x) \cup {x}) <= Cardinality(Earlier(S, y))
    BY <1>2, <2>2, FS_Subset
  <2> QED
    BY <1>2, <2>3, <2>4
<1>4. Cardinality(Earlier(S, d)) < Cardinality(S)
  <2>1. d \notin Earlier(S, d) /\ Earlier(S, d) \cup {d} \in SUBSET S
    <3>1. ~ Before(d, d)
      BY <1>1, BeforeIsStrict
    <3> QED
      BY <3>1 DEF Earlier
  <2>2. Cardinality(Earlier(S, d) \cup {d}) = Cardinality(Earlier(S, d)) + 1
    BY <1>2, <2>1, FS_AddElement
  <2>3. Cardinality(Earlier(S, d) \cup {d}) <= Cardinality(S)
    BY <1>1, <2>1, FS_Subset
  <2> QED
    BY <1>1, <1>2, <2>2, <2>3
<1>5. d # e => Before(d, e) \/ Before(e, d)
  BY <1>1, BeforeIsStrict DEF Numbered
<1>6. Before(e, d) => Cardinality(Earlier(S, e)) < Cardinality(Earlier(S, d))
  BY <1>3
<1>7. Cardinality(Earlier(S, d)) \in Nat /\ Cardinality(Earlier(S, e)) \in Nat
  BY <1>2
<1>8. Before(d, e) => Cardinality(Earlier(S, d)) < Cardinality(Earlier(S, e))
  BY <1>3
<1>9. Cardinality(Earlier(S, d)) \in 0..(Cardinality(S) - 1)
  BY <1>1, <1>4, <1>7
<1>10. d # e => Cardinality(Earlier(S, d)) # Cardinality(Earlier(S, e))
  BY <1>5, <1>6, <1>7, <1>8
<1> QED
  BY <1>8, <1>9, <1>10

\* Every place of an answer is taken: as many counts as events, all different.
LEMMA PlacesTaken ==
  ASSUME NEW S, Numbered(S), NEW n \in 1..Cardinality(S)
  PROVE  \E e \in S : Cardinality(Earlier(S, e)) = n - 1
<1> DEFINE last == Cardinality(S) - 1
           count == [e \in S |-> Cardinality(Earlier(S, e))]
<1>1. Cardinality(S) \in Nat /\ IsFiniteSet(S) /\ n \in Nat /\ n >= 1 /\ n <= Cardinality(S)
  BY FS_CardinalityType DEF Numbered
<1>2. IsFiniteSet(0..last) /\ Cardinality(0..last) = Cardinality(S)
  <2>1. last \in Int /\ 0 \in Int
    BY <1>1
  <2>2. IsFiniteSet(0..last) /\ Cardinality(0..last) = IF 0 > last THEN 0 ELSE last - 0 + 1
    BY <2>1, FS_Interval
  <2> QED
    BY <1>1, <2>2
<1>3. count \in [S -> 0..last]
  BY EarlierCounts
<1>4. count \in Injection(S, 0..last)
  <2>1. \A d, e \in S : d # e => count[d] # count[e]
    BY EarlierCounts
  <2> QED
    BY <1>3, <2>1 DEF Injection, IsInjective
<1>5. count \in Surjection(S, 0..last)
  BY <1>1, <1>2, <1>4, FS_Injection
<1>6. n - 1 \in 0..last
  BY <1>1
<1>7. \E e \in S : count[e] = n - 1
  BY <1>5, <1>6 DEF Surjection
<1> QED
  BY <1>7

\* The answer has the events of the set, each once, in the order of Before.
LEMMA AnswerInOrder ==
  ASSUME NEW S, Numbered(S)
  PROVE  /\ Len(Ordered(S)) = Cardinality(S) /\ Cardinality(S) \in Nat
         /\ Ordered(S) \in Seq(S) /\ DOMAIN Ordered(S) = 1..Cardinality(S)
         /\ \A i, j \in 1..Cardinality(S) : i < j => Before(Ordered(S)[i], Ordered(S)[j])
         /\ \A e \in S : \E i \in 1..Cardinality(S) : Ordered(S)[i] = e
<1> DEFINE size == Cardinality(S)
           q == Ordered(S)
<1>1. size \in Nat
  BY FS_CardinalityType DEF Numbered
<1>2. \A n \in 1..size : q[n] \in S /\ Cardinality(Earlier(S, q[n])) = n - 1
  <2> SUFFICES ASSUME NEW n \in 1..size PROVE q[n] \in S /\ Cardinality(Earlier(S, q[n])) = n - 1
    OBVIOUS
  <2>1. \E e \in S : Cardinality(Earlier(S, e)) = n - 1
    BY PlacesTaken
  <2>2. q[n] = CHOOSE e \in S : Cardinality(Earlier(S, e)) = n - 1
    BY DEF Ordered, Earlier
  <2> QED
    BY <2>1, <2>2
<1>3. q \in [1..size -> S]
  <2> DEFINE place(n) == CHOOSE e \in S : Cardinality({f \in S : Before(f, e)}) = n - 1
  <2>1. q = [n \in 1..size |-> place(n)]
    BY DEF Ordered
  <2> HIDE DEF place, q, size
  <2>2. \A n \in 1..size : place(n) \in S
    BY <1>2, <2>1
  <2> QED
    BY <2>1, <2>2
<1>4. \A i, j \in 1..size : i < j => Before(q[i], q[j])
  <2> SUFFICES ASSUME NEW i \in 1..size, NEW j \in 1..size, i < j PROVE Before(q[i], q[j])
    OBVIOUS
  <2>1. q[i] \in S /\ q[j] \in S /\ Cardinality(Earlier(S, q[i])) = i - 1
        /\ Cardinality(Earlier(S, q[j])) = j - 1
    BY <1>2
  <2>2. q[i] # q[j]
    BY <1>1, <2>1
  <2>3. Before(q[i], q[j]) \/ Before(q[j], q[i])
    BY <2>1, <2>2, BeforeIsStrict DEF Numbered
  <2>4. ~ Before(q[j], q[i])
    <3>1. Before(q[j], q[i]) => Cardinality(Earlier(S, q[j])) < Cardinality(Earlier(S, q[i]))
      BY <2>1, EarlierCounts
    <3> QED
      BY <1>1, <2>1, <3>1
  <2> QED
    BY <2>3, <2>4
<1>5. \A e \in S : \E i \in 1..size : q[i] = e
  <2> SUFFICES ASSUME NEW e \in S PROVE \E i \in 1..size : q[i] = e
    OBVIOUS
  <2> DEFINE i == Cardinality(Earlier(S, e)) + 1
  <2>1. i \in 1..size /\ Cardinality(Earlier(S, e)) = i - 1
    <3>1. Cardinality(Earlier(S, e)) \in 0..(size - 1)
      BY EarlierCounts
    <3> QED
      BY <1>1, <3>1
  <2> HIDE DEF i
  <2>2. q[i] \in S /\ Cardinality(Earlier(S, q[i])) = i - 1
    BY <1>2, <2>1
  <2>3. q[i] # e => Cardinality(Earlier(S, q[i])) # Cardinality(Earlier(S, e))
    BY <2>2, EarlierCounts
  <2> QED
    BY <2>1, <2>2, <2>3
<1> HIDE DEF q
<1>6. q \in Seq(S) /\ Len(q) = size /\ DOMAIN q = 1..size
  BY <1>1, <1>3
<1> QED
  BY <1>1, <1>4, <1>5, <1>6 DEF q

\* Every store step is a step of the store; a poll leaves it alone.
LEMMA StreamIsStore == [StreamNext]_streamVars => [Next]_storeVars
  BY DEF StreamNext, StoreStep, Poll, streamVars

LEMMA CommitsGrow ==
  ASSUME TypeOK, [Next]_storeVars
  PROVE  commits \in Nat /\ commits' \in Nat /\ commits <= commits'
<1>1. commits \in Nat /\ commits' \in {commits, commits + 1}
  BY DEF TypeOK, Next, ThreadStep, CreateSession, AppendRead, AppendWrite, UpdateStatus, StampEvent,
         EmitEvent, DeleteSession, Crash, Commit, storeVars, table
<1> QED
  BY <1>1

\* What a client was given is in order, and its cursor is the last of it.
InOrder(q) == \A i, j \in DOMAIN q : i < j => Before(q[i], q[j])
Given(p, s) ==
  LET q == given[p][s] IN
  /\ InOrder(q)
  /\ \A i \in DOMAIN q : q[i].sid = s /\ q[i].nr < commits
  /\ cursor[p][s] = IF q = <<>> THEN NoEvent ELSE q[Len(q)]

StreamTypes ==
  /\ cursor \in [Pollers -> [SessionIds -> Event \cup {NoEvent}]]
  /\ given \in [Pollers -> [SessionIds -> Seq(Event)]]

StreamInv == StreamTypes /\ \A p \in Pollers, s \in SessionIds : Given(p, s)

LEMMA JoinInOrder ==
  ASSUME NEW q \in Seq(Event), NEW a \in Seq(Event), InOrder(q), InOrder(a), a # <<>>,
         q # <<>> => \A i \in DOMAIN a : Before(q[Len(q)], a[i])
  PROVE  /\ q \o a \in Seq(Event) /\ InOrder(q \o a) /\ q \o a # <<>>
         /\ (q \o a)[Len(q \o a)] = a[Len(a)]
         /\ DOMAIN (q \o a) = 1..(Len(q) + Len(a)) /\ Len(a) \in Nat \ {0} /\ Len(q) \in Nat
         /\ \A i \in DOMAIN q : i \in DOMAIN (q \o a) /\ (q \o a)[i] = q[i]
         /\ \A i \in DOMAIN a : Len(q) + i \in DOMAIN (q \o a) /\ (q \o a)[Len(q) + i] = a[i]
         /\ \A k \in DOMAIN (q \o a) :
              \/ k \in DOMAIN q /\ (q \o a)[k] = q[k]
              \/ k - Len(q) \in DOMAIN a /\ (q \o a)[k] = a[k - Len(q)]
<1>1. /\ Len(q) \in Nat /\ Len(a) \in Nat /\ DOMAIN q = 1..Len(q) /\ DOMAIN a = 1..Len(a)
      /\ q \o a \in Seq(Event) /\ Len(q \o a) = Len(q) + Len(a) /\ DOMAIN (q \o a) = 1..(Len(q) + Len(a))
  OBVIOUS
<1>2. Len(a) # 0
  OBVIOUS
<1>3. \A k \in 1..(Len(q) + Len(a)) : (q \o a)[k] = IF k <= Len(q) THEN q[k] ELSE a[k - Len(q)]
  OBVIOUS
<1> DEFINE m == Len(q)
           n == Len(a)
           r == q \o a
<1>4. \A k \in 1..(m + n) : \/ k \in 1..m /\ r[k] = q[k]
                            \/ k - m \in 1..n /\ r[k] = a[k - m]
  BY <1>1, <1>3
<1>5. /\ \A i \in 1..m : i \in 1..(m + n) /\ r[i] = q[i]
      /\ \A i \in 1..n : m + i \in 1..(m + n) /\ r[m + i] = a[i]
  BY <1>1, <1>3
<1>6. InOrder(r)
  <2> SUFFICES ASSUME NEW i \in 1..(m + n), NEW j \in 1..(m + n), i < j PROVE Before(r[i], r[j])
    BY <1>1 DEF InOrder
  <2>1. CASE j <= m
    <3>1. i \in 1..m /\ j \in 1..m /\ r[i] = q[i] /\ r[j] = q[j]
      BY <1>1, <1>3, <2>1
    <3> QED
      BY <1>1, <3>1 DEF InOrder
  <2>2. CASE j > m /\ i > m
    <3>1. i - m \in 1..n /\ j - m \in 1..n /\ i - m < j - m /\ r[i] = a[i - m] /\ r[j] = a[j - m]
      BY <1>1, <1>3, <2>2
    <3> QED
      BY <1>1, <3>1 DEF InOrder
  <2>3. CASE j > m /\ i <= m
    <3>1. j - m \in 1..n /\ i \in 1..m /\ m \in 1..m /\ r[i] = q[i] /\ r[j] = a[j - m]
      BY <1>1, <1>3, <2>3
    <3>2. q # <<>>
      BY <1>1, <3>1
    <3>3. Before(q[m], a[j - m])
      BY <1>1, <3>1, <3>2
    <3>4. i = m \/ Before(q[i], q[m])
      <4>1. i \in DOMAIN q /\ m \in DOMAIN q
        BY <1>1, <3>1
      <4>2. i \in 1..m /\ m \in Nat
        BY <1>1, <3>1
      <4>3. i = m \/ i < m
        BY <4>2
      <4> QED
        BY <4>1, <4>3 DEF InOrder
    <3>5. q[i] \in Event /\ q[m] \in Event /\ a[j - m] \in Event
      BY <1>1, <3>1
    <3> QED
      BY <3>1, <3>3, <3>4, <3>5, BeforeIsStrict
  <2> QED
    BY <1>1, <2>1, <2>2, <2>3
<1>7. r[m + n] = a[n] /\ r # <<>>
  <2>1. m + n \in 1..(m + n) /\ ~ (m + n <= m) /\ (m + n) - m = n
    BY <1>1, <1>2
  <2>2. r[m + n] = a[n]
    BY <1>3, <2>1
  <2> QED
    BY <1>1, <2>1, <2>2
<1> QED
  BY <1>1, <1>2, <1>4, <1>5, <1>6, <1>7

\* An answer has what comes after the cursor, and is in order.
LEMMA PollGives ==
  ASSUME TypeOK, EventsNumbered, StreamInv, NEW p \in Pollers, NEW s \in SessionIds, Poll(p, s)
  PROVE  \E a \in Seq(Event) :
           /\ a # <<>> /\ InOrder(a) /\ \A i \in DOMAIN a : a[i] \in EventsOf(s)
           /\ cursor[p][s] = NoEvent \/ cursor[p][s] \in EventsOf(s)
           /\ \A i \in DOMAIN a : cursor[p][s] # NoEvent => Before(cursor[p][s], a[i])
           /\ \A e \in EventsOf(s) : cursor[p][s] = NoEvent \/ Before(cursor[p][s], e)
                                       => \E i \in DOMAIN a : a[i] = e
           /\ given' = [given EXCEPT ![p][s] = given[p][s] \o a]
           /\ cursor' = [cursor EXCEPT ![p][s] = a[Len(a)]]
           /\ UNCHANGED storeVars
<1> DEFINE c == cursor[p][s]
           S == StreamAfter(s, c)
           a == Ordered(S)
<1>1. /\ a # <<>> /\ UNCHANGED storeVars
      /\ given' = [given EXCEPT ![p][s] = given[p][s] \o a]
      /\ cursor' = [cursor EXCEPT ![p][s] = a[Len(a)]]
  BY DEF Poll
<1>2. S \in SUBSET EventsOf(s) /\ EventsOf(s) \in SUBSET events /\ events \in SUBSET Event
  BY DEF StreamAfter, EventsOf, TypeOK
<1>3. Numbered(S)
  <2>1. IsFiniteSet(S)
    BY <1>2, FS_Subset DEF EventsNumbered
  <2> QED
    BY <1>2, <2>1 DEF Numbered, EventsNumbered
<1> HIDE DEF S
<1>4. /\ Len(a) = Cardinality(S) /\ Cardinality(S) \in Nat
      /\ a \in Seq(S) /\ DOMAIN a = 1..Cardinality(S)
      /\ \A i, j \in 1..Cardinality(S) : i < j => Before(a[i], a[j])
      /\ \A e \in S : \E i \in 1..Cardinality(S) : a[i] = e
  BY <1>3, AnswerInOrder
<1> HIDE DEF a
<1>5. S # {}
  <2>1. CASE S = {}
    <3>1. Cardinality(S) = 0
      BY <2>1, FS_EmptySet
    <3>2. a = <<>>
      BY <1>4, <3>1
    <3> QED
      BY <1>1, <3>2
  <2> QED
    BY <2>1
<1>6. /\ c = NoEvent => S = EventsOf(s)
      /\ c # NoEvent => c \in events /\ S = {e \in EventsOf(s) : Before(c, e)}
  BY <1>5 DEF S, StreamAfter
<1>7. c # NoEvent => c \in EventsOf(s)
  <2> SUFFICES ASSUME c # NoEvent PROVE c \in EventsOf(s)
    OBVIOUS
  <2> DEFINE q == given[p][s]
  <2>1. q \in Seq(Event) /\ q # <<>> /\ c = q[Len(q)] /\ \A i \in DOMAIN q : q[i].sid = s
    BY DEF StreamInv, StreamTypes, Given
  <2> HIDE DEF q
  <2>2. Len(q) \in DOMAIN q
    BY <2>1
  <2> QED
    BY <1>6, <2>1, <2>2 DEF EventsOf
<1>8. a \in Seq(Event) /\ \A i \in DOMAIN a : a[i] \in S
  <2>1. \A i \in DOMAIN a : a[i] \in S
    BY <1>4
  <2>2. a \in Seq(Event)
    BY <1>2, <1>4
  <2> QED
    BY <2>1, <2>2
<1>9. InOrder(a)
  BY <1>4 DEF InOrder
<1>10. \A i \in DOMAIN a : a[i] \in EventsOf(s) /\ (c # NoEvent => Before(c, a[i]))
  BY <1>2, <1>6, <1>8
<1>11. \A e \in EventsOf(s) : c = NoEvent \/ Before(c, e) => \E i \in DOMAIN a : a[i] = e
  BY <1>4, <1>6
<1> QED
  BY <1>1, <1>7, <1>8, <1>9, <1>10, <1>11

LEMMA StreamInvInit == StreamInit => StreamInv
<1> SUFFICES ASSUME StreamInit PROVE StreamInv
  OBVIOUS
<1>1. <<>> \in Seq(Event) /\ DOMAIN <<>> = {}
  OBVIOUS
<1>2. StreamTypes
  BY <1>1 DEF StreamInit, StreamTypes
<1>3. \A p \in Pollers, s \in SessionIds : given[p][s] = <<>> /\ cursor[p][s] = NoEvent
  BY DEF StreamInit
<1>4. \A p \in Pollers, s \in SessionIds : Given(p, s)
  BY <1>1, <1>3 DEF Given, InOrder
<1> QED
  BY <1>2, <1>4 DEF StreamInv

LEMMA StreamInvNext == TypeOK /\ EventsNumbered /\ StreamInv /\ [StreamNext]_streamVars => StreamInv'
<1> SUFFICES ASSUME TypeOK, EventsNumbered, StreamInv, [StreamNext]_streamVars PROVE StreamInv'
  OBVIOUS
<1>1. ASSUME StoreStep \/ UNCHANGED streamVars
      PROVE  StreamInv'
  <2>1. commits \in Nat /\ commits' \in Nat /\ commits <= commits'
    BY StreamIsStore, CommitsGrow
  <2>2. cursor' = cursor /\ given' = given
    BY <1>1 DEF StoreStep, streamVars
  <2>3. StreamTypes'
    BY <2>2 DEF StreamInv, StreamTypes
  <2>4. ASSUME NEW p \in Pollers, NEW s \in SessionIds PROVE Given(p, s)'
    <3>1. given[p][s] \in Seq(Event)
      BY DEF StreamInv, StreamTypes
    <3>2. \A i \in DOMAIN given[p][s] : given[p][s][i] \in Event
      BY <3>1
    <3>3. \A i \in DOMAIN given[p][s] : given[p][s][i].nr \in Nat
      BY <3>2 DEF Event
    <3>4. Given(p, s)
      BY DEF StreamInv
    <3>5. \A i \in DOMAIN given[p][s] : given[p][s][i].sid = s /\ given[p][s][i].nr < commits'
      BY <2>1, <3>3, <3>4 DEF Given
    <3> QED
      BY <2>2, <3>4, <3>5 DEF Given
  <2> QED
    BY <2>3, <2>4 DEF StreamInv
<1>2. ASSUME NEW p \in Pollers, NEW s \in SessionIds, Poll(p, s)
      PROVE  StreamInv'
  <2>1. PICK a \in Seq(Event) :
           /\ a # <<>> /\ InOrder(a) /\ \A i \in DOMAIN a : a[i] \in EventsOf(s)
           /\ \A i \in DOMAIN a : cursor[p][s] # NoEvent => Before(cursor[p][s], a[i])
           /\ given' = [given EXCEPT ![p][s] = given[p][s] \o a]
           /\ cursor' = [cursor EXCEPT ![p][s] = a[Len(a)]]
           /\ UNCHANGED storeVars
    BY <1>2, PollGives
  <2>0. PICK q : q = given[p][s]
    OBVIOUS
  <2> DEFINE r == q \o a
  <2>2. q \in Seq(Event) /\ Given(p, s) /\ InOrder(q)
    BY <2>0 DEF StreamInv, StreamTypes, Given
  <2>3. q # <<>> => q[Len(q)] \in Event
    BY <2>2
  <2>4. q # <<>> => \A i \in DOMAIN a : Before(q[Len(q)], a[i])
    BY <2>0, <2>1, <2>2, <2>3, StreamAssumption DEF Given
  <2>5. /\ r \in Seq(Event) /\ InOrder(r) /\ r # <<>> /\ r[Len(r)] = a[Len(a)] /\ Len(a) \in Nat \ {0}
        /\ \A k \in DOMAIN r :
             \/ k \in DOMAIN q /\ r[k] = q[k]
             \/ k - Len(q) \in DOMAIN a /\ r[k] = a[k - Len(q)]
    BY <2>1, <2>2, <2>4, JoinInOrder
  <2> HIDE DEF r
  <2>6. given' = [given EXCEPT ![p][s] = r]
    BY <2>0, <2>1 DEF r
  <2>7. /\ given' \in [Pollers -> [SessionIds -> Seq(Event)]]
        /\ given'[p][s] = r /\ cursor'[p][s] = a[Len(a)]
        /\ \A u \in Pollers, v \in SessionIds :
             u # p \/ v # s => given'[u][v] = given[u][v] /\ cursor'[u][v] = cursor[u][v]
    BY <2>1, <2>5, <2>6 DEF StreamInv, StreamTypes
  <2>8. a[Len(a)] \in Event /\ \A i \in DOMAIN a : a[i].sid = s /\ a[i].nr < commits
    <3>1. \A i \in DOMAIN a : a[i].sid = s /\ a[i].nr < commits
      BY <2>1 DEF EventsOf, EventsNumbered
    <3>2. a[Len(a)] \in Event
      BY <2>5
    <3> QED
      BY <3>1, <3>2
  <2>9. cursor' \in [Pollers -> [SessionIds -> Event \cup {NoEvent}]]
    BY <2>1, <2>8 DEF StreamInv, StreamTypes
  <2>10. commits' = commits
    BY <2>1 DEF storeVars, table
  <2>11. Given(p, s)'
    <3>1. \A k \in DOMAIN r : r[k].sid = s /\ r[k].nr < commits
      BY <2>0, <2>2, <2>5, <2>8 DEF Given
    <3> QED
      BY <2>5, <2>7, <2>10, <3>1 DEF Given
  <2>12. ASSUME NEW u \in Pollers, NEW v \in SessionIds, u # p \/ v # s
         PROVE  Given(u, v)'
    <3>1. Given(u, v)
      BY DEF StreamInv
    <3>2. given'[u][v] = given[u][v] /\ cursor'[u][v] = cursor[u][v]
      BY <2>7, <2>12
    <3> QED
      BY <2>10, <3>1, <3>2 DEF Given
  <2> QED
    BY <2>7, <2>9, <2>11, <2>12 DEF StreamInv, StreamTypes
<1> QED
  BY <1>1, <1>2 DEF StreamNext

LEMMA StreamStep == OrderInv /\ EventsNumbered /\ StreamInv /\ [StreamNext]_streamVars
                      => OrderInv' /\ EventsNumbered' /\ StreamInv'
<1> SUFFICES ASSUME OrderInv, EventsNumbered, StreamInv, [StreamNext]_streamVars
             PROVE  OrderInv' /\ EventsNumbered' /\ StreamInv'
  OBVIOUS
<1>1. TypeOK /\ [Next]_storeVars
  BY StreamIsStore DEF OrderInv
<1> QED
  BY <1>1, OrderInvNext, NumberedNext, StreamInvNext

\* Cursors and answers keep their shapes (get_event_stream).
THEOREM StreamTypesHold == StreamSpec => []StreamTypeOK
<1>1. OrderInv /\ StreamInv => StreamTypeOK
  <2> SUFFICES ASSUME OrderInv, StreamInv PROVE StreamTypeOK
    OBVIOUS
  <2>1. ASSUME NEW p \in Pollers, NEW s \in SessionIds, NEW i \in DOMAIN given[p][s]
        PROVE  given[p][s][i] \in Event
    <3>1. given[p][s] \in Seq(Event)
      BY DEF StreamInv, StreamTypes
    <3> QED
      BY <2>1, <3>1
  <2> QED
    BY <2>1 DEF StreamTypeOK, StreamInv, StreamTypes, OrderInv
<1>2. StreamInit => OrderInv /\ EventsNumbered /\ StreamInv
  BY OrderInvInit, NumberedInit, StreamInvInit DEF StreamInit
<1> QED
  BY <1>1, <1>2, StreamStep, PTL DEF StreamSpec

\* For any number of threads and clients, whoever resumes after the last
\* event it was given is never given one twice, nor one out of order
\* (get_event_stream with after_id).
THEOREM StreamGivesInOrder == StreamSpec => []GivenInOrderOnce
<1>1. StreamInv => GivenInOrderOnce
  BY DEF StreamInv, Given, InOrder, GivenInOrderOnce
<1>2. StreamInit => OrderInv /\ EventsNumbered /\ StreamInv
  BY OrderInvInit, NumberedInit, StreamInvInit DEF StreamInit
<1> QED
  BY <1>1, <1>2, StreamStep, PTL DEF StreamSpec

-----------------------------------------------------------------------------
(***************************************************************************)
(* With one thread nothing is stamped before what a client already has, so *)
(* what a client was given is all of the stream up to its cursor.          *)
(***************************************************************************)
UpToCursor ==
  \A p \in Pollers, s \in SessionIds : cursor[p][s] \in events =>
    \A e \in EventsOf(s) : e = cursor[p][s] \/ Before(e, cursor[p][s])
                             => \E i \in DOMAIN given[p][s] : given[p][s][i] = e

LEMMA EventsAddedLast ==
  ASSUME NEW t0, Threads = {t0}, TypeOK, EventsNumbered, LogInv, [Next]_storeVars
  PROVE  \/ events' \subseteq events
         \/ \E new \in Event : /\ events' = events \cup {new} /\ new.nr = commits
                               /\ \A e \in events : ~ Before(new, e)
<1>1. ASSUME EmitEvent(t0)
      PROVE  \E new \in Event : /\ events' = events \cup {new} /\ new.nr = commits
                                /\ \A e \in events : ~ Before(new, e)
  <2>1. PICK new \in Event : /\ events' = events \cup {new} /\ new.nr = commits
                             /\ new.at = local[t0].at /\ local[t0].step = "emit"
    BY <1>1, EmitInserts
  <2>2. ASSUME NEW e \in events PROVE ~ Before(new, e)
    <3>1. e.at \in Nat /\ new.at \in Nat /\ e.at < new.at
      BY <2>1 DEF TypeOK, Event, LogInv, FramesFresh
    <3> QED
      BY <3>1 DEF Before
  <2> QED
    BY <2>1, <2>2
<1>2. ASSUME ~ EmitEvent(t0)
      PROVE  events' \subseteq events
  BY <1>2 DEF Next, ThreadStep, CreateSession, AppendRead, AppendWrite, UpdateStatus, StampEvent,
              DeleteSession, Crash, storeVars, table
<1> QED
  BY <1>1, <1>2

LEMMA UpToCursorNext ==
  ASSUME NEW t0, Threads = {t0}, TypeOK, EventsNumbered, LogInv, StreamInv, UpToCursor,
         [StreamNext]_streamVars
  PROVE  UpToCursor'
<1>1. ASSUME StoreStep \/ UNCHANGED streamVars
      PROVE  UpToCursor'
  <2>1. cursor' = cursor /\ given' = given /\ [Next]_storeVars
    BY <1>1, StreamIsStore DEF StoreStep, streamVars
  <2> SUFFICES ASSUME NEW p \in Pollers, NEW s \in SessionIds, cursor[p][s] \in events',
                      NEW e \in events', e.sid = s, e = cursor[p][s] \/ Before(e, cursor[p][s])
               PROVE  \E i \in DOMAIN given[p][s] : given[p][s][i] = e
    BY <2>1 DEF UpToCursor, EventsOf
  <2>2. (cursor[p][s].nr < commits /\ cursor[p][s].nr \in Nat) \/ cursor[p][s] = NoEvent
    <3>1. given[p][s] \in Seq(Event) /\ Given(p, s)
      BY DEF StreamInv, StreamTypes
    <3>2. CASE given[p][s] = <<>>
      BY <3>1, <3>2 DEF Given
    <3>3. CASE given[p][s] # <<>>
      <4>1. Len(given[p][s]) \in DOMAIN given[p][s] /\ given[p][s][Len(given[p][s])] \in Event
        BY <3>1, <3>3
      <4> QED
        BY <3>1, <3>3, <4>1 DEF Given, Event
    <3> QED
      BY <3>2, <3>3
  <2>3. cursor[p][s] \in events /\ e \in events
    <3>1. CASE events' \subseteq events
      BY <3>1
    <3>2. ASSUME NEW new \in Event, events' = events \cup {new}, new.nr = commits,
                 \A x \in events : ~ Before(new, x)
          PROVE  cursor[p][s] \in events /\ e \in events
      <4>1. cursor[p][s] # new
        BY <2>2, <3>2, StreamAssumption DEF Event
      <4>2. cursor[p][s] \in events
        BY <3>2, <4>1
      <4>3. e # new
        BY <3>2, <4>1, <4>2
      <4> QED
        BY <3>2, <4>2, <4>3
    <3> QED
      BY <2>1, <3>1, <3>2, EventsAddedLast
  <2> QED
    BY <2>3 DEF UpToCursor, EventsOf
<1>2. ASSUME NEW p \in Pollers, NEW s \in SessionIds, Poll(p, s)
      PROVE  UpToCursor'
  <2>1. PICK a \in Seq(Event) :
           /\ a # <<>> /\ InOrder(a) /\ \A i \in DOMAIN a : a[i] \in EventsOf(s)
           /\ cursor[p][s] = NoEvent \/ cursor[p][s] \in EventsOf(s)
           /\ \A i \in DOMAIN a : cursor[p][s] # NoEvent => Before(cursor[p][s], a[i])
           /\ \A e \in EventsOf(s) : cursor[p][s] = NoEvent \/ Before(cursor[p][s], e)
                                       => \E i \in DOMAIN a : a[i] = e
           /\ given' = [given EXCEPT ![p][s] = given[p][s] \o a]
           /\ cursor' = [cursor EXCEPT ![p][s] = a[Len(a)]]
           /\ UNCHANGED storeVars
    BY <1>2, PollGives
  <2>0. PICK q : q = given[p][s]
    OBVIOUS
  <2> DEFINE r == q \o a
  <2>2. events' = events
    BY <2>1 DEF storeVars, table
  <2>3. q \in Seq(Event) /\ Given(p, s) /\ InOrder(q)
    BY <2>0 DEF StreamInv, StreamTypes, Given
  <2>10. q # <<>> => q[Len(q)] \in Event
    BY <2>3
  <2>4. q # <<>> => \A i \in DOMAIN a : Before(q[Len(q)], a[i])
    BY <2>0, <2>1, <2>3, <2>10, StreamAssumption DEF Given
  <2>5. /\ \A i \in DOMAIN q : i \in DOMAIN r /\ r[i] = q[i]
        /\ \A i \in DOMAIN a : Len(q) + i \in DOMAIN r /\ r[Len(q) + i] = a[i]
    BY <2>1, <2>3, <2>4, JoinInOrder
  <2> HIDE DEF r
  <2>6. /\ given'[p][s] = r
        /\ \A u \in Pollers, v \in SessionIds :
             u # p \/ v # s => given'[u][v] = given[u][v] /\ cursor'[u][v] = cursor[u][v]
    BY <2>0, <2>1 DEF StreamInv, StreamTypes, r
  <2>7. ASSUME NEW e \in EventsOf(s) PROVE \E i \in DOMAIN r : r[i] = e
    <3>1. CASE cursor[p][s] = NoEvent \/ Before(cursor[p][s], e)
      <4>1. PICK i \in DOMAIN a : a[i] = e
        BY <2>1, <3>1
      <4> QED
        BY <2>5, <4>1
    <3>2. CASE ~ (cursor[p][s] = NoEvent \/ Before(cursor[p][s], e))
      <4>1. cursor[p][s] \in EventsOf(s) /\ cursor[p][s] \in events /\ e \in events
        BY <2>1, <3>2 DEF EventsOf
      <4>2. cursor[p][s] \in Event /\ e \in Event
        BY <4>1 DEF TypeOK
      <4>3. e = cursor[p][s] \/ Before(e, cursor[p][s])
        BY <3>2, <4>1, <4>2, BeforeIsStrict DEF EventsNumbered
      <4>4. PICK i \in DOMAIN q : q[i] = e
        BY <2>0, <4>1, <4>3 DEF UpToCursor
      <4> QED
        BY <2>5, <4>4
    <3> QED
      BY <3>1, <3>2
  <2> SUFFICES ASSUME NEW u \in Pollers, NEW v \in SessionIds, cursor'[u][v] \in events,
                      NEW e \in EventsOf(v), e = cursor'[u][v] \/ Before(e, cursor'[u][v])
               PROVE  \E i \in DOMAIN given'[u][v] : given'[u][v][i] = e
    BY <2>2 DEF UpToCursor, EventsOf
  <2>8. CASE u = p /\ v = s
    BY <2>6, <2>7, <2>8
  <2>9. CASE u # p \/ v # s
    BY <2>6, <2>9 DEF UpToCursor
  <2> QED
    BY <2>8, <2>9
<1> QED
  BY <1>1, <1>2 DEF StreamNext

\* With one thread a client that has caught up has every event of the
\* session: resuming with after_id skips none (get_event_stream,
\* _emit_event).
THEOREM ResumingSkipsNothing ==
  ASSUME NEW t0, Threads = {t0}
  PROVE  StreamSpec => []NothingSkipped
<1> DEFINE Inv == OrderInv /\ SerialInv /\ EventsNumbered /\ LogInv /\ StreamInv /\ UpToCursor
<1>1. StreamInit => Inv
  <2> SUFFICES ASSUME StreamInit PROVE Inv
    OBVIOUS
  <2>1. UpToCursor
    BY DEF StreamInit, Init, UpToCursor
  <2> QED
    BY <2>1, OrderInvInit, SerialInvInit, NumberedInit, LogInvInit, StreamInvInit DEF StreamInit
<1>2. Inv /\ [StreamNext]_streamVars => Inv'
  <2> SUFFICES ASSUME Inv, [StreamNext]_streamVars PROVE Inv'
    OBVIOUS
  <2>1. TypeOK /\ [Next]_storeVars
    BY StreamIsStore DEF OrderInv
  <2> QED
    BY <2>1, StreamStep, SerialInvNext, LogInvNext, UpToCursorNext
<1>3. Inv => NothingSkipped
  <2> SUFFICES ASSUME Inv, NEW p \in Pollers, NEW s \in SessionIds, cursor[p][s] \in events,
                      StreamAfter(s, cursor[p][s]) = {}, NEW e \in EventsOf(s)
               PROVE  \E i \in DOMAIN given[p][s] : given[p][s][i] = e
    BY DEF NothingSkipped
  <2>1. cursor[p][s] \in Event /\ e \in events /\ e \in Event
    BY DEF OrderInv, TypeOK, EventsOf
  <2>2. ~ Before(cursor[p][s], e)
    BY <2>1, StreamAssumption DEF StreamAfter
  <2>3. e = cursor[p][s] \/ Before(e, cursor[p][s])
    BY <2>1, <2>2, BeforeIsStrict DEF EventsNumbered
  <2> QED
    BY <2>3 DEF UpToCursor
<1> QED
  BY <1>1, <1>2, <1>3, PTL DEF StreamSpec
=============================================================================

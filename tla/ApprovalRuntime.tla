-------------------------- MODULE ApprovalRuntime --------------------------
(***************************************************************************)
(* The ApprovalRuntime (src/approval_runtime): requests to use a tool, by  *)
(* identifier, and what was approved for a whole session.                  *)
(*                                                                         *)
(* An identifier is the microsecond of the request: requests of one        *)
(* microsecond have one identifier, and the later takes the place of the   *)
(* earlier.  The caller of request holds the object, so the model numbers  *)
(* objects in order of creation and the table leads to objects.            *)
(***************************************************************************)
EXTENDS Integers, Sequences, Functions

CONSTANTS
  AskingSessions,  \* sessions
  AskedTools,      \* names of tools
  MaxMicroseconds, \* bound: the clock
  MaxAsked         \* bound: requests made

ASSUME RuntimeAssumption == MaxMicroseconds \in Nat /\ MaxAsked \in Nat

VARIABLES
  microsecond, \* time.time() * 1000000
  asked,       \* every request object, in order of creation
  table,       \* _requests: the object under each identifier, 0 for none
  granted,     \* _session_approvals, as pairs
  cleared      \* history: the objects of sessions that were cleared

runtimeVars == <<microsecond, asked, table, granted, cleared>>

Microseconds == 0 .. MaxMicroseconds
Verdict == {"approved", "approved_for_session", "rejected"}
ApprovalRequests == [id : Microseconds, session : AskingSessions, tool : AskedTools,
                     status : Verdict \cup {"pending"}]

RuntimeInit ==
  /\ microsecond = 0 /\ asked = <<>> /\ table = [t \in Microseconds |-> 0]
  /\ granted = {} /\ cleared = {}

Tick ==
  /\ microsecond < MaxMicroseconds
  /\ microsecond' = microsecond + 1
  /\ UNCHANGED <<asked, table, granted, cleared>>

\* request
RequestApproval(session, tool) ==
  /\ Len(asked) < MaxAsked
  /\ asked' = Append(asked, [id |-> microsecond, session |-> session, tool |-> tool,
                             status |-> "pending"])
  /\ table' = [table EXCEPT ![microsecond] = Len(asked) + 1]
  /\ UNCHANGED <<microsecond, granted, cleared>>

\* approve, approve_for_session and reject: only what is in the table and pending
\* is decided; any other identifier is answered with None.
Resolve(id, status) ==
  /\ table[id] # 0 /\ asked[table[id]].status = "pending"
  /\ asked' = [asked EXCEPT ![table[id]].status = status]
  /\ granted' = IF status = "approved_for_session"
                THEN granted \cup {<<asked[table[id]].session, asked[table[id]].tool>>}
                ELSE granted
  /\ UNCHANGED <<microsecond, table, cleared>>

\* Mutant of ClearAsked: the approvals for the session stay.
ClearRequestsOnly(session) ==
  LET gone == {i \in Range(table) \ {0} : asked[i].session = session} IN
  /\ table' = [t \in Microseconds |-> IF table[t] \in gone THEN 0 ELSE table[t]]
  /\ cleared' = cleared \cup {i \in DOMAIN asked : asked[i].session = session}
  /\ UNCHANGED <<microsecond, asked, granted>>

\* clear_session: its approvals and its requests, the pending ones too.
ClearAsked(session) ==
  LET gone == {i \in Range(table) \ {0} : asked[i].session = session} IN
  /\ granted' = {g \in granted : g[1] # session}
  /\ table' = [t \in Microseconds |-> IF table[t] \in gone THEN 0 ELSE table[t]]
  /\ cleared' = cleared \cup {i \in DOMAIN asked : asked[i].session = session}
  /\ UNCHANGED <<microsecond, asked>>

RuntimeNext ==
  \/ Tick
  \/ \E session \in AskingSessions, tool \in AskedTools : RequestApproval(session, tool)
  \/ \E id \in Microseconds, status \in Verdict : Resolve(id, status)
  \/ \E session \in AskingSessions : ClearAsked(session)

RuntimeSpec == RuntimeInit /\ [][RuntimeNext]_runtimeVars

-----------------------------------------------------------------------------
\* The type invariant.
RuntimeTypeOK ==
  /\ microsecond \in Microseconds /\ asked \in Seq(ApprovalRequests)
  /\ table \in [Microseconds -> 0 .. Len(asked)]
  /\ granted \subseteq AskingSessions \X AskedTools /\ cleared \subseteq DOMAIN asked

\* What holds for a session is what was approved for it, by some request it made
\* since it was last cleared, and nothing else ever ends it.
GrantsHold ==
  granted = {<<asked[i].session, asked[i].tool>> :
               i \in {j \in DOMAIN asked \ cleared : asked[j].status = "approved_for_session"}}

\* Whoever waits for a pending request can be answered, unless its session was
\* cleared or a later request of the same microsecond took its place: then no
\* identifier leads to it, and it is pending for ever.
PendingCanBeAnswered ==
  \A i \in DOMAIN asked \ cleared : asked[i].status = "pending" =>
    \/ table[asked[i].id] = i
    \/ \E j \in i + 1 .. Len(asked) : asked[j].id = asked[i].id

\* Approvals last as they were given, and requests can be decided.
RuntimeSound == GrantsHold /\ PendingCanBeAnswered
=============================================================================

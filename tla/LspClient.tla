------------------------------ MODULE LspClient ------------------------------
(***************************************************************************)
(* The client of src/lsp: it writes a message to a language server and,    *)
(* for those that have a result, takes the next message the server sends.  *)
(*                                                                         *)
(* Every message is given an id, notifications too, and ids are not        *)
(* compared.  The server is external: it answers requests in order, may    *)
(* answer what the protocol calls a notification, and may send messages of *)
(* its own, as servers do after didOpen.                                   *)
(***************************************************************************)
EXTENDS Naturals, Sequences, FiniteSets

CONSTANTS
  MaxLspMessages, \* bound: messages written
  MaxRemarks,   \* bound: messages of the server that nobody asked for
  MaxLspServers \* bound: processes started

ASSUME LspAssumption == {MaxLspMessages, MaxRemarks, MaxLspServers} \subseteq Nat

VARIABLES
  lspServer,    \* self._process: "none", "alive" or "dead"
  lspServers,   \* processes started so far
  requestId,    \* self._request_id
  toServer,     \* what the server has to read: [id, wanted]
  fromServer,   \* what the client has to read: the id answered, or 0
  wants,        \* the id of the call that waits in _recv, 0 for none
  answered,     \* history: per id, what its call was given: an id, 0 for a
                \* message that answers no call, Nothing for an empty result
  remarks,      \* history: messages of this process that answer no call
  late          \* history: ids of calls made when there had been remarks

lspVars == <<lspServer, lspServers, requestId, toServer, fromServer, wants, answered,
             remarks, late>>

Nothing == MaxLspMessages + 1
Unanswered == MaxLspMessages + 2

LspInit ==
  /\ lspServer = "none" /\ lspServers = 0 /\ requestId = 0
  /\ toServer = <<>> /\ fromServer = <<>> /\ wants = 0
  /\ answered = [i \in 1..MaxLspMessages |-> Unanswered] /\ remarks = 0 /\ late = {}

-----------------------------------------------------------------------------
\* start: a process with pipes of its own, whatever became of another; the
\* request initialize and the notification initialized are as any other.
LspStart ==
  /\ wants = 0 /\ lspServers < MaxLspServers
  /\ lspServers' = lspServers + 1 /\ lspServer' = "alive"
  /\ toServer' = <<>> /\ fromServer' = <<>> /\ remarks' = 0
  /\ UNCHANGED <<requestId, wants, answered, late>>

\* _send, and the call waits if it has a result.  A write to a process that
\* died raises; without a process nothing is written and the result is empty.
Say(wanted) ==
  LET id == requestId + 1 IN
  /\ wants = 0 /\ id <= MaxLspMessages /\ lspServer # "dead"
  /\ requestId' = id
  /\ IF lspServer = "none"
     THEN /\ answered' = [answered EXCEPT ![id] = IF wanted THEN Nothing ELSE @]
          /\ UNCHANGED <<toServer, wants, late>>
     ELSE /\ toServer' = Append(toServer, [id |-> id, wanted |-> wanted])
          /\ wants' = IF wanted THEN id ELSE 0
          /\ late' = late \cup {i \in {id} : remarks > 0}
          /\ UNCHANGED answered
  /\ UNCHANGED <<lspServer, lspServers, fromServer, remarks>>

\* _recv: the next message, whatever it is.
TakeNext ==
  /\ wants # 0 /\ fromServer # <<>>
  /\ fromServer' = Tail(fromServer)
  /\ answered' = [answered EXCEPT ![wants] = Head(fromServer)]
  /\ wants' = 0
  /\ UNCHANGED <<lspServer, lspServers, requestId, toServer, remarks, late>>

\* _recv at the end of the stream.
TakeEnd ==
  /\ wants # 0 /\ fromServer = <<>> /\ lspServer = "dead"
  /\ answered' = [answered EXCEPT ![wants] = Nothing]
  /\ wants' = 0
  /\ UNCHANGED <<lspServer, lspServers, requestId, toServer, fromServer, remarks, late>>

\* The end of shutdown, after the request of that name: the process is gone,
\* or did not end in five seconds and is kept.
LspShutdown ==
  /\ wants = 0 /\ lspServer \in {"alive", "dead"}
  /\ lspServer' = "none" /\ toServer' = <<>> /\ fromServer' = <<>>
  /\ UNCHANGED <<lspServers, requestId, wants, answered, remarks, late>>

\* The server reads a message: an answer, or none to a notification.
Reply ==
  /\ lspServer = "alive" /\ toServer # <<>> /\ toServer' = Tail(toServer)
  /\ \/ /\ Head(toServer).wanted
        /\ fromServer' = Append(fromServer, Head(toServer).id) /\ UNCHANGED remarks
     \/ /\ ~ Head(toServer).wanted
        /\ \/ UNCHANGED <<fromServer, remarks>>
           \/ fromServer' = Append(fromServer, 0) /\ remarks' = remarks + 1
  /\ UNCHANGED <<lspServer, lspServers, requestId, wants, answered, late>>

Remark ==
  /\ lspServer = "alive" /\ remarks < MaxRemarks
  /\ fromServer' = Append(fromServer, 0) /\ remarks' = remarks + 1
  /\ UNCHANGED <<lspServer, lspServers, requestId, toServer, wants, answered, late>>

Perish ==
  /\ lspServer = "alive" /\ lspServer' = "dead" /\ toServer' = <<>>
  /\ UNCHANGED <<lspServers, requestId, fromServer, wants, answered, remarks, late>>

LspNext ==
  LspStart \/ (\E w \in BOOLEAN : Say(w)) \/ TakeNext \/ TakeEnd \/ LspShutdown
    \/ Reply \/ Remark \/ Perish

-----------------------------------------------------------------------------
LspTypeOK ==
  /\ lspServer \in {"none", "alive", "dead"} /\ requestId \in 0..MaxLspMessages
  /\ wants \in 0..requestId /\ late \subseteq 1..requestId
  /\ \A i \in DOMAIN fromServer : fromServer[i] \in 0..requestId
  /\ \A i \in DOMAIN answered : answered[i] \in 0..Unanswered

\* As long as the server says nothing of its own, a call is given its answer;
\* from the first such message on, no call of the process is: each is given
\* what was meant for one before it, and the messages left over are as many as
\* the server's own.
OutOfStepForGood ==
  /\ \A i \in late : answered[i] # i
  /\ \A i \in DOMAIN answered : answered[i] \in 0..i \cup {Nothing, Unanswered}
  /\ lspServer = "alive" /\ wants = 0 =>
       Len(fromServer) + Cardinality({k \in DOMAIN toServer : toServer[k].wanted}) = remarks
=============================================================================

------------------------------ MODULE McpClient ------------------------------
(***************************************************************************)
(* The client of src/mcp/client.py: it writes one line to a server and     *)
(* waits for a line of the answer.                                         *)
(*                                                                         *)
(* Every call of a tool has the id 3 and ids are never compared: a line is *)
(* the answer to whatever was asked last.  The client waits with select,   *)
(* for half a second, on the pipe below a buffered reader: readline takes  *)
(* everything that is in the pipe, so that a second line stays in the      *)
(* buffer, where select does not see it.                                   *)
(***************************************************************************)
EXTENDS Naturals, Sequences, FiniteSets

CONSTANTS
  MaxRequests,  \* bound: requests to all servers together
  MaxServers    \* bound: processes started

ASSUME McpAssumption == MaxRequests \in Nat /\ MaxServers \in Nat

VARIABLES
  server,       \* self._process: "none", "alive" or "dead"
  servers,      \* processes started so far
  asked,        \* requests written so far; a request is known by its number
  toAnswer,     \* requests in the server's stdin
  pipe,         \* answers in the pipe
  buffered,     \* answers in the reader's buffer
  waiting,      \* the request whose answer is awaited, 0 for none
  got,          \* history: the answer each request was given, 0 for none
  gaveUp,       \* history: requests that ended without one
  before        \* history: requests to the processes before this one

mcpVars == <<server, servers, asked, toAnswer, pipe, buffered, waiting, got, gaveUp, before>>

Requests == 1..MaxRequests

McpInit ==
  /\ server = "none" /\ servers = 0 /\ asked = 0
  /\ toAnswer = <<>> /\ pipe = <<>> /\ buffered = <<>>
  /\ waiting = 0 /\ got = [r \in Requests |-> 0] /\ gaveUp = {} /\ before = 0

-----------------------------------------------------------------------------
\* connect starts a process, with pipes of its own.  initialize and
\* tools/list are requests as any other.
Connect ==
  /\ waiting = 0 /\ servers < MaxServers
  /\ servers' = servers + 1 /\ server' = "alive"
  /\ toAnswer' = <<>> /\ pipe' = <<>> /\ buffered' = <<>> /\ before' = asked
  /\ UNCHANGED <<asked, waiting, got, gaveUp>>

\* _send; to a process that has died it raises.
Send ==
  /\ waiting = 0 /\ server = "alive" /\ asked < MaxRequests
  /\ asked' = asked + 1 /\ waiting' = asked + 1
  /\ toAnswer' = Append(toAnswer, asked + 1)
  /\ UNCHANGED <<server, servers, pipe, buffered, got, gaveUp, before>>

\* The server answers in order, when it pleases.
Answer ==
  /\ server = "alive" /\ toAnswer # <<>>
  /\ pipe' = Append(pipe, Head(toAnswer)) /\ toAnswer' = Tail(toAnswer)
  /\ UNCHANGED <<server, servers, asked, buffered, waiting, got, gaveUp, before>>

Die ==
  /\ server = "alive" /\ server' = "dead"
  /\ toAnswer' = <<>>
  /\ UNCHANGED <<servers, asked, pipe, buffered, waiting, got, gaveUp, before>>

\* select says that there is something to read: data or, of a process that
\* has died, the end of the file.
HasInput == pipe # <<>> \/ server = "dead"

\* readline: a buffered line, or else all that is in the pipe is taken and
\* its first line returned.
ReadLine ==
  /\ waiting # 0 /\ HasInput /\ buffered \o pipe # <<>>
  /\ IF buffered # <<>>
     THEN /\ got' = [got EXCEPT ![waiting] = Head(buffered)]
          /\ buffered' = Tail(buffered) /\ UNCHANGED pipe
     ELSE /\ got' = [got EXCEPT ![waiting] = Head(pipe)]
          /\ buffered' = Tail(pipe) /\ pipe' = <<>>
  /\ waiting' = 0
  /\ UNCHANGED <<server, servers, asked, toAnswer, gaveUp, before>>

\* Nothing in the pipe for half a second, or only the end of the file for
\* five: no response, whatever is buffered.
GiveUp ==
  /\ waiting # 0 /\ pipe = <<>>
  /\ server = "dead" => buffered = <<>>
  /\ waiting' = 0 /\ gaveUp' = gaveUp \cup {waiting}
  /\ UNCHANGED <<server, servers, asked, toAnswer, pipe, buffered, got, before>>

\* close
Close ==
  /\ waiting = 0 /\ server # "none" /\ server' = "none"
  /\ toAnswer' = <<>> /\ pipe' = <<>> /\ buffered' = <<>>
  /\ UNCHANGED <<servers, asked, waiting, got, gaveUp, before>>

McpNext == Connect \/ Send \/ Answer \/ Die \/ ReadLine \/ GiveUp \/ Close

McpSpec == McpInit /\ [][McpNext]_mcpVars

-----------------------------------------------------------------------------
McpTypeOK ==
  /\ server \in {"none", "alive", "dead"} /\ servers \in 0..MaxServers
  /\ asked \in 0..MaxRequests /\ waiting \in {0, asked}
  /\ {toAnswer, pipe, buffered} \subseteq Seq(1..asked)
  /\ got \in [Requests -> 0..asked] /\ gaveUp \subseteq 1..asked /\ before \in 0..asked

GaveUpHere == {r \in gaveUp : r > before}

\* No answer is given twice, and none before an earlier one, not even
\* through a restart of the server.
AnswersInOrder ==
  \A q, r \in Requests : (q < r /\ got[q] # 0 /\ got[r] # 0) => got[q] < got[r]

\* A request is given its own answer or an earlier one, and it lags behind
\* by no more than the requests that gave up on this process: as long as
\* none did, every call returns its own result (call_tool compares no ids).
LagBounded ==
  (waiting = 0 /\ asked > before /\ got[asked] # 0)
    => /\ got[asked] \in (before + 1)..asked
       /\ asked - got[asked] <= Cardinality(GaveUpHere)

\* A call that gave up leaves its answer behind for a later call: while the
\* process lives, answers to come and answers left over are as many as the
\* calls that gave up, so the client never comes back into step.
NeverInStepAgain ==
  (server = "alive" /\ waiting = 0)
    => Len(toAnswer) + Len(pipe) + Len(buffered) = Cardinality(GaveUpHere)
\* Without ids, answers still come in order, and the distance between a call
\* and the answer it is given is known exactly: the calls that gave up.
AnswersLagKnown == AnswersInOrder /\ LagBounded /\ NeverInStepAgain
=============================================================================

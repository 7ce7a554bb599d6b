-------------------------------- MODULE Wire --------------------------------
(***************************************************************************)
(* A channel of src/wire: agent threads send events, one front end         *)
(* receives them, and anybody may shut the channel down.  send looks at    *)
(* the flag and then puts the message; shutdown sets the flag and then     *)
(* puts a SHUTDOWN message, at which the receiver stops.                   *)
(***************************************************************************)
EXTENDS Naturals, Sequences, FiniteSets

CONSTANTS
  Senders,      \* threads of the agent
  MaxMessages,  \* bound: messages of all senders together
  MaxShutdowns  \* bound: calls of shutdown

ASSUME WireAssumption ==
  /\ IsFiniteSet(Senders) /\ "shutdown" \notin Senders
  /\ MaxMessages \in Nat /\ MaxShutdowns \in Nat

VARIABLES
  shut,         \* self._shutdown
  channel,      \* self._queue
  sending,      \* per sender, the message it has still to put, 0 for none
  sent,         \* messages so far: the identity of the last
  marking,      \* calls of shutdown that have still to put their message
  shutdowns,    \* calls of shutdown so far
  received      \* history: what the front end has received

wireVars == <<shut, channel, sending, sent, marking, shutdowns, received>>

ShutdownMark == [from |-> "shutdown", nr |-> 0]
Message(s, n) == [from |-> s, nr |-> n]

WireInit ==
  /\ shut = FALSE /\ channel = <<>>
  /\ sending = [s \in Senders |-> 0]
  /\ sent = 0 /\ marking = 0 /\ shutdowns = 0
  /\ received = <<>>

\* The front end has not come to the SHUTDOWN message.
Listening == \A k \in DOMAIN received : received[k] # ShutdownMark

\* send: the channel is not shut down.  Otherwise the message is dropped.
BeginSend(s) ==
  /\ sending[s] = 0 /\ sent < MaxMessages /\ ~ shut
  /\ sent' = sent + 1
  /\ sending' = [sending EXCEPT ![s] = sent + 1]
  /\ UNCHANGED <<shut, channel, marking, shutdowns, received>>

\* The message is stamped and put.
Put(s) ==
  /\ sending[s] # 0
  /\ channel' = Append(channel, Message(s, sending[s]))
  /\ sending' = [sending EXCEPT ![s] = 0]
  /\ UNCHANGED <<shut, sent, marking, shutdowns, received>>

\* shutdown sets the flag.
SetShutdown ==
  /\ shutdowns < MaxShutdowns /\ shutdowns' = shutdowns + 1
  /\ shut' = TRUE /\ marking' = marking + 1
  /\ UNCHANGED <<channel, sending, sent, received>>

PutShutdown ==
  /\ marking > 0
  /\ marking' = marking - 1
  /\ channel' = Append(channel, ShutdownMark)
  /\ UNCHANGED <<shut, sending, sent, shutdowns, received>>

\* receive, blocking or with a timeout: without a message it changes
\* nothing.
Receive ==
  /\ Listening /\ channel # <<>>
  /\ received' = Append(received, Head(channel))
  /\ channel' = Tail(channel)
  /\ UNCHANGED <<shut, sending, sent, marking, shutdowns>>

WireNext ==
  \/ \E s \in Senders : BeginSend(s) \/ Put(s)
  \/ SetShutdown \/ PutShutdown \/ Receive

WireSpec == WireInit /\ [][WireNext]_wireVars

-----------------------------------------------------------------------------
WireTypeOK ==
  /\ shut \in BOOLEAN /\ (shut <=> shutdowns > 0)
  /\ sending \in [Senders -> 0..sent] /\ sent \in 0..MaxMessages
  /\ shutdowns \in 0..MaxShutdowns /\ marking \in 0..shutdowns
  /\ \A k \in DOMAIN channel :
       channel[k] = ShutdownMark \/ channel[k] \in [from : Senders, nr : 1..sent]

\* The messages of one sender arrive in the order in which it sent them,
\* none twice: what was received, what is queued and what is being sent.
SenderInOrder ==
  LET all == received \o channel IN
  \A i, k \in DOMAIN all :
    (all[i].from \in Senders /\ all[k].from = all[i].from /\ i < k) => all[i].nr < all[k].nr

\* A shutdown strands no more than one message of each sender: those whose
\* send had looked at the flag before.  The front end never sees them.
StrandedBounded ==
  LET all == received \o channel
      markers == {k \in DOMAIN all : all[k] = ShutdownMark}
      stranded == {k \in DOMAIN all :
                     all[k].from \in Senders /\ \E m \in markers : m < k}
  IN \A s \in Senders : Cardinality({k \in stranded : all[k].from = s}) <= 1
\* A channel keeps the order of each sender, and loses no more than one of
\* its messages to a shutdown, between whatever tests and puts it falls.
WireInOrder == SenderInOrder /\ StrandedBounded
=============================================================================

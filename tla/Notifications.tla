--------------------------- MODULE Notifications ---------------------------
(***************************************************************************)
(* The notifications of src/notifications/__init__.py: the manager adds    *)
(* them, sinks claim those that are for them and acknowledge them.  There  *)
(* is no lock: claims of two threads interleave between the test of a      *)
(* status and its change, and a claim that cannot save at its end raises   *)
(* instead of returning what it claimed.  build_llm_message acknowledges   *)
(* what it read as pending, which has an effect only on what was claimed   *)
(* in between.                                                             *)
(*                                                                         *)
(* The identifier of a notification is the microsecond it was made in, and *)
(* ack takes the first claimed one that has it: of two made in one instant *)
(* it may be the other.  The file is written and never read, so only the   *)
(* failure of the write is modelled.                                       *)
(***************************************************************************)
EXTENDS Naturals, Sequences, FiniteSets

CONSTANTS
  Sinks,         \* "llm", "wire", "shell": one thread each
  Alone,         \* values of `alone`
  ClaimLimit,    \* the limit of a claim
  MaxNotes,      \* bound: notifications
  MaxSaveErrors  \* bound: saves that raise

ASSUME NotificationAssumption ==
  /\ Alone \subseteq BOOLEAN /\ ClaimLimit \in Nat \ {0}
  /\ MaxNotes \in Nat /\ MaxSaveErrors \in Nat

VARIABLES
  alone,         \* claims and messages are made one at a time
  notes,         \* self._notifications: the identifier, the targets and the
                 \* status of each
  claiming,      \* the claims in progress, by sink: position in the list,
                 \* what was claimed, and whether the test has succeeded
  message,       \* the notifications that a build_llm_message has still to
                 \* acknowledge
  saveErrors,    \* saves that raised
  returned,      \* history: who was given each notification, and how often
  unreturned,    \* history: claimed by a claim that raised
  ackedOnce      \* history: set to acked

noteVars == <<alone, notes, claiming, message, saveErrors, returned, unreturned, ackedOnce>>

NoClaim == [pos |-> 0, got |-> <<>>, tested |-> FALSE]
InClaim(s) == claiming[s].pos > 0

NoteInit ==
  /\ alone \in Alone /\ notes = <<>> /\ claiming = [s \in Sinks |-> NoClaim]
  /\ message = {} /\ saveErrors = 0 /\ returned = <<>> /\ unreturned = {} /\ ackedOnce = {}

-----------------------------------------------------------------------------
\* int(time.time() * 1000000): that of the notification before, or a later one.
LastId == IF notes = <<>> THEN 0 ELSE notes[Len(notes)].id

\* notify: the notification stays if the save raises.
Notify(targets, id) ==
  /\ Len(notes) < MaxNotes /\ id \in {LastId, LastId + 1}
  /\ notes' = Append(notes, [id |-> id, targets |-> targets, status |-> "pending"])
  /\ returned' = Append(returned, [s \in Sinks |-> 0])
  /\ UNCHANGED <<alone, claiming, message, saveErrors, unreturned, ackedOnce>>

\* claim begins.
BeginClaim(s) ==
  /\ ~ InClaim(s)
  /\ alone => message = {} /\ \A t \in Sinks : ~ InClaim(t)
  /\ claiming' = [claiming EXCEPT ![s].pos = 1]
  /\ UNCHANGED <<alone, notes, message, saveErrors, returned, unreturned, ackedOnce>>

Scanning(s) ==
  /\ InClaim(s) /\ claiming[s].pos <= Len(notes) /\ Len(claiming[s].got) < ClaimLimit

Wanted(s, n) == n.status = "pending" /\ s \in n.targets

\* The test of the next notification.
Test(s) ==
  /\ Scanning(s) /\ ~ claiming[s].tested
  /\ claiming' = IF Wanted(s, notes[claiming[s].pos])
                   THEN [claiming EXCEPT ![s].tested = TRUE]
                   ELSE [claiming EXCEPT ![s].pos = @ + 1]
  /\ UNCHANGED <<alone, notes, message, saveErrors, returned, unreturned, ackedOnce>>

\* n.status = "claimed"; claimed.append(n)
Take(s) ==
  /\ InClaim(s) /\ claiming[s].tested
  /\ notes' = [notes EXCEPT ![claiming[s].pos].status = "claimed"]
  /\ claiming' = [claiming EXCEPT ![s] = [pos |-> @.pos + 1, got |-> Append(@.got, @.pos),
                                          tested |-> FALSE]]
  /\ UNCHANGED <<alone, message, saveErrors, returned, unreturned, ackedOnce>>

GotBy(s) == {claiming[s].got[k] : k \in DOMAIN claiming[s].got}

ClaimOver(s) == InClaim(s) /\ ~ claiming[s].tested /\ ~ Scanning(s)

\* Mutant of EndClaim: only the first of the claimed is returned.
EndClaimFirst(s) ==
  /\ ClaimOver(s)
  /\ returned' = [n \in DOMAIN notes |->
                    IF claiming[s].got # <<>> /\ n = Head(claiming[s].got)
                      THEN [returned[n] EXCEPT ![s] = @ + 1] ELSE returned[n]]
  /\ claiming' = [claiming EXCEPT ![s] = NoClaim]
  /\ UNCHANGED <<alone, notes, message, saveErrors, unreturned, ackedOnce>>

\* The claim saves and returns.
EndClaim(s) ==
  /\ ClaimOver(s)
  /\ returned' = [n \in DOMAIN notes |->
                    IF n \in GotBy(s) THEN [returned[n] EXCEPT ![s] = @ + 1] ELSE returned[n]]
  /\ claiming' = [claiming EXCEPT ![s] = NoClaim]
  /\ UNCHANGED <<alone, notes, message, saveErrors, unreturned, ackedOnce>>

\* _save cannot write its file.
SaveRaises == saveErrors < MaxSaveErrors /\ saveErrors' = saveErrors + 1

\* The save of a claim raises.
ClaimRaises(s) ==
  /\ ClaimOver(s) /\ SaveRaises
  /\ unreturned' = unreturned \cup GotBy(s)
  /\ claiming' = [claiming EXCEPT ![s] = NoClaim]
  /\ UNCHANGED <<alone, notes, message, returned, ackedOnce>>

\* The loop of ack stops at k.
FoundBy(id, k) ==
  /\ k \in DOMAIN notes /\ notes[k].id = id /\ notes[k].status = "claimed"
  /\ \A j \in 1..(k - 1) : ~ (notes[j].id = id /\ notes[j].status = "claimed")

\* It changes the status, and then saves, which may raise.
Acked(k) ==
  /\ notes' = [notes EXCEPT ![k].status = "acked"]
  /\ ackedOnce' = ackedOnce \cup {k}

\* ack, by a sink that was given the notification n.
Ack(s, n) ==
  /\ returned[n][s] > 0
  /\ \E k \in DOMAIN notes : FoundBy(notes[n].id, k) /\ Acked(k)
  /\ SaveRaises \/ UNCHANGED saveErrors
  /\ UNCHANGED <<alone, claiming, message, returned, unreturned>>

\* build_llm_message reads what is pending for the model.
BeginMessage ==
  /\ message = {} /\ "llm" \in Sinks
  /\ alone => \A t \in Sinks : ~ InClaim(t)
  /\ message' = {n \in DOMAIN notes : Wanted("llm", notes[n])}
  /\ UNCHANGED <<alone, notes, claiming, saveErrors, returned, unreturned, ackedOnce>>

\* It acknowledges by the identifier of the next of them, which finds what is
\* claimed; where the save raises, the message is never made.
AckInMessage(n) ==
  /\ n \in message /\ \A k \in message : n <= k
  /\ \/ \E k \in DOMAIN notes : FoundBy(notes[n].id, k) /\ Acked(k)
     \/ ~ (\E k \in DOMAIN notes : FoundBy(notes[n].id, k)) /\ UNCHANGED <<notes, ackedOnce>>
  /\ \/ message' = message \ {n} /\ UNCHANGED saveErrors
     \/ message' = {} /\ notes' # notes /\ SaveRaises
  /\ UNCHANGED <<alone, claiming, returned, unreturned>>

NoteNext ==
  \/ \E targets \in SUBSET Sinks \ {{}}, id \in 1..MaxNotes : Notify(targets, id)
  \/ \E s \in Sinks : BeginClaim(s) \/ Test(s) \/ Take(s) \/ EndClaim(s) \/ ClaimRaises(s)
  \/ \E s \in Sinks, n \in DOMAIN notes : Ack(s, n)
  \/ BeginMessage
  \/ \E n \in message : AckInMessage(n)

NoteSpec == NoteInit /\ [][NoteNext]_noteVars

-----------------------------------------------------------------------------
NoteTypeOK ==
  /\ notes \in Seq([id : 1..MaxNotes, targets : SUBSET Sinks,
                      status : {"pending", "claimed", "acked"}])
  /\ claiming \in [Sinks -> [pos : 0..(MaxNotes + 1), got : Seq(1..MaxNotes), tested : BOOLEAN]]
  /\ message \subseteq DOMAIN notes
  /\ returned \in Seq([Sinks -> Nat]) /\ Len(returned) = Len(notes)
  /\ saveErrors \in 0..MaxSaveErrors /\ {unreturned, ackedOnce} \subseteq SUBSET (1..MaxNotes)

\* A sink is given a notification once, also when sinks claim at the same
\* time; when they do not, only one of its targets is.
GivenOnce ==
  \A n \in DOMAIN notes :
    /\ \A s \in Sinks : returned[n][s] <= 1 /\ (returned[n][s] = 1 => s \in notes[n].targets)
    /\ alone => Cardinality({s \in Sinks : returned[n][s] = 1}) <= 1

\* What is no longer pending was given to somebody, or is about to be, or was
\* claimed by a claim that could not save: nothing else is lost.
ClaimedIsGiven ==
  \A n \in DOMAIN notes : notes[n].status # "pending" =>
    \/ n \in unreturned
    \/ \E s \in Sinks : returned[n][s] > 0 \/ n \in GotBy(s)

\* Another notification was made in the same microsecond.
Shares(n) == \E k \in DOMAIN notes \ {n} : notes[k].id = notes[n].id

\* An acknowledged notification stays acknowledged, unless two sinks tested
\* it at the same time.  One after the other, only a sink that was given it
\* acknowledges it, and a message to the model never does, but that of two of
\* one instant the first is acknowledged for the other.
AckStays ==
  alone => \A n \in ackedOnce :
             /\ notes[n].status = "acked"
             /\ (\E s \in Sinks : returned[n][s] > 0) \/ Shares(n)

\* A notification reaches its sinks once, is not lost, and is done with when
\* it was acknowledged.
NotesDelivered == GivenOnce /\ ClaimedIsGiven /\ AckStays
=============================================================================

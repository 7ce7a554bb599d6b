----------------------------- MODULE Transcript -----------------------------
(***************************************************************************)
(* The transcript of src/transcript: entries in memory, the log wire.jsonl *)
(* and subscribers that are called for every entry.                        *)
(*                                                                         *)
(* append counts the batch up, appends to the list, writes a line, and     *)
(* then iterates over the dict of subscriptions.  The callbacks run in the *)
(* middle of that iteration: they may subscribe, unsubscribe, rebuild, and *)
(* append in turn, so appends nest.  A dict iterates over its slots: a     *)
(* deleted key leaves a hole, a new key takes a slot at the end, and the   *)
(* iteration raises when the number of keys is not what it was.            *)
(***************************************************************************)
EXTENDS Naturals, Sequences, FiniteSets

CONSTANTS
  MaxEntries,   \* bound: appends
  MaxSlots,     \* bound: subscriptions (CPython's smallest dict holds 5)
  MaxHalts      \* bound: the process stops

ASSUME TranscriptAssumption ==
  MaxEntries \in Nat /\ MaxSlots \in Nat /\ MaxHalts \in Nat

VARIABLES
  entries,      \* self._entries
  batch,        \* self._batch
  wireLog,      \* the lines of wire.jsonl
  slots,        \* the slots of self._subscriptions: TRUE while taken
  under,        \* the appends under way, the innermost last
  notified,     \* history: per slot, the entries its callback was given
  appends,      \* appends so far: the identity of the last entry
  halts         \* how often the process stopped

transcriptVars == <<entries, batch, wireLog, slots, under, notified, appends, halts>>

Entry == [batch : Nat \ {0}, nr : 1..MaxEntries]
CutLine == [batch |-> 0, nr |-> 0]

\* An append that has the line to write, that iterates at slot `next` of a
\* dict of `size` keys, or that is in a callback; `owed` are the slots taken
\* when the iteration began.
Appending == [step : {"write", "notify", "called"}, nr : 1..MaxEntries,
              next : 1..(MaxSlots + 1), size : 0..MaxSlots, owed : SUBSET (1..MaxSlots)]

Taken == {i \in DOMAIN slots : slots[i]}
Ahead(n) == {i \in Taken : i >= n}
Top == under[Len(under)]
WithTop(frame) == [under EXCEPT ![Len(under)] = frame]
Outer == SubSeq(under, 1, Len(under) - 1)

\* Where code of the program runs: no append under way, or a callback.
Callable == under # <<>> => Top.step = "called"

TranscriptInit ==
  /\ entries = <<>> /\ batch = 0 /\ wireLog = <<>>
  /\ slots = <<>> /\ under = <<>>
  /\ notified = [i \in 1..MaxSlots |-> <<>>]
  /\ appends = 0 /\ halts = 0

-----------------------------------------------------------------------------
\* append, up to the list.
AppendEntry ==
  /\ Callable /\ appends < MaxEntries
  /\ appends' = appends + 1
  /\ batch' = batch + 1
  /\ entries' = Append(entries, [batch |-> batch + 1, nr |-> appends + 1])
  /\ under' = Append(under, [step |-> "write", nr |-> appends + 1,
                             next |-> 1, size |-> 0, owed |-> {}])
  /\ UNCHANGED <<wireLog, slots, notified, halts>>

\* _append_wire, and the iterator of _notify is made.
WriteLine ==
  /\ under # <<>> /\ Top.step = "write"
  /\ wireLog' = Append(wireLog, entries[Len(entries)])
  /\ under' = WithTop([Top EXCEPT !.step = "notify", !.size = Cardinality(Taken), !.owed = Taken])
  /\ UNCHANGED <<entries, batch, slots, notified, appends, halts>>

\* The next callback is called.
NotifyOne ==
  /\ under # <<>> /\ Top.step = "notify" /\ Top.size = Cardinality(Taken)
  /\ Ahead(Top.next) # {}
  /\ LET i == CHOOSE i \in Ahead(Top.next) : \A j \in Ahead(Top.next) : i <= j IN
       /\ notified' = [notified EXCEPT ![i] = Append(@, Top.nr)]
       /\ under' = WithTop([Top EXCEPT !.step = "called", !.next = i + 1])
  /\ UNCHANGED <<entries, batch, wireLog, slots, appends, halts>>

\* It returns or raises, which is dropped.
CallbackEnds ==
  /\ under # <<>> /\ Top.step = "called"
  /\ under' = WithTop([Top EXCEPT !.step = "notify"])
  /\ UNCHANGED <<entries, batch, wireLog, slots, notified, appends, halts>>

\* Every slot was visited: append returns the entry.
NotifyDone ==
  /\ under # <<>> /\ Top.step = "notify" /\ Top.size = Cardinality(Taken)
  /\ Ahead(Top.next) = {}
  /\ under' = Outer
  /\ UNCHANGED <<entries, batch, wireLog, slots, notified, appends, halts>>

\* The dict has changed its size: RuntimeError leaves append, although the
\* entry is stored; a callback that appended lets it out to its own caller,
\* which drops it.
NotifyRaises ==
  /\ under # <<>> /\ Top.step = "notify" /\ Top.size # Cardinality(Taken)
  /\ under' = Outer
  /\ UNCHANGED <<entries, batch, wireLog, slots, notified, appends, halts>>

-----------------------------------------------------------------------------
\* subscribe with a new key.  A known key keeps its slot: nothing changes
\* but the function.
Subscribe ==
  /\ Callable /\ Len(slots) < MaxSlots
  /\ slots' = Append(slots, TRUE)
  /\ UNCHANGED <<entries, batch, wireLog, under, notified, appends, halts>>

\* unsubscribe: the slot stays empty.
Unsubscribe(i) ==
  /\ Callable /\ i \in Taken
  /\ slots' = [slots EXCEPT ![i] = FALSE]
  /\ UNCHANGED <<entries, batch, wireLog, under, notified, appends, halts>>

\* _load: the lines before the first that cannot be parsed.
Parsed ==
  LET cut == {k \in DOMAIN wireLog : wireLog[k] = CutLine} IN
  IF cut = {} THEN wireLog
  ELSE SubSeq(wireLog, 1, (CHOOSE k \in cut : \A m \in cut : k <= m) - 1)

LargestBatch(b) ==
  LET all == {b} \cup {Parsed[k].batch : k \in DOMAIN Parsed} IN
  CHOOSE n \in all : \A m \in all : m <= n

\* cold_rebuild; without a file it does nothing.
ColdRebuild ==
  /\ Callable /\ wireLog # <<>>
  /\ entries' = Parsed /\ batch' = LargestBatch(batch)
  /\ UNCHANGED <<wireLog, slots, under, notified, appends, halts>>

\* The process stops, perhaps in the middle of writing a line, and another
\* one loads the log.
Reopen ==
  /\ halts < MaxHalts /\ halts' = halts + 1
  /\ \/ UNCHANGED wireLog
     \/ /\ under # <<>> /\ Top.step = "write"
        /\ wireLog' = Append(wireLog, CutLine)
  /\ entries' = Parsed' /\ batch' = LargestBatch(0)'
  /\ slots' = <<>> /\ under' = <<>>
  /\ notified' = [i \in 1..MaxSlots |-> <<>>]
  /\ UNCHANGED appends

TranscriptNext ==
  \/ AppendEntry \/ WriteLine \/ NotifyOne \/ CallbackEnds \/ NotifyDone \/ NotifyRaises
  \/ Subscribe \/ (\E i \in 1..MaxSlots : Unsubscribe(i))
  \/ ColdRebuild \/ Reopen

TranscriptSpec == TranscriptInit /\ [][TranscriptNext]_transcriptVars

-----------------------------------------------------------------------------
\* Types; only the innermost append is not in a callback.
TranscriptTypeOK ==
  /\ entries \in Seq(Entry) /\ batch \in Nat
  /\ wireLog \in Seq(Entry \cup {CutLine})
  /\ slots \in Seq(BOOLEAN) /\ Len(slots) <= MaxSlots
  /\ under \in Seq(Appending)
  /\ \A k \in 1..(Len(under) - 1) : under[k].step = "called"
  /\ notified \in [1..MaxSlots -> Seq(1..MaxEntries)]
  /\ appends \in 0..MaxEntries /\ halts \in 0..MaxHalts

\* Outside of a write the list is what the log says: a rebuild changes
\* nothing, whichever callback asks for it, unless a line was cut
\* (tests/test_transcript.py, test_persistence).
LogIsMemory ==
  LET cut == \E k \in DOMAIN wireLog : wireLog[k] = CutLine IN
  Callable /\ ~ cut => entries = wireLog

\* Batches number the entries upwards without repeating, through nested
\* appends, rebuilds, stops and lines that were cut (latest_batch).
BatchesAscend ==
  /\ \A i, k \in DOMAIN entries : i < k => entries[i].batch < entries[k].batch
  /\ \A i \in DOMAIN entries : entries[i].batch <= batch

\* An append that returns has called every subscription that was there
\* throughout, although callbacks subscribe, unsubscribe and append in the
\* middle of the iteration.
ReturnedMeansNotified ==
  (under # <<>> /\ Top.step = "notify" /\ Top.size = Cardinality(Taken) /\ Ahead(Top.next) = {})
    => \A i \in Top.owed \cap Taken : \E k \in DOMAIN notified[i] : notified[i][k] = Top.nr

\* No subscription is called twice for an entry.
NotifiedOnce ==
  \A i \in 1..MaxSlots : \A k, m \in DOMAIN notified[i] :
    notified[i][k] = notified[i][m] => k = m
\* The transcript is what its log says, numbered upwards, and subscribers hear
\* of each entry once before its append returns, whatever callbacks do.
TranscriptIsTold == LogIsMemory /\ BatchesAscend /\ ReturnedMeansNotified /\ NotifiedOnce
=============================================================================

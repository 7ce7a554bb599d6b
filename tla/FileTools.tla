------------------------------ MODULE FileTools ------------------------------
(***************************************************************************)
(* Calls that read and write one file at the same time: the file tools     *)
(* (src/tools/executor.py) behind the endpoints /v1/fs, the virtual file   *)
(* system with its watcher (src/vfs/filesystem.py), and shell commands     *)
(* (_bash and src/kaos).  No call holds a lock: an edit reads the file,    *)
(* and write_text empties it when it opens it, then fills it.              *)
(*                                                                         *)
(* The text is a sequence of lines, and the string an edit replaces is one *)
(* line.  Files outside the allowed roots are refused before anything.     *)
(***************************************************************************)
EXTENDS Integers, Sequences, SequencesExt, TLC

CONSTANTS
  Callers,      \* requests served at the same time
  MaxText,      \* bound: lines of the file
  MaxCalls,     \* bound: calls
  MaxTick       \* bound: readings of the clock that stamps files

ASSUME FileToolsAssumption == {MaxText, MaxCalls, MaxTick} \subseteq Nat

VARIABLES
  text,         \* the lines of the file
  there,        \* it exists
  mtime,        \* st_mtime
  job,          \* per caller, [at, kind, old, new, content, base]: the call it is in
  answer,       \* per caller, the answer to its last call
  calls,        \* calls so far
  tick,         \* the clock
  snap,         \* the watcher: [there, mtime] of the last poll, and
                \* history: the text and the time then
  fills,        \* history: how often the file was filled or removed
  serial,       \* history: the text after all calls, one after the other
  last,         \* history: the text the last call wrote
  lost,         \* history: a call filled the file that had not read the last text
  both          \* history: two calls had emptied the file, and not filled it

toolVars == <<text, there, mtime, job, answer, calls, tick, snap, fills, serial, last, lost, both>>

Line == {"a", "b"}
Text == BoundedSeq(Line, MaxText)
Kinds == {"edit_file", "vfs edit"}
Idle == [at |-> "idle", kind |-> "", old |-> "", new |-> "", content |-> <<>>, base |-> 0]

ToolsInit ==
  /\ there \in BOOLEAN
  /\ text \in (IF there THEN Text ELSE {<<>>})
  /\ mtime = 0 /\ tick = 0 /\ calls = 0 /\ fills = 0
  /\ job = [c \in Callers |-> Idle] /\ answer = [c \in Callers |-> ""]
  /\ snap = [there |-> FALSE, mtime |-> 0, text |-> <<>>, at |-> 0]
  /\ serial = text /\ last = text /\ lost = FALSE /\ both = FALSE

-----------------------------------------------------------------------------
\* content.count(old_string)
Matches(old) == {i \in DOMAIN text : text[i] = old}

\* What keeps an edit from being made: _edit_file wants exactly one match,
\* VirtualFileSystem.edit takes the first.
Refusal(kind, old) ==
  CASE ~ there -> "missing"
    [] there /\ Matches(old) = {} -> "not found"
    [] there /\ kind = "edit_file" /\ \E i, j \in Matches(old) : i # j -> "ambiguous"
    [] OTHER -> ""

\* content.replace(old_string, new_string, 1)
Replaced(old, new, s) ==
  [i \in DOMAIN s |-> IF s[i] = old /\ (\A j \in 1..(i - 1) : s[j] # old) THEN new ELSE s[i]]

\* The call reads the file, is refused or knows the text it will write.
BeginEdit(c, kind, old, new) ==
  /\ job[c] = Idle /\ calls < MaxCalls /\ calls' = calls + 1
  /\ IF Refusal(kind, old) # ""
     THEN answer' = [answer EXCEPT ![c] = Refusal(kind, old)] /\ UNCHANGED job
     ELSE /\ job' = [job EXCEPT ![c] = [at |-> "read", kind |-> kind, old |-> old,
                 new |-> new, content |-> Replaced(old, new, text), base |-> fills]]
          /\ answer' = [answer EXCEPT ![c] = ""]
  /\ UNCHANGED <<text, there, mtime, tick, snap, fills, serial, last, lost, both>>

\* write_file, vfs write, write_text of kaos; or a command that writes.
BeginWrite(c, kind, content) ==
  /\ job[c] = Idle /\ calls < MaxCalls /\ calls' = calls + 1
  /\ job' = [job EXCEPT ![c] = [at |-> "read", kind |-> kind, old |-> "",
                                new |-> "", content |-> content, base |-> fills]]
  /\ answer' = [answer EXCEPT ![c] = ""]
  /\ UNCHANGED <<text, there, mtime, tick, snap, fills, serial, last, lost, both>>

\* The file is opened for writing, and empty.
Empties(c) ==
  /\ job[c].at = "read"
  /\ job' = [job EXCEPT ![c].at = "emptied"]
  /\ text' = <<>> /\ there' = TRUE /\ mtime' = tick
  /\ both' = (both \/ \E d \in Callers : job[d].at = "emptied")
  /\ UNCHANGED <<answer, calls, tick, snap, fills, serial, last, lost>>

\* The content is written over the beginning of what another put there since.
Fills(c) ==
  LET content == job[c].content IN
  /\ job[c].at = "emptied"
  /\ text' = content \o SubSeq(text, Len(content) + 1, Len(text))
  /\ mtime' = tick /\ fills' = fills + 1
  /\ serial' = IF job[c].kind \in Kinds THEN Replaced(job[c].old, job[c].new, serial) ELSE content
  /\ last' = content
  /\ lost' = (lost \/ (job[c].base # fills))
  /\ job' = [job EXCEPT ![c] = Idle]
  /\ answer' = [answer EXCEPT ![c] = IF @ = "" THEN "done" ELSE @]
  /\ UNCHANGED <<there, calls, tick, snap, both>>

\* subprocess.run kills the shell at the timeout, not what the shell started,
\* which goes on.
TimesOut(c) ==
  /\ job[c].kind = "command" /\ answer[c] = ""
  /\ answer' = [answer EXCEPT ![c] = "timed out"]
  /\ UNCHANGED <<text, there, mtime, job, calls, tick, snap, fills, serial, last, lost, both>>

\* unlink of kaos; no call has the file open.
Unlink ==
  /\ there /\ calls < MaxCalls /\ calls' = calls + 1
  /\ \A c \in Callers : job[c].at # "emptied"
  /\ there' = FALSE /\ text' = <<>> /\ serial' = <<>> /\ last' = <<>>
  /\ fills' = fills + 1
  /\ UNCHANGED <<mtime, job, answer, tick, snap, lost, both>>

-----------------------------------------------------------------------------
\* snapshot, poll: what is new, gone or of another time is told to the
\* callbacks; what one of them raises is logged.
Report ==
  CASE there /\ ~ snap.there -> "created"
    [] ~ there /\ snap.there -> "deleted"
    [] there /\ snap.there /\ mtime # snap.mtime -> "modified"
    [] OTHER -> "nothing"

Poll ==
  /\ snap' = [there |-> there, mtime |-> mtime, text |-> text, at |-> tick]
  /\ UNCHANGED <<text, there, mtime, job, answer, calls, tick, fills, serial, last, lost, both>>

ClockTicks ==
  /\ tick < MaxTick /\ tick' = tick + 1
  /\ UNCHANGED <<text, there, mtime, job, answer, calls, snap, fills, serial, last, lost, both>>

ToolsNext ==
  \/ \E c \in Callers :
       \/ \E kind \in Kinds, old \in Line, new \in Line : old # new /\ BeginEdit(c, kind, old, new)
       \/ \E s \in Text : BeginWrite(c, IF Len(s) = 1 THEN "command" ELSE "write_file", s)
       \/ Empties(c) \/ Fills(c) \/ TimesOut(c)
  \/ Unlink \/ Poll \/ ClockTicks

-----------------------------------------------------------------------------
\* _read_file: the lines keep the newlines at their ends.
Page(offset, limit) == SubSeq(text, offset, IF offset + limit - 1 < Len(text)
                                            THEN offset + limit - 1 ELSE Len(text))

\* "\n".join(parts): a newline between two of them, and none at the end.
Joined(parts) ==
  [i \in 1..(2 * Len(parts) - 1) |-> IF i % 2 = 1 THEN parts[(i + 1) \div 2] ELSE "\n"]

\* read of the virtual file system, of a text split at its newlines; a limit
\* of 0 is no limit.
VfsPage(offset, limit) ==
  Joined(IF limit = 0 THEN SubSeq(text, offset, Len(text)) ELSE Page(offset, limit))

ToolsTypeOK ==
  /\ text \in Text /\ there \in BOOLEAN /\ mtime \in 0..tick /\ calls \in 0..MaxCalls
  /\ \A c \in Callers : job[c].at \in {"idle", "read", "emptied"} /\ job[c].content \in Text
  /\ snap.at \in 0..tick

\* Once no call is in the middle of writing, the file is what the last call
\* wrote, with nothing of another mixed in, unless two had emptied it at the
\* same time; and it holds every edit and every write that was answered, unless
\* a call filled it that had begun before another did.
NoEditIsLost ==
  (\A c \in Callers : job[c].at # "emptied") =>
    /\ ~ both => text = last
    /\ ~ lost => text = serial

\* The watcher misses only what happens within one instant of the file's clock
\* and of its own poll, and reports as modified only what was written since.
MissedOnlyWithinATick ==
  /\ Report = "nothing" /\ text # snap.text => mtime = snap.at
  /\ Report = "modified" => mtime >= snap.at

\* Pages of any size that read_file gives, one after the other, make the whole
\* text.  A page of the virtual file system lacks its last newline: with it put
\* back, the page and the next, or all that follows, are what one page of both
\* is; and a page as long as the text is the text.
PagesTile ==
  /\ \A size \in 1..MaxText :
       FlattenSeq([k \in 1..MaxText |-> Page(1 + (k - 1) * size, size)]) = text
  /\ \A start, size \in 1..MaxText, more \in 0..MaxText :
       start + size <= Len(text) =>
         VfsPage(start, size) \o <<"\n">> \o VfsPage(start + size, more)
           = VfsPage(start, IF more = 0 THEN 0 ELSE size + more)
  /\ \A size \in 1..MaxText : size >= Len(text) => VfsPage(1, size) = VfsPage(1, 0)
=============================================================================

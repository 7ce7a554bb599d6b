------------------------------- MODULE Terminal -------------------------------
(***************************************************************************)
(* PtyProcess (src/shell/pty.py): commands are typed into a shell, and     *)
(* what it prints is read until nothing comes for half a second.           *)
(*                                                                         *)
(* The prompts that would end the reading are compared after their final   *)
(* space was stripped, so none is ever seen, nor taken out of a result.    *)
(* The shell is external: it echoes a line it reads, runs it, and prints   *)
(* its prompt; what is typed while a program runs, the terminal echoes at  *)
(* once.  A command is one line, and what a program prints are whole lines.*)
(***************************************************************************)
EXTENDS Naturals, Sequences, SequencesExt

CONSTANTS
  Texts,        \* what commands say
  MaxCommands,  \* bound: calls of execute
  MaxPrinted    \* bound: lines printed for a command, the echo among them

ASSUME TerminalAssumption ==
  /\ MaxCommands \in Nat /\ MaxPrinted \in Nat
  /\ Texts \cap {"prompt", "line", "not found"} = {}

VARIABLES
  shellRuns,    \* the command it runs, 0 at its prompt, or Closed
  typed,        \* commands typed that the shell has not read
  screen,       \* what was printed and not read: [of, is], whose it is and
                \* what it says: a prompt, a message, some line, or a command
  reading,      \* the command whose execute reads, 0 for none
  output,       \* what it has read
  said,         \* history: per command, what it said
  heard,        \* history: per command, what execute read
  results,      \* history: per command, what execute returned: of the lines
                \* it read those it kept, at their places
  printed,      \* history: everything the shell has printed
  hasty         \* history: an execute returned before the prompt that follows
                \* its command

told == <<said, heard, results>>
terminalVars == <<shellRuns, typed, screen, reading, output, told, printed, hasty>>

Closed == MaxCommands + 1
Commands == 1..MaxCommands
Item(n, what) == [of |-> n, is |-> what]
Executed == Len(said)

Prints(items) == screen' = screen \o items /\ printed' = printed \o items

TerminalInit ==
  /\ shellRuns = Closed /\ typed = <<>> /\ screen = <<>> /\ reading = 0 /\ output = <<>>
  /\ said = <<>> /\ heard = <<>> /\ results = <<>> /\ printed = <<>> /\ hasty = FALSE

-----------------------------------------------------------------------------
\* spawn, and the first prompt.
Spawn ==
  /\ shellRuns = Closed /\ Executed < MaxCommands
  /\ shellRuns' = 0 /\ Prints(<<Item(0, "prompt")>>)
  /\ UNCHANGED <<typed, reading, output, told, hasty>>

\* execute: the command is typed, whatever the shell is doing.
Execute(text) ==
  LET n == Executed + 1 IN
  /\ reading = 0 /\ shellRuns # Closed /\ Executed < MaxCommands
  /\ said' = Append(said, text)
  /\ reading' = n /\ typed' = Append(typed, n)
  /\ output' = <<>>
  /\ Prints(IF shellRuns = 0 THEN <<>> ELSE <<Item(n, text)>>)
  /\ UNCHANGED <<shellRuns, heard, results, hasty>>

\* Mutant of Repeats: lines that mention the command are dropped, the message
\* that it is not found and the prompt it was typed behind among them.
RepeatsAnywhere(text, items, k) == items[k].is \in {text, "not found"}

\* _clean_output drops the lines that are the command, but for one echoed on
\* the line of a prompt that was read with it.
Repeats(text, items, k) ==
  items[k].is = text /\ ~ (k > 1 /\ items[k - 1].is = "prompt")

Cleaned(text, items) ==
  [k \in {k \in DOMAIN items : ~ Repeats(text, items, k)} |-> items[k]]

Has(items, what) == \E i \in DOMAIN items : items[i].is = what

Returns(items) ==
  /\ heard' = Append(heard, items)
  /\ results' = Append(results, Cleaned(said[reading], items))
  /\ reading' = 0 /\ output' = <<>> /\ UNCHANGED said
  /\ hasty' = (hasty \/ Item(reading, "prompt") \notin ToSet(items))

\* read returns what is on the screen; the command with a message "not found"
\* ends execute at once, as does a timeout after it.  (A line or a message may
\* mention the command as well.)
Chunk ==
  /\ reading # 0 /\ screen # <<>> /\ screen' = <<>>
  /\ \/ /\ ~ (Has(output \o screen, "not found") /\ Has(output \o screen, said[reading]))
        /\ output' = output \o screen /\ UNCHANGED <<reading, told, hasty>>
     \/ Returns(output \o screen)
  /\ UNCHANGED <<shellRuns, typed, printed>>

\* read returns nothing: the command may be done, or only be quiet.
Silence ==
  /\ reading # 0 /\ screen = <<>>
  /\ Returns(output)
  /\ UNCHANGED <<shellRuns, typed, screen, printed>>

\* close kills the shell; what it printed is not read any more.
CloseTerminal ==
  /\ reading = 0 /\ shellRuns # Closed /\ shellRuns' = Closed
  /\ typed' = <<>> /\ screen' = <<>> /\ printed' = <<>> /\ hasty' = FALSE
  /\ heard' = [i \in DOMAIN heard |-> <<>>] /\ results' = [i \in DOMAIN heard |-> <<>>]
  /\ UNCHANGED <<reading, output, said>>

-----------------------------------------------------------------------------
ShellReads ==
  /\ shellRuns = 0 /\ typed # <<>>
  /\ shellRuns' = Head(typed) /\ typed' = Tail(typed)
  /\ Prints(<<Item(Head(typed), said[Head(typed)])>>)
  /\ UNCHANGED <<reading, output, told, hasty>>

\* The command prints nothing, lines, which may read as a command, or that it
\* is not found, and ends.
ShellPrints(what) ==
  /\ shellRuns \in Commands
  /\ Len(SelectSeq(printed, LAMBDA i : i.of = shellRuns)) < MaxPrinted
  /\ Prints(<<Item(shellRuns, what)>>)
  /\ UNCHANGED <<shellRuns, typed, reading, output, told, hasty>>

ShellPrompts ==
  /\ shellRuns \in Commands /\ shellRuns' = 0
  /\ Prints(<<Item(shellRuns, "prompt")>>)
  /\ UNCHANGED <<typed, reading, output, told, hasty>>

\* A program that still runs takes what is typed for its input.
ProgramReads ==
  /\ shellRuns \in Commands /\ typed # <<>> /\ typed' = Tail(typed)
  /\ UNCHANGED <<shellRuns, screen, reading, output, told, printed, hasty>>

TerminalNext ==
  \/ Spawn \/ Chunk \/ Silence \/ CloseTerminal \/ ShellReads \/ ShellPrompts \/ ProgramReads
  \/ \E text \in Texts : Execute(text)
  \/ \E what \in Texts \cup {"line", "not found"} : ShellPrints(what)

-----------------------------------------------------------------------------
TerminalTypeOK ==
  /\ shellRuns \in 0..Closed /\ reading \in 0..MaxCommands /\ Len(said) <= MaxCommands
  /\ \A i \in DOMAIN typed : typed[i] \in Commands

\* Nothing the shell printed is lost, doubled or reordered between what
\* successive calls read and what is still to be read; so what a call that
\* returned too early left on the screen is read by a later one.
PrintedIsRead == FlattenSeq(heard) \o output \o screen = printed

\* A call returns what it has read, but for lines that read as its command:
\* the echo, and whatever a program prints that says the same.
ReadIsReturned ==
  \A n \in DOMAIN heard : \A k \in DOMAIN heard[n] :
    heard[n][k].is # said[n] => k \in DOMAIN results[n] /\ results[n][k] = heard[n][k]

\* Only if each call so far returned with the prompt that followed its command
\* is every result that of its own command (with the first prompt before it).
\* No call knows whether it did.
OwnUnlessHasty ==
  ~ hasty => \A n \in DOMAIN results : \A k \in DOMAIN results[n] :
    results[n][k].of \in {n, 0}

TerminalKept == PrintedIsRead /\ ReadIsReturned /\ OwnUnlessHasty
=============================================================================

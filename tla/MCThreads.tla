------------------------------ MODULE MCThreads ------------------------------
(***************************************************************************)
(* Small instances of what runs in threads or against another process: the *)
(* job processor, the background tasks, a wire channel, the clients of MCP *)
(* and language servers, and the terminal.                                 *)
(* They share nothing, so a behaviour exercises one of them, chosen by     *)
(* `subject`, and leaves the others as they were at the start (where no    *)
(* fair step of the job processor is possible).                            *)
(***************************************************************************)
EXTENDS JobProcessor, BackgroundTasks, Wire, McpClient, LspClient, Terminal

CONSTANTS c1, c2

VARIABLE subject

OneCaller == {c1}
TwoCallers == {c1, c2}
OneTaskId == {"t1"}
TwoTaskIds == {"t1", "t2"}
OneSender == {"s1"}
TwoSenders == {"s1", "s2"}

pipeVars == <<wireVars, mcpVars, lspVars, terminalVars>>
ThreadsVars == <<subject, vars, backgroundVars, pipeVars>>

ThreadsInit ==
  /\ subject \in {"jobs", "background", "wire", "mcp", "lsp", "terminal"}
  /\ Init /\ BackgroundInit /\ WireInit /\ McpInit /\ LspInit /\ TerminalInit

ThreadsNext ==
  /\ UNCHANGED subject
  /\ \/ subject = "jobs" /\ Next /\ UNCHANGED <<backgroundVars, pipeVars>>
     \/ subject = "background" /\ BackgroundNext /\ UNCHANGED <<vars, pipeVars>>
     \/ /\ UNCHANGED <<vars, backgroundVars>>
        /\ \/ subject = "wire" /\ WireNext /\ UNCHANGED <<mcpVars, lspVars, terminalVars>>
           \/ subject = "mcp" /\ McpNext /\ UNCHANGED <<wireVars, lspVars, terminalVars>>
           \/ subject = "lsp" /\ LspNext /\ UNCHANGED <<wireVars, mcpVars, terminalVars>>
           \/ subject = "terminal" /\ TerminalNext /\ UNCHANGED <<wireVars, mcpVars, lspVars>>

ThreadsSpec == ThreadsInit /\ [][ThreadsNext]_ThreadsVars

FairThreadsSpec == ThreadsSpec /\ Fairness

\* The type invariants of all subjects.
ThreadsTypeOK ==
  CASE subject = "jobs" -> TypeOK
    [] subject = "background" -> BackgroundTypeOK
    [] subject = "wire" -> WireTypeOK
    [] subject = "mcp" -> McpTypeOK
    [] subject = "lsp" -> LspTypeOK
    [] subject = "terminal" -> TerminalTypeOK

\* What goes through a queue or a pipe arrives in order, once; and a client
\* that takes what comes next for its answer is out of step by exactly what it
\* left behind.  The parts are stated with the wire, the clients of MCP and
\* language servers, and the terminal.
PipesKeepOrder == WireInOrder /\ AnswersLagKnown /\ OutOfStepForGood /\ TerminalKept
=============================================================================

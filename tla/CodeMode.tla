------------------------------ MODULE CodeMode ------------------------------
(***************************************************************************)
(* Running code for a caller (src/codemode): CodeExecutor.execute enters a *)
(* Sandbox, lets the handlers registered for VALIDATE and PRE_EXEC object, *)
(* writes the code to the language's script in the sandbox's directory,    *)
(* starts the interpreter on it, lets the POST_EXEC handlers look at the   *)
(* result and leaves the sandbox.  Executions overlap: the endpoint of     *)
(* src/deployment/inference_server.py runs in a pool of threads and every  *)
(* execution reads the one global PluginRegistry.                          *)
(*                                                                         *)
(* The executor is built in one of four ways (`setting`): with a temporary *)
(* directory of its own per execution ("own", as the endpoint does), the   *)
(* same with cleanup=False ("kept"), with a given work_dir ("directory"),  *)
(* or with one Sandbox object for all executions ("sandbox").  The script  *)
(* has one name per language, and python and python3 share theirs: all     *)
(* executions here write the same name.  A temporary directory is named    *)
(* after the execution that made it.                                       *)
(***************************************************************************)
EXTENDS Naturals, Sequences, Functions

CONSTANTS
  Executions,    \* concurrent calls of execute, positive numbers
  Settings,      \* the ways the executor may be built
  Handlers,      \* plugin handlers
  FirstHandlers, \* the handlers the hooks may have at the start, lists in order of hook
  MaxPluginChanges \* bound: changes of the registry while code runs

ASSUME CodeAssumption ==
  /\ Executions \subseteq Nat \ {0} /\ MaxPluginChanges \in Nat
  /\ Settings \subseteq {"own", "kept", "directory", "sandbox"}
  /\ \A first \in FirstHandlers : first \in Seq(Seq(Handlers)) /\ Len(first) = 3

VARIABLES
  setting,     \* how the executor was built
  handlerLists, \* every list of handlers made so far: iterations hold on to theirs
  hooks,       \* PluginRegistry._hooks: for each hook, which list is current
  pluginChanges, \* changes of the registry so far
  codeRuns,    \* the executions, by number
  sandboxDir,  \* Sandbox._dir of each Sandbox object
  existing,    \* the temporary directories there are
  scripts,     \* whose code the script in each directory holds
  crowded      \* history: whether two executions were inside sandboxes at a time

codeVars == <<setting, handlerLists, hooks, pluginChanges, codeRuns, sandboxDir, existing,
              scripts, crowded>>

Hooks == {"validate", "pre_exec", "post_exec"}
NextHook == [validate |-> "pre_exec", pre_exec |-> "script", post_exec |-> "leave"]

NoScript == 0
WorkDir == 0
Directories == {WorkDir} \cup Executions

\* A run that was not asked for.  `standing` and `asked` are a history: the
\* handlers registered for VALIDATE since it began asking, and those it asked.
Unasked == [at |-> "idle", list |-> 0, position |-> 0, errors |-> FALSE, path |-> 0,
            ran |-> NoScript, standing |-> {}, asked |-> {}]

RunStates == {"idle", "script", "start", "communicate", "leave", "over"} \cup Hooks

RunRecords ==
  [at : RunStates, list : Nat, position : Nat, errors : BOOLEAN, path : Directories,
   ran : Directories, standing : SUBSET Handlers, asked : SUBSET Handlers]

Inside == {e \in Executions : codeRuns[e].at \notin {"idle", "over"}}

SandboxOf(e) == IF setting = "sandbox" THEN 0 ELSE e
TheDir(e) == sandboxDir[SandboxOf(e)]

CodeInit ==
  /\ setting \in Settings
  /\ handlerLists \in FirstHandlers
  /\ hooks = [validate |-> 1, pre_exec |-> 2, post_exec |-> 3]
  /\ pluginChanges = 0
  /\ codeRuns = [e \in Executions |-> Unasked]
  /\ sandboxDir = [s \in Directories |-> WorkDir]
  /\ existing = {}
  /\ scripts = [d \in Directories |-> NoScript]
  /\ crowded = FALSE

\* The run starts on a hook: a `for` over the list that is current now.
Asking(r, hook) == [r EXCEPT !.at = hook, !.list = hooks[hook], !.position = 1]

\* execute, up to the first handler: an unsupported language raises before the
\* sandbox is entered (no step), and __enter__ makes the directory.
BeginExecution(e) ==
  /\ codeRuns[e].at = "idle"
  /\ codeRuns' = [codeRuns EXCEPT ![e] = [Asking(Unasked, "validate") EXCEPT
                                    !.standing = Range(handlerLists[hooks["validate"]])]]
  /\ sandboxDir' = [sandboxDir EXCEPT ![SandboxOf(e)] =
                      IF setting = "directory" THEN WorkDir ELSE e]
  /\ existing' = existing \cup (IF setting = "directory" THEN {} ELSE {e})
  /\ crowded' = (crowded \/ Inside # {})
  /\ UNCHANGED <<setting, handlerLists, hooks, pluginChanges, scripts>>

\* PluginRegistry.run, one handler: it leaves the errors as they are, adds one (or
\* raises, which the registry turns into one), or returns a new context without.
AskHandler(e) ==
  LET r == codeRuns[e] IN
  /\ r.at \in Hooks /\ r.position <= Len(handlerLists[r.list])
  /\ \E bad \in BOOLEAN :
       codeRuns' = [codeRuns EXCEPT ![e] = [r EXCEPT
                  !.position = @ + 1, !.errors = bad,
                  !.asked = @ \cup IF r.at = "validate" THEN {handlerLists[r.list][r.position]}
                                   ELSE {}]]
  /\ UNCHANGED <<setting, handlerLists, hooks, pluginChanges, sandboxDir, existing, scripts, crowded>>

\* The list is at its end: errors of VALIDATE and PRE_EXEC end the execution.
HandlersAsked(e) ==
  LET r == codeRuns[e] IN
  /\ r.at \in Hooks /\ r.position > Len(handlerLists[r.list])
  /\ codeRuns' = [codeRuns EXCEPT ![e] =
       IF r.at # "post_exec" /\ r.errors THEN [r EXCEPT !.at = "leave"]
       ELSE IF r.at = "validate" THEN Asking(r, "pre_exec")
       ELSE [r EXCEPT !.at = NextHook[r.at]]]
  /\ UNCHANGED <<setting, handlerLists, hooks, pluginChanges, sandboxDir, existing, scripts, crowded>>

\* Sandbox.write_file: into the directory the Sandbox has now, made again if it
\* is gone.  A write that fails raises through the `with`.
WriteScript(e) ==
  LET d == TheDir(e) IN
  /\ codeRuns[e].at = "script"
  /\ \/ /\ codeRuns' = [codeRuns EXCEPT ![e].at = "start", ![e].path = d]
        /\ scripts' = [scripts EXCEPT ![d] = e]
     \/ codeRuns' = [codeRuns EXCEPT ![e].at = "leave"] /\ UNCHANGED scripts
  /\ existing' = existing \cup ({d} \ {WorkDir})
  /\ UNCHANGED <<setting, handlerLists, hooks, pluginChanges, sandboxDir, crowded>>

\* Sandbox.execute: Popen raises when the directory to work in is gone, which is
\* reported as an error; otherwise the interpreter runs whatever is at the path.
StartScript(e) ==
  LET r == codeRuns[e] IN
  /\ r.at = "start"
  /\ codeRuns' = [codeRuns EXCEPT ![e] =
       IF TheDir(e) \in existing \cup {WorkDir}
       THEN [r EXCEPT !.at = "communicate", !.ran = scripts[r.path]]
       ELSE [r EXCEPT !.at = "leave", !.errors = TRUE]]
  /\ UNCHANGED <<setting, handlerLists, hooks, pluginChanges, sandboxDir, existing, scripts, crowded>>

\* communicate returns, in time or after the kill.
EndScript(e) ==
  /\ codeRuns[e].at = "communicate"
  /\ codeRuns' = [codeRuns EXCEPT ![e] = Asking(@, "post_exec")]
  /\ UNCHANGED <<setting, handlerLists, hooks, pluginChanges, sandboxDir, existing, scripts, crowded>>

\* Sandbox.__exit__, on every way out of the `with`: a temporary directory is
\* removed, the one the Sandbox has now.
LeaveSandbox(e) ==
  LET gone == IF setting \in {"own", "sandbox"} THEN {TheDir(e)} ELSE {} IN
  /\ codeRuns[e].at = "leave"
  /\ codeRuns' = [codeRuns EXCEPT ![e].at = "over"]
  /\ existing' = existing \ gone
  /\ scripts' = [d \in Directories |-> IF d \in gone THEN NoScript ELSE scripts[d]]
  /\ UNCHANGED <<setting, handlerLists, hooks, pluginChanges, sandboxDir, crowded>>

\* A handler that does not stand any longer need not be asked.
Withdraw(gone) == [e \in Executions |-> [codeRuns[e] EXCEPT !.standing = @ \ gone]]

\* PluginRegistry.register appends to the list that runs may be walking through.
RegisterHandler(hook, h) ==
  /\ handlerLists' = [handlerLists EXCEPT ![hooks[hook]] = Append(@, h)]
  /\ UNCHANGED <<hooks, codeRuns>>

\* [x for x in s if x is not h]: the one sequence of what stays, in order.
WithoutHandler(s, h) ==
  {kept \in UNION {[1 .. n -> Handlers] : n \in 0 .. Len(s)} :
     \E place \in [DOMAIN kept -> DOMAIN s] :
       /\ Range(place) = {i \in DOMAIN s : s[i] # h}
       /\ \A i, j \in DOMAIN kept : i < j => place[i] < place[j]
       /\ \A i \in DOMAIN kept : kept[i] = s[place[i]]}

\* Mutant of UnregisterHandler: list.remove, in the list that is walked.
UnregisterInPlace(hook, h) ==
  /\ handlerLists' = [handlerLists EXCEPT ![hooks[hook]] = SelectSeq(@, LAMBDA x : x # h)]
  /\ UNCHANGED hooks
  /\ codeRuns' = IF hook = "validate" THEN Withdraw({h}) ELSE codeRuns

\* PluginRegistry.unregister makes a new list; walks go on in the old one.
UnregisterHandler(hook, h) ==
  /\ \E kept \in WithoutHandler(handlerLists[hooks[hook]], h) : handlerLists' = Append(handlerLists, kept)
  /\ hooks' = [hooks EXCEPT ![hook] = Len(handlerLists) + 1]
  /\ codeRuns' = IF hook = "validate" THEN Withdraw({h}) ELSE codeRuns

\* PluginRegistry.clear empties the lists in place.
ClearHandlers ==
  /\ handlerLists' = [k \in DOMAIN handlerLists |->
                        IF \E hook \in Hooks : hooks[hook] = k THEN <<>> ELSE handlerLists[k]]
  /\ UNCHANGED hooks
  /\ codeRuns' = Withdraw(Handlers)

ChangePlugins ==
  /\ pluginChanges < MaxPluginChanges
  /\ pluginChanges' = pluginChanges + 1
  /\ \/ \E hook \in Hooks, h \in Handlers : RegisterHandler(hook, h) \/ UnregisterHandler(hook, h)
     \/ ClearHandlers
  /\ UNCHANGED <<setting, sandboxDir, existing, scripts, crowded>>

CodeNext ==
  \/ \E e \in Executions :
       \/ BeginExecution(e) \/ AskHandler(e) \/ HandlersAsked(e) \/ WriteScript(e)
       \/ StartScript(e) \/ EndScript(e) \/ LeaveSandbox(e)
  \/ ChangePlugins

CodeSpec == CodeInit /\ [][CodeNext]_codeVars

-----------------------------------------------------------------------------
\* The type invariant.
CodeTypeOK ==
  /\ setting \in Settings /\ pluginChanges \in 0 .. MaxPluginChanges /\ crowded \in BOOLEAN
  /\ handlerLists \in Seq(Seq(Handlers)) /\ hooks \in [Hooks -> 1 .. Len(handlerLists)]
  /\ codeRuns \in [Executions -> RunRecords]
  /\ \A e \in Executions : codeRuns[e].at \in Hooks => codeRuns[e].list \in 1 .. Len(handlerLists)
  /\ sandboxDir \in [Directories -> Directories] /\ existing \subseteq Executions
  /\ scripts \in [Directories -> Directories]

\* Code is run only after every VALIDATE handler that stands was asked, however
\* the registry was changed meanwhile, and not while an objection stands.
AskedBeforeRun ==
  \A e \in Executions : codeRuns[e].ran # NoScript =>
    /\ codeRuns[e].standing \subseteq codeRuns[e].asked
    /\ codeRuns[e].at = "communicate" => ~codeRuns[e].errors

\* A caller gets the result of its own code, unless executions that share a
\* directory or a Sandbox overlapped.
OwnCodeRuns ==
  \A e \in Executions :
    codeRuns[e].ran \in {NoScript, e} \/ (crowded /\ setting \in {"directory", "sandbox"})

\* On whatever way it ends, an execution leaves no temporary directory behind and
\* takes no other's: those there are belong to executions inside.  Only one
\* Sandbox object for executions that overlap may leave some, or lose some.
DirectoriesGiven ==
  CASE setting = "own" -> existing = Inside
    [] setting = "kept" -> existing = {e \in Executions : codeRuns[e].at # "idle"}
    [] setting = "directory" -> existing = {}
    [] setting = "sandbox" -> existing = Inside \/ crowded

\* What runs in code mode is validated, is the caller's own, and is cleaned up.
CodeRunsSound == AskedBeforeRun /\ OwnCodeRuns /\ DirectoriesGiven
=============================================================================

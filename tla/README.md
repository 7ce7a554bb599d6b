# EDSPiKE in TLA+

TLA+ models of the stateful parts of this repository, TLC configurations that
check them on small instances, and theorems that TLAPS proves for every
instance. Paths are relative to the repository (`src/session/store.py`).
`PROJECT.json` holds the same information in a form a program can read: which
definition models which lines, which run checks which property, a mutant of
the model that each property detects, the hazards of the code and the findings.

Run a model with `tlc -config <run>.cfg <module>`, check a proof with
`tlapm <module>.tla`.

## 1. The system

EDSPiKE is a coding agent around a language model: a FastAPI server, an agent
loop, and some sixty supporting packages, each a small class with its state in
memory, in a JSON file or in SQLite. FastAPI serves the `def` endpoints from a
pool of threads, so an object that two requests can reach is used concurrently;
most classes have no lock, some lock each method, and the session store locks
each *statement* of a method. Nothing is written atomically: files are
overwritten in place.

### 1.1 Components with state worth modelling

| component | state | operations | interacts with | what is hard |
|---|---|---|---|---|
| Session store `session/store.py` | tables `sessions`, `session_events` (SQLite), one lock | create, append, update status, delete, read, stream | API threads, session runner | calls take the lock several times; crash between row and event |
| Event stream `session/store.py`, `deployment/inference_server.py` | a cursor at each client | `GET /events?after_id=` | the store | events are stamped before they are inserted; deleted cursors |
| Session runner, agent loop, planner `session/runner.py`, `agent/` | plan, current step, tokens, history | create plan, run step, revise, finish | store (status), model, API interrupts | the row changes while the run goes on; plans of another length |
| Job processor `jobs/processor.py` | jobs, queue, workers, one lock | enqueue, cancel, shutdown, worker loop | handlers | start of workers is decided outside the lock |
| Approval sessions `tools/permissions.py` | pending calls, `approve_all`, finished | decide, next turn | API threads, model, tools | no lock; slow and failing model between two changes |
| Continuous learning `continuous_learning/` | feedback table | record, count, export, train, mark | a training process | hours between reading and marking; several trainers |
| MiniDB `minidb/` | documents, inverted index, snapshot and log files | set, delete, search, compact, clear, load | - | crash between and inside writes; stale index |
| Goal mode `goal/` | goal, limits, clock, file | create, pause, resume, block, cancel, complete, count, load | - | restart of an active goal; units of the clock |
| Transcript `transcript/` | entries, log file, batch and step, subscribers | append, subscribe, rebuild, load | callbacks of front ends | callbacks that append; cut lines of the log |
| Directory snapshots `snapshot/` | catalogue, its file, a directory each | create, delete, restore, load | the working tree | stop or error between a directory and the catalogue |
| Mutation tracker `mutation/` | contents seen, records | snapshot, detect, undo, clear | programs that write files | undo changes what the next detection sees |
| Background tasks `background/` | registry, a thread and a process each | start, kill, reconcile, clear | shells | the thread writes the task without the lock |
| Wire `wire/` | two queues, a flag | send, receive, shut down | agent threads, a front end | flag and queue change apart |
| MCP client `mcp/client.py` | a process, pipes, the tools | connect, list, call, close | a server process | answers are not matched to requests; timeouts |
| Notifications `notifications/` | list, file | notify, claim, acknowledge, build a message | several sinks | one status for all sinks; no lock |
| Checkpoints `checkpoint/` | stored contexts, step | save, revert, revert to step, clear | the agent | identifiers outlive checkpoints |
| Tool output store `output/` | all outputs, positions by session | record, read, clear a session | tools | positions after a clear |
| Call deduplication `tools/dedup.py` | history of a bounded length, counts | check, record, new step, reset | the agent | levels, eviction and failures together |
| Flow runner `flow/` | the graph, statuses | run, repeat until completed | handlers | termination; statuses of an earlier iteration |
| Projector `projector/` | - (a pipeline over a conversation) | merge, dedupe, repair, drop | before each call of a model | steps undo what earlier ones ensured; steps that raise |
| Session forks, session tree `session/fork.py`, `session/tree.py` | copied transcripts, a tree in memory | fork, continue, delete, navigate | the transcript store | the copy keeps the batches of the original; names made of the clock |
| JSON records `session/state.py`, `workboard/`, `share/`, `memory/`, `repository/cache.py` | an object loaded once, a file written whole | change, save, expire, trim | other processes | old copies overwrite newer files; cut files; identifiers that are instants |
| Key-value store `database/store.py` | a connection per thread | set, get, delete, close | other processes | a statement that raises leaves its transaction open |
| Migrations `database/orm.py` | tables and versions | migrate, insert, select | other processes | stop or failure between two statements |
| File tools, virtual file system, watcher `tools/executor.py`, `vfs/`, `kaos/` | the files | read, write, edit, run, poll | concurrent requests | read-then-write without a lock; a file is emptied before it is filled |
| Patches `patch/` | a text and an offset | apply, reverse | texts that changed since | hunks that fit at two places, or at none |
| ReAct loop `tools/react.py` | messages, turns, calls | generate, execute, answer | model, tools | the order of results; raising tools and model; the last turn |
| Multi-agent `agents/` | a pool of threads, answers | ask, collect, judge | the lock of the model | the order in which agents end; agents that fail |
| Generate endpoints `deployment/inference_server.py`, `events.py`, `deployment/engine.py`, `sdk/client.py` | a request, a stream of events | route, stream, answer, disconnect | all that generates | which part answers under which key; streams that break off |
| LSP client `lsp/` | a process, pipes | start, notify, request, shut down | a server process | the next message is taken for the answer |
| Interactive shell `shell/pty.py` | a terminal | spawn, execute, read, close | a shell | the end of a command is guessed from silence |
| Approval runtime `approval_runtime/` | requests by instant, grants | request, decide, clear | agent loop | two requests of one instant |
| Policy engine `policy/` | policies, checks | add, evaluate, clear | agent loop | ties and order of priorities |
| Pipelines `lobster/` | position, output | register, run, ask, deny | steps, whoever approves | what a denial or a failure leaves |
| CodeMode `codemode/` | directories, scripts, handlers | execute, register, unregister, clear | concurrent requests | one sandbox or directory for several executions; a registry that changes while it is walked |
| Modes, injections, side questions, retry, state reconciler, doom loop, hooks | counters, tables | switch, throttle, repeat, compare | agent loop | (not modelled, see 6) |

The remaining packages (providers, parsing, rendering, HTTP clients, command
lines, numerical code, registries that are written by single assignments) keep
no state a property could be about; `PROJECT.json` lists each with its reason.

### 1.2 What makes each component correct

- *Session store*: a message that was acknowledged stays; messages stay in
  order and are never doubled; a deleted session stays deleted, with its
  events; each call is reported once; the log does not contradict the row.
- *Event stream*: a client that resumes is given each event once, in order, and
  in the end all of them.
- *Agent run*: it ends; "finished" means that the plan is done; work is not
  repeated; an interrupt holds.
- *Job processor*: each job is taken once, in order, and in the end; outcomes
  and cancellations are final.
- *Approvals*: nothing runs that no one was shown or allowed; an approved call
  runs once; a rejected call does not run; a finished session is finished.
- *Continuous learning*: what is marked was learned; the oldest come first; the
  backlog shrinks.
- *MiniDB*: it is a map that outlives the process, and its search finds every
  word that the index holds as it is searched for.
- *Goal mode*: what a call returned is what a restart finds; the clock counts
  active time only.
- *Transcript*: memory and log agree; batches ascend over restarts; a
  subscriber is told of an entry once, before `append` returns.
- *Directory snapshots*: what is listed can be restored; a snapshot survives
  restarts, a deleted one does not come back.
- *Mutation tracker*: the records of a path follow each other; an undo restores
  what the record replaced.
- *Background tasks*: a status comes after its output; only ended tasks are
  forgotten.
- *Wire*: the order of a sender is kept and nothing is lost but behind a
  shutdown.
- *MCP client*: an answer belongs to the request it is returned for, or lags
  by a bounded number.
- *Notifications*: each is given once, none is lost, an acknowledgement stays.
- *Checkpoints*: identifiers are distinct, and going back never changes branch.
- *Tool outputs*: a session is given its own.
- *Deduplication*: no needless second run in a step, a bound over the turn.
- *Flow runner*: it ends where the graph has no cycle, and repeats only what
  has not completed.
- *Projector*: nothing a user said is lost, and the result needs no second
  repair.
- *ReAct loop, agents, endpoints*: each call of a response has one result, in
  order; every agent is heard by the judge; a stream that ends with `finish`
  is whole; tools run as the request asked.
- *LSP client, terminal*: what is given to a call was meant for it; nothing
  that was printed is lost or read twice.
- *JSON records, key-value store, migrations*: what a holder was told is what
  the file says, as long as nobody else wrote it; a reader sees the present; a
  migration is applied once and whole.
- *Forks*: a fork is a prefix of its original and what was appended to it.
- *File tools, patches*: an edit that was answered is in the file; a patch
  makes of its text what it was made from.
- *Approval runtime, policies*: what holds is what was approved, and the
  highest priority decides.
- *Pipelines, CodeMode*: a gate or an objection is passed by nobody; a caller
  gets the output of its own code; nothing is left behind.

## 2. Modules

| module | models | state and actions |
|---|---|---|
| `SessionStore` | `session/store.py` | One action per locked block. `sessions`, `events` are the tables; `local[t]` is the frame of the thread between two blocks of one call (`update`, `stamp`, `emit`). `CreateSession`, `AppendRead`, `AppendWrite`, `UpdateStatus`, `StampEvent`, `EmitEvent`, `DeleteSession`, `Crash`. |
| `SessionStream` | polling clients | Composes the store with clients: `Poll` is one request and its answer, `cursor` what the client sends, `given` what it has been given. |
| `AgentRun` | runner, loop, planner | `CreatePlan`, `RunStep`, `Revise`/`KeepPlan`, `LeaveLoop`, `Finish`/`Fail` against `Interrupt`/`Delete` of the API. `prompted` is chosen at the start: the model keeps to what the prompts ask for, or returns any plan. |
| `JobProcessor` | `jobs/processor.py` | Callers and threads. `_maybe_process` runs without the lock, so each element it looks at is a step (`CountOne`), and the dictionary may grow under its iterator (`CountRaises`). |
| `Approvals` | `tools/permissions.py` | Request threads on one session: `Send`, `DecideAll`/`DecideOne`/..., `Execute` (one call), `Prompt`, then `Answer`, `AskApproval`, `RunUnasked` or `GenerateFails`. `waits` is chosen at the start: the client sends one request at a time, or several. |
| `ContinuousTraining` | `continuous_learning/`, `training/trainer.py` | One action per transaction of a trainer: `CountUntrained`, `Export`, `Train`/`TrainFails`, `FetchIds`, `Mark`, and `Kill` anywhere; `Record`, `RecordBatch` by the API. |
| `DocumentMap` | what MiniDB promises | A map of documents; every operation but `clear` takes effect in one step, a delete that raised in a later one or never. |
| `MiniDB` | `minidb/` | Memory first, then one action per write (`AppendWal`, `SaveSnapshot`, `Truncate`), and `Restart` with what a crash leaves on disk (`DiskAfterCrash`). `Loaded` is what `_load` reads. `WordsOf` is what the index finds in the text that `json.dumps` writes; `SetRaises` and `DeleteRaises` are calls that `json.dumps` breaks off. |
| `GoalMode` | `goal/` | Each operation changes memory and ends in `Save`: it writes the file, or the process stops before or in the middle of the write. `Load` normalises; `Tick` is the clock. |
| `Transcript` | `transcript/` | `under` has a frame for each call of `append` in progress, since a callback may append: `AppendEntry`, `WriteLine`, `NotifyOne`, `CallbackEnds`, `NotifyRaises`, `Subscribe`, `Unsubscribe`; `ColdRebuild` and `Reopen` read the log. |
| `Snapshots` | `snapshot/manager.py` | One file or directory at a time: `CopyFile`, `EnterCatalog`, `SaveCreated`, `RemoveFile`, `RemoveDirectory`, `SaveDeleted`; `Raises` and `Reload` between any two. |
| `MutationTracker` | `mutation/tracker.py` | `files` on disk against `seen` and `records`; `Snapshot`, `DetectChanges`, `UndoLast`, `ClearHistory`, and `Write` by other programs. |
| `BackgroundTasks` | `background/` | The registry under its lock, and the thread of each task statement by statement. |
| `Wire` | `wire/` | One channel: a send tests the flag in one step and puts in the next, as a shutdown sets it and then puts. |
| `McpClient` | `mcp/client.py` | Requests by number in the server's input, answers in the pipe and in the reader's buffer, which `select` does not see; timeouts, the death of the server. |
| `Notifications` | `notifications/` | A claim is a loop without a lock: `BeginClaim`, `Test`, `Take`, `EndClaim` or `ClaimRaises`; `Notify`, `Ack`, `BeginMessage`, `AckInMessage`, which know a notification by its microsecond (`FoundBy`). |
| `Checkpoints` | `checkpoint/` | `saved`, `stepNo`; the context is the number of its save, `lines` what each save came from. `Save`, `Revert`, `RevertToStep`, `ClearCheckpoints`. |
| `OutputStore` | `output/store.py` | `outputs`, `positions`; `RecordOutput`, `ClearSession`; `SessionOutputs` is the read. |
| `Repetition` | `tools/dedup.py` | `recent` (the deque), `counts`; `Check`, then `Record` or `RunFails`; `NewStep`, `Reset`. |
| `FlowRunner` | `flow/` | The graph is drawn by `AddEdge`; `RunFlow` or `Iterate`, `ExecuteNode` with any outcome, `RunReturns`, `LoopGivesUp`. |
| `Projector` | `projector/` | A conversation is made by `Say`. Each step is a loop over the turns: `Merge`, `Dedupe`, `Repair`, `DropOrphan` look at one turn, `Pop` drops a leading one; `TakeResult` ends a step, `StepRaises` skips it with what it did so far. |
| `ReAct` | `tools/react.py` | `Generate` adds a response with its calls, `ExecuteNext` runs one call (which may fail), `EndTurn` adds the results; `Answer`, `GiveUp`, `GenerateRaises`. |
| `MultiAgent` | `agents/` | `worker[a]` is where an agent is on the pool: `CallModel`, `Lock`, `ModelReturns`, `Collect` in the order in which they end; `SortAnswers`, `CallJudge`, `JudgeReplies`/`JudgeRaises`. |
| `GenerateApi` | generate endpoints, events, SDK client | Composes `ReAct` and `MultiAgent` with one request: `Route` and `RouteStream` choose the part, `PartStep` is a step of it, `Deliver` and `Yield` give the answer, `Disconnect` breaks a stream off. |
| `Records` | five classes with a JSON file | `keeper` says which class; `held[h]` is the object of a process, `file` what is on disk. `Change` is any call, `EndWrite` fills the file that the call emptied, `Leave` ends a process anywhere. |
| `Migrations` | `database/orm.py` | A migration statement by statement: `LookUp`, `Statement`/`StatementFails`, `RecordVersion`, `Crash`; `Insert` and `Selected` convert values by the schema. |
| `KeyValueStore` | `database/store.py` | Commits are counted; `readsAt[t]` is the commit a thread's open transaction sees. `WriteValue`, `WriteRaises`, `Read`, `Close`, and another process. |
| `Branches` | `session/fork.py`, `session/tree.py` | `Fork` copies lines up to a turn, `Continue` appends through a transcript store; the tree is parents, children and a position. |
| `FileTools` | `tools/executor.py`, `vfs/`, `kaos/` | Each writing call reads (`BeginEdit`, or nothing: `BeginWrite`), `Empties`, `Fills`; `TimesOut` kills a command; `Poll` is the watcher. `Page` and `VfsPage` are the reads. |
| `Patching` | `patch/` | `Place` is where a hunk is put, `ApplyHunk` one round of the loop. |
| `LspClient` | `lsp/` | Ids in two pipes: `Say` writes, `TakeNext` takes the next message for the answer; `Reply`, `Remark`, `Perish` are the server. |
| `Terminal` | `shell/pty.py` | `Execute` types, `Chunk` reads what is on the screen, `Silence` ends the call, `Cleaned` is what it returns of what it read; `ShellReads`, `ShellPrints`, `ShellPrompts`, `ProgramReads` are the shell and its program. |
| `ApprovalRuntime` | `approval_runtime/` | `asked` are the request objects, `table` leads from an instant to one of them. `RequestApproval`, `Resolve`, `ClearAsked`. |
| `PolicyEngine` | `policy/` | `AddPolicy` inserts by priority, `Evaluate` is the decision. |
| `Pipelines` | `lobster/` | `current` is the output, as the positions of the steps that made it; `PassOver`, `Deny`, `RunStep`, `EndPipeline`. |
| `CodeMode` | `codemode/` | An execution is a record with its place in `execute`; `AskHandler` is one round of the loop over a list that others may change; `WriteScript`, `StartScript`, `EndScript`, `LeaveSandbox`. |
| `SessionStoreProofs` | - | Theorems about `SessionStore` and `SessionStream`. |
| `ThreadsProofs`, `FilesProofs`, `SteeringProofs`, `GenerationProofs` | - | Theorems about the components that `MCThreads`, `MCFiles`, `MCSteering` and `MCGeneration` unite, and about the united modules. Those about `KeyValueStore` are few and at its end. |
| `ContentProofs` | - | On top of `FilesProofs`: what forks, tree, memories, pages and patches hold. |
| `MC*` | - | The constants of the runs. |

Components that share nothing are checked together where their instances are
small. `MCFiles` unites the document store, goal, transcript, directory
snapshots, mutation tracker, records, migrations, key-value store, forks, file
tools and patches; `MCThreads` the job processor, background tasks, wire, MCP
client, LSP client and terminal; `MCSteering` approvals, approval runtime,
policies, deduplication, flow runner, pipelines, code mode, checkpoints, output
store, projector and notifications; `MCGeneration` the agent run, the generate
endpoints, the agents on fewer threads than there are agents, and retraining.
Each EXTENDS its components, whose names are distinct, and adds a variable
`subject`, chosen in the initial state, that says which of them the behaviour
exercises; the others stay as they were. Every behaviour of a component is one
of the combined module with that `subject`, and conversely, so a combined run
checks what a run of each would, and a property of one component holds at the
start for the other subjects.

A component that is one of several in a run states one property, a conjunction
of named parts, at the end of its module; the parts carry the comments that say
what they mean:

| property | parts |
|---|---|
| `LogFitsRow` | `LogDebtBounded`, `CreatedFirst`, `StatusMatchesLog` |
| `TasksToldInOrder` | `StatusComesLast`, `ClearedHadEnded` |
| `WireInOrder` | `SenderInOrder`, `StrandedBounded` |
| `AnswersLagKnown` | `AnswersInOrder`, `LagBounded`, `NeverInStepAgain` |
| `PipesKeepOrder` | `WireInOrder`, `AnswersLagKnown`, `OutOfStepForGood`, `TerminalKept` (= `PrintedIsRead`, `ReadIsReturned`, `OwnUnlessHasty`) |
| `HistoriesHold` | `TranscriptIsTold`, `CatalogMeansDirectories`, `StoriesCanBeUndone` (= `RecordsChain`, `UndoneIsFirst`) |
| `RecordsHold` | `ObjectsHold` (= `OneObject`, `CutLosesAll`, `NoAccessByOldCopies`), `MigrationsSound` (= `MigratedOnce`, `BrokenStaysBroken`, `SelectedAsGiven`), `StoreSound` (= `ReadsArePresent`, `StuckBehind`), `NoEditIsLost`, `MissedOnlyWithinATick` |
| `ContentsHold` | `BranchesHold` (= `ContinuedForkLosesItsTail`, `ForkIsAPrefix`, `TreeIsATree`), `TrimKeepsTheBest`, `PagesTile`, `PatchesApply` (= `PatchIsExact`, `NothingFails`, `DriftIsFollowed`) |
| `AnswersHold` | `ReActSound` (= `ResultsFollowCalls`, `TurnsAreCounted`), `MultiSound` (= `EveryAgentIsHeard`, `FallbackIsFirstByName`), `ApiSound` (= `StreamsAreWhole`, `ToolsRunAsAsked`, `StreamsReachParts`) |
| `GatesSound` | `RuntimeSound` (= `GrantsHold`, `PendingCanBeAnswered`), `HighestDecides` |
| `RunsSound` | `FlowRunsSound`, `PipelinesSound` (= `StopsWhereItMust`, `OutputIsOfSteps`) |
| `CodeRunsSound` | `AskedBeforeRun`, `OwnCodeRuns`, `DirectoriesGiven` |
| `AnswersAreDurable` | `ReadsAreDurable`, `SearchFindsAll` |
| `GoalOutlivesStops` | `ToldIsKept`, `ClockNeverAhead`, `ClockRunsWhileActive` |
| `TranscriptIsTold` | `LogIsMemory`, `BatchesAscend`, `ReturnedMeansNotified`, `NotifiedOnce` |
| `CatalogMeansDirectories` | `ListedIsWhole`, `SnapshotsSurvive`, `GoneStaysGone`, `StrayDirectoriesBounded` |
| `StoriesCanBeUndone` | `RecordsChain`, `UndoneIsFirst` |
| `DecisionsHold` | `ShownOrAllApproved`, `ExecutionsBounded`, `RejectedStaysRejected`, `DecisionMeetsItsCalls`, `NothingAfterFinish` |
| `RepetitionGuarded` | `NoNeedlessRerun`, `RunsBounded` |
| `FlowRunsSound` | `AcyclicRunsEnd`, `StatusesAreFresh`, `AnotherIterationIsNeeded` |
| `CheckpointsSound` | `StoredIdsDistinct`, `OneTimeline`, `RestoredIsOwn` |
| `ProjectionSound` | `UserTextKept`, `ResultsFollowCalls`, `UsersAlternate`, `ProjectedOnce` |
| `NotesDelivered` | `GivenOnce`, `ClaimedIsGiven`, `AckStays` |
| `MarksAreEarned` | `MarkedWereLearned`, `MarksOldestFirst` |

In every module the operators marked *Mutant of* are not part of the model:
each is a plausible bug in one definition, and a property of the project is
violated when it takes that definition's place.

## 3. Runs

Every cfg switches TLC's deadlock check off because the models stop at their
bounds, and where the programs themselves may rest (no request to serve).

| run | module | result | what it shows |
|---|---|---|---|
| `session_serial` | `SessionStream` | pass | One API thread, a polling client and a crash at any point. Acknowledged messages are stored, the log lags the row by at most the call in flight and one event per crash, a stream begins with its creation and ends with the status of the row, deleted sessions keep no events, a client that has caught up skipped nothing. |
| `session_overlap` | `SessionStream` | pass | Two threads, every interleaving of the locked blocks: messages stay ordered and single, a call is reported once, deleted sessions stay deleted, a client is given nothing twice. |
| `session_lost` | `SessionStream` | violation | Two overlapping appends: the second writes back a list without the message of the first, which was acknowledged and logged. |
| `threads` | `MCThreads` | pass | Two callers, up to three workers: every job is taken once and in order, outcomes are final, no wake-up is lost although the decision to start a worker is made without the lock and may raise; with fairness every job is taken. Background tasks: an outcome comes last, and only ended tasks are cleared. Wire: order, and at most one message of a sender behind a shutdown. MCP client: answers come in order, lag by no more than the calls that gave up, and a client that fell behind never gets back in step. LSP client: from the first message the server sends of its own no call is given its own answer. Terminal: what is printed is read once and in order, a result lacks nothing of what was read but lines that read as its command, and each result is that of its command unless a call returned before the prompt. |
| `jobs_cancel` | `MCThreads` | violation | A cancelled job stays in the queue, is taken, run and completed. |
| `steering` | `MCSteering` | pass | Approvals: one or two concurrent requests, a model that may raise: nothing runs unseen, executions are bounded by failures and overlaps; with one request at a time rejected calls do not run, decisions meet the calls that were shown, a finished session runs nothing. Deduplication: eleven runs of a call in a turn unless a level was passed unseen. Flow runner: an acyclic flow ends, statuses are those of the iteration. Checkpoints: distinct identifiers, one timeline. Output store: own outputs until a clear moves positions. Projector: user text is kept, results follow calls, a second pass changes nothing, each with its exact exceptions. Notifications: given once, not lost but by a failed save, acknowledgements stay. Approval runtime: grants are what was approved since the last clear, and only a request hidden by another of its instant cannot be answered. Policies: the highest priority decides, first come first. Pipelines: a denial or a failure ends them, and the output is of the steps that are reported. Code mode: no handler that stands is passed over, a caller runs its own code unless it shares a directory or a sandbox with another, and no directory is left. |
| `agent` | `MCGeneration` | pass | Plans, failures and revisions in every order against interrupts and deletes: the run ends, and with a model that keeps to its prompts "finished" means done and nothing is done twice. Every request to the generate endpoints, streamed or not: results follow calls, all agents are heard, streams are whole or have no `finish`, tools run as asked, and every request ends. Two trainers that share records: a run marks what it trained on, oldest first, and of other records no more than the other run marked of its own; the backlog shrinks, with trainers killed anywhere. |
| `agent_interrupt` | `AgentRun` | violation | An interrupted session becomes finished when its run returns. |
| `client_answer` | `GenerateApi` | violation | A request of the SDK client is answered under another key than the one it reads. |
| `training_as_built` | `MCGeneration` | violation | With the options the parser of `training/trainer.py` knows, no training run succeeds and the backlog never shrinks. |
| `files` | `MCFiles` | pass | Stops between any two writes: MiniDB implements `DocumentMap`, what reads return is what the next start loads unless the call raised, and searches find every word that the index holds as it is searched for. For the goal, stops in the middle of a write too: what was told is kept, the clock never runs ahead and runs exactly while the goal is active. Transcript: memory is the log, batches ascend, subscribers are told once. Snapshots: what is listed is whole, survives, and stays gone once deleted; stray directories are bounded by the stops and errors. Mutation tracker: records chain, and undoing all of them restores the files up to the ends of their lines. Forks: prefixes of their originals; a fork that is continued loses its tail at the next load. Records: one object for its holders unless one saved over the other, a cut file is an empty one, no access by a share that was replaced, the best memories stay. Migrations: once, or broken for ever. Key-value store: reads are present, and a thread left behind stays so. File tools: no edit is lost unless two overlapped, the watcher misses only within a tick, pages tile the file, those of the virtual file system with a newline between them. Patches: exact on their own text, and through drift unless a hunk fits twice. |
| `minidb_torn` | `MCFiles` | violation | A torn line in the log hides every line written after it. |

The passing runs take between one minute (`session_*`) and two and a half
(`steering`, 1.8 million states) with two workers.

### Bounds, and why they are enough

- `session_*`: two threads are enough for every overlap of two calls, which is
  what the locked blocks allow to go wrong; three calls give append, append and
  delete. One session: calls on different sessions share only the clock, and
  the theorems cover any number. `MaxCrashes = 1` puts a crash at every step;
  `Ranks` has two values in the serial run, so that two events of one timestamp
  occur in both orders. `MaxPolls` lets a client be given every event.
- `threads`: three jobs, two callers and two workers at most by `max_workers`,
  so that a third enqueue meets a full house, a dictionary that grows under the
  iterator, and an idle one; one handler may end its thread. Two task ids and
  two starts, so that a task is replaced under its id and two run at once. Two
  senders, four messages, two shutdowns: a sender between test and put on
  either side of each. Six requests to two servers: a lag of several answers,
  and a reconnect that clears it. Four messages to two language servers and one
  remark: a call before, at and after it, and a new server. Two commands in a
  terminal: a late result meets the call after it.
- `steering`: approvals: three responses of up to two calls, two requests, one
  failure, so that a list is replaced twice and a failure can precede or follow
  each decision. Deduplication: thirteen checks of two calls pass the last
  level (12); histories of one and two records are both evicted. Flows of three
  nodes and edges have a branch with a fallback, a cycle and a missing target;
  two iterations, four visits, which revisit a node. Checkpoints: four saves in
  two seconds give an identifier twice. Outputs: two sessions, five records,
  two clears. Projector: four turns of every role, which hold a call, two
  results and a user. Notifications: two of them for two sinks, a failing save.
  Approval runtime: three requests in two instants hide one another, before and
  after a clear. Policies: three at two priorities hold a tie and a winner.
  Pipelines of three steps over two names, one unregistered, run twice. Code
  mode: two executions in each setting, two handlers, one change of the registry
  at any point of a walk.
- `agent`: plans of up to three steps over three indices, responses of one
  token, a budget of four, which cuts runs short as well as not. Two turns of
  two calls reach the limit of turns with and without an answer; three agents
  on two threads, so that one waits; three words in chunks of two leave a
  remainder. Training: three records in two domains, batches of two, one trainer
  for all of them and one for a domain; a run counts up to three and exports two,
  so that it is overtaken by the other, by new records and by its own limit.
- `files`: two documents, four operations, two restarts: an overwrite, a delete
  and a compaction on either side of a restart. Their words
  stand clear, behind an escape, or have a letter that is not ASCII; `nbar`, as
  which `bar` behind `\n` is read, is a word too. Some data `json.dumps` refuses. Two goals,
  three seconds, two stops, a turn limit, token deltas of either sign. Three
  transcript entries with three subscriptions and one halt: a callback that
  appends or subscribes in the middle of an iteration, on either side of a
  restart. Two snapshots of two files with two mishaps: one may interrupt the
  repair of the other. Two paths that hold nothing, text with `\n` or `\r\n`, or bytes, two writes
  between detections, three records. Two processes hold one record file for
  three saves, so that an old copy overwrites a newer file. A migration of two
  statements, two processes, two deaths. Two threads and another process, three
  commits. Two forks of transcripts of up to four lines, in one second or two; a
  tree of three sessions. Two callers with two calls on a file of two lines.
  Patches without context, with one line and with the three that `create_patch`
  takes by default, texts shorter and longer than that, one or two hunks of at
  most one line each way.

### Fairness

- `threads`: for the job processor, weak fairness of every started call and
  thread: a Python thread that can run does run, and a handler that does not end
  its thread returns. Nobody has to enqueue, cancel or shut down. The other
  subjects of that run have safety properties only.
- `agent`: weak fairness of the threads that run an agent, a request or its
  agents: a Python thread that can go on does, and calls of models and tools
  return or raise; interrupts, deletes and disconnects need not happen.
  Termination of an agent rests on every response counting at least one token.
  Retraining is scheduled, so it starts again (weak fairness of
  `CountUntrained`), and the training process ends; strong fairness of the four
  steps that follow means that a trainer is not killed at the same step every
  time, and that training succeeds again and again where it can. Without it
  nothing is promised.

## 4. Proofs

All theorems hold for every value of the constants that satisfies the module's
assumptions (bounds are natural numbers, model values are distinct from what
they must be distinct from).

**`SessionStoreProofs`.** `OrderInv` adds to the types that the list a frame
has read is ascending and older than the call that reads it, and that rows
contain only calls that have begun: `MessagesOrdered` is not inductive without
it, because a write stores a list from an earlier lock. It gives `TypeCorrect`,
`MessagesStayOrdered` and, with a case analysis of the steps, the action
property `DeletedStaysDeleted`. `EventInv` adds `CallsDistinct`: frames that
still owe an event are of different calls, none of which is in the table; this
is why `OneEventForEachCall` survives crashes. `SerialInv` assumes
`Threads = {t}` and says that the call in flight has the session to itself:
`SerialDeletion` and `SerialLog` are exactly what two threads break
(`session_lost`; with two threads `DeletedSessionHasNoEvents` fails as well).

The log: `LogInv` says that an event to be stamped or inserted is newer than
all that are in the table, that what it carries is what the row says, and how
many messages the log may lack (the calls in flight and one for each crash):
with one thread the log fits the row (`LogTellsTheRow`). The stream: events are
numbered (`EventsNumbered`), a client was given events in their order up to its
cursor and nothing else (`StreamInv`), so that nothing is given twice however
threads overlap (`StreamGivesInOrder`); with one thread everything up to the
cursor was given (`UpToCursor`), so `ResumingSkipsNothing`.

**`ThreadsProofs`.** *Jobs*: `JobInv` orders the queue behind everything already
taken, says that a job in a handler was taken, has no outcome and is in one
worker's hands, and that a waiting job has no outcome. From it:
`JobsTakenInOrder`, and `OutcomesAreFinal` as an action property, since the
only steps that write a status find one that is not an outcome.
`QueueHasServer` needs `ServedInv` beside it, because a thread is started only
after a count of RUNNING jobs that others change meanwhile: while no handler
ended its thread, a RUNNING job is in a thread's hands (`RunningIsHandled`),
the thread an enqueue may start has not been started and is nobody else's
(`ThreadsAreFresh`), and a count that saw RUNNING jobs and can still complete
is right that some thread comes back to the queue, or the queue is empty
(`CountedMeansLive`). So `NoWakeUpIsLost`, for any `max_workers`.
*Background tasks*: `BackgroundInv` says what the object of a task shows at
each step of its thread (`Shows`), whoever replaced or cleared it meanwhile.
*Wire*: `InChannel` is about what was received followed by what is in the
channel, as one list, so that a get changes nothing; it needs that no sender is
called like the shutdown mark (`WireAssumption`). *MCP client*: the answers
read, in the pipe and to come are one `Line` of consecutive requests whose first
is `Due`, the present request less one for every call that gave up; an answer is
never of a later request. *LSP client*: as long as something stands in front of
an answer, and remarks only add to that (`OthersInFront`), a call is given
something else. *Terminal*: what was typed, runs and is shown belongs to the
command under way (`InStep`), and what the calls read, flattened, with the output
and the screen, is what was printed; the facts about `FlattenSeq` are proved with
the least number for which they would fail. A result is what was read at the
places that were kept (`ReturnedIsHeard`). `ThreadsInv` conjoins the six, for the
composition: `ThreadsTypes`, `PipesInOrder`.

**`FilesProofs`.** *Goal*: `ClockInv` bounds the stored time of the goal in memory,
plus the time since the last resume if it is active, and the stored time of the
goal in the file, by the time it was active; the file needs its own conjunct
because a restart takes the goal from there (`ClockNeverRunsAhead`,
`ClockRuns`). `KeptInv` relates memory, file and the last answer, so that a
stop between memory and file loses only what was never returned
(`ToldStaysKept`). `GoalSurvives` puts the three together.
*MiniDB*: `MiniInv` says that the documents in memory are what a replay of the
log on the snapshot gives (`Amount`), changed by the entry that is still to be
written (`MemoryAndDisk`), but for those that a call put there or deleted and
raised, and that the index has every clear word of those it came to. A replay is
defined by the last line about each document, so that a line more changes one
document (`AmountOfAppended`) and a compaction changes none but those whose
delete raised (`Settle`). With a log that is not torn, what is read is what the
next start loads and searches find every clear word (`AnswersSurvive`, `DocumentTypes`; a torn snapshot is allowed); with no torn
file at all every step is one of `DocumentMap`, or a stutter (`DiskIsMap`). The
assumptions on `TornWrites` are those of the passing run: `minidb_torn` shows
that without them the code does lose documents.
*Transcript*: `TranscriptInv` says that the list is what the log says, up to the
line that the innermost `append` is about to write (`ListIsLog`), that batches
ascend over restarts, and, for each call of `append` in progress, which
subscribers it has passed (`FrameOK`): a callback may append, unsubscribe and
subscribe, so the frames are ordered by their entries and each knows only of
its own. What a reload reads is the log up to its first cut line; that it
exists is the least-number principle (`TranscriptTypes`, `TranscriptTold`).
*Directory snapshots*: `SnapInv` says the same of the index in memory and of the
index in the file, since a reload makes either the other: what is listed has
its directory with all files, what was removed is in neither, what was returned
and not deleted is in both, and the directories that neither lists are no more
than the mishaps. What a `create` or `delete` has done so far is in `DoingFits`
(`SnapshotTypes`, `SnapshotsAgree`).
*Mutation tracker*: the stories chain (`RecordsChain`), but to undo them one
needs to know where they begin: the first record about a file starts from its
content at the snapshot (`FirstRecordsFit`), and a file without a record has
that content, among what was seen until the first undo and on the disk after it
(`UntoldFits`). Contents are read with universal newlines, which is an idempotent
function `LfOf` of them, so all of this is up to the ends of lines. The records of a detection are enumerated by cardinalities
instead of a sorting fold (`SortedPathsAreAll`, `ChangesAreAll`); the set of
paths is finite, as a directory is (`TrackerTyped`, `StoriesAreUndone`).
*Migrations*: `EffectsFit` relates how often a statement took effect to who is
in the script and how far; with it a version is applied once unless it was
broken off or two processes looked it up at once, and a broken version whose
statements cannot be repeated stays at its first one for good.
*JSON objects*: `RecordsInv` says that the writer is the one holder that has
seen the last write and that who has seen it holds what the file holds.
*File calls*: `ToolsInv` says what a call between its read and its write knows
(`EditsFit`), that a file is empty while one call has emptied it (`WritesFit`),
and what the watcher can tell from the last poll (`WatchFits`).
*Forks, patches*: `BranchesInv` and `PatchInv` are for the types: names of forks
are those that were given out, and a hunk adds or removes at most one line.
`FilesInv` conjoins them, since a step of one subject is none of another
(`OneSubjectMoves`): `HistoriesAreHeld`, `RecordsAreHeld`, `FilesTypes`.

**`ContentProofs`.** What the files hold is computed over whole sequences, so
each part of `ContentsHold` needs an invariant of its own, beside those of
`FilesProofs`; `ContentsInv` conjoins them and gives `ContentsAreHeld`.
*Forks*: that a fork begins as its source is not inductive, because both may be
continued, and a copy ends without a newline, so that what comes next is glued
to its last line. `ForkInv` therefore keeps, for each fork whose name was given
once, the lines it was made of (`ForkFits`): its file is those lines with its
own entries behind them, the first of which may have gone into the last line
(`Shaped`), and its source, while it is there under such a name too, begins with
them (`OpensWith`). Names of forks carry the instant, and `ListedFits` says that
none is of the future. *Tree*: `TreeFits` gives each session a path to its root
that is as long as its depth says, and one place among the children of its
parent, until a call was given a parent that is not there or a session that is.
*Memories*: `Arranging` shows that any order which compares all entries puts each
of them once, before those behind it; both sorts and the two filters of the code
are such orders (`OrdersPut`), so what `_trim` drops is not more important than
anything it keeps. *Pages*: pages that meet are the text (`PagesMakeText`); the
proof takes the least number of pages for which the flattened pages would not be
the beginning of the text. Those of the virtual file system are lists of lines
joined, and two lists joined with a newline between them are both joined
(`JoinedMeet`). *Patches*: `OnItsWay` says that the hunks which are
left lead, each at its place moved by the drift and by the offset, from the text
there is to the text that is expected, as long as none failed and none could have
gone to a second place; patches are of one or two hunks, each of at most one old
and one new line, in any texts and with contexts of any size. The work is in the
start, where both hunks are taken
apart into context, old and new lines, forward and in reverse
(`FirstHunkLeads`, `SecondHunkLeads`).

**`SteeringProofs`.** *Checkpoints*: seconds do not tell checkpoints apart, so
`CheckpointInv` orders the stored checkpoints by their steps, none after the
present one (`StepsAscend`), says that a stored checkpoint is the newest with
its identifier (`NewestOfItsId`), and that each came from those stored before
it (`SavedOnLine`): a revert keeps a prefix, whose last element need not be the
present context. From it `CheckpointsAreSound`, for any number of saves,
reverts, clears and seconds.
*Approval runtime*: `RuntimeInv` adds `TableOK` to the property: the table leads
to a request made in the instant under which it is kept, and to none of a
session that was cleared since; without it a decision could grant something to a
session that no request stands for. `ApprovalsLast`: what holds for a session is
exactly what was approved since its last clear.
*Approval sessions*: `ApprovalInv` says where the calls of each response can be -
pending, in the list a request executes, or done - and counts runs by failures
and overlaps (`Counted`); with a client that waits there is one request and it
is about the calls shown last (`OneByOne`), so rejected calls are nowhere. From
it `DecisionsAreKept`, for any responses, calls and requests at once.
*Notifications*: `NoteInv` says that a claim holds only what it has passed in
the list and was not given before, and that claims that do not overlap leave
everything else as it was; an acknowledgement finds its notification by the
microsecond it was made in, so only one that shares it can be hit instead
(`NotificationsArrive`).
*Deduplication*: `LiesAt` places the record of a call from the end of the
history, which is where appending and dropping at the front keep it;
`RepetitionIsGuarded`, for any length of the history.
*Flow runner*: that an acyclic flow visits no node twice is proved for every
ranking of the nodes along which edges go up (`RunGoesUp`), without a transitive
closure; a graph without cycles has such a ranking (`FlowRunsAreSound`).
*Pipelines*: `PipelinesAreSound`. *Policies*: the list is a permutation of what
was added, ordered by priority and then by addition (`Orders`), which
`PoliciesDecide` reads off. *Output store*: records ascend, and as long as no
clear moved a position each entry of a session leads to its own record
(`LeadsToOwn`, `SessionsAreGivenTheirOwn`).
*Projector*: `ProjectorInv` relates, in the middle of each loop, the result so
far to the turns that were looked at: it tells the same words in the same order
(`Retold`), and each loop ensures something of its own (`MergeLoop` to
`OrphanLoop`, where `pending_calls` is what the last call has left,
`CallsFor`). `StageInv` says what of it survives the steps that come after:
duplicates that are dropped may bring two users together, and a call dropped in
front leaves its results. `ProjectionIsSound`, for conversations of any length.
The attempt to prove it found an exception that four turns do not show and five
do: dedupe raises at a null result which is itself an orphan, and a second
projection would then drop a duplicate; `ProjectedOnce` names it.
`SteeringInv` conjoins what the composed properties need (`GatesAreSound`,
`RunsAreSound`), and `AllTypes` the invariants behind every type
(`SteeringTypes`).

**`GenerationProofs`.** *Agent run*: `PlanInv` says, as long as the model keeps to
its prompts, that the steps of a plan differ, that exactly those before
`current` are completed, each once, and that the loop is left only where it does
not go on: `NoWorkTwice` and `FinishedIsDone`, whatever is revised. That the
step with an index is found is the least-number principle (`FirstIsThere`).
*Retraining*: `TrainingInv` says of each step of a trainer what is still true of
what it read before: what it counted is still there, what it exported comes
first, what it marks was exported, learned and is older than the rest. Other
runs may mark the same records meanwhile: `Owed` is what is left of the count
after what they marked and what an export does not hold, a new record has more
than that up to it, and so at most the difference is marked without having been
exported (`FewBetween`, `MarkOvertakes`). No assumption on the domains or the
limits is needed (`OnlyLearnedIsMarked`).
*ReAct loop*: `ReActCounts` relates turns, responses and the calls under way, so
that the results of a response follow it, in order and one for each call.
*Agents*: `MultiOrder` says that whoever holds the lock is at the model, that
what was collected is of different agents that ended, and that the judge begins
when all have: what is sorted by name is then the list of all of them.
*Endpoints*: an event of a stream stands where the number of words and the size
of a chunk put it (`SentAs`, `StreamForm`), the last chunk being what is left
over, and only the part a request asks for is ever begun (`PartsForm`).
`ApiInv` conjoins the three, because a step of the endpoint is one of its part;
`AskedOnce` says that the agents are asked by one subject only. From it
`AnswersAreWhole`, for any number of turns, calls, agents, threads and words and
any size of a chunk, and `GenerationTypes`.
*Code mode*: `WalkInv` says that an execution in the middle of its
VALIDATE handlers has asked every standing one or still meets it in the rest of
the list it walks, and that from there on all that stand were asked: `register`
appends behind every position, `unregister` makes a new list and leaves the
walk in the old one, `clear` leaves nobody standing. `ValidatedBeforeRun`
follows for any lists, any number of executions and of changes.
`OwnInv` says where executions that are undisturbed - with a directory of their
own, or never overlapping - find their directory in the Sandbox and their code in
the script; the overlap is what `crowded` remembers, since its damage may come
long after it. With it `CodeModeIsSound` proves the whole of the checked
property: what runs is validated, is the caller's own, and is cleaned up.

**`KeyValueStore`.** `StoreInv` says that the threads in a transaction are
exactly those whose last write was refused, that only they have a snapshot, and
that no snapshot is ahead of the database: without it neither part of
`StoreSound` is inductive, since any commit makes every snapshot old. It gives
`StoreTypes` and `RefusedThreadsAreStuck`: for any number of threads and
commits, who was not refused reads the present, and who reads the past cannot
write.

Some definitions are written so that they can be reasoned about: what the flow
runner looks up next, what an LSP server has still to answer and the ascending
list of positions are given by sets and least elements instead of folds; the
memories that are sorted and filtered are given by the order they are put in.

Every invariant that a passing run checks is stated by a theorem. Only
model-checked is liveness (`JobsAreTaken`, `RunsEnd`, `BacklogShrinks`), since
fairness and ENABLED are out of the prover's reach. The library's induction
theorems take an operator as a parameter, which the installed provers cannot
instantiate; a recursive function over numbers, as in `FlattenSeq`, is reasoned
about with the least number at which a claim about it would fail. RECURSIVE
operators and folds with an operator parameter stay out of the modules that are
proved about.

## 5. Findings

- `session_lost`: `append_message` reads and writes under different locks and
  loses a message of two overlapping appends.
- `jobs_cancel`: a worker runs the cancelled job it pops.
- `agent_interrupt`: the runner's final status overwrites an interrupt.
- `client_answer`: the client of `sdk/client.py` sends no `num_agents`, so the
  agents answer it, under a key it does not read.
- `training_as_built`: the trainer is called with options it does not take.
- `minidb_torn`: everything after a torn line of the log is invisible.

Noticed and not given a run of their own: with two threads an event of a
deleted session can be inserted after the delete, the last status event may not
be the status of the row, and a resuming client can skip an event that was
stamped early and inserted late; the goal's clock drops by a factor of 1000 when
a paused goal is resumed, because seconds are added to a field of milliseconds
(`goal/__init__.py`), so the model states only that it never runs ahead.
Undoing a deletion writes an empty file (`mutation/tracker.py:145`), and undoing
an edit of a file with `\r\n` at the ends of its lines leaves `\n` there, because
the old content was read with universal newlines (lines 114 and 142).
A page of the virtual file system lacks its last newline, so pages put one after
the other run two lines together at each seam (`vfs/filesystem.py:93`).
The index of MiniDB is made from what `json.dumps` writes, while a search takes
the query as it is (`minidb/__init__.py:66`, 96): a word right behind an escape
(`\n` before `bar` is indexed as `nbar`) and a word with letters that are not
ASCII are not found. When `json.dumps` raises, `set` has already changed the
documents: what `get` returns is lost at the next start, `compact` raises, and a
delete of another document leaves the index incomplete and writes nothing.
A training run that another one overtakes
marks records it was never trained on, as many as the other marked of those it
had counted: `--domain` defaults to all records, no lock is taken, and the ids
are fetched again after training (`continuous_learning/train.py:64`); so does a
run with `--max-samples` above the 100000 of an export. `task.process` is never assigned, so `kill` and `reconcile` of background tasks
do nothing. After a timeout the MCP client returns the answers of earlier
requests until it reconnects. `clear_session` leaves the positions of other
sessions as they were, which then name outputs of others
(`output/store.py:62`). A flow with a cycle is followed for ever, also from
`ralph_loop` (`flow/__init__.py:59`). The twelfth check of a call, answered
from the history, passes the level that stops the turn (`tools/dedup.py:52`).
The projector can leave a result whose call it drops last
(`projector/__init__.py:79`). `build_llm_message` never acknowledges what it
shows, because `ack` wants it claimed (`notifications/__init__.py:130`); and
since identifiers are microseconds, an acknowledgement of one of two made in the
same one, or a message that shows one, can acknowledge the other (line 62). A fork keeps the
batches and turns of its original, and `TranscriptStore` continues it with its
own, so that a reload finds only the entries before the last copied line
(`session/fork.py`). `create_patch` with no context makes insertions that
`apply` puts one line early, and a last line without a newline makes a hunk that
cannot be applied (`patch/`). A write that raises "database is locked" leaves
its transaction open, and the thread that reads next is stuck in the past until
it closes (`database/store.py:49`). A migration that stops half way cannot be
finished if its first statement cannot be repeated (`database/orm.py:178`). The
streamed endpoint assigns `prompts` inside its generator, so that a stream
without a prompt, or to the model alone, breaks off after two events, and it
runs the tools of a request for manual approval at once
(`deployment/inference_server.py`). An LSP server that sends a message of its
own puts the client out of step for good (`lsp/`). No prompt is ever seen by
the terminal, because it is compared after its space was stripped
(`shell/pty.py`), and no prompt is taken out of a result; a line that says the
same as the command is, whoever printed it (line 131). Two approval requests of one microsecond share an identifier
(`approval_runtime/__init__.py:32`). A `Sandbox` given to overlapping
executions runs the code of one for the other (`codemode/sandbox.py:30`). The
properties name each of these as an exception, so that they say exactly how far
the code keeps its promise.

## 6. Left out, and why

Texts (contents of messages, prompts, objectives) are identities; wording,
logging and layout are dropped. Clocks do not go back. SQLite transactions are
atomic and durable, as SQLite documents. A snapshot of MiniDB that is torn
loses all that was compacted, without a bound, so `files` tears no snapshot and
no log line; `minidb_torn` does. Data of documents are what JSON gives back
unchanged: keys that are no strings, which come back as strings, are left out.
Commands of the terminal are one line, and programs print whole lines. Reads that
return one field are left out.

Partly modelled are: the session runner (replay and lists of runs are reads),
directory snapshots (`restore` copies to where nothing of the manager reads),
the MCP server (it answers each line by itself), the parser of flows and the
parser and printer of patches (text conversions), the inference server (its
other endpoints forward to one call of a component), the engine (what the model
computes is external), the searches of records, and searching and globbing of
the file tools.

Not modelled: modes, injections, side questions, retry, the doom loop, the
state reconciler, lifecycle hooks, plugin host, webhooks, ACP, agent
specifications and compaction are sequential code in which each operation is a
single assignment or a pure function of its arguments, and no interleaving,
failure or restart can take it apart; a property would restate it. Accounts,
flags, keybinds and the like are dictionaries written by one thread. Providers,
configuration, rendering, command lines, front ends, parsing, git and browser
wrappers are I/O; `model/`, `training/`, `evaluation/` and `optimization/` are
numerical code. `PROJECT.json` gives the reason for every package.

## 7. Plan

Modelled and checked are the files, threads, decisions and control groups, and
the composition of the endpoints with what they call. What is left, in the
order of its worth:

1. *Composition*: `AgentRun` on `SessionStore` instead of a row of its own, so
   that the run's appends meet the API's; the approval sessions behind the
   `approval` branch of `GenerateApi`.
2. *Algorithms*: state reconciler and compaction, as operators checked against
   reference definitions.
3. *Proofs*: the safety part is complete; with (1), the invariants of `AgentRun`
   and `SessionStore` joined.

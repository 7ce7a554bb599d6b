SPECIFICATION SteeringSpec
CONSTANTS
  q1 = q1
  q2 = q2
  Requests <- TwoRequests
  MaxTurns = 3
  MaxCalls = 2
  MaxFailures = 1
  Calls = {1, 2}
  HistoryLimits = {1, 2}
  MaxChecks = 13
  MaxAgentSteps = 1
  FlowNodes = {1, 2, 3}
  NoNode = 0
  FlowEnds = {0, 1}
  MaxEdges = 3
  MaxVisits = 4
  MaxIterations = 2
  NeverRestored = NeverRestored
  MaxSaves = 4
  MaxClock = 1
  OutputSessions = {1, 2}
  IndexError = IndexError
  MaxOutputs = 5
  MaxClears = 2
  NoContent = NoContent
  ToolKeys = {"a", "b"}
  MaxSaid = 4
  Sinks = {"llm", "wire"}
  Alone = {TRUE, FALSE}
  ClaimLimit = 2
  MaxNotes = 2
  MaxSaveErrors = 1
  AskingSessions = {1, 2}
  AskedTools = {"run", "runner"}
  MaxMicroseconds = 1
  MaxAsked = 3
  PolicyActions = {"run", "runner"}
  NoOpinion = NoOpinion
  Patterns <- BothOrOne
  Priorities = {0, 1}
  MaxPolicies = 3
  StepNames = {"a", "b"}
  MaxPipeline = 3
  MaxRuns = 2
  Executions = {1, 2}
  Settings = {"own", "kept", "directory", "sandbox"}
  Handlers = {"a", "b"}
  FirstHandlers <- SomeHandlers
  MaxPluginChanges = 1
SYMMETRY RequestSymmetry
INVARIANTS
  SteeringTypeOK
  DecisionsHold
  GatesSound
  RepetitionGuarded
  RunsSound
  CodeRunsSound
  CheckpointsSound
  OutputsAreOwn
  ProjectionSound
  NotesDelivered
CHECK_DEADLOCK FALSE

SPECIFICATION ApiSpec
CONSTANTS
  MaxTurns = 1
  MaxCalls = 1
  MaxAgents = 2
  DefaultAgents = 2
  ChunkSize = 2
  MaxWords = 1
INVARIANT ClientGetsItsAnswer
CHECK_DEADLOCK FALSE

SPECIFICATION FairThreadsSpec
CONSTANTS
  c1 = c1
  c2 = c2
  Callers <- TwoCallers
  MaxWorkers = 2
  MaxJobs = 3
  MaxExits = 1
  TaskIds <- TwoTaskIds
  MaxStarts = 2
  Senders <- TwoSenders
  MaxMessages = 4
  MaxShutdowns = 2
  MaxRequests = 6
  MaxServers = 2
  MaxLspMessages = 4
  MaxRemarks = 1
  MaxLspServers = 2
  MaxCommands = 2
  Texts = {"a", "b"}
  MaxPrinted = 2
INVARIANTS
  ThreadsTypeOK
  TakenInOrderOnce
  QueueHasServer
  TasksToldInOrder
  PipesKeepOrder
PROPERTIES
  OutcomeIsFinal
  JobsAreTaken
CHECK_DEADLOCK FALSE

SPECIFICATION ThreadsSpec
CONSTANTS
  c1 = c1
  c2 = c2
  Callers <- OneCaller
  MaxWorkers = 1
  MaxJobs = 1
  MaxExits = 0
  TaskIds <- OneTaskId
  MaxStarts = 0
  Senders <- OneSender
  MaxMessages = 0
  MaxShutdowns = 0
  MaxRequests = 0
  MaxServers = 0
  MaxLspMessages = 0
  MaxRemarks = 0
  MaxLspServers = 0
  MaxCommands = 0
  Texts = {"a", "b"}
  MaxPrinted = 2
PROPERTY CancelIsFinal
CHECK_DEADLOCK FALSE

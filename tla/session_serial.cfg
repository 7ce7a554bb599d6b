SPECIFICATION StreamSpec
CONSTANTS
  None = None
  NoEvent = NoEvent
  Pollers = {p1}
  Threads = {t1}
  SessionIds = {s1}
  Ranks = {1, 2}
  MaxCalls = 4
  MaxCrashes = 1
  MaxPolls = 4
INVARIANTS
  StreamTypeOK
  LoggedMessagesStored
  LogFitsRow
  DeletedSessionHasNoEvents
  NothingSkipped
CHECK_DEADLOCK FALSE

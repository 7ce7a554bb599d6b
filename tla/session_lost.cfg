SPECIFICATION StreamSpec
CONSTANTS
  None = None
  NoEvent = NoEvent
  Pollers = {p1}
  Threads = {t1, t2}
  SessionIds = {s1}
  Ranks = {1}
  MaxCalls = 2
  MaxCrashes = 0
  MaxPolls = 1
INVARIANT LoggedMessagesStored
CHECK_DEADLOCK FALSE

SPECIFICATION StreamSpec
CONSTANTS
  None = None
  NoEvent = NoEvent
  Pollers = {p1}
  Threads = {t1, t2}
  SessionIds = {s1}
  Ranks = {1}
  MaxCalls = 3
  MaxCrashes = 1
  MaxPolls = 2
INVARIANTS
  MessagesOrdered
  OneEventPerCall
  GivenInOrderOnce
PROPERTIES
  NoResurrection
CHECK_DEADLOCK FALSE

SPECIFICATION NodeSpec
CONSTANTS
  r1 = r1
  r2 = r2
  NoRequest = NoRequest
  Requests <- MCRequests
  Capacity = 1
  Wrap = 6
  Links = {TRUE, FALSE}
  HasClose = TRUE
  Poll = 1
  RetryBase = 1
  RetryMax = 1
  RetryJitter = 0
  PhaseTimeout = 1
  Timeout <- MCTimeout
  Grants = {1}
  PhaseBudget = 1
  DropOldest = TRUE
  QueueWhenLinkDown = TRUE
  CallbackMay = {}
  MaxIdle = 2
  IoTimeout = 1
  Counted <- MCCounted
  CounterMax = 3
INVARIANTS SocketReleased AttemptsAccounted
PROPERTIES ReportsHonest NotRepeated

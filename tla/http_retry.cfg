SPECIFICATION Spec
CONSTANTS
  r1 = r1
  r2 = r2
  r3 = r3
  NoRequest = NoRequest
  Requests <- MCRequests
  Capacity = 2
  Wrap = 16
  Links = {TRUE}
  HasClose = TRUE
  Poll = 1
  RetryBase = 3
  RetryMax = 3
  RetryJitter = 1
  PhaseTimeout = 2
  Timeout <- MCTimeout
  Grants <- MCGrants
  PhaseBudget = 2
  DropOldest = TRUE
  QueueWhenLinkDown = TRUE
  CallbackMay = {"enqueue"}
  MaxIdle = 2
PROPERTIES AttemptsMade

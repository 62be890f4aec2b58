SPECIFICATION FairNodeSpec
CONSTANTS
  m1 = m1
  Messages <- MCMessages
  Capacity = 1
  Wrap = 5
  HasTransportProbe = TRUE
  HasLoopStep = FALSE
  HasStateTopic = FALSE
  Poll = 1
  RetryBase = 1
  RetryMax = 1
  RetryJitter = 0
  IdleLoop = 0
  Grants = {1}
  DropOldest = TRUE
  QueueWhenDown = TRUE
  EnqueueFrom = {"user"}
  MaxIdle = 1
  WiFiPoll = 1
  StableMultiplier = 2
  StableThreshold = 1
  StableMax = 1
  WiFiRetryBase = 1
  WiFiRetryMax = 2
  WiFiRetryJitter = 0
  WiFiMaxIdle = 2
INVARIANTS NodeTypeOK ObserversKnow HalfOpenClosed
PROPERTIES AttemptsSpaced LossNoticed Delivered

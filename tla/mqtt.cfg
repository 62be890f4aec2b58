SPECIFICATION FairSpec
CONSTANTS
  m1 = m1
  m2 = m2
  m3 = m3
  Messages <- MCMessages
  Capacity = 2
  Wrap = 6
  HasTransportProbe = TRUE
  HasLoopStep = TRUE
  HasStateTopic = TRUE
  Poll = 1
  RetryBase = 1
  RetryMax = 2
  RetryJitter = 0
  IdleLoop = 2
  Grants = {1}
  DropOldest = TRUE
  QueueWhenDown = FALSE
  EnqueueFrom = {"user", "notify", "connect", "announce", "loop"}
  MaxIdle = 2
INVARIANT TypeOK
PROPERTIES ChangesAnnounced ImplementsOutbox BackoffKept MessagesLeave

SPECIFICATION FairSpec
CONSTANTS
  AdaptiveDrain = TRUE
  IdleMultiplier = 2
  Capacity <- MCCapacity
  DrainPerTick <- MCDrainPerTick
  DropOldest <- MCDropOldest
  Coalescing = TRUE
  Messages <- MCMessages
  m1 = m1
  m2 = m2
  m3 = m3
  w1 = w1
  NoMessage = NoMessage
  MaxDepth = 3
  MaxCalls = 1
  UserMay = {"publish", "flush", "tick", "reset"}
  SignalReentry = FALSE
INVARIANTS
  TypeOK
  RingsCoherent
  NoDuplicates
PROPERTIES
  ImplementsChannels
  CallsReturn

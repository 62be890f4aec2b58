SPECIFICATION Spec
CONSTANTS
  AdaptiveDrain = TRUE
  IdleMultiplier = 2
  Capacity <- MCCapacity
  DrainPerTick <- MCDrainPerTick
  DropOldest <- MCDropOldest
  Coalescing = TRUE
  Messages <- MCMessages
  m1 = m1
  m2 = m2
  m3 = m3
  w1 = w1
  NoMessage = NoMessage
  MaxDepth = 2
  MaxCalls = 1
  UserMay = {"publish"}
  SignalReentry = TRUE
SYMMETRY Symmetry
INVARIANT QueueBounded

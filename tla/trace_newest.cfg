SPECIFICATION PartsSpec
CONSTANTS
  a = a
  b = b
  h1 = h1
  h2 = h2
  shared = shared
  Labels <- MCLabels
  NoLabel = NoLabel
  KeyOf <- MCKeyOf
  Size <- MCSize
  HandlersOf <- MCHandlersOf
  NoHandler = NoHandler
  Warns = TRUE
  MaxDepth = 2
  Flags = {f1, f2, f3}
  Entries = {e1, e2, e3}
  MaxEntries = 3
  NoEntry = NoEntry
  AdaptiveDrain = TRUE
  IdleMultiplier = 2
  Capacities = {1, 2, 3, 4, 5, 7, 8, 12, 16, 64, 170, 187, 255}
SYMMETRY Symmetry
INVARIANT NewestShown
CHECK_DEADLOCK FALSE

SPECIFICATION Spec
CONSTANTS
  net = net
  N = 2
  Config <- SupervisedPair
  Wrap = 6
  Caps = {}
  Policies = {}
  Floors = {}
  Modes = {}
  CapChoices = {}
  NewPriorities = {}
  NewTimeouts = {}
  HasMicros = TRUE
  Clocks = {TRUE}
  LoopMay = {"begin", "add"}
  TaskMay = {}
  DrainMay = {"heartbeat"}
  MaxIdle = 1
  MaxRun = 1
  MaxDrain = 1
PROPERTY TimeoutsHonest

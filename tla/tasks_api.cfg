SPECIFICATION Spec
CONSTANTS
  net = net
  N = 2
  Config <- ManagedPair
  Wrap = 3
  Caps = {net}
  Policies <- StrictPolicy
  Floors = {2}
  Modes = {"EnterSafeMode"}
  CapChoices = {{}}
  NewPriorities = {2}
  NewTimeouts = {0, 1}
  HasMicros = TRUE
  Clocks = {FALSE}
  LoopMay = {"add", "stop", "suspend", "resume", "tune", "policy", "safeMode", "panic", "caps"}
  TaskMay = {"suspend", "safeMode", "stop"}
  DrainMay = {}
  MaxIdle = 1
  MaxRun = 0
  MaxDrain = 0
INVARIANTS
  KernelCoherent
  MonitoringFresh

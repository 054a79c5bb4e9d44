\* The toggle machine records a pour it has only handed off.
\* The order ends, and the model with it.
CHECK_DEADLOCK FALSE
SPECIFICATION Spec
CONSTANTS
  Places = {home, machine}
  Home = home
  Adrift = adrift
  Unknown = unknown
  Nothing = nothing
  QueueSize = 1
  MaxCalls = 4
INVARIANTS
  WaterHasRun

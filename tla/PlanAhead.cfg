\* One order's planning and execution threads.
\* The order ends, and the model with it; PlannerGoesOn finds a deadlock.
CHECK_DEADLOCK FALSE
SPECIFICATION FairSpec
CONSTANTS
  Places = {home, machine}
  Home = home
  Adrift = adrift
  Unknown = unknown
  Nothing = nothing
  QueueSize = 1
  MaxCalls = 4
INVARIANTS
  TypeOK
  PlannedFromTheArm
  ErrorNotLost
  NothingBehindTheCode
  WaterHasRunWithButtons
PROPERTIES
  ImplementsSequence
  PlannerGoesOn

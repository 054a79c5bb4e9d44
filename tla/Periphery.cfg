\* Six parts around the arm, one at a time.
CHECK_DEADLOCK FALSE
SPECIFICATION Spec
CONSTANTS
  None = none
  Poses = {0, 1, 2}
  Callers = {c1, c2}
  Dials = {"x"}
  MaxPosition = 4
  AccelThreshold = 1
  MaxMultiplier = 2
  Unit = 2
  MaxReadings = 3
  Emails = {ada, bob}
  Orders = {o1, o2}
  Manual = manual
  Targets = {2, 3}
  NotFunded = notfunded
  MaxWrites = 3
  ClipLead = 1
  SegmentClosing = 1
  SaveTimeout = 1
  MaxBrewDuration = 3
  LongestOrder = 1
  EndOfTime = 5
  Buttons = {cups, water}
  RefillThreshold = 2
  MaxBrews = 2
  MaxRefills = 1
  MaxFaults = 2
  WarmUp = 1
  FixedDwell = 2
  Ceiling = 5
  SurfaceCap = 3
  Confirmations = 2
  MaxErrors = 2
  BadFrames = 1
INVARIANTS
  TypeOK
  PositionIsLastArrival
  PosesAddUp
  DetentsAccounted
  BooksBalance
  BooksAreOnDisk
  ClipNotLost
  OneWriterPerClip
  PinLowWhenDone
  StopsOnlyWhenFull
PROPERTIES
  NeverBackwards
  DialComesToRest
  DeckCatchesUp

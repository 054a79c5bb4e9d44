\* A proceed that lifts the pause of a failure later than its rebuild.
SPECIFICATION Spec
CONSTANTS
  Free = free
  NoOrder = none
  NoRecord = norecord
  Consumer = consumer
  Purger = purger
  Clients = {c1, c2}
  MaxOrders = 2
  Orders <- OrderNumbers
  MaxBatch = 2
  MaxCommands = 3
  HasCart = FALSE
  CartPlacement = FALSE
  Panics = TRUE
  KeepAlive = FALSE
  MayClose = FALSE
PROPERTIES
  PauseWaitsForRecovery

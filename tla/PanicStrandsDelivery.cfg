\* A delivery order whose brew panics.
SPECIFICATION Spec
CONSTANTS
  Free = free
  NoOrder = none
  NoRecord = norecord
  Consumer = consumer
  Purger = purger
  Clients = {c1, c2}
  MaxOrders = 2
  Orders <- OrderNumbers
  MaxBatch = 2
  MaxCommands = 3
  HasCart = TRUE
  CartPlacement = TRUE
  Panics = TRUE
  KeepAlive = FALSE
  MayClose = FALSE
INVARIANTS
  NoStrandedDelivery

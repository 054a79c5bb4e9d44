\* A drink set down for a cart that goes on polling reaches it.
SPECIFICATION CartFairSpec
CONSTANTS
  Free = free
  NoOrder = none
  NoRecord = norecord
  Consumer = consumer
  Purger = purger
  Clients = {c1}
  MaxOrders = 2
  Orders <- OrderNumbers
  MaxBatch = 2
  MaxCommands = 3
  HasCart = TRUE
  CartPlacement = TRUE
  Panics = FALSE
  KeepAlive = FALSE
  MayClose = FALSE
PROPERTIES
  DeliveredEventually

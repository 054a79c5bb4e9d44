\* Progress of the order queue while operators take the arm.
SPECIFICATION FairSpec
CONSTANTS
  Free = free
  NoOrder = none
  NoRecord = norecord
  Consumer = consumer
  Purger = purger
  Clients = {c1, c2}
  MaxOrders = 2
  Orders <- OrderNumbers
  MaxBatch = 2
  MaxCommands = 3
  HasCart = FALSE
  CartPlacement = FALSE
  Panics = TRUE
  KeepAlive = TRUE
  MayClose = FALSE
PROPERTIES
  QueueDrains

\* Delivery orders: the cart, the drink and the consumer, in any order.
SPECIFICATION Spec
SYMMETRY ClientSymmetry
CONSTANTS
  Free = free
  NoOrder = none
  NoRecord = norecord
  Consumer = consumer
  Purger = purger
  Clients = {c1, c2}
  MaxOrders = 2
  Orders <- OrderNumbers
  MaxBatch = 2
  MaxCommands = 3
  HasCart = TRUE
  CartPlacement = TRUE
  Panics = FALSE
  KeepAlive = FALSE
  MayClose = FALSE
INVARIANTS
  HandoverIsReal
  NoStrandedDelivery
PROPERTIES
  TerminalIsFinal
  ServedSurvivesFaults

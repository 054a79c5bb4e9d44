\* The arm lease and the order queue, with every command and no cart.
SPECIFICATION Spec
SYMMETRY ClientSymmetry
CONSTANTS
  Free = free
  NoOrder = none
  NoRecord = norecord
  Consumer = consumer
  Purger = purger
  Clients = {c1, c2}
  MaxOrders = 2
  Orders <- OrderNumbers
  MaxBatch = 2
  MaxCommands = 3
  HasCart = FALSE
  CartPlacement = FALSE
  Panics = TRUE
  KeepAlive = TRUE
  MayClose = TRUE
INVARIANTS
  TypeOK
  LeaseOwnership
  CancelReachesHolder
  OrdersAccounted
  NoLostWakeup
PROPERTIES
  RecoveryBeforeAutomation
  ImplementsLifecycle

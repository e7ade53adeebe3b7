\* One event with one destination, one failed enqueue, a slow queue.
SPECIFICATION Spec
CHECK_DEADLOCK FALSE
CONSTANTS
  paid = paid
  refunded = refunded
  shop = shop
  mirror = mirror
  Events = {paid}
  Configs = {shop}
  Destinations <- MCOne
  Runs = {1}
  MaxAttempts = 2
  MaxRetries = 2
  BatchLimit = 1
  SlowQueue = TRUE
  Requeues = FALSE
  FaultKinds = {"enqueue"}
  MaxFaults = 1
  MaxManual = 0
INVARIANTS
  DispatchedIsReclaimable

\* One event with one destination, two attempts that may overlap, every fault, one retry by hand.
SPECIFICATION Spec
CHECK_DEADLOCK FALSE
CONSTANTS
  paid = paid
  refunded = refunded
  shop = shop
  mirror = mirror
  Events = {paid}
  Configs = {shop}
  Destinations <- MCOne
  Runs = {1, 2}
  MaxAttempts = 2
  MaxRetries = 2
  BatchLimit = 1
  SlowQueue = TRUE
  Requeues = TRUE
  FaultKinds = {"crash", "stall", "enqueue", "unanswered", "update", "record"}
  MaxFaults = 1
  MaxManual = 1
INVARIANTS
  DeliveryInv

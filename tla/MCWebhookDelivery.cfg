\* One event with two destinations; crashes, failed enqueues and failed writes.
SPECIFICATION FairSpec
CHECK_DEADLOCK FALSE
CONSTANTS
  paid = paid
  refunded = refunded
  shop = shop
  mirror = mirror
  Events = {paid}
  Configs = {shop, mirror}
  Destinations <- MCBoth
  Runs = {1}
  MaxAttempts = 2
  MaxRetries = 2
  BatchLimit = 1
  SlowQueue = FALSE
  Requeues = TRUE
  FaultKinds = {"crash", "record"}
  MaxFaults = 1
  MaxManual = 0
INVARIANTS
  RepeatsNeedAFault
PROPERTIES
  DeliveredIsKept
  EveryEventEnds
  ImplementsContract

\* Two events, one without destinations, claimed together.
SPECIFICATION FairSpec
CHECK_DEADLOCK FALSE
CONSTANTS
  paid = paid
  refunded = refunded
  shop = shop
  mirror = mirror
  Events = {paid, refunded}
  Configs = {shop}
  Destinations <- MCMixed
  Runs = {1}
  MaxAttempts = 2
  MaxRetries = 2
  BatchLimit = 2
  SlowQueue = FALSE
  Requeues = FALSE
  FaultKinds = {"crash", "enqueue", "update"}
  MaxFaults = 2
  MaxManual = 0
INVARIANTS
  DeadLetterIsConclusive
PROPERTIES
  EveryEventEnds

\* Two workers whose runs end within the lock TTL, two faults; the first two payouts may fail,
\* the third withdrawal is also settled by the TEST endpoints.
SPECIFICATION FairSpec

CONSTANTS
  Workers = {"a", "b"}
  N = 3
  Amount <- MCAmount
  MaxAttempts = 3
  BatchLimit = 2
  Failing = {1, 2}
  RunsOutliveLock = FALSE
  Called = {3}
  MaxFaults = 2
  ClaimBound = 7
INVARIANTS
  ProcessingInv
PROPERTIES
  ImplementsContract
  EveryWithdrawalEnds

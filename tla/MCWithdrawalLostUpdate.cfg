\* One worker, a failing payout, and a TEST endpoint called meanwhile.
SPECIFICATION Spec

CONSTANTS
  Workers = {"a"}
  N = 1
  Amount <- MCAmount
  MaxAttempts = 3
  BatchLimit = 1
  Failing = {1}
  RunsOutliveLock = FALSE
  Called = {1}
  MaxFaults = 0
  ClaimBound = 4
PROPERTIES
  TerminalIsFinal

SPECIFICATION Spec
CONSTANTS
  Workers = {w1, w2}
  Runs = {r1, r2}
  NoRun = NoRun
  Requests <- MCRequests
  BaseConfig <- MCBaseConfig
  RunDelay = TRUE
  MaxFaults = 2
SYMMETRY Symmetry
INVARIANTS
  OwnConfig
  EarlierAreTaken
  ClaimExclusive
  StrandedBound
  SucceededComplete
PROPERTY LedgerSpec
CHECK_DEADLOCK FALSE

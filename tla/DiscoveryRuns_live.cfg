SPECIFICATION FairSpec
CONSTANTS
  Workers = {w1, w2}
  Runs = {r1, r2}
  NoRun = NoRun
  Requests <- MCOneRequest
  BaseConfig <- MCBaseConfig
  RunDelay = TRUE
  MaxFaults = 1
PROPERTIES
  QueuedIsServed
  RunConcludes
CHECK_DEADLOCK FALSE

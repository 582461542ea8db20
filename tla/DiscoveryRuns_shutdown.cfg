SPECIFICATION Spec
CONSTANTS
  Workers = {w1}
  Runs = {r1}
  NoRun = NoRun
  Requests <- MCTwoRequests
  BaseConfig <- MCBaseConfig
  RunDelay = TRUE
  MaxFaults = 1
INVARIANT StopLeavesNothingRunning
CHECK_DEADLOCK FALSE

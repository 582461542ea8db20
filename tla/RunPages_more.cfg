SPECIFICATION RunPagesSpec
CONSTANTS
  RunPageLimit = 2
  DefaultRunLimit = 3
  MaxRuns = 5
  MaxPages = 3
INVARIANT RunsInOrder
CHECK_DEADLOCK FALSE

SPECIFICATION Spec
CONSTANTS
  Ids = {1, 2, 3}
  Links = {2}
  Rewritten = {}
  Limit = 1
  MaxClock = 3
CHECK_DEADLOCK FALSE
INVARIANT BothEnds

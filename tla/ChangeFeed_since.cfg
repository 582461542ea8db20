SPECIFICATION Spec
CONSTANTS
  Ids = {1, 2, 3}
  Links = {}
  Rewritten = {}
  Limit = 1
  MaxClock = 3
CHECK_DEADLOCK FALSE
INVARIANT SinceGates

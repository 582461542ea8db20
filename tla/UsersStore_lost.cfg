SPECIFICATION UsersSpec
CONSTANTS
  Users = {uA, uB}
  EnvUsers = {uA}
  Handlers = {q1, q2}
  MaxPasswords = 2
  MaxUserFaults = 0
INVARIANT AckedIsKept

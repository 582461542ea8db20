SPECIFICATION MCSpec
CONSTANTS
  s1 = s1
  n1 = n1
  s2 = s2
  m1 = m1
  m2 = m2
  ip1 = ip1
  Actors = {s1, n1, s2}
  Macs = {m1, m2}
  Ips = {ip1}
  NoAddr = NoAddr
  JobsOf <- Segment
  MaxDevices = 3
  MaxJobs = 3
  MaxFaults = 2
  Ids = {1, 2, 3, 4}
  Links = {2}
  Rewritten = {3}
  Limit = 1
  MaxClock = 3
  Ports <- SomePorts
  Cables <- SomeCables
  IfName <- Names
  ToldName <- ToldNames
  NoName = "?"
  LinkSources = {"lldp"}
  MaxPolls = 2
  MaxTopologyFaults = 1
  TagNames = {"router", "switch"}
  TagRequests = {q1, q2}
  NoRequest = NoRequest
  TagScanners = {v1, v2}
  MaxTagFaults = 1
INVARIANTS
  TypesOK
  ObservedIsFact
  OwnersBounded
  OrphansBounded
  NoRepeat
  Complete
  LinksAreCables
  OneLinkPerKnownEnds
  LastClearWins
PROPERTIES
  SettledOwner
  PagesDescend
CHECK_DEADLOCK FALSE

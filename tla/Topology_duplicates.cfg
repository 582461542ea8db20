SPECIFICATION MCSpec
CONSTANTS
  s1 = s1
  n1 = n1
  s2 = s2
  m1 = m1
  m2 = m2
  ip1 = ip1
  Actors = {s1, n1, s2}
  Macs = {m1, m2}
  Ips = {ip1}
  NoAddr = NoAddr
  JobsOf <- Segment
  MaxDevices = 0
  MaxJobs = 0
  MaxFaults = 0
  Ids = {1}
  Links = {}
  Rewritten = {}
  Limit = 1
  MaxClock = 1
  Ports <- SomePorts
  Cables <- SomeCables
  IfName <- Names
  ToldName <- ToldNames
  NoName = "?"
  LinkSources = {"lldp"}
  MaxPolls = 1
  MaxTopologyFaults = 0
  TagNames = {"router"}
  TagRequests = {q1}
  NoRequest = NoRequest
  TagScanners = {v1}
  MaxTagFaults = 0
INVARIANT OneLinkPerCable
CHECK_DEADLOCK FALSE

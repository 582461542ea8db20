SPECIFICATION FairSpec
CONSTANTS
  d1 = d1
  d2 = d2
  d3 = d3
  Workers = {w1, w2, w3}
  Devices = {d1, d2, d3}
  Found <- SomeTargets
  Addresses = 4
  Capacity = 2
  Limits = {0, 2}
INVARIANT OncePerSubject
PROPERTIES
  PhaseReturns
  PhaseSpec

SPECIFICATION FairSpec
CONSTANTS
  w1 = w1
  w2 = w2
  w3 = w3
  here = here
  there = there
  Nobody = Nobody
  Workers = {w1, w2, w3}
  HostOf <- TwoHosts
  Faulty = {w1, w2}
  MaxFaults = 2
INVARIANTS
  TypeOK
  OneEditor
PROPERTIES
  LockSpec
  LockPassedOn

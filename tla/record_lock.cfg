SPECIFICATION FairSpec
CONSTANTS
  p1 = p1
  p2 = p2
  p3 = p3
  here = here
  there = there
  Nobody = Nobody
  Processes = {p1, p2, p3}
  HostOf <- TwoHosts
  Faulty = {p1, p2}
  MaxFaults = 1
INVARIANT OneHolder
INVARIANT BackedUp
PROPERTY Versioned
PROPERTY LockRecovered
CHECK_DEADLOCK FALSE

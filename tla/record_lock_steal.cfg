SPECIFICATION Spec
CONSTANTS
  p1 = p1
  p2 = p2
  p3 = p3
  here = here
  there = there
  Nobody = Nobody
  Processes = {p1, p2, p3}
  HostOf <- OneHost
  Faulty = {p1, p2}
  MaxFaults = 1
INVARIANT OneWriterWins
CHECK_DEADLOCK FALSE

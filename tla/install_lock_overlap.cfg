SPECIFICATION Spec
CONSTANTS
  here = here
  Processes = {1, 2}
  HostOf <- OneHost
  Faulty = {1, 2}
  MaxFaults = 1
  MaxTicket = 3
INVARIANT UpdateIsCurrent
CHECK_DEADLOCK FALSE

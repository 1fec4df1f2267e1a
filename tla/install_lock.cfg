SPECIFICATION FairSpec
CONSTANTS
  here = here
  Processes = {1, 2}
  HostOf <- OneHost
  Faulty = {1, 2}
  MaxFaults = 1
  MaxTicket = 3
INVARIANT FirstComeFirstServed
INVARIANT OwnerKeepsClaim
PROPERTY DeadClaimRemoved
CHECK_DEADLOCK FALSE

SPECIFICATION FairSpec
CONSTANTS
  t1 = t1
  t2 = t2
  w1 = w1
  w2 = w2
  r1 = r1
  r2 = r2
  here = here
  there = there
  NoRun = NoRun
  NoTask = NoTask
  Tasks = {t1}
  Deps <- NoDeps
  PlanTasks = {}
  NonGitTasks = {}
  MaxAttempts <- RetryFirst
  MaxWorkers = 1
  Runs = {w1, w2}
  Recoveries = {r1}
  HostOf <- TwoHosts
  Faulty = {w1, w2}
  MaxFaults = 1
  MaxEpoch = 1
PROPERTY QueuedIsDecided
CHECK_DEADLOCK FALSE

SPECIFICATION Spec
CONSTANTS
  t1 = t1
  t2 = t2
  w1 = w1
  w2 = w2
  r1 = r1
  r2 = r2
  here = here
  there = there
  NoRun = NoRun
  NoTask = NoTask
  Tasks = {t1}
  Deps <- NoDeps
  PlanTasks = {}
  NonGitTasks = {}
  MaxAttempts <- RetryFirst
  MaxWorkers = 1
  Runs = {w1, w2}
  Recoveries = {r1, r2}
  HostOf <- OneHost
  Faulty = {}
  MaxFaults = 0
  MaxEpoch = 2
INVARIANT ClaimsPaused
CHECK_DEADLOCK FALSE

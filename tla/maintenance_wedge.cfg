SPECIFICATION PersistentSpec
CONSTANTS
  t1 = t1
  t2 = t2
  w1 = w1
  w2 = w2
  r1 = r1
  r2 = r2
  here = here
  there = there
  NoRun = NoRun
  NoTask = NoTask
  Tasks = {t1}
  Deps <- NoDeps
  PlanTasks = {}
  NonGitTasks = {}
  MaxAttempts <- OneAttempt
  MaxWorkers = 1
  Runs = {w1}
  Recoveries = {r1}
  HostOf <- OneHost
  Faulty = {w1, r1}
  MaxFaults = 2
  MaxEpoch = 1
PROPERTY OrphansRecovered
CHECK_DEADLOCK FALSE

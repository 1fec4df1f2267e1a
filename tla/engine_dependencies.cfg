SPECIFICATION Spec
CONSTANTS
  t1 = t1
  t2 = t2
  w1 = w1
  w2 = w2
  r1 = r1
  r2 = r2
  here = here
  there = there
  NoRun = NoRun
  NoTask = NoTask
  Tasks = {t1, t2}
  Deps <- Chain
  PlanTasks = {t2}
  NonGitTasks = {t1}
  MaxAttempts <- OneAttempt
  MaxWorkers = 1
  Runs = {w1, w2}
  Recoveries = {r1}
  HostOf <- OneHost
  Faulty = {w1, w2, r1}
  MaxFaults = 1
  MaxEpoch = 0
SYMMETRY SymmetricRuns
INVARIANT WorkersWithinLimit
INVARIANT DependenciesFirst
PROPERTY LifecycleSpec
CHECK_DEADLOCK FALSE

SPECIFICATION FilesSpec
CONSTANTS
  t1 = t1
  t2 = t2
  w1 = w1
  w2 = w2
  r1 = r1
  r2 = r2
  here = here
  there = there
  NoRun = NoRun
  NoTask = NoTask
  Tasks = {t1}
  Deps <- NoDeps
  PlanTasks = {}
  NonGitTasks = {}
  MaxAttempts <- RetryFirst
  MaxWorkers = 1
  Runs = {w1, w2}
  Recoveries = {r1}
  HostOf <- TwoHosts
  Faulty = {w1, w2, r1}
  MaxFaults = 2
  MaxEpoch = 1
INVARIANT TypeOK
INVARIANT OneExecutor
INVARIANT WritableRetryIsClean
INVARIANT MigrationFenced
INVARIANT RunningLeaseCurrent
INVARIANT NoStrayWorktree
INVARIANT ResultFree
INVARIANT OutcomeStored
CHECK_DEADLOCK FALSE

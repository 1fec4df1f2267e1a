----------------------------- MODULE TaskEngine -----------------------------
(***************************************************************************)
(* The durable task engine: task-engine.ts over task-store.ts,             *)
(* task-scheduler.ts and maintenance-store.ts.                             *)
(*                                                                         *)
(* Two kinds of processes share the state root.  A run is one call of      *)
(* runOne in a detached worker process; a recovery is one call of          *)
(* recover() by `zeuz task recover`, by a start of the terminal UI or by a *)
(* waiting client.  Each awaits between its store calls, so their calls    *)
(* interleave; a process may die at any of them.                           *)
(*                                                                         *)
(* One store call is one step: task writes run under the lock of the root  *)
(* maintenance record (withStableEpoch), slot writes are a CAS loop on one *)
(* record.  How those locks are built is the subject of RecordLock.        *)
(*                                                                         *)
(* A revision is used only to find out whether a record was written since  *)
(* it was read, so it is not a number here: fresh holds <<a, t>> while the *)
(* revision of t that process a read or wrote last is the current one.     *)
(* The attempt number doubles as the fencing token: claim adds one to      *)
(* both, and nothing else writes either.                                   *)
(***************************************************************************)
EXTENDS TaskPolicy, FiniteSets

CONSTANTS
  Tasks,          \* the tasks that may be submitted
  Deps,           \* Deps[t]: the dependencyIds of t
  PlanTasks,      \* the tasks of the read-only mode; the others may edit
  NonGitTasks,    \* tasks that edit a directory in place, behind a workspace lock
  MaxAttempts,    \* MaxAttempts[t]: retry.maxAttempts of t, 1 without retries
  MaxWorkers,     \* scheduler slots of a state root
  Runs,           \* calls of runOne; each stands for a fresh ownerId
  Recoveries,     \* processes that call recover(), one call after another
  HostOf,         \* HostOf[a]: the host of a run's or a recovery's process
  NoRun,          \* no owner
  NoTask,         \* no task
  Faulty,         \* the processes that may die or have a store call refused
  MaxFaults,      \* bound: how often that happens
  MaxEpoch        \* bound: the epoch at which recoveries stop migrating

Actors == Runs \cup Recoveries

ASSUME ActorsAssumption ==
  /\ Runs \cap Recoveries = {}
  /\ NoRun \notin Actors
  /\ NoTask \notin Tasks
  /\ Faulty \subseteq Actors

ASSUME TasksAssumption ==
  /\ IsFiniteSet(Tasks) /\ IsFiniteSet(Runs)
  /\ PlanTasks \subseteq Tasks /\ NonGitTasks \subseteq Tasks \ PlanTasks
  /\ Deps \in [Tasks -> SUBSET Tasks]
  /\ MaxAttempts \in [Tasks -> Nat \ {0}]
  /\ MaxWorkers \in Nat \ {0}
  /\ MaxFaults \in Nat
  /\ MaxEpoch \in Nat

VARIABLES
  task,      \* task[t]: the durable record of t, its lease included
  slot,      \* slot[t]: the scheduler slot held for t
  fence,     \* the root maintenance record
  spawned,   \* tasks with a launched worker process that has not begun runOne
  fresh,     \* <<a, t>>: the copy of t that process a holds is current
  pc,        \* pc[a]: where process a is
  run,       \* run[w]: the local state of runOne
  sweep,     \* sweep[r]: the local state of recover()
  faults     \* how many faults happened

vars == <<task, slot, fence, spawned, fresh, pc, run, sweep, faults>>

-----------------------------------------------------------------------------
(* Records *)

NewTask ==
  [ status |-> Absent, attempt |-> 0, owner |-> NoRun, epoch |-> 0,
    expired |-> FALSE, cancel |-> FALSE, backoff |-> FALSE, begun |-> FALSE,
    dirty |-> FALSE ]
  \* owner, epoch, expired: the lease; expired is expiresAt <= now
  \* cancel: cancelRequestedAt is set; backoff: notBefore is in the future
  \* begun: the current attempt has recorded its `before` snapshot
  \* dirty: the execution workspace differs from that snapshot

FreeSlot == [run |-> NoRun, expired |-> FALSE]

NewRun == [job |-> NoTask, pulse |-> "none", aborted |-> FALSE, cause |-> "none"]
  \* pulse: the heartbeat in flight has loaded the task, or renewed its lease
  \* aborted: a pulse aborted the execution
  \* cause: what was thrown; "late" once the `before` snapshot is taken

NewSweep ==
  [ todo |-> {}, ambiguous |-> {}, held |-> NoTask, from |-> {},
    joined |-> FALSE, previous |-> 0 ]
  \* todo: listed running tasks still to examine; ambiguous: those of ambiguous slots
  \* held, from: the task at hand, and the owners its slot is released from
  \* joined, previous: enterMaintenance found the fence active; its epoch then

Init ==
  /\ task = [t \in Tasks |-> NewTask]
  /\ slot = [t \in Tasks |-> FreeSlot]
  /\ fence = [active |-> FALSE, epoch |-> 0]
  /\ spawned = {}
  /\ fresh = {}
  /\ pc = [a \in Actors |-> "idle"]
  /\ run = [w \in Runs |-> NewRun]
  /\ sweep = [r \in Recoveries |-> NewSweep]
  /\ faults = 0

-----------------------------------------------------------------------------
(* Store calls *)

\* probeOwner: another host cannot be asked; a finished process is gone.
Probe(a, w) ==
  IF HostOf[a] # HostOf[w] THEN "unknown"
  ELSE IF pc[w] = "gone" THEN "dead"
  ELSE "alive"

\* withStableEpoch: no task write while the fence is active, and an owner's
\* write only in the epoch of its lease.
StableEpoch(epoch) == ~fence.active /\ fence.epoch = epoch

\* The revision CAS of StateRepository.replace.
CurrentRevision(a, t) == <<a, t>> \in fresh

\* assertTransition
MayMove(t, to) ==
  task[t].status \in TaskStatus /\ to \in TRANSITIONS[task[t].status]

\* What every fenced write of an owner checks: epoch, revision, current owner.
OwnerMayWrite(w) ==
  LET t == run[w].job IN
    /\ StableEpoch(task[t].epoch)
    /\ CurrentRevision(w, t)
    /\ task[t].owner = w

\* A written record has a new revision: whoever else read it is stale.
Save(a, t, record) ==
  /\ task' = [task EXCEPT ![t] = record]
  /\ fresh' = {copy \in fresh : copy[2] = t => copy[1] = a}

\* Process a drops its copies.
Forget(a) == fresh' = {copy \in fresh : copy[1] # a}

\* transitionTask
Moved(t, to) == [task[t] EXCEPT !.status = to]

Goto(a, label) == pc' = [pc EXCEPT ![a] = label]

\* A call is refused when its guard says so, and may be refused anyway (lock
\* contention, I/O, the process is killed) in a faulty process.
Fault(a) ==
  /\ a \in Faulty
  /\ faults < MaxFaults
  /\ faults' = faults + 1

Refused(a, guard) == IF guard THEN Fault(a) ELSE UNCHANGED faults

\* runOne's throw to its own catch; cause is kept for it.
Throw(w, cause) ==
  /\ Goto(w, "failing")
  /\ run' = [run EXCEPT ![w].cause = cause]

Occupied == {t \in Tasks : slot[t].run # NoRun}

Running == {t \in Tasks : task[t].status = "running"}

Readiness(t) == DependencyReadiness({task[d].status : d \in Deps[t]})

-----------------------------------------------------------------------------
(* Clients *)

\* TaskStore.create and the launch of a worker; submit swallows a failed launch.
Submit(t) ==
  /\ task[t].status = Absent
  /\ ~fence.active
  /\ \A d \in Deps[t] : task[d].status # Absent
  /\ task' = [task EXCEPT ![t] = Moved(t, "queued")]
  /\ spawned' \in {spawned, spawned \cup {t}}
  /\ UNCHANGED <<slot, fence, fresh, pc, run, sweep, faults>>

\* TaskStore.requestCancel: a running task only records the request, which its
\* worker will notice; a request already recorded is not looked at again.
RequestCancel(t) ==
  /\ task[t].status \in {"queued", "running", "blocked"}
  /\ ~task[t].cancel
  /\ ~fence.active
  /\ IF task[t].status = "running"
     THEN Save(NoRun, t, [task[t] EXCEPT !.cancel = TRUE])
     ELSE Save(NoRun, t, Moved(t, "cancelled"))
  /\ UNCHANGED <<slot, fence, spawned, pc, run, sweep, faults>>

-----------------------------------------------------------------------------
(* A run: runOne(t) by owner w *)

\* The worker process loads a queued task.  Every attempt after the first comes with
\* a notBefore, which is waited for.
Begin(w, t) ==
  /\ pc[w] = "idle"
  /\ t \in spawned
  /\ task[t].status = "queued"
  /\ spawned' = spawned \ {t}
  /\ fresh' = fresh \cup {<<w, t>>}
  /\ run' = [run EXCEPT ![w] = [NewRun EXCEPT !.job = t]]
  /\ Goto(w, IF task[t].attempt = 0 THEN "loaded" ELSE "waiting")
  /\ UNCHANGED <<task, slot, fence, sweep, faults>>

\* runOne returns before its try and leaves no trace.
ReturnAtOnce(w) ==
  /\ Goto(w, "idle")
  /\ Forget(w)
  /\ run' = [run EXCEPT ![w] = NewRun]

\* The task is loaded again after the wait, which may have been too short.  What
\* became of its status meanwhile is not looked at.
LoadAgain(w) ==
  /\ pc[w] = "waiting"
  /\ IF task[run[w].job].backoff THEN ReturnAtOnce(w)
     ELSE /\ fresh' = fresh \cup {<<w, run[w].job>>}
          /\ Goto(w, "loaded")
          /\ UNCHANGED run
  /\ UNCHANGED <<task, slot, fence, spawned, sweep, faults>>

\* TaskScheduler.acquire
AcquireSlot(w) ==
  /\ pc[w] = "loaded"
  /\ LET t == run[w].job IN
       IF slot[t].run = NoRun /\ Cardinality(Occupied) < MaxWorkers
       THEN /\ slot' = [slot EXCEPT ![t] = [run |-> w, expired |-> FALSE]]
            /\ Goto(w, "slotted")
            /\ UNCHANGED <<fresh, run>>
       ELSE ReturnAtOnce(w) /\ UNCHANGED slot
  /\ UNCHANGED <<task, fence, spawned, sweep, faults>>

\* What TaskStore.claim requires before it looks at the dependencies.
MayClaim(w) ==
  LET t == run[w].job IN
    ~fence.active /\ CurrentRevision(w, t) /\ ~task[t].backoff /\ MayMove(t, "running")

\* TaskStore.claim: a new lease in the current epoch and a new attempt.
Claim(w) ==
  /\ pc[w] = "slotted"
  /\ LET t == run[w].job
         granted == MayClaim(w) /\ Readiness(t) = "ready"
     IN \/ /\ granted
           /\ Save(w, t, [Moved(t, "running") EXCEPT
                            !.attempt = task[t].attempt + 1, !.owner = w,
                            !.epoch = fence.epoch, !.expired = FALSE, !.begun = FALSE])
           /\ Goto(w, "claimed")
           /\ UNCHANGED <<run, faults>>
        \/ /\ Refused(w, granted)
           /\ Throw(w, IF MayClaim(w) /\ Readiness(t) = "blocked"
                       THEN "dependency" ELSE "early")
           /\ UNCHANGED <<task, fresh>>
  /\ UNCHANGED <<slot, fence, spawned, sweep>>

\* prepareWorkspace, which may refuse the repository, and setExecutionIsolation.
Prepare(w) ==
  /\ pc[w] = "claimed"
  /\ LET t == run[w].job
         granted == OwnerMayWrite(w) /\ task[t].status = "running"
     IN \/ /\ granted
           /\ Save(w, t, task[t])
           /\ Goto(w, "prepared")
           /\ UNCHANGED run
        \/ /\ Throw(w, "early")
           /\ UNCHANGED <<task, fresh>>
  /\ UNCHANGED <<slot, fence, spawned, sweep, faults>>

\* The `before` snapshot is taken, then recordAttemptStart stores it.
RecordAttemptStart(w) ==
  /\ pc[w] = "prepared"
  /\ LET t == run[w].job IN
       \/ /\ OwnerMayWrite(w)
          /\ Save(w, t, [task[t] EXCEPT !.begun = TRUE, !.dirty = FALSE])
          /\ Goto(w, "executing")
          /\ UNCHANGED <<run, faults>>
       \/ /\ Refused(w, OwnerMayWrite(w))
          /\ Throw(w, "late")
          /\ UNCHANGED <<task, fresh>>
  /\ UNCHANGED <<slot, fence, spawned, sweep>>

\* The provider writes to the execution workspace; no store call is involved.
Edit(w) ==
  /\ pc[w] = "executing"
  /\ task' = [task EXCEPT ![run[w].job].dirty = TRUE]
  /\ UNCHANGED <<slot, fence, spawned, fresh, pc, run, sweep, faults>>

\* The heartbeat timer: the task is loaded, its lease renewed, then its slot.  One
\* heartbeat at a time; whatever it is refused, and a recorded cancellation, abort
\* the execution.
PulseLoad(w) ==
  /\ pc[w] = "executing"
  /\ run[w].pulse = "none" /\ ~run[w].aborted
  /\ LET t == run[w].job IN
       \/ /\ ~task[t].cancel
          /\ fresh' = fresh \cup {<<w, t>>}
          /\ run' = [run EXCEPT ![w].pulse = "loaded"]
          /\ UNCHANGED faults
       \/ /\ Refused(w, ~task[t].cancel)
          /\ run' = [run EXCEPT ![w].aborted = TRUE]
          /\ UNCHANGED fresh
  /\ UNCHANGED <<task, slot, fence, spawned, pc, sweep>>

\* A heartbeat in flight goes on when the execution ends, which waits for it.
InFlight(w, stage) == pc[w] \in {"executing", "failing"} /\ run[w].pulse = stage

AbortPulse(w) == run' = [run EXCEPT ![w].pulse = "none", ![w].aborted = TRUE]

\* TaskStore.heartbeat renews the lease even when it has expired, but not when the
\* task was written since it was loaded.
PulseBeat(w) ==
  /\ InFlight(w, "loaded")
  /\ LET t == run[w].job
         granted == OwnerMayWrite(w) /\ task[t].status = "running"
     IN \/ /\ granted
           /\ Save(w, t, [task[t] EXCEPT !.expired = FALSE])
           /\ run' = [run EXCEPT ![w].pulse = "renewed"]
           /\ UNCHANGED faults
        \/ /\ Refused(w, granted)
           /\ AbortPulse(w)
           /\ UNCHANGED <<task, fresh>>
  /\ UNCHANGED <<slot, fence, spawned, pc, sweep>>

\* TaskScheduler.heartbeat
PulseSlot(w) ==
  /\ InFlight(w, "renewed")
  /\ LET t == run[w].job
         granted == slot[t].run = w
     IN \/ /\ granted
           /\ slot' = [slot EXCEPT ![t].expired = FALSE]
           /\ run' = [run EXCEPT ![w].pulse = "none"]
           /\ UNCHANGED faults
        \/ /\ Refused(w, granted)
           /\ AbortPulse(w)
           /\ UNCHANGED slot
  /\ UNCHANGED <<task, fence, spawned, fresh, pc, sweep>>

\* executor.execute throws: a provider error, a deadline, or the abort.
ExecutorThrows(w) ==
  /\ pc[w] = "executing"
  /\ Throw(w, "late")
  /\ UNCHANGED <<task, slot, fence, spawned, fresh, sweep, faults>>

\* Or it returns an outcome, and the task is loaded again: a recorded
\* cancellation wins over an abort, which wins over the outcome.  Storing the
\* result may be refused.  What becomes of the outcome depends on the workspace
\* and on the review: a plan task that wrote is always blocked.
ExecutorReturns(w) ==
  /\ pc[w] = "executing"
  /\ run[w].pulse = "none"
  /\ fresh' = fresh \cup {<<w, run[w].job>>}
  /\ LET t == run[w].job IN
       \/ /\ task[t].cancel
          /\ Goto(w, "cancelling")
          /\ UNCHANGED <<run, faults>>
       \/ /\ ~task[t].cancel /\ ~run[w].aborted
          /\ \/ Goto(w, "blocking")
             \/ ~(t \in PlanTasks /\ task[t].dirty) /\ Goto(w, "completing")
          /\ UNCHANGED <<run, faults>>
       \/ /\ ~task[t].cancel
          /\ Refused(w, ~run[w].aborted)
          /\ Throw(w, "late")
  /\ UNCHANGED <<task, slot, fence, spawned, sweep>>

\* A fenced write of the owner that ends the attempt in `to`, or throws.
EndAttempt(w, from, guard, to) ==
  /\ pc[w] = from
  /\ LET t == run[w].job
         granted == OwnerMayWrite(w) /\ guard /\ MayMove(t, to)
     IN \/ /\ granted
           /\ Save(w, t, Moved(t, to))
           /\ Goto(w, "finishing")
           /\ UNCHANGED <<run, faults>>
        \/ /\ Refused(w, granted)
           /\ Throw(w, "late")
           /\ UNCHANGED <<task, fresh>>
  /\ UNCHANGED <<slot, fence, spawned, sweep>>

\* TaskStore.complete: a cancellation recorded since the reload still wins.
Complete(w) ==
  EndAttempt(w, "completing", ~task[run[w].job].cancel, "completed")

\* TaskStore.blockWithOutcome
BlockWithOutcome(w) == EndAttempt(w, "blocking", TRUE, "blocked")

\* TaskStore.cancelRunning
CancelRunning(w) ==
  EndAttempt(w, "cancelling", task[run[w].job].cancel, "cancelled")

\* The catch of runOne loads the task once more and looks at what it became.  The
\* abort signal has no reader any more.
CatchLoad(w) ==
  /\ pc[w] = "failing"
  /\ run[w].pulse = "none"
  /\ fresh' = fresh \cup {<<w, run[w].job>>}
  /\ LET t == run[w].job IN
       Goto(w, CASE task[t].status = "queued" /\ run[w].cause = "dependency"
                      -> "blockingDependency"
                 [] task[t].status = "running" /\ task[t].owner = w -> "handling"
                 [] OTHER -> "finishing")
  /\ run' = [run EXCEPT ![w].aborted = FALSE]
  /\ UNCHANGED <<task, slot, fence, spawned, sweep, faults>>

\* cancelRunning, scheduleRetry or fail.  What is thrown here leaves runOne: the
\* task stays running, without a worker.  An error may be of a code that is not
\* retried, and the workspace may be unmeasurable: both are `retryable`.
HandleFailure(w) ==
  /\ pc[w] = "handling"
  /\ LET t == run[w].job
         Retry(retryable) ==
           /\ run[w].cause = "late"
           /\ RetryEligible(task[t].attempt, MaxAttempts[t], retryable,
                            t \in PlanTasks, ~task[t].dirty)
     IN \/ /\ OwnerMayWrite(w)
           /\ \/ task[t].cancel /\ Save(w, t, Moved(t, "cancelled"))
              \/ /\ ~task[t].cancel
                 /\ \E retryable, later \in BOOLEAN :
                      IF Retry(retryable)
                      THEN Save(w, t, [Moved(t, "queued") EXCEPT !.backoff = later])
                      ELSE Save(w, t, Moved(t, "failed"))
           /\ UNCHANGED faults
        \/ /\ Refused(w, OwnerMayWrite(w))
           /\ UNCHANGED <<task, fresh>>
  /\ Goto(w, "finishing")
  /\ UNCHANGED <<slot, fence, spawned, run, sweep>>

\* TaskStore.block of a task that was loaded as queued, or after a backoff as
\* whatever it was then
BlockLoaded(w, from, next) ==
  /\ pc[w] = from
  /\ LET t == run[w].job
         granted == /\ ~fence.active /\ CurrentRevision(w, t) /\ MayMove(t, "blocked")
                    /\ task[t].status = "running" => StableEpoch(task[t].epoch)
     IN \/ /\ granted
           /\ Save(w, t, Moved(t, "blocked"))
           /\ UNCHANGED faults
        \/ /\ Refused(w, granted)
           /\ UNCHANGED <<task, fresh>>
  /\ Goto(w, next)
  /\ UNCHANGED <<slot, fence, spawned, run, sweep>>

BlockDependency(w) == BlockLoaded(w, "blockingDependency", "finishing")

\* Before the claim, the lock of a directory edited in place may be held or
\* ambiguous: the slot goes back at once and nothing is launched; an ambiguous
\* lock also blocks the task.
RefuseWorkspace(w) ==
  /\ pc[w] = "slotted"
  /\ run[w].job \in NonGitTasks
  /\ slot' = [slot EXCEPT ![run[w].job] = FreeSlot]
  /\ Goto(w, "gone") \/ Goto(w, "blockingOwnership")
  /\ UNCHANGED <<task, fence, spawned, fresh, run, sweep, faults>>

BlockOwnership(w) == BlockLoaded(w, "blockingOwnership", "gone")

\* The finally of runOne; a release that fails is ignored.  What follows reads the
\* tasks anew.
ReleaseSlot(w) ==
  /\ pc[w] = "finishing"
  /\ LET t == run[w].job IN
       \/ /\ slot' = IF slot[t].run = w THEN [slot EXCEPT ![t] = FreeSlot] ELSE slot
          /\ UNCHANGED faults
       \/ Fault(w) /\ UNCHANGED slot
  /\ Goto(w, "sweeping")
  /\ Forget(w)
  /\ run' = [run EXCEPT ![w] = NewRun]
  /\ UNCHANGED <<task, fence, spawned, sweep>>

-----------------------------------------------------------------------------
(* launchQueued, at the end of a run and of a recovery *)

Launchable == {t \in Tasks : task[t].status = "queued" /\ ~task[t].backoff}

Doomed == {t \in Launchable : Readiness(t) = "blocked"}

Ready == {t \in Launchable : Readiness(t) = "ready"}

\* A failed or blocked dependency blocks its dependents; both verdicts on
\* dependencies are stable, so the listing they rest on cannot be stale.
BlockDependent(a, t) ==
  /\ pc[a] = "sweeping"
  /\ t \in Doomed
  /\ ~fence.active
  /\ Save(NoRun, t, Moved(t, "blocked"))
  /\ UNCHANGED <<slot, fence, spawned, pc, run, sweep, faults>>

\* One worker for each ready task while slots are free.  The loop stops when it
\* has enough of them, so it need not have come to every doomed task.
LaunchReady(a) ==
  /\ pc[a] = "sweeping"
  /\ LET available == MaxWorkers - Cardinality(Occupied)
         enough == available > 0 /\ Cardinality(Ready) >= available
     IN /\ Doomed = {} \/ fence.active \/ enough
        /\ \E chosen \in SUBSET Ready :
             /\ IF available <= 0 THEN chosen = {}
                ELSE IF enough THEN Cardinality(chosen) = available
                ELSE chosen = Ready
             /\ spawned' = spawned \cup chosen
  /\ Goto(a, IF a \in Runs THEN "gone" ELSE "idle")
  /\ Forget(a)
  /\ UNCHANGED <<task, slot, fence, run, sweep, faults>>

-----------------------------------------------------------------------------
(* Crashes, launches that come to nothing, and the clock *)

\* The worker process is killed between two of its store calls.
Crash(w) ==
  /\ pc[w] \notin {"idle", "gone"}
  /\ Fault(w)
  /\ Goto(w, "gone")
  /\ Forget(w)
  /\ run' = [run EXCEPT ![w] = NewRun]
  /\ UNCHANGED <<task, slot, fence, spawned, sweep>>

\* A launched worker returns at once when the task is no longer queued.
WorkerLeaves(t) ==
  /\ t \in spawned
  /\ task[t].status # "queued"
  /\ spawned' = spawned \ {t}
  /\ UNCHANGED <<task, slot, fence, fresh, pc, run, sweep, faults>>

\* A run that left no trace stands for a later call with an ownerId of its own.
Recycle(w) ==
  /\ pc[w] = "gone"
  /\ \A t \in Tasks : slot[t].run # w /\ ~(t \in Running /\ task[t].owner = w)
  /\ \A r \in Recoveries : w \notin sweep[r].from
  /\ Goto(w, "idle")
  /\ Forget(w)
  /\ run' = [run EXCEPT ![w] = NewRun]
  /\ UNCHANGED <<task, slot, fence, spawned, sweep, faults>>

LeaseExpires(t) ==
  /\ t \in Running
  /\ ~task[t].expired
  /\ task' = [task EXCEPT ![t].expired = TRUE]
  /\ UNCHANGED <<slot, fence, spawned, fresh, pc, run, sweep, faults>>

SlotExpires(t) ==
  /\ t \in Occupied
  /\ ~slot[t].expired
  /\ slot' = [slot EXCEPT ![t].expired = TRUE]
  /\ UNCHANGED <<task, fence, spawned, fresh, pc, run, sweep, faults>>

BackoffEnds(t) ==
  /\ task[t].status = "queued"
  /\ task[t].backoff
  /\ task' = [task EXCEPT ![t].backoff = FALSE]
  /\ UNCHANGED <<slot, fence, spawned, fresh, pc, run, sweep, faults>>

-----------------------------------------------------------------------------
(* A recovery: recover() *)

\* What recover() throws leaves it: the client may call it again.
Leave(r) ==
  /\ Goto(r, "idle")
  /\ sweep' = [sweep EXCEPT ![r] = NewSweep]

\* Variants: the probe dropped, and dead owners never cleared.
ExpiredSlotsUnprobed(r, answer) == {t \in Occupied : slot[t].expired}
ExpiredSlotsKept(r, answer) == {}

\* TaskScheduler.recoverExpired: an expired slot is freed if its owner is dead,
\* and reported as ambiguous if its owner cannot be asked.
ExpiredSlots(r, answer) ==
  {t \in Occupied : slot[t].expired /\ Probe(r, slot[t].run) = answer}

\* recoverExpired, then the listing of the running tasks.
RecoverBegin(r) ==
  /\ pc[r] = "idle"
  /\ slot' = [t \in Tasks |-> IF t \in ExpiredSlots(r, "dead") THEN FreeSlot ELSE slot[t]]
  /\ sweep' = [sweep EXCEPT ![r] = [NewSweep EXCEPT
                  !.todo = Running, !.ambiguous = ExpiredSlots(r, "unknown")]]
  /\ fresh' = fresh \cup ({r} \X Running)
  /\ Goto(r, "scanning")
  /\ UNCHANGED <<task, fence, spawned, run, faults>>

\* Variants: the retry budget is not looked at; nor is the start of the attempt.
RecoverOrphanUnbounded(t, measured) ==
  IF task[t].begun /\ measured /\ ~task[t].dirty
  THEN [Moved(t, "queued") EXCEPT !.backoff = FALSE]
  ELSE Moved(t, "blocked")
RecoverOrphanUnbegun(t, measured) ==
  IF task[t].attempt < MaxAttempts[t] /\ measured /\ ~task[t].dirty
  THEN [Moved(t, "queued") EXCEPT !.backoff = FALSE]
  ELSE Moved(t, "blocked")

\* TaskStore.recoverOrphan of a task whose owner is dead and whose lease is over;
\* without a `before` snapshot, or if measuring fails, nothing shows it unchanged.
RecoverOrphan(t, measured) ==
  IF /\ task[t].attempt < MaxAttempts[t]
     /\ task[t].begun /\ measured /\ ~task[t].dirty
  THEN [Moved(t, "queued") EXCEPT !.backoff = FALSE]
  ELSE Moved(t, "blocked")

\* One listed task: retained, reclaimed, or blocked when its owner cannot be
\* asked.  A refused write ends the recovery, as does a task written since the
\* listing: whether the listed lease of that one is over is left open.
ScanTask(r, t) ==
  /\ pc[r] = "scanning"
  /\ t \in sweep[r].todo
  /\ LET owner == task[t].owner
         decision == ReclaimDecision(task[t].expired, Probe(r, owner))
         current == t \in Running /\ CurrentRevision(r, t)
         todo == sweep[r].todo \ {t}
     IN \/ /\ current /\ decision # "retain" /\ StableEpoch(task[t].epoch)
           /\ \E measured \in BOOLEAN :
                Save(NoRun, t, IF decision = "reclaim" THEN RecoverOrphan(t, measured)
                               ELSE Moved(t, "blocked"))
           /\ sweep' = [sweep EXCEPT ![r].todo = todo, ![r].held = t,
                          ![r].from = IF decision = "reclaim" THEN {owner} ELSE Runs]
           /\ Goto(r, "releasing")
        \/ /\ current => decision # "retain" /\ ~StableEpoch(task[t].epoch)
           /\ Leave(r) /\ Forget(r)
           /\ UNCHANGED task
        \/ /\ current => decision = "retain"
           /\ sweep' = [sweep EXCEPT ![r].todo = todo]
           /\ fresh' = fresh \ {<<r, t>>}
           /\ UNCHANGED <<task, pc>>
  /\ UNCHANGED <<slot, fence, spawned, run, faults>>

\* TaskScheduler.release of the reclaimed owner, or releaseTask of a blocked task.
ReleaseHeld(r) ==
  /\ pc[r] = "releasing"
  /\ LET t == sweep[r].held IN
       slot' = IF slot[t].run \in sweep[r].from
               THEN [slot EXCEPT ![t] = FreeSlot] ELSE slot
  /\ sweep' = [sweep EXCEPT ![r].held = NoTask, ![r].from = {}]
  /\ Goto(r, "scanning")
  /\ UNCHANGED <<task, fence, spawned, fresh, run, faults>>

\* The task of an expired slot whose owner cannot be asked is loaded.
ScanAmbiguous(r, t) ==
  /\ pc[r] = "scanning"
  /\ sweep[r].todo = {}
  /\ t \in sweep[r].ambiguous
  /\ IF task[t].status = "queued"
     THEN /\ fresh' = fresh \cup {<<r, t>>}
          /\ sweep' = [sweep EXCEPT ![r].held = t, ![r].from = Runs]
          /\ Goto(r, "blockingAmbiguous")
     ELSE /\ sweep' = [sweep EXCEPT ![r].ambiguous = sweep[r].ambiguous \ {t}]
          /\ UNCHANGED <<fresh, pc>>
  /\ UNCHANGED <<task, slot, fence, spawned, run, faults>>

\* Still queued, it is blocked and its slot freed.
BlockAmbiguous(r) ==
  /\ pc[r] = "blockingAmbiguous"
  /\ LET t == sweep[r].held
         granted == ~fence.active /\ CurrentRevision(r, t) /\ MayMove(t, "blocked")
     IN \/ /\ granted
           /\ Save(NoRun, t, Moved(t, "blocked"))
           /\ sweep' = [sweep EXCEPT ![r].ambiguous = sweep[r].ambiguous \ {t}]
           /\ Goto(r, "releasing")
        \/ /\ ~granted
           /\ Leave(r) /\ Forget(r)
           /\ UNCHANGED task
  /\ UNCHANGED <<slot, fence, spawned, run, faults>>

\* State is migrated only when nothing runs and no slot is held.
CheckIdle(r) ==
  /\ pc[r] = "scanning"
  /\ sweep[r].todo = {} /\ sweep[r].ambiguous = {}
  /\ IF Running = {} /\ Occupied = {} /\ (fence.active \/ fence.epoch < MaxEpoch)
     THEN Goto(r, "entering")
     ELSE Goto(r, "sweeping")
  /\ UNCHANGED <<task, slot, fence, spawned, fresh, run, sweep, faults>>

\* enterMaintenance reads the fence and the tasks, activates the fence unless it
\* already is, and reads the tasks again.
BeginEnter(r) ==
  /\ pc[r] = "entering"
  /\ IF Running # {} THEN Leave(r)
     ELSE /\ Goto(r, IF fence.active THEN "rechecking" ELSE "activating")
          /\ sweep' = [sweep EXCEPT ![r].joined = fence.active,
                                    ![r].previous = fence.epoch]
  /\ UNCHANGED <<task, slot, fence, spawned, fresh, run, faults>>

\* MaintenanceStore.enter
ActivateFence(r) ==
  /\ pc[r] = "activating"
  /\ IF fence.active THEN Leave(r) /\ UNCHANGED fence
     ELSE /\ fence' = [active |-> TRUE, epoch |-> fence.epoch + 1]
          /\ Goto(r, "rechecking")
          /\ UNCHANGED sweep
  /\ UNCHANGED <<task, slot, spawned, fresh, run, faults>>

\* Variant: the second reading of the tasks dropped.
RecheckNothing(r) ==
  /\ pc[r] = "rechecking"
  /\ Goto(r, "entered")
  /\ UNCHANGED <<task, slot, fence, spawned, fresh, run, sweep, faults>>

\* A claim may have come between the first reading and the fence.
Recheck(r) ==
  /\ pc[r] = "rechecking"
  /\ IF Running = {} THEN Goto(r, "entered") /\ UNCHANGED sweep
     ELSE IF sweep[r].joined THEN Leave(r)
     ELSE Goto(r, "aborting") /\ UNCHANGED sweep
  /\ UNCHANGED <<task, slot, fence, spawned, fresh, run, faults>>

\* Variant: the epoch is not restored.
AbortEnterForward(r) ==
  /\ pc[r] = "aborting"
  /\ fence' = [fence EXCEPT !.active = FALSE]
  /\ Leave(r)
  /\ UNCHANGED <<task, slot, spawned, fresh, run, faults>>

\* MaintenanceStore.abortEnter restores the epoch read before the entry; the
\* epoch check stands for the check of the entered revision, too.
AbortEnter(r) ==
  /\ pc[r] = "aborting"
  /\ fence' = IF fence.active /\ fence.epoch = sweep[r].previous + 1
              THEN [active |-> FALSE, epoch |-> sweep[r].previous] ELSE fence
  /\ Leave(r)
  /\ UNCHANGED <<task, slot, spawned, fresh, run, faults>>

\* migrateRecordsInMaintenance checks the fence once, then rewrites records.
Migrate(r) ==
  /\ pc[r] = "entered"
  /\ IF fence.active THEN Goto(r, "migrating") /\ UNCHANGED sweep ELSE Leave(r)
  /\ UNCHANGED <<task, slot, fence, spawned, fresh, run, faults>>

\* The sessions' migration checks the fence again; then MaintenanceStore.exit.
ExitMaintenance(r) ==
  /\ pc[r] = "migrating"
  /\ \/ /\ fence' = [fence EXCEPT !.active = FALSE]
        /\ Goto(r, "sweeping")
        /\ UNCHANGED sweep
     \/ /\ ~fence.active
        /\ Leave(r)
        /\ UNCHANGED fence
  /\ UNCHANGED <<task, slot, spawned, fresh, run, faults>>

\* Any store call of a recovery may throw, and its process may be killed.  An
\* active fence stays as it is.
RecoverAbandon(r) ==
  /\ pc[r] # "idle"
  /\ Fault(r)
  /\ Leave(r) /\ Forget(r)
  /\ UNCHANGED <<task, slot, fence, spawned, run>>

-----------------------------------------------------------------------------

PulseGoesOn(w) == PulseBeat(w) \/ PulseSlot(w)

Pulse(w) == PulseLoad(w) \/ PulseGoesOn(w)

RunStep(w) ==
  \/ LoadAgain(w) \/ AcquireSlot(w) \/ Claim(w) \/ Prepare(w) \/ RecordAttemptStart(w)
  \/ ExecutorReturns(w) \/ ExecutorThrows(w)
  \/ Complete(w) \/ BlockWithOutcome(w) \/ CancelRunning(w)
  \/ CatchLoad(w) \/ HandleFailure(w) \/ BlockDependency(w)
  \/ RefuseWorkspace(w) \/ BlockOwnership(w) \/ ReleaseSlot(w)

RecoveryStep(r) ==
  \/ \E t \in Tasks : ScanTask(r, t) \/ ScanAmbiguous(r, t)
  \/ BlockAmbiguous(r) \/ ReleaseHeld(r) \/ CheckIdle(r) \/ BeginEnter(r) \/ ActivateFence(r)
  \/ Recheck(r) \/ AbortEnter(r) \/ Migrate(r) \/ ExitMaintenance(r)

SweepStep(a) == LaunchReady(a) \/ \E t \in Tasks : BlockDependent(a, t)

Clock == \E t \in Tasks : LeaseExpires(t) \/ SlotExpires(t) \/ BackoffEnds(t)

Next ==
  \/ \E t \in Tasks : Submit(t) \/ RequestCancel(t) \/ WorkerLeaves(t)
  \/ \E w \in Runs :
       \/ \E t \in Tasks : Begin(w, t)
       \/ RunStep(w) \/ Edit(w) \/ Pulse(w) \/ Crash(w) \/ Recycle(w)
  \/ \E r \in Recoveries : RecoverBegin(r) \/ RecoveryStep(r) \/ RecoverAbandon(r)
  \/ \E a \in Actors : SweepStep(a)
  \/ Clock

Spec == Init /\ [][Next]_vars

\* A client waiting for a queued task calls recover() every five seconds.
WaitRecover(r) == (\E t \in Tasks : task[t].status = "queued") /\ RecoverBegin(r)

\* A process that is scheduled goes on, the clock ticks, executions end (the
\* controller has a deadline), and waiting clients keep calling recover().
FairSpec ==
  /\ Spec
  /\ \A w \in Runs : /\ WF_vars(RunStep(w)) /\ WF_vars(PulseGoesOn(w)) /\ WF_vars(SweepStep(w))
                      /\ WF_vars(Recycle(w))
                      /\ WF_vars(\E t \in Tasks : Begin(w, t))
  /\ \A r \in Recoveries : /\ WF_vars(RecoveryStep(r)) /\ WF_vars(SweepStep(r))
                            /\ WF_vars(WaitRecover(r))
  /\ \A t \in Tasks : /\ WF_vars(LeaseExpires(t)) /\ WF_vars(SlotExpires(t))
                       /\ WF_vars(BackoffEnds(t))

\* Users and starting terminals call recover() again and again as well.
PersistentSpec == FairSpec /\ \A r \in Recoveries : WF_vars(RecoverBegin(r))

-----------------------------------------------------------------------------
(* Properties *)

RunLabels ==
  { "idle", "waiting", "loaded", "slotted", "claimed", "prepared", "executing",
    "completing", "blocking", "cancelling", "failing", "handling", "finishing",
    "blockingDependency", "blockingOwnership", "sweeping", "gone" }

RecoveryLabels ==
  { "idle", "scanning", "blockingAmbiguous", "releasing", "entering", "activating", "rechecking",
    "aborting", "entered", "migrating", "sweeping" }

TaskRecords ==
  [ status : TaskStatus \cup {Absent}, attempt : Nat, owner : Runs \cup {NoRun},
    epoch : Nat, expired : BOOLEAN, cancel : BOOLEAN, backoff : BOOLEAN,
    begun : BOOLEAN, dirty : BOOLEAN ]

SlotRecords == [run : Runs \cup {NoRun}, expired : BOOLEAN]

RunRecords ==
  [ job : Tasks \cup {NoTask}, pulse : {"none", "loaded", "renewed"},
    aborted : BOOLEAN, cause : {"none", "early", "late", "dependency"} ]

SweepRecords ==
  [ todo : SUBSET Tasks, ambiguous : SUBSET Tasks, held : Tasks \cup {NoTask},
    from : SUBSET (Runs \cup {NoRun}), joined : BOOLEAN, previous : Nat ]

Copies == Actors \X Tasks

Types ==
  /\ task \in [Tasks -> TaskRecords]
  /\ slot \in [Tasks -> SlotRecords]
  /\ fence \in [active : BOOLEAN, epoch : Nat]
  /\ spawned \subseteq Tasks
  /\ fresh \subseteq Copies
  /\ pc \in [Actors -> RunLabels \cup RecoveryLabels]
  /\ run \in [Runs -> RunRecords]
  /\ sweep \in [Recoveries -> SweepRecords]
  /\ faults \in 0..MaxFaults

AttemptsBounded == \A t \in Tasks : task[t].attempt <= MaxAttempts[t]

SlotsBounded == Cardinality(Occupied) <= MaxWorkers

\* The types of the state, with the two budgets in them: no task is attempted
\* more often than its retry policy allows, and no more slots are held than the
\* scheduler has.
TypeOK == Types /\ AttemptsBounded /\ SlotsBounded

\* A run between its claim and the settlement of its attempt.
Attempting ==
  {"claimed", "prepared", "executing", "completing", "blocking", "cancelling"}

\* Two workers never hold an attempt of the same task: a retry or a reclaim
\* gives a task away only after its worker has let go of it or has died.
OneExecutor ==
  \A v, w \in Runs :
    /\ pc[v] \in Attempting /\ pc[w] \in Attempting
    /\ run[v].job = run[w].job
    => v = w

\* A run from its scheduler slot to the release of it.
Working ==
  Attempting \cup {"slotted", "failing", "handling", "blockingDependency", "finishing"}

\* No more workers than slots, whatever expires: a slot that lapsed is not given
\* to a second worker while the first still works.  (Processes of one host.)
WorkersWithinLimit ==
  Cardinality({w \in Runs : pc[w] \in Working}) <= MaxWorkers

\* A task is started only after every one of its dependencies has completed, and
\* they stay so.
DependenciesFirst ==
  \A t \in Tasks : task[t].status \in {"running", "completed"} =>
    \A d \in Deps[t] : task[d].status = "completed"

\* A task that may edit waits for another attempt only in the workspace its last
\* attempt found: retries and reclaims never build on half-done edits.
WritableRetryIsClean ==
  \A t \in Tasks \ PlanTasks : task[t].status = "queued" => ~task[t].dirty

\* While records are migrated the fence is up and no task runs.
MigrationFenced ==
  \A r \in Recoveries : pc[r] = "migrating" => fence.active /\ Running = {}

\* No task runs while records are migrated, however many processes recover
\* (docs/waves/wave-04-prd.md: migration pauses new claims "while replacement is
\* in progress").
ClaimsPaused == (\E r \in Recoveries : pc[r] = "migrating") => Running = {}

\* Outside maintenance every running task has a lease of the current epoch:
\* otherwise its worker, and any recovery of it, would be refused for good.
RunningLeaseCurrent ==
  ~fence.active => \A t \in Running : task[t].epoch = fence.epoch

Lifecycle ==
  INSTANCE TaskLifecycle WITH
    status <- [t \in Tasks |-> task[t].status],
    attempt <- [t \in Tasks |-> task[t].attempt],
    cancelRequested <- [t \in Tasks |-> task[t].cancel]

\* The engine keeps the promises of TaskLifecycle, stale writers included.
LifecycleSpec == Lifecycle!Spec

\* A queued task does not stay queued while clients wait: whatever workers die, it
\* is started, blocked or cancelled.  (If no other task keeps the slots: one that
\* a dead worker of another host held for a cancelled task is never freed.)
QueuedIsDecided ==
  \A t \in Tasks : (task[t].status = "queued") ~> (task[t].status # "queued")

\* A running task whose worker has died is recovered: retried or blocked
\* (docs/waves/wave-04-prd.md: startup and sweep handle "orphaned running work").
OrphansRecovered ==
  \A t \in Tasks :
    (t \in Running /\ pc[task[t].owner] = "gone") ~> (t \notin Running)

=============================================================================

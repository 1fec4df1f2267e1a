# ZeuZ Agent: specifications

TLA+ specifications of the parts of ZeuZ Agent (`src/src`) whose correctness is a
matter of order: the task engine with its scheduler, leases and maintenance
fence, the worktrees and results of its attempts, the record lock all of its writes
go through, the lock of a directory edited in place, the turn of a conversation with
its review gate, the phases of a turn with their deadlines and the supervised
provider process, and the lock of the skill registry. TLC checks them on small
instances; TLAPS proves the central properties for all instances.

Paths below are relative to the repository (`src/...` here is `src/src/...` in
`PROJECT.json`). Everything is run in this directory:

    tlc -workers 2 -config engine_one_task.cfg MCTaskFiles
    tlapm TaskFilesProofs.tla

## 1. The system

ZeuZ runs model providers (Claude, Codex, Cursor, ...) on tasks. A task is a
durable record below a state root shared by all processes of a user: terminal
UIs, command line clients, and one detached worker process per launched task.
There is no server. Coordination is by files: records with a revision, lock
files with leases, and liveness probes of process ids. A task is executed by
asking the turn controller, which is also what a terminal's conversation uses.

The program itself is TypeScript, about ten thousand lines in `src`. The Python
files of the repository are skills bundled in `src/catalog/bundles`: texts and
scripts that are installed for a provider, and that no part of the program calls.
They are left out as a whole.

| Component (source) | State it keeps | Operations | Interacts with | Modelled in |
|---|---|---|---|---|
| Durable task engine (`task-engine.ts`, `task-store.ts`, `task-policy.ts`) | a record per task: status, attempt = fencing token, lease (owner, host, epoch, expiry), retry policy, cancellation, attempt evidence | submit, requestCancel, runOne (claim, isolation, attempt start, heartbeat, complete / block / retry / fail / cancel), recover, launchQueued, wait | calls every store below; launches worker processes | `TaskEngine`, `TaskFiles` |
| Worker slots (`task-scheduler.ts`) | one record with at most three slots, each with owner and expiry | acquire, heartbeat, release, releaseTask, recoverExpired, count | called by runs and recoveries; probes processes | `TaskEngine` |
| Maintenance fence (`maintenance-store.ts`) | one record: active, epoch, reason | enter, exit, abortEnter, withStableEpoch | every task and session write runs inside withStableEpoch | `TaskEngine` |
| Record repository (`state-repository.ts`) | JSON records with a revision, a lock file per record, quarantine and migration backups | create, replace, load, list, withLock, recoverExpiredLock, migrateLegacy | below all stores | `RecordLock` |
| Workspace locks (`workspace-lock-store.ts`) | a record per directory edited in place | acquire, heartbeat, release | called by runOne for non-Git workspaces | `WorkspaceLock` |
| Worktrees, measurement (`worktree-manager.ts`, `workspace.ts`, `git.ts`) | Git worktrees and branches; fingerprints | create or reuse, snapshot, classify | runOne and recover, the controller | `TaskFiles`, in part |
| Result store (`task-result-store.ts`) | a write-once text per attempt | persist, verifyForTask, retrieve | runOne, TaskStore | `TaskFiles`, in part |
| Turn controller, review gate (`controller.ts`, `orchestration.ts`, `review-policy.ts`) | one turn: producer, fallback, review, remediation | send, ask, commands | executor of runOne; sessions, phases | `Turn`, in part |
| Phase deadlines (`deadline-policy.ts`) | the first cause of an abort, a timer | createPhaseAbortSource, runPhase | the controller, the supervisor | `PhaseRun` |
| Process supervision (`process.ts`) | a child process, its signals and timers | runSupervisedProcess | the adapters | `ProcessSupervisor`, `PhaseRun` |
| Sessions (`session-store.ts`) | a record per conversation | create, save, load | record repository, the controller | `Turn`, in part |
| Skill registry: installs (`skill-registry/lease-lock.ts`, `install-state.ts`, `installer.ts`) | one install-state record; a directory of claims | acquireLeaseLock, release, mutateInstallState, resetInstallState | installer, command line | `LeaseLock`, in part |
| Streaming, skill catalog, adapters, permissions, context, UI | mostly none of their own | parsing, translation, display | the above | no |

What is hard in it:

- every `await` between two store calls is a point where other processes run;
  what was read may be stale by the next call (CAS revisions, fencing tokens);
- processes die at any point and leave leases, slots, lock files, an active
  fence, unrecorded worktrees or half-done edits behind; recovery is by whoever
  comes next;
- a process may be suspended past its lease and come back;
- a process of another host can never be proved dead;
- clean-up steps may fail on their own, and their errors are mostly ignored; a
  write may happen and its call throw all the same;
- two recoveries may run at once;
- the user, another terminal and a provider edit the directory that a turn
  measures, reviews and delivers, and the measurements are moments apart;
- an abort, a deadline, a callback that throws and the end of the child come in any
  order, and the call has one answer.

What makes each component correct: for the engine, one executor per task,
attempts within the budget, dependencies before dependents, no retry on
half-done edits, cancellation before completion, no run during a migration,
queued tasks getting decided, and no attempt that meets the worktree or the result
of another; for the slots, no more workers than slots; for the fence, no write of an
old epoch and no epoch that strands a running task; for the repository, a replace
that is atomic and won by one writer per revision, and a migration that loses
nothing; for the workspace lock, one editor; for a turn, delivered changes that were
reviewed by another family of models just as they are, no message lost, no second
model on the first one's edits, no writer after a cancellation, and an end; for a
phase, one truthful answer, the first cause deciding, and no provider left running
without SIGKILL having been tried; for the install lock, one owner at a time, in the
order of arrival, that keeps its claim until it lets go of it.

## 2. The modules

| Module | What it is |
|---|---|
| `TaskPolicy` | the pure decisions of `task-policy.ts`: transitions, reclaimDecision, retry eligibility, dependency readiness |
| `TaskLifecycle` | abstract: what the engine promises of a task |
| `TaskEngine`, `MCTaskEngine` | runOne, recover, launchQueued, submit, requestCancel over tasks, slots and fence; instances for TLC |
| `TaskFiles`, `MCTaskFiles` | `TaskEngine` with the worktrees and the results its runs leave |
| `TaskEngineProofs` | types, one executor, clean retries, the maintenance |
| `LifecycleProofs` | `TaskEngine` implements `TaskLifecycle`; dependencies, ends, slots and workers |
| `TaskFilesProofs` | worktrees and results |
| `RecordStore` | abstract: a record that is replaced atomically |
| `RecordLock`, `MCRecordLock`, `RecordLockProofs` | replace, migrateLegacy and the lock file below them |
| `EditorLock` | abstract: who may edit a directory |
| `WorkspaceLock`, `MCWorkspaceLock`, `WorkspaceLockProofs` | the lock of a directory edited in place, over records that behave as `RecordStore` says |
| `PhaseOutcome` | abstract: how a phase ends |
| `ProcessSupervisor` | one supervised process: a state machine of handlers and timers |
| `PhaseRun`, `PhaseRunProofs` | a phase: `ProcessSupervisor` with the abort source and runPhase |
| `Turn`, `TurnProofs` | a turn, its review and its session, over phases that behave as `PhaseOutcome` says |
| `LeaseLock`, `MCLeaseLock`, `LeaseLockProofs` | the ticket lock around the install state |

The layers meet at the abstract modules: `RecordLock` implements `RecordStore`, which
`TaskEngine` and `WorkspaceLock` assume of a store call; `WorkspaceLock` implements
`EditorLock`; `PhaseRun` implements `PhaseOutcome`, which `Turn` assumes of a phase;
`TaskEngine` implements `TaskLifecycle`.

`TaskLifecycle`, `RecordStore`, `EditorLock` and `PhaseOutcome` are specifications of
promises, not translations of code, and so have no entries in the map. Definitions
whose comment says "variant" are wrong forms of the definition that follows
them; no specification uses them. They show that the property named with them in
`PROJECT.json` would catch the mistake.

### TaskEngine

One action is one store call with the control around it, because a store call
takes effect at one point: a write runs in `withStableEpoch`, under the lock of
the maintenance record, and ends in a compare-and-swap.

| State | In the code |
|---|---|
| `task[t]` | `DurableTaskRecord`; `owner`, `epoch`, `expired` are its lease; `dirty` compares the workspace with the attempt's `before` |
| `slot[t]` | the `SchedulerSlot` of t |
| `fence` | the root `MaintenanceRecord` |
| `fresh` | whose copy of which record has the current revision |
| `pc[w]`, `run[w]` | where runOne of owner `w` is, and its locals |
| `pc[r]`, `sweep[r]` | where recover is, and its locals |
| `spawned` | tasks with a launched worker that has not begun |

A run goes through `Begin` (load), for a retry `LoadAgain` (the load after the
backoff, which looks at the wait but not at the status), `AcquireSlot`, `Claim`,
`Prepare` (isolation), `RecordAttemptStart`, then `Edit` and heartbeats any number of
times, `ExecutorReturns` or `ExecutorThrows`, one of `Complete`, `BlockWithOutcome`,
`CancelRunning`, or the catch (`CatchLoad`, `HandleFailure`, `BlockDependency`),
then the finally (`ReleaseSlot`) and `launchQueued` (`BlockDependent`,
`LaunchReady`). The run of a directory edited in place may be turned away before
its claim (`RefuseWorkspace`, `BlockOwnership`). A recovery goes through
`RecoverBegin`, `ScanTask` and `ReleaseHeld` for each listed task, `ScanAmbiguous`
and `BlockAmbiguous`, `CheckIdle`, and, when nothing runs, the maintenance
(`BeginEnter`, `ActivateFence`, `Recheck`, `AbortEnter` or `Migrate`,
`ExitMaintenance`), and `launchQueued`.

A heartbeat is three store calls with everybody's steps between them: `PulseLoad`,
`PulseBeat` (the lease) and `PulseSlot`. One is in flight at a time, and it may be so
while the execution ends. The code waits for it there, so `ExecutorReturns` and
`CatchLoad` come only when there is none (`run[w].pulse`); one that is refused, or finds
a cancellation, aborts the execution (`AbortPulse`).

Abstractions. A revision is not a number: `fresh` holds whether a copy is
current. A clock is not a number: a lease, a slot and a backoff expire at any
time. A launched worker is a member of a set, so two launches of one task before
either begins count as one; `Recycle` makes runs available again, so a second
worker still occurs. What the executor does is any outcome. Where the model
allows more than the code: a retained task may also be taken for one that was
rewritten since the listing (`ScanTask`), any fenced call of a faulty process may
be refused though its guard holds, and a retry error may be of any class. Where
it groups: the load at the start of a store method and its write are one step
(a change in between makes the write fail, which the model has as a refusal),
and the CAS loop of the scheduler is one step. A store call that throws after its
record was written is a step of `RecordLock` and `RecordStore`; here it is a write
followed by an error at the next step.

### TaskFiles

Two variables beside those of `TaskEngine`: `tree[t]`, which attempt made the
worktree and the branch of t and whether the record of t names them, and
`result[t]`, the last attempt with a stored result and the run that stored it.
`MakeWorktree` is the step in which Git makes both; it comes between the claim and
`PrepareIn`, where the record names them, and a crash between the two leaves a
worktree that nobody may reuse or remove. `PersistOutcome` stores a result for
the attempt that the reloaded record has, or finds the same text stored already;
`EndVerified` looks at it again in `complete` and `blockWithOutcome`. All other steps
leave the files alone.

### RecordLock

`withLock` creates `<id>.lock` exclusively (`OpenLock`), fills it (`FillLock`,
`FillFails`), runs the action and removes the path (`Unlock`, `UnlockFails`). The
action is that of replace (`ReadCurrent`, `SaveRecord`) or that of migrateLegacy
(`Reread`, `BackUp`, `Describe`, `Convert`: the record is read again, then copied, the
copy described by a manifest, and the record rewritten). A process that finds the
file reads it (`Inspect`), and if it is filled, expired and its owner is dead on
this host renames the path away (`Reclaim`), unless the rename fails
(`ReclaimFails`), then tries again or gives up (`Retry`). The rename and the removal name the path, so they may hit another file
than the one that was read: `lock` is what has the path now. `files` is the schema
of the record and whether its backup and its manifest exist.

### WorkspaceLock

`acquire` reads the record (`Examine`) and replaces it under the revision it read
(`Take`) if it is free, or expired with an owner proved dead; otherwise the task is
turned away. While a task is executed a heartbeat loads (`LoadBeat`) and
renews (`WriteBeat`), and edits go on meanwhile; the worker waits for it (`Finish`),
then loads and releases (`LoadRelease`, `Release`). `fresh` is, as elsewhere, whose
copy of the record is current. Process identifiers are not reused.

### ProcessSupervisor and PhaseRun

`runSupervisedProcess` is a set of handlers on shared locals, run one at a time; the
record `call` is those locals, and each handler is a function on it: the close of the
child, a callback that throws, an abort, the grace timer, the watchdog, the error of
the child. A kill may be the cause of an event inside itself, so a close may be
deferred, and the escalation is a set of possible next states. `PhaseRun` adds the
abort source (`RecordCause`, `UserAborts`, `DeadlineFires`) and runPhase: spawn, the
return of the run, and the saving of the message about a termination, which may fail.

### Turn

| State | In the code |
|---|---|
| `workspace` | the content of the directory, as a fingerprint sees it |
| `sess` | the stored session and the copy of each terminal, with revision and messages |
| `turn[t]` | the locals of send or ask, runReview and remediate of terminal t |

A turn goes through `Begin` and `Open` (the first measurement and save),
`ProducerReturns` or `ProducerFails` with `FallBack` up to twice, `StartReview` (the
second measurement and the packet), `Review`, a remediation (`RemediationReturns`,
`RemediationFails`) with a second review, and `Gate`. `OutsideEdit` is the user and
every other program, `Write` a live provider, `Abort` the cancellation of a task, `Resume`
and `Command` the commands that load or save the session. Providers are families,
because what a review is worth depends on the families of producer and reviewer.
A measurement returns the content of its moment, or fails. The first fallback goes by
the text of an error, so any error may be taken for an unavailable model, that of a
refused save included; the check of the other model's health may throw, which ends the
turn.

### LeaseLock

A bakery over a directory. A caller creates its `choosing` file (`Announce`,
`FillChoosing`), lists the directory (`ListInDoorway`), reads the listed files
one at a time (`Look`), draws a ticket (`Draw`), writes its claim (`FillClaim`),
removes `choosing` (`LeaveDoorway`), and then lists and reads again until nobody
is choosing and its claim is first (`ListInWait`, `Look`, `Check`), or gives up
(`TimeOut`, `Withdraw`, whose removals may fail one by one unnoticed). As owner it reads
the install state, which may be unreadable, and writes it, or resets it, releases, and after a reset removes the directory if it is empty. A file
exists empty before it has its content, and who reads an empty one fails
with `INSTALL_LOCK_CORRUPT`. `ahead` is a history variable: the claims that were
written before a caller announced itself. `fresh` is who has read the current
install state. `readdir` is taken as a snapshot. A
process is a sequence of calls: a token is random, so a member of `Processes`
is used for another call only when no file and no reading has it any more.

## 3. The runs

| Run | Distinct states | Checks | Shows |
|---|---|---|---|
| `engine_one_task` | 7,571,877 | TypeOK, OneExecutor, WritableRetryIsClean, MigrationFenced, RunningLeaseCurrent, NoStrayWorktree, ResultFree, OutcomeStored | one task in a worktree with a retry, a worker on each of two hosts, a recovery that migrates, two faults |
| `engine_dependencies` | 1,834,084 | WorkersWithinLimit, DependenciesFirst, LifecycleSpec | a chain of two tasks, the first in a directory behind its lock, and one slot; every step is one of `TaskLifecycle` |
| `engine_progress` | 1,521,394 | QueuedIsDecided | a task with a retry, a worker on each of two hosts: under fairness a queued task is started, blocked or cancelled |
| `record_lock` | 296,277 | OneHolder, BackedUp, Versioned, LockRecovered | two processes of a host and one of another replace and migrate; `RecordStore` is implemented |
| `workspace_lock` | 3,452 | TypeOK, OneEditor, LockSpec, LockPassedOn | three workers of two hosts, two faults; `EditorLock` is implemented |
| `phase_run` | 268 | TypeOK, HonestAnswer, NoChildAbandoned, CloseSettles, QuietAfterAnswer, FirstCauseDecides, PhaseEnds | a phase with its deadline, the user's abort and its provider; `PhaseOutcome` is implemented |
| `turn` | 789,588 | TypeOK, DeliveredIsReviewed, SavedWhenDelivered, StoredHistoryGrows, FallbackIsSafe, ReviewerIsOther, CancelStopsWriters, TurnEnds | a terminal that takes turns and one that only uses commands, in one directory and one session |
| `install_lock` | 188,171 | FirstComeFirstServed, OwnerKeepsClaim, DeadClaimRemoved | two callers that install and reset, one fault |
| `migration_unfenced`, `maintenance_wedge`, `record_lock_steal`, `install_lock_overlap` | | one property each | TLC finds it violated: section 4 |

Deadlock is checked in `workspace_lock`, where somebody can always go on. Elsewhere
it is not: when all tasks are done, the phase or the turns have ended, or all callers
have had their turn and died, the system may stop.

Bounds, all CONSTANTS:

- two runs suffice for two executors of a task, and `Recycle` lets each stand
  for any number of workers one after another; with the two of
  `engine_one_task` and `engine_progress` on different hosts the recovery can probe one of them and not the other;
- `MaxFaults` (one or two) bounds crashes, refused calls and failed clean-ups
  together; two of them let a recovery die after a worker did;
- `MaxEpoch` is the epoch at which recoveries stop migrating: an aborted entry gives
  its epoch back, so at one, entries and aborts still follow each other, and a
  maintenance follows them; `engine_dependencies` leaves maintenance out;
- `MaxWorkers = 1` makes the slot limit bite with two tasks (the code has three
  slots; the model and the proofs have any number);
- `MaxAttempts = 2` has one retry, so both an exhausted and an open budget occur;
- three workers of a directory are the least with which a third may take the lock
  while the taker of a dead one's is at work and the other host looks on;
- `phase_run` has no bound: its state is finite as it is, so TLC covers all of it;
- `MaxUses = 2` turns and commands let a turn follow or meet a command of the other
  terminal, or another turn with its fallbacks, review and remediation; two contents are
  the least with which a directory changes and changes back; a Sol and a Terra
  producer are the two cases of who reviews whom. `Contents`, `Terminals` and the
  bound are arbitrary in the proofs;
- `MaxTicket = 3` is where the safe integers end; tickets start again at one when
  no claim is left, so the bound also exercises the exhaustion;
- `install_lock` has two callers: three give more than 20 million states.
  What it says of order among more callers is proved instead.

`SymmetricRuns` permutes runs of the same host in runs without liveness
properties.

## 4. What the runs found

Four runs are expected to end in a violation; each `finding` quotes what the
repository says.

- `migration_unfenced`: the second of two recoveries joins the active fence;
  the first one's `exit` drops it for both, and a claim is granted while the
  second still rewrites records.
- `maintenance_wedge`: a claim comes between the listing and the activation of
  the fence, the recovery dies before `abortEnter`, the worker dies. The fence
  stays, and every later recovery is refused the write that would recover the task.
- `record_lock_steal`: of two processes that inspected a dead lock the slower
  one renames the live lock the faster one has taken since. It takes three
  processes of one host, hence the assumption `Paired` in the proofs.
- `install_lock_overlap`: a caller finishes choosing between another's listing
  and its reading of the listed files. The `choosing` file is gone and skipped,
  the claim is not in the listing, both get the lock, and an update is lost.

Seen while modelling, and no run of its own:

- A cancellation of a running task whose worker dies before it sees it stays on
  record when a recovery queues the task again. `requestCancel` looks at no further
  request then; the new attempt is executed until its first heartbeat sees it
  (`docs/waves/wave-04-prd.md:75`). `LifecycleSpec` holds: it never completes.
- A producer that a deadline stopped, but whose message about that cannot be saved,
  leaves runPhase with the error of the store. The second catch of send
  (`src/controller.ts:152`) takes that for a failure and may ask another model, which
  `docs/waves/wave-03-tasks.md:82` excludes for a stopped producer. So may the first, if
  that error reads as if a model were unavailable (`src/controller.ts:144`).
  `FallbackIsSafe` names the case: `last` is "unsaved" then, not one of `Stops`.
- That second fallback is on any error of the first model, also one of its execution,
  while `docs/waves/wave-01-prd.md:16` speaks of a failure before execution. The
  directory has to be unchanged in either case, which is what `FallbackIsSafe` says.
- What a failed turn leaves in the directory is the baseline of the next one, which
  delivers it without a review unless it changes something else.
- What is delivered is what the last measurement saw. An edit after it is not
  noticed, nor is one that is undone while the reviewer looks.
- A review has no signal, and a turn of the terminal has none at all: a cancellation
  takes effect when the review is over, before anything else is spawned.
- The slot of a worker on another host that dies before its claim stays taken for good
  if the task is cancelled meanwhile: `recover` frees such a slot only of a queued task
  (`src/task-engine.ts:309`). With as many of them as there are slots, other tasks wait
  forever, so `QueuedIsDecided` is stated of a task that has the slots to itself.
- The provider of a killed worker may outlive it (`README.md:354`). A recovery goes by
  the worker's process and by the workspace as it is at that moment, so the provider may
  write after the measurement, and beside the next attempt, while
  `docs/waves/wave-04-prd.md:99` says that a reclaim "never permits concurrent attempts".
  In the model `Edit` ends with the worker: `OneExecutor` is about workers, and
  `WritableRetryIsClean` about providers that die with theirs.
- Two listings that meet a corrupt record both move it to quarantine; the second rename
  finds nothing, and its listing fails (`docs/waves/wave-04-prd.md:53`).

## 5. Fairness

`FairSpec` of `TaskEngine`: weak fairness of each step of a live run and
recovery (the event loop goes on, and an execution ends because the controller
has phase deadlines), of the beginning of launched workers, of the clock, of
`Recycle` (a new worker has a new owner id) and of `WaitRecover`: a client that
waits for a queued task calls `recover` every five seconds (`wait`). There is no
fairness for submissions, cancellations, edits, crashes or for calls that are refused,
nor for the beginning of heartbeats; one that has begun goes on (`PulseGoesOn`), since
the end of its execution waits for it.
Submitting without waiting gives no such guarantee: then nobody may come.
`PersistentSpec`, used only for the violation `maintenance_wedge`, adds that
users go on recovering for whatever reason; the task is stuck even so.

`PhaseRun`: the steps of the code go on (spawn, the return of a settled call, the
save), the timers fire (deadline, grace, watchdog), and a child that could not be
started says so. A provider may run forever, ignore signals and never close, and the
user need not abort: `PhaseEnds` rests on the deadline alone.

`Turn`: the steps of a turn go on. That a phase ends is what `PhaseEnds` shows; that a
save returns is its own bounded waiting for the record lock.

`FairSpec` of `WorkspaceLock`: workers go on, tasks keep coming, leases expire. An
execution need not end, and heartbeats need not come: `LockPassedOn` is about the lock
of a worker that died, not about one that holds it.

`FairSpec` of `RecordLock` and of `LeaseLock`: live processes go on, leases
expire, and callers come back. In `RecordLock` the rename of `Reclaim` may fail, so its
fairness is strong: who tries again and again succeeds once. Dead owners are cleared by later callers only, so
without that nothing would remove their files. Progress of a given caller is not
claimed: it may time out. With three callers `DeadClaimRemoved` would need more:
two that keep reading each other's empty files fail each time before they come to
the dead claim.

## 6. What is proved

| Theorem | Statement | Argument |
|---|---|---|
| `TaskEngineProofs!TypesHold` | `Types` is invariant | with `JobKnown` and `HeldKnown`: a run at work has a task, a recovery that releases holds one |
| `TaskEngineProofs!OneExecutorHolds` | OneExecutor | `OwnsAttempt`: the task of an attempting run has that run as owner and is not queued. A claim needs a queued task; a reclaim needs a dead owner |
| `LifecycleProofs!LifecycleImplemented` | LifecycleSpec | `Implementing` below; each action is a `TaskLifecycle` step or a stutter |
| `LifecycleProofs!DependenciesFirstHolds` | DependenciesFirst | an invariant of `TaskLifecycle`, carried over |
| `LifecycleProofs!TypeCorrect` | TypeOK | types, budget from `AttemptLeft`, slots by cardinality (`SlotsBounded`) |
| `LifecycleProofs!CancellationWinsHolds` | a task whose cancellation is on record is neither completed nor failed | an invariant of `TaskLifecycle`, carried over: a request is recorded only of a running task, and a claim, a retry or a recovery keeps it |
| `LifecycleProofs!EndsAreFinalHolds` | status and attempt of an ended task never change | by the moves `TaskLifecycle` has (`LifecycleMoves`) |
| `LifecycleProofs!WorkersWithinLimitHolds` | WorkersWithinLimit, if `SameHost` | `SlotHeld` and `DeadOnly` below |
| `TaskEngineProofs!WritableRetryIsCleanHolds` | WritableRetryIsClean | `Clean`: it holds of tasks not submitted yet, too; `Fits` says what each write of a record may do |
| `TaskEngineProofs!MigrationFencedHolds`, `RunningLeaseCurrentHolds` | the two, if `OneRecovery` | `Maintained` below |
| `TaskFilesProofs!FilesRunTheEngine` | FilesSpec implies Spec | each step of `TaskFiles` is one of `TaskEngine` or leaves its variables alone, so all of the above holds of it |
| `TaskFilesProofs!NoStrayWorktreeHolds` | NoStrayWorktree | `Strays` and `Noted` below |
| `TaskFilesProofs!ResultFreeHolds` | ResultFree | `Answered` below |
| `TaskFilesProofs!OutcomeStoredHolds` | OutcomeStored | it is inductive with `Over`: a run that has an attempt has a task that is not completed |
| `RecordLockProofs!OneHolderHolds` | OneHolder, if `Paired` | `Guarded`: a holder's lock is its own, and who reclaims is about to remove the lock of a dead owner of its host |
| `RecordLockProofs!VersionedHolds` | Versioned, if `Paired` | `Serial`: a replace is pending until its answer, who saves is still fresh, and who converts has read the old schema |
| `RecordLockProofs!BackedUpHolds` | BackedUp | `InOrder`: who converts has made both files, and nobody removes them; needs no exclusion |
| `WorkspaceLockProofs!TypesHold` | TypeOK | by cases |
| `WorkspaceLockProofs!OneEditorHolds` | OneEditor | `OwnersHold` and `ClaimsAreFree`: who edits or leaves is the owner on record, and who is about to take a lock with a current copy takes a free one or one of a dead owner |
| `WorkspaceLockProofs!LockIsEditorLock` | LockSpec | each action is an `EditorLock` step or a stutter, under the same invariant |
| `PhaseRunProofs!PhaseRunInvariant`, `TypeCorrect` | `IInv`, TypeOK | `Sound` and `Placed` below |
| `PhaseRunProofs!HonestAnswerHolds`, `NoChildAbandonedHolds`, `CloseSettlesHolds`, `QuietAfterAnswerHolds` | the properties of a call | parts of `Sound` |
| `PhaseRunProofs!KillIsTimedHolds` | an escalation has a timer that takes it further, and SIGKILL follows SIGINT | part of `Sound`; `PhaseEnds` rests on it |
| `PhaseRunProofs!AnsweredIsOverHolds` | an answer is final, and no signal is sent after it | nothing is armed once a call is answered |
| `PhaseRunProofs!FirstCauseDecidesHolds` | FirstCauseDecides | each action is a `PhaseOutcome` step or a stutter |
| `TurnProofs!TypesHold`, `DeliveredIsReviewedHolds`, `FallbackIsSafeHolds`, `CancelStopsWritersHolds`, `ReviewerIsOtherHolds` | the properties of one turn | `Sound`, of every turn by itself |
| `TurnProofs!SavedWhenDeliveredHolds`, `StoredHistoryGrowsHolds` | the properties of the session | `Behind` and `Linked` below |
| `LeaseLockProofs!FirstComeFirstServedHolds` | FirstComeFirstServed | `Queued` below |
| `LeaseLockProofs!OwnerKeepsClaimHolds` | OwnerKeepsClaim | `Claimed`: from its content to its release a claim is there; only a dead owner's is removed |

Those of `PhaseRun` are about a module without constants, of which TLC has seen every
state too; what the proof adds is why: it goes handler by handler. The others hold for
all values of the constants under the named assumptions of the
modules (`ActorsAssumption`, `TasksAssumption`, `ProcessesAssumption`,
`WorkersAssumption`, `TurnAssumption`, `ClaimsAssumption`): disjoint names, finite
sets, positive budgets. None bounds the number of tasks, runs, recoveries, workers,
terminals, contents, callers, hosts or faults.

`Implementing` is `Typed /\ AttemptLeft /\ HandlingRuns`. The properties are not
inductive without it: that a start keeps the budget rests on a queued task having
an attempt left (`AttemptLeft`), and that the catch of runOne fails only running
tasks rests on its copy being current (`HandlingRuns`), since the code does not
check the status again.

`Maintained` follows one recovery through its maintenance (`Entering`): from the
activation on the epoch is one above that of every running task until the abort gives
it back, and past the second reading no task runs. With two recoveries it is not
invariant, as `migration_unfenced` shows, hence `OneRecovery`.

`Noted` says when a worktree is on record: whenever the attempt has begun, and for
every run that has got past `Prepare` or failed after its snapshot. A task goes back
to the queue only in these cases (`AllKept`: `recoverOrphan` asks for the snapshot, the
catch of runOne for a late failure). So a worktree that is not on record was made in
the attempt the task is still in (`Strays`), and none is met by a later one. `Answered`:
a result is of an attempt a task has had, and of one that a run still
executes there is none. A run that stores a result is in an attempt, so by `OwnsAttempt`
it is the only one, and it does not execute any more; a claim begins a new number.
`OutcomeStored` follows the result further: while its run waits to record the outcome
nobody else executes the task, so nobody stores anything (`ResultStays`); only that run
completes it (`CompletedNow`); and after that no attempt follows.

`SlotHeld`: whoever works holds the slot of its task, expired or not. That needs
`DeadOnly`: a recovery gives back slots of dead runs only. `recoverExpired` does so by
itself, but the slots a recovery releases with a task it took (`ReleaseHeld`) are
those of the owner of the task, which is a run (`RunningOwned`) that was found dead. Slots
are held for different tasks, so the workers are no more than the slots (an injection
from one to the other), and of those there are at most `MaxWorkers`. On another host an
owner cannot be asked, and a task of it that has lapsed is blocked and its slot freed
while it may be at work: hence `SameHost`, every recovery on the host of every worker.

`Sound` is about one call of `runSupervisedProcess` between two handlers: an answer
agrees with what was done to the child (`Answered`), an escalation is SIGINT with the
grace timer or SIGKILL with the watchdog and one of the two timers runs until the answer
(`Escalates`), and what is armed has a child (`Attached`). The lemmas say of each handler
that it keeps this, whatever signal, close or exception comes inside it. `Placed`
relates the call to the phase: a call that was cancelled has a recorded cause, and none
listens for an abort that was recorded already. `FirstCauseDecides` needs both.

`Behind`: a copy of the session is no newer than the store, and one of the current
revision has all that is stored. So a save, which needs the current revision, only
appends. `Linked`: who has come to the gate or has delivered has all it knows stored.

`Queued` says why the order of the install lock holds although mutual exclusion
does not: a caller has no claim before it draws (`Unclaimed`); a claim that is ahead
is written and, in an inspection, still to be read or already read
(`AheadListed`); so the ticket is above it (`TicketsAscend`), and `Check`
sees it. The overlap of section 4 needs a claim that appears *after* the announcement,
which is in nobody's `ahead`.

`Paired`, at most two processes on a host, is what makes the record lock exclude;
`record_lock_steal` shows it is needed.

## 7. What is only model-checked

- liveness: QueuedIsDecided (of one task, see section 4), LockRecovered, LockPassedOn,
  DeadClaimRemoved, PhaseEnds, TurnEnds (TLAPS here has no proofs about fairness or ENABLED);
- that the pieces fit is shown layer by layer. `TaskEngine` is not composed with
  `RecordLock`, nor `Turn` with `PhaseRun`; the abstract modules between them stand for that.

No module declares a RECURSIVE operator, so all can be used in proofs.

## 8. What is not modelled, and the plan

Left out for good: byte-level work (decoding, redaction, truncation, file modes),
the catalog parsers, adapters, permissions, context and UI, and the bundled skills.
`BoundedEventQueue` of `streaming.ts`, which has waiters, is used by its tests only.

- Of the engine: `TaskStore.replace` (no program path calls it), listing diagnostics.
- Of the results: `retrieve`, a checked reading, and the artifacts.
- Of the worktrees: the preflight and the measurements, which read Git and the
  directory and keep nothing.
- Of the record repository: quarantine and temporary files, and `create`, which is one
  exclusive creation.
- Of a turn: `compact`, `fork` and the settings save as `branch` does; the texts of
  prompts, packets and reviews; a session's creation and listing.
- Of the supervisor: `runProcessLegacy`, an abort during the call of spawn itself, an
  error of a child with a process id before its spawn event (`src/process.ts:289`: Node.js
  emits that event in the next tick, and only a refused kill could come before it), and
  processes a provider leaves behind.
- Of the install lock: the legacy lock file (this version never creates one), the
  limit on claims, the overlay of installs on the catalog.
- Of the host: reuse of process ids, and a file system whose rename or exclusive create
  is not atomic.

What would come next: quarantine against concurrent listings, the steps of the
installer inside a mutation, and a composition of `TaskEngine` with `RecordLock` that
shows where a lost answer leads.

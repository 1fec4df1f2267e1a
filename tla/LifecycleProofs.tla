-------------------------- MODULE LifecycleProofs --------------------------
(***************************************************************************)
(* TaskEngine implements TaskLifecycle, for every set of tasks, runs and   *)
(* recoveries; from that the attempts stay within their budget, the        *)
(* dependencies come first, and what has ended or was cancelled stays so.  *)
(* And the slots: no more are held than there are, and on one host no more *)
(* workers work than there are slots.                                      *)
(***************************************************************************)
EXTENDS TaskEngineProofs

-----------------------------------------------------------------------------
(* A failed run that still has the current revision has a running task *)

HandlingRuns ==
  \A w \in Runs : pc[w] = "handling" /\ <<w, run[w].job>> \in fresh =>
    task[run[w].job].status = "running"

\* A step of a leaves the other runs where they are, and a not in its catch.
Quiet(a) ==
  /\ \A v \in Runs \ {a} : pc'[v] = pc[v] /\ run'[v] = run[v]
  /\ a \in Runs => pc'[a] # "handling"

LEMMA HandlingWrite ==
  ASSUME Typed, HandlingRuns, NEW a, NEW t \in Tasks, NEW record,
         Save(a, t, record), Quiet(a)
  PROVE  HandlingRuns'
BY SaveKeeps DEF Typed, JobKnown, HandlingRuns, Quiet

LEMMA HandlingKept ==
  ASSUME Typed, HandlingRuns, NEW a, UNCHANGED task, Quiet(a),
         \A v, t : <<v, t>> \in fresh' => <<v, t>> \in fresh \/ v = a
  PROVE  HandlingRuns'
BY DEF HandlingRuns, Quiet

LEMMA HandlingInit == Init => HandlingRuns
BY ActorsAssumption DEF Init, HandlingRuns, Actors

LEMMA HandlingFields ==
  ASSUME Typed, HandlingRuns, NEW t \in Tasks,
         Submit(t) \/ LeaseExpires(t) \/ BackoffEnds(t) \/ \E w \in Runs : Edit(w)
  PROVE  HandlingRuns'
<1>1. \A s \in Tasks : task[s].status = "running" => task'[s].status = "running"
  <2>1. CASE Submit(t)
    BY <2>1 DEF Submit, Typed, Types, Absent
  <2>2. ASSUME NEW s \in Tasks
        PROVE  \A b \in BOOLEAN :
                 /\ [task[s] EXCEPT !.expired = b].status = task[s].status
                 /\ [task[s] EXCEPT !.backoff = b].status = task[s].status
                 /\ [task[s] EXCEPT !.dirty = b].status = task[s].status
    BY MovedType DEF Typed, TaskRecords
  <2>3. CASE LeaseExpires(t) \/ BackoffEnds(t)
    BY <2>2, <2>3 DEF LeaseExpires, BackoffEnds, Typed, Types
  <2>4. CASE \E w \in Runs : Edit(w)
    BY <2>2, <2>4 DEF Edit, Typed, Types, JobKnown
  <2>5. QED
    BY <2>1, <2>3, <2>4
<1>2. UNCHANGED <<pc, run, fresh>>
  BY DEF Submit, LeaseExpires, BackoffEnds, Edit
<1>3. QED
  BY <1>1, <1>2 DEF HandlingRuns, Typed, JobKnown

LEMMA HandlingRunWrites ==
  ASSUME Typed, HandlingRuns, NEW w \in Runs,
         \/ Claim(w) \/ Prepare(w) \/ RecordAttemptStart(w)
         \/ Complete(w) \/ BlockWithOutcome(w) \/ CancelRunning(w)
         \/ HandleFailure(w) \/ BlockDependency(w) \/ BlockOwnership(w)
  PROVE  HandlingRuns'
<1>1. run[w].job \in Tasks
  BY DEF Claim, Prepare, RecordAttemptStart, Complete, BlockWithOutcome,
         CancelRunning, EndAttempt, HandleFailure, BlockDependency, BlockOwnership,
         BlockLoaded, Typed, JobKnown
<1>2. Quiet(w)
  BY ActorsAssumption
  DEF Claim, Prepare, RecordAttemptStart, Complete, BlockWithOutcome,
      CancelRunning, EndAttempt, HandleFailure, BlockDependency, BlockOwnership,
      BlockLoaded, Typed, Types, Quiet, Goto, Throw, Actors
<1>3. UNCHANGED <<task, fresh>> \/ \E record : Save(w, run[w].job, record)
  BY DEF Claim, Prepare, RecordAttemptStart, Complete, BlockWithOutcome,
         CancelRunning, EndAttempt, HandleFailure, BlockDependency, BlockOwnership,
         BlockLoaded
<1>4. QED
  BY <1>1, <1>2, <1>3, HandlingWrite, HandlingKept

LEMMA HandlingPulse ==
  ASSUME Typed, HandlingRuns, NEW w \in Runs, Pulse(w)
  PROVE  HandlingRuns'
<1>1. run[w].job \in Tasks
  BY PulseKeeps
<1>2. Quiet(w)
  BY PulseKeeps
  DEF Pulse, PulseLoad, PulseGoesOn, PulseBeat, PulseSlot, AbortPulse, Typed, Types, Quiet
<1>3. CASE PulseBeat(w)
  BY <1>1, <1>2, <1>3, HandlingWrite, HandlingKept DEF PulseBeat
<1>4. CASE PulseLoad(w) \/ PulseSlot(w)
  <2>1. UNCHANGED task /\ \A v, t : <<v, t>> \in fresh' => <<v, t>> \in fresh \/ v = w
    BY <1>4 DEF PulseLoad, PulseSlot
  <2>2. QED
    BY <1>2, <2>1, HandlingKept
<1>5. QED
  BY <1>3, <1>4 DEF Pulse, PulseGoesOn

LEMMA HandlingLocal ==
  ASSUME Typed, HandlingRuns, NEW w \in Runs,
         \/ LoadAgain(w) \/ AcquireSlot(w) \/ ExecutorThrows(w) \/ ExecutorReturns(w)
         \/ RefuseWorkspace(w) \/ ReleaseSlot(w) \/ Crash(w) \/ Recycle(w)
         \/ \E t \in Tasks : Begin(w, t)
  PROVE  HandlingRuns'
<1>1. /\ UNCHANGED task
      /\ \A v, t : <<v, t>> \in fresh' => <<v, t>> \in fresh \/ v = w
  BY DEF LoadAgain, AcquireSlot, ReturnAtOnce, ExecutorThrows, ExecutorReturns,
         RefuseWorkspace, ReleaseSlot, Crash, Recycle, Begin, Forget
<1>2. Quiet(w)
  BY ActorsAssumption
  DEF LoadAgain, AcquireSlot, ReturnAtOnce, ExecutorThrows, ExecutorReturns,
      RefuseWorkspace, ReleaseSlot, Crash, Recycle, Begin, Quiet, Goto, Throw, Typed, Types, Actors
<1>3. QED
  BY <1>1, <1>2, HandlingKept

LEMMA HandlingCatchLoad ==
  ASSUME Typed, HandlingRuns, NEW w \in Runs, CatchLoad(w)
  PROVE  HandlingRuns'
<1>1. \A v \in Runs \ {w} : pc'[v] = pc[v] /\ run'[v] = run[v]
  BY ActorsAssumption DEF CatchLoad, Goto, Typed, Types, Actors
<1>2. run'[w].job = run[w].job
  BY DEF CatchLoad, Typed, Types, RunRecords
<1>3. pc'[w] = "handling" => task[run[w].job].status = "running"
  BY ActorsAssumption DEF CatchLoad, Goto, Typed, Types, Actors
<1>4. QED
  BY <1>1, <1>2, <1>3 DEF CatchLoad, HandlingRuns

LEMMA HandlingRecovery ==
  ASSUME Typed, HandlingRuns, NEW r \in Recoveries,
         RecoverBegin(r) \/ RecoveryStep(r) \/ RecoverAbandon(r)
  PROVE  HandlingRuns'
<1>1. r \notin Runs /\ NoRun \notin Runs
  BY ActorsAssumption DEF Actors
<1>2. \A v \in Runs : pc'[v] = pc[v] /\ run'[v] = run[v]
  BY <1>1
  DEF RecoverBegin, RecoveryStep, ScanTask, ScanAmbiguous, BlockAmbiguous, ReleaseHeld,
      CheckIdle, BeginEnter, ActivateFence, Recheck, AbortEnter, Migrate,
      ExitMaintenance, RecoverAbandon, Goto, Leave, Typed, Types, Actors
<1>3. Quiet(r) /\ Quiet(NoRun)
  BY <1>1, <1>2 DEF Quiet
<1>4. \/ UNCHANGED task /\ \A v, t : <<v, t>> \in fresh' => <<v, t>> \in fresh \/ v = r
      \/ \E t \in Tasks : \E record : Save(NoRun, t, record)
  <2>1. CASE \E t \in Tasks : ScanTask(r, t)
    BY <2>1 DEF ScanTask, Forget
  <2>2. CASE BlockAmbiguous(r)
    BY <2>2 DEF BlockAmbiguous, Forget, Typed, HeldKnown
  <2>3. CASE RecoverBegin(r)
    BY <2>3 DEF RecoverBegin
  <2>4. CASE \E t \in Tasks : ScanAmbiguous(r, t)
    BY <2>4 DEF ScanAmbiguous
  <2>5. CASE \/ ReleaseHeld(r) \/ CheckIdle(r) \/ BeginEnter(r) \/ ActivateFence(r)
             \/ Recheck(r) \/ AbortEnter(r) \/ Migrate(r) \/ ExitMaintenance(r)
             \/ RecoverAbandon(r)
    BY <2>5
    DEF ReleaseHeld, CheckIdle, BeginEnter, ActivateFence, Recheck, AbortEnter, Migrate,
        ExitMaintenance, RecoverAbandon, Forget
  <2>6. QED
    BY <2>1, <2>2, <2>3, <2>4, <2>5 DEF RecoveryStep
<1>5. QED
  BY <1>3, <1>4, HandlingWrite, HandlingKept

LEMMA HandlingSweep ==
  ASSUME Typed, HandlingRuns, NEW a \in Actors, SweepStep(a)
  PROVE  HandlingRuns'
<1>1. CASE LaunchReady(a)
  <2>1. Quiet(a)
    BY <1>1, ActorsAssumption DEF LaunchReady, Quiet, Goto, Typed, Types, Actors
  <2>2. QED
    BY <1>1, <2>1, HandlingKept DEF LaunchReady, Forget
<1>2. CASE \E t \in Tasks : BlockDependent(a, t)
  <2>1. Quiet(NoRun)
    BY <1>2, ActorsAssumption DEF BlockDependent, Quiet, Actors
  <2>2. QED
    BY <1>2, <2>1, HandlingWrite DEF BlockDependent
<1>3. QED
  BY <1>1, <1>2 DEF SweepStep

LEMMA HandlingStep == Typed /\ HandlingRuns /\ [Next]_vars => HandlingRuns'
<1> SUFFICES ASSUME Typed, HandlingRuns, [Next]_vars PROVE HandlingRuns'
  OBVIOUS
<1>1. CASE UNCHANGED vars
  BY <1>1 DEF vars, HandlingRuns
<1>2. ASSUME NEW t \in Tasks, Submit(t) \/ RequestCancel(t) \/ WorkerLeaves(t)
      PROVE  HandlingRuns'
  <2>1. CASE RequestCancel(t)
    <3>1. Quiet(NoRun)
      BY <2>1, ActorsAssumption DEF RequestCancel, Quiet, Actors
    <3>2. QED
      BY <2>1, <3>1, HandlingWrite DEF RequestCancel
  <2>2. CASE WorkerLeaves(t)
    BY <2>2 DEF WorkerLeaves, HandlingRuns
  <2>3. QED
    BY <1>2, <2>1, <2>2, HandlingFields
<1>3. ASSUME NEW w \in Runs,
             \/ \E t \in Tasks : Begin(w, t)
             \/ RunStep(w) \/ Edit(w) \/ Pulse(w) \/ Crash(w) \/ Recycle(w)
      PROVE  HandlingRuns'
  <2>1. CASE Edit(w)
    <3>1. Tasks # {}
      BY <2>1 DEF Edit, Typed, JobKnown
    <3>2. QED
      BY <2>1, <3>1, HandlingFields
  <2>2. QED
    BY <1>3, <2>1, HandlingRunWrites, HandlingPulse, HandlingLocal,
       HandlingCatchLoad
    DEF RunStep
<1>4. CASE \E r \in Recoveries :
             RecoverBegin(r) \/ RecoveryStep(r) \/ RecoverAbandon(r)
  BY <1>4, HandlingRecovery
<1>5. CASE \E a \in Actors : SweepStep(a)
  BY <1>5, HandlingSweep
<1>6. CASE Clock
  <2>1. CASE \E t \in Tasks : SlotExpires(t)
    BY <2>1 DEF SlotExpires, HandlingRuns
  <2>2. QED
    BY <1>6, <2>1, HandlingFields DEF Clock
<1>7. QED
  BY <1>1, <1>2, <1>3, <1>4, <1>5, <1>6 DEF Next

-----------------------------------------------------------------------------
(* The refinement mapping *)

\* What TaskEngine!Lifecycle puts for the variables of TaskLifecycle.
StatusOf == [t \in Tasks |-> task[t].status]
AttemptOf == [t \in Tasks |-> task[t].attempt]
CancelOf == [t \in Tasks |-> task[t].cancel]

\* An attempt is left for every task that may still be claimed.
AttemptLeft ==
  \A t \in Tasks : /\ task[t].attempt \in Nat
                   /\ task[t].attempt <= MaxAttempts[t]
                   /\ task[t].status \in {Absent, "queued"} =>
                        task[t].attempt < MaxAttempts[t]

Stutter == UNCHANGED <<StatusOf, AttemptOf, CancelOf>>

\* A step to another status, as TaskLifecycle sees it.
Move(t, to) ==
  /\ StatusOf' = [StatusOf EXCEPT ![t] = to]
  /\ UNCHANGED <<AttemptOf, CancelOf>>

LEMMA MappedFields ==
  ASSUME NEW t \in Tasks
  PROVE  /\ StatusOf[t] = task[t].status /\ AttemptOf[t] = task[t].attempt
         /\ CancelOf[t] = task[t].cancel
BY DEF StatusOf, AttemptOf, CancelOf

\* One written task, as TaskLifecycle sees it.
LEMMA MappedWrite ==
  ASSUME Types, NEW t \in Tasks, NEW record, task' = [task EXCEPT ![t] = record]
  PROVE  /\ StatusOf' = [StatusOf EXCEPT ![t] = record.status]
         /\ AttemptOf' = [AttemptOf EXCEPT ![t] = record.attempt]
         /\ CancelOf' = [CancelOf EXCEPT ![t] = record.cancel]
BY DEF Types, StatusOf, AttemptOf, CancelOf

LEMMA MappedMove ==
  ASSUME Types, NEW t \in Tasks, NEW record, task' = [task EXCEPT ![t] = record],
         record.attempt = task[t].attempt, record.cancel = task[t].cancel
  PROVE  Move(t, record.status)
BY DEF Types, StatusOf, AttemptOf, CancelOf, Move

LEMMA MovedMove ==
  ASSUME Typed, NEW a, NEW t \in Tasks, NEW to, Save(a, t, Moved(t, to))
  PROVE  Move(t, to)
<1> DEFINE record == Moved(t, to)
<1>1. /\ record.status = to /\ record.attempt = task[t].attempt
      /\ record.cancel = task[t].cancel
  BY MovedKeeps DEF Typed
<1>2. task' = [task EXCEPT ![t] = record]
  BY DEF Save
<1> HIDE DEF record
<1>3. QED
  BY <1>1, <1>2, MappedMove DEF Typed

LEMMA MappedStutter ==
  ASSUME Types, NEW t \in Tasks, NEW record, task' = [task EXCEPT ![t] = record],
         record.status = task[t].status, record.attempt = task[t].attempt,
         record.cancel = task[t].cancel
  PROVE  Stutter
BY DEF Types, StatusOf, AttemptOf, CancelOf, Stutter

\* Which moves are steps of TaskLifecycle.
LEMMA MoveBlock ==
  ASSUME NEW t \in Tasks, Move(t, "blocked"), task[t].status \in {"queued", "running"}
  PROVE  Lifecycle!Next
BY DEF Move, StatusOf, AttemptOf, CancelOf, Lifecycle!Next, Lifecycle!Block

LEMMA MoveRequeue ==
  ASSUME NEW t \in Tasks, Move(t, "queued"), task[t].status = "running",
         task[t].attempt < MaxAttempts[t]
  PROVE  Lifecycle!Next
BY DEF Move, StatusOf, AttemptOf, CancelOf, Lifecycle!Next, Lifecycle!Requeue

LEMMA MoveFinish ==
  ASSUME NEW t \in Tasks, NEW to \in {"completed", "failed"}, Move(t, to),
         task[t].status = "running", ~task[t].cancel
  PROVE  Lifecycle!Next
BY DEF Move, StatusOf, AttemptOf, CancelOf, Lifecycle!Next, Lifecycle!Finish

LEMMA MoveCancel ==
  ASSUME NEW t \in Tasks, Move(t, "cancelled"),
         \/ task[t].status = "running" /\ task[t].cancel
         \/ task[t].status \in {"queued", "blocked"}
  PROVE  Lifecycle!Next
BY DEF Move, StatusOf, AttemptOf, CancelOf, Lifecycle!Next, Lifecycle!Cancel

LEMMA MapsInit == Init => Lifecycle!Init
<1> SUFFICES ASSUME Init PROVE Lifecycle!Init
  OBVIOUS
<1>1. /\ NewTask.status = Absent /\ NewTask.attempt = 0 /\ NewTask.cancel = FALSE
      /\ task = [t \in Tasks |-> NewTask]
  BY DEF Init, NewTask
<1>2. \A t \in Tasks : task[t].status = Absent /\ task[t].attempt = 0 /\ task[t].cancel = FALSE
  BY <1>1
<1>3. QED
  BY <1>2 DEF Lifecycle!Init, Absent, Lifecycle!Absent

LEMMA MapsSubmit ==
  ASSUME Typed, NEW t \in Tasks, Submit(t)
  PROVE  Lifecycle!Next
<1>1. Move(t, "queued")
  <2> DEFINE record == Moved(t, "queued")
  <2>1. /\ record.status = "queued" /\ record.attempt = task[t].attempt
        /\ record.cancel = task[t].cancel
    BY MovedKeeps DEF Typed
  <2>2. task' = [task EXCEPT ![t] = record]
    BY DEF Submit
  <2> HIDE DEF record
  <2>3. QED
    BY <2>1, <2>2, MappedMove DEF Typed
<1>2. Deps[t] \subseteq Tasks
  BY TasksAssumption
<1>3. QED
  BY <1>1, <1>2
  DEF Submit, Move, StatusOf, AttemptOf, CancelOf, Lifecycle!Next, Lifecycle!Submit,
      Absent, Lifecycle!Absent

LEMMA MapsRequestCancel ==
  ASSUME Typed, NEW t \in Tasks, RequestCancel(t)
  PROVE  Lifecycle!Next
<1>1. CASE task[t].status = "running"
  <2> DEFINE record == [task[t] EXCEPT !.cancel = TRUE]
  <2>1. /\ record.status = task[t].status /\ record.attempt = task[t].attempt
        /\ record.cancel = TRUE
    BY MovedType DEF Typed, TaskRecords
  <2>2. task' = [task EXCEPT ![t] = record]
    BY <1>1 DEF RequestCancel, Save
  <2> HIDE DEF record
  <2>3. /\ StatusOf' = StatusOf /\ AttemptOf' = AttemptOf
        /\ CancelOf' = [CancelOf EXCEPT ![t] = TRUE]
    BY <2>1, <2>2 DEF Typed, Types, StatusOf, AttemptOf, CancelOf
  <2>4. QED
    BY <1>1, <2>3
    DEF StatusOf, AttemptOf, CancelOf, Lifecycle!Next, Lifecycle!RequestCancel
<1>2. CASE task[t].status # "running"
  <2>1. Save(NoRun, t, Moved(t, "cancelled")) /\ task[t].status \in {"queued", "blocked"}
    BY <1>2 DEF RequestCancel
  <2>2. QED
    BY <2>1, MovedMove, MoveCancel
<1>3. QED
  BY <1>1, <1>2

LEMMA MapsClaim ==
  ASSUME Typed, AttemptLeft, NEW w \in Runs, Claim(w)
  PROVE  Lifecycle!Next \/ Stutter
<1> DEFINE t == run[w].job
           record == [Moved(t, "running") EXCEPT
                        !.attempt = task[t].attempt + 1, !.owner = w,
                        !.epoch = fence.epoch, !.expired = FALSE, !.begun = FALSE]
<1>1. t \in Tasks
  BY DEF Claim, Typed, JobKnown
<1>2. CASE MayClaim(w) /\ Readiness(t) = "ready" /\ Save(w, t, record)
  <2>1. /\ record.status = "running" /\ record.attempt = task[t].attempt + 1
        /\ record.cancel = task[t].cancel
    <3>1. /\ Moved(t, "running") \in TaskRecords /\ Moved(t, "running").status = "running"
          /\ Moved(t, "running").cancel = task[t].cancel
      BY <1>1, MovedType, MovedKeeps DEF Typed, TaskStatus
    <3>2. QED
      BY <3>1 DEF TaskRecords
  <2>2. task' = [task EXCEPT ![t] = record]
    BY <1>2 DEF Save
  <2>3. task[t].status = "queued" /\ task[t].attempt < MaxAttempts[t]
    BY <1>1, <1>2, MayMoveFrom DEF MayClaim, AttemptLeft
  <2>4. \A d \in Deps[t] : d \in Tasks /\ task[d].status = "completed"
    BY <1>1, <1>2, TasksAssumption DEF Readiness, DependencyReadiness
  <2> HIDE DEF record
  <2>5. /\ StatusOf' = [StatusOf EXCEPT ![t] = "running"]
        /\ AttemptOf' = [AttemptOf EXCEPT ![t] = AttemptOf[t] + 1]
        /\ CancelOf' = CancelOf
    BY <1>1, <2>1, <2>2 DEF Typed, Types, StatusOf, AttemptOf, CancelOf
  <2>6. QED
    BY <1>1, <2>3, <2>4, <2>5
    DEF StatusOf, AttemptOf, CancelOf, Lifecycle!Next, Lifecycle!Start
<1>3. CASE UNCHANGED task
  BY <1>3 DEF Stutter, StatusOf, AttemptOf, CancelOf
<1>4. QED
  BY <1>2, <1>3 DEF Claim

LEMMA MapsEndAttempt ==
  ASSUME Typed, NEW w \in Runs, NEW from, from \notin {"idle", "sweeping", "gone"}, NEW guard,
         NEW to \in {"completed", "blocked", "cancelled"}, EndAttempt(w, from, guard, to),
         to = "completed" /\ guard => ~task[run[w].job].cancel,
         to = "cancelled" /\ guard => task[run[w].job].cancel
  PROVE  Lifecycle!Next \/ Stutter
<1> DEFINE t == run[w].job
<1>1. t \in Tasks
  BY DEF EndAttempt, Typed, JobKnown
<1>2. CASE guard /\ MayMove(t, to) /\ Save(w, t, Moved(t, to))
  <2>1. Move(t, to)
    BY <1>1, <1>2, MovedMove
  <2>2. QED
    BY <1>1, <1>2, <2>1, MayMoveFrom, MoveBlock, MoveFinish, MoveCancel
<1>3. CASE UNCHANGED task
  BY <1>3 DEF Stutter, StatusOf, AttemptOf, CancelOf
<1>4. QED
  BY <1>2, <1>3 DEF EndAttempt

\* The revision proves that the task this run failed is still running.
LEMMA MapsHandleFailure ==
  ASSUME Typed, HandlingRuns, NEW w \in Runs, HandleFailure(w)
  PROVE  Lifecycle!Next \/ Stutter
<1> DEFINE t == run[w].job
<1>1. t \in Tasks
  BY DEF HandleFailure, Typed, JobKnown
<1>2. CASE UNCHANGED task
  BY <1>2 DEF Stutter, StatusOf, AttemptOf, CancelOf
<1>3. CASE OwnerMayWrite(w) /\ task[t].cancel /\ Save(w, t, Moved(t, "cancelled"))
  <2>1. task[t].status = "running"
    BY <1>3 DEF HandleFailure, HandlingRuns, OwnerMayWrite, CurrentRevision
  <2>2. Move(t, "cancelled")
    BY <1>1, <1>3, MovedMove
  <2>3. QED
    BY <1>1, <1>3, <2>1, <2>2, MoveCancel
<1>4. CASE OwnerMayWrite(w) /\ ~task[t].cancel /\ Save(w, t, Moved(t, "failed"))
  <2>1. task[t].status = "running"
    BY <1>4 DEF HandleFailure, HandlingRuns, OwnerMayWrite, CurrentRevision
  <2>2. Move(t, "failed")
    BY <1>1, <1>4, MovedMove
  <2>3. QED
    BY <1>1, <1>4, <2>1, <2>2, MoveFinish
<1>5. ASSUME NEW later \in BOOLEAN, OwnerMayWrite(w), task[t].attempt < MaxAttempts[t],
             Save(w, t, [Moved(t, "queued") EXCEPT !.backoff = later])
      PROVE  Lifecycle!Next
  <2> DEFINE record == [Moved(t, "queued") EXCEPT !.backoff = later]
  <2>1. /\ record.status = "queued" /\ record.attempt = task[t].attempt
        /\ record.cancel = task[t].cancel
    <3>1. /\ Moved(t, "queued") \in TaskRecords
          /\ Moved(t, "queued").status = "queued"
          /\ Moved(t, "queued").attempt = task[t].attempt
          /\ Moved(t, "queued").cancel = task[t].cancel
      BY <1>1, MovedType, MovedKeeps DEF Typed, TaskStatus
    <3>2. QED
      BY <3>1 DEF TaskRecords
  <2>2. task' = [task EXCEPT ![t] = record]
    BY <1>5 DEF Save
  <2>3. task[t].status = "running"
    BY <1>5 DEF HandleFailure, HandlingRuns, OwnerMayWrite, CurrentRevision
  <2> HIDE DEF record
  <2>4. Move(t, "queued")
    BY <1>1, <2>1, <2>2, MappedMove DEF Typed
  <2>5. QED
    BY <1>1, <1>5, <2>3, <2>4, MoveRequeue
<1>6. QED
  BY <1>2, <1>3, <1>4, <1>5 DEF HandleFailure, RetryEligible

LEMMA MapsBlockLoaded ==
  ASSUME Typed, NEW w \in Runs, NEW from, from \notin {"idle", "sweeping", "gone"}, NEW next,
         BlockLoaded(w, from, next)
  PROVE  Lifecycle!Next \/ Stutter
<1> DEFINE t == run[w].job
<1>1. t \in Tasks
  BY DEF BlockLoaded, Typed, JobKnown
<1>2. CASE MayMove(t, "blocked") /\ Save(w, t, Moved(t, "blocked"))
  <2>1. Move(t, "blocked")
    BY <1>1, <1>2, MovedMove
  <2>2. QED
    BY <1>1, <1>2, <2>1, MayMoveFrom, MoveBlock
<1>3. CASE UNCHANGED task
  BY <1>3 DEF Stutter, StatusOf, AttemptOf, CancelOf
<1>4. QED
  BY <1>2, <1>3 DEF BlockLoaded

LEMMA MapsScanTask ==
  ASSUME Typed, NEW r \in Recoveries, NEW t \in Tasks, ScanTask(r, t)
  PROVE  Lifecycle!Next \/ Stutter
<1>1. CASE UNCHANGED task
  BY <1>1 DEF Stutter, StatusOf, AttemptOf, CancelOf
<1>2. CASE task[t].status = "running" /\ Save(NoRun, t, Moved(t, "blocked"))
  BY <1>2, MovedMove, MoveBlock
<1>3. CASE /\ task[t].status = "running" /\ task[t].attempt < MaxAttempts[t]
           /\ Save(NoRun, t, [Moved(t, "queued") EXCEPT !.backoff = FALSE])
  <2> DEFINE record == [Moved(t, "queued") EXCEPT !.backoff = FALSE]
  <2>1. /\ record.status = "queued" /\ record.attempt = task[t].attempt
        /\ record.cancel = task[t].cancel
    <3>1. /\ Moved(t, "queued") \in TaskRecords
          /\ Moved(t, "queued").status = "queued"
          /\ Moved(t, "queued").attempt = task[t].attempt
          /\ Moved(t, "queued").cancel = task[t].cancel
      BY MovedType, MovedKeeps DEF Typed, TaskStatus
    <3>2. QED
      BY <3>1 DEF TaskRecords
  <2>2. task' = [task EXCEPT ![t] = record]
    BY <1>3 DEF Save
  <2> HIDE DEF record
  <2>3. Move(t, "queued")
    BY <2>1, <2>2, MappedMove DEF Typed
  <2>4. QED
    BY <1>3, <2>3, MoveRequeue
<1>4. QED
  BY <1>1, <1>2, <1>3 DEF ScanTask, RecoverOrphan, Running

LEMMA MapsBlockAmbiguous ==
  ASSUME Typed, NEW r \in Recoveries, BlockAmbiguous(r)
  PROVE  Lifecycle!Next \/ Stutter
<1> DEFINE t == sweep[r].held
<1>1. t \in Tasks
  BY DEF BlockAmbiguous, Typed, HeldKnown
<1>2. CASE MayMove(t, "blocked") /\ Save(NoRun, t, Moved(t, "blocked"))
  <2>1. Move(t, "blocked")
    BY <1>1, <1>2, MovedMove
  <2>2. QED
    BY <1>1, <1>2, <2>1, MayMoveFrom, MoveBlock
<1>3. CASE UNCHANGED task
  BY <1>3 DEF Stutter, StatusOf, AttemptOf, CancelOf
<1>4. QED
  BY <1>2, <1>3 DEF BlockAmbiguous

LEMMA MapsBlockDependent ==
  ASSUME Typed, NEW a, NEW t \in Tasks, BlockDependent(a, t)
  PROVE  Lifecycle!Next \/ Stutter
<1>1. task[t].status = "queued" /\ Save(NoRun, t, Moved(t, "blocked"))
  BY DEF BlockDependent, Doomed, Launchable
<1>2. QED
  BY <1>1, MovedMove, MoveBlock

LEMMA MapsFields ==
  ASSUME Typed, NEW t \in Tasks,
         \/ LeaseExpires(t) \/ BackoffEnds(t)
         \/ \E w \in Runs : /\ run[w].job = t
                            /\ Edit(w) \/ Pulse(w) \/ Prepare(w) \/ RecordAttemptStart(w)
  PROVE  Stutter
<1>1. CASE UNCHANGED task
  BY <1>1 DEF Stutter, StatusOf, AttemptOf, CancelOf
<1>2. ASSUME NEW record \in { task[t], [task[t] EXCEPT !.expired = TRUE],
                              [task[t] EXCEPT !.expired = FALSE],
                              [task[t] EXCEPT !.backoff = FALSE],
                              [task[t] EXCEPT !.dirty = TRUE],
                              [task[t] EXCEPT !.begun = TRUE, !.dirty = FALSE] },
             task' = [task EXCEPT ![t] = record]
      PROVE  Stutter
  <2>1. /\ record.status = task[t].status /\ record.attempt = task[t].attempt
        /\ record.cancel = task[t].cancel
    BY <1>2, MovedType DEF Typed, TaskRecords
  <2>2. QED
    BY <1>2, <2>1, MappedStutter DEF Typed
<1>3. CASE \E w \in Runs : run[w].job = t /\ Pulse(w)
  BY <1>1, <1>2, <1>3, PulseKeeps DEF Save
<1>4. QED
  BY <1>1, <1>2, <1>3
  DEF LeaseExpires, BackoffEnds, Edit, Prepare, RecordAttemptStart, Save

LEMMA MapsRunStep ==
  ASSUME Typed, AttemptLeft, HandlingRuns, NEW w \in Runs, RunStep(w)
  PROVE  Lifecycle!Next \/ Stutter
<1>1. CASE Complete(w)
  BY <1>1, MapsEndAttempt DEF Complete
<1>2. CASE BlockWithOutcome(w)
  BY <1>2, MapsEndAttempt DEF BlockWithOutcome
<1>3. CASE CancelRunning(w)
  BY <1>3, MapsEndAttempt DEF CancelRunning
<1>4. CASE BlockDependency(w) \/ BlockOwnership(w)
  BY <1>4, MapsBlockLoaded DEF BlockDependency, BlockOwnership
<1>5. CASE Prepare(w) \/ RecordAttemptStart(w)
  <2>1. run[w].job \in Tasks
    BY <1>5 DEF Prepare, RecordAttemptStart, Typed, JobKnown
  <2>2. QED
    BY <1>5, <2>1, MapsFields
<1>6. CASE \/ LoadAgain(w) \/ AcquireSlot(w) \/ ExecutorReturns(w) \/ ExecutorThrows(w)
           \/ CatchLoad(w) \/ RefuseWorkspace(w) \/ ReleaseSlot(w)
  BY <1>6
  DEF LoadAgain, AcquireSlot, ExecutorReturns, ExecutorThrows, CatchLoad, RefuseWorkspace,
      ReleaseSlot, Stutter, StatusOf, AttemptOf, CancelOf
<1>7. QED
  BY <1>1, <1>2, <1>3, <1>4, <1>5, <1>6, MapsClaim, MapsHandleFailure DEF RunStep

LEMMA MapsRecoveryStep ==
  ASSUME Typed, NEW r \in Recoveries,
         RecoverBegin(r) \/ RecoveryStep(r) \/ RecoverAbandon(r)
  PROVE  Lifecycle!Next \/ Stutter
<1>1. CASE \/ RecoverBegin(r) \/ RecoverAbandon(r) \/ ReleaseHeld(r) \/ CheckIdle(r)
           \/ BeginEnter(r) \/ ActivateFence(r) \/ Recheck(r) \/ AbortEnter(r)
           \/ Migrate(r) \/ ExitMaintenance(r) \/ \E t \in Tasks : ScanAmbiguous(r, t)
  BY <1>1
  DEF ScanAmbiguous, RecoverBegin, RecoverAbandon, ReleaseHeld, CheckIdle, BeginEnter, ActivateFence,
      Recheck, AbortEnter, Migrate, ExitMaintenance, Stutter, StatusOf, AttemptOf, CancelOf
<1>2. QED
  BY <1>1, MapsScanTask, MapsBlockAmbiguous DEF RecoveryStep

\* Every step of the engine is a step of the lifecycle or none at all.
LEMMA MapsStep ==
  Typed /\ AttemptLeft /\ HandlingRuns /\ [Next]_vars => Lifecycle!Next \/ Stutter
<1> SUFFICES ASSUME Typed, AttemptLeft, HandlingRuns, [Next]_vars
             PROVE  Lifecycle!Next \/ Stutter
  OBVIOUS
<1>1. CASE UNCHANGED task
  BY <1>1 DEF Stutter, StatusOf, AttemptOf, CancelOf
<1>2. CASE \E t \in Tasks : Submit(t) \/ RequestCancel(t) \/ WorkerLeaves(t)
  BY <1>1, <1>2, MapsSubmit, MapsRequestCancel DEF WorkerLeaves
<1>3. ASSUME NEW w \in Runs,
             \/ \E t \in Tasks : Begin(w, t)
             \/ RunStep(w) \/ Edit(w) \/ Pulse(w) \/ Crash(w) \/ Recycle(w)
      PROVE  Lifecycle!Next \/ Stutter
  <2>1. CASE Edit(w) \/ Pulse(w)
    <3>1. run[w].job \in Tasks
      BY <2>1, PulseKeeps DEF Edit, Typed, JobKnown
    <3>2. QED
      BY <2>1, <3>1, MapsFields
  <2>2. CASE Crash(w) \/ Recycle(w) \/ \E t \in Tasks : Begin(w, t)
    BY <1>1, <2>2 DEF Crash, Recycle, Begin
  <2>3. QED
    BY <1>3, <2>1, <2>2, MapsRunStep
<1>4. CASE \E r \in Recoveries :
             RecoverBegin(r) \/ RecoveryStep(r) \/ RecoverAbandon(r)
  BY <1>4, MapsRecoveryStep
<1>5. CASE \E a \in Actors : SweepStep(a)
  BY <1>1, <1>5, MapsBlockDependent DEF SweepStep, LaunchReady
<1>6. CASE Clock
  BY <1>1, <1>6, MapsFields DEF Clock, SlotExpires
<1>7. QED
  BY <1>1, <1>2, <1>3, <1>4, <1>5, <1>6 DEF Next, vars

-----------------------------------------------------------------------------
(* What the lifecycle keeps, the engine keeps *)

LEMMA AttemptLeftInit == Init => AttemptLeft
BY TasksAssumption DEF Init, NewTask, AttemptLeft

\* The ways in which one task changes in a step of the lifecycle.
Same(t) == task'[t].status = task[t].status /\ task'[t].attempt = task[t].attempt

Queues(t) ==
  /\ task'[t].status = "queued" /\ task'[t].attempt = task[t].attempt
  /\ \/ task[t].status = Absent
     \/ task[t].status = "running" /\ task[t].attempt < MaxAttempts[t]

Starts(t) ==
  /\ task[t].status = "queued" /\ task'[t].status = "running"
  /\ task[t].attempt < MaxAttempts[t] /\ task'[t].attempt = task[t].attempt + 1
  /\ \A d \in Deps[t] : task[d].status = "completed"

Ends(t) ==
  /\ task[t].status \in {"queued", "running", "blocked"}
  /\ task'[t].attempt = task[t].attempt
  /\ \/ task'[t].status \in {"blocked", "cancelled", "failed"}
     \/ task[t].status = "running" /\ task'[t].status = "completed"

LEMMA LifecycleMoves ==
  ASSUME Types, Types', Lifecycle!Next \/ Stutter, NEW t \in Tasks
  PROVE  Same(t) \/ Queues(t) \/ Starts(t) \/ Ends(t)
<1>1. \A s \in Tasks : /\ StatusOf[s] = task[s].status /\ AttemptOf[s] = task[s].attempt
                      /\ StatusOf'[s] = task'[s].status /\ AttemptOf'[s] = task'[s].attempt
  BY DEF StatusOf, AttemptOf
<1>2. DOMAIN StatusOf = Tasks /\ DOMAIN AttemptOf = Tasks
  BY DEF StatusOf, AttemptOf
<1>3. CASE Stutter
  BY <1>1, <1>3 DEF Stutter, Same
<1>4. ASSUME NEW s \in Tasks,
             StatusOf' = [StatusOf EXCEPT ![s] = StatusOf'[s]],
             AttemptOf' = [AttemptOf EXCEPT ![s] = AttemptOf'[s]],
             Same(s) \/ Queues(s) \/ Starts(s) \/ Ends(s)
      PROVE  Same(t) \/ Queues(t) \/ Starts(t) \/ Ends(t)
  BY <1>1, <1>2, <1>4 DEF Same
<1>5. ASSUME NEW s \in Tasks, NEW to, Move(s, to)
      PROVE  /\ StatusOf' = [StatusOf EXCEPT ![s] = StatusOf'[s]]
             /\ AttemptOf' = [AttemptOf EXCEPT ![s] = AttemptOf'[s]]
             /\ task'[s].status = to /\ task'[s].attempt = task[s].attempt
  <2>1. StatusOf' = [StatusOf EXCEPT ![s] = to] /\ AttemptOf' = AttemptOf
    BY <1>5 DEF Move
  <2>2. StatusOf'[s] = to /\ AttemptOf'[s] = AttemptOf[s]
    BY <1>2, <2>1
  <2>3. AttemptOf' = [AttemptOf EXCEPT ![s] = AttemptOf[s]]
    <3>1. AttemptOf = [AttemptOf EXCEPT ![s] = AttemptOf[s]]
      BY DEF AttemptOf
    <3>2. QED
      BY <2>1, <3>1
  <2>4. task'[s].status = to /\ task'[s].attempt = task[s].attempt
    BY <1>1, <2>2
  <2>5. QED
    BY <2>1, <2>2, <2>3, <2>4
<1>6. CASE \E s \in Tasks : Lifecycle!Submit(s)
  <2>1. PICK s \in Tasks : Move(s, "queued") /\ task[s].status = Absent
    BY <1>6 DEF Lifecycle!Submit, Lifecycle!Absent, Absent, Move, StatusOf, AttemptOf, CancelOf
  <2>2. QED
    BY <1>4, <1>5, <2>1 DEF Queues
<1>7. CASE \E s \in Tasks : Lifecycle!Start(s)
  <2>1. PICK s \in Tasks :
          /\ task[s].status = "queued" /\ task[s].attempt < MaxAttempts[s]
          /\ \A d \in Deps[s] : StatusOf[d] = "completed"
          /\ StatusOf' = [StatusOf EXCEPT ![s] = "running"]
          /\ AttemptOf' = [AttemptOf EXCEPT ![s] = AttemptOf[s] + 1]
    BY <1>7 DEF Lifecycle!Start, StatusOf, AttemptOf
  <2>2. \A d \in Deps[s] : task[d].status = "completed"
    BY <1>1, <2>1, TasksAssumption
  <2>3. Starts(s)
    BY <1>1, <1>2, <2>1, <2>2 DEF Starts
  <2>4. QED
    BY <1>1, <1>2, <1>4, <2>1, <2>3
<1>8. CASE \E s \in Tasks : Lifecycle!Requeue(s)
  <2>1. PICK s \in Tasks : /\ Move(s, "queued") /\ task[s].status = "running"
                           /\ task[s].attempt < MaxAttempts[s]
    BY <1>8 DEF Lifecycle!Requeue, Move, StatusOf, AttemptOf, CancelOf
  <2>2. QED
    BY <1>4, <1>5, <2>1 DEF Queues
<1>9. CASE \E s \in Tasks : Lifecycle!Block(s)
  <2>1. PICK s \in Tasks : Move(s, "blocked") /\ task[s].status \in {"queued", "running"}
    BY <1>9 DEF Lifecycle!Block, Move, StatusOf, AttemptOf, CancelOf
  <2>2. QED
    BY <1>4, <1>5, <2>1 DEF Ends
<1>10. CASE \E s \in Tasks : Lifecycle!Finish(s)
  <2>1. PICK s \in Tasks, end \in {"completed", "failed"} :
          Move(s, end) /\ task[s].status = "running"
    BY <1>10 DEF Lifecycle!Finish, Move, StatusOf, AttemptOf, CancelOf
  <2>2. QED
    BY <1>4, <1>5, <2>1 DEF Ends
<1>11. CASE \E s \in Tasks : Lifecycle!RequestCancel(s)
  <2>1. UNCHANGED <<StatusOf, AttemptOf>>
    BY <1>11 DEF Lifecycle!RequestCancel, StatusOf, AttemptOf
  <2>2. QED
    BY <1>1, <2>1 DEF Same
<1>12. CASE \E s \in Tasks : Lifecycle!Cancel(s)
  <2>1. PICK s \in Tasks :
          Move(s, "cancelled") /\ task[s].status \in {"queued", "running", "blocked"}
    BY <1>12 DEF Lifecycle!Cancel, Move, StatusOf, AttemptOf, CancelOf
  <2>2. QED
    BY <1>4, <1>5, <2>1 DEF Ends
<1>13. QED
  BY <1>3, <1>6, <1>7, <1>8, <1>9, <1>10, <1>11, <1>12 DEF Lifecycle!Next

LEMMA AttemptLeftStep ==
  ASSUME Types, Types', AttemptLeft, Lifecycle!Next \/ Stutter
  PROVE  AttemptLeft'
<1> SUFFICES ASSUME NEW t \in Tasks
             PROVE  /\ task'[t].attempt \in Nat
                    /\ task'[t].attempt <= MaxAttempts[t]
                    /\ task'[t].status \in {Absent, "queued"} =>
                         task'[t].attempt < MaxAttempts[t]
  BY DEF AttemptLeft
<1>1. MaxAttempts[t] \in Nat
  BY TasksAssumption
<1>2. QED
  BY <1>1, LifecycleMoves DEF AttemptLeft, Same, Queues, Starts, Ends, Absent

LEMMA DependenciesInit == Init => DependenciesFirst
BY DEF Init, NewTask, DependenciesFirst, Absent

LEMMA DependenciesStep ==
  ASSUME Types, Types', DependenciesFirst, Lifecycle!Next \/ Stutter
  PROVE  DependenciesFirst'
<1> SUFFICES ASSUME NEW t \in Tasks, task'[t].status \in {"running", "completed"},
                    NEW d \in Deps[t]
             PROVE  task'[d].status = "completed"
  BY DEF DependenciesFirst
<1>1. d \in Tasks
  BY TasksAssumption
<1>2. task[d].status = "completed"
  BY LifecycleMoves DEF Same, Queues, Starts, Ends, DependenciesFirst
<1>3. QED
  BY <1>1, <1>2, LifecycleMoves DEF Same, Queues, Starts, Ends, Absent

-----------------------------------------------------------------------------

\* The inductive invariant behind the theorems below.
Implementing == Typed /\ AttemptLeft /\ HandlingRuns

LEMMA ImplementingHolds == Spec => []Implementing
<1>1. Init => Implementing
  BY InitTyped, AttemptLeftInit, HandlingInit DEF Implementing
<1>2. Implementing /\ [Next]_vars => Implementing'
  <2>1. Typed => Types
    BY DEF Typed
  <2>2. Typed' => Types'
    BY DEF Typed
  <2>3. QED
    BY <2>1, <2>2, TypedStep, HandlingStep, MapsStep, AttemptLeftStep DEF Implementing
<1>3. QED
  BY <1>1, <1>2, PTL DEF Spec

\* The engine implements the lifecycle: with crashes, retries, reclaims and stale
\* writers, a task only ever moves as TaskLifecycle allows (task-policy.ts
\* TRANSITIONS, task-store.ts complete and requestCancel).
THEOREM LifecycleImplemented == Spec => LifecycleSpec
<1>1. Implementing /\ [Next]_vars => [Lifecycle!Next]_(Lifecycle!vars)
  BY MapsStep DEF Implementing, Stutter, StatusOf, AttemptOf, CancelOf, Lifecycle!vars
<1>2. QED
  BY <1>1, MapsInit, ImplementingHolds, PTL DEF Spec, LifecycleSpec, Lifecycle!Spec

\* A task is started only after every one of its dependencies has completed, and
\* they stay completed (task-store.ts claim, task-policy.ts dependencyReadiness).
THEOREM DependenciesFirstHolds == Spec => []DependenciesFirst
<1>1. Implementing /\ Implementing' /\ DependenciesFirst /\ [Next]_vars => DependenciesFirst'
  BY MapsStep, DependenciesStep DEF Implementing, Typed
<1>2. QED
  BY <1>1, DependenciesInit, ImplementingHolds, PTL DEF Spec

-----------------------------------------------------------------------------
(* How tasks end *)

\* A task that has ended stays as it ended: nothing is retried, claimed, blocked or
\* cancelled after that (task-policy.ts TRANSITIONS).
EndsAreFinal ==
  [][\A t \in Tasks : task[t].status \in TERMINAL =>
       task'[t].status = task[t].status /\ task'[t].attempt = task[t].attempt]_vars

\* A task whose cancellation is on record is neither completed nor failed, by the run
\* it found nor by one that follows a recovery (task-store.ts complete, the catch of
\* runOne).
CancellationWins ==
  \A t \in Tasks : task[t].cancel => task[t].status \notin {"completed", "failed"}

LEMMA CancellationInit == Init => CancellationWins
BY DEF Init, NewTask, CancellationWins

LEMMA CancellationStep ==
  ASSUME Types, Types', CancellationWins, Lifecycle!Next \/ Stutter
  PROVE  CancellationWins'
<1> SUFFICES ASSUME NEW t \in Tasks, task'[t].cancel,
                    task'[t].status \in {"completed", "failed"}
             PROVE  FALSE
  BY DEF CancellationWins
<1>1. \A s \in Tasks : /\ StatusOf[s] = task[s].status /\ CancelOf[s] = task[s].cancel
                      /\ StatusOf'[s] = task'[s].status /\ CancelOf'[s] = task'[s].cancel
  BY DEF StatusOf, CancelOf
<1>2. DOMAIN StatusOf = Tasks /\ DOMAIN CancelOf = Tasks
  BY DEF StatusOf, CancelOf
<1>3. CASE UNCHANGED CancelOf /\ StatusOf'[t] = StatusOf[t]
  BY <1>1, <1>3 DEF CancellationWins
<1>4. CASE Stutter
  BY <1>3, <1>4 DEF Stutter
<1>5. ASSUME NEW s \in Tasks, NEW to, Move(s, to),
             to \in {"completed", "failed"} => ~CancelOf[s]
      PROVE  FALSE
  <2>1. UNCHANGED CancelOf /\ StatusOf' = [StatusOf EXCEPT ![s] = to]
    BY <1>5 DEF Move
  <2>2. CASE s = t
    BY <1>1, <1>2, <1>5, <2>1, <2>2
  <2>3. CASE s # t
    BY <1>2, <1>3, <2>1, <2>3
  <2>4. QED
    BY <2>2, <2>3
<1>6. CASE \E s \in Tasks : Lifecycle!Submit(s) \/ Lifecycle!Requeue(s)
                           \/ Lifecycle!Block(s) \/ Lifecycle!Cancel(s)
  <2>1. PICK s \in Tasks, to \in {"queued", "blocked", "cancelled"} : Move(s, to)
    BY <1>6 DEF Lifecycle!Submit, Lifecycle!Requeue, Lifecycle!Block, Lifecycle!Cancel,
                Move, StatusOf, AttemptOf, CancelOf
  <2>2. QED
    BY <1>5, <2>1
<1>7. CASE \E s \in Tasks : Lifecycle!Finish(s)
  <2>1. PICK s \in Tasks, to \in {"completed", "failed"} : Move(s, to) /\ ~CancelOf[s]
    BY <1>7 DEF Lifecycle!Finish, Move, StatusOf, AttemptOf, CancelOf
  <2>2. QED
    BY <1>5, <2>1
<1>8. CASE \E s \in Tasks : Lifecycle!Start(s)
  <2>1. PICK s \in Tasks : /\ StatusOf' = [StatusOf EXCEPT ![s] = "running"]
                           /\ UNCHANGED CancelOf
    BY <1>8 DEF Lifecycle!Start, StatusOf, CancelOf
  <2>2. CASE s = t
    BY <1>1, <1>2, <2>1, <2>2
  <2>3. CASE s # t
    BY <1>2, <1>3, <2>1, <2>3
  <2>4. QED
    BY <2>2, <2>3
<1>9. CASE \E s \in Tasks : Lifecycle!RequestCancel(s)
  <2>1. PICK s \in Tasks : /\ StatusOf[s] = "running" /\ UNCHANGED StatusOf
                           /\ CancelOf' = [CancelOf EXCEPT ![s] = TRUE]
    BY <1>9 DEF Lifecycle!RequestCancel, StatusOf, CancelOf
  <2>2. s # t /\ CancelOf'[t] = CancelOf[t] /\ StatusOf'[t] = StatusOf[t]
    BY <1>1, <1>2, <2>1
  <2>3. QED
    BY <1>1, <2>2 DEF CancellationWins
<1>10. QED
  BY <1>4, <1>6, <1>7, <1>8, <1>9 DEF Lifecycle!Next

\* What has ended is never taken up again.
THEOREM EndsAreFinalHolds == Spec => EndsAreFinal
<1>1. ASSUME Implementing, Implementing', [Next]_vars, NEW t \in Tasks,
             task[t].status \in TERMINAL
      PROVE  task'[t].status = task[t].status /\ task'[t].attempt = task[t].attempt
  <2>1. Lifecycle!Next \/ Stutter
    BY <1>1, MapsStep DEF Implementing
  <2>2. Same(t) \/ Queues(t) \/ Starts(t) \/ Ends(t)
    BY <1>1, <2>1, LifecycleMoves DEF Implementing, Typed
  <2>3. QED
    BY <1>1, <2>2 DEF Same, Queues, Starts, Ends, TERMINAL, Absent
<1>2. Implementing /\ Implementing' /\ [Next]_vars =>
        [\A t \in Tasks : task[t].status \in TERMINAL =>
           task'[t].status = task[t].status /\ task'[t].attempt = task[t].attempt]_vars
  BY <1>1
<1>3. QED
  BY <1>2, ImplementingHolds, PTL DEF Spec, EndsAreFinal

\* A recorded cancellation is overtaken by no completion and no failure, whatever
\* becomes of the worker it was meant for.
THEOREM CancellationWinsHolds == Spec => []CancellationWins
<1>1. Implementing /\ Implementing' /\ CancellationWins /\ [Next]_vars => CancellationWins'
  BY MapsStep, CancellationStep DEF Implementing, Typed
<1>2. QED
  BY <1>1, CancellationInit, ImplementingHolds, PTL DEF Spec

-----------------------------------------------------------------------------
(* The slots *)

LEMMA OccupiedFinite == IsFiniteSet(Occupied)
BY FS_Subset, TasksAssumption DEF Occupied

LEMMA SlotsKept ==
  ASSUME SlotsBounded, Types, Types', Occupied' \subseteq Occupied
  PROVE  SlotsBounded'
<1>1. /\ IsFiniteSet(Occupied') /\ Cardinality(Occupied') <= Cardinality(Occupied)
      /\ Cardinality(Occupied) \in Nat /\ Cardinality(Occupied') \in Nat
  BY OccupiedFinite, FS_Subset, FS_CardinalityType
<1>2. QED
  BY <1>1, TasksAssumption DEF SlotsBounded

LEMMA SlotsInit == Init => SlotsBounded
<1> SUFFICES ASSUME Init PROVE SlotsBounded
  OBVIOUS
<1>1. Occupied = {}
  BY DEF Init, Occupied, FreeSlot
<1>2. QED
  BY <1>1, FS_EmptySet, TasksAssumption DEF SlotsBounded

\* A slot is taken only while one is free.
LEMMA SlotsAcquire ==
  ASSUME Typed, Types', SlotsBounded, NEW w \in Runs, AcquireSlot(w)
  PROVE  SlotsBounded'
<1> DEFINE t == run[w].job
<1>1. t \in Tasks
  BY DEF AcquireSlot, Typed, JobKnown
<1>2. CASE UNCHANGED slot
  BY <1>2 DEF SlotsBounded, Occupied
<1>3. CASE /\ slot[t].run = NoRun /\ Cardinality(Occupied) < MaxWorkers
           /\ slot' = [slot EXCEPT ![t] = [run |-> w, expired |-> FALSE]]
  <2>1. Occupied' = Occupied \cup {t} /\ t \notin Occupied
    BY <1>1, <1>3, ActorsAssumption DEF Occupied, Typed, Types, Actors
  <2>2. Cardinality(Occupied') = Cardinality(Occupied) + 1 /\ Cardinality(Occupied) \in Nat
    BY <2>1, OccupiedFinite, FS_AddElement, FS_CardinalityType
  <2>3. QED
    BY <1>3, <2>2, TasksAssumption DEF SlotsBounded
<1>4. QED
  BY <1>2, <1>3 DEF AcquireSlot

\* A heartbeat renews its own slot and gives none back.
LEMMA PulseKeepsSlots ==
  ASSUME Typed, NEW w \in Runs, Pulse(w)
  PROVE  \A t \in Tasks : slot'[t].run = slot[t].run
<1>1. run[w].job \in Tasks
  BY PulseKeeps
<1>2. [slot[run[w].job] EXCEPT !.expired = FALSE].run = slot[run[w].job].run
  BY <1>1 DEF Typed, Types, SlotRecords
<1>3. QED
  BY <1>1, <1>2
  DEF Pulse, PulseLoad, PulseGoesOn, PulseBeat, PulseSlot, Typed, Types

LEMMA SlotsStep == Typed /\ Typed' /\ SlotsBounded /\ [Next]_vars => SlotsBounded'
<1> SUFFICES ASSUME Typed, Typed', SlotsBounded, [Next]_vars PROVE SlotsBounded'
  OBVIOUS
<1>1. CASE UNCHANGED slot
  BY <1>1 DEF SlotsBounded, Occupied
<1>2. CASE \A t \in Tasks : slot'[t].run \in {slot[t].run, NoRun}
  <2>1. Occupied' \subseteq Occupied
    BY <1>2 DEF Occupied
  <2>2. QED
    BY <2>1, SlotsKept DEF Typed
<1>3. ASSUME NEW w \in Runs, RunStep(w) PROVE SlotsBounded'
  <2>1. CASE ReleaseSlot(w) \/ RefuseWorkspace(w)
    BY <1>2, <2>1 DEF ReleaseSlot, RefuseWorkspace, FreeSlot, Typed, Types
  <2>2. CASE AcquireSlot(w)
    BY <2>2, SlotsAcquire DEF Typed
  <2>3. QED
    BY <1>1, <1>3, <2>1, <2>2
    DEF RunStep, LoadAgain, Claim, Prepare, RecordAttemptStart, ExecutorReturns,
        ExecutorThrows, Complete, BlockWithOutcome, CancelRunning, EndAttempt, CatchLoad, HandleFailure,
        BlockDependency, BlockOwnership, BlockLoaded
<1>4. ASSUME NEW w \in Runs, Pulse(w) PROVE SlotsBounded'
  BY <1>2, <1>4, PulseKeepsSlots
<1>5. ASSUME NEW t \in Tasks, SlotExpires(t) PROVE SlotsBounded'
  <2>1. [slot[t] EXCEPT !.expired = TRUE].run = slot[t].run
    BY DEF Typed, Types, SlotRecords
  <2>2. \A s \in Tasks : slot'[s].run = slot[s].run
    BY <1>5, <2>1 DEF SlotExpires, Typed, Types
  <2>3. QED
    BY <1>2, <2>2
<1>6. ASSUME NEW r \in Recoveries, RecoverBegin(r) \/ RecoveryStep(r) \/ RecoverAbandon(r)
      PROVE  SlotsBounded'
  <2>1. CASE RecoverBegin(r)
    BY <1>2, <2>1 DEF RecoverBegin, FreeSlot
  <2>2. CASE ReleaseHeld(r)
    BY <1>2, <2>2 DEF ReleaseHeld, FreeSlot, Typed, Types
  <2>3. QED
    BY <1>1, <1>6, <2>1, <2>2
    DEF RecoveryStep, RecoverAbandon, ScanTask, ScanAmbiguous, BlockAmbiguous, CheckIdle, BeginEnter,
        ActivateFence, Recheck, AbortEnter, Migrate, ExitMaintenance
<1>7. QED
  BY <1>1, <1>3, <1>4, <1>5, <1>6
  DEF Next, vars, Submit, RequestCancel, WorkerLeaves, Begin, Edit, Crash, Recycle,
      SweepStep, LaunchReady, BlockDependent, Clock, LeaseExpires, BackoffEnds

\* The records stay well formed, no task is attempted more often than its retry
\* policy allows (task-policy.ts retryEligible, task-store.ts recoverOrphan), and no
\* more slots are held than the scheduler has (task-scheduler.ts acquire).
THEOREM TypeCorrect == Spec => []TypeOK
<1>1. Init => SlotsBounded
  BY SlotsInit
<1>2. Implementing /\ Implementing' /\ SlotsBounded /\ [Next]_vars => SlotsBounded'
  BY SlotsStep DEF Implementing
<1>3. Implementing /\ SlotsBounded => TypeOK
  BY DEF Implementing, Typed, AttemptLeft, TypeOK, AttemptsBounded
<1>4. QED
  BY <1>1, <1>2, <1>3, ImplementingHolds, PTL DEF Spec

-----------------------------------------------------------------------------
(* The workers: processes of one host *)

\* Every recovery can ask the system about every worker's process.
SameHost == \A r \in Recoveries, w \in Runs : HostOf[r] = HostOf[w]

\* A running task belongs to a run: there is somebody to probe.
RunningOwned == \A t \in Running : task[t].owner \in Runs

\* A run that works holds the slot of its task, expired or not.
SlotHeld == \A w \in Runs : pc[w] \in Working => slot[run[w].job].run = w

\* On one host no owner is in doubt, and a recovery gives back slots of dead runs only.
DeadOnly ==
  \A r \in Recoveries : /\ sweep[r].ambiguous = {} /\ pc[r] # "blockingAmbiguous"
                        /\ \A v \in sweep[r].from : v \in Runs /\ pc[v] = "gone"

WorkersInv == RunningOwned /\ SlotHeld /\ DeadOnly

\* A step keeps SlotHeld if it starts no work, and frees only slots of runs that do
\* not work after it.
LEMMA HeldKept ==
  ASSUME Typed, SlotHeld,
         \A v \in Runs : pc'[v] \in Working => pc[v] \in Working /\ run'[v].job = run[v].job,
         \A t \in Tasks : \/ slot'[t].run = slot[t].run
                          \/ \A v \in Runs : slot[t].run = v => pc'[v] \notin Working
  PROVE  SlotHeld'
<1> SUFFICES ASSUME NEW v \in Runs, pc'[v] \in Working PROVE slot'[run'[v].job].run = v
  BY DEF SlotHeld
<1>1. pc[v] \in Working /\ run'[v].job = run[v].job
  OBVIOUS
<1>2. run[v].job \in Tasks /\ slot[run[v].job].run = v
  BY <1>1 DEF SlotHeld, Typed, JobKnown, Working, Attempting
<1>3. QED
  BY <1>1, <1>2

\* A step keeps DeadOnly if it neither doubts an owner nor revives a run whose slot is
\* being released.
LEMMA DeadKept ==
  ASSUME DeadOnly,
         \A r \in Recoveries : /\ sweep'[r].ambiguous \subseteq sweep[r].ambiguous
                               /\ sweep'[r].from \subseteq sweep[r].from
                               /\ pc'[r] # "blockingAmbiguous",
         \A v \in Runs : pc[v] = "gone" =>
           pc'[v] = "gone" \/ \A r \in Recoveries : v \notin sweep[r].from
  PROVE  DeadOnly'
BY DEF DeadOnly

\* A step of run w, as the slots and the recoveries see it.
RunMoves(w) ==
  /\ \A v \in Runs \ {w} : pc'[v] = pc[v] /\ run'[v].job = run[v].job
  /\ \A r \in Recoveries : pc'[r] = pc[r] /\ sweep'[r] = sweep[r]
  /\ pc[w] = "gone" => pc'[w] = "gone" \/ \A r \in Recoveries : w \notin sweep[r].from
  /\ pc'[w] \in Working => pc[w] \in Working /\ run'[w].job = run[w].job

LEMMA RunMovesKeep ==
  ASSUME Typed, SlotHeld, DeadOnly, NEW w \in Runs, RunMoves(w),
         \A t \in Tasks : \/ slot'[t].run = slot[t].run
                          \/ slot[t].run = w /\ pc'[w] \notin Working
  PROVE  SlotHeld' /\ DeadOnly'
<1>1. SlotHeld'
  BY HeldKept DEF RunMoves
<1>2. DeadOnly'
  BY DeadKept DEF RunMoves, DeadOnly
<1>3. QED
  BY <1>1, <1>2

\* The labels a run is at when it begins to work.
LEMMA WorkingLabels ==
  /\ {"slotted", "claimed", "prepared", "executing", "completing", "blocking", "cancelling",
      "failing", "handling", "blockingDependency", "finishing"} = Working
  /\ \A label \in {"idle", "waiting", "loaded", "sweeping", "gone", "blockingOwnership"} :
       label \notin Working
BY DEF Working, Attempting

\* The steps of a run that works and goes on working.
LEMMA RunWorks ==
  ASSUME Typed, NEW w \in Runs,
         \/ Claim(w) \/ Prepare(w) \/ RecordAttemptStart(w)
         \/ ExecutorThrows(w) \/ ExecutorReturns(w) \/ Complete(w) \/ BlockWithOutcome(w)
         \/ CancelRunning(w) \/ CatchLoad(w) \/ HandleFailure(w) \/ BlockDependency(w)
         \/ Edit(w)
  PROVE  RunMoves(w)
<1>1. /\ \A v \in Runs \ {w} : pc'[v] = pc[v] /\ run'[v].job = run[v].job
      /\ \A r \in Recoveries : pc'[r] = pc[r] /\ sweep'[r] = sweep[r]
  BY ActorsAssumption
  DEF Claim, Prepare, RecordAttemptStart, ExecutorThrows, ExecutorReturns, Complete,
      BlockWithOutcome, CancelRunning, EndAttempt, CatchLoad, HandleFailure, BlockDependency,
      BlockLoaded, Edit, Goto, Throw, Typed, Types, Actors
<1>2. pc[w] \in Working
  BY WorkingLabels
  DEF Claim, Prepare, RecordAttemptStart, ExecutorThrows, ExecutorReturns, Complete,
      BlockWithOutcome, CancelRunning, EndAttempt, CatchLoad, HandleFailure, BlockDependency,
      BlockLoaded, Edit
<1>3. run'[w].job = run[w].job
  BY DEF Claim, Prepare, RecordAttemptStart, ExecutorThrows, ExecutorReturns, Complete,
         BlockWithOutcome, CancelRunning, EndAttempt, CatchLoad, HandleFailure,
         BlockDependency, BlockLoaded, Edit, Throw, Typed, Types, RunRecords
<1>4. QED
  BY <1>1, <1>2, <1>3, WorkingLabels DEF RunMoves

LEMMA PulseWorks ==
  ASSUME Typed, NEW w \in Runs, Pulse(w)
  PROVE  RunMoves(w)
BY PulseKeeps, WorkingLabels DEF RunMoves

\* The steps of a run that does not work after them.
LEMMA RunRests ==
  ASSUME Typed, NEW w \in Runs,
         \/ RefuseWorkspace(w) \/ BlockOwnership(w) \/ ReleaseSlot(w) \/ LaunchReady(w)
         \/ Crash(w) \/ Recycle(w) \/ LoadAgain(w) \/ \E t \in Tasks : Begin(w, t)
  PROVE  RunMoves(w) /\ pc'[w] \notin Working
<1>1. /\ \A v \in Runs \ {w} : pc'[v] = pc[v] /\ run'[v].job = run[v].job
      /\ \A r \in Recoveries : pc'[r] = pc[r] /\ sweep'[r] = sweep[r]
  BY ActorsAssumption
  DEF RefuseWorkspace, BlockOwnership, BlockLoaded, ReleaseSlot, LaunchReady, Crash, Recycle,
      LoadAgain, ReturnAtOnce, Begin, Goto, Typed, Types, Actors
<1>2. pc'[w] \in {"idle", "waiting", "loaded", "sweeping", "gone", "blockingOwnership"}
  BY DEF RefuseWorkspace, BlockOwnership, BlockLoaded, ReleaseSlot, LaunchReady, Crash, Recycle,
         LoadAgain, ReturnAtOnce, Begin, Goto, Typed, Types, Actors
<1>3. pc[w] = "gone" => pc'[w] = "gone" \/ \A r \in Recoveries : w \notin sweep[r].from
  BY DEF RefuseWorkspace, BlockOwnership, BlockLoaded, ReleaseSlot, LaunchReady, Crash, Recycle,
         LoadAgain, Begin
<1>4. QED
  BY <1>1, <1>2, <1>3, WorkingLabels DEF RunMoves

\* Only the acquire of a free slot makes a run work.
LEMMA WorkersAcquire ==
  ASSUME Typed, SlotHeld, DeadOnly, NEW w \in Runs, AcquireSlot(w)
  PROVE  SlotHeld' /\ DeadOnly'
<1> DEFINE t == run[w].job
<1>1. t \in Tasks /\ pc[w] = "loaded"
  BY DEF AcquireSlot, Typed, JobKnown
<1>2. /\ \A v \in Runs \ {w} : pc'[v] = pc[v] /\ run'[v].job = run[v].job
      /\ \A r \in Recoveries : pc'[r] = pc[r] /\ sweep'[r] = sweep[r]
  BY ActorsAssumption DEF AcquireSlot, ReturnAtOnce, Goto, Typed, Types, Actors
<1>3. CASE pc'[w] = "idle" /\ UNCHANGED slot
  <2>1. RunMoves(w)
    BY <1>1, <1>2, <1>3, WorkingLabels DEF RunMoves
  <2>2. QED
    BY <1>3, <2>1, RunMovesKeep
<1>4. CASE /\ slot[t].run = NoRun
           /\ slot' = [slot EXCEPT ![t] = [run |-> w, expired |-> FALSE]]
           /\ UNCHANGED run
  <2>1. slot'[t].run = w /\ \A s \in Tasks \ {t} : slot'[s] = slot[s]
    BY <1>1, <1>4 DEF Typed, Types
  <2>2. ASSUME NEW v \in Runs \ {w}, pc'[v] \in Working
        PROVE  slot'[run'[v].job].run = v
    <3>1. run[v].job \in Tasks /\ slot[run[v].job].run = v
      BY <1>2, <2>2 DEF SlotHeld, Typed, JobKnown, Working, Attempting
    <3>2. run[v].job # t
      BY <1>4, <3>1, ActorsAssumption DEF Actors
    <3>3. QED
      BY <1>4, <2>1, <3>1, <3>2
  <2>3. SlotHeld'
    BY <1>4, <2>1, <2>2 DEF SlotHeld
  <2>4. DeadOnly'
    BY <1>1, <1>2, DeadKept DEF DeadOnly
  <2>5. QED
    BY <2>3, <2>4
<1>5. pc'[w] = "idle" \/ UNCHANGED run
  BY DEF AcquireSlot, ReturnAtOnce, Goto, Typed, Types, Actors
<1>6. QED
  BY <1>3, <1>4 DEF AcquireSlot, ReturnAtOnce, Goto, Typed, Types, Actors

LEMMA WorkersRunStep ==
  ASSUME Typed, SlotHeld, DeadOnly, NEW w \in Runs,
         \/ RunStep(w) \/ Edit(w) \/ Pulse(w) \/ Crash(w) \/ Recycle(w) \/ LaunchReady(w)
         \/ \E t \in Tasks : Begin(w, t)
  PROVE  SlotHeld' /\ DeadOnly'
<1>1. CASE \/ Claim(w) \/ Prepare(w) \/ RecordAttemptStart(w) \/ Pulse(w)
           \/ ExecutorThrows(w) \/ ExecutorReturns(w) \/ Complete(w) \/ BlockWithOutcome(w)
           \/ CancelRunning(w) \/ CatchLoad(w) \/ HandleFailure(w) \/ BlockDependency(w)
           \/ Edit(w)
  <2>1. RunMoves(w)
    BY <1>1, RunWorks, PulseWorks
  <2>2. \A t \in Tasks : slot'[t].run = slot[t].run
    BY <1>1, PulseKeepsSlots
    DEF Claim, Prepare, RecordAttemptStart, ExecutorThrows, ExecutorReturns, Complete,
        BlockWithOutcome, CancelRunning, EndAttempt, CatchLoad, HandleFailure,
        BlockDependency, BlockLoaded, Edit
  <2>3. QED
    BY <2>1, <2>2, RunMovesKeep
<1>2. CASE \/ RefuseWorkspace(w) \/ BlockOwnership(w) \/ ReleaseSlot(w) \/ LaunchReady(w)
           \/ Crash(w) \/ Recycle(w) \/ LoadAgain(w) \/ \E t \in Tasks : Begin(w, t)
  <2>1. RunMoves(w) /\ pc'[w] \notin Working
    BY <1>2, RunRests
  <2>2. \A t \in Tasks : slot'[t].run = slot[t].run \/ slot[t].run = w
    <3>1. CASE RefuseWorkspace(w)
      <4>1. run[w].job \in Tasks /\ slot[run[w].job].run = w
        BY <3>1, WorkingLabels DEF RefuseWorkspace, SlotHeld, Typed, JobKnown
      <4>2. QED
        BY <3>1, <4>1 DEF RefuseWorkspace, Typed, Types
    <3>2. CASE ReleaseSlot(w)
      BY <3>2 DEF ReleaseSlot, Typed, Types
    <3>3. QED
      BY <1>2, <3>1, <3>2 
      DEF BlockOwnership, BlockLoaded, LaunchReady, Crash, Recycle, LoadAgain, Begin
  <2>3. QED
    BY <2>1, <2>2, RunMovesKeep
<1>3. QED
  BY <1>1, <1>2, WorkersAcquire DEF RunStep

\* A recovery leaves the runs alone.
LEMMA RecoveryLeavesRuns ==
  ASSUME Typed, NEW r \in Recoveries,
         RecoverBegin(r) \/ RecoveryStep(r) \/ RecoverAbandon(r) \/ LaunchReady(r)
  PROVE  /\ UNCHANGED run /\ \A v \in Runs : pc'[v] = pc[v]
         /\ \A q \in Recoveries \ {r} : pc'[q] = pc[q] /\ sweep'[q] = sweep[q]
BY ActorsAssumption
DEF RecoverBegin, RecoveryStep, ScanTask, ScanAmbiguous, BlockAmbiguous, ReleaseHeld,
    CheckIdle, BeginEnter, ActivateFence, Recheck, AbortEnter, Migrate, ExitMaintenance,
    RecoverAbandon, LaunchReady, Goto, Leave, Typed, Types, Actors

\* On one host a probe answers, so nothing becomes ambiguous.
LEMMA ProbeAnswers ==
  ASSUME SameHost, NEW r \in Recoveries, NEW w \in Runs
  PROVE  /\ Probe(r, w) \in {"alive", "dead"}
         /\ Probe(r, w) = "dead" => pc[w] = "gone"
BY DEF SameHost, Probe

LEMMA WorkersRecoverBegin ==
  ASSUME SameHost, Typed, SlotHeld, DeadOnly, NEW r \in Recoveries, RecoverBegin(r)
  PROVE  SlotHeld' /\ DeadOnly'
<1>1. \A t \in Occupied : slot[t].run \in Runs
  BY DEF Occupied, Typed, Types, SlotRecords
<1>2. ExpiredSlots(r, "unknown") = {}
  BY <1>1, ProbeAnswers DEF ExpiredSlots
<1>3. \A t \in ExpiredSlots(r, "dead") : pc[slot[t].run] = "gone" /\ slot[t].run \in Runs
  BY <1>1, ProbeAnswers DEF ExpiredSlots
<1>4. SlotHeld'
  <2>1. \A t \in Tasks : \/ slot'[t].run = slot[t].run
                        \/ \A v \in Runs : slot[t].run = v => pc'[v] \notin Working
    BY <1>3, RecoveryLeavesRuns, WorkingLabels DEF RecoverBegin
  <2>2. QED
    BY <2>1, RecoveryLeavesRuns, HeldKept
<1>5. DeadOnly'
  <2>1. sweep'[r].ambiguous = {} /\ sweep'[r].from = {} /\ pc'[r] = "scanning"
    BY <1>2 DEF RecoverBegin, NewSweep, Goto, Typed, Types, Actors
  <2>2. QED
    BY <2>1, RecoveryLeavesRuns DEF DeadOnly
<1>6. QED
  BY <1>4, <1>5

\* A task is reclaimed only from an owner that is gone.
LEMMA WorkersScanTask ==
  ASSUME SameHost, Typed, RunningOwned, SlotHeld, DeadOnly, NEW r \in Recoveries,
         NEW t \in Tasks, ScanTask(r, t)
  PROVE  SlotHeld' /\ DeadOnly'
<1>1. SlotHeld'
  BY RecoveryLeavesRuns, HeldKept DEF ScanTask, RecoveryStep
<1>2. pc'[r] # "blockingAmbiguous"
  BY DEF ScanTask, Goto, Leave, Typed, Types, Actors
<1>3. sweep'[r].ambiguous \subseteq sweep[r].ambiguous
  BY DEF ScanTask, Leave, NewSweep, Typed, Types, SweepRecords
<1>4. \A v \in sweep'[r].from : v \in Runs /\ pc[v] = "gone"
  <2>1. CASE Leave(r)
    BY <2>1 DEF Leave, NewSweep, Typed, Types
  <2>2. CASE sweep' = [sweep EXCEPT ![r].todo = sweep[r].todo \ {t}]
    BY <2>2 DEF DeadOnly, Typed, Types, SweepRecords
  <2>3. ASSUME NEW decision, decision # "retain", t \in Running,
               decision = ReclaimDecision(task[t].expired, Probe(r, task[t].owner)),
               sweep' = [sweep EXCEPT ![r].todo = sweep[r].todo \ {t}, ![r].held = t,
                           ![r].from = IF decision = "reclaim" THEN {task[t].owner} ELSE Runs]
        PROVE  \A v \in sweep'[r].from : v \in Runs /\ pc[v] = "gone"
    <3>1. task[t].owner \in Runs
      BY <2>3 DEF RunningOwned
    <3>2. decision = "reclaim" /\ pc[task[t].owner] = "gone"
      BY <2>3, <3>1, ProbeAnswers DEF ReclaimDecision
    <3>3. sweep'[r].from = {task[t].owner}
      BY <2>3, <3>2 DEF Typed, Types, SweepRecords
    <3>4. QED
      BY <3>1, <3>2, <3>3
  <2>4. QED
    BY <2>1, <2>2, <2>3 DEF ScanTask
<1>5. DeadOnly'
  BY <1>2, <1>3, <1>4, RecoveryLeavesRuns DEF RecoveryStep, DeadOnly
<1>6. QED
  BY <1>1, <1>5

\* A release frees the slot of a dead run, or none.
LEMMA WorkersRelease ==
  ASSUME Typed, SlotHeld, DeadOnly, NEW r \in Recoveries, ReleaseHeld(r)
  PROVE  SlotHeld' /\ DeadOnly'
<1>1. sweep[r].held \in Tasks
  BY DEF ReleaseHeld, Typed, HeldKnown
<1>2. \A s \in Tasks : slot'[s].run = slot[s].run \/ slot[s].run \in sweep[r].from
  BY <1>1 DEF ReleaseHeld, Typed, Types
<1>3. SlotHeld'
  <2>1. \A v \in sweep[r].from : pc'[v] \notin Working
    BY RecoveryLeavesRuns, WorkingLabels DEF RecoveryStep, DeadOnly
  <2>2. QED
    BY <1>2, <2>1, RecoveryLeavesRuns, HeldKept DEF RecoveryStep
<1>4. sweep'[r].from = {} /\ sweep'[r].ambiguous = sweep[r].ambiguous /\ pc'[r] = "scanning"
  BY DEF ReleaseHeld, Goto, Typed, Types, Actors, SweepRecords
<1>5. DeadOnly'
  BY <1>4, RecoveryLeavesRuns DEF RecoveryStep, DeadOnly
<1>6. QED
  BY <1>3, <1>5

\* The other steps of a recovery touch no slot, and on one host no task is ambiguous.
LEMMA WorkersRecovery ==
  ASSUME Typed, SlotHeld, DeadOnly, NEW r \in Recoveries,
         \/ \E t \in Tasks : ScanAmbiguous(r, t)
         \/ BlockAmbiguous(r) \/ CheckIdle(r) \/ BeginEnter(r) \/ ActivateFence(r)
         \/ Recheck(r) \/ AbortEnter(r) \/ Migrate(r) \/ ExitMaintenance(r)
         \/ RecoverAbandon(r) \/ LaunchReady(r)
  PROVE  SlotHeld' /\ DeadOnly'
<1>1. UNCHANGED run /\ \A v \in Runs : pc'[v] = pc[v]
  BY RecoveryLeavesRuns DEF RecoveryStep
<1>2. UNCHANGED slot
  BY DEF ScanAmbiguous, BlockAmbiguous, CheckIdle, BeginEnter, ActivateFence, Recheck,
         AbortEnter, Migrate, ExitMaintenance, RecoverAbandon, LaunchReady
<1>3. SlotHeld'
  BY <1>1, <1>2, HeldKept
<1>4. ~BlockAmbiguous(r) /\ \A t \in Tasks : ~ScanAmbiguous(r, t)
  BY DEF DeadOnly, BlockAmbiguous, ScanAmbiguous
<1>5. pc'[r] # "blockingAmbiguous"
  BY <1>4, ActorsAssumption
  DEF CheckIdle, BeginEnter, ActivateFence, Recheck, AbortEnter, Migrate, ExitMaintenance,
      RecoverAbandon, LaunchReady, Goto, Leave, Typed, Types, Actors
<1>6. sweep'[r].from \subseteq sweep[r].from /\ sweep'[r].ambiguous \subseteq sweep[r].ambiguous
  BY <1>4
  DEF CheckIdle, BeginEnter, ActivateFence, Recheck, AbortEnter, Migrate, ExitMaintenance,
      RecoverAbandon, LaunchReady, Leave, NewSweep, Typed, Types, SweepRecords
<1>7. DeadOnly'
  BY <1>1, <1>5, <1>6, RecoveryLeavesRuns DEF RecoveryStep, DeadOnly
<1>8. QED
  BY <1>3, <1>7

LEMMA WorkersStep ==
  ASSUME SameHost, Typed, OwnsAttempt, WorkersInv, [Next]_vars
  PROVE  WorkersInv'
<1>1. RunningOwned'
  BY FitStep, RunningFits DEF WorkersInv, RunningOwned
<1> SUFFICES SlotHeld' /\ DeadOnly'
  BY <1>1 DEF WorkersInv
<1>2. ASSUME UNCHANGED <<pc, run, sweep>>, \A t \in Tasks : slot'[t].run = slot[t].run
      PROVE  SlotHeld' /\ DeadOnly'
  BY <1>2, HeldKept DEF WorkersInv, DeadOnly
<1>3. CASE UNCHANGED <<pc, run, sweep, slot>>
  BY <1>2, <1>3
<1>4. CASE \E w \in Runs : \/ \E t \in Tasks : Begin(w, t)
                           \/ RunStep(w) \/ Edit(w) \/ Pulse(w) \/ Crash(w) \/ Recycle(w)
  BY <1>4, WorkersRunStep DEF WorkersInv
<1>5. CASE \E r \in Recoveries : RecoverBegin(r) \/ RecoveryStep(r) \/ RecoverAbandon(r)
  BY <1>5, WorkersRecoverBegin, WorkersScanTask, WorkersRelease, WorkersRecovery
  DEF RecoveryStep, WorkersInv
<1>6. CASE \E a \in Actors : SweepStep(a)
  BY <1>3, <1>6, WorkersRunStep, WorkersRecovery
  DEF SweepStep, BlockDependent, Actors, WorkersInv
<1>7. ASSUME NEW t \in Tasks, SlotExpires(t)
      PROVE  SlotHeld' /\ DeadOnly'
  <2>1. [slot[t] EXCEPT !.expired = TRUE].run = slot[t].run
    BY DEF Typed, Types, SlotRecords
  <2>2. \A s \in Tasks : slot'[s].run = slot[s].run
    BY <1>7, <2>1 DEF SlotExpires, Typed, Types
  <2>3. QED
    BY <1>2, <1>7, <2>2 DEF SlotExpires
<1>8. QED
  BY <1>3, <1>4, <1>5, <1>6, <1>7
  DEF Next, vars, Submit, RequestCancel, WorkerLeaves, Clock, LeaseExpires, BackoffEnds

\* Each worker holds a slot of its own.
LEMMA WorkersHoldSlots ==
  ASSUME Typed, SlotHeld, SlotsBounded
  PROVE  WorkersWithinLimit
<1> DEFINE workers == {w \in Runs : pc[w] \in Working}
           slotOf == [w \in workers |-> run[w].job]
<1>1. \A w \in workers : run[w].job \in Occupied /\ slot[run[w].job].run = w
  BY ActorsAssumption DEF SlotHeld, Typed, JobKnown, Working, Attempting, Occupied, Actors
<1>2. slotOf \in Injection(workers, Occupied)
  BY <1>1 DEF Injection, IsInjective
<1>3. IsFiniteSet(workers) /\ Cardinality(workers) <= Cardinality(Occupied)
  BY <1>2, OccupiedFinite, FS_Injection
<1>4. Cardinality(workers) \in Nat /\ Cardinality(Occupied) \in Nat /\ MaxWorkers \in Nat
  BY <1>3, OccupiedFinite, FS_CardinalityType, TasksAssumption
<1>5. QED
  BY <1>3, <1>4 DEF SlotsBounded, WorkersWithinLimit

\* No more workers than slots, whatever expires and whoever is recovered, if every
\* recovery can ask about every worker (task-scheduler.ts recoverExpired frees an
\* expired slot of a dead owner only).
THEOREM WorkersWithinLimitHolds == ASSUME SameHost PROVE Spec => []WorkersWithinLimit
<1>1. Init => WorkersInv
  BY ActorsAssumption, WorkingLabels
  DEF Init, WorkersInv, RunningOwned, SlotHeld, DeadOnly, Running, NewTask, NewSweep, Absent,
      Actors
<1>2. Typed /\ OwnsAttempt /\ WorkersInv /\ [Next]_vars => WorkersInv'
  BY WorkersStep
<1>3. Typed /\ WorkersInv /\ TypeOK => WorkersWithinLimit
  BY WorkersHoldSlots DEF WorkersInv, TypeOK
<1>4. Spec => [](Typed /\ OwnsAttempt /\ WorkersInv)
  BY <1>1, <1>2, InitTyped, OwnsInit, TypedStep, OwnsStep, PTL DEF Spec
<1>5. QED
  BY <1>3, <1>4, TypeCorrect, PTL
=============================================================================

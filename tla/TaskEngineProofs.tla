-------------------------- MODULE TaskEngineProofs --------------------------
(***************************************************************************)
(* The safety of TaskEngine, for every set of tasks, runs and recoveries:  *)
(* the types are inductive, a task has one executor, no retry builds on    *)
(* half-done edits, and, with one process that recovers, no task runs      *)
(* while records are migrated and no epoch strands a running task.  What   *)
(* the other proofs about the engine rest on.                              *)
(***************************************************************************)
EXTENDS TaskEngine, FiniteSetTheorems, TLAPS

-----------------------------------------------------------------------------
(* Types *)

\* Between its start and its end a run works on a task.
JobKnown ==
  \A w \in Runs : pc[w] \notin {"idle", "sweeping", "gone"} => run[w].job \in Tasks

\* A recovery that releases a slot releases the slot of a task.
HeldKnown ==
  \A r \in Recoveries :
    pc[r] \in {"releasing", "blockingAmbiguous"} => sweep[r].held \in Tasks

Typed == Types /\ JobKnown /\ HeldKnown

\* A record with one field changed is a record still.
LEMMA RecordEdits ==
  ASSUME NEW record \in TaskRecords
  PROVE  /\ \A to \in TaskStatus : [record EXCEPT !.status = to] \in TaskRecords
         /\ \A b \in BOOLEAN : /\ [record EXCEPT !.expired = b] \in TaskRecords
                               /\ [record EXCEPT !.cancel = b] \in TaskRecords
                               /\ [record EXCEPT !.backoff = b] \in TaskRecords
                               /\ [record EXCEPT !.dirty = b] \in TaskRecords
         /\ [record EXCEPT !.begun = TRUE, !.dirty = FALSE] \in TaskRecords
BY DEF TaskRecords

\* So is the record a claim writes.
LEMMA RecordClaim ==
  ASSUME NEW record \in TaskRecords, NEW m \in Nat, NEW w \in Runs, NEW n \in Nat
  PROVE  [record EXCEPT !.attempt = m, !.owner = w, !.epoch = n,
                        !.expired = FALSE, !.begun = FALSE] \in TaskRecords
BY DEF TaskRecords

\* The record of a task, moved or not, is a task record.
LEMMA MovedType ==
  ASSUME Types, NEW t \in Tasks
  PROVE  /\ task[t] \in TaskRecords
         /\ \A to \in TaskStatus : Moved(t, to) \in TaskRecords
<1>1. task[t] \in TaskRecords
  BY DEF Types
<1>2. QED
  BY <1>1, RecordEdits DEF Moved

\* A write keeps the types of what it writes.
LEMMA SaveTypes ==
  ASSUME Types, NEW a, NEW t \in Tasks, NEW record \in TaskRecords,
         Save(a, t, record)
  PROVE  task' \in [Tasks -> TaskRecords] /\ fresh' \subseteq Copies
BY DEF Types, Save

\* What a process reads, and what it forgets, keeps the type of fresh.
LEMMA FreshTypes ==
  ASSUME fresh \subseteq Copies
  PROVE  /\ \A w \in Runs, t \in Tasks : fresh \cup {<<w, t>>} \subseteq Copies
         /\ \A r \in Recoveries, t \in Tasks : fresh \cup {<<r, t>>} \subseteq Copies
         /\ \A r \in Recoveries : fresh \cup ({r} \X Running) \subseteq Copies
         /\ \A r, t : fresh \ {<<r, t>>} \subseteq Copies
         /\ \A a : Forget(a) => fresh' \subseteq Copies
BY DEF Copies, Actors, Running, Forget

\* The values that processes and slots are reset to.
LEMMA LocalTypes ==
  /\ FreeSlot \in SlotRecords /\ NewRun \in RunRecords /\ NewSweep \in SweepRecords
  /\ \A w \in Runs : [run |-> w, expired |-> FALSE] \in SlotRecords
BY DEF FreeSlot, NewRun, NewSweep, SlotRecords, RunRecords, SweepRecords

\* What is thrown keeps the locals of a run what they are.
LEMMA ThrowTypes ==
  ASSUME Types, NEW w \in Runs, NEW cause \in {"early", "late", "dependency"}, Throw(w, cause)
  PROVE  run' \in [Runs -> RunRecords]
<1>1. run \in [Runs -> RunRecords]
  BY DEF Types
<1>2. [run[w] EXCEPT !.cause = cause] \in RunRecords
  BY <1>1 DEF RunRecords
<1>3. QED
  BY <1>1, <1>2 DEF Throw

LEMMA InitTyped == Init => Typed
BY ActorsAssumption, TasksAssumption
DEF Init, Typed, Types, JobKnown, HeldKnown, NewTask, FreeSlot, NewRun, NewSweep,
    TaskRecords, SlotRecords, RunRecords, SweepRecords, RunLabels, RecoveryLabels,
    Actors, TaskStatus

-----------------------------------------------------------------------------
(* Each action keeps the types *)

LEMMA TypedSubmit ==
  ASSUME Typed, NEW t \in Tasks, Submit(t)
  PROVE  Typed'
<1>1. task' \in [Tasks -> TaskRecords]
  BY MovedType DEF Typed, Types, Submit, TaskStatus
<1>2. QED
  BY <1>1 DEF Submit, Typed, Types, JobKnown, HeldKnown

LEMMA TypedRequestCancel ==
  ASSUME Typed, NEW t \in Tasks, RequestCancel(t)
  PROVE  Typed'
<1>1. /\ [task[t] EXCEPT !.cancel = TRUE] \in TaskRecords
      /\ Moved(t, "cancelled") \in TaskRecords
  BY MovedType, RecordEdits DEF Typed, TaskStatus, TERMINAL
<1>2. task' \in [Tasks -> TaskRecords] /\ fresh' \subseteq Copies
  BY <1>1, SaveTypes DEF Typed, RequestCancel
<1>3. QED
  BY <1>2 DEF RequestCancel, Typed, Types, JobKnown, HeldKnown

LEMMA TypedBegin ==
  ASSUME Typed, NEW w \in Runs, NEW t \in Tasks, Begin(w, t)
  PROVE  Typed'
BY ActorsAssumption, TasksAssumption, LocalTypes, FreshTypes
DEF Begin, Typed, Types, JobKnown, HeldKnown, Actors, Goto, RunLabels, RunRecords, NewRun

LEMMA TypedLoadAgain ==
  ASSUME Typed, NEW w \in Runs, LoadAgain(w)
  PROVE  Typed'
<1>1. run[w].job \in Tasks
  BY DEF LoadAgain, Typed, JobKnown
<1>2. run' \in [Runs -> RunRecords] /\ fresh' \subseteq Copies
  BY <1>1, LocalTypes, FreshTypes DEF LoadAgain, ReturnAtOnce, Typed, Types
<1>3. Types'
  BY <1>2 DEF LoadAgain, ReturnAtOnce, Typed, Types, Goto, Actors, RunLabels
<1>4. JobKnown' /\ HeldKnown'
  BY ActorsAssumption
  DEF LoadAgain, ReturnAtOnce, Typed, Types, JobKnown, HeldKnown, Goto, Actors
<1>5. QED
  BY <1>3, <1>4 DEF Typed

LEMMA TypedAcquireSlot ==
  ASSUME Typed, NEW w \in Runs, AcquireSlot(w)
  PROVE  Typed'
<1>1. slot' \in [Tasks -> SlotRecords] /\ run' \in [Runs -> RunRecords]
  BY LocalTypes DEF AcquireSlot, ReturnAtOnce, Typed, Types
<1>2. Types'
  BY <1>1, FreshTypes DEF AcquireSlot, ReturnAtOnce, Typed, Types, Goto, Actors, RunLabels
<1>3. JobKnown' /\ HeldKnown'
  BY ActorsAssumption DEF AcquireSlot, ReturnAtOnce, Typed, Types, JobKnown, HeldKnown, Goto, Actors
<1>4. QED
  BY <1>2, <1>3 DEF Typed

LEMMA TypedClaim ==
  ASSUME Typed, NEW w \in Runs, Claim(w)
  PROVE  Typed'
<1>1. run[w].job \in Tasks
  BY DEF Claim, Typed, JobKnown
<1>2. [Moved(run[w].job, "running") EXCEPT
        !.attempt = task[run[w].job].attempt + 1, !.owner = w, !.epoch = fence.epoch,
        !.expired = FALSE, !.begun = FALSE] \in TaskRecords
  <2>1. Moved(run[w].job, "running") \in TaskRecords /\ fence.epoch \in Nat
         /\ task[run[w].job].attempt + 1 \in Nat
    BY <1>1, MovedType DEF Typed, Types, TaskStatus, TaskRecords
  <2>2. QED
    BY <2>1, RecordClaim
<1>3. task' \in [Tasks -> TaskRecords] /\ fresh' \subseteq Copies
  BY <1>1, <1>2, SaveTypes DEF Claim, Typed, Types
<1>4. Types'
  <2>1. run' \in [Runs -> RunRecords]
    BY ThrowTypes DEF Claim, Typed, Types
  <2>2. pc' \in [Actors -> RunLabels \cup RecoveryLabels]
    BY DEF Claim, Typed, Types, Throw, Goto, Actors, RunLabels
  <2>3. faults' \in 0..MaxFaults
    BY TasksAssumption DEF Claim, Typed, Types, Refused, Fault
  <2>4. QED
    BY <1>3, <2>1, <2>2, <2>3 DEF Claim, Typed, Types
<1>5. JobKnown' /\ HeldKnown'
  BY ActorsAssumption
  DEF Claim, Typed, Types, JobKnown, HeldKnown, Goto, Throw, Actors, RunRecords
<1>6. QED
  BY <1>4, <1>5 DEF Typed

LEMMA TypedPrepare ==
  ASSUME Typed, NEW w \in Runs, Prepare(w)
  PROVE  Typed'
<1>1. run[w].job \in Tasks
  BY DEF Prepare, Typed, JobKnown
<1>2. task' \in [Tasks -> TaskRecords] /\ fresh' \subseteq Copies
  BY <1>1, MovedType, SaveTypes DEF Prepare, Typed, Types
<1>3. Types'
  <2>1. run' \in [Runs -> RunRecords]
    BY ThrowTypes DEF Prepare, Typed, Types
  <2>2. pc' \in [Actors -> RunLabels \cup RecoveryLabels]
    BY DEF Prepare, Typed, Types, Throw, Goto, Actors, RunLabels
  <2>3. QED
    BY <1>2, <2>1, <2>2 DEF Prepare, Typed, Types
<1>4. JobKnown' /\ HeldKnown'
  BY ActorsAssumption
  DEF Prepare, Typed, Types, JobKnown, HeldKnown, Goto, Throw, Actors, RunRecords
<1>5. QED
  BY <1>3, <1>4 DEF Typed

LEMMA TypedRecordAttemptStart ==
  ASSUME Typed, NEW w \in Runs, RecordAttemptStart(w)
  PROVE  Typed'
<1>1. run[w].job \in Tasks
  BY DEF RecordAttemptStart, Typed, JobKnown
<1>2. [task[run[w].job] EXCEPT !.begun = TRUE, !.dirty = FALSE] \in TaskRecords
  BY <1>1, MovedType, RecordEdits DEF Typed
<1>3. task' \in [Tasks -> TaskRecords] /\ fresh' \subseteq Copies
  BY <1>1, <1>2, SaveTypes DEF RecordAttemptStart, Typed, Types
<1>4. Types'
  <2>1. run' \in [Runs -> RunRecords]
    BY ThrowTypes DEF RecordAttemptStart, Typed, Types
  <2>2. pc' \in [Actors -> RunLabels \cup RecoveryLabels]
    BY DEF RecordAttemptStart, Typed, Types, Throw, Goto, Actors, RunLabels
  <2>3. faults' \in 0..MaxFaults
    BY TasksAssumption DEF RecordAttemptStart, Typed, Types, Refused, Fault
  <2>4. QED
    BY <1>3, <2>1, <2>2, <2>3 DEF RecordAttemptStart, Typed, Types
<1>5. JobKnown' /\ HeldKnown'
  BY ActorsAssumption
  DEF RecordAttemptStart, Typed, Types, JobKnown, HeldKnown, Goto, Throw, Actors, RunRecords
<1>6. QED
  BY <1>4, <1>5 DEF Typed

LEMMA TypedEdit ==
  ASSUME Typed, NEW w \in Runs, Edit(w)
  PROVE  Typed'
<1>1. run[w].job \in Tasks
  BY DEF Edit, Typed, JobKnown
<1>2. [task[run[w].job] EXCEPT !.dirty = TRUE] \in TaskRecords
  BY <1>1, MovedType, RecordEdits DEF Typed
<1>3. task' \in [Tasks -> TaskRecords]
  BY <1>1, <1>2 DEF Edit, Typed, Types
<1>4. QED
  BY <1>3 DEF Edit, Typed, Types, JobKnown, HeldKnown

\* What a heartbeat leaves alone, and what it writes if it writes.
LEMMA PulseKeeps ==
  ASSUME Typed, NEW w \in Runs, Pulse(w)
  PROVE  /\ run[w].job \in Tasks /\ pc[w] \in {"executing", "failing"}
         /\ UNCHANGED <<fence, spawned, pc, sweep>>
         /\ run' \in [Runs -> RunRecords]
         /\ \A v \in Runs : run'[v].job = run[v].job
         /\ \/ UNCHANGED task
            \/ /\ OwnerMayWrite(w) /\ task[run[w].job].status = "running"
               /\ Save(w, run[w].job, [task[run[w].job] EXCEPT !.expired = FALSE])
<1>1. run[w].job \in Tasks /\ pc[w] \in {"executing", "failing"}
  BY DEF Pulse, PulseLoad, PulseGoesOn, PulseBeat, PulseSlot, InFlight, Typed, JobKnown
<1>2. PICK local \in {[run[w] EXCEPT !.pulse = "none"], [run[w] EXCEPT !.pulse = "loaded"],
                      [run[w] EXCEPT !.pulse = "renewed"], [run[w] EXCEPT !.aborted = TRUE],
                      [run[w] EXCEPT !.pulse = "none", !.aborted = TRUE]} :
        run' = [run EXCEPT ![w] = local]
  BY DEF Pulse, PulseLoad, PulseGoesOn, PulseBeat, PulseSlot, AbortPulse
<1>3. run[w] \in RunRecords
  BY DEF Typed, Types
<1>4. local \in RunRecords /\ local.job = run[w].job
  BY <1>2, <1>3 DEF RunRecords
<1>5. run' \in [Runs -> RunRecords] /\ \A v \in Runs : run'[v].job = run[v].job
  BY <1>2, <1>4 DEF Typed, Types
<1>6. CASE PulseBeat(w)
  BY <1>1, <1>5, <1>6 DEF PulseBeat
<1>7. CASE PulseLoad(w) \/ PulseSlot(w)
  BY <1>1, <1>5, <1>7 DEF PulseLoad, PulseSlot
<1>8. QED
  BY <1>6, <1>7 DEF Pulse, PulseGoesOn

LEMMA TypedPulse ==
  ASSUME Typed, NEW w \in Runs, Pulse(w)
  PROVE  Typed'
<1>1. run[w].job \in Tasks
  BY PulseKeeps
<1>2. [task[run[w].job] EXCEPT !.expired = FALSE] \in TaskRecords
  BY <1>1, MovedType, RecordEdits DEF Typed
<1>3. task' \in [Tasks -> TaskRecords] /\ fresh' \subseteq Copies
  BY <1>1, <1>2, SaveTypes, FreshTypes
  DEF Pulse, PulseLoad, PulseGoesOn, PulseBeat, PulseSlot, Typed, Types
<1>4. slot' \in [Tasks -> SlotRecords]
  <2>1. slot[run[w].job] \in SlotRecords
    BY <1>1 DEF Typed, Types
  <2>2. [slot[run[w].job] EXCEPT !.expired = FALSE] \in SlotRecords
    BY <2>1 DEF SlotRecords
  <2>3. QED
    BY <1>1, <2>2 DEF Pulse, PulseLoad, PulseGoesOn, PulseBeat, PulseSlot, Typed, Types
<1>5. faults' \in 0..MaxFaults
  BY TasksAssumption
  DEF Pulse, PulseLoad, PulseGoesOn, PulseBeat, PulseSlot, Typed, Types, Refused, Fault
<1>6. QED
  BY <1>3, <1>4, <1>5, PulseKeeps DEF Typed, Types, JobKnown, HeldKnown

LEMMA TypedExecutorThrows ==
  ASSUME Typed, NEW w \in Runs, ExecutorThrows(w)
  PROVE  Typed'
BY ActorsAssumption, TasksAssumption, LocalTypes
DEF ExecutorThrows, Typed, Types, JobKnown, HeldKnown, Actors, Goto, Throw, RunLabels, RunRecords

LEMMA TypedExecutorReturns ==
  ASSUME Typed, NEW w \in Runs, ExecutorReturns(w)
  PROVE  Typed'
<1>1. run[w].job \in Tasks
  BY DEF ExecutorReturns, Typed, JobKnown
<1>2. fresh' \subseteq Copies
  BY <1>1, FreshTypes DEF ExecutorReturns, Typed, Types
<1>3. run' \in [Runs -> RunRecords]
  BY ThrowTypes DEF ExecutorReturns, Typed, Types
<1>4. pc' \in [Actors -> RunLabels \cup RecoveryLabels]
  BY DEF ExecutorReturns, Typed, Types, Throw, Goto, Actors, RunLabels
<1>5. faults' \in 0..MaxFaults
  BY TasksAssumption DEF ExecutorReturns, Typed, Types, Refused, Fault
<1>6. Types'
  BY <1>2, <1>3, <1>4, <1>5 DEF ExecutorReturns, Typed, Types
<1>7. JobKnown' /\ HeldKnown'
  BY ActorsAssumption
  DEF ExecutorReturns, Typed, Types, JobKnown, HeldKnown, Goto, Throw, Actors, RunRecords
<1>8. QED
  BY <1>6, <1>7 DEF Typed

LEMMA TypedEndAttempt ==
  ASSUME Typed, NEW w \in Runs, NEW from, from \notin {"idle", "sweeping", "gone"},
         NEW guard, NEW to \in TaskStatus, EndAttempt(w, from, guard, to)
  PROVE  Typed'
<1>1. run[w].job \in Tasks
  BY DEF EndAttempt, Typed, JobKnown
<1>2. task' \in [Tasks -> TaskRecords] /\ fresh' \subseteq Copies
  BY <1>1, MovedType, SaveTypes DEF EndAttempt, Typed, Types
<1>3. Types'
  <2>1. run' \in [Runs -> RunRecords]
    BY ThrowTypes DEF EndAttempt, Typed, Types
  <2>2. pc' \in [Actors -> RunLabels \cup RecoveryLabels]
    BY DEF EndAttempt, Typed, Types, Throw, Goto, Actors, RunLabels
  <2>3. faults' \in 0..MaxFaults
    BY TasksAssumption DEF EndAttempt, Typed, Types, Refused, Fault
  <2>4. QED
    BY <1>2, <2>1, <2>2, <2>3 DEF EndAttempt, Typed, Types
<1>4. JobKnown' /\ HeldKnown'
  BY ActorsAssumption
  DEF EndAttempt, Typed, Types, JobKnown, HeldKnown, Goto, Throw, Actors, RunRecords
<1>5. QED
  BY <1>3, <1>4 DEF Typed

LEMMA TypedCatchLoad ==
  ASSUME Typed, NEW w \in Runs, CatchLoad(w)
  PROVE  Typed'
<1>1. run' \in [Runs -> RunRecords] /\ \A v \in Runs : run'[v].job = run[v].job
  <2>1. run[w] \in RunRecords
    BY DEF Typed, Types
  <2>2. /\ [run[w] EXCEPT !.aborted = FALSE] \in RunRecords
        /\ [run[w] EXCEPT !.aborted = FALSE].job = run[w].job
    BY <2>1 DEF RunRecords
  <2>3. run' = [run EXCEPT ![w] = [run[w] EXCEPT !.aborted = FALSE]]
    BY DEF CatchLoad
  <2>4. QED
    BY <2>2, <2>3 DEF Typed, Types
<1>2. QED
  BY <1>1, ActorsAssumption, TasksAssumption, LocalTypes, FreshTypes
  DEF CatchLoad, Typed, Types, JobKnown, HeldKnown, Actors, Goto, RunLabels

LEMMA TypedHandleFailure ==
  ASSUME Typed, NEW w \in Runs, HandleFailure(w)
  PROVE  Typed'
<1>1. run[w].job \in Tasks
  BY DEF HandleFailure, Typed, JobKnown
<1>2. /\ Moved(run[w].job, "cancelled") \in TaskRecords
      /\ Moved(run[w].job, "failed") \in TaskRecords
      /\ \A later \in BOOLEAN :
           [Moved(run[w].job, "queued") EXCEPT !.backoff = later] \in TaskRecords
  BY <1>1, MovedType, RecordEdits DEF Typed, TaskStatus, TERMINAL
<1>3. task' \in [Tasks -> TaskRecords] /\ fresh' \subseteq Copies
  BY <1>1, <1>2, SaveTypes DEF HandleFailure, Typed, Types
<1>4. Types'
  BY <1>3, TasksAssumption
  DEF HandleFailure, Typed, Types, Goto, Throw, Refused, Fault, Actors, RunLabels, RunRecords
<1>5. JobKnown' /\ HeldKnown'
  BY ActorsAssumption
  DEF HandleFailure, Typed, Types, JobKnown, HeldKnown, Goto, Throw, Actors, RunRecords
<1>6. QED
  BY <1>4, <1>5 DEF Typed

LEMMA TypedBlockLoaded ==
  ASSUME Typed, NEW w \in Runs, NEW from, from \notin {"idle", "sweeping", "gone"},
         NEW next \in {"finishing", "gone"}, BlockLoaded(w, from, next)
  PROVE  Typed'
<1>1. run[w].job \in Tasks
  BY DEF BlockLoaded, Typed, JobKnown
<1>2. task' \in [Tasks -> TaskRecords] /\ fresh' \subseteq Copies
  BY <1>1, MovedType, SaveTypes DEF BlockLoaded, Typed, Types, TaskStatus
<1>3. Types'
  BY <1>2, TasksAssumption
  DEF BlockLoaded, Typed, Types, Goto, Throw, Refused, Fault, Actors, RunLabels, RunRecords
<1>4. JobKnown' /\ HeldKnown'
  BY ActorsAssumption
  DEF BlockLoaded, Typed, Types, JobKnown, HeldKnown, Goto, Throw, Actors, RunRecords
<1>5. QED
  BY <1>3, <1>4 DEF Typed

LEMMA TypedRefuseWorkspace ==
  ASSUME Typed, NEW w \in Runs, RefuseWorkspace(w)
  PROVE  Typed'
BY ActorsAssumption, TasksAssumption, LocalTypes
DEF RefuseWorkspace, Typed, Types, JobKnown, HeldKnown, Actors, Goto, RunLabels

LEMMA TypedReleaseSlot ==
  ASSUME Typed, NEW w \in Runs, ReleaseSlot(w)
  PROVE  Typed'
BY ActorsAssumption, TasksAssumption, LocalTypes, FreshTypes
DEF ReleaseSlot, Typed, Types, JobKnown, HeldKnown, Actors, Goto, RunLabels, Fault

LEMMA TypedBlockDependent ==
  ASSUME Typed, NEW a \in Actors, NEW t \in Tasks, BlockDependent(a, t)
  PROVE  Typed'
<1>1. task' \in [Tasks -> TaskRecords] /\ fresh' \subseteq Copies
  BY MovedType, SaveTypes DEF BlockDependent, Typed, TaskStatus
<1>2. QED
  BY <1>1 DEF BlockDependent, Typed, Types, JobKnown, HeldKnown

LEMMA TypedLaunchReady ==
  ASSUME Typed, NEW a \in Actors, LaunchReady(a)
  PROVE  Typed'
BY ActorsAssumption, TasksAssumption, LocalTypes, FreshTypes
DEF LaunchReady, Typed, Types, JobKnown, HeldKnown, Actors, Goto, RunLabels, RecoveryLabels, Ready, Launchable

LEMMA TypedCrash ==
  ASSUME Typed, NEW w \in Runs, Crash(w)
  PROVE  Typed'
BY ActorsAssumption, TasksAssumption, LocalTypes, FreshTypes
DEF Crash, Typed, Types, JobKnown, HeldKnown, Actors, Goto, RunLabels, Fault

LEMMA TypedRecycle ==
  ASSUME Typed, NEW w \in Runs, Recycle(w)
  PROVE  Typed'
BY ActorsAssumption, TasksAssumption, LocalTypes, FreshTypes
DEF Recycle, Typed, Types, JobKnown, HeldKnown, Actors, Goto, RunLabels

LEMMA TypedWorkerLeaves ==
  ASSUME Typed, NEW t \in Tasks, WorkerLeaves(t)
  PROVE  Typed'
BY ActorsAssumption, TasksAssumption, LocalTypes
DEF WorkerLeaves, Typed, Types, JobKnown, HeldKnown, Actors, Goto

LEMMA TypedLeaseExpires ==
  ASSUME Typed, NEW t \in Tasks, LeaseExpires(t)
  PROVE  Typed'
<1>1. [task[t] EXCEPT !.expired = TRUE] \in TaskRecords
  BY MovedType, RecordEdits DEF Typed
<1>2. task' \in [Tasks -> TaskRecords]
  BY <1>1 DEF LeaseExpires, Typed, Types
<1>3. QED
  BY <1>2 DEF LeaseExpires, Typed, Types, JobKnown, HeldKnown

LEMMA TypedBackoffEnds ==
  ASSUME Typed, NEW t \in Tasks, BackoffEnds(t)
  PROVE  Typed'
<1>1. [task[t] EXCEPT !.backoff = FALSE] \in TaskRecords
  BY MovedType, RecordEdits DEF Typed
<1>2. task' \in [Tasks -> TaskRecords]
  BY <1>1 DEF BackoffEnds, Typed, Types
<1>3. QED
  BY <1>2 DEF BackoffEnds, Typed, Types, JobKnown, HeldKnown

LEMMA TypedSlotExpires ==
  ASSUME Typed, NEW t \in Tasks, SlotExpires(t)
  PROVE  Typed'
<1>1. slot[t] \in SlotRecords
  BY DEF Typed, Types
<1>2. slot' \in [Tasks -> SlotRecords]
  BY <1>1 DEF SlotExpires, Typed, Types, SlotRecords
<1>3. QED
  BY <1>2 DEF SlotExpires, Typed, Types, JobKnown, HeldKnown

LEMMA TypedRecoverBegin ==
  ASSUME Typed, NEW r \in Recoveries, RecoverBegin(r)
  PROVE  Typed'
<1>1. sweep[r] \in SweepRecords
  BY DEF Typed, Types
<1>2. sweep' \in [Recoveries -> SweepRecords]
  BY <1>1, LocalTypes DEF RecoverBegin, Typed, Types, Leave, SweepRecords, NewSweep, Running, ExpiredSlots, Occupied
<1>3. Types'
  BY <1>2, LocalTypes, FreshTypes DEF RecoverBegin, Typed, Types, Leave, Goto, Actors, RecoveryLabels, ExpiredSlots
<1>4. JobKnown' /\ HeldKnown'
  BY ActorsAssumption DEF RecoverBegin, Typed, Types, JobKnown, HeldKnown, Leave, Goto, Actors
<1>5. QED
  BY <1>3, <1>4 DEF Typed

LEMMA TypedReleaseHeld ==
  ASSUME Typed, NEW r \in Recoveries, ReleaseHeld(r)
  PROVE  Typed'
<1>1. sweep[r] \in SweepRecords
  BY DEF Typed, Types
<1>2. sweep' \in [Recoveries -> SweepRecords]
  BY <1>1, LocalTypes DEF ReleaseHeld, Typed, Types, Leave, SweepRecords
<1>3. Types'
  BY <1>2, LocalTypes DEF ReleaseHeld, Typed, Types, Leave, Goto, Actors, RecoveryLabels
<1>4. JobKnown' /\ HeldKnown'
  BY ActorsAssumption DEF ReleaseHeld, Typed, Types, JobKnown, HeldKnown, Leave, Goto, Actors
<1>5. QED
  BY <1>3, <1>4 DEF Typed

LEMMA TypedCheckIdle ==
  ASSUME Typed, NEW r \in Recoveries, CheckIdle(r)
  PROVE  Typed'
<1>1. sweep[r] \in SweepRecords
  BY DEF Typed, Types
<1>2. sweep' \in [Recoveries -> SweepRecords]
  BY <1>1, LocalTypes DEF CheckIdle, Typed, Types, Leave, SweepRecords
<1>3. Types'
  BY <1>2, LocalTypes DEF CheckIdle, Typed, Types, Leave, Goto, Actors, RecoveryLabels
<1>4. JobKnown' /\ HeldKnown'
  BY ActorsAssumption DEF CheckIdle, Typed, Types, JobKnown, HeldKnown, Leave, Goto, Actors
<1>5. QED
  BY <1>3, <1>4 DEF Typed

LEMMA TypedBeginEnter ==
  ASSUME Typed, NEW r \in Recoveries, BeginEnter(r)
  PROVE  Typed'
<1>1. sweep[r] \in SweepRecords
  BY DEF Typed, Types
<1>2. sweep' \in [Recoveries -> SweepRecords]
  BY <1>1, LocalTypes DEF BeginEnter, Typed, Types, Leave, SweepRecords
<1>3. Types'
  BY <1>2, LocalTypes DEF BeginEnter, Typed, Types, Leave, Goto, Actors, RecoveryLabels
<1>4. JobKnown' /\ HeldKnown'
  BY ActorsAssumption DEF BeginEnter, Typed, Types, JobKnown, HeldKnown, Leave, Goto, Actors
<1>5. QED
  BY <1>3, <1>4 DEF Typed

LEMMA TypedRecheck ==
  ASSUME Typed, NEW r \in Recoveries, Recheck(r)
  PROVE  Typed'
<1>1. sweep[r] \in SweepRecords
  BY DEF Typed, Types
<1>2. sweep' \in [Recoveries -> SweepRecords]
  BY <1>1, LocalTypes DEF Recheck, Typed, Types, Leave, SweepRecords
<1>3. Types'
  BY <1>2, LocalTypes DEF Recheck, Typed, Types, Leave, Goto, Actors, RecoveryLabels
<1>4. JobKnown' /\ HeldKnown'
  BY ActorsAssumption DEF Recheck, Typed, Types, JobKnown, HeldKnown, Leave, Goto, Actors
<1>5. QED
  BY <1>3, <1>4 DEF Typed

LEMMA TypedMigrate ==
  ASSUME Typed, NEW r \in Recoveries, Migrate(r)
  PROVE  Typed'
<1>1. sweep[r] \in SweepRecords
  BY DEF Typed, Types
<1>2. sweep' \in [Recoveries -> SweepRecords]
  BY <1>1, LocalTypes DEF Migrate, Typed, Types, Leave, SweepRecords
<1>3. Types'
  BY <1>2, LocalTypes DEF Migrate, Typed, Types, Leave, Goto, Actors, RecoveryLabels
<1>4. JobKnown' /\ HeldKnown'
  BY ActorsAssumption DEF Migrate, Typed, Types, JobKnown, HeldKnown, Leave, Goto, Actors
<1>5. QED
  BY <1>3, <1>4 DEF Typed

LEMMA TypedExitMaintenance ==
  ASSUME Typed, NEW r \in Recoveries, ExitMaintenance(r)
  PROVE  Typed'
<1>1. sweep[r] \in SweepRecords
  BY DEF Typed, Types
<1>2. sweep' \in [Recoveries -> SweepRecords]
  BY <1>1, LocalTypes DEF ExitMaintenance, Typed, Types, Leave, SweepRecords
<1>3. Types'
  BY <1>2, LocalTypes DEF ExitMaintenance, Typed, Types, Leave, Goto, Actors, RecoveryLabels
<1>4. JobKnown' /\ HeldKnown'
  BY ActorsAssumption DEF ExitMaintenance, Typed, Types, JobKnown, HeldKnown, Leave, Goto, Actors
<1>5. QED
  BY <1>3, <1>4 DEF Typed

LEMMA TypedActivateFence ==
  ASSUME Typed, NEW r \in Recoveries, ActivateFence(r)
  PROVE  Typed'
<1>1. sweep' \in [Recoveries -> SweepRecords]
  BY LocalTypes DEF ActivateFence, Typed, Types, Leave
<1>2. fence' \in [active : BOOLEAN, epoch : Nat]
  <2>1. fence.epoch \in Nat
    BY DEF Typed, Types
  <2>2. CASE fence.active
    BY <2>1, <2>2 DEF ActivateFence, Typed, Types
  <2>3. CASE ~fence.active
    <3>1. fence' = [active |-> TRUE, epoch |-> fence.epoch + 1]
      BY <2>3 DEF ActivateFence
    <3>2. fence.epoch + 1 \in Nat
      BY <2>1
    <3>3. QED
      BY <3>1, <3>2
  <2>4. QED
    BY <2>2, <2>3
<1>3. Types'
  BY <1>1, <1>2 DEF ActivateFence, Typed, Types, Leave, Goto, Actors, RecoveryLabels
<1>4. JobKnown' /\ HeldKnown'
  BY ActorsAssumption DEF ActivateFence, Typed, Types, JobKnown, HeldKnown, Leave, Goto, Actors
<1>5. QED
  BY <1>3, <1>4 DEF Typed

LEMMA TypedAbortEnter ==
  ASSUME Typed, NEW r \in Recoveries, AbortEnter(r)
  PROVE  Typed'
<1>1. sweep' \in [Recoveries -> SweepRecords]
  BY LocalTypes DEF AbortEnter, Typed, Types, Leave
<1>2. fence' \in [active : BOOLEAN, epoch : Nat]
  <2>1. fence.epoch \in Nat /\ sweep[r].previous \in Nat
    BY DEF Typed, Types, SweepRecords
  <2>2. CASE fence.active
    BY <2>1, <2>2 DEF AbortEnter, Typed, Types
  <2>3. CASE ~fence.active
    BY <2>1, <2>3 DEF AbortEnter, Typed, Types
  <2>4. QED
    BY <2>2, <2>3
<1>3. Types'
  BY <1>1, <1>2 DEF AbortEnter, Typed, Types, Leave, Goto, Actors, RecoveryLabels
<1>4. JobKnown' /\ HeldKnown'
  BY ActorsAssumption DEF AbortEnter, Typed, Types, JobKnown, HeldKnown, Leave, Goto, Actors
<1>5. QED
  BY <1>3, <1>4 DEF Typed

LEMMA TypedRecoverAbandon ==
  ASSUME Typed, NEW r \in Recoveries, RecoverAbandon(r)
  PROVE  Typed'
<1>1. sweep[r] \in SweepRecords
  BY DEF Typed, Types
<1>2. sweep' \in [Recoveries -> SweepRecords]
  BY <1>1, LocalTypes DEF RecoverAbandon, Typed, Types, Leave, SweepRecords
<1>3. Types'
  BY <1>2, LocalTypes, FreshTypes, TasksAssumption DEF RecoverAbandon, Typed, Types, Leave, Goto, Actors, RecoveryLabels, Fault
<1>4. JobKnown' /\ HeldKnown'
  BY ActorsAssumption DEF RecoverAbandon, Typed, Types, JobKnown, HeldKnown, Leave, Goto, Actors
<1>5. QED
  BY <1>3, <1>4 DEF Typed

LEMMA TypedScanTask ==
  ASSUME Typed, NEW r \in Recoveries, NEW t \in Tasks, ScanTask(r, t)
  PROVE  Typed'
<1>1. sweep[r] \in SweepRecords
  BY DEF Typed, Types
<1>2. sweep' \in [Recoveries -> SweepRecords]
  <2>1. task[t].owner \in Runs \cup {NoRun}
    BY MovedType DEF Typed, TaskRecords
  <2>2. QED
    BY <1>1, <2>1, LocalTypes DEF ScanTask, Typed, Types, Leave, SweepRecords
<1>3. \A measured \in BOOLEAN : RecoverOrphan(t, measured) \in TaskRecords
  BY MovedType, RecordEdits DEF RecoverOrphan, Typed, TaskStatus
<1>4. task' \in [Tasks -> TaskRecords] /\ fresh' \subseteq Copies
  BY <1>3, MovedType, SaveTypes, FreshTypes DEF ScanTask, Typed, Types, TaskStatus
<1>5. Types'
  BY <1>2, <1>4 DEF ScanTask, Typed, Types, Leave, Goto, Actors, RecoveryLabels
<1>6. JobKnown' /\ HeldKnown'
  <2>1. CASE Goto(r, "releasing") /\ sweep'[r].held = t
             /\ \A s \in Recoveries \ {r} : sweep'[s] = sweep[s]
    BY <2>1, ActorsAssumption
    DEF ScanTask, Typed, Types, JobKnown, HeldKnown, Goto, Actors
  <2>2. CASE Leave(r)
    BY <2>2, ActorsAssumption
    DEF ScanTask, Typed, Types, JobKnown, HeldKnown, Leave, Goto, Actors
  <2>3. CASE UNCHANGED pc /\ pc[r] = "scanning"
             /\ \A s \in Recoveries \ {r} : sweep'[s] = sweep[s]
    BY <2>3 DEF ScanTask, Typed, JobKnown, HeldKnown
  <2>4. QED
    BY <1>1, <2>1, <2>2, <2>3 DEF ScanTask, Typed, Types, SweepRecords
<1>7. QED
  BY <1>5, <1>6 DEF Typed

LEMMA TypedScanAmbiguous ==
  ASSUME Typed, NEW r \in Recoveries, NEW t \in Tasks, ScanAmbiguous(r, t)
  PROVE  Typed'
<1>1. sweep[r] \in SweepRecords
  BY DEF Typed, Types
<1>2. sweep' \in [Recoveries -> SweepRecords]
  BY <1>1, LocalTypes DEF ScanAmbiguous, Typed, Types, SweepRecords
<1>3. Types'
  BY <1>2, FreshTypes DEF ScanAmbiguous, Typed, Types, Goto, Actors, RecoveryLabels
<1>4. JobKnown' /\ HeldKnown'
  <2>1. CASE Goto(r, "blockingAmbiguous") /\ sweep'[r].held = t
             /\ \A s \in Recoveries \ {r} : sweep'[s] = sweep[s]
    BY <2>1, ActorsAssumption
    DEF ScanAmbiguous, Typed, Types, JobKnown, HeldKnown, Goto, Actors
  <2>2. CASE UNCHANGED pc /\ pc[r] = "scanning"
             /\ \A s \in Recoveries \ {r} : sweep'[s] = sweep[s]
    BY <2>2 DEF ScanAmbiguous, Typed, JobKnown, HeldKnown
  <2>3. QED
    BY <1>1, <2>1, <2>2 DEF ScanAmbiguous, Typed, Types, SweepRecords
<1>5. QED
  BY <1>3, <1>4 DEF Typed

LEMMA TypedBlockAmbiguous ==
  ASSUME Typed, NEW r \in Recoveries, BlockAmbiguous(r)
  PROVE  Typed'
<1>1. sweep[r] \in SweepRecords /\ sweep[r].held \in Tasks
  BY DEF BlockAmbiguous, Typed, Types, HeldKnown
<1>2. /\ sweep' \in [Recoveries -> SweepRecords]
      /\ \A s \in Recoveries : Leave(r) \/ sweep'[s].held = sweep[s].held
  BY <1>1, LocalTypes DEF BlockAmbiguous, Typed, Types, Leave, SweepRecords
<1>3. task' \in [Tasks -> TaskRecords] /\ fresh' \subseteq Copies
  BY <1>1, MovedType, SaveTypes, FreshTypes DEF BlockAmbiguous, Typed, Types, TaskStatus
<1>4. Types'
  BY <1>2, <1>3 DEF BlockAmbiguous, Typed, Types, Leave, Goto, Actors, RecoveryLabels
<1>5. JobKnown' /\ HeldKnown'
  <2>1. CASE Goto(r, "releasing") /\ ~Leave(r)
    BY <1>1, <1>2, <2>1, ActorsAssumption
    DEF BlockAmbiguous, Typed, Types, JobKnown, HeldKnown, Goto, Actors
  <2>2. CASE Leave(r)
    BY <2>2, ActorsAssumption
    DEF BlockAmbiguous, Typed, Types, JobKnown, HeldKnown, Leave, Goto, Actors
  <2>3. QED
    BY <2>1, <2>2 DEF BlockAmbiguous
<1>6. QED
  BY <1>4, <1>5 DEF Typed

-----------------------------------------------------------------------------

LEMMA TypedStutter ==
  ASSUME Typed, UNCHANGED vars
  PROVE  Typed'
BY DEF vars, Typed, Types, JobKnown, HeldKnown

LEMMA TypedRunStep ==
  ASSUME Typed, NEW w \in Runs, RunStep(w)
  PROVE  Typed'
<1>1. CASE Complete(w)
  BY <1>1, TypedEndAttempt DEF Complete, TaskStatus, TERMINAL
<1>2. CASE BlockWithOutcome(w)
  BY <1>2, TypedEndAttempt DEF BlockWithOutcome, TaskStatus
<1>3. CASE CancelRunning(w)
  BY <1>3, TypedEndAttempt DEF CancelRunning, TaskStatus, TERMINAL
<1>4. CASE BlockDependency(w)
  BY <1>4, TypedBlockLoaded DEF BlockDependency
<1>5. CASE BlockOwnership(w)
  BY <1>5, TypedBlockLoaded DEF BlockOwnership
<1>6. QED
  BY <1>1, <1>2, <1>3, <1>4, <1>5, TypedLoadAgain, TypedAcquireSlot, TypedClaim, TypedPrepare,
     TypedRecordAttemptStart, TypedExecutorReturns, TypedExecutorThrows,
     TypedCatchLoad, TypedHandleFailure, TypedRefuseWorkspace, TypedReleaseSlot
  DEF RunStep

LEMMA TypedRecoveryStep ==
  ASSUME Typed, NEW r \in Recoveries, RecoveryStep(r)
  PROVE  Typed'
BY TypedScanTask, TypedScanAmbiguous, TypedBlockAmbiguous, TypedReleaseHeld, TypedCheckIdle,
   TypedBeginEnter, TypedActivateFence, TypedRecheck, TypedAbortEnter,
   TypedMigrate, TypedExitMaintenance
DEF RecoveryStep

\* The types are inductive.
LEMMA TypedStep == Typed /\ [Next]_vars => Typed'
<1> SUFFICES ASSUME Typed, [Next]_vars PROVE Typed'
  OBVIOUS
<1>1. CASE UNCHANGED vars
  BY <1>1, TypedStutter
<1>2. CASE \E t \in Tasks : Submit(t) \/ RequestCancel(t) \/ WorkerLeaves(t)
  BY <1>2, TypedSubmit, TypedRequestCancel, TypedWorkerLeaves
<1>3. CASE \E w \in Runs :
             \/ \E t \in Tasks : Begin(w, t)
             \/ RunStep(w) \/ Edit(w) \/ Pulse(w) \/ Crash(w) \/ Recycle(w)
  BY <1>3, TypedBegin, TypedRunStep, TypedEdit, TypedPulse, TypedCrash, TypedRecycle
<1>4. CASE \E r \in Recoveries :
             RecoverBegin(r) \/ RecoveryStep(r) \/ RecoverAbandon(r)
  BY <1>4, TypedRecoverBegin, TypedRecoveryStep, TypedRecoverAbandon
<1>5. CASE \E a \in Actors : SweepStep(a)
  BY <1>5, TypedLaunchReady, TypedBlockDependent DEF SweepStep
<1>6. CASE Clock
  BY <1>6, TypedLeaseExpires, TypedSlotExpires, TypedBackoffEnds DEF Clock
<1>7. QED
  BY <1>1, <1>2, <1>3, <1>4, <1>5, <1>6 DEF Next

\* In every reachable state the records, the slots and the local states of the
\* processes are well formed, and a run that is on its way has a task.
THEOREM TypesHold == Spec => []Typed
<1>1. QED
  BY InitTyped, TypedStep, PTL DEF Spec

-----------------------------------------------------------------------------
(* One executor *)

\* The task of an attempting run has that run in its lease, and nobody may claim
\* it: it is not queued.
OwnsAttempt ==
  \A w \in Runs : pc[w] \in Attempting =>
    /\ task[run[w].job].owner = w
    /\ task[run[w].job].status \notin {Absent, "queued"}

\* A step keeps OwnsAttempt if it starts no attempt, leaves the owners alone and
\* queues nothing.
LEMMA OwnersKept ==
  ASSUME Typed, OwnsAttempt,
         \A w \in Runs : pc'[w] \in Attempting =>
           pc[w] \in Attempting /\ run'[w].job = run[w].job,
         \A t \in Tasks : /\ task'[t].owner = task[t].owner
                          /\ \/ task'[t].status = task[t].status
                             \/ task'[t].status \notin {Absent, "queued"}
  PROVE  OwnsAttempt'
BY DEF OwnsAttempt, Typed, JobKnown, Attempting

\* What a write leaves of the other tasks and of the current revisions.
LEMMA SaveKeeps ==
  ASSUME Types, NEW a, NEW t \in Tasks, NEW record, Save(a, t, record)
  PROVE  /\ task'[t] = record
         /\ \A s \in Tasks \ {t} : task'[s] = task[s]
         /\ \A v, s : <<v, s>> \in fresh' => <<v, s>> \in fresh /\ (s = t => v = a)
BY DEF Types, Save

\* A transition changes the status alone.
LEMMA MovedKeeps ==
  ASSUME Types, NEW t \in Tasks, NEW to
  PROVE  /\ Moved(t, to).status = to /\ Moved(t, to).owner = task[t].owner
         /\ Moved(t, to).attempt = task[t].attempt
         /\ Moved(t, to).cancel = task[t].cancel
BY MovedType DEF Moved, TaskRecords

\* The sources of the transitions.
LEMMA MayMoveFrom ==
  ASSUME NEW t \in Tasks
  PROVE  /\ MayMove(t, "running") => task[t].status = "queued"
         /\ MayMove(t, "blocked") => task[t].status \in {"queued", "running"}
         /\ MayMove(t, "completed") => task[t].status = "running"
         /\ MayMove(t, "cancelled") => task[t].status \in {"queued", "running", "blocked"}
BY DEF MayMove, TRANSITIONS, TaskStatus, TERMINAL

-----------------------------------------------------------------------------
(* Each action keeps OwnsAttempt *)

LEMMA OwnsInit == Init => OwnsAttempt
BY ActorsAssumption DEF Init, OwnsAttempt, Attempting, Actors

LEMMA OwnsSubmit ==
  ASSUME Typed, OwnsAttempt, NEW t \in Tasks, Submit(t)
  PROVE  OwnsAttempt'
<1>1. \A s \in Tasks : task'[s].owner = task[s].owner
                       /\ (task'[s].status = task[s].status \/ s = t)
  BY MovedKeeps, MovedType DEF Submit, Typed, Types
<1>2. QED
  BY <1>1 DEF Submit, OwnsAttempt, Typed, JobKnown, Attempting

LEMMA OwnsRequestCancel ==
  ASSUME Typed, OwnsAttempt, NEW t \in Tasks, RequestCancel(t)
  PROVE  OwnsAttempt'
<1>1. /\ [task[t] EXCEPT !.cancel = TRUE].owner = task[t].owner
      /\ [task[t] EXCEPT !.cancel = TRUE].status = task[t].status
  BY MovedType DEF Typed, TaskRecords
<1>2. PICK record : /\ Save(NoRun, t, record)
                    /\ record.owner = task[t].owner
                    /\ record.status \in {task[t].status, "cancelled"}
  BY <1>1, MovedKeeps DEF RequestCancel, Typed
<1>3. \A s \in Tasks : /\ task'[s].owner = task[s].owner
                       /\ task'[s].status \in {task[s].status, "cancelled"}
  BY <1>2, SaveKeeps DEF Typed
<1>4. QED
  BY <1>3, OwnersKept DEF RequestCancel, Absent

\* A claimed task was queued, so nobody else holds an attempt of it.
LEMMA OwnsClaim ==
  ASSUME Typed, OwnsAttempt, NEW w \in Runs, Claim(w)
  PROVE  OwnsAttempt'
<1> DEFINE t == run[w].job
           record == [Moved(t, "running") EXCEPT
                        !.attempt = task[t].attempt + 1, !.owner = w,
                        !.epoch = fence.epoch, !.expired = FALSE, !.begun = FALSE]
<1>1. t \in Tasks /\ pc[w] = "slotted"
  BY DEF Claim, Typed, JobKnown
<1>2. CASE MayClaim(w) /\ Save(w, t, record) /\ Goto(w, "claimed") /\ UNCHANGED run
  <2>1. record.owner = w /\ record.status = "running"
    <3>1. Moved(t, "running") \in TaskRecords /\ Moved(t, "running").status = "running"
      BY <1>1, MovedType, MovedKeeps DEF Typed, TaskStatus
    <3>2. QED
      BY <3>1 DEF TaskRecords
  <2>2. task[t].status = "queued"
    BY <1>1, <1>2, MayMoveFrom DEF MayClaim
  <2>3. task'[t] = record /\ \A s \in Tasks \ {t} : task'[s] = task[s]
    BY <1>1, <1>2, SaveKeeps DEF Typed
  <2>4. \A v \in Runs \ {w} : pc'[v] = pc[v] /\ run'[v] = run[v]
    BY <1>2, ActorsAssumption DEF Goto, Typed, Types, Actors
  <2>5. QED
    BY <1>1, <1>2, <2>1, <2>2, <2>3, <2>4 DEF OwnsAttempt, Typed, JobKnown, Attempting, Absent
<1>3. CASE UNCHANGED task /\ \E cause : Throw(w, cause)
  <2>1. \A v \in Runs : pc'[v] \in Attempting => pc[v] \in Attempting /\ run'[v] = run[v]
    BY <1>3, ActorsAssumption DEF Throw, Goto, Typed, Types, Actors, Attempting
  <2>2. QED
    BY <1>3, <2>1, OwnersKept
<1>4. QED
  BY <1>2, <1>3 DEF Claim

LEMMA OwnsPrepare ==
  ASSUME Typed, OwnsAttempt, NEW w \in Runs, Prepare(w)
  PROVE  OwnsAttempt'
<1>1. run[w].job \in Tasks
  BY DEF Prepare, Typed, JobKnown
<1>2. \A s \in Tasks : task'[s] = task[s]
  BY <1>1, SaveKeeps DEF Prepare, Typed
<1>3. \A v \in Runs : pc'[v] \in Attempting => pc[v] \in Attempting /\ run'[v].job = run[v].job
  BY ActorsAssumption DEF Prepare, Throw, Goto, Typed, Types, Actors, Attempting
<1>4. QED
  BY <1>2, <1>3, OwnersKept

LEMMA OwnsRecordAttemptStart ==
  ASSUME Typed, OwnsAttempt, NEW w \in Runs, RecordAttemptStart(w)
  PROVE  OwnsAttempt'
<1> DEFINE t == run[w].job
           record == [task[t] EXCEPT !.begun = TRUE, !.dirty = FALSE]
<1>1. t \in Tasks
  BY DEF RecordAttemptStart, Typed, JobKnown
<1>2. record.owner = task[t].owner /\ record.status = task[t].status
  BY <1>1, MovedType DEF Typed, TaskRecords
<1>3. UNCHANGED task \/ Save(w, t, record)
  BY DEF RecordAttemptStart
<1>4. \A s \in Tasks : task'[s].owner = task[s].owner /\ task'[s].status = task[s].status
  <2> HIDE DEF record
  <2>1. QED
    BY <1>1, <1>2, <1>3, SaveKeeps DEF Typed
<1>5. \A v \in Runs : pc'[v] \in Attempting => pc[v] \in Attempting /\ run'[v].job = run[v].job
  BY ActorsAssumption
  DEF RecordAttemptStart, Throw, Goto, Typed, Types, Actors, Attempting
<1>6. QED
  BY <1>4, <1>5, OwnersKept

LEMMA OwnsPulse ==
  ASSUME Typed, OwnsAttempt, NEW w \in Runs, Pulse(w)
  PROVE  OwnsAttempt'
<1> DEFINE t == run[w].job
           record == [task[t] EXCEPT !.expired = FALSE]
<1>1. t \in Tasks
  BY PulseKeeps
<1>2. record.owner = task[t].owner /\ record.status = task[t].status
  BY <1>1, MovedType DEF Typed, TaskRecords
<1>3. UNCHANGED task \/ Save(w, t, record)
  BY PulseKeeps
<1>4. \A s \in Tasks : task'[s].owner = task[s].owner /\ task'[s].status = task[s].status
  <2> HIDE DEF record
  <2>1. QED
    BY <1>1, <1>2, <1>3, SaveKeeps DEF Typed
<1>5. QED
  BY <1>4, OwnersKept, PulseKeeps

LEMMA OwnsEndAttempt ==
  ASSUME Typed, OwnsAttempt, NEW w \in Runs, NEW from, from \notin {"idle", "sweeping", "gone"},
         NEW guard, NEW to \in {"completed", "blocked", "cancelled"},
         EndAttempt(w, from, guard, to)
  PROVE  OwnsAttempt'
<1>1. run[w].job \in Tasks
  BY DEF EndAttempt, Typed, JobKnown
<1>2. \A s \in Tasks : /\ task'[s].owner = task[s].owner
                       /\ task'[s].status = task[s].status \/ task'[s].status = to
  BY <1>1, MovedKeeps, SaveKeeps DEF EndAttempt, Typed
<1>3. \A v \in Runs : pc'[v] \in Attempting => pc[v] \in Attempting /\ run'[v].job = run[v].job
  BY ActorsAssumption DEF EndAttempt, Throw, Goto, Typed, Types, Actors, Attempting
<1>4. QED
  BY <1>2, <1>3, OwnersKept DEF Absent

LEMMA OwnsBlockLoaded ==
  ASSUME Typed, OwnsAttempt, NEW w \in Runs, NEW from, from \notin {"idle", "sweeping", "gone"},
         NEW next \in {"finishing", "gone"}, BlockLoaded(w, from, next)
  PROVE  OwnsAttempt'
<1>1. run[w].job \in Tasks
  BY DEF BlockLoaded, Typed, JobKnown
<1>2. \A s \in Tasks : /\ task'[s].owner = task[s].owner
                       /\ task'[s].status = task[s].status \/ task'[s].status = "blocked"
  <2>1. UNCHANGED task \/ Save(w, run[w].job, Moved(run[w].job, "blocked"))
    BY DEF BlockLoaded
  <2>2. QED
    BY <1>1, <2>1, MovedKeeps, SaveKeeps DEF Typed
<1>3. \A v \in Runs : pc'[v] \in Attempting => pc[v] \in Attempting /\ run'[v].job = run[v].job
  BY ActorsAssumption DEF BlockLoaded, Goto, Typed, Types, Actors, Attempting
<1>4. QED
  BY <1>2, <1>3, OwnersKept DEF Absent

\* The failed run is the owner, so a task it queues again is nobody's attempt.
LEMMA OwnsHandleFailure ==
  ASSUME Typed, OwnsAttempt, NEW w \in Runs, HandleFailure(w)
  PROVE  OwnsAttempt'
<1> DEFINE t == run[w].job
<1>1. t \in Tasks /\ pc[w] = "handling"
  BY DEF HandleFailure, Typed, JobKnown
<1>2. \A v \in Runs : pc'[v] \in Attempting =>
        v # w /\ pc[v] \in Attempting /\ run'[v] = run[v]
  BY ActorsAssumption DEF HandleFailure, Goto, Typed, Types, Actors, Attempting
<1>3. CASE UNCHANGED task
  BY <1>2, <1>3, OwnersKept
<1>4. CASE OwnerMayWrite(w) /\ \E record \in TaskRecords : Save(w, t, record)
  <2>1. task[t].owner = w
    BY <1>4 DEF OwnerMayWrite
  <2>2. \A s \in Tasks \ {t} : task'[s] = task[s]
    BY <1>1, <1>4, SaveKeeps DEF Typed
  <2>3. QED
    BY <1>2, <2>1, <2>2 DEF OwnsAttempt, Typed, JobKnown, Attempting
<1>5. QED
  <2>1. /\ Moved(t, "cancelled") \in TaskRecords /\ Moved(t, "failed") \in TaskRecords
        /\ \A later \in BOOLEAN :
             [Moved(t, "queued") EXCEPT !.backoff = later] \in TaskRecords
    BY <1>1, MovedType, RecordEdits DEF Typed, TaskStatus, TERMINAL
  <2>2. QED
    BY <1>3, <1>4, <2>1 DEF HandleFailure

\* Only an owner that is gone loses its task to a reclaim.
LEMMA OwnsScanTask ==
  ASSUME Typed, OwnsAttempt, NEW r \in Recoveries, NEW t \in Tasks, ScanTask(r, t)
  PROVE  OwnsAttempt'
<1>1. \A v \in Runs : pc'[v] = pc[v] /\ run'[v] = run[v]
  BY ActorsAssumption DEF ScanTask, Goto, Leave, Typed, Types, Actors
<1>2. CASE UNCHANGED task
  BY <1>1, <1>2, OwnersKept
<1>3. CASE Save(NoRun, t, Moved(t, "blocked"))
  <2>1. \A s \in Tasks : /\ task'[s].owner = task[s].owner
                         /\ task'[s].status = task[s].status \/ task'[s].status = "blocked"
    BY <1>3, MovedKeeps, SaveKeeps DEF Typed
  <2>2. QED
    BY <1>1, <2>1, OwnersKept DEF Absent
<1>4. CASE /\ Probe(r, task[t].owner) = "dead"
           /\ \E measured \in BOOLEAN : Save(NoRun, t, RecoverOrphan(t, measured))
  <2>1. pc[task[t].owner] = "gone"
    BY <1>4 DEF Probe
  <2>2. \A s \in Tasks \ {t} : task'[s] = task[s]
    BY <1>4, SaveKeeps DEF Typed
  <2>3. QED
    BY <1>1, <2>1, <2>2 DEF OwnsAttempt, Typed, JobKnown, Attempting
<1>5. QED
  BY <1>2, <1>3, <1>4 DEF ScanTask, ReclaimDecision

LEMMA OwnsBlockAmbiguous ==
  ASSUME Typed, OwnsAttempt, NEW r \in Recoveries, BlockAmbiguous(r)
  PROVE  OwnsAttempt'
<1>1. \A v \in Runs : pc'[v] = pc[v] /\ run'[v] = run[v]
  BY ActorsAssumption DEF BlockAmbiguous, Goto, Leave, Typed, Types, Actors
<1>2. sweep[r].held \in Tasks
  BY DEF BlockAmbiguous, Typed, HeldKnown
<1>3. \A s \in Tasks : /\ task'[s].owner = task[s].owner
                       /\ task'[s].status = task[s].status \/ task'[s].status = "blocked"
  BY <1>2, MovedKeeps, SaveKeeps DEF BlockAmbiguous, Typed
<1>4. QED
  BY <1>1, <1>3, OwnersKept DEF Absent

LEMMA OwnsBlockDependent ==
  ASSUME Typed, OwnsAttempt, NEW a \in Actors, NEW t \in Tasks, BlockDependent(a, t)
  PROVE  OwnsAttempt'
<1>1. \A s \in Tasks : /\ task'[s].owner = task[s].owner
                       /\ task'[s].status = task[s].status \/ task'[s].status = "blocked"
  BY MovedKeeps, SaveKeeps DEF BlockDependent, Typed
<1>2. QED
  BY <1>1, OwnersKept DEF BlockDependent, Absent

\* Every other step of a run: it writes no task.
LEMMA OwnsLocal ==
  ASSUME Typed, OwnsAttempt, NEW w \in Runs,
         \/ LoadAgain(w) \/ AcquireSlot(w) \/ ExecutorThrows(w) \/ ExecutorReturns(w) \/ CatchLoad(w)
         \/ RefuseWorkspace(w) \/ ReleaseSlot(w) \/ Crash(w) \/ Recycle(w)
         \/ \E t \in Tasks : Begin(w, t)
  PROVE  OwnsAttempt'
<1>1. UNCHANGED task
  BY DEF LoadAgain, ReturnAtOnce, AcquireSlot, ExecutorThrows, ExecutorReturns, CatchLoad, RefuseWorkspace,
         ReleaseSlot, Crash, Recycle, Begin
<1>2. \A v \in Runs \ {w} : pc'[v] = pc[v] /\ run'[v] = run[v]
  BY ActorsAssumption
  DEF LoadAgain, ReturnAtOnce, AcquireSlot, ExecutorThrows, ExecutorReturns, CatchLoad, RefuseWorkspace,
      ReleaseSlot, Crash, Recycle, Begin, Throw, Goto, Typed, Types, Actors
<1>3. pc'[w] \in Attempting => pc[w] \in Attempting /\ run'[w] = run[w]
  BY ActorsAssumption
  DEF LoadAgain, ReturnAtOnce, AcquireSlot, ExecutorThrows, ExecutorReturns, CatchLoad, RefuseWorkspace,
      ReleaseSlot, Crash, Recycle, Begin, Throw, Goto, Typed, Types, Actors, Attempting
<1>4. QED
  BY <1>1, <1>2, <1>3, OwnersKept

\* The workspace, the leases and the backoff change neither owner nor status.
LEMMA OwnsFields ==
  ASSUME Typed, OwnsAttempt, NEW t \in Tasks,
         \/ LeaseExpires(t) \/ BackoffEnds(t)
         \/ \E w \in Runs : run[w].job = t /\ Edit(w)
  PROVE  OwnsAttempt'
<1>1. \A b \in BOOLEAN :
        /\ [task[t] EXCEPT !.expired = b].owner = task[t].owner
        /\ [task[t] EXCEPT !.expired = b].status = task[t].status
        /\ [task[t] EXCEPT !.backoff = b].owner = task[t].owner
        /\ [task[t] EXCEPT !.backoff = b].status = task[t].status
        /\ [task[t] EXCEPT !.dirty = b].owner = task[t].owner
        /\ [task[t] EXCEPT !.dirty = b].status = task[t].status
  BY MovedType DEF Typed, TaskRecords
<1>2. PICK record : /\ task' = [task EXCEPT ![t] = record]
                    /\ record.owner = task[t].owner /\ record.status = task[t].status
  BY <1>1 DEF LeaseExpires, BackoffEnds, Edit
<1>3. \A s \in Tasks : task'[s].owner = task[s].owner /\ task'[s].status = task[s].status
  BY <1>2 DEF Typed, Types
<1>4. UNCHANGED <<pc, run>>
  BY DEF LeaseExpires, BackoffEnds, Edit
<1>5. QED
  BY <1>3, <1>4, OwnersKept

LEMMA OwnsRecovery ==
  ASSUME Typed, OwnsAttempt, NEW r \in Recoveries,
         \/ RecoverBegin(r) \/ ReleaseHeld(r) \/ CheckIdle(r) \/ BeginEnter(r)
         \/ ActivateFence(r) \/ Recheck(r) \/ AbortEnter(r) \/ Migrate(r)
         \/ ExitMaintenance(r) \/ RecoverAbandon(r)
         \/ \E t \in Tasks : ScanAmbiguous(r, t)
  PROVE  OwnsAttempt'
<1>1. UNCHANGED <<task, run>>
  BY DEF RecoverBegin, ReleaseHeld, CheckIdle, BeginEnter, ActivateFence, Recheck,
         AbortEnter, Migrate, ExitMaintenance, RecoverAbandon, ScanAmbiguous
<1>2. \A v \in Runs : pc'[v] = pc[v]
  BY ActorsAssumption
  DEF RecoverBegin, ReleaseHeld, CheckIdle, BeginEnter, ActivateFence, Recheck,
      AbortEnter, Migrate, ExitMaintenance, RecoverAbandon, ScanAmbiguous, Goto, Leave, Typed, Types, Actors
<1>3. QED
  BY <1>1, <1>2, OwnersKept

LEMMA OwnsLaunchReady ==
  ASSUME Typed, OwnsAttempt, NEW a \in Actors, LaunchReady(a)
  PROVE  OwnsAttempt'
<1>1. \A v \in Runs : pc'[v] \in Attempting => pc[v] \in Attempting /\ run'[v] = run[v]
  BY ActorsAssumption DEF LaunchReady, Goto, Typed, Types, Actors, Attempting
<1>2. QED
  BY <1>1, OwnersKept DEF LaunchReady

LEMMA OwnsStep == Typed /\ OwnsAttempt /\ [Next]_vars => OwnsAttempt'
<1> SUFFICES ASSUME Typed, OwnsAttempt, [Next]_vars PROVE OwnsAttempt'
  OBVIOUS
<1>1. CASE UNCHANGED vars
  BY <1>1, OwnersKept DEF vars
<1>2. CASE \E t \in Tasks : Submit(t) \/ RequestCancel(t) \/ WorkerLeaves(t)
  <2>1. CASE \E t \in Tasks : WorkerLeaves(t)
    BY <2>1, OwnersKept DEF WorkerLeaves
  <2>2. QED
    BY <1>2, <2>1, OwnsSubmit, OwnsRequestCancel
<1>3. ASSUME NEW w \in Runs,
             \/ \E t \in Tasks : Begin(w, t)
             \/ RunStep(w) \/ Edit(w) \/ Pulse(w) \/ Crash(w) \/ Recycle(w)
      PROVE  OwnsAttempt'
  <2>1. CASE Complete(w) \/ BlockWithOutcome(w) \/ CancelRunning(w)
    BY <2>1, OwnsEndAttempt DEF Complete, BlockWithOutcome, CancelRunning
  <2>2. CASE BlockDependency(w) \/ BlockOwnership(w)
    BY <2>2, OwnsBlockLoaded DEF BlockDependency, BlockOwnership
  <2>3. CASE Edit(w)
    <3>1. run[w].job \in Tasks
      BY <2>3 DEF Edit, Typed, JobKnown
    <3>2. QED
      BY <2>3, <3>1, OwnsFields
  <2>4. QED
    BY <1>3, <2>1, <2>2, <2>3, OwnsClaim, OwnsPrepare, OwnsRecordAttemptStart,
       OwnsPulse, OwnsHandleFailure, OwnsLocal
    DEF RunStep
<1>4. CASE \E r \in Recoveries :
             RecoverBegin(r) \/ RecoveryStep(r) \/ RecoverAbandon(r)
  BY <1>4, OwnsRecovery, OwnsScanTask, OwnsBlockAmbiguous DEF RecoveryStep
<1>5. CASE \E a \in Actors : SweepStep(a)
  BY <1>5, OwnsLaunchReady, OwnsBlockDependent DEF SweepStep
<1>6. CASE Clock
  <2>1. CASE \E t \in Tasks : SlotExpires(t)
    BY <2>1, OwnersKept DEF SlotExpires
  <2>2. QED
    BY <1>6, <2>1, OwnsFields DEF Clock
<1>7. QED
  BY <1>1, <1>2, <1>3, <1>4, <1>5, <1>6 DEF Next

\* The lease of a task names one owner, so two attempting runs are one.
LEMMA OwnsIsOneExecutor == OwnsAttempt => OneExecutor
BY DEF OwnsAttempt, OneExecutor

\* Whatever expires, dies or races: two worker processes never hold an attempt of
\* the same task (task-store.ts claim, scheduleRetry and recoverOrphan).
THEOREM OneExecutorHolds == Spec => []OneExecutor
<1>1. Spec => [](Typed /\ OwnsAttempt)
  BY InitTyped, OwnsInit, TypedStep, OwnsStep, PTL DEF Spec
<1>2. QED
  BY <1>1, OwnsIsOneExecutor, PTL


-----------------------------------------------------------------------------
(* What a step makes of a task *)

\* A record that may replace that of t: it waits for an attempt only in a
\* workspace that is clean, or no less clean than before, and it runs only for a run
\* and in the epoch of its start.
Fits(t, record) ==
  /\ record.status \in {Absent, "queued"} =>
       \/ t \in PlanTasks \/ ~record.dirty
       \/ task[t].status \in {Absent, "queued"} /\ record.dirty = task[t].dirty
  /\ record.status = "running" =>
       \/ /\ task[t].status = "running" /\ record.epoch = task[t].epoch
          /\ record.owner = task[t].owner
       \/ ~fence.active /\ record.epoch = fence.epoch /\ record.owner \in Runs

AllFit == \A t \in Tasks : Fits(t, task'[t])

LEMMA FitSame ==
  ASSUME NEW t \in Tasks, NEW record, record.status = task[t].status,
         record.dirty = task[t].dirty, record.epoch = task[t].epoch,
         record.owner = task[t].owner
  PROVE  Fits(t, record)
BY DEF Fits

LEMMA FitUnchanged == UNCHANGED task => AllFit
BY FitSame DEF AllFit

LEMMA FitOne ==
  ASSUME Types, NEW t \in Tasks, NEW record, task' = [task EXCEPT ![t] = record],
         Fits(t, record)
  PROVE  AllFit
<1>1. task'[t] = record /\ \A s \in Tasks \ {t} : task'[s] = task[s]
  BY DEF Types
<1>2. QED
  BY <1>1, FitSame DEF AllFit

LEMMA FitSave ==
  ASSUME Types, NEW a, NEW t \in Tasks, NEW record, Save(a, t, record), Fits(t, record)
  PROVE  AllFit
BY FitOne DEF Save

\* What a transition leaves of the record.
LEMMA MovedLeaves ==
  ASSUME Types, NEW t \in Tasks, NEW to
  PROVE  /\ Moved(t, to).status = to /\ Moved(t, to).dirty = task[t].dirty
         /\ Moved(t, to).epoch = task[t].epoch
BY MovedType DEF Moved, TaskRecords

LEMMA FitMoved ==
  ASSUME Types, NEW t \in Tasks, NEW to, to \notin {Absent, "queued", "running"}
  PROVE  Fits(t, Moved(t, to))
BY MovedLeaves DEF Fits

\* A transition to the queue, with or without a backoff.
LEMMA FitQueued ==
  ASSUME Types, NEW t \in Tasks, NEW later \in BOOLEAN, t \in PlanTasks \/ ~task[t].dirty
  PROVE  Fits(t, [Moved(t, "queued") EXCEPT !.backoff = later])
<1>1. Moved(t, "queued") \in TaskRecords
  BY MovedType DEF TaskStatus
<1>2. /\ [Moved(t, "queued") EXCEPT !.backoff = later].status = "queued"
      /\ [Moved(t, "queued") EXCEPT !.backoff = later].dirty = task[t].dirty
  BY <1>1, MovedLeaves DEF TaskRecords
<1>3. QED
  BY <1>2 DEF Fits

\* The edits of a record that touch neither status, nor epoch, nor owner.
LEMMA FitFields ==
  ASSUME Types, NEW t \in Tasks
  PROVE  /\ \A b \in BOOLEAN : /\ Fits(t, [task[t] EXCEPT !.cancel = b])
                               /\ Fits(t, [task[t] EXCEPT !.expired = b])
                               /\ Fits(t, [task[t] EXCEPT !.backoff = b])
         /\ Fits(t, [task[t] EXCEPT !.begun = TRUE, !.dirty = FALSE])
         /\ Fits(t, task[t])
<1>1. task[t] \in TaskRecords
  BY MovedType
<1>2. \A b \in BOOLEAN :
        /\ [task[t] EXCEPT !.cancel = b].status = task[t].status
        /\ [task[t] EXCEPT !.cancel = b].dirty = task[t].dirty
        /\ [task[t] EXCEPT !.cancel = b].epoch = task[t].epoch
        /\ [task[t] EXCEPT !.cancel = b].owner = task[t].owner
        /\ [task[t] EXCEPT !.expired = b].status = task[t].status
        /\ [task[t] EXCEPT !.expired = b].dirty = task[t].dirty
        /\ [task[t] EXCEPT !.expired = b].epoch = task[t].epoch
        /\ [task[t] EXCEPT !.expired = b].owner = task[t].owner
        /\ [task[t] EXCEPT !.backoff = b].status = task[t].status
        /\ [task[t] EXCEPT !.backoff = b].dirty = task[t].dirty
        /\ [task[t] EXCEPT !.backoff = b].epoch = task[t].epoch
        /\ [task[t] EXCEPT !.backoff = b].owner = task[t].owner
  BY <1>1 DEF TaskRecords
<1>3. /\ [task[t] EXCEPT !.begun = TRUE, !.dirty = FALSE].dirty = FALSE
      /\ [task[t] EXCEPT !.begun = TRUE, !.dirty = FALSE].status = task[t].status
      /\ [task[t] EXCEPT !.begun = TRUE, !.dirty = FALSE].epoch = task[t].epoch
      /\ [task[t] EXCEPT !.begun = TRUE, !.dirty = FALSE].owner = task[t].owner
  BY <1>1 DEF TaskRecords
<1>4. Fits(t, [task[t] EXCEPT !.begun = TRUE, !.dirty = FALSE])
  BY <1>3 DEF Fits
<1>5. QED
  BY <1>2, <1>4, FitSame

-----------------------------------------------------------------------------
(* Each action *)

\* No task that may edit waits in a dirty workspace; nothing has run an absent one.
Clean ==
  \A t \in Tasks \ PlanTasks : task[t].status \in {Absent, "queued"} => ~task[t].dirty

LEMMA FitClients ==
  ASSUME Typed, NEW t \in Tasks, Submit(t) \/ RequestCancel(t)
  PROVE  AllFit
<1>1. Types
  BY DEF Typed
<1>2. CASE Submit(t)
  <2>1. task' = [task EXCEPT ![t] = Moved(t, "queued")] /\ task[t].status = Absent
    BY <1>2 DEF Submit
  <2>2. Fits(t, Moved(t, "queued"))
    BY <1>1, <2>1, MovedLeaves DEF Fits, Absent
  <2>3. QED
    BY <1>1, <2>1, <2>2, FitOne
<1>3. CASE RequestCancel(t)
  BY <1>1, <1>3, FitSave, FitFields, FitMoved DEF RequestCancel, Absent
<1>4. QED
  BY <1>2, <1>3

LEMMA FitClaim ==
  ASSUME Typed, NEW w \in Runs, Claim(w)
  PROVE  AllFit
<1> DEFINE t == run[w].job
           record == [Moved(t, "running") EXCEPT
                        !.attempt = task[t].attempt + 1, !.owner = w,
                        !.epoch = fence.epoch, !.expired = FALSE, !.begun = FALSE]
<1>1. t \in Tasks /\ Types
  BY DEF Claim, Typed, JobKnown
<1>2. CASE MayClaim(w) /\ Save(w, t, record)
  <2>1. record.status = "running" /\ record.epoch = fence.epoch /\ record.owner = w
    <3>1. Moved(t, "running") \in TaskRecords /\ Moved(t, "running").status = "running"
      BY <1>1, MovedType, MovedKeeps DEF TaskStatus
    <3>2. QED
      BY <3>1 DEF TaskRecords
  <2>2. ~fence.active
    BY <1>2 DEF MayClaim
  <2> HIDE DEF record
  <2>3. Fits(t, record)
    BY <2>1, <2>2 DEF Fits, Absent
  <2>4. QED
    BY <1>1, <1>2, <2>3, FitSave
<1>3. CASE UNCHANGED task
  BY <1>3, FitUnchanged
<1>4. QED
  BY <1>2, <1>3 DEF Claim

LEMMA FitRunWrites ==
  ASSUME Typed, NEW w \in Runs, Prepare(w) \/ RecordAttemptStart(w) \/ Pulse(w)
  PROVE  AllFit
<1>1. run[w].job \in Tasks /\ Types
  BY PulseKeeps DEF Prepare, RecordAttemptStart, Typed, JobKnown
<1>2. CASE UNCHANGED task
  BY <1>2, FitUnchanged
<1>3. CASE Prepare(w)
  BY <1>1, <1>2, <1>3, FitSave, FitFields DEF Prepare
<1>4. CASE RecordAttemptStart(w)
  BY <1>1, <1>2, <1>4, FitSave, FitFields DEF RecordAttemptStart
<1>5. CASE Pulse(w)
  BY <1>1, <1>2, <1>5, FitSave, FitFields, PulseKeeps
<1>6. QED
  BY <1>3, <1>4, <1>5

\* A provider edits only while its run owns the attempt: the task is not queued.
LEMMA FitEdit ==
  ASSUME Typed, OwnsAttempt, NEW w \in Runs, Edit(w)
  PROVE  AllFit
<1> DEFINE t == run[w].job
           record == [task[t] EXCEPT !.dirty = TRUE]
<1>1. t \in Tasks /\ Types /\ task[t].status \notin {Absent, "queued"}
  BY DEF Edit, Typed, JobKnown, OwnsAttempt, Attempting
<1>2. /\ record.status = task[t].status /\ record.epoch = task[t].epoch
      /\ record.owner = task[t].owner
  BY <1>1, MovedType DEF TaskRecords
<1>3. task' = [task EXCEPT ![t] = record]
  BY <1>1, MovedType DEF Edit, Types, TaskRecords
<1> HIDE DEF record
<1>4. Fits(t, record)
  BY <1>1, <1>2 DEF Fits
<1>5. QED
  BY <1>1, <1>3, <1>4, FitOne

LEMMA FitEndAttempt ==
  ASSUME Typed, NEW w \in Runs, NEW from, from \notin {"idle", "sweeping", "gone"}, NEW guard,
         NEW to \in {"completed", "blocked", "cancelled"}, EndAttempt(w, from, guard, to)
  PROVE  AllFit
<1>1. run[w].job \in Tasks /\ Types
  BY DEF EndAttempt, Typed, JobKnown
<1>2. QED
  BY <1>1, FitUnchanged, FitSave, FitMoved DEF EndAttempt, Absent

\* A retry of a task that may edit needs a workspace measured to be unchanged.
LEMMA FitHandleFailure ==
  ASSUME Typed, NEW w \in Runs, HandleFailure(w)
  PROVE  AllFit
<1> DEFINE t == run[w].job
<1>1. t \in Tasks /\ Types
  BY DEF HandleFailure, Typed, JobKnown
<1>2. CASE UNCHANGED task
  BY <1>2, FitUnchanged
<1>3. CASE Save(w, t, Moved(t, "cancelled")) \/ Save(w, t, Moved(t, "failed"))
  BY <1>1, <1>3, FitSave, FitMoved DEF Absent
<1>4. ASSUME NEW later \in BOOLEAN, t \in PlanTasks \/ ~task[t].dirty,
             Save(w, t, [Moved(t, "queued") EXCEPT !.backoff = later])
      PROVE  AllFit
  BY <1>1, <1>4, FitSave, FitQueued
<1>5. QED
  BY <1>2, <1>3, <1>4 DEF HandleFailure, RetryEligible

LEMMA FitBlockLoaded ==
  ASSUME Typed, NEW w \in Runs, BlockDependency(w) \/ BlockOwnership(w)
  PROVE  AllFit
<1>1. run[w].job \in Tasks /\ Types
  BY DEF BlockDependency, BlockOwnership, BlockLoaded, Typed, JobKnown
<1>2. QED
  BY <1>1, FitUnchanged, FitSave, FitMoved
  DEF BlockDependency, BlockOwnership, BlockLoaded, Absent

\* A recovery queues a task only in a clean workspace, whatever its mode.
LEMMA FitScanTask ==
  ASSUME Typed, NEW r \in Recoveries, NEW t \in Tasks, ScanTask(r, t)
  PROVE  AllFit
<1>1. Types
  BY DEF Typed
<1>2. CASE UNCHANGED task
  BY <1>2, FitUnchanged
<1>3. CASE Save(NoRun, t, Moved(t, "blocked"))
  BY <1>1, <1>3, FitSave, FitMoved DEF Absent
<1>4. CASE ~task[t].dirty /\ Save(NoRun, t, [Moved(t, "queued") EXCEPT !.backoff = FALSE])
  BY <1>1, <1>4, FitSave, FitQueued
<1>5. QED
  BY <1>2, <1>3, <1>4 DEF ScanTask, RecoverOrphan

LEMMA FitBlockOthers ==
  ASSUME Typed,
         \/ \E r \in Recoveries : BlockAmbiguous(r)
         \/ \E a \in Actors, t \in Tasks : BlockDependent(a, t)
  PROVE  AllFit
<1>1. Types
  BY DEF Typed
<1>2. CASE \E r \in Recoveries : BlockAmbiguous(r)
  <2>1. PICK r \in Recoveries : BlockAmbiguous(r)
    BY <1>2
  <2>2. sweep[r].held \in Tasks
    BY <2>1 DEF BlockAmbiguous, Typed, HeldKnown
  <2>3. QED
    BY <1>1, <2>1, <2>2, FitUnchanged, FitSave, FitMoved DEF BlockAmbiguous, Absent
<1>3. CASE \E a \in Actors, t \in Tasks : BlockDependent(a, t)
  BY <1>1, <1>3, FitSave, FitMoved DEF BlockDependent, Absent
<1>4. QED
  BY <1>2, <1>3

LEMMA FitClock ==
  ASSUME Typed, NEW t \in Tasks, LeaseExpires(t) \/ BackoffEnds(t)
  PROVE  AllFit
<1>1. Types /\ task[t] \in TaskRecords
  BY MovedType DEF Typed
<1>2. \/ task' = [task EXCEPT ![t] = [task[t] EXCEPT !.expired = TRUE]]
      \/ task' = [task EXCEPT ![t] = [task[t] EXCEPT !.backoff = FALSE]]
  BY <1>1 DEF LeaseExpires, BackoffEnds, Types, TaskRecords
<1>3. QED
  BY <1>1, <1>2, FitOne, FitFields

LEMMA FitStep == Typed /\ OwnsAttempt /\ [Next]_vars => AllFit
<1> SUFFICES ASSUME Typed, OwnsAttempt, [Next]_vars PROVE AllFit
  OBVIOUS
<1>1. CASE UNCHANGED task
  BY <1>1, FitUnchanged
<1>2. CASE \E t \in Tasks : Submit(t) \/ RequestCancel(t) \/ WorkerLeaves(t)
  BY <1>1, <1>2, FitClients DEF WorkerLeaves
<1>3. ASSUME NEW w \in Runs,
             \/ \E t \in Tasks : Begin(w, t)
             \/ RunStep(w) \/ Edit(w) \/ Pulse(w) \/ Crash(w) \/ Recycle(w)
      PROVE  AllFit
  <2>1. CASE Complete(w) \/ BlockWithOutcome(w) \/ CancelRunning(w)
    BY <2>1, FitEndAttempt DEF Complete, BlockWithOutcome, CancelRunning
  <2>2. CASE \/ \E t \in Tasks : Begin(w, t)
             \/ LoadAgain(w) \/ AcquireSlot(w) \/ ExecutorThrows(w) \/ ExecutorReturns(w)
             \/ CatchLoad(w) \/ RefuseWorkspace(w) \/ ReleaseSlot(w) \/ Crash(w) \/ Recycle(w)
    BY <1>1, <2>2 DEF LoadAgain, AcquireSlot, ExecutorThrows, ExecutorReturns, CatchLoad,
                      RefuseWorkspace, ReleaseSlot, Crash, Recycle, Begin
  <2>3. QED
    BY <1>3, <2>1, <2>2, FitClaim, FitRunWrites, FitEdit, FitHandleFailure, FitBlockLoaded
    DEF RunStep
<1>4. CASE \E r \in Recoveries : RecoverBegin(r) \/ RecoveryStep(r) \/ RecoverAbandon(r)
  <2>1. PICK r \in Recoveries : RecoverBegin(r) \/ RecoveryStep(r) \/ RecoverAbandon(r)
    BY <1>4
  <2>2. CASE \/ BlockAmbiguous(r) \/ \E t \in Tasks : ScanTask(r, t)
    BY <2>2, FitScanTask, FitBlockOthers
  <2>3. CASE \/ RecoverBegin(r) \/ ReleaseHeld(r) \/ CheckIdle(r) \/ BeginEnter(r)
             \/ ActivateFence(r) \/ Recheck(r) \/ AbortEnter(r) \/ Migrate(r)
             \/ ExitMaintenance(r) \/ RecoverAbandon(r)
             \/ \E t \in Tasks : ScanAmbiguous(r, t)
    BY <1>1, <2>3 DEF RecoverBegin, ReleaseHeld, CheckIdle, BeginEnter, ActivateFence, Recheck,
         AbortEnter, Migrate, ExitMaintenance, RecoverAbandon, ScanAmbiguous
  <2>4. QED
    BY <2>1, <2>2, <2>3 DEF RecoveryStep
<1>5. CASE \E a \in Actors : SweepStep(a)
  BY <1>1, <1>5, FitBlockOthers DEF SweepStep, LaunchReady
<1>6. CASE Clock
  BY <1>1, <1>6, FitClock DEF Clock, SlotExpires
<1>7. QED
  BY <1>1, <1>2, <1>3, <1>4, <1>5, <1>6 DEF Next, vars

-----------------------------------------------------------------------------
(* Clean retries *)

LEMMA CleanStep == Typed /\ OwnsAttempt /\ Clean /\ [Next]_vars => Clean'
BY FitStep DEF AllFit, Fits, Clean

\* A task that may edit is queued only in the workspace its last attempt found,
\* however attempts end and whoever reclaims them (task-policy.ts retryEligible,
\* task-store.ts recoverOrphan).
THEOREM WritableRetryIsCleanHolds == Spec => []WritableRetryIsClean
<1>1. Init => Clean
  BY DEF Init, NewTask, Clean
<1>2. Clean => WritableRetryIsClean
  BY DEF Clean, WritableRetryIsClean
<1>3. Spec => [](Typed /\ OwnsAttempt /\ Clean)
  BY <1>1, InitTyped, OwnsInit, TypedStep, OwnsStep, CleanStep, PTL DEF Spec
<1>4. QED
  BY <1>2, <1>3, PTL

-----------------------------------------------------------------------------
(* Maintenance by one recovering process *)

OneRecovery == \A r, s \in Recoveries : r = s

Fenced == {"activating", "rechecking", "aborting", "entered", "migrating"}

\* Where the recovery stands between its two readings of the tasks and its exit:
\* what it has read of the fence is still so, and what runs under a fence that it
\* activated has the epoch that an abort restores.
Entering(r) ==
  /\ pc[r] = "activating" =>
       ~fence.active /\ ~sweep[r].joined /\ sweep[r].previous = fence.epoch
  /\ pc[r] \in {"rechecking", "aborting"} =>
       /\ fence.active
       /\ sweep[r].joined => Running = {} /\ pc[r] = "rechecking"
       /\ ~sweep[r].joined => /\ fence.epoch = sweep[r].previous + 1
                             /\ \A t \in Running : task[t].epoch = sweep[r].previous
  /\ pc[r] \in {"entered", "migrating"} => fence.active /\ Running = {}

Maintained == RunningLeaseCurrent /\ \A r \in Recoveries : Entering(r)

\* What runs after a step ran before it in the same epoch, or has just started.
LEMMA RunningFits ==
  ASSUME AllFit, NEW t \in Running'
  PROVE  \/ /\ t \in Running /\ task'[t].epoch = task[t].epoch
            /\ task'[t].owner = task[t].owner
         \/ ~fence.active /\ task'[t].epoch = fence.epoch /\ task'[t].owner \in Runs
<1>1. t \in Tasks /\ task'[t].status = "running"
  BY DEF Running
<1>2. Fits(t, task'[t])
  BY <1>1 DEF AllFit
<1>3. QED
  BY <1>1, <1>2 DEF Fits, Running

\* A step that leaves the fence alone, and each recovery where it is or outside of
\* the maintenance.
LEMMA MaintainedKept ==
  ASSUME Maintained, AllFit, UNCHANGED fence,
         \A r \in Recoveries : pc'[r] \in Fenced =>
           pc'[r] = pc[r] /\ sweep'[r].joined = sweep[r].joined
             /\ sweep'[r].previous = sweep[r].previous
  PROVE  Maintained'
<1>1. RunningLeaseCurrent'
  BY RunningFits DEF Maintained, RunningLeaseCurrent
<1>2. ASSUME NEW r \in Recoveries
      PROVE  Entering(r)'
  <2>1. fence.active => Running' \subseteq Running /\ \A t \in Running' : task'[t].epoch = task[t].epoch
    BY RunningFits
  <2>2. CASE pc'[r] \in Fenced
    BY <2>1, <2>2 DEF Maintained, Entering, Fenced
  <2>3. CASE pc'[r] \notin Fenced
    BY <2>3 DEF Entering, Fenced
  <2>4. QED
    BY <2>2, <2>3
<1>3. QED
  BY <1>1, <1>2 DEF Maintained

\* The steps of clients, runs and the clock.
LEMMA MaintainedOthers ==
  ASSUME Typed, Maintained, AllFit,
         \/ \E t \in Tasks : Submit(t) \/ RequestCancel(t) \/ WorkerLeaves(t)
         \/ \E w \in Runs : \/ \E t \in Tasks : Begin(w, t)
                           \/ RunStep(w) \/ Edit(w) \/ Pulse(w) \/ Crash(w) \/ Recycle(w)
         \/ \E a \in Actors : SweepStep(a)
         \/ Clock
  PROVE  Maintained'
<1>1. UNCHANGED <<fence, sweep>>
  BY PulseKeeps DEF Submit, RequestCancel, WorkerLeaves, Begin, RunStep, Edit, Crash, Recycle,
     LoadAgain, AcquireSlot, Claim, Prepare, RecordAttemptStart, ExecutorReturns, ExecutorThrows, Complete,
     BlockWithOutcome, CancelRunning, EndAttempt, CatchLoad, HandleFailure, BlockDependency,
     RefuseWorkspace, BlockOwnership, BlockLoaded, ReleaseSlot, SweepStep, LaunchReady,
     BlockDependent, Clock, LeaseExpires, SlotExpires, BackoffEnds
<1>2. \A r \in Recoveries : pc'[r] \in Fenced => pc'[r] = pc[r]
  <2>1. CASE \E t \in Tasks : Submit(t) \/ RequestCancel(t) \/ WorkerLeaves(t)
    BY <2>1 DEF Submit, RequestCancel, WorkerLeaves
  <2>2. ASSUME NEW w \in Runs,
               \/ \E t \in Tasks : Begin(w, t)
               \/ RunStep(w) \/ Edit(w) \/ Pulse(w) \/ Crash(w) \/ Recycle(w)
        PROVE  \A r \in Recoveries : pc'[r] = pc[r]
    <3>1. \A r \in Recoveries : r # w /\ r \in Actors
      BY ActorsAssumption DEF Actors
    <3>2. UNCHANGED pc \/ \E label : Goto(w, label)
      BY <2>2, PulseKeeps DEF Begin, RunStep, Edit, Crash, Recycle, ReturnAtOnce,
         LoadAgain, AcquireSlot, Claim, Prepare, RecordAttemptStart, ExecutorReturns, ExecutorThrows, Complete,
         BlockWithOutcome, CancelRunning, EndAttempt, CatchLoad, HandleFailure, BlockDependency,
         RefuseWorkspace, BlockOwnership, BlockLoaded, ReleaseSlot, Throw
    <3>3. QED
      BY <3>1, <3>2 DEF Goto, Typed, Types
  <2>3. CASE \E a \in Actors : SweepStep(a)
    BY <2>3 DEF SweepStep, LaunchReady, BlockDependent, Goto, Typed, Types, Actors, Fenced
  <2>4. CASE Clock
    BY <2>4 DEF Clock, LeaseExpires, SlotExpires, BackoffEnds
  <2>5. QED
    BY <2>1, <2>2, <2>3, <2>4
<1>3. QED
  BY <1>1, <1>2, MaintainedKept

\* The steps of a recovery outside of the maintenance.
LEMMA MaintainedScan ==
  ASSUME Typed, Maintained, AllFit, OneRecovery, NEW r \in Recoveries,
         \/ RecoverBegin(r) \/ BlockAmbiguous(r) \/ ReleaseHeld(r) \/ CheckIdle(r)
         \/ RecoverAbandon(r)
         \/ \E t \in Tasks : ScanTask(r, t) \/ ScanAmbiguous(r, t)
  PROVE  Maintained'
<1>1. UNCHANGED fence
  BY DEF RecoverBegin, BlockAmbiguous, ReleaseHeld, CheckIdle, RecoverAbandon, ScanTask,
     ScanAmbiguous
<1>2. pc'[r] \notin Fenced
  <2>1. r \in Actors
    BY DEF Actors
  <2>2. QED
    BY <2>1 DEF RecoverBegin, BlockAmbiguous, ReleaseHeld, CheckIdle, RecoverAbandon, ScanTask,
       ScanAmbiguous, Leave, Goto, Fenced, Typed, Types
<1>4. QED
  BY <1>1, <1>2, MaintainedKept DEF OneRecovery

\* What Goto and the reset of a recovery change.
LEMMA RecoveryGoes ==
  ASSUME Typed, NEW r \in Recoveries, NEW label, Goto(r, label)
  PROVE  pc'[r] = label
<1>1. r \in Actors
  BY DEF Actors
<1>2. QED
  BY <1>1 DEF Goto, Typed, Types

LEMMA MaintainedBeginEnter ==
  ASSUME Typed, Maintained, OneRecovery, NEW r \in Recoveries, BeginEnter(r)
  PROVE  Maintained'
<1>1. UNCHANGED <<task, fence>>
  BY DEF BeginEnter
<1>2. RunningLeaseCurrent'
  BY <1>1 DEF Maintained, RunningLeaseCurrent, Running
<1>3. CASE Running # {}
  <2>1. pc'[r] = "idle"
    BY <1>3, RecoveryGoes DEF BeginEnter, Leave
  <2>2. QED
    BY <1>2, <2>1 DEF OneRecovery, Maintained, Entering
<1>4. CASE Running = {}
  <2>1. pc'[r] = IF fence.active THEN "rechecking" ELSE "activating"
    BY <1>4, RecoveryGoes DEF BeginEnter
  <2>2. sweep[r] \in SweepRecords
    BY DEF Typed, Types
  <2>3. sweep'[r].joined = fence.active /\ sweep'[r].previous = fence.epoch
    BY <1>4, <2>2 DEF BeginEnter, Typed, Types, SweepRecords
  <2>4. Running' = {}
    BY <1>1, <1>4 DEF Running
  <2>5. Entering(r)'
    BY <1>1, <2>1, <2>3, <2>4 DEF Entering
  <2>6. QED
    BY <1>2, <2>5 DEF OneRecovery, Maintained
<1>5. QED
  BY <1>3, <1>4

LEMMA MaintainedActivate ==
  ASSUME Typed, Maintained, OneRecovery, NEW r \in Recoveries, ActivateFence(r)
  PROVE  Maintained'
<1>1. /\ ~fence.active /\ sweep[r].previous = fence.epoch /\ pc[r] = "activating"
      /\ ~sweep[r].joined
  BY DEF Maintained, Entering, ActivateFence
<1>2. fence' = [active |-> TRUE, epoch |-> fence.epoch + 1] /\ Goto(r, "rechecking")
      /\ UNCHANGED <<sweep, task>>
  BY <1>1 DEF ActivateFence
<1>3. fence'.active /\ fence'.epoch = sweep'[r].previous + 1 /\ pc'[r] = "rechecking"
  BY <1>1, <1>2, RecoveryGoes
<1>4. \A t \in Running' : task'[t].epoch = sweep'[r].previous
  BY <1>1, <1>2 DEF Maintained, RunningLeaseCurrent, Running
<1>5. ~sweep'[r].joined
  BY <1>1, <1>2
<1>6. QED
  BY <1>3, <1>4, <1>5 DEF OneRecovery, Maintained, Entering, RunningLeaseCurrent

LEMMA MaintainedRecheck ==
  ASSUME Typed, Maintained, OneRecovery, NEW r \in Recoveries, Recheck(r)
  PROVE  Maintained'
<1>1. UNCHANGED <<task, fence>> /\ fence.active /\ pc[r] = "rechecking"
  BY DEF Recheck, Maintained, Entering
<1>2. Running' = Running
  BY <1>1 DEF Running
<1>3. CASE Running = {}
  <2>1. pc'[r] = "entered"
    BY <1>3, RecoveryGoes DEF Recheck
  <2>2. QED
    BY <1>1, <1>2, <1>3, <2>1 DEF OneRecovery, Maintained, Entering, RunningLeaseCurrent
<1>4. CASE Running # {}
  <2>1. ~sweep[r].joined
    BY <1>1, <1>4 DEF Maintained, Entering
  <2>2. pc'[r] = "aborting" /\ UNCHANGED sweep
    BY <1>4, <2>1, RecoveryGoes DEF Recheck
  <2>3. QED
    BY <1>1, <1>2, <2>1, <2>2 DEF OneRecovery, Maintained, Entering, RunningLeaseCurrent
<1>5. QED
  BY <1>3, <1>4

\* The abort restores the epoch in which the tasks that run have started.
LEMMA MaintainedAbort ==
  ASSUME Typed, Maintained, OneRecovery, NEW r \in Recoveries, AbortEnter(r)
  PROVE  Maintained'
<1>1. /\ fence.active /\ fence.epoch = sweep[r].previous + 1
      /\ \A t \in Running : task[t].epoch = sweep[r].previous
  BY DEF AbortEnter, Maintained, Entering
<1>2. fence' = [active |-> FALSE, epoch |-> sweep[r].previous] /\ UNCHANGED task
  BY <1>1 DEF AbortEnter
<1>3. pc'[r] = "idle"
  BY RecoveryGoes DEF AbortEnter, Leave
<1>4. RunningLeaseCurrent'
  BY <1>1, <1>2 DEF RunningLeaseCurrent, Running
<1>5. QED
  BY <1>3, <1>4 DEF OneRecovery, Maintained, Entering

LEMMA MaintainedMigrate ==
  ASSUME Typed, Maintained, OneRecovery, NEW r \in Recoveries, Migrate(r) \/ ExitMaintenance(r)
  PROVE  Maintained'
<1>1. Running = {} /\ fence.active /\ UNCHANGED task
  BY DEF Migrate, ExitMaintenance, Maintained, Entering
<1>2. Running' = {}
  BY <1>1 DEF Running
<1>3. CASE Migrate(r)
  <2>1. pc'[r] = "migrating" /\ UNCHANGED fence
    BY <1>1, <1>3, RecoveryGoes DEF Migrate
  <2>2. QED
    BY <1>1, <1>2, <2>1 DEF OneRecovery, Maintained, Entering, RunningLeaseCurrent
<1>4. CASE ExitMaintenance(r)
  <2>1. pc'[r] = "sweeping"
    BY <1>1, <1>4, RecoveryGoes DEF ExitMaintenance
  <2>2. QED
    BY <1>2, <2>1 DEF OneRecovery, Maintained, Entering, RunningLeaseCurrent
<1>5. QED
  BY <1>3, <1>4

LEMMA MaintainedInit == Init => Maintained
<1> SUFFICES ASSUME Init PROVE Maintained
  OBVIOUS
<1>1. \A r \in Recoveries : pc[r] = "idle"
  BY DEF Init, Actors
<1>2. Running = {}
  BY DEF Init, Running, NewTask, Absent
<1>3. QED
  BY <1>1, <1>2 DEF Maintained, RunningLeaseCurrent, Entering

LEMMA MaintainedStep ==
  OneRecovery /\ Typed /\ OwnsAttempt /\ Maintained /\ [Next]_vars => Maintained'
<1> SUFFICES ASSUME OneRecovery, Typed, OwnsAttempt, Maintained, [Next]_vars
             PROVE  Maintained'
  OBVIOUS
<1>1. AllFit
  BY FitStep
<1>2. CASE UNCHANGED vars
  BY <1>1, <1>2, MaintainedKept DEF vars
<1>3. CASE \E r \in Recoveries : RecoverBegin(r) \/ RecoveryStep(r) \/ RecoverAbandon(r)
  BY <1>1, <1>3, MaintainedScan, MaintainedBeginEnter, MaintainedActivate, MaintainedRecheck,
     MaintainedAbort, MaintainedMigrate DEF RecoveryStep
<1>4. QED
  BY <1>1, <1>2, <1>3, MaintainedOthers DEF Next

LEMMA MaintainedHolds == ASSUME OneRecovery PROVE Spec => []Maintained
<1>1. Typed /\ OwnsAttempt /\ Maintained /\ [Next]_vars => Maintained'
  BY MaintainedStep
<1>2. QED
  BY <1>1, MaintainedInit, InitTyped, OwnsInit, TypedStep, OwnsStep, PTL DEF Spec

\* While the one process that recovers migrates records, the fence is up and no
\* task runs, though claims race with its entry (task-store.ts enterMaintenance).
THEOREM MigrationFencedHolds == ASSUME OneRecovery PROVE Spec => []MigrationFenced
<1>1. Maintained => MigrationFenced
  BY DEF Maintained, Entering, MigrationFenced
<1>2. QED
  BY <1>1, MaintainedHolds, PTL

\* Outside of maintenance each running task has the current epoch, through any
\* sequence of completed, aborted and abandoned entries (maintenance-store.ts
\* enter, abortEnter and exit): its worker is not refused for good.
THEOREM RunningLeaseCurrentHolds == ASSUME OneRecovery PROVE Spec => []RunningLeaseCurrent
<1>1. Maintained => RunningLeaseCurrent
  BY DEF Maintained
<1>2. QED
  BY <1>1, MaintainedHolds, PTL
=============================================================================

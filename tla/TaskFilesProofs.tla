--------------------------- MODULE TaskFilesProofs ---------------------------
(***************************************************************************)
(* Proofs about TaskFiles: it adds nothing to what TaskEngine does with    *)
(* its records, no attempt meets a worktree that an earlier one made and   *)
(* did not record, no attempt meets a result of its own, and a completed   *)
(* task keeps the one its last run has stored.                             *)
(***************************************************************************)
EXTENDS TaskFiles, TaskEngineProofs

-----------------------------------------------------------------------------
(* TaskFiles runs the steps of TaskEngine *)

LEMMA FilesNextIsNext == [FilesNext]_filesVars => [Next]_vars
<1> SUFFICES ASSUME [FilesNext]_filesVars PROVE [Next]_vars
  OBVIOUS
<1>1. CASE UNCHANGED filesVars
  BY <1>1 DEF filesVars
<1>2. ASSUME NEW w \in Runs,
             MakeWorktree(w) \/ PrepareIn(w) \/ PersistOutcome(w) \/ EndVerified(w)
      PROVE  [Next]_vars
  <2>1. UNCHANGED vars \/ RunStep(w)
    BY <1>2 DEF MakeWorktree, PrepareIn, PersistOutcome, EndVerified, RunStep
  <2>2. QED
    BY <2>1 DEF Next
<1>3. CASE \E t \in Tasks : Submit(t) \/ RequestCancel(t) \/ WorkerLeaves(t)
  BY <1>3 DEF Next
<1>4. ASSUME NEW w \in Runs,
             \/ \E t \in Tasks : Begin(w, t)
             \/ LoadAgain(w) \/ AcquireSlot(w) \/ Claim(w) \/ RecordAttemptStart(w)
             \/ ExecutorThrows(w) \/ CancelRunning(w)
             \/ CatchLoad(w) \/ HandleFailure(w) \/ BlockDependency(w)
             \/ RefuseWorkspace(w) \/ BlockOwnership(w) \/ ReleaseSlot(w)
             \/ Edit(w) \/ Pulse(w) \/ Crash(w) \/ Recycle(w)
      PROVE  [Next]_vars
  <2>1. \/ \E t \in Tasks : Begin(w, t)
        \/ RunStep(w) \/ Edit(w) \/ Pulse(w) \/ Crash(w) \/ Recycle(w)
    BY <1>4 DEF RunStep
  <2>2. QED
    BY <2>1 DEF Next
<1>5. CASE \E r \in Recoveries : RecoverBegin(r) \/ RecoveryStep(r) \/ RecoverAbandon(r)
  BY <1>5 DEF Next
<1>6. CASE (\E a \in Actors : SweepStep(a)) \/ Clock
  BY <1>6 DEF Next
<1>7. QED
  BY <1>1, <1>2, <1>3, <1>4, <1>5, <1>6 DEF FilesNext

\* The worktrees and the results only restrict the task engine (a run without its
\* worktree does not get past Prepare): what is proved of TaskEngine holds here.
THEOREM FilesRunTheEngine == FilesSpec => Spec
<1>1. FilesInit => Init
  BY DEF FilesInit
<1>2. QED
  BY <1>1, FilesNextIsNext, PTL DEF FilesSpec, Spec

-----------------------------------------------------------------------------
(* What a step makes of a task *)

\* The record of t names its worktree, if it has one of its own.
Marked(t) == t \in Managed => tree[t].recorded

\* A record that may replace that of t.  An attempt ends in the queue only once its
\* worktree is recorded, and begins after that.  A task is completed by the owner that
\* waited to do so, which has no attempt from then on.
CompletedNow(t) ==
  \E w \in Runs : pc[w] = "completing" /\ run[w].job = t /\ pc'[w] \notin Attempting

Kept(t, record) ==
  /\ record.status = "completed" =>
       /\ record.owner = task[t].owner
       /\ task[t].status = "completed" \/ CompletedNow(t)
  /\ record.attempt >= task[t].attempt
  /\ task[t].status \notin {Absent, "queued"} =>
       /\ record.attempt = task[t].attempt
       /\ record.status \in {Absent, "queued"} => Marked(t)
  /\ record.begun => task[t].begun \/ Marked(t)

AllKept == \A t \in Tasks : Kept(t, task'[t])

\* The runs that have a recorded worktree.
Begun == Attempting \ {"claimed"}

\* Whose attempt has begun, or failed after its snapshot, has its worktree on record.
Noted ==
  /\ \A t \in Tasks : task[t].begun => Marked(t)
  /\ \A w \in Runs : pc[w] \in Begun \/ run[w].cause = "late" => Marked(run[w].job)

LEMMA KeptSame ==
  ASSUME Types, NEW t \in Tasks, NEW record, record.attempt = task[t].attempt,
         record.status = task[t].status, record.begun = task[t].begun,
         record.owner = task[t].owner
  PROVE  Kept(t, record)
<1>1. task[t].attempt \in Nat
  BY DEF Types, TaskRecords
<1>2. QED
  BY <1>1 DEF Kept

LEMMA KeptUnchanged == Types /\ UNCHANGED task => AllKept
BY KeptSame DEF AllKept

LEMMA KeptOne ==
  ASSUME Types, NEW t \in Tasks, NEW record, task' = [task EXCEPT ![t] = record],
         Kept(t, record)
  PROVE  AllKept
<1>1. task'[t] = record /\ \A s \in Tasks \ {t} : task'[s] = task[s]
  BY DEF Types
<1>2. QED
  BY <1>1, KeptSame DEF AllKept

LEMMA KeptSave ==
  ASSUME Types, NEW a, NEW t \in Tasks, NEW record, Save(a, t, record), Kept(t, record)
  PROVE  AllKept
BY KeptOne DEF Save

\* A transition, with or without a backoff.
LEMMA KeptMoved ==
  ASSUME Types, NEW t \in Tasks, NEW to \in TaskStatus,
         \/ to \notin {Absent, "queued"} \/ task[t].status \in {Absent, "queued"} \/ Marked(t),
         to = "completed" => CompletedNow(t)
  PROVE  /\ Kept(t, Moved(t, to))
         /\ \A later \in BOOLEAN : Kept(t, [Moved(t, to) EXCEPT !.backoff = later])
<1>1. task[t] \in TaskRecords /\ Moved(t, to) \in TaskRecords
  BY MovedType
<1>2. /\ Moved(t, to).status = to /\ Moved(t, to).attempt = task[t].attempt
      /\ Moved(t, to).begun = task[t].begun /\ Moved(t, to).owner = task[t].owner
  BY <1>1 DEF Moved, TaskRecords
<1>3. \A later \in BOOLEAN :
        /\ [Moved(t, to) EXCEPT !.backoff = later].status = to
        /\ [Moved(t, to) EXCEPT !.backoff = later].attempt = task[t].attempt
        /\ [Moved(t, to) EXCEPT !.backoff = later].begun = task[t].begun
        /\ [Moved(t, to) EXCEPT !.backoff = later].owner = task[t].owner
  BY <1>1, <1>2 DEF TaskRecords
<1>4. task[t].attempt \in Nat
  BY <1>1 DEF TaskRecords
<1>5. QED
  BY <1>2, <1>3, <1>4 DEF Kept

\* The edits of a record that touch neither status nor attempt.
LEMMA KeptFields ==
  ASSUME Types, NEW t \in Tasks
  PROVE  /\ \A b \in BOOLEAN : /\ Kept(t, [task[t] EXCEPT !.cancel = b])
                               /\ Kept(t, [task[t] EXCEPT !.expired = b])
                               /\ Kept(t, [task[t] EXCEPT !.backoff = b])
                               /\ Kept(t, [task[t] EXCEPT !.dirty = b])
         /\ Kept(t, task[t])
<1>1. task[t] \in TaskRecords
  BY MovedType
<1>2. \A b \in BOOLEAN :
        /\ [task[t] EXCEPT !.cancel = b].status = task[t].status
        /\ [task[t] EXCEPT !.cancel = b].attempt = task[t].attempt
        /\ [task[t] EXCEPT !.cancel = b].begun = task[t].begun
        /\ [task[t] EXCEPT !.cancel = b].owner = task[t].owner
        /\ [task[t] EXCEPT !.expired = b].status = task[t].status
        /\ [task[t] EXCEPT !.expired = b].attempt = task[t].attempt
        /\ [task[t] EXCEPT !.expired = b].begun = task[t].begun
        /\ [task[t] EXCEPT !.expired = b].owner = task[t].owner
        /\ [task[t] EXCEPT !.backoff = b].status = task[t].status
        /\ [task[t] EXCEPT !.backoff = b].attempt = task[t].attempt
        /\ [task[t] EXCEPT !.backoff = b].begun = task[t].begun
        /\ [task[t] EXCEPT !.backoff = b].owner = task[t].owner
        /\ [task[t] EXCEPT !.dirty = b].status = task[t].status
        /\ [task[t] EXCEPT !.dirty = b].attempt = task[t].attempt
        /\ [task[t] EXCEPT !.dirty = b].begun = task[t].begun
        /\ [task[t] EXCEPT !.dirty = b].owner = task[t].owner
  BY <1>1 DEF TaskRecords
<1>3. QED
  BY <1>2, KeptSame

-----------------------------------------------------------------------------
(* Each action *)

LEMMA KeptClients ==
  ASSUME Typed, NEW t \in Tasks, Submit(t) \/ RequestCancel(t)
  PROVE  AllKept
<1>1. Types
  BY DEF Typed
<1>2. CASE Submit(t)
  BY <1>1, <1>2, KeptOne, KeptMoved DEF Submit, TaskStatus
<1>3. CASE RequestCancel(t)
  BY <1>1, <1>3, KeptSave, KeptFields, KeptMoved DEF RequestCancel, Absent, TaskStatus, TERMINAL
<1>4. QED
  BY <1>2, <1>3

\* A new attempt is of a queued task.
LEMMA KeptClaim ==
  ASSUME Typed, NEW w \in Runs, Claim(w)
  PROVE  AllKept
<1> DEFINE t == run[w].job
           record == [Moved(t, "running") EXCEPT
                        !.attempt = task[t].attempt + 1, !.owner = w,
                        !.epoch = fence.epoch, !.expired = FALSE, !.begun = FALSE]
<1>1. t \in Tasks /\ Types
  BY DEF Claim, Typed, JobKnown
<1>2. CASE MayClaim(w) /\ Save(w, t, record)
  <2>1. /\ record.attempt = task[t].attempt + 1 /\ record.begun = FALSE
        /\ record.status = "running"
    <3>1. Moved(t, "running") \in TaskRecords /\ Moved(t, "running").status = "running"
      BY <1>1, MovedType DEF Moved, TaskStatus, TaskRecords
    <3>2. QED
      BY <3>1 DEF TaskRecords
  <2>2. task[t].status = "queued" /\ task[t].attempt \in Nat
    BY <1>1, <1>2, MayMoveFrom DEF MayClaim, Types, TaskRecords
  <2> HIDE DEF record
  <2>3. Kept(t, record)
    BY <2>1, <2>2 DEF Kept
  <2>4. QED
    BY <1>1, <1>2, <2>3, KeptSave
<1>3. CASE UNCHANGED task
  BY <1>1, <1>3, KeptUnchanged
<1>4. QED
  BY <1>2, <1>3 DEF Claim

\* An attempt that begins has its worktree on record.
LEMMA KeptRecordAttemptStart ==
  ASSUME Typed, Noted, NEW w \in Runs, RecordAttemptStart(w)
  PROVE  AllKept
<1> DEFINE t == run[w].job
           record == [task[t] EXCEPT !.begun = TRUE, !.dirty = FALSE]
<1>1. t \in Tasks /\ Types
  BY DEF RecordAttemptStart, Typed, JobKnown
<1>2. Marked(t)
  BY DEF RecordAttemptStart, Noted, Begun, Attempting
<1>3. /\ record.attempt = task[t].attempt /\ record.status = task[t].status
      /\ record.owner = task[t].owner /\ task[t].attempt \in Nat
  BY <1>1, MovedType DEF TaskRecords
<1>4. UNCHANGED task \/ Save(w, t, record)
  BY DEF RecordAttemptStart
<1> HIDE DEF record
<1>5. Kept(t, record)
  BY <1>2, <1>3 DEF Kept
<1>6. QED
  BY <1>1, <1>4, <1>5, KeptSave, KeptUnchanged

LEMMA KeptRunWrites ==
  ASSUME Typed, NEW w \in Runs, Prepare(w) \/ Pulse(w) \/ Edit(w)
  PROVE  AllKept
<1>1. run[w].job \in Tasks /\ Types
  BY PulseKeeps DEF Prepare, Edit, Typed, JobKnown
<1>2. CASE UNCHANGED task
  BY <1>1, <1>2, KeptUnchanged
<1>3. CASE Prepare(w)
  BY <1>1, <1>2, <1>3, KeptSave, KeptFields DEF Prepare
<1>4. CASE Pulse(w)
  <2>1. CASE Save(w, run[w].job, [task[run[w].job] EXCEPT !.expired = FALSE])
    BY <1>1, <2>1, KeptSave, KeptFields
  <2>2. QED
    BY <1>2, <1>4, <2>1, PulseKeeps
<1>5. CASE Edit(w)
  <2>1. task' = [task EXCEPT ![run[w].job] = [task[run[w].job] EXCEPT !.dirty = TRUE]]
    BY <1>1, <1>5, MovedType DEF Edit, Types, TaskRecords
  <2>2. QED
    BY <1>1, <2>1, KeptOne, KeptFields
<1>6. QED
  BY <1>3, <1>4, <1>5

LEMMA KeptEndAttempt ==
  ASSUME Typed, NEW w \in Runs, NEW from, from \notin {"idle", "sweeping", "gone"}, NEW guard,
         NEW to \in {"completed", "blocked", "cancelled"}, EndAttempt(w, from, guard, to),
         to = "completed" => from = "completing"
  PROVE  AllKept
<1> DEFINE t == run[w].job
<1>1. run[w].job \in Tasks /\ Types
  BY DEF EndAttempt, Typed, JobKnown
<1>2. to \in TaskStatus /\ to \notin {Absent, "queued"}
  BY DEF TaskStatus, TERMINAL, Absent
<1>3. CASE UNCHANGED task
  BY <1>1, <1>3, KeptUnchanged
<1>4. CASE Save(w, t, Moved(t, to)) /\ Goto(w, "finishing")
  <2>1. to = "completed" => CompletedNow(t)
    BY <1>4 DEF EndAttempt, CompletedNow, Goto, Typed, Types, Actors, Attempting
  <2>2. QED
    BY <1>1, <1>2, <1>4, <2>1, KeptSave, KeptMoved
<1>5. QED
  BY <1>3, <1>4 DEF EndAttempt

\* A retry is of an attempt that failed after its snapshot was taken.
LEMMA KeptHandleFailure ==
  ASSUME Typed, Noted, NEW w \in Runs, HandleFailure(w)
  PROVE  AllKept
<1> DEFINE t == run[w].job
<1>1. t \in Tasks /\ Types
  BY DEF HandleFailure, Typed, JobKnown
<1>2. CASE UNCHANGED task
  BY <1>1, <1>2, KeptUnchanged
<1>3. CASE Save(w, t, Moved(t, "cancelled")) \/ Save(w, t, Moved(t, "failed"))
  BY <1>1, <1>3, KeptSave, KeptMoved DEF Absent, TaskStatus, TERMINAL
<1>4. ASSUME NEW later \in BOOLEAN, run[w].cause = "late",
             Save(w, t, [Moved(t, "queued") EXCEPT !.backoff = later])
      PROVE  AllKept
  <2>1. Marked(t)
    BY <1>4 DEF Noted
  <2>2. QED
    BY <1>1, <1>4, <2>1, KeptSave, KeptMoved DEF TaskStatus
<1>5. QED
  BY <1>2, <1>3, <1>4 DEF HandleFailure

LEMMA KeptBlockLoaded ==
  ASSUME Typed, NEW w \in Runs, BlockDependency(w) \/ BlockOwnership(w)
  PROVE  AllKept
<1>1. run[w].job \in Tasks /\ Types
  BY DEF BlockDependency, BlockOwnership, BlockLoaded, Typed, JobKnown
<1>2. QED
  BY <1>1, KeptUnchanged, KeptSave, KeptMoved
  DEF BlockDependency, BlockOwnership, BlockLoaded, Absent, TaskStatus

\* A recovery queues a task only if its attempt has begun.
LEMMA KeptScanTask ==
  ASSUME Typed, Noted, NEW r \in Recoveries, NEW t \in Tasks, ScanTask(r, t)
  PROVE  AllKept
<1>1. Types
  BY DEF Typed
<1>2. CASE UNCHANGED task
  BY <1>1, <1>2, KeptUnchanged
<1>3. CASE Save(NoRun, t, Moved(t, "blocked"))
  BY <1>1, <1>3, KeptSave, KeptMoved DEF Absent, TaskStatus
<1>4. CASE task[t].begun /\ Save(NoRun, t, [Moved(t, "queued") EXCEPT !.backoff = FALSE])
  BY <1>1, <1>4, KeptSave, KeptMoved DEF Noted, TaskStatus
<1>5. QED
  BY <1>2, <1>3, <1>4 DEF ScanTask, RecoverOrphan

LEMMA KeptBlockOthers ==
  ASSUME Typed,
         \/ \E r \in Recoveries : BlockAmbiguous(r)
         \/ \E a \in Actors, t \in Tasks : BlockDependent(a, t)
  PROVE  AllKept
<1>1. Types
  BY DEF Typed
<1>2. CASE \E r \in Recoveries : BlockAmbiguous(r)
  <2>1. PICK r \in Recoveries : BlockAmbiguous(r)
    BY <1>2
  <2>2. sweep[r].held \in Tasks
    BY <2>1 DEF BlockAmbiguous, Typed, HeldKnown
  <2>3. QED
    BY <1>1, <2>1, <2>2, KeptUnchanged, KeptSave, KeptMoved DEF BlockAmbiguous, Absent, TaskStatus
<1>3. CASE \E a \in Actors, t \in Tasks : BlockDependent(a, t)
  BY <1>1, <1>3, KeptSave, KeptMoved DEF BlockDependent, Absent, TaskStatus
<1>4. QED
  BY <1>2, <1>3

LEMMA KeptClock ==
  ASSUME Typed, NEW t \in Tasks, LeaseExpires(t) \/ BackoffEnds(t)
  PROVE  AllKept
<1>1. Types /\ task[t] \in TaskRecords
  BY MovedType DEF Typed
<1>2. \/ task' = [task EXCEPT ![t] = [task[t] EXCEPT !.expired = TRUE]]
      \/ task' = [task EXCEPT ![t] = [task[t] EXCEPT !.backoff = FALSE]]
  BY <1>1 DEF LeaseExpires, BackoffEnds, Types, TaskRecords
<1>3. QED
  BY <1>1, <1>2, KeptOne, KeptFields

LEMMA KeptStep == Typed /\ Noted /\ [Next]_vars => AllKept
<1> SUFFICES ASSUME Typed, Noted, [Next]_vars PROVE AllKept
  OBVIOUS
<1>1. CASE UNCHANGED task
  BY <1>1, KeptUnchanged DEF Typed
<1>2. CASE \E t \in Tasks : Submit(t) \/ RequestCancel(t) \/ WorkerLeaves(t)
  BY <1>1, <1>2, KeptClients DEF WorkerLeaves
<1>3. ASSUME NEW w \in Runs,
             \/ \E t \in Tasks : Begin(w, t)
             \/ RunStep(w) \/ Edit(w) \/ Pulse(w) \/ Crash(w) \/ Recycle(w)
      PROVE  AllKept
  <2>1. CASE Complete(w) \/ BlockWithOutcome(w) \/ CancelRunning(w)
    BY <2>1, KeptEndAttempt DEF Complete, BlockWithOutcome, CancelRunning
  <2>2. CASE \/ \E t \in Tasks : Begin(w, t)
             \/ LoadAgain(w) \/ AcquireSlot(w) \/ ExecutorThrows(w) \/ ExecutorReturns(w)
             \/ CatchLoad(w) \/ RefuseWorkspace(w) \/ ReleaseSlot(w) \/ Crash(w) \/ Recycle(w)
    BY <1>1, <2>2 DEF LoadAgain, AcquireSlot, ExecutorThrows, ExecutorReturns, CatchLoad,
                      RefuseWorkspace, ReleaseSlot, Crash, Recycle, Begin
  <2>3. QED
    BY <1>3, <2>1, <2>2, KeptClaim, KeptRecordAttemptStart, KeptRunWrites,
       KeptHandleFailure, KeptBlockLoaded
    DEF RunStep
<1>4. CASE \E r \in Recoveries : RecoverBegin(r) \/ RecoveryStep(r) \/ RecoverAbandon(r)
  <2>1. PICK r \in Recoveries : RecoverBegin(r) \/ RecoveryStep(r) \/ RecoverAbandon(r)
    BY <1>4
  <2>2. CASE BlockAmbiguous(r) \/ \E t \in Tasks : ScanTask(r, t)
    BY <2>2, KeptScanTask, KeptBlockOthers
  <2>3. CASE \/ RecoverBegin(r) \/ ReleaseHeld(r) \/ CheckIdle(r) \/ BeginEnter(r)
             \/ ActivateFence(r) \/ Recheck(r) \/ AbortEnter(r) \/ Migrate(r)
             \/ ExitMaintenance(r) \/ RecoverAbandon(r)
             \/ \E t \in Tasks : ScanAmbiguous(r, t)
    BY <1>1, <2>3 DEF RecoverBegin, ReleaseHeld, CheckIdle, BeginEnter, ActivateFence, Recheck,
         AbortEnter, Migrate, ExitMaintenance, RecoverAbandon, ScanAmbiguous
  <2>4. QED
    BY <2>1, <2>2, <2>3 DEF RecoveryStep
<1>5. CASE \E a \in Actors : SweepStep(a)
  BY <1>1, <1>5, KeptBlockOthers DEF SweepStep, LaunchReady
<1>6. CASE Clock
  BY <1>1, <1>6, KeptClock DEF Clock, SlotExpires
<1>7. QED
  BY <1>1, <1>2, <1>3, <1>4, <1>5, <1>6 DEF Next, vars
-----------------------------------------------------------------------------
(* What a step makes of the runs *)

\* A run that has prepared was at it before, or prepares now.
RunsKept ==
  \A v \in Runs :
    /\ pc'[v] \in Begun \/ run'[v].cause = "late" =>
         /\ run'[v].job = run[v].job
         /\ pc[v] \in Begun \/ run[v].cause = "late" \/ Prepare(v)
    /\ pc'[v] \in Attempting =>
         /\ run'[v].job = run[v].job
         /\ pc[v] \in Attempting \/ Claim(v)
    /\ pc'[v] \in {"claimed", "prepared", "executing"} =>
         pc[v] \in {"claimed", "prepared", "executing"} \/ Claim(v)

\* A process other than v is at work.
LEMMA RunsKeptOthers ==
  ASSUME NEW w, \A v \in Runs \ {w} : pc'[v] = pc[v] /\ run'[v] = run[v],
         w \in Runs =>
           /\ pc'[w] \in Begun \/ run'[w].cause = "late" =>
                /\ run'[w].job = run[w].job
                /\ pc[w] \in Begun \/ run[w].cause = "late" \/ Prepare(w)
           /\ pc'[w] \in Attempting =>
                /\ run'[w].job = run[w].job
                /\ pc[w] \in Attempting \/ Claim(w)
           /\ pc'[w] \in {"claimed", "prepared", "executing"} =>
                pc[w] \in {"claimed", "prepared", "executing"} \/ Claim(w)
  PROVE  RunsKept
BY DEF RunsKept, Begun

LEMMA RunsKeptSame == UNCHANGED <<pc, run>> => RunsKept
BY DEF RunsKept, Begun

LEMMA RunsKeptRun ==
  ASSUME Typed, NEW w \in Runs,
         \/ \E t \in Tasks : Begin(w, t)
         \/ RunStep(w) \/ Edit(w) \/ Pulse(w) \/ Crash(w) \/ Recycle(w)
  PROVE  RunsKept
<1> USE DEF Goto, Typed, Types, Actors, Begun, Attempting
<1>1. CASE \E t \in Tasks : Begin(w, t)
  BY <1>1, RunsKeptOthers DEF Begin, NewRun
<1>2. CASE LoadAgain(w) \/ AcquireSlot(w)
  BY <1>2, RunsKeptOthers DEF LoadAgain, AcquireSlot, ReturnAtOnce, NewRun
<1>3. CASE Claim(w)
  <2>1. /\ \A v \in Runs \ {w} : pc'[v] = pc[v] /\ run'[v] = run[v]
        /\ run'[w].job = run[w].job
        /\ run'[w].cause = "late" => run[w].cause = "late"
    BY <1>3 DEF Claim, Throw, RunRecords
  <2>2. pc'[w] \in {"claimed", "failing"}
    BY <1>3 DEF Claim, Throw
  <2>3. QED
    BY <1>3, <2>1, <2>2, RunsKeptOthers
<1>4. CASE Prepare(w)
  <2>1. /\ \A v \in Runs \ {w} : pc'[v] = pc[v] /\ run'[v] = run[v]
        /\ run'[w].job = run[w].job
        /\ run'[w].cause = "late" => run[w].cause = "late"
    BY <1>4 DEF Prepare, Throw, RunRecords
  <2>2. pc[w] = "claimed" /\ pc'[w] \in {"prepared", "failing"}
    BY <1>4 DEF Prepare, Throw
  <2>3. QED
    BY <1>4, <2>1, <2>2, RunsKeptOthers
<1>5. CASE RecordAttemptStart(w)
  BY <1>5, RunsKeptOthers DEF RecordAttemptStart, Throw, RunRecords
<1>6. CASE ExecutorReturns(w) \/ ExecutorThrows(w)
  BY <1>6, RunsKeptOthers DEF ExecutorReturns, ExecutorThrows, Throw, RunRecords
<1>7. CASE Complete(w) \/ BlockWithOutcome(w) \/ CancelRunning(w)
  BY <1>7, RunsKeptOthers
  DEF Complete, BlockWithOutcome, CancelRunning, EndAttempt, Throw, RunRecords
<1>8. CASE CatchLoad(w) \/ HandleFailure(w)
  <2>1. CASE CatchLoad(w)
    <3>1. /\ [run[w] EXCEPT !.aborted = FALSE].job = run[w].job
          /\ [run[w] EXCEPT !.aborted = FALSE].cause = run[w].cause
      BY DEF RunRecords
    <3>2. run'[w].job = run[w].job /\ run'[w].cause = run[w].cause
      BY <2>1, <3>1 DEF CatchLoad
    <3>3. pc'[w] \in {"blockingDependency", "handling", "finishing"}
      BY <2>1 DEF CatchLoad
    <3>4. \A v \in Runs \ {w} : pc'[v] = pc[v] /\ run'[v] = run[v]
      BY <2>1 DEF CatchLoad
    <3>5. QED
      BY <3>2, <3>3, <3>4, RunsKeptOthers
  <2>2. CASE HandleFailure(w)
    BY <2>2, RunsKeptOthers DEF HandleFailure
  <2>3. QED
    BY <1>8, <2>1, <2>2
<1>9. CASE BlockDependency(w) \/ BlockOwnership(w) \/ RefuseWorkspace(w)
  BY <1>9, RunsKeptOthers DEF BlockDependency, BlockOwnership, BlockLoaded, RefuseWorkspace
<1>10. CASE Edit(w)
  BY <1>10, RunsKeptSame DEF Edit
<1>11. CASE Pulse(w)
  <2>1. PICK local \in {[run[w] EXCEPT !.pulse = "none"], [run[w] EXCEPT !.pulse = "loaded"],
                        [run[w] EXCEPT !.pulse = "renewed"], [run[w] EXCEPT !.aborted = TRUE],
                        [run[w] EXCEPT !.pulse = "none", !.aborted = TRUE]} :
          run' = [run EXCEPT ![w] = local]
    BY <1>11 DEF Pulse, PulseLoad, PulseGoesOn, PulseBeat, PulseSlot, AbortPulse
  <2>2. run[w] \in RunRecords
    OBVIOUS
  <2>3. local.job = run[w].job /\ local.cause = run[w].cause
    BY <2>1, <2>2 DEF RunRecords
  <2>4. UNCHANGED pc
    BY <1>11, PulseKeeps
  <2>5. QED
    BY <2>1, <2>3, <2>4, RunsKeptOthers
<1>12. CASE ReleaseSlot(w) \/ Crash(w) \/ Recycle(w)
  BY <1>12, RunsKeptOthers DEF ReleaseSlot, Crash, Recycle, NewRun
<1>13. QED
  BY <1>1, <1>2, <1>3, <1>4, <1>5, <1>6, <1>7, <1>8, <1>9, <1>10, <1>11, <1>12 DEF RunStep

LEMMA RunsKeptStep == Typed /\ [Next]_vars => RunsKept
<1> SUFFICES ASSUME Typed, [Next]_vars PROVE RunsKept
  OBVIOUS
<1>1. CASE UNCHANGED vars \/ \E t \in Tasks : Submit(t) \/ RequestCancel(t) \/ WorkerLeaves(t)
  BY <1>1, RunsKeptSame DEF vars, Submit, RequestCancel, WorkerLeaves
<1>2. ASSUME NEW r \in Recoveries, RecoverBegin(r) \/ RecoveryStep(r) \/ RecoverAbandon(r)
      PROVE  RunsKept
  <2>1. UNCHANGED run /\ \A v \in Runs : pc'[v] = pc[v]
    BY <1>2, ActorsAssumption
    DEF RecoverBegin, RecoveryStep, ScanTask, ScanAmbiguous, BlockAmbiguous, ReleaseHeld,
        CheckIdle, BeginEnter, ActivateFence, Recheck, AbortEnter, Migrate,
        ExitMaintenance, RecoverAbandon, Goto, Leave, Typed, Types, Actors
  <2>2. QED
    BY <2>1 DEF RunsKept, Begun
<1>3. ASSUME NEW a \in Actors, SweepStep(a)
      PROVE  RunsKept
  <2>1. CASE LaunchReady(a)
    BY <2>1, RunsKeptOthers, ActorsAssumption
    DEF LaunchReady, Goto, Typed, Types, Actors, Begun, Attempting, NewRun
  <2>2. CASE \E t \in Tasks : BlockDependent(a, t)
    BY <2>2, RunsKeptSame DEF BlockDependent
  <2>3. QED
    BY <1>3, <2>1, <2>2 DEF SweepStep
<1>4. CASE Clock
  BY <1>4, RunsKeptSame DEF Clock, LeaseExpires, SlotExpires, BackoffEnds
<1>5. QED
  BY <1>1, <1>2, <1>3, <1>4, RunsKeptRun DEF Next

-----------------------------------------------------------------------------
(* What a step makes of the files *)

FilesTyped ==
  /\ tree \in [Tasks -> [madeBy : Nat, recorded : BOOLEAN]]
  /\ result \in [Tasks -> [attempt : Nat, by : Runs \cup {NoRun}]]

\* A run that has not returned its outcome is in an attempt without a result.
Answered ==
  /\ \A t \in Tasks : result[t].attempt <= task[t].attempt
  /\ \A w \in Runs : pc[w] \in {"claimed", "prepared", "executing"} =>
       result[run[w].job].attempt < task[run[w].job].attempt

\* The runs that wait to record an outcome.
Ending == {"completing", "blocking"}

\* A worktree is made by a run of the attempt, and recorded for good; a result is
\* of the attempt of the run that stores it, and stored as its outcome is returned.
FilesKept ==
  /\ \A t \in Tasks :
       /\ tree[t].recorded => tree'[t].recorded
       /\ \/ tree'[t].madeBy = tree[t].madeBy
          \/ /\ t \in Managed /\ tree'[t].madeBy = task[t].attempt
             /\ \E w \in Runs : pc[w] = "claimed" /\ run[w].job = t /\ UNCHANGED task
       /\ \/ result'[t] = result[t]
          \/ /\ result'[t].attempt = task[t].attempt
             /\ \E w \in Runs :
                  /\ pc[w] = "executing" /\ run[w].job = t
                  /\ pc'[w] \notin {"claimed", "prepared", "executing"}
                  /\ UNCHANGED task
  /\ \A w \in Runs :
       /\ pc[w] = "claimed" /\ pc'[w] = "prepared" => Marked(run[w].job)'
       /\ pc'[w] \in Ending =>
            \/ pc[w] \in Ending
            \/ /\ result'[run[w].job] = [attempt |-> task[run[w].job].attempt, by |-> w]
               /\ UNCHANGED task
  /\ FilesTyped'

\* No run gets its worktree, and none returns its outcome.
Aside ==
  \A v \in Runs :
    /\ ~(pc[v] = "claimed" /\ pc'[v] = "prepared")
    /\ pc'[v] \in Ending => pc[v] \in Ending

LEMMA FilesKeptInit == FilesInit => FilesTyped
BY DEF FilesInit, FilesTyped

LEMMA FilesKeptSame ==
  ASSUME FilesTyped, UNCHANGED files, Aside
  PROVE  FilesKept
BY DEF FilesTyped, FilesKept, files, Aside

LEMMA KeptMakeWorktree ==
  ASSUME Typed, FilesTyped, NEW w \in Runs, MakeWorktree(w)
  PROVE  FilesKept
<1> DEFINE t == run[w].job
           made == [tree[t] EXCEPT !.madeBy = task[t].attempt]
<1>1. t \in Tasks /\ task[t].attempt \in Nat /\ tree[t] \in [madeBy : Nat, recorded : BOOLEAN]
  BY DEF MakeWorktree, Managed, Typed, Types, TaskRecords, FilesTyped
<1>2. /\ made \in [madeBy : Nat, recorded : BOOLEAN]
      /\ made.madeBy = task[t].attempt /\ made.recorded = tree[t].recorded
  BY <1>1
<1>3. /\ tree' = [tree EXCEPT ![t] = made] /\ UNCHANGED <<vars, result>>
      /\ pc[w] = "claimed" /\ t \in Managed
  BY <1>1 DEF MakeWorktree, FilesTyped
<1> HIDE DEF made
<1>4. FilesTyped' /\ tree'[t] = made /\ \A s \in Tasks \ {t} : tree'[s] = tree[s]
  BY <1>1, <1>2, <1>3 DEF FilesTyped
<1>5. Aside
  BY <1>3 DEF vars, Aside
<1>6. UNCHANGED task
  BY <1>3 DEF vars
<1>7. QED
  BY <1>2, <1>3, <1>4, <1>5, <1>6 DEF FilesKept, Aside

\* Two steps of runs that change pc are steps of one run.
LEMMA OnePrepares ==
  ASSUME Typed, NEW w \in Runs, NEW v \in Runs \ {w}, \E label : Goto(w, label)
  PROVE  /\ ~(pc[v] = "claimed" /\ pc'[v] = "prepared")
         /\ pc'[v] \in Ending => pc[v] \in Ending
BY DEF Goto, Typed, Types, Actors

LEMMA KeptPrepareIn ==
  ASSUME Typed, FilesTyped, NEW w \in Runs, PrepareIn(w)
  PROVE  FilesKept
<1> DEFINE t == run[w].job
           named == [tree[t] EXCEPT !.recorded = TRUE]
<1>1. t \in Tasks /\ tree[t] \in [madeBy : Nat, recorded : BOOLEAN]
  BY DEF PrepareIn, Prepare, Typed, JobKnown, FilesTyped
<1>2. /\ named \in [madeBy : Nat, recorded : BOOLEAN]
      /\ named.madeBy = tree[t].madeBy /\ named.recorded
  BY <1>1
<1>3. /\ UNCHANGED result
      /\ \/ tree' = [tree EXCEPT ![t] = named]
         \/ UNCHANGED tree /\ ~(pc'[w] = "prepared" /\ t \in Managed)
  BY <1>1 DEF PrepareIn, FilesTyped
<1> HIDE DEF named
<1>4. /\ FilesTyped' /\ \A s \in Tasks \ {t} : tree'[s] = tree[s]
      /\ tree'[t] = named \/ (tree'[t] = tree[t] /\ ~(pc'[w] = "prepared" /\ t \in Managed))
  BY <1>1, <1>2, <1>3 DEF FilesTyped
<1>5. /\ \A v \in Runs \ {w} : /\ ~(pc[v] = "claimed" /\ pc'[v] = "prepared")
                               /\ pc'[v] \in Ending => pc[v] \in Ending
      /\ pc'[w] \notin Ending
  <2>1. pc'[w] \notin Ending
    BY DEF PrepareIn, Prepare, Throw, Goto, Ending, Typed, Types, Actors
  <2>2. QED
    BY <2>1, OnePrepares DEF PrepareIn, Prepare, Throw
<1>6. UNCHANGED run \/ pc'[w] # "prepared"
  BY DEF PrepareIn, Prepare, Throw, Goto, Typed, Types, Actors
<1>7. pc'[w] = "prepared" => Marked(run[w].job)'
  BY <1>2, <1>4, <1>6 DEF Marked, Managed
<1>8. ASSUME NEW v \in Runs
      PROVE  /\ pc[v] = "claimed" /\ pc'[v] = "prepared" => Marked(run[v].job)'
             /\ pc'[v] \in Ending => pc[v] \in Ending
  <2>1. CASE v = w
    BY <1>5, <1>7, <2>1, Zenon
  <2>2. CASE v # w
    BY <1>5, <2>2
  <2>3. QED
    BY <2>1, <2>2
<1>9. QED
  BY <1>1, <1>2, <1>3, <1>4, <1>8 DEF FilesKept

LEMMA KeptPersistOutcome ==
  ASSUME Typed, FilesTyped, Answered, NEW w \in Runs, PersistOutcome(w)
  PROVE  FilesKept
<1> DEFINE t == run[w].job
           stored == [attempt |-> task[t].attempt, by |-> w]
<1>1. t \in Tasks /\ task[t].attempt \in Nat /\ pc[w] = "executing"
  BY DEF PersistOutcome, ExecutorReturns, Typed, Types, TaskRecords, JobKnown
<1>2. UNCHANGED tree /\ (UNCHANGED result \/ result' = [result EXCEPT ![t] = stored])
  BY DEF PersistOutcome, Persist
<1>3. /\ FilesTyped' /\ \A s \in Tasks \ {t} : result'[s] = result[s]
      /\ result'[t] = result[t] \/ result'[t].attempt = task[t].attempt
  <2>1. stored \in [attempt : Nat, by : Runs \cup {NoRun}] /\ stored.attempt = task[t].attempt
    BY <1>1
  <2> HIDE DEF stored
  <2>2. CASE UNCHANGED result
    BY <1>2, <2>2 DEF FilesTyped
  <2>3. CASE result' = [result EXCEPT ![t] = stored]
    <3>1. result'[t] = stored /\ \A s \in Tasks \ {t} : result'[s] = result[s]
      BY <1>1, <2>3 DEF FilesTyped
    <3>2. FilesTyped'
      BY <1>1, <1>2, <2>1, <2>3 DEF FilesTyped
    <3>3. QED
      BY <2>1, <3>1, <3>2
  <2>4. QED
    BY <1>2, <2>2, <2>3
<1>4. UNCHANGED task /\ pc'[w] \notin {"claimed", "prepared", "executing"}
  BY DEF PersistOutcome, ExecutorReturns, Throw, Goto, Typed, Types, Actors
<1>5. \A v \in Runs \ {w} : /\ ~(pc[v] = "claimed" /\ pc'[v] = "prepared")
                            /\ pc'[v] \in Ending => pc[v] \in Ending
  BY OnePrepares DEF PersistOutcome, ExecutorReturns, Throw
<1>6. pc'[w] \in Ending => result'[t] = stored
  <2>1. result[t].attempt # task[t].attempt
    BY <1>1 DEF Answered, FilesTyped
  <2>2. QED
    BY <1>1, <2>1 DEF PersistOutcome, Persist, Ending, FilesTyped
<1> HIDE DEF t
<1>7. ASSUME NEW v \in Runs
      PROVE  /\ pc[v] = "claimed" /\ pc'[v] = "prepared" => Marked(run[v].job)'
             /\ pc'[v] \in Ending =>
                  \/ pc[v] \in Ending
                  \/ /\ result'[run[v].job] = [attempt |-> task[run[v].job].attempt, by |-> v]
                     /\ UNCHANGED task
  <2>1. CASE v = w
    BY <1>1, <1>4, <1>6, <2>1 DEF t
  <2>2. CASE v # w
    BY <1>5, <2>2
  <2>3. QED
    BY <2>1, <2>2
<1>8. \A s \in Tasks :
        \/ result'[s] = result[s]
        \/ /\ result'[s].attempt = task[s].attempt
           /\ \E v \in Runs :
                /\ pc[v] = "executing" /\ run[v].job = s
                /\ pc'[v] \notin {"claimed", "prepared", "executing"}
                /\ UNCHANGED task
  BY <1>1, <1>3, <1>4 DEF t
<1>9. QED
  BY <1>2, <1>3, <1>7, <1>8 DEF FilesKept

\* A process that is at another point of its code.
LEMMA AsideWhenElsewhere ==
  ASSUME Typed, NEW a \in Actors, NEW label, Goto(a, label),
         label # "prepared" \/ pc[a] # "claimed", label \notin Ending
  PROVE  Aside
BY DEF Goto, Typed, Types, Actors, Aside

LEMMA AsideUnmoved == UNCHANGED pc => Aside
BY DEF Aside

LEMMA KeptEndVerified ==
  ASSUME Typed, FilesTyped, NEW w \in Runs, EndVerified(w)
  PROVE  FilesKept
<1>1. \E label \in {"finishing", "failing"} : Goto(w, label)
  BY DEF EndVerified, Complete, BlockWithOutcome, EndAttempt, Throw
<1>2. QED
  BY <1>1, AsideWhenElsewhere, FilesKeptSame DEF EndVerified, Actors, Ending

LEMMA KeptOtherRun ==
  ASSUME Typed, FilesTyped, UNCHANGED files, NEW w \in Runs,
         \/ \E t \in Tasks : Begin(w, t)
         \/ LoadAgain(w) \/ AcquireSlot(w) \/ Claim(w) \/ RecordAttemptStart(w)
         \/ ExecutorThrows(w) \/ CancelRunning(w)
         \/ CatchLoad(w) \/ HandleFailure(w) \/ BlockDependency(w)
         \/ RefuseWorkspace(w) \/ BlockOwnership(w) \/ ReleaseSlot(w)
         \/ Edit(w) \/ Pulse(w) \/ Crash(w) \/ Recycle(w)
  PROVE  FilesKept
<1>1. CASE Edit(w) \/ Pulse(w)
  BY <1>1, PulseKeeps, AsideUnmoved, FilesKeptSame DEF Edit
<1>2. CASE Crash(w)
  BY <1>2, AsideWhenElsewhere, FilesKeptSame DEF Crash, Actors, Ending
<1>3. CASE (\E t \in Tasks : Begin(w, t)) \/ LoadAgain(w) \/ AcquireSlot(w) \/ Recycle(w)
  BY <1>3, AsideWhenElsewhere, FilesKeptSame
  DEF Begin, LoadAgain, AcquireSlot, ReturnAtOnce, Recycle, Actors, Ending
<1>4. CASE Claim(w) \/ RecordAttemptStart(w) \/ ExecutorThrows(w) \/ CancelRunning(w)
  BY <1>4, AsideWhenElsewhere, FilesKeptSame
  DEF Claim, RecordAttemptStart, ExecutorThrows, CancelRunning, EndAttempt, Throw, Actors, Ending
<1>5. CASE CatchLoad(w) \/ HandleFailure(w) \/ BlockDependency(w) \/ RefuseWorkspace(w)
           \/ BlockOwnership(w) \/ ReleaseSlot(w)
  BY <1>5, AsideWhenElsewhere, FilesKeptSame
  DEF CatchLoad, HandleFailure, BlockDependency, RefuseWorkspace, BlockOwnership,
      BlockLoaded, ReleaseSlot, Actors, Ending
<1>6. QED
  BY <1>1, <1>2, <1>3, <1>4, <1>5

LEMMA KeptRecovery ==
  ASSUME Typed, FilesTyped, UNCHANGED files, NEW r \in Recoveries,
         RecoverBegin(r) \/ RecoveryStep(r) \/ RecoverAbandon(r)
  PROVE  FilesKept
<1>1. \A v \in Runs : pc'[v] = pc[v]
  BY ActorsAssumption
  DEF RecoverBegin, RecoveryStep, ScanTask, ScanAmbiguous, BlockAmbiguous, ReleaseHeld,
      CheckIdle, BeginEnter, ActivateFence, Recheck, AbortEnter, Migrate,
      ExitMaintenance, RecoverAbandon, Goto, Leave, Typed, Types, Actors
<1>2. QED
  BY <1>1, FilesKeptSame DEF Aside

LEMMA FilesKeptStep == Typed /\ FilesTyped /\ Answered /\ [FilesNext]_filesVars => FilesKept
<1> SUFFICES ASSUME Typed, FilesTyped, Answered, [FilesNext]_filesVars PROVE FilesKept
  OBVIOUS
<1>1. CASE UNCHANGED filesVars
  BY <1>1, FilesKeptSame, AsideUnmoved DEF filesVars, vars
<1>2. ASSUME NEW w \in Runs,
             MakeWorktree(w) \/ PrepareIn(w) \/ PersistOutcome(w) \/ EndVerified(w)
      PROVE  FilesKept
  BY <1>2, KeptMakeWorktree, KeptPrepareIn, KeptPersistOutcome, KeptEndVerified
<1>3. CASE UNCHANGED files /\ \E t \in Tasks : Submit(t) \/ RequestCancel(t) \/ WorkerLeaves(t)
  BY <1>3, FilesKeptSame, AsideUnmoved DEF Submit, RequestCancel, WorkerLeaves
<1>4. ASSUME UNCHANGED files, NEW a \in Actors, SweepStep(a)
      PROVE  FilesKept
  <2>1. CASE LaunchReady(a)
    BY <1>4, <2>1, AsideWhenElsewhere, FilesKeptSame DEF LaunchReady, Ending
  <2>2. CASE \E t \in Tasks : BlockDependent(a, t)
    BY <1>4, <2>2, AsideUnmoved, FilesKeptSame DEF BlockDependent
  <2>3. QED
    BY <1>4, <2>1, <2>2 DEF SweepStep
<1>5. CASE UNCHANGED files /\ Clock
  BY <1>5, FilesKeptSame, AsideUnmoved DEF Clock, LeaseExpires, SlotExpires, BackoffEnds
<1>6. QED
  BY <1>1, <1>2, <1>3, <1>4, <1>5, KeptOtherRun, KeptRecovery DEF FilesNext

-----------------------------------------------------------------------------
(* The invariant *)

\* A worktree that is not recorded was made in the attempt its task is in.
Strays ==
  \A t \in Tasks :
    \/ tree[t].recorded
    \/ tree[t].madeBy = 0
    \/ /\ t \in Managed /\ tree[t].madeBy = task[t].attempt
       /\ task[t].status \notin {Absent, "queued"}

\* The attempt of a completed task is over.
Over == \A w \in Runs : pc[w] \in Attempting => task[run[w].job].status # "completed"

FilesInv ==
  /\ Typed /\ OwnsAttempt /\ FilesTyped /\ Noted /\ Strays /\ Answered
  /\ Over /\ OutcomeStored

LEMMA FilesInvInit == FilesInit => FilesInv
<1> SUFFICES ASSUME FilesInit PROVE FilesInv
  OBVIOUS
<1>1. Init /\ Typed /\ OwnsAttempt /\ FilesTyped
  BY InitTyped, OwnsInit, FilesKeptInit DEF FilesInit
<1>2. Noted
  BY <1>1 DEF Init, Noted, NewTask, NewRun, Begun, Attempting, Actors
<1>3. Strays
  BY DEF FilesInit, Strays
<1>4. Answered
  BY <1>1 DEF FilesInit, Init, Answered, NewTask, Actors
<1>5. Over /\ OutcomeStored
  BY <1>1 DEF Init, Over, OutcomeStored, NewTask, Absent, Attempting, Actors
<1>6. QED
  BY <1>1, <1>2, <1>3, <1>4, <1>5 DEF FilesInv

LEMMA NotedStep ==
  ASSUME Typed, Noted, AllKept, RunsKept, FilesKept
  PROVE  Noted'
<1>1. \A t \in Tasks : task'[t].begun => Marked(t)'
  BY DEF AllKept, Kept, Noted, FilesKept, Marked, Managed
<1>2. ASSUME NEW w \in Runs, pc'[w] \in Begun \/ run'[w].cause = "late"
      PROVE  Marked(run[w].job)'
  <2>0. run'[w].job = run[w].job
    BY <1>2 DEF RunsKept
  <2>1. CASE pc[w] \in Begun \/ run[w].cause = "late"
    BY <2>0, <2>1 DEF Noted, FilesKept, Marked, Managed
  <2>2. CASE Prepare(w)
    <3>1. pc'[w] = "prepared" \/ (pc'[w] = "failing" /\ run'[w].cause = "early")
      <4>1. run[w] \in RunRecords /\ w \in Actors
        BY DEF Typed, Types, Actors
      <4>2. CASE Goto(w, "prepared")
        BY <4>1, <4>2 DEF Goto, Typed, Types
      <4>3. CASE Throw(w, "early")
        <5>1. [run[w] EXCEPT !.cause = "early"].cause = "early"
          BY <4>1 DEF RunRecords
        <5>2. run' = [run EXCEPT ![w] = [run[w] EXCEPT !.cause = "early"]]
          BY <4>3 DEF Throw
        <5>3. QED
          BY <4>1, <4>3, <5>1, <5>2 DEF Throw, Goto, Typed, Types
      <4>4. QED
        BY <2>2, <4>2, <4>3 DEF Prepare
    <3>2. pc'[w] = "prepared"
      BY <1>2, <3>1 DEF Begun, Attempting
    <3>3. QED
      BY <2>2, <3>2 DEF FilesKept, Prepare
  <2>3. QED
    BY <1>2, <2>1, <2>2 DEF RunsKept
<1>3. QED
  BY <1>1, <1>2 DEF Noted, Begun, Attempting

LEMMA StraysStep ==
  ASSUME Typed, OwnsAttempt, Strays, AllKept, FilesKept
  PROVE  Strays'
<1> SUFFICES ASSUME NEW t \in Tasks, ~tree'[t].recorded, tree'[t].madeBy # 0
             PROVE  /\ t \in Managed /\ tree'[t].madeBy = task'[t].attempt
                    /\ task'[t].status \notin {Absent, "queued"}
  BY DEF Strays, Managed
<1>1. ~tree[t].recorded
  BY DEF FilesKept
<1>2. CASE tree'[t].madeBy = tree[t].madeBy
  <2>1. /\ t \in Managed /\ tree[t].madeBy = task[t].attempt
        /\ task[t].status \notin {Absent, "queued"}
    BY <1>1, <1>2 DEF Strays
  <2>2. ~Marked(t)
    BY <1>1, <2>1 DEF Marked
  <2>3. QED
    BY <1>2, <2>1, <2>2 DEF AllKept, Kept
<1>3. CASE /\ t \in Managed /\ tree'[t].madeBy = task[t].attempt
           /\ \E w \in Runs : pc[w] = "claimed" /\ run[w].job = t /\ UNCHANGED task
  BY <1>3 DEF OwnsAttempt, Attempting
<1>4. QED
  BY <1>2, <1>3 DEF FilesKept

LEMMA ClaimRaises ==
  ASSUME Typed, NEW w \in Runs, Claim(w), pc'[w] \in {"claimed", "prepared", "executing"}
  PROVE  /\ run'[w].job = run[w].job
         /\ task'[run[w].job].attempt = task[run[w].job].attempt + 1
<1> DEFINE t == run[w].job
           record == [Moved(t, "running") EXCEPT
                        !.attempt = task[t].attempt + 1, !.owner = w,
                        !.epoch = fence.epoch, !.expired = FALSE, !.begun = FALSE]
<1>1. t \in Tasks
  BY DEF Claim, Typed, JobKnown
<1>2. Save(w, t, record) /\ UNCHANGED run
  BY DEF Claim, Throw, Goto, Typed, Types, Actors
<1>3. record.attempt = task[t].attempt + 1
  <2>1. Moved(t, "running") \in TaskRecords
    BY <1>1, MovedType DEF Typed, TaskStatus
  <2>2. QED
    BY <2>1 DEF TaskRecords
<1> HIDE DEF record
<1>4. task'[t] = record
  BY <1>1, <1>2, SaveKeeps DEF Typed
<1>5. QED
  BY <1>2, <1>3, <1>4

LEMMA AnsweredStep ==
  ASSUME Typed, Typed', OwnsAttempt, FilesTyped, Answered, AllKept, RunsKept, FilesKept
  PROVE  Answered'
<1>1. \A t \in Tasks : /\ task[t].attempt \in Nat /\ task'[t].attempt \in Nat
                       /\ result[t].attempt \in Nat /\ result'[t].attempt \in Nat
                       /\ task'[t].attempt >= task[t].attempt
  BY DEF Typed, Types, TaskRecords, FilesTyped, FilesKept, AllKept, Kept
<1>2. \A t \in Tasks : result'[t].attempt <= task'[t].attempt
  BY <1>1 DEF FilesKept, Answered
<1>3. ASSUME NEW v \in Runs, pc'[v] \in {"claimed", "prepared", "executing"}
      PROVE  result'[run'[v].job].attempt < task'[run'[v].job].attempt
  <2>1. run'[v].job = run[v].job /\ run[v].job \in Tasks
    <3>1. run'[v].job = run[v].job
      BY <1>3 DEF RunsKept, Attempting
    <3>2. run'[v].job \in Tasks
      BY <1>3 DEF Typed, JobKnown
    <3>3. QED
      BY <3>1, <3>2
  <2> DEFINE t == run[v].job
  <2>2. CASE pc[v] \in {"claimed", "prepared", "executing"}
    <3>1. \A w \in Runs : pc[w] = "executing" /\ run[w].job = t => w = v
      BY <2>2 DEF OwnsAttempt, Attempting
    <3>2. result'[t] = result[t]
      BY <1>3, <2>1, <3>1 DEF FilesKept
    <3>3. result[t].attempt < task[t].attempt
      BY <2>2 DEF Answered
    <3>4. QED
      BY <1>1, <2>1, <3>2, <3>3
  <2>3. CASE Claim(v)
    <3>1. task'[t].attempt = task[t].attempt + 1
      BY <1>3, <2>3, ClaimRaises
    <3>2. result'[t].attempt = task[t].attempt \/ result'[t] = result[t]
      BY <2>1 DEF FilesKept
    <3>3. QED
      BY <1>1, <2>1, <3>1, <3>2 DEF Answered
  <2>4. QED
    BY <1>3, <2>2, <2>3 DEF RunsKept
<1>4. QED
  BY <1>2, <1>3 DEF Answered

\* A task that is completed had its attempt ended by its owner, or was completed
\* before; no attempt of it begins with that.
LEMMA OverStep ==
  ASSUME Typed, Typed', OwnsAttempt, Over, AllKept, RunsKept
  PROVE  Over'
<1> SUFFICES ASSUME NEW w \in Runs, pc'[w] \in Attempting,
                    task'[run'[w].job].status = "completed"
             PROVE  FALSE
  BY DEF Over
<1> DEFINE t == run[w].job
<1>1. run'[w].job = t /\ t \in Tasks
  <2>1. run'[w].job = t
    BY DEF RunsKept
  <2>2. run'[w].job \in Tasks
    BY DEF Typed, JobKnown, Attempting
  <2>3. QED
    BY <2>1, <2>2
<1>2. /\ task[t].status \notin {Absent, "queued"}
      /\ pc[w] \notin Attempting
  <2>1. CASE task[t].status = "completed"
    BY <2>1 DEF Over, Absent
  <2>2. CASE CompletedNow(t)
    <3>1. PICK v \in Runs : pc[v] = "completing" /\ run[v].job = t /\ pc'[v] \notin Attempting
      BY <2>2 DEF CompletedNow
    <3>2. pc[v] \in Attempting /\ v # w
      BY <3>1 DEF Attempting
    <3>3. QED
      BY <3>1, <3>2 DEF OwnsAttempt
  <2>3. QED
    BY <1>1, <2>1, <2>2 DEF AllKept, Kept
<1>3. task'[t].attempt = task[t].attempt /\ task[t].attempt \in Nat
  BY <1>1, <1>2 DEF AllKept, Kept, Typed, Types, TaskRecords
<1>4. Claim(w)
  BY <1>2 DEF RunsKept
<1>5. pc'[w] \in {"claimed", "prepared", "executing"}
  BY <1>4 DEF Claim, Throw, Goto, Attempting, Typed, Types, Actors
<1>6. QED
  BY <1>3, <1>4, <1>5, ClaimRaises

\* What is stored of an attempt that its run has left stays: only the run that has
\* the attempt stores a result, and only once.
LEMMA ResultStays ==
  ASSUME Typed, OwnsAttempt, Over, FilesKept, NEW t \in Tasks,
         \/ task[t].status = "completed"
         \/ \E w \in Runs : pc[w] \in Ending /\ run[w].job = t
  PROVE  result'[t] = result[t]
<1> SUFFICES ASSUME NEW v \in Runs, pc[v] = "executing", run[v].job = t PROVE FALSE
  BY DEF FilesKept
<1>1. pc[v] \in Attempting
  BY DEF Attempting
<1>2. CASE task[t].status = "completed"
  BY <1>1, <1>2 DEF Over
<1>3. ASSUME NEW w \in Runs, pc[w] \in Ending, run[w].job = t PROVE FALSE
  <2>1. pc[w] \in Attempting /\ w # v
    BY <1>3 DEF Attempting, Ending
  <2>2. QED
    BY <1>1, <1>3, <2>1 DEF OwnsAttempt
<1>4. QED
  BY <1>2, <1>3

LEMMA OutcomeStep ==
  ASSUME Typed, Typed', OwnsAttempt, Over, OutcomeStored, AllKept, RunsKept, FilesKept
  PROVE  OutcomeStored'
<1>1. ASSUME NEW w \in Runs, pc'[w] \in Ending
      PROVE  result'[run'[w].job] = [attempt |-> task'[run'[w].job].attempt, by |-> w]
  <2> DEFINE t == run[w].job
  <2>1. run'[w].job = t /\ t \in Tasks
    <3>1. run'[w].job = t
      BY <1>1 DEF RunsKept, Attempting, Ending
    <3>2. run'[w].job \in Tasks
      BY <1>1 DEF Typed, JobKnown, Ending
    <3>3. QED
      BY <3>1, <3>2
  <2>2. CASE pc[w] \in Ending
    <3>1. result'[t] = result[t]
      BY <2>1, <2>2, ResultStays
    <3>2. task'[t].attempt = task[t].attempt
      BY <2>1, <2>2 DEF OwnsAttempt, Attempting, Ending, AllKept, Kept
    <3>3. QED
      BY <2>1, <2>2, <3>1, <3>2 DEF OutcomeStored, Ending
  <2>3. CASE UNCHANGED task /\ result'[t] = [attempt |-> task[t].attempt, by |-> w]
    BY <2>1, <2>3
  <2>4. QED
    BY <1>1, <2>2, <2>3 DEF FilesKept
<1>2. ASSUME NEW t \in Tasks, task'[t].status = "completed"
      PROVE  result'[t] = [attempt |-> task'[t].attempt, by |-> task'[t].owner]
  <2>1. task'[t].owner = task[t].owner /\ (task[t].status = "completed" \/ CompletedNow(t))
    BY <1>2 DEF AllKept, Kept
  <2>2. CASE task[t].status = "completed"
    <3>1. task'[t].attempt = task[t].attempt
      BY <2>2 DEF AllKept, Kept, Absent
    <3>2. QED
      BY <2>1, <2>2, <3>1, ResultStays DEF OutcomeStored
  <2>3. CASE CompletedNow(t)
    <3>1. PICK w \in Runs : pc[w] = "completing" /\ run[w].job = t
      BY <2>3 DEF CompletedNow
    <3>2. task[t].owner = w /\ task[t].status \notin {Absent, "queued"}
      BY <3>1 DEF OwnsAttempt, Attempting
    <3>3. task'[t].attempt = task[t].attempt
      BY <3>2 DEF AllKept, Kept
    <3>4. result'[t] = result[t]
      BY <3>1, ResultStays DEF Ending
    <3>5. QED
      BY <2>1, <3>1, <3>2, <3>3, <3>4 DEF OutcomeStored
  <2>4. QED
    BY <2>1, <2>2, <2>3
<1>3. QED
  BY <1>1, <1>2 DEF OutcomeStored, Ending

LEMMA FilesInvStep == FilesInv /\ [FilesNext]_filesVars => FilesInv'
<1> SUFFICES ASSUME FilesInv, [FilesNext]_filesVars PROVE FilesInv'
  OBVIOUS
<1>1. /\ Typed /\ OwnsAttempt /\ FilesTyped /\ Noted /\ Strays /\ Answered
      /\ Over /\ OutcomeStored /\ [Next]_vars
  BY FilesNextIsNext DEF FilesInv
<1>2. Typed' /\ OwnsAttempt'
  BY <1>1, TypedStep, OwnsStep
<1>3. AllKept /\ RunsKept /\ FilesKept
  BY <1>1, KeptStep, RunsKeptStep, FilesKeptStep
<1>4. FilesTyped'
  BY <1>3 DEF FilesKept
<1>5. Noted' /\ Strays' /\ Answered'
  BY <1>1, <1>2, <1>3, NotedStep, StraysStep, AnsweredStep
<1>6. Over' /\ OutcomeStored'
  BY <1>1, <1>2, <1>3, OverStep, OutcomeStep
<1>7. QED
  BY <1>2, <1>4, <1>5, <1>6 DEF FilesInv

\* A run that has to make the worktree of its task meets none of an earlier
\* attempt: an attempt is given up for another one only after its worktree is on
\* record (prepareWorkspace against recoverOrphan and the catch of runOne).
THEOREM NoStrayWorktreeHolds == FilesSpec => []NoStrayWorktree
<1>1. FilesInv => NoStrayWorktree
  BY DEF FilesInv, Typed, JobKnown, Strays, NoStrayWorktree
<1>2. QED
  BY <1>1, FilesInvInit, FilesInvStep, PTL DEF FilesSpec

\* A run stores the result of its attempt where none is: the attempt is its own
\* from the claim on, and a result is stored as the execution ends
\* (TaskResultStore.persist refuses to replace a file).
THEOREM ResultFreeHolds == FilesSpec => []ResultFree
<1>1. FilesInv => ResultFree
  BY DEF FilesInv, Answered, ResultFree
<1>2. QED
  BY <1>1, FilesInvInit, FilesInvStep, PTL DEF FilesSpec

\* What a run is about to record is what it has stored, and a completed task keeps
\* the result of its last attempt for good: who stores a result has the attempt, and
\* the task is completed by nobody else (TaskResultStore.persist and verifyForTask,
\* TaskStore.complete).
THEOREM OutcomeStoredHolds == FilesSpec => []OutcomeStored
<1>1. FilesInv => OutcomeStored
  BY DEF FilesInv
<1>2. QED
  BY <1>1, FilesInvInit, FilesInvStep, PTL DEF FilesSpec
=============================================================================

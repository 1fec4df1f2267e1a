----------------------------- MODULE TaskFiles -----------------------------
(***************************************************************************)
(* What the runs of TaskEngine leave beside the records: the worktree of a *)
(* task that edits a Git repository (prepareWorkspace of task-engine.ts,   *)
(* worktree-manager.ts) and the results of its attempts                    *)
(* (task-result-store.ts).                                                 *)
(*                                                                         *)
(* Both are written before the record that names them: a worktree and its  *)
(* branch are made once and found again by name only, and the result of an *)
(* attempt is a file that is created once.  What keeps a later attempt from*)
(* finding the remains of an earlier one is in the engine.                 *)
(***************************************************************************)
EXTENDS TaskEngine

VARIABLES
  tree,     \* tree[t]: the attempt that made the worktree of t, 0 for none, and
            \* whether the record of t names it
  result    \* result[t]: the last attempt of t with a stored result, and its run

files == <<tree, result>>

filesVars == <<vars, files>>

FilesInit ==
  /\ Init
  /\ tree = [t \in Tasks |-> [madeBy |-> 0, recorded |-> FALSE]]
  /\ result = [t \in Tasks |-> [attempt |-> 0, by |-> NoRun]]

\* The tasks that edit a worktree of their own.
Managed == Tasks \ (PlanTasks \cup NonGitTasks)

\* WorktreeManager.create: git makes the directory and the branch, unless there is
\* one of that name.
MakeWorktree(w) ==
  LET t == run[w].job IN
  /\ pc[w] = "claimed"
  /\ t \in Managed
  /\ tree[t].madeBy = 0
  /\ tree' = [tree EXCEPT ![t].madeBy = task[t].attempt]
  /\ UNCHANGED <<vars, result>>

\* setExecutionIsolation of the new worktree, or of the recorded one if reuse finds
\* it as it was made.  Without either, prepareWorkspace has thrown.
PrepareIn(w) ==
  LET t == run[w].job IN
  /\ Prepare(w)
  /\ IF pc'[w] = "prepared" /\ t \in Managed
     THEN /\ IF tree[t].recorded THEN ~task[t].dirty
             ELSE tree[t].madeBy = task[t].attempt
          /\ tree' = [tree EXCEPT ![t].recorded = TRUE]
     ELSE UNCHANGED tree
  /\ UNCHANGED result

\* TaskResultStore.persist, for the attempt that the reloaded record has: the file
\* is created, and one that is there is not replaced but will do if it says the same.
Persist(w, t) ==
  IF result[t].attempt = task[t].attempt THEN UNCHANGED result
  ELSE result' = [result EXCEPT ![t] = [attempt |-> task[t].attempt, by |-> w]]

\* The outcome of an execution is stored before it decides about the task.  A call
\* that throws may have written the file.
PersistOutcome(w) ==
  /\ ExecutorReturns(w)
  /\ \/ pc'[w] \in {"completing", "blocking"} /\ Persist(w, run[w].job)
     \/ pc'[w] = "failing" /\ ~run[w].aborted /\ Persist(w, run[w].job)
     \/ pc'[w] \in {"cancelling", "failing"} /\ UNCHANGED result
  /\ UNCHANGED tree

\* TaskStore.complete and blockWithOutcome look at the result once more
\* (verifyForTask): it has to be the one of the attempt they end.
EndVerified(w) ==
  /\ Complete(w) \/ BlockWithOutcome(w)
  /\ pc'[w] = "finishing" => result[run[w].job].attempt = task[run[w].job].attempt
  /\ UNCHANGED files

FilesNext ==
  \/ \E w \in Runs : MakeWorktree(w) \/ PrepareIn(w) \/ PersistOutcome(w) \/ EndVerified(w)
  \/ /\ \/ \E t \in Tasks : Submit(t) \/ RequestCancel(t) \/ WorkerLeaves(t)
        \/ \E w \in Runs :
             \/ \E t \in Tasks : Begin(w, t)
             \/ LoadAgain(w) \/ AcquireSlot(w) \/ Claim(w) \/ RecordAttemptStart(w) \/ ExecutorThrows(w)
             \/ CancelRunning(w)
             \/ CatchLoad(w) \/ HandleFailure(w) \/ BlockDependency(w)
             \/ RefuseWorkspace(w) \/ BlockOwnership(w) \/ ReleaseSlot(w)
             \/ Edit(w) \/ Pulse(w) \/ Crash(w) \/ Recycle(w)
        \/ \E r \in Recoveries : RecoverBegin(r) \/ RecoveryStep(r) \/ RecoverAbandon(r)
        \/ \E a \in Actors : SweepStep(a)
        \/ Clock
     /\ UNCHANGED files

FilesSpec == FilesInit /\ [][FilesNext]_filesVars

-----------------------------------------------------------------------------
(* Properties *)

\* A run that has to make the worktree of its task never finds the directory and
\* the branch that an earlier attempt left unrecorded, which no attempt could use
\* or remove: an attempt that ends there is the last one (prepareWorkspace against
\* recoverOrphan and the catch of runOne).
NoStrayWorktree ==
  \A w \in Runs : LET t == run[w].job IN
    pc[w] = "claimed" /\ ~tree[t].recorded => tree[t].madeBy \in {0, task[t].attempt}

\* While a run executes an attempt it owns, nobody has stored a result of it: not
\* an earlier run, and no run that has lost the task and stores under the attempt
\* it finds when it is back (persist of the reloaded task.attempt).
ResultFree ==
  \A w \in Runs : LET t == run[w].job IN
    pc[w] = "executing" /\ task[t].status = "running" /\ task[t].owner = w =>
      result[t].attempt < task[t].attempt

\* The outcome that a run is about to record is still stored as the one of the
\* attempt, by nobody else, and so is that of a completed task ever after: no run
\* that lost the task replaces it, and no attempt follows (persist before complete,
\* and verifyForTask).
OutcomeStored ==
  /\ \A w \in Runs : LET t == run[w].job IN
       pc[w] \in {"completing", "blocking"} =>
         result[t] = [attempt |-> task[t].attempt, by |-> w]
  /\ \A t \in Tasks : task[t].status = "completed" =>
       result[t] = [attempt |-> task[t].attempt, by |-> task[t].owner]
=============================================================================

--------------------------- MODULE TaskLifecycle ---------------------------
(***************************************************************************)
(* What the task engine promises about a task, whoever runs it and         *)
(* whatever fails: the six states, one attempt at a time within the retry  *)
(* budget, dependencies before dependents, and a cancellation that, once   *)
(* recorded, is never overtaken by a completion or a failure.              *)
(* TaskEngine is shown to implement this specification.                    *)
(***************************************************************************)
EXTENDS TaskPolicy

CONSTANTS
  Tasks,          \* the tasks that may be submitted
  Deps,           \* Deps[t]: the dependencyIds of t
  MaxAttempts     \* MaxAttempts[t]: retry.maxAttempts of t, 1 without retries

VARIABLES
  status,           \* status[t]: TaskStatus, or Absent before the submission
  attempt,          \* attempt[t]: how often t was claimed
  cancelRequested   \* cancelRequested[t]: cancelRequestedAt is recorded

vars == <<status, attempt, cancelRequested>>

Init ==
  /\ status = [t \in Tasks |-> Absent]
  /\ attempt = [t \in Tasks |-> 0]
  /\ cancelRequested = [t \in Tasks |-> FALSE]

Submit(t) ==
  /\ status[t] = Absent
  /\ \A d \in Deps[t] : status[d] # Absent
  /\ status' = [status EXCEPT ![t] = "queued"]
  /\ UNCHANGED <<attempt, cancelRequested>>

\* An attempt starts only within the budget and after every dependency.
Start(t) ==
  /\ status[t] = "queued"
  /\ attempt[t] < MaxAttempts[t]
  /\ \A d \in Deps[t] : status[d] = "completed"
  /\ status' = [status EXCEPT ![t] = "running"]
  /\ attempt' = [attempt EXCEPT ![t] = @ + 1]
  /\ UNCHANGED cancelRequested

\* A retry, or the recovery of an orphan: only if an attempt is left.
Requeue(t) ==
  /\ status[t] = "running"
  /\ attempt[t] < MaxAttempts[t]
  /\ status' = [status EXCEPT ![t] = "queued"]
  /\ UNCHANGED <<attempt, cancelRequested>>

Block(t) ==
  /\ status[t] \in {"queued", "running"}
  /\ status' = [status EXCEPT ![t] = "blocked"]
  /\ UNCHANGED <<attempt, cancelRequested>>

\* The two ends a cancellation excludes.
Finish(t) ==
  /\ status[t] = "running"
  /\ ~cancelRequested[t]
  /\ \E end \in {"completed", "failed"} : status' = [status EXCEPT ![t] = end]
  /\ UNCHANGED <<attempt, cancelRequested>>

RequestCancel(t) ==
  /\ status[t] = "running"
  /\ cancelRequested' = [cancelRequested EXCEPT ![t] = TRUE]
  /\ UNCHANGED <<status, attempt>>

\* A running task is cancelled only on a recorded request; a queued or blocked
\* one is cancelled by the request itself.
Cancel(t) ==
  /\ \/ status[t] = "running" /\ cancelRequested[t]
     \/ status[t] \in {"queued", "blocked"}
  /\ status' = [status EXCEPT ![t] = "cancelled"]
  /\ UNCHANGED <<attempt, cancelRequested>>

Next ==
  \E t \in Tasks :
    Submit(t) \/ Start(t) \/ Requeue(t) \/ Block(t) \/ Finish(t)
      \/ RequestCancel(t) \/ Cancel(t)

Spec == Init /\ [][Next]_vars
=============================================================================

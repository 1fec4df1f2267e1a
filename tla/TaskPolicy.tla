----------------------------- MODULE TaskPolicy -----------------------------
(***************************************************************************)
(* The pure decisions of task-policy.ts: the state machine of a durable    *)
(* task, when an expired lease may be reclaimed, when a failed attempt may *)
(* be retried, and when a task's dependencies let it run.                  *)
(***************************************************************************)
EXTENDS Naturals

TERMINAL == {"completed", "failed", "cancelled"}

TaskStatus == {"queued", "running", "blocked"} \cup TERMINAL

\* A task that has not been submitted yet has no record.
Absent == "absent"

\* task-policy.ts TRANSITIONS: a terminal status has no successor.
TRANSITIONS ==
  [ s \in TaskStatus |->
      CASE s = "queued"  -> {"running", "blocked", "cancelled"}
        [] s = "running" -> {"blocked", "completed", "failed", "cancelled"}
        [] s = "blocked" -> {"queued", "failed", "cancelled"}
        [] OTHER         -> {} ]

\* What probing an owner process can answer, seen from the probing host.
OwnerProbeState == {"alive", "dead", "potentially_alive", "unknown"}

\* Variants: expiry alone decides, and an owner that cannot be asked is dead.
ReclaimOnExpiry(expired, probe) == IF expired THEN "reclaim" ELSE "retain"
ReclaimUnknown(expired, probe) ==
  IF expired /\ probe \in {"dead", "unknown"} THEN "reclaim" ELSE "retain"

\* Expiry alone never takes a task from a process that may still be alive.
ReclaimDecision(expired, probe) ==
  IF ~expired THEN "retain"
  ELSE CASE probe = "dead"    -> "reclaim"
         [] probe = "unknown" -> "block_ambiguous"
         [] OTHER             -> "retain"

\* Variants: no budget, and no look at the workspace.
RetryUnbounded(attempt, maxAttempts, retryable, plan, unchanged) ==
  retryable /\ (plan \/ unchanged)
RetryAnyWorkspace(attempt, maxAttempts, retryable, plan, unchanged) ==
  attempt < maxAttempts /\ retryable

\* `plan`: the task runs in the read-only mode; `unchanged`: the workspace is
\* measured to be as it was when the attempt began; `retryable`: the error's
\* code is not in NON_RETRYABLE.  maxAttempts is 1 when retries are disabled.
RetryEligible(attempt, maxAttempts, retryable, plan, unchanged) ==
  /\ attempt < maxAttempts
  /\ retryable
  /\ plan \/ unchanged

\* Variant: a dependency that has not ended does not hold the task back.
ReadyUnlessBlocked(statuses) ==
  IF statuses \cap {"failed", "cancelled", "blocked"} # {} THEN "blocked" ELSE "ready"

\* `statuses`: the set of the statuses of the task's dependencies.
DependencyReadiness(statuses) ==
  IF statuses \cap {"failed", "cancelled", "blocked"} # {} THEN "blocked"
  ELSE IF statuses \subseteq {"completed"} THEN "ready"
  ELSE "waiting"
=============================================================================

------------------------------ MODULE PhaseRun ------------------------------
(***************************************************************************)
(* One phase of a turn: runPhase of controller.ts, the abort source of     *)
(* deadline-policy.ts that stops it, the adapter that runs a provider's    *)
(* command line, and the supervisor of that process.                       *)
(*                                                                         *)
(* The user's signal and the deadline are the two causes of an abort; the  *)
(* abort reaches the supervisor in the same step, since an AbortController *)
(* calls its listeners before abort() returns.  What the adapter does      *)
(* before it spawns and after the process has settled is one step each,    *)
(* with the abort free to come in between.                                 *)
(***************************************************************************)
EXTENDS ProcessSupervisor

VARIABLES cause,       \* cause of the abort source, "none" while undefined
          deadlineOn,  \* the deadline timer is armed
          userAborted, \* externalSignal.aborted
          pc,          \* where runPhase is
          outcome      \* how it ended, or "running"

phaseVars == <<cause, deadlineOn, userAborted, pc, outcome>>
vars == <<call, cause, deadlineOn, userAborted, pc, outcome>>

Outcomes == {"result", "error", "deadline", "cancelled", "unsaved"}

\* Each variable is of its type: the fields of the closure of
\* runSupervisedProcess, of createPhaseAbortSource and of runPhase; and the
\* deadline timer does not outlive its phase.
TypeOK ==
  /\ call \in Calls
  /\ cause \in {"none", "deadline", "external"}
  /\ deadlineOn \in BOOLEAN /\ userAborted \in BOOLEAN
  /\ pc \in {"new", "running", "spawned", "saving", "ended"}
  /\ outcome \in {"running"} \cup Outcomes
  /\ deadlineOn => pc \in {"running", "spawned", "saving"}

Init ==
  /\ call = NoCall
  /\ cause = "none" /\ deadlineOn = FALSE
  /\ userAborted \in BOOLEAN
  /\ pc = "new" /\ outcome = "running"

Aborted == cause # "none"

-----------------------------------------------------------------------------
(* createPhaseAbortSource *)

\* A variant in which the last cause wins.
LastCause(next) ==
  /\ cause' = next
  /\ call' \in OnAbort(call)

\* recordCause: the first cause stays, and the abort is dispatched at once.
RecordCause(next) ==
  IF Aborted THEN UNCHANGED <<cause, call>>
  ELSE /\ cause' = next
       /\ call' \in OnAbort(call)

\* A signal that is aborted already wins over a deadline of zero, and that over
\* the timer.
BeginPhase ==
  /\ pc = "new"
  /\ pc' = "running"
  /\ \/ userAborted /\ RecordCause("external") /\ UNCHANGED deadlineOn
     \/ ~userAborted /\ RecordCause("deadline") /\ UNCHANGED deadlineOn
     \/ ~userAborted /\ deadlineOn' = TRUE /\ UNCHANGED <<cause, call>>
  /\ UNCHANGED <<userAborted, outcome>>

\* Until dispose the source listens to the user's signal, which aborts once.
UserAborts ==
  /\ ~userAborted
  /\ userAborted' = TRUE
  /\ IF pc \in {"new", "ended"} THEN UNCHANGED <<cause, call>> ELSE RecordCause("external")
  /\ UNCHANGED <<deadlineOn, pc, outcome>>

DeadlineFires ==
  /\ deadlineOn
  /\ deadlineOn' = FALSE
  /\ RecordCause("deadline")
  /\ UNCHANGED <<userAborted, pc, outcome>>

-----------------------------------------------------------------------------
(* runPhase *)

\* A variant without the dispose.
EndArmed(o) ==
  /\ pc' = "ended" /\ outcome' = o
  /\ UNCHANGED <<call, cause, deadlineOn, userAborted>>

\* The end of runPhase, with the dispose of its finally.
EndWith(o) ==
  /\ pc' = "ended" /\ outcome' = o
  /\ deadlineOn' = FALSE
  /\ UNCHANGED <<call, cause, userAborted>>

\* The error of a phase that has a cause, and any other error.
OutcomeOfError ==
  CASE cause = "deadline" -> "deadline"
    [] cause = "external" -> "cancelled"
    [] OTHER -> "error"

\* The adapter finds its executable, or throws, and calls runProcess.
SpawnProvider ==
  /\ pc = "running"
  /\ \/ StartCall(Aborted) /\ pc' = "spawned" /\ UNCHANGED <<cause, deadlineOn, userAborted, outcome>>
     \/ EndWith(OutcomeOfError)

\* A variant that returns what the run returned.
ResultAnyway == "result"

\* A run that resolved after the abort does not count.
OutcomeOfResult == IF Aborted THEN OutcomeOfError ELSE "result"

\* assertSafeProcessCompletion, assertProcessNotCancelled, and the checks of the
\* adapters, then runPhase.  A result may be refused for truncated output; a
\* cancelled one that is not leaves a message to save.
RunReturns ==
  /\ pc = "spawned" /\ Settled(call)
  /\ \/ call.answer = "completed" /\ EndWith(OutcomeOfResult)
     \/ EndWith(OutcomeOfError)
     \/ /\ call.answer = "cancelled"
        /\ pc' = "saving"
        /\ UNCHANGED <<call, cause, deadlineOn, userAborted, outcome>>

\* sessions.save in the catch, which may throw; the cause is read after it.
SaveTermination ==
  /\ pc = "saving"
  /\ EndWith(OutcomeOfError) \/ EndWith("unsaved")

Supervise == pc # "new" /\ Supervision(Aborted) /\ UNCHANGED phaseVars

Next ==
  \/ BeginPhase \/ UserAborts \/ DeadlineFires
  \/ SpawnProvider \/ RunReturns \/ SaveTermination
  \/ Supervise

\* What has to happen: the steps of the code and its timers.  A provider may stay
\* forever, ignore signals, and never fail; the user need not abort.  A child
\* without a process id does emit its error.
Fairness ==
  /\ WF_vars(SpawnProvider) /\ WF_vars(RunReturns) /\ WF_vars(SaveTermination)
  /\ WF_vars(DeadlineFires)
  /\ WF_vars(SpawnFails(Aborted) /\ UNCHANGED phaseVars)
  /\ WF_vars(GraceElapses /\ UNCHANGED phaseVars)
  /\ WF_vars(WatchdogFires /\ UNCHANGED phaseVars)

Spec == Init /\ [][Next]_vars /\ Fairness

-----------------------------------------------------------------------------
(* Properties *)

Phase == INSTANCE PhaseOutcome

\* The phase does what PhaseOutcome promises: neither a provider that completes
\* as it is stopped, nor a second cause, nor a callback that failed before the
\* abort changes what the turn is told.
FirstCauseDecides == Phase!Spec

\* A result is only believed of a provider that ran to its end undisturbed: a
\* clean exit after an abort was delivered, or after a callback of the caller
\* has thrown, is not reported as completed.
HonestAnswer == call.answer = "completed" => ~call.cancelled /\ ~call.failed

\* The caller is not told that a provider it wanted stopped is over while the
\* provider runs on, unless SIGKILL was tried: every early answer but the error
\* of the child itself comes at the end of the escalation.
NoChildAbandoned ==
  Settled(call) /\ call.child = "open" => "SIGKILL" \in call.sent \/ call.answer = "spawn_failed"

\* The close of the child is never lost, also when it comes during a kill.
CloseSettles == call.child = "closed" => Settled(call)

\* Once the call has its answer nothing of it is left armed: no listener on the
\* signal, no timer that could send a signal to a process that is gone.
QuietAfterAnswer == Settled(call) => ~call.listening /\ ~call.killTimer /\ ~call.watchdog

\* A phase that begins ends, also when the provider ignores both signals and
\* never closes: the deadline starts the escalation and the watchdog ends it.
PhaseEnds == pc = "running" ~> pc = "ended"
=============================================================================

-------------------------- MODULE ProcessSupervisor --------------------------
(***************************************************************************)
(* runSupervisedProcess of process.ts: one provider process, its signals   *)
(* and timers, and the one answer its caller gets.                         *)
(*                                                                         *)
(* The function is a set of event handlers of one thread; each runs to its *)
(* end before the next, so each is one step, and a handler that calls      *)
(* another is a composition of functions on the record "call".  Emitting   *)
(* an event inside kill() is the one way two of them nest.                 *)
(*                                                                         *)
(* Output is abstracted to whether a callback of the caller throws.  A     *)
(* child that ended but whose pipes a descendant keeps open has not closed:*)
(* "open" says no more than that no close event came.                      *)
(***************************************************************************)
EXTENDS FiniteSets

VARIABLE call

Children == {"none", "unborn", "open", "closed"}
Stages == {"none", "interrupt_sent", "kill_sent"}
Signals == {"SIGINT", "SIGKILL"}

\* What the caller gets: a result with this termination cause, or a rejection.
Results == {"completed", "exit_failure", "cancelled"}
Rejections == {"callback_failed", "spawn_failed"}
Answers == Results \cup Rejections

\* child: unborn is a child without a process id, whose error event is to come
\* stage: escalationStage
\* escalating: killEscalationActive      cancelled: cancelledByAbort
\* failed: pendingCallbackFailure        exited: exitObserved, closingFromExit
\* listening: abortListenerAttached      sent: the signals in killAttempts
\* answer: how the call settled, or "pending"
Calls ==
  [ child : Children, stage : Stages, escalating : BOOLEAN, cancelled : BOOLEAN,
    failed : BOOLEAN, exited : BOOLEAN, listening : BOOLEAN, killTimer : BOOLEAN,
    watchdog : BOOLEAN, sent : SUBSET Signals, answer : {"pending"} \cup Answers ]

NoCall ==
  [ child |-> "none", stage |-> "none", escalating |-> FALSE, cancelled |-> FALSE,
    failed |-> FALSE, exited |-> FALSE, listening |-> FALSE, killTimer |-> FALSE,
    watchdog |-> FALSE, sent |-> {}, answer |-> "pending" ]

Settled(c) == c.answer # "pending"

\* settle, rejectSpawn, rejectCallbackFailure: the first answer counts, and
\* cleanup takes the listeners off and stops the timers.
Settle(c, answer) ==
  IF Settled(c) THEN c
  ELSE [c EXCEPT !.answer = answer, !.listening = FALSE, !.killTimer = FALSE, !.watchdog = FALSE]

\* A variant of Finish that forgets the failed callback.
FinishAnyway(c, result) == Settle(c, result)

\* finish: a failed callback outweighs any result.
Finish(c, result) == Settle(c, IF c.failed THEN "callback_failed" ELSE result)

\* A variant of ResultOfExit that believes the exit code.
ResultOfCode(c, exit) ==
  IF exit = "clean" THEN "completed"
  ELSE IF c.cancelled THEN "cancelled" ELSE "exit_failure"

ResultOfExit(c, exit) ==
  IF c.cancelled THEN "cancelled"
  ELSE IF exit = "clean" THEN "completed" ELSE "exit_failure"

Exits == {"clean", "failing"}

\* onChildClose outside of a kill: the last lines go to the callbacks, which may
\* throw, unless output is suppressed since one has.
OnChildClose(c, exit, throws) ==
  LET seen == [c EXCEPT !.child = "closed", !.exited = TRUE, !.failed = @ \/ throws,
                        !.listening = FALSE, !.killTimer = FALSE, !.watchdog = FALSE]
  IN Finish(seen, ResultOfExit(seen, exit))

\* The ways in which a child that is open may close.  (Where output is suppressed
\* the callback has failed already, and "throws" changes nothing.)
Closings(c) == { OnChildClose(c, exit, throws) : exit \in Exits, throws \in BOOLEAN }

\* A variant that sends SIGKILL without a watchdog after it.
ArmInterrupt(c, signal) == IF signal = "SIGINT" THEN [c EXCEPT !.killTimer = TRUE] ELSE c

\* What each signal is followed by: the grace period, or the watchdog.
ArmAfter(c, signal) ==
  IF signal = "SIGINT" THEN [c EXCEPT !.killTimer = TRUE] ELSE [c EXCEPT !.watchdog = TRUE]

StageOf(signal) == IF signal = "SIGINT" THEN "interrupt_sent" ELSE "kill_sent"
Delivered(c, signal) == [c EXCEPT !.sent = @ \cup {signal}, !.stage = StageOf(signal)]

\* A variant that goes on after a deferred close as if the child were open.
DeliverAndArm(c, signal) ==
  { ArmAfter(next, signal) : next \in Closings(Delivered(c, signal)) \cup { Delivered(c, signal) } }

\* A variant that drops the deferred close.
DeliverAndForget(c, signal) ==
  LET next == ArmAfter(Delivered(c, signal), signal)
  IN { [next EXCEPT !.child = "closed"], next }

\* tryDeliverSignal and what its callers do after it.  Refused and thrown kills
\* are recorded like delivered ones.  A close that arrives during kill() is
\* deferred and drained once the signal is on record.
TryDeliverSignal(c, signal) ==
  Closings(Delivered(c, signal)) \cup { ArmAfter(Delivered(c, signal), signal) }

\* beginKillEscalation of a child that is ready.  The first reason to escalate
\* decides: an abort after a failed callback leaves cancelled as it is.
BeginKillEscalation(c, markCancelled) ==
  IF c.child # "open" \/ Settled(c) \/ c.escalating THEN {c}
  ELSE TryDeliverSignal([c EXCEPT !.escalating = TRUE, !.cancelled = @ \/ markCancelled], "SIGINT")

\* A variant that rejects at once and leaves the child to itself.
RejectAtOnce(c) == { Settle([c EXCEPT !.failed = TRUE], "callback_failed") }

\* handleCallbackFailure while the child is open.
OnCallbackFailure(c) == BeginKillEscalation([c EXCEPT !.failed = TRUE], FALSE)

\* The abort event, for who listens to it.
OnAbort(c) == IF c.listening THEN BeginKillEscalation([c EXCEPT !.listening = FALSE], TRUE) ELSE {c}

-----------------------------------------------------------------------------
(***************************************************************************)
(* Steps.  "aborted" is options.signal.aborted.                            *)
(***************************************************************************)

\* The call: nothing is spawned for an aborted signal, spawn may throw, and it
\* may return a child without a process id.
StartCall(aborted) ==
  IF aborted
  THEN call' = Settle(call, "cancelled")
  ELSE \/ call' = Settle(call, "spawn_failed")
       \/ call' = [call EXCEPT !.child = "unborn"]
       \/ call' = [call EXCEPT !.child = "open", !.listening = TRUE]

\* onChildError of a child that never began: settleSpawnRace.
SpawnFails(aborted) ==
  /\ call.child = "unborn"
  /\ ~Settled(call)
  /\ call' = Settle(call, IF aborted THEN "cancelled" ELSE "spawn_failed")

\* onChildError of a child that had begun: ignored after a failed callback, an
\* abort, or the close, and otherwise answered without a signal.  (Such an error before
\* the spawn event, which Node.js emits in the next tick, is left out.)
ChildErrs ==
  /\ call.child = "open"
  /\ ~Settled(call) /\ ~call.failed /\ ~call.cancelled
  /\ call' = Settle(call, "spawn_failed")

\* onStdoutData and onStderrData, when a callback throws; output is suppressed
\* after the first.
CallbackThrows ==
  /\ call.child = "open"
  /\ ~Settled(call) /\ ~call.failed
  /\ call' \in OnCallbackFailure(call)

\* The close event.  One that comes after the call has settled finds no listener.
ChildCloses ==
  /\ call.child = "open"
  /\ IF Settled(call) THEN call' = [call EXCEPT !.child = "closed"] ELSE call' \in Closings(call)

\* The grace period after SIGINT is over: SIGKILL, and a watchdog.
GraceElapses ==
  /\ call.killTimer
  /\ call' \in TryDeliverSignal([call EXCEPT !.killTimer = FALSE], "SIGKILL")

\* The watchdog: the call settles as termination_incomplete.
WatchdogFires ==
  /\ call.watchdog
  /\ call' = Finish(call, IF call.cancelled THEN "cancelled" ELSE "exit_failure")

Supervision(aborted) ==
  SpawnFails(aborted) \/ ChildErrs \/ CallbackThrows \/ ChildCloses \/ GraceElapses \/ WatchdogFires
=============================================================================

--------------------------- MODULE PhaseRunProofs ---------------------------
(***************************************************************************)
(* Proofs about PhaseRun and the ProcessSupervisor in it: every handler    *)
(* leaves the call sound, whatever it finds; from that what the caller is  *)
(* told is true, a stopped provider is always timed, and the phase does    *)
(* what PhaseOutcome promises.                                             *)
(***************************************************************************)
EXTENDS PhaseRun, TLAPS

-----------------------------------------------------------------------------
(* What is true of a call between two handlers *)

Armed(c) == c.listening \/ c.killTimer \/ c.watchdog

\* The answer agrees with what was done to the child.
Answered(c) ==
  /\ c.answer = "completed" => ~c.cancelled /\ ~c.failed
  /\ Settled(c) => ~Armed(c)
  /\ Settled(c) /\ c.child = "open" => "SIGKILL" \in c.sent \/ c.answer = "spawn_failed"
  /\ c.child = "closed" => Settled(c)

\* An escalation is: SIGINT and the grace period, then SIGKILL and the watchdog;
\* while it has no answer, one of the two timers runs.
Escalates(c) ==
  /\ c.cancelled \/ c.sent # {} => c.escalating
  /\ "SIGKILL" \in c.sent => "SIGINT" \in c.sent
  /\ c.killTimer => c.sent = {"SIGINT"}
  /\ c.watchdog => c.sent = Signals
  /\ c.escalating /\ ~Settled(c) => c.killTimer \/ c.watchdog

\* Only an open child is listened for or timed.
Attached(c) == Armed(c) => c.child = "open"

Sound(c) == c \in Calls /\ Answered(c) /\ Escalates(c) /\ Attached(c)

\* Where the phase is, and what it knows.
Placed ==
  /\ pc \in {"new", "running"} => call = NoCall
  /\ pc = "new" => ~Aborted
  /\ pc = "saving" => Aborted
  /\ outcome = "running" <=> pc # "ended"
  /\ call.cancelled \/ call.answer = "cancelled" => Aborted
  /\ Aborted => ~call.listening

IInv == TypeOK /\ Sound(call) /\ Placed

-----------------------------------------------------------------------------
(* What the handlers make of a call *)

\* The first answer is kept, and with it nothing stays armed.
LEMMA SettleGives ==
  ASSUME NEW c \in Calls, NEW answer \in Answers
  PROVE  LET d == Settle(c, answer) IN
         /\ d \in Calls /\ Settled(d)
         /\ Settled(c) => d = c
         /\ ~Settled(c) => d.answer = answer /\ ~Armed(d)
         /\ d.child = c.child /\ d.stage = c.stage /\ d.escalating = c.escalating
         /\ d.cancelled = c.cancelled /\ d.failed = c.failed /\ d.sent = c.sent
BY DEF Settle, Settled, Calls, Armed, Answers, Results, Rejections

\* A result is refused after a failed callback.
LEMMA FinishGives ==
  ASSUME NEW c \in Calls, NEW result \in Results, ~Settled(c)
  PROVE  LET d == Finish(c, result) IN
         /\ d \in Calls /\ Settled(d) /\ ~Armed(d)
         /\ d.answer = IF c.failed THEN "callback_failed" ELSE result
         /\ d.child = c.child /\ d.escalating = c.escalating
         /\ d.cancelled = c.cancelled /\ d.failed = c.failed /\ d.sent = c.sent
<1>1. (IF c.failed THEN "callback_failed" ELSE result) \in Answers
  BY DEF Answers, Rejections
<1>2. QED
  BY <1>1, SettleGives DEF Finish

\* A close is answered by what was done to the child before it.
LEMMA CloseGives ==
  ASSUME NEW c \in Calls, ~Settled(c), NEW d \in Closings(c)
  PROVE  /\ d \in Calls /\ Answered(d) /\ ~Armed(d) /\ d.child = "closed"
         /\ d.escalating = c.escalating /\ d.sent = c.sent
         /\ d.cancelled = c.cancelled
         /\ d.answer = "cancelled" => c.cancelled
<1>1. PICK exit \in Exits, throws \in BOOLEAN : d = OnChildClose(c, exit, throws)
  BY DEF Closings
<1> DEFINE seen == [c EXCEPT !.child = "closed", !.exited = TRUE, !.failed = @ \/ throws,
                             !.listening = FALSE, !.killTimer = FALSE, !.watchdog = FALSE]
<1>2. /\ seen \in Calls /\ ~Settled(seen) /\ seen.child = "closed"
      /\ seen.escalating = c.escalating /\ seen.sent = c.sent
      /\ seen.cancelled = c.cancelled
  BY DEF Calls, Settled, Children
<1>3. /\ ResultOfExit(seen, exit) \in Results
      /\ ResultOfExit(seen, exit) = "completed" => ~c.cancelled
      /\ ResultOfExit(seen, exit) = "cancelled" => c.cancelled
  BY <1>2 DEF ResultOfExit, Results
<1>4. d = Finish(seen, ResultOfExit(seen, exit))
  BY <1>1 DEF OnChildClose
<1> HIDE DEF seen
<1>5. QED
  BY <1>2, <1>3, <1>4, FinishGives DEF Answered

\* A call that may be sent the signal: SIGINT opens the escalation, and SIGKILL
\* follows it, with no timer left of the signal before.
Deliverable(c, signal) ==
  /\ c \in Calls /\ ~Settled(c) /\ c.child = "open" /\ c.escalating
  /\ ~c.killTimer /\ ~c.watchdog
  /\ \/ signal = "SIGINT" /\ c.sent = {}
     \/ signal = "SIGKILL" /\ c.sent = {"SIGINT"}

\* A signal leaves the call sound, also when the close comes during kill().
LEMMA DeliverGives ==
  ASSUME NEW c, NEW signal, Deliverable(c, signal), NEW d \in TryDeliverSignal(c, signal)
  PROVE  /\ Sound(d)
         /\ d.cancelled \/ d.answer = "cancelled" => c.cancelled
         /\ d.listening => c.listening
<1> DEFINE told == Delivered(c, signal)
<1>1. /\ told \in Calls /\ ~Settled(told) /\ told.child = "open" /\ told.escalating
      /\ told.sent = c.sent \cup {signal} /\ told.cancelled = c.cancelled
      /\ told.answer = c.answer /\ told.listening = c.listening
      /\ ~told.killTimer /\ ~told.watchdog
  BY DEF Deliverable, Delivered, StageOf, Calls, Stages, Signals, Settled
<1> HIDE DEF told
<1>2. CASE d \in Closings(told)
  <2>1. Escalates(d)
    BY <1>1, <1>2, CloseGives DEF Escalates, Deliverable, Answered, Armed
  <2>2. QED
    BY <1>1, <1>2, <2>1, CloseGives DEF Sound, Attached, Armed
<1>3. CASE d = ArmAfter(told, signal)
  <2>1. /\ d \in Calls /\ ~Settled(d) /\ d.child = "open" /\ d.escalating
        /\ d.sent = c.sent \cup {signal} /\ d.cancelled = c.cancelled
        /\ d.answer = c.answer /\ d.listening = c.listening
        /\ d.killTimer = (signal = "SIGINT") /\ d.watchdog = (signal # "SIGINT")
    BY <1>1, <1>3 DEF ArmAfter, Calls, Settled
  <2>2. Escalates(d)
    BY <2>1 DEF Escalates, Deliverable, Signals
  <2>3. QED
    BY <2>1, <2>2 DEF Sound, Answered, Attached, Armed, Settled, Deliverable
<1>4. QED
  BY <1>2, <1>3 DEF TryDeliverSignal, told

\* The first reason to escalate sends SIGINT, and any other changes nothing.
LEMMA EscalationGives ==
  ASSUME NEW c, Sound(c), NEW mark \in BOOLEAN, NEW d \in BeginKillEscalation(c, mark)
  PROVE  /\ Sound(d)
         /\ d.cancelled \/ d.answer = "cancelled" => c.cancelled \/ c.answer = "cancelled" \/ mark
         /\ d.listening => c.listening
<1>1. CASE d = c
  BY <1>1
<1>2. CASE c.child = "open" /\ ~Settled(c) /\ ~c.escalating
  <2> DEFINE begun == [c EXCEPT !.escalating = TRUE, !.cancelled = @ \/ mark]
  <2>1. /\ Deliverable(begun, "SIGINT")
        /\ begun.cancelled = (c.cancelled \/ mark) /\ begun.listening = c.listening
    BY <1>2 DEF Sound, Escalates, Deliverable, Calls, Settled, Signals
  <2>2. d \in TryDeliverSignal(begun, "SIGINT")
    BY <1>2 DEF BeginKillEscalation
  <2> HIDE DEF begun
  <2>3. QED
    BY <2>1, <2>2, DeliverGives
<1>3. QED
  BY <1>1, <1>2 DEF BeginKillEscalation

-----------------------------------------------------------------------------
(* The handlers keep the call sound *)

\* An abort finds the call not listening afterwards, and only it marks the call as
\* cancelled.
LEMMA AbortGives ==
  ASSUME NEW c, Sound(c), NEW d \in OnAbort(c)
  PROVE  Sound(d) /\ ~d.listening
<1>1. CASE c.listening
  <2> DEFINE heard == [c EXCEPT !.listening = FALSE]
  <2>1. Sound(heard) /\ ~heard.listening
    BY DEF Sound, Calls, Answered, Escalates, Attached, Armed, Settled
  <2>2. d \in BeginKillEscalation(heard, TRUE)
    BY <1>1 DEF OnAbort
  <2> HIDE DEF heard
  <2>3. QED
    BY <2>1, <2>2, EscalationGives
<1>2. CASE ~c.listening
  BY <1>2 DEF OnAbort
<1>3. QED
  BY <1>1, <1>2

\* What a step of the supervisor leaves of a call: it is sound, and neither marked as
\* cancelled nor listening if it was not before.
Kept ==
  /\ Sound(call')
  /\ call'.cancelled \/ call'.answer = "cancelled" => call.cancelled \/ call.answer = "cancelled" \/ Aborted
  /\ call'.listening => call.listening

LEMMA SettleKeeps ==
  ASSUME Sound(call), ~Settled(call), NEW answer \in Answers, call' = Settle(call, answer),
         answer = "completed" => ~call.cancelled /\ ~call.failed,
         answer = "cancelled" => call.cancelled \/ Aborted,
         call.child = "open" => "SIGKILL" \in call.sent \/ answer = "spawn_failed"
  PROVE  Kept
<1>1. /\ call' \in Calls /\ Settled(call') /\ call'.answer = answer /\ ~Armed(call')
      /\ call'.child = call.child /\ call'.escalating = call.escalating
      /\ call'.cancelled = call.cancelled /\ call'.failed = call.failed
      /\ call'.sent = call.sent
  BY SettleGives DEF Sound
<1>2. QED
  BY <1>1 DEF Kept, Sound, Answered, Escalates, Attached, Armed

LEMMA KeptByErrors ==
  ASSUME Sound(call), SpawnFails(Aborted) \/ ChildErrs
  PROVE  Kept
<1>1. CASE SpawnFails(Aborted)
  BY <1>1, SettleKeeps DEF SpawnFails, Answers, Results, Rejections
<1>2. CASE ChildErrs
  BY <1>2, SettleKeeps DEF ChildErrs, Answers, Rejections
<1>3. QED
  BY <1>1, <1>2

LEMMA KeptByCallbackThrows ==
  ASSUME Sound(call), CallbackThrows
  PROVE  Kept
<1> DEFINE failing == [call EXCEPT !.failed = TRUE]
<1>1. /\ Sound(failing) /\ failing.cancelled = call.cancelled
      /\ failing.answer = call.answer /\ failing.listening = call.listening
  BY DEF CallbackThrows, Sound, Calls, Answered, Escalates, Attached, Armed, Settled
<1>2. call' \in BeginKillEscalation(failing, FALSE)
  BY DEF CallbackThrows, OnCallbackFailure
<1> HIDE DEF failing
<1>3. QED
  BY <1>1, <1>2, EscalationGives DEF Kept

LEMMA KeptByClose ==
  ASSUME Sound(call), ChildCloses
  PROVE  Kept
<1>1. CASE Settled(call)
  BY <1>1 DEF ChildCloses, Kept, Sound, Calls, Children, Answered, Escalates, Attached, Armed,
              Settled
<1>2. CASE ~Settled(call)
  <2>1. /\ call' \in Calls /\ Answered(call') /\ ~Armed(call') /\ call'.child = "closed"
        /\ call'.escalating = call.escalating /\ call'.sent = call.sent
        /\ call'.cancelled = call.cancelled
        /\ call'.answer = "cancelled" => call.cancelled
    BY <1>2, CloseGives DEF ChildCloses, Sound
  <2>2. QED
    BY <2>1 DEF Kept, Sound, Answered, Escalates, Attached, Armed
<1>3. QED
  BY <1>1, <1>2

LEMMA KeptByTimers ==
  ASSUME Sound(call), GraceElapses \/ WatchdogFires
  PROVE  Kept
<1>1. CASE GraceElapses
  <2> DEFINE due == [call EXCEPT !.killTimer = FALSE]
  <2>1. /\ call \in Calls /\ ~Settled(call) /\ call.child = "open" /\ call.escalating
        /\ ~call.watchdog /\ call.sent = {"SIGINT"}
    BY <1>1 DEF GraceElapses, Sound, Answered, Escalates, Attached, Armed, Signals
  <2>2. Deliverable(due, "SIGKILL") /\ due.cancelled = call.cancelled /\ due.listening = call.listening
    BY <2>1 DEF Deliverable, Calls, Settled
  <2>3. call' \in TryDeliverSignal(due, "SIGKILL")
    BY <1>1 DEF GraceElapses
  <2> HIDE DEF due
  <2>4. QED
    BY <2>2, <2>3, DeliverGives DEF Kept
<1>2. CASE WatchdogFires
  <2> DEFINE result == IF call.cancelled THEN "cancelled" ELSE "exit_failure"
             answer == IF call.failed THEN "callback_failed" ELSE result
  <2>1. answer \in Answers /\ answer # "completed" /\ (answer = "cancelled" => call.cancelled)
    BY DEF Answers, Results, Rejections
  <2>2. ~Settled(call) /\ "SIGKILL" \in call.sent
    BY <1>2 DEF WatchdogFires, Sound, Answered, Escalates, Armed, Signals
  <2>3. call' = Settle(call, answer)
    BY <1>2 DEF WatchdogFires, Finish
  <2> HIDE DEF answer
  <2>4. QED
    BY <2>1, <2>2, <2>3, SettleKeeps
<1>3. QED
  BY <1>1, <1>2

LEMMA KeptBySupervision ==
  ASSUME Sound(call), Supervision(Aborted)
  PROVE  Kept
BY KeptByErrors, KeptByCallbackThrows, KeptByClose, KeptByTimers DEF Supervision

-----------------------------------------------------------------------------
(* The inductive invariant *)

LEMMA NoCallSound == Sound(NoCall) /\ ~Settled(NoCall) /\ OnAbort(NoCall) = {NoCall}
BY DEF NoCall, Sound, Calls, Children, Stages, Signals, Answered, Escalates, Attached, Armed,
       Settled, OnAbort

LEMMA InitIInv == Init => IInv
<1> SUFFICES ASSUME Init PROVE IInv
  OBVIOUS
<1>1. Sound(call) /\ call \in Calls
  BY NoCallSound DEF Init, Sound
<1>2. TypeOK
  BY <1>1 DEF Init, TypeOK
<1>3. Placed
  BY DEF Init, Placed, Aborted, NoCall
<1>4. QED
  BY <1>1, <1>2, <1>3 DEF IInv

\* What an abort of the phase leaves: a cause, and a call that does not listen.
LEMMA RecordGives ==
  ASSUME IInv, NEW next \in {"deadline", "external"}, RecordCause(next)
  PROVE  /\ Sound(call') /\ cause' = IF Aborted THEN cause ELSE next
         /\ Aborted' /\ ~call'.listening
         /\ call = NoCall => call' = NoCall
<1>1. CASE Aborted
  BY <1>1 DEF RecordCause, Aborted, IInv, Placed
<1>2. CASE ~Aborted
  <2>1. cause' = next /\ call' \in OnAbort(call)
    BY <1>2 DEF RecordCause
  <2>2. call = NoCall => call' = NoCall
    BY <2>1, NoCallSound
  <2>3. QED
    BY <1>2, <2>1, <2>2, AbortGives DEF IInv, Aborted
<1>3. QED
  BY <1>1, <1>2

LEMMA IInvCauses ==
  ASSUME IInv, BeginPhase \/ UserAborts \/ DeadlineFires
  PROVE  IInv'
<1> USE DEF BeginPhase, UserAborts, DeadlineFires
<1>1. /\ userAborted' \in BOOLEAN /\ deadlineOn' \in BOOLEAN
      /\ pc' = IF pc = "new" /\ BeginPhase THEN "running" ELSE pc
      /\ UNCHANGED outcome
  BY DEF IInv, TypeOK
<1>2. deadlineOn' => pc' \in {"running", "spawned", "saving"}
  BY DEF IInv, TypeOK
<1>3. CASE UNCHANGED <<cause, call>>
  <2>1. TypeOK'
    BY <1>1, <1>2, <1>3 DEF IInv, TypeOK
  <2>2. Placed'
    BY <1>1, <1>3 DEF IInv, Placed, Aborted
  <2>3. Sound(call)'
    BY <1>3 DEF IInv
  <2>4. QED
    BY <2>1, <2>2, <2>3 DEF IInv
<1>4. ASSUME NEW next \in {"deadline", "external"}, RecordCause(next)
      PROVE  IInv'
  <2>1. /\ Sound(call') /\ cause' \in {"deadline", "external"}
        /\ Aborted' /\ ~call'.listening
        /\ call = NoCall => call' = NoCall
    BY <1>4, RecordGives DEF IInv, TypeOK, Aborted
  <2>2. TypeOK'
    BY <1>1, <1>2, <2>1 DEF IInv, TypeOK, Sound
  <2>3. pc' # "new"
    BY <2>1 DEF IInv, TypeOK, Placed, Aborted
  <2>4. Placed'
    BY <1>1, <2>1, <2>3 DEF IInv, Placed, TypeOK
  <2>5. QED
    BY <2>1, <2>2, <2>4 DEF IInv
<1>5. QED
  BY <1>3, <1>4

\* A call begins with nothing, with an answer, or with a child it listens to the
\* signal for.
LEMMA StartGives ==
  ASSUME call = NoCall, StartCall(Aborted)
  PROVE  /\ Sound(call') /\ ~call'.cancelled
         /\ call'.answer = "cancelled" => Aborted
         /\ call'.listening => ~Aborted
<1>1. CASE call' = [call EXCEPT !.child = "unborn"]
  BY <1>1 DEF NoCall, Sound, Calls, Children, Stages, Signals, Answered, Escalates, Attached,
              Armed, Settled
<1>2. CASE ~Aborted /\ call' = [call EXCEPT !.child = "open", !.listening = TRUE]
  BY <1>2 DEF NoCall, Sound, Calls, Children, Stages, Signals, Answered, Escalates, Attached,
              Armed, Settled
<1>3. ASSUME NEW answer \in {"cancelled", "spawn_failed"}, call' = Settle(call, answer),
             answer = "cancelled" => Aborted
      PROVE  /\ Sound(call') /\ ~call'.cancelled /\ ~call'.listening
             /\ call'.answer = "cancelled" => Aborted
  <2>1. call' = [call EXCEPT !.answer = answer, !.listening = FALSE, !.killTimer = FALSE,
                             !.watchdog = FALSE]
    BY <1>3, NoCallSound DEF Settle
  <2>2. QED
    BY <1>3, <2>1
    DEF NoCall, Sound, Calls, Children, Stages, Signals, Answered, Escalates, Attached, Armed,
        Settled, Answers, Results, Rejections
<1>4. QED
  BY <1>1, <1>2, <1>3 DEF StartCall, NoCall

LEMMA IInvEnd ==
  ASSUME IInv, pc # "new", NEW o \in Outcomes, EndWith(o)
  PROVE  IInv'
BY DEF EndWith, IInv, TypeOK, Placed, Aborted, Outcomes

LEMMA ErrorOutcomes == TypeOK => OutcomeOfError \in Outcomes /\ OutcomeOfResult \in Outcomes
BY DEF TypeOK, OutcomeOfError, OutcomeOfResult, Outcomes, Aborted

LEMMA IInvPhase ==
  ASSUME IInv, SpawnProvider \/ RunReturns \/ SaveTermination
  PROVE  IInv'
<1>1. ASSUME NEW o \in {OutcomeOfError, OutcomeOfResult, "unsaved"}, EndWith(o)
      PROVE  IInv'
  <2>1. o \in Outcomes
    BY <1>1, ErrorOutcomes DEF IInv, Outcomes
  <2>2. QED
    BY <1>1, <2>1, IInvEnd DEF SpawnProvider, RunReturns, SaveTermination
<1>2. CASE /\ pc = "running" /\ StartCall(Aborted) /\ pc' = "spawned"
           /\ UNCHANGED <<cause, deadlineOn, userAborted, outcome>>
  <2>1. /\ Sound(call') /\ ~call'.cancelled
        /\ call'.answer = "cancelled" => Aborted
        /\ call'.listening => ~Aborted
    BY <1>2, StartGives DEF IInv, Placed
  <2>2. TypeOK'
    BY <1>2, <2>1 DEF IInv, TypeOK, Sound
  <2>3. Placed'
    BY <1>2, <2>1 DEF IInv, Placed, Aborted
  <2>4. QED
    BY <2>1, <2>2, <2>3 DEF IInv
<1>3. CASE /\ pc = "spawned" /\ call.answer = "cancelled" /\ pc' = "saving"
           /\ UNCHANGED <<call, cause, deadlineOn, userAborted, outcome>>
  BY <1>3 DEF IInv, TypeOK, Placed, Aborted
<1>4. QED
  BY <1>1, <1>2, <1>3 DEF SpawnProvider, RunReturns, SaveTermination

LEMMA IInvSupervise ==
  ASSUME IInv, Supervise
  PROVE  IInv'
<1>1. Kept
  BY KeptBySupervision DEF IInv, Supervise
<1>2. call # NoCall
  BY DEF Supervise, Supervision, SpawnFails, ChildErrs, CallbackThrows, ChildCloses,
         GraceElapses, WatchdogFires, NoCall
<1>3. TypeOK'
  BY <1>1 DEF Supervise, phaseVars, Kept, Sound, IInv, TypeOK
<1>4. Placed'
  BY <1>1, <1>2 DEF Supervise, phaseVars, Kept, IInv, Placed, Aborted
<1>5. QED
  BY <1>1, <1>3, <1>4 DEF Kept, IInv

LEMMA IInvStep == IInv /\ [Next]_vars => IInv'
<1> SUFFICES ASSUME IInv, [Next]_vars PROVE IInv'
  OBVIOUS
<1>1. CASE UNCHANGED vars
  BY <1>1 DEF vars, IInv, TypeOK, Placed, Aborted
<1>2. CASE Next
  BY <1>2, IInvCauses, IInvPhase, IInvSupervise DEF Next
<1>3. QED
  BY <1>1, <1>2

-----------------------------------------------------------------------------
(* What the caller and the turn are told *)

\* The invariant holds of every reachable state: the call is sound, and the phase
\* knows of every abort the supervisor was told of.
THEOREM PhaseRunInvariant == Spec => []IInv
BY InitIInv, IInvStep, PTL DEF Spec

\* Every variable keeps its type, and the deadline timer does not outlive runPhase.
THEOREM TypeCorrect == Spec => []TypeOK
<1>1. IInv => TypeOK
  BY DEF IInv
<1>2. QED
  BY <1>1, PhaseRunInvariant, PTL

\* A result is only believed of a provider that ran to its end undisturbed.
THEOREM HonestAnswerHolds == Spec => []HonestAnswer
<1>1. IInv => HonestAnswer
  BY DEF IInv, Sound, Answered, HonestAnswer
<1>2. QED
  BY <1>1, PhaseRunInvariant, PTL

\* The caller is told of no early end of a provider that SIGKILL was not tried on.
THEOREM NoChildAbandonedHolds == Spec => []NoChildAbandoned
<1>1. IInv => NoChildAbandoned
  BY DEF IInv, Sound, Answered, NoChildAbandoned
<1>2. QED
  BY <1>1, PhaseRunInvariant, PTL

\* A close is never lost, also when it comes inside kill().
THEOREM CloseSettlesHolds == Spec => []CloseSettles
<1>1. IInv => CloseSettles
  BY DEF IInv, Sound, Answered, CloseSettles
<1>2. QED
  BY <1>1, PhaseRunInvariant, PTL

\* Nothing is left armed once the call has its answer.
THEOREM QuietAfterAnswerHolds == Spec => []QuietAfterAnswer
<1>1. IInv => QuietAfterAnswer
  BY DEF IInv, Sound, Answered, Armed, QuietAfterAnswer
<1>2. QED
  BY <1>1, PhaseRunInvariant, PTL

\* An escalation that has not been answered has a timer to end it, and SIGKILL is
\* only sent after SIGINT: what the end of a stopped phase rests on.
KillIsTimed ==
  /\ call.escalating /\ ~Settled(call) => call.killTimer \/ call.watchdog
  /\ ~(call.killTimer /\ call.watchdog)
  /\ "SIGKILL" \in call.sent => "SIGINT" \in call.sent

\* A provider that is being stopped, for whatever reason, is never left to itself.
THEOREM KillIsTimedHolds == Spec => []KillIsTimed
<1>1. IInv => KillIsTimed
  BY DEF IInv, Sound, Escalates, Signals, KillIsTimed
<1>2. QED
  BY <1>1, PhaseRunInvariant, PTL

\* A call that has its answer is over: no later event changes the answer, and no
\* signal is sent any more to a process id that may be another process by then.
AnsweredIsOver ==
  [][Settled(call) => call'.answer = call.answer /\ call'.sent = call.sent]_vars

LEMMA OverStep ==
  ASSUME IInv, Settled(call), [Next]_vars
  PROVE  call'.answer = call.answer /\ call'.sent = call.sent
<1>1. call # NoCall /\ call \in Calls /\ ~Armed(call)
  BY NoCallSound DEF IInv, Sound, Answered
<1>2. ASSUME NEW next, RecordCause(next)
      PROVE  call' = call
  BY <1>1, <1>2 DEF RecordCause, OnAbort, Armed
<1>3. CASE BeginPhase \/ UserAborts \/ DeadlineFires
  BY <1>2, <1>3 DEF BeginPhase, UserAborts, DeadlineFires
<1>4. CASE SpawnProvider \/ RunReturns \/ SaveTermination
  BY <1>1, <1>4 DEF SpawnProvider, RunReturns, SaveTermination, EndWith, IInv, Placed
<1>5. CASE Supervise
  <2>1. call' = [call EXCEPT !.child = "closed"]
    BY <1>1, <1>5
    DEF Supervise, Supervision, SpawnFails, ChildErrs, CallbackThrows, ChildCloses,
        GraceElapses, WatchdogFires, Armed
  <2>2. QED
    BY <1>1, <2>1 DEF Calls
<1>6. CASE UNCHANGED vars
  BY <1>6 DEF vars
<1>7. QED
  BY <1>3, <1>4, <1>5, <1>6 DEF Next

\* The answer of a call is final, and its signals are over with it.
THEOREM AnsweredIsOverHolds == Spec => AnsweredIsOver
<1>1. IInv /\ [Next]_vars =>
        [Settled(call) => call'.answer = call.answer /\ call'.sent = call.sent]_vars
  BY OverStep
<1>2. QED
  BY <1>1, PhaseRunInvariant, PTL DEF Spec, AnsweredIsOver

-----------------------------------------------------------------------------
(* The refinement of PhaseOutcome *)

LEMMA PhaseInit == Init => Phase!Init
BY DEF Init, Phase!Init

\* A cause is recorded once, and only while the phase has no outcome.
LEMMA PhaseStops ==
  ASSUME IInv, BeginPhase \/ UserAborts \/ DeadlineFires
  PROVE  Phase!Next \/ UNCHANGED <<cause, outcome>>
<1>1. CASE UNCHANGED cause
  BY <1>1 DEF BeginPhase, UserAborts, DeadlineFires
<1>2. ASSUME NEW next \in {"deadline", "external"}, RecordCause(next), pc # "ended",
             UNCHANGED outcome
      PROVE  Phase!Stop \/ UNCHANGED <<cause, outcome>>
  BY <1>2 DEF RecordCause, Aborted, IInv, Placed, Phase!Stop, Phase!Causes
<1>3. QED
  BY <1>1, <1>2 DEF BeginPhase, UserAborts, DeadlineFires, IInv, TypeOK, Phase!Next

\* The outcome is one that the cause of that moment allows.
LEMMA PhaseEndsWith ==
  ASSUME IInv, pc # "ended",
         NEW o \in {OutcomeOfError, OutcomeOfResult, "unsaved"}, EndWith(o),
         o = "unsaved" => Aborted
  PROVE  Phase!Next
<1>1. o \in Phase!OutcomesOf(cause)
  BY DEF OutcomeOfError, OutcomeOfResult, Aborted, IInv, TypeOK, Phase!OutcomesOf
<1>2. QED
  BY <1>1 DEF EndWith, IInv, Placed, Phase!Next, Phase!End

LEMMA PhaseStep == IInv /\ [Next]_vars => [Phase!Next]_<<cause, outcome>>
<1> SUFFICES ASSUME IInv, [Next]_vars PROVE [Phase!Next]_<<cause, outcome>>
  OBVIOUS
<1>1. CASE UNCHANGED vars
  BY <1>1 DEF vars
<1>2. CASE BeginPhase \/ UserAborts \/ DeadlineFires
  BY <1>2, PhaseStops
<1>3. CASE SpawnProvider \/ RunReturns \/ SaveTermination
  <2>1. CASE UNCHANGED <<cause, outcome>>
    BY <2>1
  <2>2. ASSUME NEW o \in {OutcomeOfError, OutcomeOfResult, "unsaved"}, EndWith(o),
               pc # "ended", o = "unsaved" => Aborted
        PROVE  Phase!Next
    BY <2>2, PhaseEndsWith
  <2>3. QED
    BY <1>3, <2>1, <2>2, Z3
    DEF SpawnProvider, RunReturns, SaveTermination, IInv, Placed, OutcomeOfError, OutcomeOfResult
<1>4. CASE Supervise
  BY <1>4 DEF Supervise, phaseVars
<1>5. QED
  BY <1>1, <1>2, <1>3, <1>4 DEF Next

\* The phase implements PhaseOutcome: the first cause decides what the turn is told,
\* whatever the provider and its process do meanwhile.
THEOREM FirstCauseDecidesHolds == Spec => FirstCauseDecides
BY PhaseInit, PhaseStep, PhaseRunInvariant, PTL DEF Spec, FirstCauseDecides, Phase!Spec

=============================================================================

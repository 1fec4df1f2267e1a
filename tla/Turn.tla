-------------------------------- MODULE Turn --------------------------------
(***************************************************************************)
(* A turn of a conversation: send and ask of controller.ts, with runReview *)
(* and remediate, the review gate of review-policy.ts, the assignment of   *)
(* reviewers of orchestration.ts, and the save of session-store.ts.        *)
(*                                                                         *)
(* Terminals are processes that have opened the same session in the same   *)
(* directory.  Nothing keeps them apart: each has a copy of the session,   *)
(* which it saves under the revision it knows, and each runs providers that*)
(* edit the directory, as does the user.                                   *)
(*                                                                         *)
(* A fingerprint is the content of the directory; handoff.md is not part of*)
(* it and left out.  A phase is what PhaseOutcome says of it: stopped by a *)
(* cause, in which case the message about it may fail to be saved, or else *)
(* over with a result or an error.  Steps of one process that no other can *)
(* tell apart are one step.                                                *)
(***************************************************************************)
EXTENDS Naturals, Sequences, SequencesExt

CONSTANTS Terminals, Contents,
          Active,     \* the terminals that take turns; the others only use commands
          Primaries,  \* the families of the models that are asked
          MaxUses     \* a bound on turns and commands

Unmeasurable == "unmeasurable"
Codex == {"Sol", "Terra", "Luna"}
Families == Codex \cup {"Claude", "CursorFable", "Other"}

ASSUME TurnAssumption ==
  /\ Active \subseteq Terminals
  /\ Unmeasurable \notin Contents
  /\ Primaries \subseteq Families
  /\ MaxUses \in Nat

VARIABLES workspace,  \* the content of the directory
          sess,       \* the stored session, and the copy of each terminal
          turn,       \* per terminal, its present or last turn
          uses        \* how many turns and commands there were

vars == <<workspace, sess, turn, uses>>

\* op, mode, model: the call, and the family of the producer
\* attempt: which producer of the turn this is
\* live: a writing provider was spawned      aborted: the signal of the call
\* before, found, packet: the fingerprint at the start, the last one measured,
\* and the one in the review packet         touched: a producer wrote something
\* last: how the last phase of the producer ended
Turns ==
  [ pc : {"idle", "opening", "producing", "falling_back", "review_due", "reviewing",
          "remediating", "gate"},
    op : {"send", "ask"}, mode : {"plan", "agent"}, model : Families, attempt : 1..3,
    live : BOOLEAN, aborted : BOOLEAN, touched : BOOLEAN,
    before : Contents \cup {Unmeasurable}, found : Contents \cup {Unmeasurable},
    packet : Contents \cup {Unmeasurable},
    last : {"none", "result", "unavailable", "error", "deadline", "cancelled", "unsaved"},
    verdict : {"none", "PASS", "CHANGES_REQUIRED", "REVIEW_BLOCKED"}, reviews : 0..2,
    outcome : {"none", "delivered", "failed"} ]

Copies == [rev : Nat, log : Seq(Terminals)]

\* Each variable is of its type, every fingerprint that is known is a content,
\* and a provider is live only in a phase that may write.
TypeOK ==
  /\ workspace \in Contents
  /\ sess \in [stored : Copies, mem : [Terminals -> Copies]]
  /\ turn \in [Terminals -> Turns]
  /\ uses \in 0..MaxUses
  /\ \A t \in Terminals :
       /\ turn[t].live => turn[t].pc \in {"producing", "remediating"}
       /\ turn[t].pc = "reviewing" => turn[t].packet # Unmeasurable

NoTurn(found) ==
  [ pc |-> "idle", op |-> "send", mode |-> "plan", model |-> "Sol", attempt |-> 1,
    live |-> FALSE, aborted |-> FALSE, touched |-> FALSE,
    before |-> found, found |-> found, packet |-> Unmeasurable, last |-> "none",
    verdict |-> "none", reviews |-> 0, outcome |-> "none" ]

Init ==
  /\ workspace \in Contents
  /\ sess = [ stored |-> [rev |-> 0, log |-> <<>>],
              mem |-> [t \in Terminals |-> [rev |-> 0, log |-> <<>>]] ]
  /\ turn = [t \in Terminals |-> NoTurn(Unmeasurable)]
  /\ uses = 0

-----------------------------------------------------------------------------
(* Sessions *)

\* session.messages.push; a message is known by the terminal it is from.
Push(s, t) == [s EXCEPT !.mem[t].log = Append(@, t)]

Written(s, t) == [s EXCEPT !.stored = [rev |-> @.rev + 1, log |-> s.mem[t].log]]

\* A variant that writes whatever revision the copy is of.
SavesAnyRevision(s, t) ==
  { [sess |-> [Written(s, t) EXCEPT !.mem[t].rev = s.stored.rev + 1], ok |-> TRUE],
    [sess |-> s, ok |-> FALSE] }

\* A variant that waits for its revision to be the current one.
SavesInTime(s, t) ==
  IF s.mem[t].rev # s.stored.rev THEN {}
  ELSE { [sess |-> [Written(s, t) EXCEPT !.mem[t].rev = @ + 1], ok |-> TRUE] }

\* save: refused for a stale revision, for the fence or for a lock, or written
\* under the revision of the copy, which then advances unless the release of a
\* lock fails after the write.
Saves(s, t) ==
  { [sess |-> s, ok |-> FALSE] } \cup
  (IF s.mem[t].rev # s.stored.rev THEN {}
   ELSE { [sess |-> [Written(s, t) EXCEPT !.mem[t].rev = @ + 1], ok |-> TRUE],
          [sess |-> Written(s, t), ok |-> FALSE] })

PushAndSave(s, t) == Saves(Push(s, t), t)

\* resume: the copy is loaded again.
Resume(t) ==
  /\ turn[t].pc = "idle"
  /\ sess.mem[t] # sess.stored
  /\ sess' = [sess EXCEPT !.mem[t] = sess.stored]
  /\ turn' = [turn EXCEPT ![t].outcome = "none"]
  /\ UNCHANGED <<workspace, uses>>

\* A command that adds to the conversation, such as branch.
Command(t) ==
  /\ turn[t].pc = "idle" /\ uses < MaxUses
  /\ uses' = uses + 1
  /\ \E r \in PushAndSave(sess, t) : sess' = r.sess
  /\ turn' = [turn EXCEPT ![t].outcome = "none"]
  /\ UNCHANGED workspace

-----------------------------------------------------------------------------
(* The directory *)

\* A measurement may fail: a file that changes under it, a budget, a permission.
Snapshots == {workspace, Unmeasurable}

\* A variant that takes what it could not measure for unchanged.
ClassifyEqual(before, after) == IF before = after \/ after = Unmeasurable THEN "unchanged" ELSE "changed"

\* classifyWorkspaceChange
Classify(before, after) ==
  IF Unmeasurable \in {before, after} THEN "unmeasurable"
  ELSE IF before = after THEN "unchanged" ELSE "changed"

\* The user, or what a provider left running.
OutsideEdit ==
  /\ workspace' \in Contents \ {workspace}
  /\ UNCHANGED <<sess, turn, uses>>

\* A provider at work.
Write(t) ==
  /\ turn[t].live /\ turn[t].mode = "agent"
  /\ workspace' \in Contents \ {workspace}
  /\ turn' = [turn EXCEPT ![t].touched = TRUE]
  /\ UNCHANGED <<sess, uses>>

-----------------------------------------------------------------------------
(* Models *)

\* A variant that has one reviewer for all but itself.
TerraReviews(family) == IF family = "Sol" THEN "CursorFable" ELSE "Terra"

\* reviewerFor; Claude models run on the claude and copilot providers.
ReviewerFor(family) ==
  IF family \in Codex THEN "CursorFable"
  ELSE IF family \in {"Claude", "CursorFable"} THEN "Terra" ELSE "Sol"

Stops == {"deadline", "cancelled"}

\* A variant that falls back on any error but a stop that is known as such, and
\* looks at the directory only once.
FallbackUnchecked(k, change) ==
  \/ /\ k.attempt = 1 /\ k.model = "Sol"
     /\ k.last \in {"unavailable", "unsaved"} /\ change = "unchanged"
  \/ k.attempt = 2 /\ k.model = "Claude" /\ k.last \notin Stops

\* The two conditions of send for another model: Sol must be unavailable by the text of
\* the error, and a session that could not be saved may read like that; Claude Code may
\* have failed in any way.
MayFallBack(k, change) ==
  /\ change = "unchanged" /\ k.last \notin Stops
  /\ \/ k.attempt = 1 /\ k.model = "Sol" /\ k.last \in {"unavailable", "unsaved"}
     \/ k.attempt = 2 /\ k.model = "Claude"

-----------------------------------------------------------------------------
(* Phases *)

\* A variant of HasSignal that passes it to the producer only, as send does.
ProducerHasSignal(k) == k.op = "ask" /\ k.pc # "remediating"

\* Whether the phase that k is in has the signal of the call.  The terminal calls
\* send without one; ask, which runs tasks, passes it to all but the review.
HasSignal(k) == k.op = "ask"

\* A writing phase begins; under an aborted signal nothing is spawned.
Enter(k, pc) ==
  LET entered == [k EXCEPT !.pc = pc] IN [entered EXCEPT !.live = ~(HasSignal(entered) /\ k.aborted)]

\* The end of the call.  Of a turn that failed only that is kept.
Over(k, outcome) ==
  IF outcome = "failed" THEN [NoTurn(Unmeasurable) EXCEPT !.outcome = "failed"]
  ELSE [k EXCEPT !.pc = "idle", !.live = FALSE, !.outcome = outcome]

\* How a phase may end without a result: [last, sess].  A stopped one has a message
\* to save, if its provider was terminated; if that fails, so does the phase.
Failures(k, t) ==
  LET free == ~(HasSignal(k) /\ k.aborted)
      causes == {"deadline"} \cup IF HasSignal(k) /\ k.aborted THEN {"cancelled"} ELSE {}
  IN (IF free THEN { [last |-> e, sess |-> sess] : e \in {"unavailable", "error"} } ELSE {})
     \cup { [last |-> c, sess |-> sess] : c \in causes }
     \cup { [last |-> IF r.ok THEN c ELSE "unsaved", sess |-> r.sess] :
              c \in causes, r \in PushAndSave(sess, t) }

Begin(t) ==
  /\ t \in Active /\ turn[t].pc = "idle" /\ uses < MaxUses
  /\ uses' = uses + 1
  /\ \E op \in {"send", "ask"}, mode \in {"plan", "agent"}, m \in Primaries, found \in Snapshots :
       turn' = [turn EXCEPT ![t] =
         [NoTurn(found) EXCEPT !.pc = "opening", !.op = op, !.mode = mode, !.model = m]]
  /\ UNCHANGED <<workspace, sess>>

\* send saves the message of the user before the producer starts.
Open(t) ==
  /\ turn[t].pc = "opening"
  /\ IF turn[t].op = "ask"
     THEN turn' = [turn EXCEPT ![t] = Enter(@, "producing")] /\ UNCHANGED sess
     ELSE \E r \in PushAndSave(sess, t) :
            /\ sess' = r.sess
            /\ turn' = [turn EXCEPT ![t] = IF r.ok THEN Enter(@, "producing") ELSE Over(@, "failed")]
  /\ UNCHANGED <<workspace, uses>>

\* The signal of an ask, until it returns.
Abort(t) ==
  /\ turn[t].pc # "idle" /\ turn[t].op = "ask" /\ ~turn[t].aborted
  /\ turn' = [turn EXCEPT ![t].aborted = TRUE]
  /\ UNCHANGED <<workspace, sess, uses>>

\* The catch blocks of send; ask has none.  fableFallback asks Claude Code for its
\* health, so the other model is Claude or Cursor, and a health check that throws ends
\* the turn; after Claude it is Cursor.
ProducerFails(t) ==
  /\ turn[t].pc = "producing"
  /\ \E f \in Failures(turn[t], t), found \in Snapshots :
       LET k == [turn[t] EXCEPT !.last = f.last, !.found = found, !.live = FALSE]
           again == k.op = "send" /\ MayFallBack(k, Classify(k.before, found))
       IN /\ sess' = f.sess
          /\ \/ /\ ~again \/ k.attempt = 1
                /\ turn' = [turn EXCEPT ![t] = Over(k, "failed")]
             \/ /\ again
                /\ \E m \in {"Claude", "CursorFable"} :
                     /\ k.attempt = 2 => m = "CursorFable"
                     /\ turn' = [turn EXCEPT ![t] =
                          [k EXCEPT !.pc = "falling_back", !.model = m, !.attempt = @ + 1]]
  /\ UNCHANGED <<workspace, uses>>

FallBack(t) ==
  /\ turn[t].pc = "falling_back"
  /\ turn' = [turn EXCEPT ![t] = Enter(@, "producing")]
  /\ UNCHANGED <<workspace, sess, uses>>

\* The answer is saved, then the directory decides whether it needs a review; plan
\* mode never does.
ProducerReturns(t) ==
  /\ turn[t].pc = "producing" /\ ~(HasSignal(turn[t]) /\ turn[t].aborted)
  /\ \E r \in PushAndSave(sess, t), found \in Snapshots :
       LET k == [turn[t] EXCEPT !.last = "result", !.found = found, !.live = FALSE]
           change == IF k.mode = "plan" THEN "unchanged" ELSE Classify(k.before, found)
       IN /\ sess' = r.sess
          /\ turn' = [turn EXCEPT ![t] =
               IF ~r.ok \/ change = "unmeasurable" THEN Over(k, "failed")
               ELSE IF change = "changed" THEN [k EXCEPT !.pc = "review_due"]
               ELSE Over(k, "delivered")]
  /\ UNCHANGED <<workspace, uses>>

-----------------------------------------------------------------------------
(* Review *)

\* After the review with verdict v: remediate once, then the gate.
Reviewed(k, v) ==
  LET seen == [k EXCEPT !.verdict = v, !.reviews = @ + 1]
  IN IF v = "CHANGES_REQUIRED" /\ k.reviews = 0 THEN Enter(seen, "remediating")
     ELSE [seen EXCEPT !.pc = "gate"]

\* How runReview may end, given the verdicts it may have come to: [sess, ok,
\* verdict].  Its catch turns a failed or stopped review, and a review that could
\* not be saved, into a blocked one, and saves that.
ReviewEnds(t, verdicts) ==
  LET interrupted == {sess} \cup { r.sess : r \in PushAndSave(sess, t) }
  IN { [sess |-> r.sess, ok |-> TRUE, verdict |-> v] :
         r \in { x \in PushAndSave(sess, t) : x.ok }, v \in verdicts }
     \cup { [sess |-> r.sess, ok |-> r.ok, verdict |-> "REVIEW_BLOCKED"] :
              r \in UNION { PushAndSave(s, t) : s \in interrupted } }

ReviewOver(t, verdicts) ==
  \E r \in ReviewEnds(t, verdicts) :
    /\ sess' = r.sess
    /\ turn' = [turn EXCEPT ![t] = IF r.ok THEN Reviewed(@, r.verdict) ELSE Over(@, "failed")]

\* A variant that sends out a packet without a fingerprint.
StartReviewBlind(t) ==
  /\ turn[t].pc = "review_due"
  /\ \E found \in Snapshots :
       turn' = [turn EXCEPT ![t].pc = "reviewing", ![t].packet = found]
  /\ UNCHANGED <<workspace, sess, uses>>

\* runReview freezes the fingerprint in its packet, or is blocked without one.
StartReview(t) ==
  /\ turn[t].pc = "review_due"
  /\ \/ /\ turn' = [turn EXCEPT ![t].pc = "reviewing", ![t].packet = workspace]
        /\ UNCHANGED sess
     \/ ReviewOver(t, {"REVIEW_BLOCKED"})
  /\ UNCHANGED <<workspace, uses>>

\* parseRuntimeReview: what is invalid, or from the family of the producer, is
\* blocked; and so is a review of a directory that has changed since.
Review(t) ==
  /\ turn[t].pc = "reviewing"
  /\ \E found \in Snapshots :
       ReviewOver(t, IF found = turn[t].packet /\ ReviewerFor(turn[t].model) # turn[t].model
                     THEN {"PASS", "CHANGES_REQUIRED", "REVIEW_BLOCKED"} ELSE {"REVIEW_BLOCKED"})
  /\ UNCHANGED <<workspace, uses>>

\* remediate saves its answer; the remediation of ask does not.
RemediationReturns(t) ==
  /\ turn[t].pc = "remediating" /\ ~(HasSignal(turn[t]) /\ turn[t].aborted)
  /\ LET k == [turn[t] EXCEPT !.live = FALSE]
     IN IF k.op = "ask"
        THEN turn' = [turn EXCEPT ![t] = [k EXCEPT !.pc = "review_due"]] /\ UNCHANGED sess
        ELSE \E r \in PushAndSave(sess, t) :
               /\ sess' = r.sess
               /\ turn' = [turn EXCEPT ![t] =
                    IF r.ok THEN [k EXCEPT !.pc = "review_due"] ELSE Over(k, "failed")]
  /\ UNCHANGED <<workspace, uses>>

RemediationFails(t) ==
  /\ turn[t].pc = "remediating"
  /\ \E f \in Failures(turn[t], t) :
       sess' = f.sess /\ turn' = [turn EXCEPT ![t] = Over(@, "failed")]
  /\ UNCHANGED <<workspace, uses>>

\* A variant that goes by the verdict alone.
VerdictPasses(k, found) == k.verdict = "PASS"

\* assertReviewPass
ReviewPasses(k, found) == k.verdict = "PASS" /\ found # Unmeasurable /\ found = k.packet

Gate(t) ==
  /\ turn[t].pc = "gate"
  /\ \E found \in Snapshots :
       LET k == [turn[t] EXCEPT !.found = found]
       IN turn' = [turn EXCEPT ![t] = Over(k, IF ReviewPasses(k, found) THEN "delivered" ELSE "failed")]
  /\ UNCHANGED <<workspace, sess, uses>>

-----------------------------------------------------------------------------

Run(t) ==
  \/ Open(t) \/ ProducerFails(t) \/ FallBack(t) \/ ProducerReturns(t)
  \/ StartReview(t) \/ Review(t) \/ RemediationReturns(t) \/ RemediationFails(t) \/ Gate(t)

Next ==
  \/ OutsideEdit
  \/ \E t \in Terminals : Begin(t) \/ Command(t) \/ Resume(t) \/ Abort(t) \/ Write(t) \/ Run(t)

\* A turn goes on: its calls return, and its phases end (PhaseEnds of PhaseRun).
Fairness == \A t \in Terminals : WF_vars(Run(t))

Spec == Init /\ [][Next]_vars /\ Fairness

-----------------------------------------------------------------------------
(* Properties *)

\* What is delivered of a turn that may write was measured, and either is as the
\* turn found it or has the PASS of a reviewer of another family, given for just
\* this content: edits of the user, of the other terminal and of the remediation
\* between the packet and the gate never slip through (README.md:342).
DeliveredIsReviewed ==
  \A t \in Terminals : LET k == turn[t] IN
    k.outcome = "delivered" /\ k.mode = "agent" =>
      /\ k.found # Unmeasurable
      /\ \/ k.found = k.before
         \/ k.verdict = "PASS" /\ k.packet = k.found /\ ReviewerFor(k.model) # k.model

\* All that a terminal knows of the conversation when a turn is delivered is
\* stored, and stays stored whatever the other terminal saves: a refused save,
\* also one inside the review, fails the turn.
SavedWhenDelivered ==
  \A t \in Terminals : turn[t].outcome = "delivered" => IsPrefix(sess.mem[t].log, sess.stored.log)

\* Messages that were saved are never lost to a save of another terminal.
StoredHistoryGrows == [][IsPrefix(sess.stored.log, sess'.stored.log)]_vars

\* Another model takes over only where no producer of the turn has left anything
\* in the directory, and never from one whose phase ended as stopped.  One that
\* was stopped, but whose message could not be saved, counts as failed: the code
\* sees the error of the save, and may fall back after all.
FallbackIsSafe ==
  \A t \in Terminals : LET k == turn[t] IN
    k.pc = "falling_back" => k.last \notin Stops /\ (k.touched => k.found = k.before)

\* The cancellation of a task is not outrun: once it has come, no producer and no
\* remediation of it is spawned, though the review in between does not see it.
CancelStopsWriters ==
  [][\A t \in Terminals : ~turn[t].live /\ turn'[t].live => ~turn[t].aborted]_vars

\* Each producer that gets as far as a review, the ones that took over included,
\* has a reviewer whose PASS can count.
ReviewerIsOther ==
  \A t \in Terminals : turn[t].pc = "reviewing" => ReviewerFor(turn[t].model) # turn[t].model

\* A turn ends: fallbacks, review, remediation and second review are no cycle, and
\* no save is waited for.
TurnEnds == \A t \in Terminals : turn[t].pc # "idle" ~> turn[t].pc = "idle"
=============================================================================

---------------------------- MODULE PhaseOutcome ----------------------------
(***************************************************************************)
(* What a phase of a turn promises to the turn: the first reason to stop   *)
(* is the reason that is reported, and a phase that was stopped has no     *)
(* result, however late or early its provider answered.                    *)
(***************************************************************************)
VARIABLES cause, outcome

Causes == {"deadline", "external"}

\* How a phase may end once the cause is known: "unsaved" is the failure to
\* save the message that says why the provider was terminated.
OutcomesOf(c) ==
  CASE c = "none"     -> {"result", "error"}
    [] c = "deadline" -> {"deadline", "unsaved"}
    [] c = "external" -> {"cancelled", "unsaved"}

Init == cause = "none" /\ outcome = "running"

Stop == /\ cause = "none" /\ outcome = "running"
        /\ cause' \in Causes
        /\ UNCHANGED outcome

End == /\ outcome = "running"
       /\ outcome' \in OutcomesOf(cause)
       /\ UNCHANGED cause

Next == Stop \/ End
Spec == Init /\ [][Next]_<<cause, outcome>>
=============================================================================

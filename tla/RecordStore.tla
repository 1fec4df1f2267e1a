---------------------------- MODULE RecordStore ----------------------------
(***************************************************************************)
(* What StateRepository promises of one record: it is read at any time and *)
(* replaced in one step, by a caller whose copy is current; an error means *)
(* nothing about what was written.  TaskEngine takes its store calls to be *)
(* of this kind, an answer that is lost being an error of the next step;   *)
(* RecordLock implements them.                                             *)
(***************************************************************************)
CONSTANT Processes

VARIABLES
  fresh,    \* the processes whose copy of the record is the current one
  reply     \* reply[p]: what became of p's last replace

vars == <<fresh, reply>>

Init ==
  /\ fresh = {}
  /\ reply = [p \in Processes |-> "none"]

Answer(p, answer) == reply' = [reply EXCEPT ![p] = answer]

Load(p) == fresh' = fresh \cup {p} /\ UNCHANGED reply

Call(p) == Answer(p, "pending") /\ UNCHANGED fresh

\* Of several callers that share a revision, one wins.
Win(p) ==
  /\ reply[p] = "pending"
  /\ p \in fresh
  /\ fresh' = {p}
  /\ Answer(p, "saved")

Lose(p) ==
  /\ reply[p] = "pending"
  /\ p \notin fresh
  /\ Answer(p, "stale")
  /\ UNCHANGED fresh

\* Contention, I/O: the call throws, and the record is as it was.
Fail(p) ==
  /\ reply[p] = "pending"
  /\ Answer(p, "failed")
  /\ UNCHANGED fresh

\* The record is replaced, and the call throws all the same.
Doubt(p) ==
  /\ reply[p] = "pending"
  /\ p \in fresh
  /\ fresh' = {}
  /\ Answer(p, "failed")

\* An answer that was ready is lost.
Mislay(p) ==
  /\ reply[p] \in {"saved", "stale"}
  /\ Answer(p, "failed")
  /\ fresh' = fresh \ {p}

\* The caller turns to something else.
Rest(p) ==
  /\ reply[p] # "pending"
  /\ Answer(p, "none")
  /\ UNCHANGED fresh

\* The process dies.
Die(p) ==
  /\ fresh' = fresh \ {p}
  /\ Answer(p, IF reply[p] = "pending" THEN "failed" ELSE reply[p])

Next ==
  \E p \in Processes :
    \/ Load(p) \/ Call(p) \/ Win(p) \/ Lose(p)
    \/ Fail(p) \/ Doubt(p) \/ Mislay(p) \/ Die(p) \/ Rest(p)

Spec == Init /\ [][Next]_vars
=============================================================================

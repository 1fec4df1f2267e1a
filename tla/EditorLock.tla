----------------------------- MODULE EditorLock -----------------------------
(***************************************************************************)
(* What the lock of a directory promises to the tasks that edit it in      *)
(* place: it has one holder, which keeps it until it lets go of it or      *)
(* dies, and it is never taken from a holder that lives.                   *)
(***************************************************************************)
CONSTANTS Workers, Nobody

VARIABLES
  holder,   \* who has the lock
  gone      \* the workers whose process has ended

vars == <<holder, gone>>

Init == holder = Nobody /\ gone = {}

Take(w) == holder \in {Nobody} \cup gone /\ w \notin gone /\ holder' = w /\ UNCHANGED gone

\* The call that takes the lock reports an error, and its process ends.
TakeAndGo(w) ==
  /\ holder \in {Nobody} \cup gone /\ w \notin gone
  /\ holder' = w /\ gone' = gone \cup {w}

LetGo(w) == holder = w /\ holder' = Nobody /\ gone' = gone \cup {w}

Die(w) == gone' = gone \cup {w} /\ UNCHANGED holder

\* A worker that left no lock stands for a later one.
Come(w) == w \in gone /\ holder # w /\ gone' = gone \ {w} /\ UNCHANGED holder

Next == \E w \in Workers : Take(w) \/ TakeAndGo(w) \/ LetGo(w) \/ Die(w) \/ Come(w)

Spec == Init /\ [][Next]_vars
=============================================================================

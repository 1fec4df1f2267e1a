---------------------------- MODULE MCTaskEngine ----------------------------
(***************************************************************************)
(* Small instances of TaskEngine for TLC.                                  *)
(***************************************************************************)
EXTENDS TaskEngine, TLC

CONSTANTS t1, t2, w1, w2, r1, r2, here, there

NoDeps == [t \in Tasks |-> {}]

\* t2 depends on t1.
Chain == [t \in Tasks |-> IF t = t2 THEN {t1} ELSE {}]

OneAttempt == [t \in Tasks |-> 1]

\* t1 may be retried once.
RetryFirst == [t \in Tasks |-> IF t = t1 THEN 2 ELSE 1]

OneHost == [a \in Actors |-> here]

\* w2 works on another host than everybody else.
TwoHosts == [a \in Actors |-> IF a = w2 THEN there ELSE here]

SymmetricRuns == Permutations(Runs)
=============================================================================

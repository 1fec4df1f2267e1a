---------------------------- MODULE MCRecordLock ----------------------------
(***************************************************************************)
(* Small instances of RecordLock for TLC.                                  *)
(***************************************************************************)
EXTENDS RecordLock

CONSTANTS p1, p2, p3, here, there

\* p3 works on another host.
TwoHosts == [p \in Processes |-> IF p = p3 THEN there ELSE here]

OneHost == [p \in Processes |-> here]
=============================================================================

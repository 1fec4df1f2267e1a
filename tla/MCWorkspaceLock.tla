--------------------------- MODULE MCWorkspaceLock ---------------------------
(***************************************************************************)
(* Small instances of WorkspaceLock for TLC.                               *)
(***************************************************************************)
EXTENDS WorkspaceLock

CONSTANTS w1, w2, w3, here, there

\* w3 works on another host.
TwoHosts == [w \in Workers |-> IF w = w3 THEN there ELSE here]
=============================================================================

---------------------------- MODULE MCLeaseLock ----------------------------
(***************************************************************************)
(* Small instances of LeaseLock for TLC.                                   *)
(***************************************************************************)
EXTENDS LeaseLock

CONSTANTS here

OneHost == [p \in Processes |-> here]
=============================================================================

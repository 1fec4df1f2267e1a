---------------------------- MODULE MCTaskFiles ----------------------------
(***************************************************************************)
(* Small instances of TaskFiles for TLC.                                   *)
(***************************************************************************)
EXTENDS TaskFiles, MCTaskEngine
=============================================================================

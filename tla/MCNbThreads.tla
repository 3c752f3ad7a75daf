---------------------------- MODULE MCNbThreads ----------------------------
(***************************************************************************)
(* Small instances of NbThreads for TLC.                                   *)
(***************************************************************************)
EXTENDS NbThreads
=============================================================================

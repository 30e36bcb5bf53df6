---------------------------- MODULE MCScheduling ----------------------------
(***************************************************************************)
(* TLC instances of Scheduling.                                            *)
(***************************************************************************)
EXTENDS Scheduling
=============================================================================

-------------------------- MODULE MCCheckService --------------------------
(***************************************************************************)
(* TLC instances of CheckService.  Workers are interchangeable; sources    *)
(* are not (they are awaited in key order), nor are the callers.           *)
(***************************************************************************)
EXTENDS CheckService, TLC

WorkerSymmetry == Permutations(Worker)
=============================================================================

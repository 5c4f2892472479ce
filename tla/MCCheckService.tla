---------------------------- MODULE MCCheckService ----------------------------
(***************************************************************************)
(* CheckService for TLC.                                                   *)
(***************************************************************************)
EXTENDS CheckService, TLC

\* Threads are alike.
Interchangeable == Permutations(Threads)
===============================================================================

----------------------------- MODULE MCFixSession -----------------------------
(***************************************************************************)
(* FixSession for TLC.                                                     *)
(***************************************************************************)
EXTENDS FixSession, TLC

\* Request threads are alike.
Interchangeable == Permutations(Requests)
===============================================================================

-------------------------- MODULE MCTaskLifecycle --------------------------
(* Instances of TaskLifecycle for TLC.                                     *)
EXTENDS TaskLifecycle

CONSTANTS t1, t2

\* All the tasks in one repository.
OneRepo == [t \in Tasks |-> "repo"]

\* t1 first, then t2.
Order == [t \in Tasks |-> IF t = t1 THEN 1 ELSE 2]

\* The urgent t2 first.
Reverse == [t \in Tasks |-> IF t = t2 THEN 1 ELSE 2]
=============================================================================

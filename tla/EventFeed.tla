------------------------------ MODULE EventFeed ------------------------------
(***************************************************************************)
(* What the event log of a task promises the readers that follow it with a *)
(* cursor: rows get rising identifiers, rows may be deleted, and a reading *)
(* hands over every row there is between the old and the new cursor. How   *)
(* rows come about, what they say, which are deleted and how much one      *)
(* reading takes are left open.                                            *)
(***************************************************************************)
EXTENDS Naturals

CONSTANT Readers    \* the readers of the log

VARIABLES
    rows,     \* identifiers of the rows there are
    issued,   \* the largest identifier given out
    cursor,   \* reader -> the last identifier it has come to
    got       \* reader -> identifiers it was handed

fvars == <<rows, issued, cursor, got>>

FInit ==
    /\ issued \in Nat /\ rows = 1..issued
    /\ cursor = [r \in Readers |-> 0] /\ got = [r \in Readers |-> {}]

Append ==
    /\ issued' \in Nat /\ issued < issued'
    /\ rows' = rows \cup (issued + 1)..issued'
    /\ UNCHANGED <<cursor, got>>

Forget ==
    /\ rows' \subseteq rows
    /\ UNCHANGED <<issued, cursor, got>>

Between(low, high) == {i \in rows : low < i /\ i <= high}
Read(r) ==
    \E n \in cursor[r]..issued :
        /\ cursor' = [cursor EXCEPT ![r] = n]
        /\ got' = [got EXCEPT ![r] = @ \cup Between(cursor[r], n)]
        /\ UNCHANGED <<rows, issued>>

FNext == Append \/ Forget \/ \E r \in Readers : Read(r)

FSpec == FInit /\ [][FNext]_fvars

-----------------------------------------------------------------------------
\* No reader is ever past a row that is still there and that it was not handed.
NothingSkipped == \A r \in Readers : \A i \in rows : i <= cursor[r] => i \in got[r]
=============================================================================

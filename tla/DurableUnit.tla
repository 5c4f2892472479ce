------------------------------ MODULE DurableUnit ------------------------------
(***************************************************************************)
(* What the durable cycle promises the command that invokes it.  However   *)
(* often a unit is interrupted, resumed, replayed or stopped, what it has   *)
(* done is a set of results, at most one for each slot of work, each about  *)
(* the files as they were when it was recorded.  A slot the unit has left   *)
(* behind is never worked on again, and only its result may be forgotten.   *)
(* What is delivered in the end is the recorded result of a closing slot,   *)
(* about the files that are delivered; after that nothing changes.          *)
(***************************************************************************)
CONSTANTS
    Contents,   \* what the files may hold
    Slots,      \* what there is to do
    Closing,    \* the slots whose result may be delivered
    Outcomes    \* what a result may say

VARIABLES
    files,      \* what the files hold
    done,       \* the results: a slot, the files it is about, an outcome
    behind,     \* the slots the unit has left for good
    delivered   \* open, blocked, or the outcome that was delivered

uvars == <<files, done, behind, delivered>>

Results == [slot : Slots, fp : Contents, outcome : Outcomes]

UInit ==
    /\ files \in Contents
    /\ done = {}
    /\ behind = {}
    /\ delivered = "open"

\* An agent or a tool changes the files.
Edit ==
    /\ files' \in Contents
    /\ UNCHANGED <<done, behind, delivered>>

\* The unit goes on: slots are left behind, and with them their results.
GoOn ==
    /\ behind \subseteq behind' /\ behind' \subseteq Slots
    /\ done' \subseteq done
    /\ \A r \in done \ done' : r.slot \in behind'
    /\ UNCHANGED <<files, delivered>>

\* A result is recorded: the first one of its slot, about the files as they are.
Complete(r) ==
    /\ r.fp = files
    /\ \A q \in done : q.slot # r.slot
    /\ done' = done \cup {r}
    /\ behind \subseteq behind' /\ behind' \subseteq Slots \ {r.slot}
    /\ UNCHANGED <<files, delivered>>

\* What was recorded about these very files is delivered.
Deliver ==
    /\ \E r \in done :
         r.slot \in Closing /\ r.fp = files /\ delivered' = r.outcome
    /\ UNCHANGED <<files, done, behind>>

\* The unit is given up.
Block ==
    /\ delivered' = "blocked"
    /\ UNCHANGED <<files, done, behind>>

UNext ==
    /\ delivered = "open"
    /\ Edit \/ GoOn \/ (\E r \in Results : Complete(r)) \/ Deliver \/ Block

USpec == UInit /\ [][UNext]_uvars

--------------------------------------------------------------------------------

\* No slot of work has two results, whatever was replayed.
OneResultEach == \A q, r \in done : q.slot = r.slot => q = r

\* What was delivered is a recorded result about the files that are there now.
DeliveredIsRecorded ==
    \/ delivered \in {"open", "blocked"}
    \/ \E r \in done : r.slot \in Closing /\ r.fp = files /\ r.outcome = delivered
================================================================================

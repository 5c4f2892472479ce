------------------------------ MODULE Lineages ------------------------------
(***************************************************************************)
(* The lineages of a task: the units its classes are batched into once     *)
(* (uta/testgen/batches.py), what a run leaves behind for each of them     *)
(* (checkpoint, operation rows, artifacts, prompts), the clean rerun that  *)
(* starts new ones (uta/tasks/workflow_rerun.py), and the retention pass   *)
(* that deletes old ones (uta/app/retention.py), which any process may     *)
(* run at any time.                                                        *)
(*                                                                         *)
(* A lineage is <<run, first member>>: unit ids number and hash their      *)
(* members, so the first member names the unit of a run.                   *)
(***************************************************************************)
EXTENDS Integers, Sequences, FiniteSets, SequencesExt

CONSTANTS
    LClasses,     \* the class ids of the task, in the order of creation
    MaxRuns,      \* bound: workflow runs (the first and the clean reruns)
    BatchSize,    \* classes per agent run
    MaxMoves,     \* bound: changes of the list of classes
    Stores        \* where a unit leaves things, in the order a pass deletes them

ASSUME LineagesAssumption == LClasses \in Seq(ToSet(LClasses))

VARIABLES
    ltask,      \* the task's status, and whether it ended before the cutoff
    order,      \* its class rows by priority and id
    moves,      \* changes of that list so far
    lrow,       \* class -> status and batch key
    kept,       \* what exists, a set of lineages per store
    runs,       \* workflow runs so far
    superseded, \* the supersession rows
    lwork,      \* the worker: the unit it runs and the members it was given
    pruner      \* the retention pass

lvars == <<ltask, order, moves, lrow, kept, runs, superseded, lwork, pruner>>

NoKey == <<0, "none">>
NoUnit == [unit |-> NoKey, members |-> {}]
NoPass == [pc |-> "idle", todo |-> {}, unit |-> NoKey, store |-> 0]
ClosedStatuses == {"COMPLETED", "FAILED", "STOPPED"}

LInit ==
    /\ ltask = [status |-> "QUEUED", old |-> FALSE]
    /\ \E n \in {Len(LClasses) - 1, Len(LClasses)} : order = SubSeq(LClasses, 1, n)
    /\ lrow = [c \in ToSet(LClasses) |-> [status |-> "QUEUED", key |-> NoKey]]
    /\ kept = [s \in ToSet(Stores) |-> {}]
    /\ runs = 0 /\ moves = 0 /\ superseded = {}
    /\ lwork = NoUnit /\ pruner = NoPass

Members == ToSet(order)
Keys == {lrow[c].key : c \in Members} \ {NoKey}

-----------------------------------------------------------------------------
(* Units.                                                                  *)

\* The rows in order, cut every BatchSize, each cut named by its first member.
Partition(run) ==
    [c \in Members |->
        LET i == CHOOSE k \in DOMAIN order : order[k] = c
        IN  <<run, order[((i - 1) \div BatchSize) * BatchSize + 1]>>]

Contiguous(k) ==
    LET at == {i \in DOMAIN order : lrow[order[i]].key = k}
    IN  \A i, j \in at : \A n \in i..j : n \in at

\* _reconstruct: keys of one run, the members of each contiguous in the order.
Consistent ==
    /\ \A c \in Members : lrow[c].key # NoKey
    /\ \A k, l \in Keys : k[1] = l[1]
    /\ \A k \in Keys : Contiguous(k)

\* The rows that follow i in the order under the same key: the unit a walk
\* over the rows would hand out.
UnitFrom(i) ==
    {order[j] : j \in {n \in i..Len(order) :
        \A m \in i..n : lrow[order[m]].key = lrow[order[i]].key}}

\* first_non_terminal_batch: the first unit with a class to do.
FirstOpen ==
    LET heads == {i \in DOMAIN order :
                    /\ i = 1 \/ lrow[order[i - 1]].key # lrow[order[i]].key
                    /\ \E c \in UnitFrom(i) : lrow[c].status = "QUEUED"}
    IN  IF heads = {} THEN 0 ELSE CHOOSE i \in heads : \A j \in heads : i <= j

\* A worker takes the task: keys are assigned if no row has one, and a task
\* whose rows do not add up fails (GenerationBatchIdentityError).
StartUnit ==
    /\ ltask.status \in {"QUEUED", "RUNNING"} /\ lwork = NoUnit
    /\ IF Keys = {}
       THEN /\ runs < MaxRuns /\ runs' = runs + 1
            /\ lrow' = [c \in DOMAIN lrow |->
                  IF c \in Members THEN [lrow[c] EXCEPT !.key = Partition(runs + 1)[c]]
                  ELSE lrow[c]]
            /\ ltask' = [ltask EXCEPT !.status = "RUNNING"]
            /\ UNCHANGED lwork
       ELSE IF ~Consistent
       THEN /\ ltask' = [status |-> "FAILED", old |-> FALSE]
            /\ UNCHANGED <<runs, lrow, lwork>>
       ELSE IF FirstOpen = 0
       THEN /\ ltask' = [status |-> "COMPLETED", old |-> FALSE]
            /\ UNCHANGED <<runs, lrow, lwork>>
       ELSE /\ ltask' = [ltask EXCEPT !.status = "RUNNING"]
            /\ lwork' = [unit |-> lrow[order[FirstOpen]].key, members |-> UnitFrom(FirstOpen)]
            /\ UNCHANGED <<runs, lrow>>
    /\ UNCHANGED <<order, moves, kept, superseded, pruner>>

\* The unit starts, which writes a checkpoint, or completes an operation.
Leave ==
    /\ lwork # NoUnit
    /\ \E stores \in {{Stores[1]}, ToSet(Stores)} :
          kept' = [s \in DOMAIN kept |-> IF s \in stores THEN kept[s] \cup {lwork.unit} ELSE kept[s]]
    /\ UNCHANGED <<ltask, order, moves, lrow, runs, superseded, lwork, pruner>>

\* The unit's classes get their results.
FinishUnit ==
    /\ lwork # NoUnit
    /\ \E done \in {"PASS", "FAIL"} : lrow' = [c \in DOMAIN lrow |->
          IF c \in lwork.members /\ lrow[c].status = "QUEUED"
          THEN [lrow[c] EXCEPT !.status = done] ELSE lrow[c]]
    /\ lwork' = NoUnit
    /\ UNCHANGED <<ltask, order, moves, kept, runs, superseded, pruner>>

\* The worker stops on request, fails, or dies and the task is queued again.
LeaveUnit ==
    /\ lwork # NoUnit /\ lwork' = NoUnit
    /\ \E s \in {"STOPPED", "FAILED", "QUEUED"} : ltask' = [status |-> s, old |-> FALSE]
    /\ UNCHANGED <<order, moves, lrow, kept, runs, superseded, pruner>>

ResumeTask ==
    /\ ltask.status \in ClosedStatuses
    /\ ltask' = [status |-> "QUEUED", old |-> FALSE]
    /\ UNCHANGED <<order, moves, lrow, kept, runs, superseded, lwork, pruner>>

\* reprioritize_class, and a class added to the task: it has no key.
Reprioritize ==
    /\ moves < MaxMoves /\ moves' = moves + 1
    /\ \E i, j \in DOMAIN order : i < j /\ order' =
          [order EXCEPT ![i] = order[j], ![j] = order[i]]
    /\ UNCHANGED <<ltask, lrow, kept, runs, superseded, lwork, pruner>>
AddClass ==
    /\ moves < MaxMoves /\ moves' = moves + 1
    /\ Len(order) < Len(LClasses)
    /\ \E c \in ToSet(LClasses) \ Members : order' = Append(order, c)
    /\ UNCHANGED <<ltask, lrow, kept, runs, superseded, lwork, pruner>>

-----------------------------------------------------------------------------
(* Clean rerun, one transaction.                                           *)

\* Mutant: only the units of the classes that run again are recorded.
SupersessionsOfRequeued(requeue) ==
    LET again == {lrow[c].key : c \in {d \in Members : lrow[d].status \in requeue}} \ {NoKey}
    IN  {[run |-> r, units |-> {k \in again : k[1] = r}, old |-> FALSE] : r \in {k[1] : k \in again}}

\* One row per run the keys name, with all the units of that run.
Supersessions(requeue) ==
    {[run |-> r, units |-> {k \in Keys : k[1] = r}, old |-> FALSE] : r \in {k[1] : k \in Keys}}

Policies == {{"QUEUED"}, {"QUEUED", "FAIL"}, {"QUEUED", "FAIL", "PASS"}}

\* A closed task nobody runs: new keys for every class, the classes of the
\* policy queued again.
CleanRerun ==
    /\ ltask.status \in ClosedStatuses /\ lwork = NoUnit
    /\ runs < MaxRuns /\ runs' = runs + 1
    /\ \E requeue \in Policies :
          /\ superseded' = superseded \cup Supersessions(requeue)
          /\ lrow' = [c \in DOMAIN lrow |->
                IF c \notin Members THEN lrow[c]
                ELSE [key    |-> Partition(runs + 1)[c],
                      status |-> IF lrow[c].status \in requeue THEN "QUEUED" ELSE lrow[c].status]]
    /\ ltask' = [status |-> "QUEUED", old |-> FALSE]
    /\ UNCHANGED <<order, moves, kept, lwork, pruner>>

-----------------------------------------------------------------------------
(* Retention.                                                              *)

\* Closed long ago: the task, or a supersession. A pass is shorter than the
\* retention time.
TimePasses ==
    /\ pruner = NoPass
    /\ \/ /\ ltask.status \in ClosedStatuses /\ ltask' = [ltask EXCEPT !.old = TRUE]
          /\ UNCHANGED superseded
       \/ /\ \E s \in superseded : superseded' = (superseded \ {s}) \cup {[s EXCEPT !.old = TRUE]}
          /\ UNCHANGED ltask
    /\ UNCHANGED <<order, moves, lrow, kept, runs, lwork, pruner>>

\* eligible_identities: what the rows of an old closed task and the old
\* supersessions name.
Eligible ==
    (IF ltask.status \in ClosedStatuses /\ ltask.old THEN Keys \cup kept["operation"] ELSE {})
    \cup UNION {s.units : s \in {t \in superseded : t.old}}

StartPass ==
    /\ pruner = NoPass /\ Eligible # {}
    /\ pruner' = [NoPass EXCEPT !.pc = "prune", !.todo = Eligible]
    /\ UNCHANGED <<ltask, order, moves, lrow, kept, runs, superseded, lwork>>

\* Per lineage: its checkpoint, its artifacts, its operation rows, its
\* prompts. The list is the one read at the start.
PruneStep ==
    /\ pruner.pc = "prune"
    /\ IF pruner.unit = NoKey
       THEN IF pruner.todo = {} THEN pruner' = NoPass /\ UNCHANGED kept
            ELSE LET u == CHOOSE k \in pruner.todo : \A l \in pruner.todo : k[1] <= l[1]
                 IN  /\ pruner' = [pruner EXCEPT !.todo = @ \ {u}, !.unit = u, !.store = 1]
                     /\ UNCHANGED kept
       ELSE /\ kept' = [kept EXCEPT ![Stores[pruner.store]] = @ \ {pruner.unit}]
            /\ pruner' = IF pruner.store = Len(Stores)
                         THEN [pruner EXCEPT !.unit = NoKey, !.store = 0]
                         ELSE [pruner EXCEPT !.store = @ + 1]
    /\ UNCHANGED <<ltask, order, moves, lrow, runs, superseded, lwork>>

PassDies ==
    /\ pruner.pc # "idle" /\ pruner' = NoPass
    /\ UNCHANGED <<ltask, order, moves, lrow, kept, runs, superseded, lwork>>

LNext ==
    \/ StartUnit \/ Leave \/ FinishUnit \/ LeaveUnit \/ ResumeTask \/ Reprioritize
    \/ AddClass \/ CleanRerun \/ TimePasses \/ StartPass \/ PruneStep \/ PassDies

LSpec == LInit /\ [][LNext]_lvars

-----------------------------------------------------------------------------
(* Whatever a lineage has left behind, a retention pass can still find it: *)
(* a batch key, an operation row or a supersession names it, also after    *)
(* clean reruns and after a pass that died half way (eligible_identities,  *)
(* clean_rerun_generation).                                                *)
NothingOrphaned ==
    \A s \in ToSet(Stores) :
        kept[s] \subseteq Keys \cup UNION {t.units : t \in superseded}
=============================================================================

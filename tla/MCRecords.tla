----------------------------- MODULE MCRecords ------------------------------
(***************************************************************************)
(* What the runs of a task leave behind, in six parts of which one runs    *)
(* while the others rest: its commits on the task branch, its lineages in  *)
(* the workflow stores, the directories of calls without a task, its log   *)
(* of events, its branch and rows, and the rows of earlier versions.       *)
(***************************************************************************)
EXTENDS BranchDelivery, Lineages, StandaloneCalls, TaskEvents, TaskCreation

VARIABLE part    \* the part that runs

MCPaths == {<<"src", "test", "A.java">>, <<"pom.xml">>, <<"x_test", "x_test.py">>,
            <<"tests", "mutants", "x_test.py">>, <<"tests", "mutants", "m">>}
MCLClasses == <<"a", "b", "c">>
MCStores == <<"checkpoint", "operation">>

RestDelivery == kind = "plain" /\ DInit
RestLineages == order = LClasses /\ LInit

\* A row that no migration touches.
Settled == [language |-> "java", granularity |-> "class", target |-> "fqn", symbol |-> "fqn",
            display |-> "fqn"]

MCInit ==
    /\ part \in {"delivery", "lineages", "calls", "events", "creation", "migration"}
    /\ IF part = "delivery" THEN DInit ELSE RestDelivery
    /\ IF part = "lineages" THEN LInit ELSE RestLineages
    /\ CInit /\ VInit
    /\ part # "migration" => classrow = Settled
    /\ KInit

MCNext ==
    /\ \/ part = "delivery" /\ DNext /\ UNCHANGED <<lvars, cvars, vvars, kvars>>
       \/ part = "lineages" /\ LNext /\ UNCHANGED <<dvars, cvars, vvars, kvars>>
       \/ part = "calls" /\ CNext /\ UNCHANGED <<dvars, lvars, vvars, kvars>>
       \/ part = "events" /\ VNext /\ UNCHANGED <<dvars, lvars, cvars, kvars>>
       \/ part = "creation" /\ Creating /\ UNCHANGED <<dvars, lvars, cvars, vvars>>
       \/ part = "migration" /\ OpenDatabase /\ UNCHANGED <<dvars, lvars, cvars, vvars>>
    /\ UNCHANGED part

MCSpec == MCInit /\ [][MCNext]_<<dvars, lvars, cvars, vvars, kvars, part>>
=============================================================================

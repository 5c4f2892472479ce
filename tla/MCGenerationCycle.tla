--------------------------- MODULE MCGenerationCycle ---------------------------
(***************************************************************************)
(* GenerationCycle for TLC: the repair budgets of small units.             *)
(***************************************************************************)
EXTENDS GenerationCycle

\* Two rounds of the score-driven mutation repairs, so that a flat round can
\* end one of them with an attempt left, and one round of the others.
SmallBudget ==
    [c \in Counters |->
        CASE c \in {"fix_mutation", "delegated_quality_gate"} -> 2
          [] c \in Verifiers \cup {"plan_tests"} -> 0
          [] OTHER -> 1]

\* One round of every repair.
TinyBudget == [c \in Counters |-> IF c \in Verifiers \cup Preparation THEN 0 ELSE 1]
================================================================================

------------------------------ MODULE CyclePhases ------------------------------
(***************************************************************************)
(* The topology of one generation unit: the phases of generation-cycle.    *)
(* yaml, the routes between them and the two relations the rest of the     *)
(* code adds to it, which verification a repair makes stale and which one  *)
(* judges an edit found after an interruption.                             *)
(*                                                                         *)
(* A model-driven phase has two operations, its turn and the               *)
(* interpretation of the answer; a deterministic phase has one.            *)
(***************************************************************************)
EXTENDS Naturals

\* The verifications a repair turn makes stale.
Verifiers ==
    {"verify_compile", "verify_tests", "measure_coverage", "measure_mutation",
     "delegated_quality_gate_verify"}

\* The phases that repair what a verification found.
Repairs ==
    {"fix_compile", "fix_tests", "fix_coverage", "fix_mutation",
     "delegated_quality_gate"}

\* The repairs that spend a Python unit's flat budget.
BudgetedRepairs == {"fix_compile", "fix_tests"}

ModelPhases ==
    Repairs \cup {"plan_tests", "generate_tests", "review_equivalent_mutants"}

ToolPhases == Verifiers \cup {"precheck_existing_tests", "complete_generation"}

\* The phases before the first verification.
Preparation == {"precheck_existing_tests", "plan_tests", "generate_tests"}

Phases == ModelPhases \cup ToolPhases

\* The keys of attempts_by_phase: the logical attempt of every phase and the
\* budget that Python's compile and test repairs share.
Counters == Phases \cup {"python_repair_total"}

\* The score histories of the repair-progress policy; the delegated gate
\* keeps one for each kind of score.
Histories ==
    {"fix_coverage", "fix_mutation", "delegated:coverage", "delegated:mutation"}

\* Mutant: a coverage repair is measured at once, without running the tests.
RepairRoutesUntested ==
    {<<r, "passed", IF r = "fix_coverage" THEN "measure_coverage" ELSE "verify_tests">> :
        r \in Repairs \ {"fix_compile"}}
    \cup {<<r, "retry", r>> : r \in Repairs}

\* A repair is followed by the tests, a compile repair by the compilation.
RepairRoutes ==
    {<<r, "passed", "verify_tests">> : r \in Repairs \ {"fix_compile"}}
    \cup {<<r, "retry", r>> : r \in Repairs}

\* Where a phase outcome leads, except to completion.
Routes ==
    {<<"precheck_existing_tests", "proceed", "plan_tests">>,
     <<"precheck_existing_tests", "plan_skipped", "generate_tests">>,
     <<"precheck_existing_tests", "existing_repair", "verify_compile">>,
     <<"precheck_existing_tests", "delegated_repair", "delegated_quality_gate_verify">>,
     <<"plan_tests", "passed", "generate_tests">>,
     <<"plan_tests", "retry", "plan_tests">>,
     <<"generate_tests", "passed", "verify_compile">>,
     <<"generate_tests", "retry", "generate_tests">>,
     <<"verify_compile", "passed", "verify_tests">>,
     <<"verify_compile", "skipped", "verify_tests">>,
     <<"verify_compile", "repair", "fix_compile">>,
     <<"fix_compile", "passed", "verify_compile">>,
     <<"verify_tests", "passed", "measure_coverage">>,
     <<"verify_tests", "delegated", "delegated_quality_gate_verify">>,
     <<"verify_tests", "repair", "fix_tests">>,
     <<"measure_coverage", "passed", "measure_mutation">>,
     <<"measure_coverage", "continue", "measure_mutation">>,
     <<"measure_coverage", "skipped", "measure_mutation">>,
     <<"measure_coverage", "repair", "fix_coverage">>,
     <<"measure_mutation", "passed", "delegated_quality_gate_verify">>,
     <<"measure_mutation", "skipped", "delegated_quality_gate_verify">>,
     <<"measure_mutation", "review_equivalence", "review_equivalent_mutants">>,
     <<"measure_mutation", "repair", "fix_mutation">>,
     <<"measure_mutation", "tests_failed", "fix_tests">>,
     <<"delegated_quality_gate_verify", "review_equivalence", "review_equivalent_mutants">>,
     <<"delegated_quality_gate_verify", "repair", "delegated_quality_gate">>}
    \cup RepairRoutes

\* Every other outcome takes the branch to complete_generation, which is also
\* the default of every branch.
Successor(p, outcome) ==
    IF \E r \in Routes : r[1] = p /\ r[2] = outcome
    THEN (CHOOSE r \in Routes : r[1] = p /\ r[2] = outcome)[3]
    ELSE "complete_generation"

\* The phase that judges the edit an interrupted operation of p left behind;
\* the phases without one terminate the unit.
EditVerifier(p) ==
    CASE p \in {"generate_tests", "fix_compile"}      -> {"verify_compile"}
      [] p \in Repairs \ {"fix_compile"}              -> {"verify_tests"}
      [] OTHER                                        -> {}

FirstStep(p) == IF p \in ModelPhases THEN "turn" ELSE "deterministic"

\* A node of the graph: a phase, its step and what is done there.
Node(p, step, at) == [phase |-> p, step |-> step, at |-> at]

Enter(p) == Node(p, FirstStep(p), "reconcile")

\* Mutant: the delegated verification is left out of what a repair advances.
AdvanceVerificationButDelegated(att) ==
    [c \in Counters |->
        IF c \in Verifiers \ {"delegated_quality_gate_verify"}
        THEN att[c] + 1 ELSE att[c]]

\* A repair advances the logical attempt of every verification it made stale.
AdvanceVerification(att) ==
    [c \in Counters |-> IF c \in Verifiers THEN att[c] + 1 ELSE att[c]]
================================================================================

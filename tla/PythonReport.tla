---------------------------- MODULE PythonReport ----------------------------
(***************************************************************************)
(* One Python gate of a check, from the request to the accepted verdict.   *)
(* run_python_enforcement refuses what it cannot judge, skips targets it   *)
(* will not measure, divides the report's budget of mutants over the rest, *)
(* asks the binding, and projects its answer into one report; the runner   *)
(* believes the report only after validate_python_enforcement_evidence.    *)
(* Under the CI profile one target's mutation score is a sample: it is     *)
(* forgiven, and the gate is applied to the report's aggregate.            *)
(***************************************************************************)
EXTENDS Integers, Sequences, FiniteSets, FiniteSetsExt, SequencesExt

CONSTANTS Targets,    \* changed production files
          Operators,  \* mutation operators; a target and one of them is a group
          PerGroup,   \* bound: opportunities of a group, on lines 1..PerGroup
          Budget,     \* python_mutation_generation_ci_max_selected
          ReportGate        \* the mutation gate, in percent

ASSUME ReportAssumption ==
    /\ PerGroup \in Nat /\ Budget \in Nat /\ ReportGate \in 1..100

VARIABLES
    request,    \* what git answers, whether targets changed, the tests, the profile, the kind of each target
    at,
    supply,     \* opportunities left in each group, by line
    queue,      \* groups still to be served in this round
    again,      \* groups for the next one
    spent,      \* budget used
    picked,     \* lines picked per group
    answer,     \* the binding's answer: status and a result per target
    report,     \* the projected evidence
    verdict     \* what the runner makes of it

rvars == <<request, at, supply, queue, again, spent, picked, answer, report, verdict>>

Groups == Targets \X Operators
NoPicks == [g \in Groups |-> {}]
Kinds == {"code", "comment", "large", "incompatible"}
NoResult == [status |-> "none", reason |-> "none", testsPass |-> FALSE, covered |-> FALSE,
             generated |-> 0, killed |-> 0, scored |-> 0, timeouts |-> 0, mutated |-> FALSE]
NoAnswer == [status |-> "none", targets |-> {}, of |-> [t \in Targets |-> NoResult]]
NoReport == [status |-> "none", reason |-> "none", coverage |-> "none", noexec |-> FALSE,
             mutation |-> "none"]

Executable == {t \in Targets : request.kind[t] = "code"}
Skipped == Targets \ Executable

Finish(status, reason) ==
    /\ report' = [NoReport EXCEPT !.status = status, !.reason = reason]
    /\ at' = "reported"
    /\ UNCHANGED <<request, supply, queue, again, spent, picked, answer, verdict>>

-----------------------------------------------------------------------------
(* The runner, before: run asks for the sampled profile, run_full for the  *)
(* full one; a managed environment is set up first.                        *)

\* _child_env: the profile crosses the process boundary, or is removed.
Profile == {TRUE, FALSE}

\* _prepare_managed_runtime.
PrepareRuntime ==
    /\ at = "setup"
    /\ \/ at' = "start" /\ UNCHANGED verdict
       \/ at' = "end" /\ verdict' = "command_error"
    /\ UNCHANGED <<request, supply, queue, again, spent, picked, answer, report>>

\* The command is cut by its timeout, does not start, or its process group
\* exceeds its memory (_resource_exhausted_result): whatever it had measured
\* is not read.
CutVerdicts == {"timeout", "command_error", "failed"}

CommandCut ==
    /\ at \notin {"setup", "end"}
    /\ verdict' \in CutVerdicts
    /\ at' = "end"
    /\ UNCHANGED <<request, supply, queue, again, spent, picked, answer, report>>

-----------------------------------------------------------------------------
\* _preflight: a base that cannot be resolved must not look like an empty diff.
ReportPreflight ==
    /\ at = "start"
    /\ CASE ~request.base -> Finish("command_error", "missing_base_ref")
         [] request.base /\ ~request.changed -> Finish("passed", "no_changed_python_targets")
         [] request.base /\ request.changed /\ ~request.tests -> Finish("missing_evidence", "missing_test_paths")
         [] OTHER -> /\ at' = "skip"
                     /\ UNCHANGED <<request, supply, queue, again, spent, picked, answer, report, verdict>>

(***************************************************************************)
(* Aggregation.  A skipped target contributes a passing, empty summary; its *)
(* scope is its own unless its lines are comments.                         *)
(***************************************************************************)
SkipResult(kind) == [NoResult EXCEPT !.status = "passed", !.testsPass = TRUE, !.covered = TRUE, !.mutated = TRUE,
                                     !.reason = IF kind = "comment" THEN "no_executable_changed_lines" ELSE "skipped"]
Scope(t) == IF request.kind[t] \in {"code", "comment"} THEN "changed_lines" ELSE request.kind[t]

\* _aggregate_coverage.
AggregateCoverage(results, ts) ==
    IF ts = {} THEN "none" ELSE IF \A t \in ts : results[t].covered THEN "passed" ELSE "failed"

NoExecutable(ts) == ts /= {} /\ \A t \in ts : request.kind[t] \in {"comment", "incompatible"}

\* The sum of a count over targets: how many mutants it counts in all.
Counted(results, ts, f) == Cardinality(UNION {{t} \X (1..results[t][f]) : t \in ts})

\* _aggregate_mutation: one scope is scored over the changed lines' scored
\* mutants, several over killed and survived.
Rate(results, ts) ==
    LET sum(f) == Counted(results, ts, f)
        one == {Scope(t) : t \in ts} = {"changed_lines"}
        below == IF one THEN sum("scored") ELSE sum("scored") - sum("timeouts")
        allPassed == \A t \in ts : results[t].mutated
    IN  IF below > 0 THEN <<sum("killed"), below>>
        ELSE IF ~one \/ sum("generated") > 0 \/ allPassed THEN <<1, 1>> ELSE <<0, 1>>

Reaches(rate) == rate[1] * 100 >= ReportGate * rate[2]

AggregateMutation(results, ts) ==
    IF ts = {} THEN "none"
    ELSE IF (\A t \in ts : results[t].mutated) /\ Reaches(Rate(results, ts)) THEN "passed" ELSE "failed"

-----------------------------------------------------------------------------
\* _skipped_only_evidence: nothing was measured and nothing failed.
SkippedOnly ==
    LET skips == [t \in Targets |-> SkipResult(request.kind[t])]
    IN  [status |-> "passed",
         reason |-> IF \A t \in Targets : request.kind[t] = "comment"
                    THEN "no_executable_changed_lines" ELSE "passed",
         coverage |-> AggregateCoverage(skips, Targets),
         noexec |-> NoExecutable(Targets),
         mutation |-> AggregateMutation(skips, Targets)]

\* Targets with nothing to execute, too many changed lines, or a syntax the
\* configured interpreter cannot compile are skips; when nothing is left the
\* binding is never asked.
SkipTargets ==
    /\ at = "skip"
    /\ IF Executable /= {} THEN at' = "allocate" /\ UNCHANGED report
                           ELSE at' = "reported" /\ report' = SkippedOnly
    /\ UNCHANGED <<request, supply, queue, again, spent, picked, answer, verdict>>

\* The opportunities of the changed lines, grouped; the order of the groups is
\* a digest of the diff, that is any order.
StartAllocation ==
    /\ at = "allocate" /\ request.sampled
    /\ \E n \in [Groups -> 0..PerGroup] :
         LET offered == {g \in Groups : g[1] \in Executable /\ n[g] > 0}
         IN  /\ \A g \in Groups : g[1] \notin Executable => n[g] = 0
             /\ supply' = [g \in Groups |-> 1..n[g]]
             /\ queue' \in SetToAllKPermutations(offered)
             /\ Len(queue') = Cardinality(offered)
    /\ at' = "rounds"
    /\ UNCHANGED <<request, again, spent, picked, answer, report, verdict>>

\* A group that has more waits for the next round.
NextRound(g) == queue' = Tail(queue) /\ again' = Append(again, g)

\* One turn: the group's first opportunity, while the budget lasts.
TakeTurn ==
    /\ at = "rounds" /\ queue /= <<>> /\ spent < Budget
    /\ LET g == Head(queue)
           line == Min(supply[g])
       IN  /\ supply' = [supply EXCEPT ![g] = @ \ {line}]
           /\ picked' = [picked EXCEPT ![g] = @ \union {line}]
           /\ spent' = spent + 1
           /\ IF supply[g] = {line} THEN queue' = Tail(queue) /\ UNCHANGED again
                                    ELSE NextRound(g)
    /\ UNCHANGED <<request, at, answer, report, verdict>>

StartRound ==
    /\ at = "rounds" /\ queue = <<>> /\ again /= <<>> /\ spent < Budget
    /\ queue' = again /\ again' = <<>>
    /\ UNCHANGED <<request, at, supply, spent, picked, answer, report, verdict>>

\* The budget is spent or nothing is left; or there is no budget.
EndAllocation ==
    /\ \/ at = "rounds" /\ (spent = Budget \/ (queue = <<>> /\ again = <<>>))
       \/ at = "allocate" /\ ~request.sampled
    /\ at' = "bind"
    /\ UNCHANGED <<request, supply, queue, again, spent, picked, answer, report, verdict>>

\* A target's share: lines picked twice are one mutant.
Allocation(t) == Cardinality(UNION {picked[<<t, o>>] : o \in Operators})

-----------------------------------------------------------------------------
(***************************************************************************)
(* The binding.  A target's result is its verification's; a file its own   *)
(* interpreter cannot parse ends the whole run with no result at all.      *)
(***************************************************************************)
Failed(why) == [NoResult EXCEPT !.status = "failed", !.reason = why]

ScoredResult(scored, killed, lived) ==
    LET passed == killed * 100 >= ReportGate * scored
    IN  [status |-> IF passed THEN "passed" ELSE "failed",
         reason |-> IF passed THEN "passed" ELSE "mutation_failed",
         testsPass |-> TRUE, covered |-> TRUE, generated |-> scored,
         killed |-> killed, scored |-> scored, timeouts |-> scored - killed - lived, mutated |-> passed]

CandidateResults(t) ==
    {Failed("test_failed"), [Failed("coverage_failed") EXCEPT !.testsPass = TRUE],
     [Failed("mutation_backend_failed") EXCEPT !.testsPass = TRUE, !.covered = TRUE]}
    \union
    {ScoredResult(x[1], x[2], x[3])
       : x \in {y \in (0..(IF request.sampled THEN Allocation(t) ELSE 2)) \X (0..2) \X (0..2) : y[2] + y[3] <= y[1]}}

\* Of the strict candidate tests the first that passes is the target's
\* result, and the first of all when none does.
WalkCandidates(results) ==
    LET passing == {i \in DOMAIN results : results[i].status = "passed"}
    IN  IF results = <<>> THEN Failed("missing_test_file")
        ELSE IF passing /= {} THEN results[Min(passing)] ELSE results[1]

Results(t) ==
    {WalkCandidates(s) : s \in UNION {[1..n -> CandidateResults(t)] : n \in 0..2}}

Bind ==
    /\ at = "bind"
    /\ \/ answer' = [status |-> "error", targets |-> {}, of |-> [t \in Targets |-> NoResult]]
       \/ \E results \in [Executable -> UNION {Results(t) : t \in Executable}] :
            /\ \A t \in Executable : results[t] \in Results(t)
            /\ answer' = [status |-> IF \A t \in Executable : results[t].status = "passed" THEN "passed" ELSE "failed",
                          targets |-> Executable,
                          of |-> [t \in Targets |-> IF t \in Executable THEN results[t] ELSE NoResult]]
    /\ at' = "project"
    /\ UNCHANGED <<request, supply, queue, again, spent, picked, report, verdict>>

\* Mutated: any failing target of a sampled report is a diagnostic.
ReclassifyAny(r) == [r EXCEPT !.status = "passed", !.reason = "sampled_mutation_diagnostic"]

\* _reclassify_sampled_mutation_misses: a mutation miss of a target whose
\* tests pass and whose coverage passes.
Reclassify(r) ==
    IF r.reason \in {"mutation_gate_failed", "mutation_failed"} /\ r.testsPass /\ r.covered
    THEN [r EXCEPT !.status = "passed", !.reason = "sampled_mutation_diagnostic"] ELSE r

\* _has_unsampled_failure, over the targets there are results for.
UnsampledFailure(results, ts) == \E t \in ts : results[t].status /= "passed"

\* _project_binding_evidence.
Project ==
    /\ at = "project"
    /\ LET ts == Skipped \union answer.targets
           results == [t \in Targets |->
                         IF t \in Skipped THEN SkipResult(request.kind[t])
                         ELSE IF request.sampled THEN Reclassify(answer.of[t]) ELSE answer.of[t]]
           forgiven == request.sampled /\ ~UnsampledFailure(results, ts)
           passed == answer.status = "passed" \/ forgiven
           rate == Rate(results, ts)
           gated == request.sampled /\ ts /= {}
           below == gated /\ ~Reaches(rate)
           named == {results[t].reason : t \in {u \in ts : results[u].status /= "passed"}}
       IN  \E why \in IF passed THEN {"passed"} ELSE IF named = {} THEN {"quality_gate_failed"} ELSE named :
             report' = [status |-> IF passed /\ ~below THEN "passed" ELSE IF passed THEN "failed" ELSE answer.status,
                        reason |-> IF passed /\ below THEN "mutation_gate_failed" ELSE why,
                        coverage |-> AggregateCoverage(results, ts),
                        noexec |-> NoExecutable(ts),
                        mutation |-> IF gated THEN IF below THEN "failed" ELSE "passed"
                                     ELSE AggregateMutation(results, ts)]
    /\ at' = "reported"
    /\ UNCHANGED <<request, supply, queue, again, spent, picked, answer, verdict>>

-----------------------------------------------------------------------------
\* validate_python_enforcement_evidence.  The aggregate's candidate plan holds
\* counts, not lists, so it never demands generated mutants.
Validate(r) ==
    /\ r.status = "passed"
    /\ \/ r.reason = "no_changed_python_targets"
       \/ r.coverage = "passed" /\ (r.noexec \/ r.mutation = "passed")

\* _classify_completed: the command may have left no evidence, HEAD may not
\* resolve, and the evidence may be of another commit.
Classify ==
    /\ at = "reported"
    /\ \/ verdict' \in {"failed", "missing_evidence", "command_error"}
       \/ verdict' = IF Validate(report) THEN "passed"
                     ELSE IF report.status = "missing_evidence" THEN "missing_evidence" ELSE "failed"
    /\ at' = "end"
    /\ UNCHANGED <<request, supply, queue, again, spent, picked, answer, report>>

-----------------------------------------------------------------------------
RInit ==
    /\ request \in [base : BOOLEAN, changed : BOOLEAN, tests : BOOLEAN, sampled : Profile, kind : [Targets -> Kinds]]
    /\ at = "setup"
    /\ supply = NoPicks /\ queue = <<>> /\ again = <<>> /\ spent = 0 /\ picked = NoPicks
    /\ answer = NoAnswer /\ report = NoReport /\ verdict = "none"

RNext ==
    \/ PrepareRuntime \/ CommandCut \/ ReportPreflight \/ SkipTargets \/ StartAllocation \/ TakeTurn \/ StartRound \/ EndAllocation
    \/ Bind \/ Project \/ Classify

RSpec == RInit /\ [][RNext]_rvars

\* A verdict of passed is earned by the targets: each was skipped or passed
\* its own verification, or, under the CI profile, has green tests, passing
\* coverage and a mutation miss that the report's aggregate outweighs (with a
\* target of another scope beside it, only mutants killed or survived count).
\* Answers without any result are not covered: the report forgives them too.
PassCoversTargets ==
    verdict = "passed" /\ answer.status /= "error" /\ request.changed =>
        /\ request.base /\ request.tests
        /\ \A t \in Executable :
             LET r == answer.of[t]
             IN  \/ r.status = "passed"
                 \/ request.sampled /\ r.reason = "mutation_failed" /\ r.testsPass /\ r.covered
        /\ (\E t \in Executable : answer.of[t].status /= "passed") 
             => \/ \E t \in Skipped : request.kind[t] /= "comment"
                \/ Reaches(Rate(answer.of, Executable))
=============================================================================

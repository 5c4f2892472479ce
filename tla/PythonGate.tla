------------------------------ MODULE PythonGate ------------------------------
(***************************************************************************)
(* One run of the Python quality gate over a list of changed files         *)
(* (tools/python-enforcement: api.py, coverage.py, mutation.py,            *)
(* dependency_overlay.py, test_selection.py, cli.py): for each target the  *)
(* candidate tests are tried in order, each with a dependency overlay, a   *)
(* coverage run and, if that passes, a mutation run in one or more         *)
(* generate-and-score passes.                                              *)
(*                                                                         *)
(* On disk, and so beyond the death of the process: the overlay with its   *)
(* marker, the mutmut section of the repository's own config files, and    *)
(* the tree mutants/.  What pip, pytest and mutmut do is external.         *)
(***************************************************************************)
EXTENDS MutationPlan

CONSTANTS
    Targets,      \* changed files, by name: the file, its changed lines, its tests
    Worklists,    \* the target lists a run may be given: sequences of names
    Manifests,    \* requirements.txt files: name -> [requires, includes]
    Unavailable,  \* distributions the configured index does not have
    Unbuildable,  \* the whole manifest does not build for this interpreter
    CovGate,      \* diff coverage gate, percent
    MutGate,      \* diff mutation gate, percent
    MaxCrashes    \* bound: deaths of the process

ASSUME GateAssumption ==
    /\ CovGate \in 0..100 /\ MutGate \in 0..100 /\ MaxCrashes \in Nat
    /\ Worklists \subseteq Seq(DOMAIN Targets)

\* Lines are counted; a unit has a name, a size and a place of its own in the
\* order of names; a node mutmut can name a mutant of is inside a unit.
ASSUME FileAssumption ==
    \A n \in DOMAIN Targets :
      LET file == Targets[n].file
      IN  /\ Targets[n].changed \subseteq Nat /\ IsFiniteSet(Targets[n].changed)
          /\ IsFiniteSet(Targets[n].executable)
          /\ \A i \in DOMAIN file.tree :
               file.tree[i].inUnit => file.tree[i].first \in DOMAIN file.unit
          /\ \A line \in DOMAIN file.unit : file.unit[line] \in DOMAIN file.bytes
          /\ \A u \in DOMAIN file.bytes : file.bytes[u] \in Nat /\ file.order[u] \in Int
          /\ \A u, v \in DOMAIN file.bytes : file.order[u] = file.order[v] => u = v

VARIABLES
    worklist,  \* the targets of this run
    gstep,     \* the step the run is at
    t,         \* the target being judged, 1 .. Len(worklist)
    c,         \* the candidate test being tried
    overlay,   \* disk: [dir, marker] of each manifest's dependency overlay
    pip,       \* the manifest lines still asked of pip
    dep,       \* how the overlay of this candidate came out
    config,    \* disk: "own", or "mutmut" while the gate's section is in it
    found,     \* the config the mutation run read before it wrote its own
    mutants,   \* disk: the exit status of each mutant of the pass, by line
    lines,     \* the selected lines of this candidate's policy
    passes,    \* the passes not yet run
    totals,    \* mutants of the finished passes, by line
    matched,   \* mutants the candidate plan has a key for
    broken,    \* some pass could not generate its mutants
    output,    \* what the last mutmut command said
    cov,       \* the coverage summary of this candidate
    first,     \* the first candidate's result, or NoResult
    results,   \* the results of the targets judged so far
    status,    \* the verdict of the run
    crashes,   \* deaths so far
    history    \* history: what this candidate's passes tried, made and scored

gateVars == <<worklist, t, c, first, results, status, crashes>>
mutationVars == <<config, found, mutants, lines, passes, totals, matched, broken, output, history>>
gvars == <<worklist, gstep, t, c, overlay, pip, dep, config, found, mutants, lines, passes,
           totals, matched, broken, output, cov, first, results, status, crashes, history>>

Target == Targets[worklist[t]]

Nothing == [l \in {} |-> 0]
NoResult == [status |-> "none"]
Statuses == {"killed", "segfault", "survived", "timeout", "suspicious", "no tests",
             "skipped", "interrupted", "not checked"}

Count(fates, set) == Cardinality({l \in DOMAIN fates : fates[l] \in set})

\* killed / denominator as a percentage reaches the gate; 100 of nothing.
Reaches(n, d, gate) == d = 0 \/ 100 * n >= gate * d

-----------------------------------------------------------------------------
(* Test selection.                                                         *)

Least(a, b) == IF a < b THEN a ELSE b

\* A test of a module with a common name must sit in, or be named for, the
\* module's package; beside only the root package it must import the module.
Addressed(test) ==
    \/ test.home \in {"any", "package", "named"}
    \/ test.home = "root" /\ test.refs \cap {"path", "module"} # {}

NameScore(test) ==
    IF ~Addressed(test) THEN 0
    ELSE (IF test.stem = "equal" THEN 120 ELSE 0)
         + (IF test.stem = "suffix" THEN 90 ELSE 0)
         + (IF test.stem \in {"equal", "suffix", "token"} THEN 70 ELSE 0)
         + Least(60, 20 * test.symbols)

TestScore(test) ==
    IF test.canonical THEN 10000
    ELSE NameScore(test) + test.overlap + Least(8, 2 * test.symbols)
         + (IF "path" \in test.refs THEN 12 ELSE 0)
         + (IF "module" \in test.refs THEN 10 ELSE 0)
         + (IF "stem" \in test.refs THEN 4 ELSE 0)

\* Strict candidates, best first; configured paths that are among them win.
StrictTestCandidates(target) ==
    LET strict == {x \in target.tests : x.canonical \/ (NameScore(x) > 0 /\ TestScore(x) >= 8)}
        configured == {x \in strict : x.configured}
        before(x, y) == \/ TestScore(x) > TestScore(y)
                        \/ TestScore(x) = TestScore(y) /\ x.length < y.length
        order == SetToSortSeq(IF configured # {} THEN configured ELSE strict, before)
    IN  SubSeq(order, 1, Least(5, Len(order)))

-----------------------------------------------------------------------------
(* Dependency overlay.                                                     *)

\* All manifests a manifest reaches through -r includes, itself included.
Included(m) ==
    LET step(S) == S \cup UNION {Manifests[x].includes : x \in S}
    IN  step(step(step({m})))

\* flatten_manifest with manifest_requirement_lines.
Requirements(m) == UNION {Manifests[x].requires : x \in Included(m)}

\* The nearest manifest, from the target's directory up, that requires something.
NearestManifest(target) ==
    LET installs(m) == Requirements(m) # {}
        i == SelectInSeq(target.manifests, installs)
    IN  IF i = 0 THEN "none" ELSE target.manifests[i]

\* Requirements whose import name the target or its tests import.
CompatibleRequirements(target) == Requirements(NearestManifest(target)) \cap target.imports

NoOverlay == [dir |-> {}, marker |-> "none"]

\* Mutant of Wiped: the marker is written when an install begins.
MarkedEarly == [dir |-> {}, marker |-> "whole"]

\* A new install never goes over an interrupted one or another interpreter's;
\* only a finished one is marked.
Wiped == NoOverlay

PrepareOverlay ==
    /\ gstep = "overlay"
    /\ LET m == NearestManifest(Target)
       IN \/ /\ m = "none"
             /\ dep' = "none" /\ gstep' = "coverage"
             /\ UNCHANGED <<overlay, pip>>
          \/ /\ m # "none" /\ overlay[m].marker # "none"
             /\ dep' = "good" /\ gstep' = "coverage"
             /\ UNCHANGED <<overlay, pip>>
          \/ /\ m # "none" /\ overlay[m].marker = "none"
             /\ overlay' = [overlay EXCEPT ![m] = Wiped]
             /\ pip' = Requirements(m) /\ gstep' = "install"
             /\ UNCHANGED dep
    /\ UNCHANGED <<gateVars, mutationVars, cov>>

\* pip names a distribution the index does not have: its line is dropped and
\* pip is asked again; when no line would be left, the install has failed.
DropUnavailable ==
    /\ gstep = "install"
    /\ \E d \in pip \cap Unavailable :
         /\ pip # {d} /\ pip' = pip \ {d}
    /\ UNCHANGED <<gateVars, mutationVars, cov, overlay, dep, gstep>>

InstallManifest ==
    /\ gstep = "install" /\ pip \cap Unavailable = {} /\ ~Unbuildable
    /\ overlay' = [overlay EXCEPT ![NearestManifest(Target)] = [dir |-> pip, marker |-> "whole"]]
    /\ dep' = "good" /\ pip' = {} /\ gstep' = "coverage"
    /\ UNCHANGED <<gateVars, mutationVars, cov>>

\* The manifest does not build, or pip fails for a reason of its own: the
\* requirements the target imports are tried alone if the manifest is the
\* repository's; a failed install leaves an empty overlay without a marker.
InstallFails ==
    /\ gstep = "install"
    /\ LET m == NearestManifest(Target)
           wanted == CompatibleRequirements(Target)
       IN \/ /\ wanted # {} /\ m = "root" /\ wanted \cap Unavailable = {}
             /\ overlay' = [overlay EXCEPT ![m] = [dir |-> wanted, marker |-> "compat"]]
             /\ dep' = "good"
          \/ /\ overlay' = [overlay EXCEPT ![m] = Wiped] /\ dep' = "failed"
    /\ pip' = {} /\ gstep' = "coverage"
    /\ UNCHANGED <<gateVars, mutationVars, cov>>

-----------------------------------------------------------------------------
(* Coverage.                                                               *)

\* The summary of a coverage run: the tests failed, no report was written,
\* the report does not know the file, or it counts hits on changed lines.
CoverageSummary(target, kind, hits) ==
    LET total == Cardinality(target.changed \cap target.executable)
    IN  [tests |-> kind # "tests_failed",
         passed |-> CASE kind \in {"tests_failed", "no_report"} -> FALSE
                      [] kind = "absent" -> target.changed = {} \/ CovGate = 0
                      [] kind = "report" -> Reaches(hits, total, CovGate)]

Policies(target) ==
    UNION {IF target.sampled THEN {Sampled(kept, s) : s \in SUBSET kept} ELSE {kept}
             : kept \in Capped(target.file, Eligible(target.file, target.changed))}

NoMutation(passed, reason) ==
    [generated |-> 0, killed |-> 0, survived |-> 0, timeout |-> 0, suspicious |-> 0,
     passed |-> passed, reason |-> reason]

Result(summary, mutation) ==
    [status |-> IF summary.passed /\ mutation.passed THEN "passed" ELSE "failed",
     coverage |-> summary, mutation |-> mutation]

\* A candidate that passes is the target's result; after the last one the
\* first candidate's result is.
TargetJudged(result) ==
    LET chosen == IF result.status = "passed" \/ first = NoResult THEN result ELSE first
    IN  IF result.status = "passed" \/ c = Len(StrictTestCandidates(Target))
        THEN /\ results' = Append(results, chosen)
             /\ t' = t + 1 /\ first' = NoResult /\ gstep' = "target" /\ UNCHANGED c
        ELSE /\ first' = chosen /\ c' = c + 1 /\ gstep' = "overlay" /\ UNCHANGED <<t, results>>

Coverage ==
    /\ gstep = "coverage"
    /\ \E kind \in {"tests_failed", "no_report", "absent", "report"},
         hits \in 0..Cardinality(Target.changed \cap Target.executable) :
         LET summary == CoverageSummary(Target, kind, hits)
         IN  IF summary.passed
             THEN \E selected \in Policies(Target) :
                    IF selected = {}
                    THEN /\ TargetJudged(Result(summary, NoMutation(TRUE, "no_mutatable_candidates")))
                         /\ dep' = "none" /\ UNCHANGED <<lines, cov>>
                    ELSE /\ cov' = summary /\ lines' = selected /\ gstep' = "setup"
                         /\ UNCHANGED <<t, c, first, results, dep>>
             ELSE /\ TargetJudged(Result(summary, NoMutation(FALSE, "coverage_not_passed")))
                  /\ dep' = "none" /\ UNCHANGED <<lines, cov>>
    /\ UNCHANGED <<worklist, overlay, pip, config, found, mutants, passes, totals, matched, broken,
                   output, status, crashes, history>>

-----------------------------------------------------------------------------
(* Mutation.                                                               *)

NoHistory == [tried |-> <<>>, fates |-> Nothing, failed |-> FALSE]

Setup ==
    /\ gstep = "setup"
    /\ mutants' = Nothing /\ found' = config /\ config' = "mutmut"
    /\ passes' = GenerationPasses(Target.file, lines)
    /\ totals' = Nothing /\ matched' = 0 /\ broken' = FALSE /\ output' = "none"
    /\ history' = NoHistory
    /\ gstep' = "generate"
    /\ UNCHANGED <<gateVars, overlay, pip, dep, lines, cov>>

\* A pass clears mutants/ when it is one of several, and generates at most one
\* mutant for each line of its policy.
Generate ==
    /\ gstep = "generate"
    /\ history' = [history EXCEPT !.tried = Append(@, Head(passes))]
    /\ \/ /\ \E made \in SUBSET Head(passes) : mutants' = [l \in made |-> "not checked"]
          /\ gstep' = "score"
          /\ UNCHANGED <<broken, output>>
       \/ /\ mutants' \in {Nothing, [l \in Head(passes) |-> "not checked"]}
          /\ broken' = TRUE /\ output' = "failed" /\ gstep' = "collect"
    /\ UNCHANGED <<gateVars, overlay, pip, dep, config, found, lines, passes, totals, matched, cov>>

\* external: mutmut runs every mutant, finds that the tests reach none of
\* them, or stops (or is stopped) somewhere in between.
Score ==
    /\ gstep = "score"
    /\ \/ /\ mutants' \in [DOMAIN mutants -> Statuses \ {"not checked"}]
          /\ \/ output' = "done"
             \/ output' = "collection" /\ Range(mutants') = {"suspicious"}
       \/ /\ mutants' = mutants /\ output' \in {"uncovered", "stopped"}
       \/ /\ mutants' \in [DOMAIN mutants -> {"killed", "not checked"}] /\ output' = "stopped"
    /\ gstep' = "collect"
    /\ UNCHANGED <<gateVars, overlay, pip, dep, config, found, lines, passes, totals, matched, broken,
                   cov, history>>

\* Mutant of MergedTotals: only the last pass counts.
LastPass(before, now) == now

\* Two tallies in one: where both know a line, the first says.
Joined(f, g) == [l \in DOMAIN f \cup DOMAIN g |-> IF l \in DOMAIN f THEN f[l] ELSE g[l]]

\* Counts and keys of the passes add up.
MergedTotals(before, now) == Joined(now, before)

\* read_mutmut_meta and the pass's candidate plan.
Collect ==
    /\ gstep = "collect"
    /\ totals' = MergedTotals(totals, mutants)
    /\ matched' = matched + (IF Target.file.keyed THEN Cardinality(DOMAIN mutants) ELSE 0)
    /\ history' = [history EXCEPT !.fates = Joined(mutants, @), !.failed = @ \/ output = "failed"]
    /\ passes' = Tail(passes)
    /\ gstep' = IF passes' = <<>> THEN "judge" ELSE "generate"
    /\ mutants' = IF passes' = <<>> THEN mutants ELSE Nothing
    /\ UNCHANGED <<gateVars, overlay, pip, dep, config, found, lines, broken, output, cov>>

MutationSummary(fates, said, probe) ==
    LET generated == Cardinality(DOMAIN fates)
        unchecked == Count(fates, {"not checked"})
        uncovered == IF said = "uncovered" THEN unchecked ELSE 0
        notChecked == unchecked - uncovered
        killed == Count(fates, {"killed", "segfault"})
        survived == Count(fates, {"survived"}) + uncovered
        timeout == Count(fates, {"timeout"})
        suspicious == Count(fates, {"suspicious"})
        noTests == Count(fates, {"no tests"})
        scored == generated - noTests - Count(fates, {"skipped"}) - notChecked
        collectionFailed == generated > 0 /\ suspicious = generated /\ (said = "collection" \/ probe)
        backendFailed == \/ broken \/ notChecked > 0
                         \/ generated = 0 /\ said \in {"failed", "stopped", "uncovered"}
        planFailed == generated > 0 /\ matched # generated
        unassociated == generated > 0 /\ scored = 0 /\ noTests > 0
                        /\ ~backendFailed /\ ~collectionFailed
    IN  [generated |-> generated, killed |-> killed, survived |-> survived,
         timeout |-> timeout, suspicious |-> suspicious,
         passed |-> /\ Reaches(killed, killed + survived + timeout + suspicious, MutGate)
                    /\ ~backendFailed /\ ~collectionFailed /\ ~planFailed /\ ~unassociated,
         reason |-> CASE collectionFailed -> "mutation_test_collection_failed"
                      [] backendFailed /\ ~collectionFailed -> "mutation_backend_failed"
                      [] planFailed /\ ~backendFailed /\ ~collectionFailed
                           -> "mutation_candidate_plan_failed"
                      [] unassociated /\ ~planFailed -> "mutation_no_tests"
                      [] OTHER -> "none"]

\* _restore_config_file, in the finally block.
Restored == found

\* The locals of run_mutation end with it.
Forget ==
    /\ found' = "own" /\ lines' = {} /\ totals' = Nothing /\ matched' = 0 /\ broken' = FALSE
    /\ output' = "none" /\ cov' = NoResult /\ dep' = "none" /\ history' = NoHistory

\* The collection probe runs when every mutant is suspicious and mutmut did
\* not say why; the files are put back; the counts are judged.
Judge ==
    /\ gstep = "judge"
    /\ \E probe \in BOOLEAN :
         /\ probe => /\ DOMAIN totals # {} /\ output # "collection"
                     /\ \A l \in DOMAIN totals : totals[l] = "suspicious"
         /\ TargetJudged(Result(cov, MutationSummary(totals, output, probe)))
    /\ config' = Restored /\ mutants' = Nothing /\ Forget
    /\ UNCHANGED <<worklist, overlay, pip, passes, status, crashes>>

\* A command cannot be started at all: the exception leaves through finally.
Abort ==
    /\ gstep \in {"generate", "score"}
    /\ config' = Restored /\ mutants' = Nothing /\ Forget
    /\ gstep' = "aborted"
    /\ UNCHANGED <<gateVars, overlay, pip, passes>>

-----------------------------------------------------------------------------
(* The run.                                                                *)

GInit ==
    /\ worklist \in Worklists /\ gstep = "begin"
    /\ t = 1 /\ c = 1 /\ pip = {} /\ dep = "none" /\ found = "own" /\ lines = {} /\ passes = <<>>
    /\ totals = Nothing /\ matched = 0 /\ broken = FALSE /\ output = "none" /\ cov = NoResult
    /\ first = NoResult /\ results = <<>> /\ status = "none" /\ history = NoHistory
    /\ overlay = [m \in DOMAIN Manifests |-> NoOverlay] /\ config = "own" /\ mutants = Nothing
    /\ crashes = 0

StartGate ==
    /\ gstep = "begin"
    /\ \/ worklist = <<>> /\ status' = "passed" /\ gstep' = "done"
       \/ /\ \E i \in DOMAIN worklist : ~Targets[worklist[i]].parses
          /\ status' = "error" /\ gstep' = "done"
       \/ /\ worklist # <<>> /\ \A i \in DOMAIN worklist : Targets[worklist[i]].parses
          /\ gstep' = "target" /\ UNCHANGED status
    /\ UNCHANGED <<worklist, t, c, first, results, crashes, mutationVars, overlay, pip, dep, cov>>

StartTarget ==
    /\ gstep = "target" /\ t <= Len(worklist)
    /\ LET target == Target
       IN \/ /\ target.changed # {} /\ target.changed \cap target.executable = {}
             /\ results' = Append(results, Result([tests |-> TRUE, passed |-> TRUE],
                                                  NoMutation(TRUE, "not_run")))
             /\ t' = t + 1 /\ UNCHANGED <<c, gstep>>
          \/ /\ target.changed = {} \/ target.changed \cap target.executable # {}
             /\ StrictTestCandidates(target) = <<>>
             /\ results' = Append(results, Result([tests |-> TRUE, passed |-> FALSE],
                                                  NoMutation(FALSE, "not_run")))
             /\ t' = t + 1 /\ UNCHANGED <<c, gstep>>
          \/ /\ target.changed = {} \/ target.changed \cap target.executable # {}
             /\ StrictTestCandidates(target) # <<>>
             /\ c' = 1 /\ gstep' = "overlay" /\ UNCHANGED <<t, results>>
    /\ UNCHANGED <<worklist, first, status, crashes, mutationVars, overlay, pip, dep, cov>>

Finish ==
    /\ gstep = "target" /\ t > Len(worklist)
    /\ status' = IF \A i \in DOMAIN results : results[i].status = "passed" THEN "passed" ELSE "failed"
    /\ gstep' = "done"
    /\ UNCHANGED <<worklist, t, c, first, results, crashes, mutationVars, overlay, pip, dep, cov>>

\* The process is killed and the check is run again in the same checkout.
Crash ==
    /\ gstep \notin {"begin", "done", "aborted"} /\ crashes < MaxCrashes
    /\ crashes' = crashes + 1
    /\ IF gstep = "install"
       THEN \E part \in SUBSET pip :
              overlay' = [overlay EXCEPT ![NearestManifest(Target)].dir = part]
       ELSE UNCHANGED overlay
    /\ gstep' = "begin" /\ UNCHANGED <<worklist, config, mutants>>
    /\ t' = 1 /\ c' = 1 /\ pip' = {}
    /\ Forget /\ passes' = <<>> /\ first' = NoResult /\ results' = <<>> /\ status' = "none"

GNext ==
    \/ StartGate \/ StartTarget \/ PrepareOverlay \/ DropUnavailable \/ InstallManifest \/ InstallFails
    \/ Coverage \/ Setup \/ Generate \/ Score \/ Collect \/ Judge \/ Abort \/ Finish \/ Crash

GSpec == GInit /\ [][GNext]_gvars

-----------------------------------------------------------------------------
(* The command line and CI aggregate the targets' evidence again.          *)

\* A number of each target, added up.
Total(number) ==
    LET sum[n \in 0..Len(results)] == IF n = 0 THEN 0 ELSE sum[n - 1] + number[n]
    IN  sum[Len(results)]

KilledMutants == [i \in DOMAIN results |-> results[i].mutation.killed]
ScoredMutants ==
    [i \in DOMAIN results |-> LET m == results[i].mutation
                              IN  m.killed + m.survived + m.timeout + m.suspicious]
GeneratedMutants == [i \in DOMAIN results |-> results[i].mutation.generated]

\* Mutant of AggregateMutation: mutants without a verdict weigh on the rate.
AggregateGenerated ==
    /\ \A i \in DOMAIN results : results[i].mutation.passed
    /\ Reaches(Total(KilledMutants), Total(GeneratedMutants), MutGate)

AggregateCoverage == \A i \in DOMAIN results : results[i].coverage.passed

AggregateMutation ==
    /\ \A i \in DOMAIN results : results[i].mutation.passed
    /\ \A i \in DOMAIN results : results[i].mutation.reason \notin
          {"mutation_backend_failed", "mutation_no_tests"}
    /\ Reaches(Total(KilledMutants), Total(ScoredMutants), MutGate)

-----------------------------------------------------------------------------
(* Properties.                                                             *)

\* Whatever dies while pip runs, an overlay that is marked as installed holds
\* every distribution of the manifest the index has, or the complete fallback
\* set of some target.
MarkedIsInstalled ==
    \A m \in DOMAIN overlay :
      /\ overlay[m].marker = "whole" => Requirements(m) \ overlay[m].dir \subseteq Unavailable
      /\ overlay[m].marker = "compat" =>
           \E i \in DOMAIN worklist : overlay[m].dir = CompatibleRequirements(Targets[worklist[i]])

\* Every line the policy selected is generated in exactly one pass, or the
\* evidence names it as left out; no pass is repeated and none is skipped.
NothingLost ==
    gstep = "judge" =>
      LET tried == history.tried
      IN  /\ \A i, j \in DOMAIN tried : i # j => tried[i] \cap tried[j] = {}
          /\ (UNION Range(tried)) \cup ReportedOmissions(Target.file, lines) = lines

\* A target passes its mutation stage only if every pass generated its mutants
\* and, of all mutants of all passes that were executed to a verdict or left
\* unexecuted, the tests killed the gate's share.
PassIsEarned ==
    [][gstep = "judge" /\ gstep' = "target" /\ Len(results') > Len(results)
       /\ Last(results').status = "passed"
       => LET fates == history.fates
              counted == Statuses \ {"no tests", "skipped", "interrupted"}
          IN  /\ ~history.failed
              /\ 100 * Count(fates, {"killed", "segfault"}) >= MutGate * Count(fates, counted)]_gvars

\* The verdict of the run and the two aggregates printed by the command line
\* say the same: passed exactly when both aggregates pass.
LanesAgree ==
    gstep = "done" /\ status \in {"passed", "failed"} /\ results # <<>> =>
      (status = "passed") = (AggregateCoverage /\ AggregateMutation)
===============================================================================

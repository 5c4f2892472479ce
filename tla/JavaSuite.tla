------------------------------- MODULE JavaSuite -------------------------------
(***************************************************************************)
(* What the Java gate decides about test classes (uta/language/java:       *)
(* enforcement_runner, ci.py, ci_evidence.py): which failing or hanging    *)
(* classes may be left out of a run, how a run without them is asked of    *)
(* Maven, what the output of a run says, and what a repair is then asked   *)
(* to work on.                                                             *)
(*                                                                         *)
(* A diff is [known, tests, production, obligated]: whether git could be   *)
(* asked, the changed test classes, the changed production classes, and    *)
(* those of them the Maven plugin puts under an obligation.                *)
(*                                                                         *)
(* The output of a Maven run is                                            *)
(*   [rc, says, ran, stopped, names]: the return code, what the text says, *)
(*   the classes with a report, the module the build stopped in (0: none)  *)
(*   and the targets the plugin printed.                                   *)
(***************************************************************************)
EXTENDS Integers, Sequences, FiniteSets, FiniteSetsExt, SequencesExt

CONSTANTS
    Suite,          \* class -> [module, simple, names, target, mentions, standard, argument]
    Production,     \* production class -> its module
    Upstream,       \* module -> modules built with it by -am
    SelectorLimit   \* classes a -Dtest argument can hold

\* Modules are numbered from 1 in the order they are built.
ASSUME SuiteAssumption ==
    /\ SelectorLimit \in Nat
    /\ \A m \in DOMAIN Upstream : m \in Nat \ {0} /\ Upstream[m] \subseteq DOMAIN Upstream
    /\ \A p \in DOMAIN Production : Production[p] \in DOMAIN Upstream
    /\ \A c \in DOMAIN Suite : Suite[c].module \in DOMAIN Upstream

Classes == DOMAIN Suite
Simple(c) == Suite[c].simple
Module(c) == Suite[c].module

\* Several classes of known share the simple name of c.
Ambiguous(c, known) == \E d, e \in known : d # e /\ Simple(d) = Simple(c) /\ Simple(e) = Simple(c)

-----------------------------------------------------------------------------
(* Scope.                                                                  *)

ChangedModules(production) == {Production[p] : p \in production}

\* -pl with the changed modules and -am.
Reactor(production) ==
    ChangedModules(production) \cup UNION {Upstream[m] : m \in ChangedModules(production)}

\* _pitest_target_tests: for each source, the changed tests of its module
\* that name it, else the tests of the module that are named for it.
TargetTests(diff, production) ==
    UNION {LET near == {c \in Classes : Module(c) = Production[p]}
               own == {c \in near \cap diff.tests : p \in Suite[c].names}
           IN  IF own # {} THEN own ELSE {c \in near : Suite[c].standard /\ p \in Suite[c].mentions}
             : p \in production}

\* The scope the plugin printed, read back as changed classes.
FilteredTargets(out, diff) == out.names \cap diff.production

-----------------------------------------------------------------------------
(* Which classes may be left out.                                          *)

NoFailures == [excluded |-> {}, collateral |-> {}, retained |-> {}, reason |-> "no-failures"]

AllExcluded(p) == p.excluded \cup p.collateral

\* Mutant of RelatedTo: only tests of the diff are kept.
ChangedTestsOnly(c, diff, production) == ~Suite[c].argument \/ c \in diff.tests

\* A test of the diff, one that names a changed type, and one whose name
\* cannot be said to Maven stay in the run.
RelatedTo(c, diff, production) ==
    \/ ~Suite[c].argument
    \/ c \in diff.tests
    \/ Suite[c].names \cap production # {}

PartitionFailing(failing, diff, production) ==
    LET related == {c \in failing : RelatedTo(c, diff, production)}
    IN  CASE failing = {} -> NoFailures
          [] failing # {} /\ ~diff.known ->
               [NoFailures EXCEPT !.retained = failing, !.reason = "no-diff-available"]
          [] OTHER ->
               [NoFailures EXCEPT !.excluded = failing \ related, !.retained = related,
                  !.reason = IF failing = related THEN "all-failures-related" ELSE ""]

\* A refused exclusion reports its classes as retained.
WithoutExclusions(p, reason) ==
    [excluded |-> {}, collateral |-> {}, retained |-> p.retained \cup p.excluded, reason |-> reason]

\* Maven is told simple names: every known class that shares the name of an
\* excluded one goes with it.
ExpandColliding(p, known) ==
    LET words == {Simple(c) : c \in p.excluded}
        expanded == {c \in known : Simple(c) \in words /\ Ambiguous(c, known)}
    IN  IF expanded \subseteq p.excluded THEN p
        ELSE [p EXCEPT !.collateral = @ \cup (expanded \ p.excluded), !.retained = @ \ expanded,
                       !.reason = "simple-name-collision-expanded"]

\* A module that would be left without tests keeps its failing ones, except
\* those that a name shared with another module forces out.
WithoutModuleEmptying(p, known) ==
    LET out == AllExcluded(p)
        forced == {Simple(c) : c \in {d \in known : /\ Ambiguous(d, known)
                                                     /\ \A e \in known : Simple(e) = Simple(d) => e \in out}}
        emptied == {m \in {Module(c) : c \in known} : \A c \in known : Module(c) = m => c \in out}
        kept == {c \in known \cap out : Module(c) \in emptied /\ Simple(c) \notin forced}
        left == [p EXCEPT !.excluded = @ \ kept, !.collateral = @ \ kept,
                          !.retained = @ \cup (p.excluded \cap kept)]
    IN  IF out # {} /\ AllExcluded(left) = {}
        THEN [left EXCEPT !.reason = "would-empty-module-suite"] ELSE left

-----------------------------------------------------------------------------
(* How a run is asked for.                                                 *)

\* Tests of a module by its sources: Surefire's default names only.
Declared(modules) == {c \in Classes : Module(c) \in modules /\ Suite[c].standard}

\* A positive list of simple names selects every class that has one of them.
Selection(kept) == {c \in Classes : \E k \in kept : Simple(k) = Simple(c)}

\* A command is [tests, drop, shape]: what it selects, PIT's drop list, and how
\* often its arguments were rewritten (a second rewriting reorders them).
Selecting(cmd, kept, drop) ==
    [tests |-> Selection(kept), drop |-> cmd.drop \cup drop,
     shape |-> IF cmd.shape < 2 THEN cmd.shape + 1 ELSE 2]

\* -Dtest for an old Surefire: names that fit, within the size of an argument.
SelectedClasses(cmd, kept, drop) ==
    LET keep == {c \in kept : Suite[c].argument}
    IN  IF keep = {} \/ drop = {} \/ Cardinality(keep) > SelectorLimit THEN cmd
        ELSE Selecting(cmd, keep, drop)

\* -Dsurefire.includesFile: the list is in a file of a fixed name.
SelectedFile(cmd, kept, drop) == IF drop = {} THEN cmd ELSE Selecting(cmd, kept, drop)

Excluding(cmd, known, drop, file) ==
    LET kept == known \ drop
        argued == {c \in drop : Suite[c].argument}
    IN  IF kept = {} THEN cmd
        ELSE IF file THEN SelectedFile(cmd, kept, argued) ELSE SelectedClasses(cmd, kept, argued)

\* Two commands are compared as argument lists.
SameCommand(a, b, file) == a.drop = b.drop /\ a.shape = b.shape /\ (file \/ a.tests = b.tests)

-----------------------------------------------------------------------------
(* What a run says.                                                        *)

HasEvidence(out) == "evidence" \in out.says
Terminated(out) == out.rc < 0

\* _classify_completed: the first line that applies.
Verdicts(out, low) ==
    << <<"skipped" \in out.says, "skipped">>,
       <<"gate_failed" \in out.says, "failed">>,
       <<low /\ "low_score" \in out.says, "failed">>,
       <<"uncovered" \in out.says, "failed">>,
       <<Terminated(out), "command_error">>,
       <<"broken" \in out.says, "failed">>,
       <<"baseline" \in out.says, "failed">>,
       <<HasEvidence(out), "passed">>,
       <<out.rc = 0 /\ "no_lines" \in out.says, "passed">>,
       <<out.rc # 0, "failed">> >>

ClassifyCompleted(out) ==
    LET holds(line) == line[1]
        i == SelectInSeq(Verdicts(out, TRUE), holds)
    IN  IF i = 0 THEN "missing_evidence" ELSE Verdicts(out, TRUE)[i][2]

-----------------------------------------------------------------------------
(* What a repair is asked to do.  A result is [status, out, part, hang,    *)
(* failed, diff, targets, files, tests, tooling, compat]: failed are the   *)
(* classes the reports on disk show red; targets, files and tests are the  *)
(* evidence filteredTargetClasses, filteredChangedProductionFiles and      *)
(* targetTests.                                                            *)

\* Production classes named after the tests, among the candidates.
TargetClassesFor(tests, candidates) == {Suite[c].target : c \in tests} \cap candidates

\* What the evidence says was left out.
LeftOut(result) == result.part.excluded \cup result.hang.quarantined \cup result.hang.pre

FilteredOrChanged(result) ==
    IF result.targets # {} THEN result.targets ELSE result.diff.production

BaselineTargets(result) ==
    IF "baseline" \notin result.out.says THEN {}
    ELSE TargetClassesFor(result.failed \ LeftOut(result), FilteredOrChanged(result))

\* Broken test sources of the diff among the selected tests: the class each is
\* named after, whether a candidate or only suggested by the name.
CompileTargets(result) ==
    IF "broken" \notin result.out.says THEN {}
    ELSE {Suite[c].target : c \in result.tests \cap result.diff.tests} \ {""}

\* _unfiltered_fallback_classes: an empty list of files is an answer.
FallbackTargets(result) == result.files

RepairTargets(result) ==
    LET named == CompileTargets(result) \cup result.targets
    IN  CASE BaselineTargets(result) # {} -> BaselineTargets(result)
          [] BaselineTargets(result) = {} /\ named # {} -> named
          [] OTHER -> FallbackTargets(result)

\* java_failure_diagnostics: why a run failed, for the report.
MissingCoverage(result) ==
    LET outside == {c \in result.tests \cap result.diff.tests : Module(c) \notin ChangedModules(result.diff.production)}
    IN  CASE "tests_skipped" \in result.out.says -> "tests were skipped"
          [] "tests_skipped" \notin result.out.says /\ "no_agent" \in result.out.says
               -> "agent did not run"
          [] {"tests_skipped", "no_agent"} \cap result.out.says = {} /\ outside # {}
               -> "test outside the module"
          [] OTHER -> "report missing"

Diagnostics(result) ==
    IF result.status = "passed" THEN {}
    ELSE (IF "broken" \in result.out.says THEN {"java_test_compile_failed"} ELSE {})
         \cup (IF "baseline" \in result.out.says THEN {"pit_baseline_not_green"} ELSE {})
         \cup (IF "no_jacoco" \in result.out.says THEN {MissingCoverage(result)} ELSE {})

\* java_gate_failure_summary: gates first, then the blocked baseline, then the
\* tests, else the summary of the result.
SummaryReasons(result) ==
    LET found == {s \in {"gate_failed", "low_score", "baseline"} : s \in result.out.says}
                 \cup (IF result.failed # {} THEN {"tests failed"} ELSE {})
    IN  IF result.status = "passed" THEN {} ELSE IF found = {} THEN {result.status} ELSE found

\* output_evidence_detail: a blocked baseline hides every mutation number.
MutationShown(result) == HasEvidence(result.out) /\ "baseline" \notin result.out.says

\* test_enforcement_requirements: the plugin is missing, not the tests.
AsksForPlugin(result) == ~result.tooling \/ (result.status = "missing_evidence" /\ ~result.compat)
================================================================================

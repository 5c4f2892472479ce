------------------------------- MODULE JavaGate -------------------------------
(***************************************************************************)
(* The Java gate: MavenEnforcementRunner.run with the hanging-test         *)
(* quarantine and the second run without unrelated failures, and what the  *)
(* CI handler makes of the result.  Several gates run one after another in *)
(* one checkout: the Surefire reports on disk and the quarantine table     *)
(* outlive each of them.                                                   *)
(*                                                                         *)
(* Maven is external: which classes are red and which hang is fixed for a  *)
(* behaviour, everything else it does is a choice.                         *)
(***************************************************************************)
EXTENDS JavaSuite

CONSTANTS
    Diffs,         \* the diffs a gate may be asked about
    StallRetries,  \* stall_retries
    MaxChecks      \* bound: gates run one after another

ASSUME JavaGateAssumption ==
    /\ StallRetries \in 0..3 /\ MaxChecks \in Nat
    /\ \A d \in Diffs : d.production \subseteq DOMAIN Production

VARIABLES
    red, hangs,    \* the classes that fail, the classes that never end
    modern,        \* every Surefire of the reactor reads includesFile (2.13)
    store,         \* the quarantine table: classes seen to hang, not yet expired
    reports,       \* disk: Surefire reports, class -> failed
    fresh,         \* reports written since this gate's snapshot
    pc, diff, full,
    cmd,           \* the Maven command: [tests, drop, shape]
    hang,          \* HangingRun: [named, quarantined, pre, retained, retries, reason]
    out,           \* the output of the last run, or of the first when it is kept
    kept,          \* the first run, while the second one runs
    part,          \* the exclusion evidence
    scope,         \* the scope evidence: [targets, files, tests]
    unstarted,     \* history: the second run could not be started
    result,        \* the verdict, or None
    repair,        \* the report on a verdict: what is to be repaired and why
    checks

vars == <<red, hangs, modern, store, reports, fresh, pc, diff, full, cmd, hang, out, kept, part, scope,
          unstarted, result, repair, checks>>
world == <<red, hangs, modern>>
plan == <<diff, full>>

NoHang == [named |-> {}, quarantined |-> {}, pre |-> {}, retained |-> {}, retries |-> 0, reason |-> ""]
NoOutput == [rc |-> 0, says |-> {}, ran |-> {}, stopped |-> 0, names |-> {}]
NoScope == [targets |-> {}, files |-> {}, tests |-> {}]
None == [status |-> "none"]

-----------------------------------------------------------------------------
(* Maven.                                                                  *)

Built == IF diff.known THEN Reactor(diff.production) ELSE {Module(c) : c \in Classes}
Selected == {c \in cmd.tests : Module(c) \in Built}

Targeted(m) == ~diff.known \/ m \in ChangedModules(diff.production)

\* PIT stops the first targeted module that runs a red class.
RedModules == {Module(c) : c \in {d \in Selected \cap red : Targeted(Module(d))}}

ReachedBy(stop) == {c \in Selected : stop = 0 \/ Module(c) <= stop}

\* What the plugin prints of its scope, once a targeted module is initialised.
Printed(stop, says) ==
    {p \in diff.obligated : "enforcer" \in says /\ (stop = 0 \/ Production[p] <= stop)}

\* external: a run that ends.  After the last line of a gate anything can still
\* fail; the modules after the one that fails are not built.
EndedRuns ==
    LET green == {{}, {"enforcer"}, {"enforcer", "evidence"}, {"enforcer", "no_lines"},
                  {"enforcer", "skipped"}, {"enforcer", "evidence", "low_score"},
                  {"enforcer", "evidence", "uncovered"}}
        failing == {{"broken"}, {"enforcer", "gate_failed"}, {"enforcer", "evidence"},
                    {"enforcer", "no_jacoco"}, {"no_jacoco", "no_agent"}}
        baseline == {{"enforcer", "baseline"}, {"enforcer", "evidence", "baseline"}}
        of(rc, stop, says) == [rc |-> rc, says |-> says, ran |-> ReachedBy(stop), stopped |-> stop,
                               names |-> Printed(stop, says)]
    IN  IF RedModules = {}
        THEN {of(0, 0, says) : says \in green} \cup {of(1, m, says) : m \in Built, says \in failing}
        ELSE {of(1, Min(RedModules), says) : says \in baseline}
             \cup {of(1, m, {"broken"}) : m \in {n \in Built : n < Min(RedModules)}}

\* external: a run that stops writing; the class that hangs has no report.
Hanging == {c \in Selected \cap hangs : \A d \in Selected \cap hangs : Module(c) <= Module(d)}

StalledRun(c) ==
    [rc |-> -15, says |-> {"stalled"}, stopped |-> Module(c), names |-> {},
     ran |-> {d \in Selected : Module(d) < Module(c)}]

\* A run writes a report for every class it finishes.
Written(run) == [c \in run.ran \cup DOMAIN reports |-> IF c \in run.ran THEN c \in red ELSE reports[c]]

\* _clear_module_test_artifacts: the changed modules' reports, and no other's.
Stays(c) == Module(c) \notin ChangedModules(diff.production)
Cleared == [c \in {d \in DOMAIN reports : Stays(d)} |-> reports[c]]

-----------------------------------------------------------------------------
(* The verdict.                                                            *)

Verdict(status, run, compat, noted) ==
    [status |-> status, out |-> run, part |-> part, hang |-> noted, diff |-> diff,
     failed |-> IF run.rc # 0 \/ "baseline" \in run.says THEN {c \in DOMAIN reports : reports[c]} ELSE {},
     targets |-> IF FilteredTargets(run, diff) # {} THEN FilteredTargets(run, diff) ELSE scope.targets,
     files |-> scope.files, tests |-> scope.tests, tooling |-> TRUE, compat |-> compat]

Ends(status, run, compat, noted) ==
    result' = Verdict(status, run, compat, noted) /\ hang' = noted /\ pc' = "report"

\* A run whose PIT completion evidence is missing cannot pass.
Untrusted(run) == IF ClassifyCompleted(run) = "passed" THEN "missing_evidence" ELSE ClassifyCompleted(run)

-----------------------------------------------------------------------------
(* Before Maven.                                                           *)

\* external: an observation grows older than the quarantine's days.
Expire ==
    /\ pc = "begin"
    /\ \E c \in store : store' = store \ {c}
    /\ UNCHANGED <<world, unstarted, reports, fresh, pc, plan, cmd, hang, out, kept, part, scope, result,
                   repair, checks>>

\* The diff, the scope and the tooling: no changed source passes, no plugin or
\* no target test is missing evidence.
Begin ==
    /\ pc = "begin" /\ checks < MaxChecks
    /\ checks' = checks + 1
    /\ \E d \in Diffs, whole \in BOOLEAN, tooling \in BOOLEAN :
         LET tests == IF d.known /\ ~whole THEN TargetTests(d, d.production) ELSE {}
             files == IF d.known /\ ~whole THEN d.production ELSE {}
             nothing == d.known /\ d.production = {}
             missing == ~tooling \/ (d.known /\ ~whole /\ tests = {})
         IN  /\ diff' = d /\ full' = whole
             /\ scope' = [targets |-> {}, files |-> files, tests |-> tests]
             /\ cmd' = [tests |-> IF tests = {} THEN Classes ELSE Selection(tests),
                        drop |-> {}, shape |-> 0]
             /\ hang' = NoHang /\ part' = NoFailures /\ out' = NoOutput
             /\ fresh' = {}
             /\ IF nothing \/ missing
                THEN /\ result' = [status |-> IF nothing THEN "passed" ELSE "missing_evidence",
                                   out |-> NoOutput, part |-> NoFailures, hang |-> NoHang, diff |-> d,
                                   failed |-> {}, targets |-> {}, files |-> files, tests |-> tests,
                                   tooling |-> nothing \/ tooling, compat |-> FALSE]
                     /\ pc' = "report"
                ELSE result' = None /\ pc' = "preexclude"
    /\ UNCHANGED <<world, unstarted, store, reports, kept, repair>>

\* HangingRun.command: the classes to leave out, over the tests the sources
\* declare, those on disk and the names themselves.
HangingExclusion(names, file) ==
    LET known == Declared({Module(c) : c \in Classes}) \cup DOMAIN reports \cup names
        p == WithoutModuleEmptying(
               ExpandColliding(PartitionFailing(names, diff, diff.production), known), known)
        selected == Excluding(cmd, known, AllExcluded(p), file)
    IN  [cmd |-> IF AllExcluded(p) = {} THEN cmd ELSE selected,
         out |-> IF AllExcluded(p) = {} \/ SameCommand(selected, cmd, file) THEN {} ELSE AllExcluded(p)]

Preexclude ==
    /\ pc = "preexclude"
    /\ LET asked == HangingExclusion(store, FALSE)
       IN  /\ cmd' = IF store = {} THEN cmd ELSE asked.cmd
           /\ hang' = [hang EXCEPT !.pre = IF store = {} THEN {} ELSE asked.out]
    /\ pc' = "maven"
    /\ UNCHANGED <<world, unstarted, store, reports, fresh, plan, out, kept, part, scope, result, repair, checks>>

-----------------------------------------------------------------------------
(* The first run and its retries.                                          *)

Maven ==
    /\ pc = "maven"
    /\ \/ /\ Hanging = {}
          /\ out' \in EndedRuns
          /\ pc' = "ended"
       \/ /\ \E c \in Hanging : out' = StalledRun(c)
          /\ pc' = "stalled"
    /\ reports' = Written(out') /\ fresh' = fresh \cup out'.ran
    /\ UNCHANGED <<world, unstarted, store, plan, cmd, hang, kept, part, scope, result, repair, checks>>

\* The command times out, cannot be started, is silent before any test, or
\* ends without PIT's completion evidence.
MavenFails ==
    /\ pc = "maven"
    /\ \/ \E status \in {"timeout", "command_error"} : Ends(status, NoOutput, FALSE, hang)
       \/ Ends("command_error", [NoOutput EXCEPT !.rc = -15], FALSE,
               [hang EXCEPT !.reason = "no-unfinished-test"])
       \/ /\ Hanging = {}
          /\ \E run \in EndedRuns : Ends(Untrusted(run), run, TRUE, hang)
    /\ out' = result'.out
    /\ UNCHANGED <<world, unstarted, store, reports, fresh, plan, cmd, kept, part, scope, repair, checks>>

\* HangingRun.detect: why the class that hangs may not be left out.
StallReason(c) ==
    CASE c \in PartitionFailing({c}, diff, diff.production).retained -> "related-to-change"
      [] c \in hang.named \cup hang.pre -> "repeated-hanging-class"
      [] hang.retries >= StallRetries -> "stall-retries-exhausted"
      [] OTHER -> ""

\* A named, unrelated class is left out and remembered, and Maven runs again;
\* anything else ends the gate.
Stalled ==
    /\ pc = "stalled"
    /\ LET c == CHOOSE d \in Hanging : out = StalledRun(d)
           reason == StallReason(c)
           asked == HangingExclusion(hang.pre \cup hang.quarantined \cup {c}, modern)
           noted == [hang EXCEPT !.named = @ \cup {c}, !.reason = reason,
                                 !.retained = IF reason = "related-to-change" THEN @ \cup {c} ELSE @]
       IN  IF reason = "" /\ asked.out # {}
           THEN /\ hang' = [noted EXCEPT !.quarantined = @ \cup {c}, !.retries = @ + 1]
                /\ cmd' = asked.cmd
                /\ store' = store \cup {c}
                /\ reports' = Cleared /\ fresh' = {d \in fresh : Stays(d)}
                /\ pc' = "maven" /\ UNCHANGED result
           ELSE /\ Ends("command_error", out, FALSE,
                        [noted EXCEPT !.reason = IF @ = "" THEN "test-could-not-be-quarantined" ELSE @])
                /\ UNCHANGED <<cmd, store, reports, fresh>>
    /\ UNCHANGED <<world, unstarted, plan, out, kept, part, scope, repair, checks>>

-----------------------------------------------------------------------------
(* The second run, without unrelated failures.                             *)

\* A full run that is green and never ran the plugin is no evidence; otherwise
\* the scope is what the plugin printed.
Scoped ==
    /\ pc = "ended"
    /\ \/ /\ full /\ out.rc = 0 /\ "enforcer" \notin out.says
          /\ Ends("missing_evidence", out, FALSE, hang) /\ UNCHANGED scope
       \/ /\ full /\ (out.rc # 0 \/ "enforcer" \in out.says)
          /\ LET targets == FilteredTargets(out, diff)
             IN  scope' = [targets |-> targets, files |-> targets, tests |-> TargetTests(diff, targets)]
          /\ pc' = "partition" /\ UNCHANGED <<hang, result>>
       \/ /\ ~full /\ pc' = "classify" /\ UNCHANGED <<hang, scope, result>>
    /\ UNCHANGED <<world, unstarted, store, reports, fresh, plan, cmd, out, kept, part, repair, checks>>

SkippedModules == IF out.stopped = 0 THEN {} ELSE {m \in Built : m > out.stopped}

\* The tests the second run is to choose from: those of the first run and, for
\* the modules it never reached, those the sources declare (none if a module
\* cannot be told from its name in the log).
Inventory == fresh \cup Declared(SkippedModules)

\* _rerun_without_unrelated_failures up to the second run.
PartitionFailures ==
    /\ pc = "partition"
    /\ \E nameable \in BOOLEAN :
         LET failing == {c \in fresh : reports[c]}
             p == PartitionFailing(failing, diff, scope.files)
             narrowed == WithoutModuleEmptying(ExpandColliding(p, Inventory), Inventory)
             excluding == Excluding(cmd, Inventory, AllExcluded(narrowed), modern)
         IN  /\ ~nameable => SkippedModules # {}
             /\ \/ /\ p.excluded = {} /\ part' = p /\ pc' = "classify"
                   /\ UNCHANGED <<cmd, kept, reports, fresh>>
                \/ /\ p.excluded # {} /\ ~nameable
                   /\ part' = WithoutExclusions(p, "incomplete-test-inventory")
                   /\ pc' = "classify" /\ UNCHANGED <<cmd, kept, reports, fresh>>
                \/ /\ p.excluded # {} /\ nameable /\ AllExcluded(narrowed) = {}
                   /\ part' = narrowed /\ pc' = "classify"
                   /\ UNCHANGED <<cmd, kept, reports, fresh>>
                \/ /\ p.excluded # {} /\ nameable /\ AllExcluded(narrowed) # {}
                   /\ SameCommand(excluding, cmd, modern)
                   /\ part' = WithoutExclusions(narrowed, "no-usable-test-selector")
                   /\ pc' = "classify" /\ UNCHANGED <<cmd, kept, reports, fresh>>
                \/ /\ p.excluded # {} /\ nameable /\ AllExcluded(narrowed) # {}
                   /\ ~SameCommand(excluding, cmd, modern)
                   /\ part' = narrowed /\ kept' = out /\ cmd' = excluding
                   /\ reports' = Cleared /\ fresh' = {d \in fresh : Stays(d)}
                   /\ pc' = "rerun"
    /\ UNCHANGED <<world, unstarted, store, plan, hang, out, scope, result, repair, checks>>

\* Mutant of Withdrawn: the exclusion stays in the evidence.
NotWithdrawn(p) == p

\* The first run is the better evidence: the exclusion is taken back.
Withdrawn(p) == WithoutExclusions(p, "rerun-produced-no-evidence")

\* The second run: silence where the first one had evidence keeps the first.
Rerun ==
    /\ pc = "rerun"
    /\ \E run \in IF Hanging = {} THEN EndedRuns ELSE {StalledRun(c) : c \in Hanging} :
         /\ reports' = Written(run) /\ fresh' = fresh \cup run.ran
         /\ IF HasEvidence(kept) /\ ~HasEvidence(run)
            THEN out' = kept /\ part' = Withdrawn(part)
            ELSE out' = run /\ UNCHANGED part
    /\ kept' = NoOutput /\ pc' = "classify"
    /\ UNCHANGED <<world, unstarted, store, plan, cmd, hang, scope, result, repair, checks>>

\* The second run cannot be started (the first one stands), lacks PIT's
\* completion evidence (a failure without output), or times out, which leaves
\* run() as an exception.
RerunFails ==
    /\ pc = "rerun"
    /\ \/ out' = kept /\ unstarted' = TRUE /\ pc' = "classify"
       \/ out' = [NoOutput EXCEPT !.rc = 2] /\ pc' = "classify" /\ UNCHANGED unstarted
       \/ pc' = "raised" /\ UNCHANGED <<out, unstarted>>
    /\ kept' = NoOutput
    /\ UNCHANGED <<world, store, reports, fresh, plan, cmd, hang, part, scope, result, repair, checks>>

-----------------------------------------------------------------------------
(* The verdict and what is made of it.                                     *)

\* A pass is trusted only with PIT's completion evidence.
Classify ==
    /\ pc = "classify"
    /\ \E complete \in BOOLEAN :
         Ends(IF complete THEN ClassifyCompleted(out) ELSE Untrusted(out), out,
              ~complete /\ ClassifyCompleted(out) = "passed", hang)
    /\ UNCHANGED <<world, unstarted, store, reports, fresh, plan, cmd, out, kept, part, scope, repair, checks>>

Report ==
    /\ pc = "report"
    /\ repair' = [targets |-> IF result.status = "passed" THEN {} ELSE RepairTargets(result),
                  why |-> Diagnostics(result), summary |-> SummaryReasons(result),
                  mutation |-> MutationShown(result), plugin |-> AsksForPlugin(result)]
    /\ pc' = "done"
    /\ UNCHANGED <<world, unstarted, store, reports, fresh, plan, cmd, hang, out, kept, part, scope, result, checks>>

\* The next gate of the same checkout.
Again ==
    /\ pc \in {"done", "raised"} /\ checks < MaxChecks
    /\ pc' = "begin" /\ repair' = None /\ result' = None
    /\ out' = NoOutput /\ kept' = NoOutput /\ part' = NoFailures /\ scope' = NoScope
    /\ hang' = NoHang /\ unstarted' = FALSE /\ cmd' = [tests |-> {}, drop |-> {}, shape |-> 0]
    /\ fresh' = {}
    /\ UNCHANGED <<world, store, reports, plan, checks>>

Init ==
    /\ \E r, h \in 0..2 : red \in kSubset(r, Classes) /\ hangs \in kSubset(h, Classes)
    /\ modern \in BOOLEAN
    /\ store = {} /\ reports = [c \in {} |-> FALSE] /\ fresh = {}
    /\ pc = "begin" /\ diff = (CHOOSE d \in Diffs : TRUE) /\ full = FALSE
    /\ cmd = [tests |-> {}, drop |-> {}, shape |-> 0]
    /\ hang = NoHang /\ out = NoOutput /\ kept = NoOutput /\ part = NoFailures /\ scope = NoScope
    /\ unstarted = FALSE /\ result = None /\ repair = None /\ checks = 0

Next ==
    \/ Expire \/ Begin \/ Preexclude \/ Maven \/ MavenFails \/ Stalled \/ Scoped \/ PartitionFailures
    \/ Rerun \/ RerunFails \/ Classify \/ Report \/ Again

Spec == Init /\ [][Next]_vars

-----------------------------------------------------------------------------
(* Properties.                                                             *)

Judged == pc = "done" /\ result.out # NoOutput

\* A pass is about the diff: every test class of the diff, or that names a
\* source the plugin had put under an obligation when the failures were sorted,
\* ran in the very run the verdict was taken from, unless the build stopped
\* before its module, its simple name is shared with a class that was left out,
\* Surefire's default names do not cover it, or its name cannot be said to Maven.
VerdictCoversDiff ==
    Judged /\ result.status = "passed" /\ full =>
      \A c \in Classes :
        /\ diff.known /\ Module(c) \in Built /\ Suite[c].standard /\ Suite[c].argument
        /\ c \in diff.tests \/ Suite[c].names \cap result.files # {}
        => \/ c \in result.out.ran
           \/ result.out.stopped # 0 /\ Module(c) > result.out.stopped
           \/ Ambiguous(c, Classes)

\* The evidence describes the run that happened: no class it names as excluded
\* from the gates ran in the run the verdict was taken from (a second run that
\* could not be started is the exception: its verdict is the first run's).
ExcludedDidNotRun == Judged /\ ~unstarted => AllExcluded(result.part) \cap result.out.ran = {}
===============================================================================

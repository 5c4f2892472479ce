------------------------- MODULE PythonVerification -------------------------
(***************************************************************************)
(* verify_python_target: the check that repair and generation run on one   *)
(* Python target before they believe it.  It prepares an interpreter, runs *)
(* the selected tests under coverage, and then mutates the changed lines   *)
(* with mutmut in the repository's own checkout: the source may be masked, *)
(* the project's mutmut configuration is replaced, and both are put back   *)
(* in a finally block.  The commands it runs are the environment; what     *)
(* they answer is chosen by the step that reads the answer.                *)
(***************************************************************************)
EXTENDS Integers, Sequences, FiniteSets, FiniteSetsExt

CONSTANTS Interps,      \* interpreters: the configured one and the fallbacks
          Configured,   \* python_bin (python2_bin in the legacy lane)
          Fallbacks,    \* UTA_SERVICE_PYTHON_BIN, sys.executable: a sequence
          MaxMutants,   \* bound: mutants mutmut generates in one pass
          MaxBatches,   \* bound: python_mutation_generation_max_batches
          Gate          \* the mutation gate, in percent

ASSUME InterpAssumption ==
    /\ Configured \in Interps
    /\ Fallbacks \in Seq(Interps)
ASSUME BoundAssumption ==
    /\ MaxMutants \in Nat \ {0}
    /\ MaxBatches \in Nat \ {0}
    /\ Gate \in 1..100

VARIABLES
    env,       \* the request: lane, setup command, manifest, whether python_bin is
               \* the default, and what is known of the changed lines
    tools,     \* which of the three tools each interpreter can start
    python,    \* the interpreter verification uses
    overlay,   \* the dependency overlay: its interpreter, and tools it brings
    pc,
    disk,      \* the target's source and the mutmut configuration on disk
    mut,       \* the mutation phase: its inputs, counts and failures
    result,    \* status and reason of the verification
    crashed    \* whether the process has ever died inside the phase

vars == <<env, tools, python, overlay, pc, disk, mut, result, crashed>>

Tools == {"python", "pytest", "coverage"}
None == "none"
NoOverlay == [for |-> None, brings |-> {}]
NoTools == [i \in Interps |-> {}]
Clean == [source |-> "own", config |-> "own"]
Open == [status |-> None, reason |-> None]

(***************************************************************************)
(* A mutant ends as killed, survived, missed (timeout and suspicious,      *)
(* which the score counts as not killed), not associated with a test,      *)
(* skipped, or it is never reached.                                        *)
(***************************************************************************)
Fates == {"killed", "survived", "missed", "no_tests", "skipped", "unchecked"}
NoTally == [f \in Fates |-> 0]
Generated(t) == t["killed"] + t["survived"] + t["missed"] + t["no_tests"]
                + t["skipped"] + t["unchecked"]
Scored(t) == t["killed"] + t["survived"] + t["missed"]

\* parse_mutmut_summary: the share is over the mutants a test was run
\* against; an empty denominator reads as 100%.
Passes(killed, scored) == killed * 100 >= Gate * scored

NoGen == [meta |-> -1, exit |-> 0, mapped |-> FALSE, eligible |-> FALSE, error |-> FALSE]
NoMut == [mode |-> None, left |-> 0, gen |-> NoGen, tally |-> NoTally,
          total |-> 0, mapped |-> FALSE, eligible |-> FALSE, failed |-> FALSE,
          exit |-> 0, zero |-> FALSE, attributed |-> 0, aborted |-> FALSE]

-----------------------------------------------------------------------------
(* Preparing the interpreter                                               *)

\* _python_runtime_fallback_bin: the first candidate that is not the current
\* interpreter, only for a defaulted python_bin in the modern lane.
Fallback(current) ==
    LET other == SelectSeq(Fallbacks, LAMBDA i : i /= current)
    IN  IF env.lane = "legacy" \/ ~env.default \/ other = <<>> THEN None ELSE Head(other)

Usable(i) == tools[i] = Tools

\* A probe of an interpreter that starts finds its own tools and, once the
\* overlay is on PYTHONPATH, the overlay's.
Found(i) == IF "python" \in tools[i] THEN tools[i] \cup overlay.brings ELSE {}

\* _select_overlay_runtime: choose the interpreter before dependencies of its
\* ABI are installed.
SelectOverlayRuntime(current) ==
    IF ~Usable(current) /\ Fallback(current) /= None
    THEN IF Usable(Fallback(current)) THEN Fallback(current) ELSE current
    ELSE current

End(status, reason) ==
    /\ result' = [status |-> status, reason |-> reason]
    /\ pc' = "done"

\* A configured setup command is all the preparation there is.
SetupCommand ==
    /\ pc = "setup" /\ env.setup
    /\ \/ /\ pc' = "python"
          /\ UNCHANGED result
       \/ End("failed", "setup_failed")
    /\ UNCHANGED <<env, tools, python, overlay, disk, mut, crashed>>

\* _prepare_nested_requirements_overlay: the nearest requirements.txt,
\* installed with one interpreter's pip.
OverlayOf(i, brings) == [for |-> i, brings |-> brings]

\* Otherwise the nearest requirements manifest is installed into an overlay
\* that every later command has on its PYTHONPATH, where it may provide tools
\* the interpreter itself lacks.
InstallOverlay ==
    /\ pc = "setup" /\ ~env.setup
    /\ IF env.lane = "legacy" \/ ~env.manifest
       THEN /\ pc' = "python"
            /\ UNCHANGED <<python, overlay, result>>
       ELSE /\ python' = SelectOverlayRuntime(python)
            /\ \/ \E brings \in SUBSET {"pytest", "coverage"} :
                    /\ overlay' = OverlayOf(python', brings)
                    /\ pc' = "python"
                    /\ UNCHANGED result
               \/ /\ End("failed", "setup_failed")
                  /\ UNCHANGED overlay
    /\ UNCHANGED <<env, tools, disk, mut, crashed>>

ProbePython ==
    /\ pc = "python"
    /\ IF "python" \in Found(python)
       THEN pc' = "pytest" /\ UNCHANGED result
       ELSE End("failed", "missing_python_runtime")
    /\ UNCHANGED <<env, tools, python, overlay, disk, mut, crashed>>

\* The pytest probe may still change the interpreter: the fallback needs an
\* interpreter that starts and pytest.
ProbePytest ==
    /\ pc = "pytest"
    /\ LET other == Fallback(python)
       IN  IF "pytest" \in Found(python)
           THEN pc' = "coverage" /\ UNCHANGED <<python, result>>
           ELSE IF other /= None /\ {"python", "pytest"} \subseteq Found(other)
           THEN python' = other /\ pc' = "coverage" /\ UNCHANGED result
           ELSE End("failed", "missing_pytest") /\ UNCHANGED python
    /\ UNCHANGED <<env, tools, overlay, disk, mut, crashed>>

\* So may the coverage probe, which asks the fallback for coverage alone.
ProbeCoverage ==
    /\ pc = "coverage"
    /\ LET other == Fallback(python)
       IN  IF "coverage" \in Found(python)
           THEN pc' = "compile" /\ UNCHANGED <<python, result>>
           ELSE IF other /= None /\ "coverage" \in Found(other)
           THEN python' = other /\ pc' = "compile" /\ UNCHANGED result
           ELSE End("failed", "missing_coverage") /\ UNCHANGED python
    /\ UNCHANGED <<env, tools, overlay, disk, mut, crashed>>

\* py_compile decides compatibility before any selected test runs; an
\* incompatible target passes as skipped.  Nothing later depends on the tools.
CompileTarget ==
    /\ pc = "compile"
    /\ tools' = NoTools
    /\ overlay' = NoOverlay
    /\ \/ /\ pc' = "tests"
          /\ UNCHANGED result
       \/ End("passed", "python_runtime_incompatible_skipped")
       \/ End("failed", "python_target_compile_failed")
    /\ UNCHANGED <<env, python, disk, mut, crashed>>

-----------------------------------------------------------------------------
(* Coverage                                                                *)

\* run_coverage_execution: the selected tests under coverage, then the report.
\* A report says whether the source was seen at all and how many of the lines
\* in scope were covered.
RunCoverage ==
    /\ pc = "tests"
    /\ \/ \E reason \in {"test_failed", "missing_coverage"} : End("failed", reason)
       \/ /\ pc' = "coverage_verdict"
          /\ UNCHANGED result
    /\ UNCHANGED <<env, tools, python, overlay, disk, mut, crashed>>

Reports == {r \in [seen : BOOLEAN, covered : 0..1, total : 0..1] :
                r.covered <= r.total /\ (r.total > 0 => r.seen)}

\* parse_coverage_xml: a requested diff whose source the report never saw
\* scores 0; otherwise no line in scope scores 100.
CoveragePasses(r) ==
    /\ ~(env.changed /= "unknown" /\ r.total = 0 /\ ~r.seen)
    /\ r.covered = r.total
NothingExecutable(r) == env.changed /= "unknown" /\ r.seen /\ r.total = 0

\* The verdicts verify_python_target draws from the report, in its order: the
\* gate, nothing executable, mutation deferred by the caller, mutation
\* disabled by its gate.
CoverageVerdict ==
    /\ pc = "coverage_verdict"
    /\ \E r \in Reports :
         IF ~CoveragePasses(r) THEN End("failed", "coverage_gate_failed")
         ELSE IF NothingExecutable(r) THEN End("passed", "passed")
         ELSE \/ End("passed", "coverage_gate_passed_mutation_deferred")
              \/ End("passed", "passed")
              \/ pc' = "preflight" /\ UNCHANGED result
    /\ UNCHANGED <<env, tools, python, overlay, disk, mut, crashed>>

-----------------------------------------------------------------------------
(* The mutation phase                                                      *)

Modes == IF env.lane = "legacy" THEN {"legacy"} ELSE {"batch", "single"}

\* _ensure_uta_owned_mutmut_version and _check_mutmut_version: how the
\* backend of a lane can be missing.
PreflightFailures ==
    IF env.lane = "legacy" THEN {"missing_python2_mutmut"}
    ELSE {"mutmut_pin_failed", "missing_mutmut", "unsupported_mutmut_version",
          "mutation_candidate_plan_disabled"}

\* mutmut_preflight admits one backend per lane and never falls back.  The
\* generation strategy is a setting; a sampled run is always a single pass.
Preflight ==
    /\ pc = "preflight"
    /\ \/ \E reason \in PreflightFailures : End("failed", reason) /\ UNCHANGED mut
       \/ /\ \E mode \in Modes : mut' = [NoMut EXCEPT !.mode = mode]
          /\ pc' = "filter"
          /\ UNCHANGED result
    /\ UNCHANGED <<env, tools, python, overlay, disk, crashed>>

\* _filter_changed_lines_for_mutation: the changed lines without the
\* statements of low value.
LinesToMutate == IF env.changed = "low_value" THEN "empty" ELSE env.changed

\* Changed lines that are all low-value side effects pass without a mutant.
FilterLines ==
    /\ pc = "filter"
    /\ IF LinesToMutate = "empty" THEN End("passed", "passed")
       ELSE pc' = "apply" /\ UNCHANGED result
    /\ UNCHANGED <<env, tools, python, overlay, disk, mut, crashed>>

\* _apply_changed_line_mutation_mask: the legacy lane writes a pragma on every
\* line outside the diff, when there is one to write.
MaskedSources ==
    IF mut.mode = "legacy" /\ LinesToMutate = "lines" THEN {"own", "masked"} ELSE {"own"}

\* _mutmut_config_overlay: mutmut 3 gets its own section in pyproject.toml or
\* setup.cfg; mutmut 1.5 is configured on its command line.
OverlaidConfig == IF mut.mode = "legacy" THEN "own" ELSE "overlay"

\* The source is masked and the configuration replaced.  A modern run without
\* changed lines has no candidate plan and fails once they are restored.
Apply ==
    /\ pc = "apply"
    /\ \E source \in MaskedSources : disk' = [source |-> source, config |-> OverlaidConfig]
    /\ \/ /\ mut.mode = "legacy"
          /\ pc' = "run"
          /\ UNCHANGED mut
       \/ /\ mut.mode /= "legacy" /\ env.changed = "unknown"
          /\ mut' = [mut EXCEPT !.failed = TRUE]
          /\ pc' = "restore"
       \/ /\ mut.mode = "single" /\ env.changed = "lines"
          /\ mut' = [mut EXCEPT !.left = 1]
          /\ pc' = "generate"
       \/ /\ mut.mode = "batch" /\ env.changed = "lines"
          /\ pc' = "partition"
          /\ UNCHANGED mut
    /\ UNCHANGED <<env, tools, python, overlay, result, crashed>>

\* The selected opportunities are packed into batches of whole functions under
\* a budget of generated bytes; there may be none.
PartitionBatches ==
    /\ pc = "partition"
    /\ \E n \in 0..MaxBatches :
         /\ mut' = [mut EXCEPT !.left = n]
         /\ pc' = IF n = 0 THEN "restore" ELSE "generate"
    /\ UNCHANGED <<env, tools, python, overlay, disk, result, crashed>>

\* What the adapter's metadata mode leaves (-1: no .meta file) and the
\* candidate plan built from it: planning may fail, keys may map to the
\* changed lines' candidates or not, and opportunities may be eligible.
Generations ==
    {g \in [meta : -1..MaxMutants, exit : 0..1, mapped : BOOLEAN, eligible : BOOLEAN,
            error : BOOLEAN] :
        /\ g.mapped => g.meta > 0 /\ g.eligible /\ ~g.error
        /\ g.error => g.eligible}

\* _batch_execution_failure before execution, and a planning error; a batch
\* that generated nothing drops its planning error.
GenerationFails(g) == g.exit /= 0 \/ (g.error /\ g.meta /= 0)

\* One batch: the mutants of the last one are removed, metadata is generated
\* and planned.  The batch is executed when its plan has keys.
GenerateBatch ==
    /\ pc = "generate" /\ mut.mode = "batch"
    /\ \E g \in Generations :
         LET next == [mut EXCEPT !.gen = g,
                                 !.total = @ + Max({g.meta, 0}),
                                 !.failed = @ \/ GenerationFails(g),
                                 !.mapped = @ \/ g.mapped,
                                 !.eligible = @ \/ g.eligible]
         IN  IF g.mapped /\ g.exit = 0
             THEN mut' = next /\ pc' = "run"
             ELSE /\ mut' = [next EXCEPT !.left = @ - 1, !.gen = NoGen]
                  /\ pc' = IF mut.left = 1 THEN "restore" ELSE "generate"
    /\ UNCHANGED <<env, tools, python, overlay, disk, result, crashed>>

\* A planning error, or mutants none of which is a candidate's.
SinglePlanFails(g) == g.error \/ (~g.mapped /\ g.eligible /\ g.meta > 0)

\* The single pass (hard_cap, or a sampled run): a failed metadata command is
\* a failure only when it left no .meta; without keys the plan is either
\* "nothing mutatable" or unmappable.
GenerateSingle ==
    /\ pc = "generate" /\ mut.mode = "single"
    /\ \E g \in Generations :
         /\ mut' = [mut EXCEPT !.gen = g, !.left = 0, !.total = Max({g.meta, 0}),
                               !.mapped = g.mapped, !.eligible = g.eligible,
                               !.failed = \/ g.exit /= 0 /\ g.meta = -1
                                          \/ SinglePlanFails(g)]
         /\ pc' = IF g.mapped THEN "run" ELSE "restore"
    /\ UNCHANGED <<env, tools, python, overlay, disk, result, crashed>>

\* A mutation run over n mutants: it completes; its watchdog aborts it, which
\* faulthandler does with exit status 1, an expected one; it dies; it reports
\* that no test could be associated; or it prints no summary.
MutantRuns(n) ==
    LET tallies == {t \in [Fates -> 0..n] : Generated(t) = n}
        complete == {t \in tallies : t["unchecked"] = 0}
    IN  {[tally |-> t, exit |-> 0, noAssoc |-> FALSE, aborted |-> FALSE] : t \in complete}
        \cup {[tally |-> t, exit |-> 1, noAssoc |-> FALSE, aborted |-> TRUE] : t \in tallies}
        \cup {[tally |-> NoTally, exit |-> e, noAssoc |-> FALSE, aborted |-> FALSE] : e \in {1, 124}}
        \cup {[tally |-> NoTally, exit |-> 1, noAssoc |-> TRUE, aborted |-> FALSE]}

\* _is_expected_mutmut_exit
ExpectedExit(exit) == exit \in {0, 1, 2}

\* _reconcile_no_test_association: a summary without mutants whose output
\* says no test could be associated counts the generated mutants as no-test.
Reconcile(tally, meta, noAssoc) ==
    IF Generated(tally) = 0 /\ meta > 0 /\ noAssoc
    THEN [NoTally EXCEPT !["no_tests"] = meta] ELSE tally

Merge(a, b) == [f \in Fates |-> a[f] + b[f]]

\* One batch's execution: the run command, its summary, the survivors' diffs,
\* and the failures that reject a batch without scored results.
RunBatch ==
    /\ pc = "run" /\ mut.mode = "batch"
    /\ \E r \in MutantRuns(mut.gen.meta) :
         LET tally == Reconcile(r.tally, mut.gen.meta, r.noAssoc)
         IN  mut' = [mut EXCEPT !.tally = Merge(@, tally),
                                !.failed = \/ @
                                           \/ ~ExpectedExit(r.exit)
                                           \/ Generated(tally) = 0,
                                !.aborted = @ \/ r.aborted,
                                !.left = @ - 1, !.gen = NoGen]
    /\ pc' = IF mut.left = 1 THEN "restore" ELSE "generate"
    /\ UNCHANGED <<env, tools, python, overlay, disk, result, crashed>>

\* The single pass' execution through the adapter.
RunSingle ==
    /\ pc = "run" /\ mut.mode = "single"
    /\ \E r \in MutantRuns(mut.gen.meta) :
         mut' = [mut EXCEPT !.tally = Reconcile(r.tally, mut.gen.meta, r.noAssoc),
                            !.exit = r.exit, !.aborted = r.aborted]
    /\ pc' = "restore"
    /\ UNCHANGED <<env, tools, python, overlay, disk, result, crashed>>

\* The legacy run: mutmut 1.5 on the masked source.  Survivors are attributed
\* to changed lines from the text of `mutmut results`; a run that says it had
\* no mutants may be on lines outside every function and class.
RunLegacy ==
    /\ pc = "run" /\ mut.mode = "legacy"
    /\ \E n \in 0..MaxMutants : \E r \in MutantRuns(n) :
         \E attributed \in 0..r.tally["survived"], zero \in BOOLEAN :
           /\ zero => Generated(r.tally) = 0 /\ r.exit /= 124
           /\ mut' = [mut EXCEPT !.tally = r.tally, !.exit = r.exit, !.aborted = r.aborted,
                                 !.attributed = attributed, !.zero = zero]
    /\ pc' = "restore"
    /\ UNCHANGED <<env, tools, python, overlay, disk, result, crashed>>

-----------------------------------------------------------------------------
(* The verdict                                                             *)

\* _finalize_batched_outcome: a plan that selected work and generated nothing,
\* or generated mutants that map to no candidate, fails the target.
BatchPlanFails(m) ==
    m.mode = "batch" /\ m.eligible /\ (m.total = 0 \/ ~m.mapped)

\* _scope_mutation_to_changed_lines: the counts on changed lines.  Without
\* exact keys (legacy) a survivor no changed line claims, and a mutant that
\* was never reached, are counted as killed.
ScopedKilled(m) ==
    IF m.mode = "legacy" /\ env.changed = "lines"
    THEN Max({Generated(m.tally) - m.attributed - m.tally["missed"]
              - m.tally["no_tests"] - m.tally["skipped"], 0})
    ELSE m.tally["killed"]

\* The denominator of the score.
ScopedScored(m) ==
    IF m.mode = "legacy" /\ env.changed = "lines"
    THEN ScopedKilled(m) + m.attributed + m.tally["missed"]
    ELSE Scored(m.tally)

\* Mutated: mutants no test was associated with leave an empty denominator.
NeverUnassociated(generated, scored, noTests) == FALSE

\* all_selected_mutants_unassociated
Unassociated(generated, scored, noTests) == generated > 0 /\ scored = 0 /\ noTests > 0

\* The single pass and the legacy run may end without a mutant: the legacy
\* output says so and no changed line is in a function or class, or the
\* metadata is empty, or there is none though the plan had opportunities.
NothingMutatable(m) ==
    \/ m.zero
    \/ m.mode = "single" /\ (m.gen.meta = 0 \/ (m.eligible /\ m.gen.meta = -1))

\* The end of run_mutation_phase, after its finally block.
MutationVerdict(m) ==
    LET generated == Generated(m.tally)
        nothing == m.mode = "batch" \/ NothingMutatable(m)
        scored == IF env.changed = "unknown" THEN 0 ELSE ScopedScored(m)
    IN  CASE m.failed \/ BatchPlanFails(m)           -> <<"failed", "mutation_candidate_plan_failed">>
          [] ~(m.failed \/ BatchPlanFails(m)) /\ generated = 0 /\ ExpectedExit(m.exit) /\ nothing
                                                     -> <<"passed", "passed">>
          [] ~(m.failed \/ BatchPlanFails(m)) /\ ~(ExpectedExit(m.exit) /\ generated > 0)
             /\ ~(generated = 0 /\ ExpectedExit(m.exit) /\ nothing)
                                                     -> <<"failed", "mutation_backend_failed">>
          [] OTHER ->
               IF Unassociated(generated, scored, m.tally["no_tests"])
               THEN <<"failed", "mutation_no_tests">>
               ELSE IF Passes(ScopedKilled(m), ScopedScored(m))
               THEN <<"passed", "passed">> ELSE <<"failed", "mutation_gate_failed">>

\* _MutmutConfigOverlay.restore and _MutationMask.restore write the texts read
\* before the phase.
Restored == Clean

\* The finally block, then the verdict.
FinishMutation ==
    /\ pc = "restore"
    /\ disk' = Restored
    /\ LET v == MutationVerdict(mut) IN End(v[1], v[2])
    /\ UNCHANGED <<env, tools, python, overlay, mut, crashed>>

\* An exception inside the try block (a file that cannot be read or written)
\* runs the same finally block and leaves verify_python_target.
Raise ==
    /\ pc \in {"generate", "run"}
    /\ disk' = Restored
    /\ End("raised", "exception")
    /\ UNCHANGED <<env, tools, python, overlay, mut, crashed>>

\* The process is killed inside the phase: nothing is restored, and the next
\* verification takes what it finds for the originals.
Crash ==
    /\ pc \in {"generate", "run", "restore"}
    /\ crashed' = TRUE
    /\ End("raised", "killed")
    /\ UNCHANGED <<env, tools, python, overlay, disk, mut>>

-----------------------------------------------------------------------------
Requests ==
    [lane : {"legacy", "modern"}, setup : BOOLEAN, manifest : BOOLEAN, default : BOOLEAN,
     changed : {"unknown", "low_value", "lines"}]

Init ==
    /\ env \in Requests
    /\ tools \in [Interps -> SUBSET Tools]
    /\ \A i \in Interps : tools[i] /= {} => "python" \in tools[i]
    /\ python = Configured
    /\ overlay = NoOverlay
    /\ pc = "setup"
    /\ disk = Clean
    /\ mut = NoMut
    /\ result = Open
    /\ crashed = FALSE

Next ==
    \/ SetupCommand \/ InstallOverlay \/ ProbePython \/ ProbePytest \/ ProbeCoverage
    \/ CompileTarget \/ RunCoverage \/ CoverageVerdict
    \/ Preflight \/ FilterLines \/ Apply \/ PartitionBatches
    \/ GenerateBatch \/ GenerateSingle \/ RunBatch \/ RunSingle \/ RunLegacy
    \/ FinishMutation \/ Raise \/ Crash

Spec == Init /\ [][Next]_vars

-----------------------------------------------------------------------------
(* Properties                                                              *)

\* A modern run that passes after generating mutants has the results of
\* completed runs for at least one mutant a test was associated with (or
\* mutmut skipped), and the gate's share of the scored ones is killed.  Runs
\* their own watchdog aborted are not covered: they may pass.
PassIsMeasured ==
    /\ result.status = "passed" /\ mut.mode \in {"batch", "single"}
    /\ mut.total > 0 /\ mut.mapped /\ ~mut.aborted
    => /\ Scored(mut.tally) + mut.tally["skipped"] > 0
       /\ ExpectedExit(mut.exit)
       /\ mut.tally["killed"] * 100 >= Gate * Scored(mut.tally)
=============================================================================

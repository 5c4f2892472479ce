----------------------------- MODULE DelegatedGate -----------------------------
(***************************************************************************)
(* The delegated quality gate of a Java CI repair (uta/language/java:      *)
(* generation/quality.py, phases/delegated_quality.py, phases/precheck.py, *)
(* workspace.py): one unit of work, a batch of production classes, is      *)
(* judged by the configured Maven command.  The precheck asks for the gate *)
(* as it is configured; after it the command is narrowed to the batch, and *)
(* its answer decides between a pass, a repair turn and a failure that     *)
(* belongs to somebody else.                                               *)
(*                                                                         *)
(* Maven is external: which test classes fail is a choice, a run stops at  *)
(* the first module that fails, and of its output only the module and the  *)
(* test classes it names are told apart.                                   *)
(***************************************************************************)
EXTENDS JavaSuite

CONSTANTS
    Units,      \* what a unit may be about: [change, batch, own]
    Noted,      \* test classes the CI evidence lists as targetTests
    Absent,     \* bound: test classes that may be missing at first
    Rewritten,  \* bound: test classes a turn writes
    MaxTurns    \* bound: the turns the cycle's budget allows

ASSUME DelegatedGateAssumption ==
    /\ MaxTurns \in Nat
    /\ \A u \in Units : /\ u.own \in [tests : SUBSET Classes, sources : SUBSET DOMAIN Production,
                                     modules : SUBSET DOMAIN Upstream]
                       /\ u.change.known \in BOOLEAN

VARIABLES
    change, batch, own,  \* the diff (as in JavaSuite), the production classes the
                         \* unit is about, what the configured command selects
    disk,      \* the test classes that exist
    health,    \* test class -> what happens to it in a run
    stage,     \* where the unit is
    initial,   \* delegated_quality_gate of the precheck, or NoGate
    gate,      \* the last gate run
    turns,     \* attempts_by_phase["delegated_quality_gate"]
    closed     \* how the unit ended

unit == <<change, batch, own>>
dvars == <<unit, disk, health, stage, initial, gate, turns, closed>>

\* "crowded": fails when all test classes of its module run, and not among few.
Healths == {"good", "crowded", "failing", "uncompilable"}

\* A gate run: its verdict, the module it stopped in, the classes that ran and
\* those that failed, the sources it measured, and what its output names.
NoGate == [passed |-> FALSE, at |-> 0, ran |-> {}, failed |-> {}, sources |-> {},
           module |-> 0, names |-> {}]

-----------------------------------------------------------------------------
(* The command.                                                            *)

NoSelectors == [tests |-> {}, sources |-> {}, modules |-> {}]

\* class_module: where the source of a class is.
Home(p) == Production[p]

\* test_path_matches_target_module: by the nearest pom above the test.
Near(c, p) == Module(c) = Home(p)

\* The modules of the batch, by any of their names: no class of a batch is in
\* the root project.
ModulesOf(b) == {Home(p) : p \in b}

\* discover_ci_incremental_java_test_files: the test classes of its own module
\* that are named for a class, *Test.java or listed by the CI evidence.
Discovered(b) ==
    {c \in disk : /\ \E p \in b : p \in Suite[c].mentions /\ Near(c, p)
                  /\ Suite[c].standard \/ c \in Noted}

\* _remove_maven_option_with_value, over every selector the scope owns.
Scrubbed(cmd) == [cmd EXCEPT !.tests = {}, !.sources = {}, !.modules = {}]

\* Tests that a command selects already are kept, sources add up, the modules
\* are the batch's.
ScopedCommand ==
    LET base == Scrubbed(own)
    IN  [tests |-> IF base.tests # {} THEN base.tests ELSE Discovered(batch),
         sources |-> base.sources \cup batch, modules |-> ModulesOf(batch)]

-----------------------------------------------------------------------------
(* The gate.                                                               *)

\* _scoped_changed_production_java: the pinned sources that changed, and the
\* whole diff if none of them did.
Pinned(cmd) == cmd.sources \cap change.production
ToolSources(cmd) ==
    CASE ~change.known -> cmd.sources
      [] change.known /\ Pinned(cmd) # {} -> Pinned(cmd)
      [] OTHER -> change.production

\* The modules follow the sources; a diff nobody knows leaves the command alone.
ToolModules(cmd) ==
    CASE change.known -> Reactor(ToolSources(cmd))
      [] ~change.known /\ cmd.modules # {} -> cmd.modules \cup UNION {Upstream[m] : m \in cmd.modules}
      [] OTHER -> {Module(c) : c \in Classes}

ToolTests(cmd) == TargetTests(change, ToolSources(cmd)) \cap disk

\* What Maven is told to run, by simple names.
ToRun(cmd) ==
    LET told == IF cmd.tests = {} /\ change.known THEN ToolTests(cmd) ELSE cmd.tests
        selected == IF told = {} THEN disk ELSE Selection(told) \cap disk
    IN  {c \in selected : Module(c) \in ToolModules(cmd)}

\* external: the test classes of a module that fail when run is told.
FailuresIn(m, run) ==
    LET there == {c \in disk : Module(c) = m}
        broken == {c \in there : health[c] = "uncompilable"}
        crowded == there \subseteq run
    IN  IF broken # {} THEN broken
        ELSE {c \in there \cap run : health[c] = "failing" \/ (health[c] = "crowded" /\ crowded)}

\* Output that names test classes: those that do not compile, and *Test.
Named(c) == health[c] = "uncompilable" \/ Suite[c].standard

\* A run that stopped in module m.  The output of a long run is cut, and may
\* name no module or no test.
Failed(m, failures, run, sources) ==
    [passed : {FALSE}, at : {m}, ran : {{c \in run : Module(c) <= m}}, failed : {failures},
     sources : {sources}, module : {0, m}, names : {{}, {c \in failures : Named(c)}}]

\* A run that ended well.
Complete(run, sources) == [NoGate EXCEPT !.passed = TRUE, !.ran = run, !.sources = sources]

\* SafeProcessRunner.run: a command that cannot be started, is stopped or runs
\* out of time; with it, a gate without tooling or an exception on the way.
Unfinished == {NoGate}

\* Maven runs until a module fails; one whose tests pass may still miss its
\* gates or not build.
MavenRuns(cmd) ==
    LET run == ToRun(cmd)
        sources == ToolSources(cmd)
        stops == {m \in ToolModules(cmd) : FailuresIn(m, run) # {}}
        reached == {m \in ToolModules(cmd) : \A n \in stops : m < n}
    IN  Unfinished \cup (UNION {Failed(m, {}, run, sources) : m \in reached})
        \cup IF stops = {} THEN {Complete(run, sources)}
             ELSE Failed(Min(stops), FailuresIn(Min(stops), run), run, sources)

\* _run_delegated_quality_gate_once.  Without a changed source there is nothing
\* to measure, without a test of the changed sources PIT cannot be trusted.
GateRuns(cmd) ==
    CASE change.known /\ change.production = {} -> {Complete({}, {})}
      [] change.known /\ change.production # {} /\ ToolTests(cmd) = {} -> Unfinished
      [] OTHER -> MavenRuns(cmd)

-----------------------------------------------------------------------------
(* Whose failure it is.                                                    *)

\* Some class of the batch has its name in the name of the test.
About(c, b) == Suite[c].mentions \cap b # {}

\* _delegated_gate_failure_matches_batch.
MatchesBatch(g) ==
    /\ g.module = 0 \/ g.module \in ModulesOf(batch)
    /\ g.names = {} \/ \E c \in g.names : About(c, batch)

\* Mutant of Unresolved: the precheck's result is looked up where it is not.
NeverUnresolved(g) == FALSE

\* _unresolved_authoritative_failure: before any turn, a narrow pass does not
\* clear the failure of the full gate for this batch.
Unresolved(g) == turns = 0 /\ g # NoGate /\ ~g.passed /\ MatchesBatch(g)

-----------------------------------------------------------------------------
(* The unit.                                                               *)

\* The full gate before any turn: a pass closes the unit, a failure is kept.
\* A precheck of another kind asks for no gate.
Precheck ==
    /\ stage = "precheck"
    /\ \/ \E g \in GateRuns(own) :
            /\ gate' = g
            /\ IF g.passed THEN closed' = "prechecked" /\ stage' = "ended" /\ UNCHANGED initial
               ELSE initial' = g /\ stage' = "verify" /\ UNCHANGED closed
       \/ stage' = "verify" /\ UNCHANGED <<gate, initial, closed>>
    /\ UNCHANGED <<unit, disk, health, turns>>

\* verify_delegated_quality_gate, with the stopping policy of the cycle.
Verify ==
    /\ stage = "verify"
    /\ \E g \in GateRuns(ScopedCommand) :
         LET judged == IF g.passed /\ Unresolved(initial) THEN initial ELSE g
             answer == CASE judged.passed -> "passed"
                         [] ~judged.passed /\ ~MatchesBatch(judged) -> "outside"
                         [] OTHER -> IF turns < MaxTurns THEN "repair" ELSE "failed"
         IN  /\ gate' = judged
             /\ IF answer = "repair" THEN stage' = "turn" /\ UNCHANGED closed
                ELSE stage' = "ended" /\ closed' = answer
    /\ UNCHANGED <<unit, disk, health, initial, turns>>

\* allowed_llm_path: any test class may be written, whoever's it is.
Writable == Classes \cap Rewritten

\* interpret_delegated_quality_gate: the turn repaired, broke or added a test
\* class, or did nothing; it counts all the same.
Turn ==
    /\ stage = "turn"
    /\ \/ UNCHANGED <<disk, health>>
       \/ \E c \in Writable, h \in Healths : disk' = disk \cup {c} /\ health' = [health EXCEPT ![c] = h]
    /\ turns' = turns + 1 /\ stage' = "verify" /\ gate' = NoGate
    /\ UNCHANGED <<unit, initial, closed>>

DInit ==
    /\ \E u \in Units : change = u.change /\ batch = u.batch /\ own = u.own
    /\ \E missing \in SUBSET (Absent \ change.tests) : disk = Classes \ missing
    /\ \E c, d \in Classes, h, k \in Healths :
         health = [[t \in Classes |-> "good"] EXCEPT ![d] = k, ![c] = h]
    /\ stage = "precheck" /\ initial = NoGate /\ gate = NoGate /\ turns = 0 /\ closed = "open"

DNext == Precheck \/ Verify \/ Turn

DSpec == DInit /\ [][DNext]_dvars

-----------------------------------------------------------------------------
(* Properties.                                                             *)

\* The failure of a run is the batch's own: it stopped in one of its modules,
\* at the gates or the build, or at a test class named for one of its classes.
OwnFailure(g) ==
    /\ g.at \in ModulesOf(batch)
    /\ g.failed # {} => \E c \in g.failed : About(c, batch) /\ (c \in g.names \/ g.names = {})

\* No failure of the batch goes unanswered: a unit that passes without a repair
\* turn had no failure of its own in the full gate, and one that is closed as
\* somebody else's had none in the gate it was closed on, however the output
\* was cut (a failing class whose name does not end in Test is never named).
OwnFailureIsAnswered ==
    /\ closed = "passed" /\ turns = 0 /\ initial # NoGate => ~OwnFailure(initial)
    /\ closed = "outside" => ~OwnFailure(gate)

\* The narrowed gate a unit passes on was about the batch: it measured every
\* changed class of it and ran every test class on disk that is named for one
\* in its module, whatever the configured command had selected before.
ScopedPassCoversBatch ==
    closed = "passed" /\ gate.sources # {} =>
      LET measured == IF change.known THEN batch \cap change.production ELSE batch
      IN  /\ measured \subseteq gate.sources
          /\ Discovered(measured) \subseteq gate.ran
===============================================================================

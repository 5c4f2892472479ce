----------------------------- MODULE GatesProofs ------------------------------
(***************************************************************************)
(* What the gates promise, for any test classes, diffs, units, build files *)
(* and targets.                                                            *)
(***************************************************************************)
EXTENDS JavaGate, DelegatedGate, JavaBaseline, PythonGate, FiniteSetTheorems,
        FunctionTheorems, WellFoundedInduction, TLAPS

-----------------------------------------------------------------------------
(* Least numbers.                                                          *)

\* The sets of the elements up to k are finite, and the least of them belongs
\* to the least k.
LEMMA LeastExists ==
  ASSUME NEW S \in SUBSET Nat, IsFiniteSet(S), S # {}
  PROVE  \E k \in S : \A d \in S : k <= d
  <1> DEFINE UpTo(k) == {j \in S : j <= k}
             Heads == {UpTo(k) : k \in S}
  <1>1. Heads \subseteq FiniteSubsetsOf(S) /\ Heads # {}
    <2>1. ASSUME NEW k \in S PROVE UpTo(k) \in SUBSET S /\ IsFiniteSet(UpTo(k))
      BY FS_Subset
    <2> QED
      BY <2>1 DEF FiniteSubsetsOf
  <1>2. IsWellFoundedOn(StrictSubsetOrdering(S), FiniteSubsetsOf(S))
    BY FS_StrictSubsetOrderingWellFounded
  <1>3. PICK X \in Heads : \A Y \in Heads : <<Y, X>> \notin StrictSubsetOrdering(S)
    BY <1>1, <1>2, WFMin
  <1>4. PICK k \in S : X = UpTo(k)
    BY <1>3
  <1>5. ASSUME NEW j \in S, ~(k <= j) PROVE FALSE
    <2>1. UpTo(j) \in Heads /\ UpTo(j) \subseteq S /\ X \subseteq S
      BY <1>4
    <2>2. ASSUME NEW i \in UpTo(j) PROVE i \in UpTo(k)
      BY <1>5
    <2>3. k \in UpTo(k) /\ k \notin UpTo(j)
      BY <1>5
    <2>4. <<UpTo(j), X>> \in StrictSubsetOrdering(S)
      BY <1>4, <2>1, <2>2, <2>3 DEF StrictSubsetOrdering
    <2> QED
      BY <1>3, <2>1, <2>4
  <1> QED
    BY <1>5

\* The least line of a batch.
LEMMA MinOfLines ==
  ASSUME NEW S \in SUBSET Nat, IsFiniteSet(S), S # {}
  PROVE  Min(S) \in S
  BY LeastExists DEF Min

\* A set of numbers that is not empty has a least one among the first n.
LEMMA LeastUpTo ==
  ASSUME NEW n \in Nat, NEW S \in SUBSET (0..n), S # {}
  PROVE  \E k \in S : \A d \in S : k <= d
  <1>1. S \in SUBSET Nat /\ \A k \in S : k <= n
    OBVIOUS
  <1>2. IsFiniteSet(S)
    BY <1>1, FS_BoundedSetOfNaturals
  <1> QED
    BY <1>1, <1>2, LeastExists

\* Any set of numbers has a least one.
LEMMA MinOfNumbers ==
  ASSUME NEW S \in SUBSET Nat, S # {}
  PROVE  Min(S) \in S /\ \A d \in S : Min(S) <= d
  <1>1. PICK n \in S : TRUE
    OBVIOUS
  <1> DEFINE T == {k \in S : k <= n}
  <1>2. T \in SUBSET (0..n) /\ T # {} /\ n \in Nat
    <2>1. n \in Nat /\ n \in T
      BY <1>1
    <2>2. ASSUME NEW k \in T PROVE k \in 0..n
      OBVIOUS
    <2> QED
      BY <2>1, <2>2
  <1>3. PICK k \in T : \A d \in T : k <= d
    BY <1>2, LeastUpTo
  <1>4. k \in S /\ \A d \in S : k <= d
    <2>1. k \in Nat /\ k <= n
      BY <1>3
    <2>2. ASSUME NEW d \in S PROVE k <= d
      <3>1. CASE d <= n
        BY <1>3, <3>1
      <3>2. CASE ~(d <= n)
        BY <1>2, <2>1, <3>2
      <3> QED
        BY <3>1, <3>2
    <2> QED
      BY <1>3, <2>2
  <1> HIDE DEF T
  <1> QED
    BY <1>4 DEF Min

-----------------------------------------------------------------------------
(* The delegated gate.                                                     *)

\* What is read off the output of a run: its module or none, and of the test
\* classes that failed some or none.
ShapeOK(g) == g.module \in {0, g.at} /\ g.names \subseteq g.failed

\* The precheck keeps failures only; how a unit ended was decided on the gate
\* it shows.
UnitOK ==
    /\ ShapeOK(gate) /\ ShapeOK(initial) /\ ~initial.passed
    /\ disk \subseteq Classes /\ change.known \in BOOLEAN
    /\ own \in [tests : SUBSET Classes, sources : SUBSET DOMAIN Production,
                modules : SUBSET DOMAIN Upstream]
    /\ stage # "ended" => closed = "open"
    /\ closed = "passed" /\ turns = 0 /\ initial # NoGate => ~MatchesBatch(initial)
    /\ closed = "outside" => ~MatchesBatch(gate)
    /\ ScopedPassCoversBatch

\* A failure that is the batch's own is taken for the batch's, however the
\* output was cut.
LEMMA OwnFailureMatches ==
  ASSUME NEW g, ShapeOK(g), OwnFailure(g)
  PROVE  MatchesBatch(g)
  BY DEF ShapeOK, OwnFailure, MatchesBatch

\* What every run that stopped in a module shows.
LEMMA FailedRun ==
  ASSUME NEW m, NEW failures, NEW asked, NEW sources, NEW g \in Failed(m, failures, asked, sources)
  PROVE  /\ ~g.passed /\ g.at = m /\ g.failed = failures
         /\ g.module \in {0, m} /\ g.names \subseteq failures
  BY DEF Failed

\* What a run shows that completed.
LEMMA CompleteRun ==
  ASSUME NEW asked, NEW sources
  PROVE  LET g == Complete(asked, sources)
         IN  g.ran = asked /\ g.sources = sources /\ g.module = 0 /\ g.at = 0 /\ g.names = {}
  BY DEF NoGate, Complete

LEMMA NoRun == ~NoGate.passed /\ NoGate.module = 0 /\ NoGate.names = {}
  BY DEF NoGate

LEMMA RunKinds ==
  ASSUME NEW asked, NEW g \in GateRuns(asked)
  PROVE  \/ g = NoGate \/ g = Complete({}, {}) \/ g = Complete(ToRun(asked), ToolSources(asked))
         \/ \E m, failures, run, sources : g \in Failed(m, failures, run, sources)
  <1> DEFINE run == ToRun(asked)
             sources == ToolSources(asked)
             stops == {m \in ToolModules(asked) : FailuresIn(m, run) # {}}
             reached == {m \in ToolModules(asked) : \A n \in stops : m < n}
             stopped == Failed(Min(stops), FailuresIn(Min(stops), run), run, sources)
             ended == IF stops = {} THEN {Complete(run, sources)} ELSE stopped
             some == UNION {Failed(m, {}, run, sources) : m \in reached}
  <1>1. MavenRuns(asked) = Unfinished \cup some \cup ended
    BY DEF MavenRuns
  <1>2. g \in some => \E m, failures, of, by : g \in Failed(m, failures, of, by)
    <2> SUFFICES ASSUME g \in some PROVE \E m, failures, of, by : g \in Failed(m, failures, of, by)
      OBVIOUS
    <2>1. PICK m \in reached : g \in Failed(m, {}, run, sources)
      OBVIOUS
    <2> QED
      BY <2>1, Zenon
  <1>3. g \in stopped => \E m, failures, of, by : g \in Failed(m, failures, of, by)
    BY Zenon
  <1>4. g \in ended => g = Complete(run, sources) \/ g \in stopped
    OBVIOUS
  <1>5. g \in {Complete({}, {})} \/ g \in Unfinished \/ g \in MavenRuns(asked)
    BY DEF GateRuns
  <1> HIDE DEF some, ended, stopped
  <1> QED
    BY <1>1, <1>2, <1>3, <1>4, <1>5, Zenon DEF Unfinished

LEMMA RunsHaveShape ==
  ASSUME NEW asked, NEW g \in GateRuns(asked)
  PROVE  ShapeOK(g)
  <1>1. ASSUME NEW m, NEW failures, NEW run, NEW sources, g \in Failed(m, failures, run, sources)
        PROVE  ShapeOK(g)
    BY <1>1, FailedRun DEF ShapeOK
  <1>2. \A run, sources : ShapeOK(Complete(run, sources))
    BY CompleteRun DEF ShapeOK
  <1> QED
    BY <1>1, <1>2, RunKinds, NoRun, Zenon DEF ShapeOK

\* A run that passes and measured anything ran what it was told on the sources
\* it was narrowed to.
LEMMA PassIsComplete ==
  ASSUME NEW asked, NEW g \in GateRuns(asked), g.passed, g.sources # {}
  PROVE  g.ran = ToRun(asked) /\ g.sources = ToolSources(asked)
  <1>1. g # NoGate
    BY NoRun
  <1>2. ASSUME NEW m, NEW failures, NEW run, NEW sources, g \in Failed(m, failures, run, sources)
        PROVE  FALSE
    BY <1>2, FailedRun
  <1>3. g # Complete({}, {})
    BY CompleteRun
  <1>4. g = Complete(ToRun(asked), ToolSources(asked))
    BY <1>1, <1>2, <1>3, RunKinds, Zenon
  <1> QED
    BY <1>4, CompleteRun

\* The narrowed command is about the batch and the tests named for it.
LEMMA ScopedCommandIsAboutTheBatch ==
  ASSUME UnitOK
  PROVE  ScopedCommand = [tests |-> Discovered(batch), sources |-> batch, modules |-> ModulesOf(batch)]
  <1> DEFINE base == Scrubbed(own)
  <1>1. base.tests = {} /\ base.sources = {}
    BY DEF UnitOK, Scrubbed
  <1> HIDE DEF base
  <1>2. ScopedCommand = [tests |-> IF base.tests # {} THEN base.tests ELSE Discovered(batch),
                         sources |-> base.sources \cup batch, modules |-> ModulesOf(batch)]
    BY DEF ScopedCommand, base
  <1> QED
    BY <1>1, <1>2

Measured == IF change.known THEN batch \cap change.production ELSE batch

LEMMA ScopedRunCovers ==
  ASSUME UnitOK, ToolSources(ScopedCommand) # {}
  PROVE  Measured \subseteq ToolSources(ScopedCommand) /\ Discovered(Measured) \subseteq ToRun(ScopedCommand)
  <1> DEFINE asked == ScopedCommand
  <1>1. asked.tests = Discovered(batch) /\ asked.sources = batch /\ asked.modules = ModulesOf(batch)
    BY ScopedCommandIsAboutTheBatch
  <1> HIDE DEF asked
  <1>2. Measured \subseteq ToolSources(asked)
    BY <1>1 DEF Measured, ToolSources, Pinned
  <1>3. ASSUME NEW x \in Discovered(Measured)
        PROVE  x \in ToRun(asked)
    <2>1. x \in Discovered(batch) /\ x \in disk /\ x \in Classes
      BY <1>3 DEF Discovered, Measured, UnitOK
    <2>2. PICK p \in Measured : Module(x) = Home(p)
      BY <1>3 DEF Discovered, Near
    <2>3. ASSUME change.known PROVE Module(x) \in ToolModules(asked)
      <3>1. Module(x) \in Reactor(ToolSources(asked))
        BY <1>2, <2>2 DEF Reactor, ChangedModules, Home
      <3>2. ToolModules(asked) = Reactor(ToolSources(asked))
        BY <2>3 DEF ToolModules
      <3> QED
        BY <3>1, <3>2
    <2>4. ASSUME ~change.known PROVE Module(x) \in ToolModules(asked)
      <3>1. Module(x) \in ModulesOf(batch)
        BY <2>2, <2>4 DEF Measured, ModulesOf
      <3>2. asked.modules # {}
        BY <1>1, <3>1
      <3>3. ToolModules(asked) = asked.modules \cup UNION {Upstream[m] : m \in asked.modules}
        BY <2>4, <3>2 DEF ToolModules
      <3> QED
        BY <1>1, <3>1, <3>3
    <2>5. Module(x) \in ToolModules(asked)
      BY <2>3, <2>4 DEF UnitOK
    <2>6. x \in Selection(asked.tests) \cap disk
      BY <1>1, <2>1 DEF Selection
    <2>7. asked.tests # {}
      BY <1>1, <2>1
    <2> QED
      BY <2>5, <2>6, <2>7 DEF ToRun
  <1> QED
    BY <1>2, <1>3 DEF asked

LEMMA UnitStart == DInit => UnitOK
  <1> SUFFICES ASSUME DInit PROVE UnitOK
    OBVIOUS
  <1>1. PICK u \in Units : change = u.change /\ batch = u.batch /\ own = u.own
    BY DEF DInit
  <1>2. /\ gate = NoGate /\ initial = NoGate /\ stage = "precheck" /\ closed = "open" /\ turns = 0
        /\ disk \subseteq Classes
    BY DEF DInit
  <1>3. ~initial.passed /\ ShapeOK(gate) /\ ShapeOK(initial)
    BY <1>2 DEF NoGate, ShapeOK
  <1> QED
    BY <1>1, <1>2, <1>3, DelegatedGateAssumption DEF UnitOK, ScopedPassCoversBatch

\* Whose failure a gate is depends on the batch alone.
LEMMA BatchStays ==
  ASSUME UNCHANGED batch
  PROVE  \A g : MatchesBatch(g)' <=> MatchesBatch(g)
  BY DEF MatchesBatch, ModulesOf, About

LEMMA PrecheckKeeps == UnitOK /\ Precheck => UnitOK'
  <1> SUFFICES ASSUME UnitOK, Precheck PROVE UnitOK'
    OBVIOUS
  <1>1. UNCHANGED <<change, batch, own, disk, turns>> /\ stage = "precheck" /\ closed = "open"
    BY DEF Precheck, unit, UnitOK
  <1>2. CASE UNCHANGED <<gate, initial, closed>>
    BY <1>1, <1>2 DEF UnitOK, ScopedPassCoversBatch
  <1>3. CASE \E g \in GateRuns(own) :
               /\ gate' = g
               /\ IF g.passed THEN closed' = "prechecked" /\ stage' = "ended" /\ UNCHANGED initial
                  ELSE initial' = g /\ stage' = "verify" /\ UNCHANGED closed
    <2>1. PICK g \in GateRuns(own) :
               /\ gate' = g
               /\ IF g.passed THEN closed' = "prechecked" /\ stage' = "ended" /\ UNCHANGED initial
                  ELSE initial' = g /\ stage' = "verify" /\ UNCHANGED closed
      BY <1>3
    <2>2. ShapeOK(g)
      BY RunsHaveShape
    <2> QED
      BY <1>1, <2>1, <2>2 DEF UnitOK, ShapeOK, ScopedPassCoversBatch
  <1> QED
    BY <1>2, <1>3 DEF Precheck

LEMMA VerifyKeeps == UnitOK /\ Verify => UnitOK'
  <1> SUFFICES ASSUME UnitOK, Verify PROVE UnitOK'
    OBVIOUS
  <1>1. UNCHANGED <<change, batch, own, disk, health, turns, initial>> /\ closed = "open"
    BY DEF Verify, unit, UnitOK
  <1>2. PICK g \in GateRuns(ScopedCommand) :
          LET judged == IF g.passed /\ Unresolved(initial) THEN initial ELSE g
              answer == CASE judged.passed -> "passed"
                          [] ~judged.passed /\ ~MatchesBatch(judged) -> "outside"
                          [] OTHER -> IF turns < MaxTurns THEN "repair" ELSE "failed"
          IN  /\ gate' = judged
              /\ IF answer = "repair" THEN stage' = "turn" /\ UNCHANGED closed
                 ELSE stage' = "ended" /\ closed' = answer
    BY DEF Verify
  <1> DEFINE judged == IF g.passed /\ Unresolved(initial) THEN initial ELSE g
             answer == CASE judged.passed -> "passed"
                         [] ~judged.passed /\ ~MatchesBatch(judged) -> "outside"
                         [] OTHER -> IF turns < MaxTurns THEN "repair" ELSE "failed"
  <1>3. /\ gate' = judged
        /\ IF answer = "repair" THEN stage' = "turn" /\ UNCHANGED closed
           ELSE stage' = "ended" /\ closed' = answer
    BY <1>2
  <1>4. ShapeOK(judged)
    BY RunsHaveShape DEF UnitOK
  <1>5. /\ answer = "passed" => judged.passed
        /\ answer = "outside" => ~MatchesBatch(judged)
    OBVIOUS
  <1>6. judged.passed => judged = g /\ ~Unresolved(initial)
    BY DEF UnitOK
  <1> HIDE DEF judged, answer
  <1>7. ShapeOK(gate)' /\ ShapeOK(initial)' /\ ~initial'.passed
    BY <1>1, <1>3, <1>4 DEF UnitOK, ShapeOK
  <1>8. stage' # "ended" => closed' = "open"
    BY <1>1, <1>3
  <1>9. closed' = "passed" => judged.passed
    BY <1>1, <1>3, <1>5
  <1>10. (closed = "outside" => ~MatchesBatch(gate))'
    <2>1. closed' = "outside" => ~MatchesBatch(judged)
      BY <1>1, <1>3, <1>5
    <2> QED
      BY <1>1, <1>3, <2>1 DEF MatchesBatch, ModulesOf, About
  <1>11. (closed = "passed" /\ turns = 0 /\ initial # NoGate => ~MatchesBatch(initial))'
    <2>1. closed' = "passed" /\ turns = 0 /\ initial # NoGate => ~MatchesBatch(initial)
      BY <1>6, <1>9 DEF Unresolved, UnitOK
    <2> QED
      BY <1>1, <2>1 DEF MatchesBatch, ModulesOf, About
  <1>12. ScopedPassCoversBatch'
    <2> SUFFICES ASSUME closed' = "passed", gate'.sources # {}
                 PROVE  Measured' \subseteq gate'.sources /\ Discovered(Measured)' \subseteq gate'.ran
      BY DEF ScopedPassCoversBatch, Measured
    <2>1. gate' = g /\ g.passed
      BY <1>3, <1>6, <1>9
    <2>2. g.ran = ToRun(ScopedCommand) /\ g.sources = ToolSources(ScopedCommand)
      BY <2>1, PassIsComplete
    <2>3. Measured \subseteq gate'.sources /\ Discovered(Measured) \subseteq gate'.ran
      BY <2>1, <2>2, ScopedRunCovers
    <2>4. Measured' = Measured
      BY <1>1 DEF Measured
    <2>5. Discovered(Measured)' = Discovered(Measured)
      BY <1>1, <2>4 DEF Discovered, Near
    <2> QED
      BY <2>3, <2>4, <2>5
  <1> QED
    BY <1>1, <1>7, <1>8, <1>10, <1>11, <1>12 DEF UnitOK

LEMMA UnitKept == UnitOK /\ [DNext]_dvars => UnitOK'
  <1>1. UnitOK /\ Precheck => UnitOK'
    BY PrecheckKeeps
  <1>2. UnitOK /\ Verify => UnitOK'
    BY VerifyKeeps
  <1>3. UnitOK /\ Turn => UnitOK'
    <2> SUFFICES ASSUME UnitOK, Turn PROVE UnitOK'
      OBVIOUS
    <2>1. /\ UNCHANGED <<change, batch, own, initial, closed>> /\ closed = "open"
          /\ disk' \subseteq disk \cup Classes /\ stage' = "verify" /\ gate' = NoGate
      BY DEF Turn, Writable, unit, UnitOK
    <2>2. ShapeOK(NoGate)
      BY DEF ShapeOK, NoGate
    <2> QED
      BY <2>1, <2>2 DEF UnitOK, ShapeOK, ScopedPassCoversBatch
  <1>4. UnitOK /\ UNCHANGED dvars => UnitOK'
    BY DEF UnitOK, dvars, unit, ShapeOK, MatchesBatch, ModulesOf, About, ScopedPassCoversBatch, Discovered, Near
  <1> QED
    BY <1>1, <1>2, <1>3, <1>4 DEF DNext

\* The narrow gate of a repair never clears a failure that is the batch's own,
\* and no such failure is closed as somebody else's (verify_delegated_quality_gate,
\* _delegated_gate_failure_matches_batch), for any suite, unit, tests that turns
\* write and output that is cut.
THEOREM OwnFailuresAreAnswered == DSpec => []OwnFailureIsAnswered
  <1>1. UnitOK => OwnFailureIsAnswered
    BY OwnFailureMatches DEF UnitOK, OwnFailureIsAnswered
  <1> QED
    BY UnitStart, UnitKept, <1>1, PTL DEF DSpec

\* A unit that passes on its narrowed gate was measured on every changed class
\* of the batch, with every test class on disk that is named for one of them
\* (_delegated_target_scoped_maven_command), whatever the command of the CI
\* record selected, in whatever module the classes are.
THEOREM NarrowPassCoversTheBatch == DSpec => []ScopedPassCoversBatch
  <1>1. UnitOK => ScopedPassCoversBatch
    BY DEF UnitOK
  <1> QED
    BY UnitStart, UnitKept, <1>1, PTL DEF DSpec

-----------------------------------------------------------------------------
(* What the Java gate leaves out.                                          *)

Partitioned(A, C, R, r) == [excluded |-> A, collateral |-> C, retained |-> R, reason |-> r]

\* The known classes that share the name of one of A, and the names all the
\* classes of which are gone.
Sharing(A, known) == {x \in known : Simple(x) \in {Simple(a) : a \in A} /\ Ambiguous(x, known)}
Forced(gone, known) ==
    {Simple(x) : x \in {d \in known : /\ Ambiguous(d, known)
                                      /\ \A e \in known : Simple(e) = Simple(d) => e \in gone}}

\* What the failures are partitioned into has no class left out for its name.
LEMMA PartitionExcludes ==
  ASSUME NEW failing, NEW d, NEW production
  PROVE  \E A, R, r : A \subseteq failing /\ PartitionFailing(failing, d, production) = Partitioned(A, {}, R, r)
  <1> DEFINE related == {x \in failing : RelatedTo(x, d, production)}
             p == PartitionFailing(failing, d, production)
  <1>1. CASE failing = {}
    <2>1. p = Partitioned({}, {}, {}, "no-failures")
      BY <1>1 DEF PartitionFailing, NoFailures, Partitioned
    <2> QED
      BY <2>1
  <1>2. CASE failing # {} /\ ~d.known
    <2>1. p = [NoFailures EXCEPT !.retained = failing, !.reason = "no-diff-available"]
      BY <1>2 DEF PartitionFailing
    <2>2. p = Partitioned({}, {}, failing, "no-diff-available")
      BY <2>1 DEF NoFailures, Partitioned
    <2> QED
      BY <2>2
  <1>3. CASE failing # {} /\ d.known
    <2> DEFINE A == failing \ related
               r == IF failing = related THEN "all-failures-related" ELSE ""
    <2>1. p = [NoFailures EXCEPT !.excluded = A, !.retained = related, !.reason = r]
      BY <1>3, Zenon DEF PartitionFailing
    <2>2. A \subseteq failing
      OBVIOUS
    <2> HIDE DEF A, r, related, p
    <2>3. p = Partitioned(A, {}, related, r)
      BY <2>1 DEF NoFailures, Partitioned
    <2> QED
      BY <2>2, <2>3 DEF p
  <1> QED
    BY <1>1, <1>2, <1>3

Expands(A, R, r, known, C, R1, r1) ==
    /\ ExpandColliding(Partitioned(A, {}, R, r), known) = Partitioned(A, C, R1, r1)
    /\ A \cup C = A \cup Sharing(A, known)

\* Every known class with the name of one left out goes with it.
LEMMA ExpansionExcludes ==
  ASSUME NEW A, NEW R, NEW r, NEW known, A \subseteq known
  PROVE  \E C, R1, r1 : Expands(A, R, r, known, C, R1, r1)
  <1> DEFINE p == Partitioned(A, {}, R, r)
             expanded == Sharing(A, known)
             q == ExpandColliding(p, known)
  <1>0. p.excluded = A /\ p.collateral = {} /\ p.retained = R
    BY DEF Partitioned
  <1>1. CASE expanded \subseteq A
    <2>1. q = p
      BY <1>0, <1>1 DEF ExpandColliding, Sharing
    <2>2. Expands(A, R, r, known, {}, R, r)
      BY <1>1, <2>1 DEF Expands
    <2> QED
      BY <2>2
  <1>2. CASE ~(expanded \subseteq A)
    <2>1. q = [p EXCEPT !.collateral = @ \cup (expanded \ A), !.retained = @ \ expanded,
                        !.reason = "simple-name-collision-expanded"]
      BY <1>0, <1>2 DEF ExpandColliding, Sharing
    <2> HIDE DEF expanded, q
    <2>2. q = Partitioned(A, {} \cup (expanded \ A), R \ expanded, "simple-name-collision-expanded")
      BY <2>1 DEF Partitioned
    <2>3. A \cup ({} \cup (expanded \ A)) = A \cup expanded
      OBVIOUS
    <2>4. Expands(A, R, r, known, {} \cup (expanded \ A), R \ expanded, "simple-name-collision-expanded")
      BY <2>2, <2>3 DEF expanded, q, Expands
    <2> QED
      BY <2>4
  <1> QED
    BY <1>1, <1>2

\* The classes taken back are known and are not forced out.
Spares(A, C, R, r, known, spared) ==
    /\ spared \subseteq known
    /\ \A x \in spared : Simple(x) \notin Forced(A \cup C, known)
    /\ AllExcluded(WithoutModuleEmptying(Partitioned(A, C, R, r), known)) = (A \cup C) \ spared

\* What keeps its module from being emptied stays in the run, unless a name
\* that all its classes leave under forces it out.
LEMMA KeepingExcludes ==
  ASSUME NEW A, NEW C, NEW R, NEW r, NEW known
  PROVE  \E spared : Spares(A, C, R, r, known, spared)
  <1> DEFINE p == Partitioned(A, C, R, r)
             gone == AllExcluded(p)
             forced == Forced(gone, known)
             emptied == {m \in {Module(x) : x \in known} : \A x \in known : Module(x) = m => x \in gone}
             spared == {x \in known \cap gone : Module(x) \in emptied /\ Simple(x) \notin forced}
             left == [p EXCEPT !.excluded = @ \ spared, !.collateral = @ \ spared,
                               !.retained = @ \cup (p.excluded \cap spared)]
             q == WithoutModuleEmptying(p, known)
  <1>1. gone = A \cup C
    BY DEF Partitioned, AllExcluded
  <1>2. spared \subseteq known /\ \A x \in spared : Simple(x) \notin forced
    OBVIOUS
  <1>0. p.excluded = A /\ p.collateral = C /\ p.retained = R
    BY DEF Partitioned
  <1> HIDE DEF p
  <1>3. q = IF gone # {} /\ AllExcluded(left) = {}
            THEN [left EXCEPT !.reason = "would-empty-module-suite"] ELSE left
    BY Zenon DEF WithoutModuleEmptying, Forced
  <1> HIDE DEF spared, q
  <1> DEFINE X == A \ spared
             Y == C \ spared
             Z == R \cup (A \cap spared)
  <1>4. left = Partitioned(X, Y, Z, r)
    <2>1. left = [p EXCEPT !.excluded = X, !.collateral = Y, !.retained = Z]
      BY <1>0
    <2> HIDE DEF left, X, Y, Z
    <2> QED
      BY <2>1 DEF Partitioned, p
  <1> HIDE DEF left, gone
  <1>5. q.excluded = A \ spared /\ q.collateral = C \ spared
    BY <1>3, <1>4 DEF Partitioned
  <1>6. AllExcluded(q) = (A \cup C) \ spared
    BY <1>5 DEF AllExcluded
  <1>7. Spares(A, C, R, r, known, spared)
    BY <1>1, <1>2, <1>6 DEF q, p, Spares
  <1> QED
    BY <1>7

\* What a run without unrelated failures leaves out.
Excused(failing, d, production, known) ==
    AllExcluded(WithoutModuleEmptying(ExpandColliding(PartitionFailing(failing, d, production), known), known))

\* The failures that are left out are left out with every known class of their
\* name, or with none.
LEMMA NarrowedIsNamed ==
  ASSUME NEW failing, NEW d, NEW production, NEW known, failing \subseteq known,
         NEW x, NEW k \in known,
         x \in Excused(failing, d, production, known), k \notin Excused(failing, d, production, known),
         Simple(k) = Simple(x)
  PROVE  FALSE
  <1>1. PICK A, R, r : A \subseteq failing /\ PartitionFailing(failing, d, production) = Partitioned(A, {}, R, r)
    BY PartitionExcludes
  <1> DEFINE expanded == Sharing(A, known)
  <1>2. A \subseteq known
    BY <1>1
  <1>3. PICK C, R1, r1 : Expands(A, R, r, known, C, R1, r1)
    BY <1>2, ExpansionExcludes
  <1> DEFINE forced == Forced(A \cup C, known)
  <1>4. PICK spared : Spares(A, C, R1, r1, known, spared)
    BY KeepingExcludes
  <1> HIDE DEF expanded, forced
  <1>5. x \in (A \cup expanded) \ spared /\ k \notin (A \cup expanded) \ spared
    <2>3. ExpandColliding(PartitionFailing(failing, d, production), known) = Partitioned(A, C, R1, r1)
      BY <1>1, <1>3 DEF Expands
    <2>1. Excused(failing, d, production, known) = (A \cup C) \ spared
      BY <2>3, <1>4 DEF Excused, Spares
    <2>2. x \in (A \cup C) \ spared /\ k \notin (A \cup C) \ spared
      BY <2>1
    <2> QED
      BY <1>3, <2>2 DEF Expands, expanded
  <1>6. x \in known /\ Simple(x) \in {Simple(a) : a \in A} /\ x # k
    BY <1>2, <1>5 DEF Sharing, expanded
  <1>7. Ambiguous(x, known) /\ Ambiguous(k, known)
    BY <1>6 DEF Ambiguous
  <1>8. \A f \in known : Simple(f) = Simple(x) => f \in expanded
    <2> SUFFICES ASSUME NEW f \in known, Simple(f) = Simple(x) PROVE f \in expanded
      OBVIOUS
    <2>1. Ambiguous(f, known)
      BY <1>6, <1>7 DEF Ambiguous
    <2> QED
      BY <1>6, <2>1 DEF Sharing, expanded
  <1>9. Simple(x) \in forced
    BY <1>3, <1>6, <1>7, <1>8 DEF Forced, forced, Expands, expanded
  <1>10. k \in expanded /\ k \in spared
    BY <1>5, <1>8
  <1> QED
    BY <1>4, <1>9, <1>10 DEF Spares, forced

Selects(command, known, drop, file, K) ==
    K \subseteq known \ drop /\ Excluding(command, known, drop, file).tests = Selection(K)

\* A command that leaves classes out selects only known ones, by their names.
LEMMA ExcludingSelects ==
  ASSUME NEW command, NEW known, NEW drop, NEW file \in BOOLEAN,
         LET asked == Excluding(command, known, drop, file)
         IN  ~SameCommand(asked, command, file)
  PROVE  \E K : Selects(command, known, drop, file, K)
  <1> DEFINE rest == known \ drop
             argued == {x \in drop : Suite[x].argument}
             keep == {x \in rest : Suite[x].argument}
             asked == Excluding(command, known, drop, file)
  <1>1. asked # command
    BY DEF SameCommand
  <1>2. asked = IF rest = {} THEN command
                 ELSE IF file THEN SelectedFile(command, rest, argued) ELSE SelectedClasses(command, rest, argued)
    BY Zenon DEF Excluding
  <1>3. keep \subseteq rest
    OBVIOUS
  <1> HIDE DEF asked, argued, rest
  <1>5. SelectedClasses(command, rest, argued) \in {command, Selecting(command, keep, argued)}
    BY Zenon DEF SelectedClasses
  <1> HIDE DEF keep
  <1>6. asked = Selecting(command, rest, argued) \/ asked = Selecting(command, keep, argued)
    BY <1>1, <1>2, <1>5 DEF SelectedFile
  <1>4. asked.tests = Selection(rest) \/ asked.tests = Selection(keep)
    BY <1>6 DEF Selecting
  <1> QED
    BY <1>3, <1>4 DEF asked, rest, Selects

\* What a run ran was selected by its command.
LEMMA RanWasSelected ==
  ASSUME NEW run, run \in EndedRuns \cup {StalledRun(x) : x \in Hanging}
  PROVE  run.ran \subseteq cmd.tests
  <1>1. ASSUME run \in EndedRuns
        PROVE  run.ran \subseteq cmd.tests
    <2>1. \E rc, stop, says : run = [rc |-> rc, says |-> says, ran |-> ReachedBy(stop), stopped |-> stop,
                                     names |-> Printed(stop, says)]
      BY <1>1 DEF EndedRuns
    <2>2. \E stop : run.ran = ReachedBy(stop)
      BY <2>1
    <2> QED
      BY <2>2 DEF ReachedBy, Selected
  <1>2. ASSUME NEW x, run = StalledRun(x)
        PROVE  run.ran \subseteq cmd.tests
    BY <1>2 DEF StalledRun, Selected
  <1> QED
    BY <1>1, <1>2

\* Until the failures are partitioned nothing is left out.  Then what is left
\* out is not among the tests of the second run, nor among what ran in the one
\* the verdict is taken from.
LeavesOut ==
    /\ pc \in {"begin", "preexclude", "maven", "stalled", "ended", "partition"} => AllExcluded(part) = {}
    /\ pc = "rerun" => AllExcluded(part) \cap cmd.tests = {}
    /\ pc = "classify" /\ ~unstarted => AllExcluded(part) \cap out.ran = {}
    /\ pc \in {"report", "done"} /\ ~unstarted => AllExcluded(result.part) \cap result.out.ran = {}

SuiteOK == modern \in BOOLEAN /\ LeavesOut

LEMMA NothingExcluded ==
  AllExcluded(NoFailures) = {} /\ NoOutput.ran = {}
  BY DEF AllExcluded, NoFailures, NoOutput

LEMMA WithdrawnExcludes ==
  ASSUME NEW p, NEW why
  PROVE  AllExcluded(WithoutExclusions(p, why)) = {}
  BY DEF AllExcluded, WithoutExclusions

Concludes == \E how, run, compat, noted : Ends(how, run, compat, noted)

LEMMA EndsWithPart ==
  ASSUME NEW how, NEW run, NEW compat, NEW noted, Ends(how, run, compat, noted)
  PROVE  pc' = "report" /\ result'.part = part /\ result'.out = run
  BY DEF Ends, Verdict

LEMMA SuiteStart == Init => SuiteOK
  BY NothingExcluded DEF Init, SuiteOK, LeavesOut

LEMMA SecondRunIsNarrowed ==
  ASSUME LeavesOut, modern \in BOOLEAN, PartitionFailures
  PROVE  LeavesOut'
  <1>1. PICK nameable \in BOOLEAN :
          LET failing == {x \in fresh : reports[x]}
              p == PartitionFailing(failing, diff, scope.files)
              narrowed == WithoutModuleEmptying(ExpandColliding(p, Inventory), Inventory)
              excluding == Excluding(cmd, Inventory, AllExcluded(narrowed), modern)
          IN  \/ p.excluded = {} /\ part' = p /\ pc' = "classify"
              \/ part' = WithoutExclusions(p, "incomplete-test-inventory") /\ pc' = "classify"
              \/ AllExcluded(narrowed) = {} /\ part' = narrowed /\ pc' = "classify"
              \/ part' = WithoutExclusions(narrowed, "no-usable-test-selector") /\ pc' = "classify"
              \/ ~SameCommand(excluding, cmd, modern) /\ part' = narrowed /\ cmd' = excluding /\ pc' = "rerun"
    BY DEF PartitionFailures
  <1> DEFINE failing == {x \in fresh : reports[x]}
             p == PartitionFailing(failing, diff, scope.files)
             narrowed == WithoutModuleEmptying(ExpandColliding(p, Inventory), Inventory)
             excluding == Excluding(cmd, Inventory, AllExcluded(narrowed), modern)
  <1>2. failing \subseteq Inventory
    BY DEF Inventory
  <1>3. ASSUME p.excluded = {}
        PROVE  AllExcluded(p) = {}
    BY <1>3, PartitionExcludes DEF AllExcluded, Partitioned
  <1>4. ASSUME ~SameCommand(excluding, cmd, modern)
        PROVE  AllExcluded(narrowed) \cap excluding.tests = {}
    <2> DEFINE gone == AllExcluded(narrowed)
    <2>0. \E K : Selects(cmd, Inventory, gone, modern, K)
      <3>1. ~SameCommand(Excluding(cmd, Inventory, gone, modern), cmd, modern)
        BY <1>4
      <3> HIDE DEF gone
      <3> QED
        BY <3>1, ExcludingSelects
    <2>1. PICK K : Selects(cmd, Inventory, gone, modern, K)
      BY <2>0
    <2> SUFFICES ASSUME NEW x \in AllExcluded(narrowed), x \in Selection(K)
                 PROVE  FALSE
      BY <2>1 DEF Selects
    <2>2. PICK k \in K : Simple(k) = Simple(x)
      BY DEF Selection
    <2>3. k \in Inventory /\ k \notin AllExcluded(narrowed)
      BY <2>1, <2>2 DEF Selects
    <2>4. x \in Excused(failing, diff, scope.files, Inventory) /\ k \notin Excused(failing, diff, scope.files, Inventory)
      BY <2>3 DEF Excused
    <2> QED
      BY <1>2, <2>2, <2>3, <2>4, NarrowedIsNamed
  <1> HIDE DEF failing, p, narrowed, excluding
  <1>5. \/ p.excluded = {} /\ part' = p /\ pc' = "classify"
        \/ part' = WithoutExclusions(p, "incomplete-test-inventory") /\ pc' = "classify"
        \/ AllExcluded(narrowed) = {} /\ part' = narrowed /\ pc' = "classify"
        \/ part' = WithoutExclusions(narrowed, "no-usable-test-selector") /\ pc' = "classify"
        \/ ~SameCommand(excluding, cmd, modern) /\ part' = narrowed /\ cmd' = excluding /\ pc' = "rerun"
    BY <1>1 DEF failing, p, narrowed, excluding
  <1>6. \/ pc' = "classify" /\ AllExcluded(part') = {}
        \/ pc' = "rerun" /\ AllExcluded(part') \cap cmd'.tests = {}
    BY <1>3, <1>4, <1>5, WithdrawnExcludes
  <1> QED
    BY <1>6 DEF LeavesOut, AllExcluded

LEMMA SecondRunLeavesOut ==
  ASSUME LeavesOut, Rerun
  PROVE  LeavesOut'
  <1>1. PICK run \in IF Hanging = {} THEN EndedRuns ELSE {StalledRun(x) : x \in Hanging} :
          \/ out' = kept /\ part' = Withdrawn(part)
          \/ out' = run /\ UNCHANGED part
    BY DEF Rerun
  <1>2. pc = "rerun" /\ pc' = "classify"
    BY DEF Rerun
  <1>3. run.ran \subseteq cmd.tests
    BY RanWasSelected
  <1>4. AllExcluded(part') \cap out'.ran = {}
    BY <1>1, <1>2, <1>3, WithdrawnExcludes DEF Withdrawn, LeavesOut
  <1> QED
    BY <1>2, <1>4 DEF LeavesOut, AllExcluded

LEMMA SuiteKept ==
  ASSUME SuiteOK, [Next]_vars
  PROVE  SuiteOK'
  <1> USE DEF SuiteOK
  <1>0. modern' \in BOOLEAN
    BY DEF Next, vars, Expire, Begin, Preexclude, Maven, MavenFails, Stalled, Scoped, PartitionFailures,
           Rerun, RerunFails, Classify, Report, Again, world
  <1> SUFFICES LeavesOut'
    BY <1>0
  <1>1. ASSUME pc \in {"begin", "preexclude", "maven", "stalled", "ended", "partition"}, UNCHANGED part,
               pc' \in {"begin", "preexclude", "maven", "stalled", "ended", "partition", "classify"}
        PROVE  LeavesOut'
    BY <1>1 DEF LeavesOut, AllExcluded
  <1>2. CASE Expire
    BY <1>1, <1>2 DEF Expire
  <1>3. CASE Begin
    <2>1. part' = NoFailures /\ (pc' = "preexclude" \/ (pc' = "report" /\ result'.part = NoFailures))
      BY <1>3 DEF Begin
    <2> QED
      BY <2>1, NothingExcluded DEF LeavesOut, AllExcluded
  <1>4. CASE Preexclude
    BY <1>1, <1>4 DEF Preexclude
  <1>5. CASE Maven
    BY <1>1, <1>5 DEF Maven
  <1>6. ASSUME pc \in {"begin", "preexclude", "maven", "stalled", "ended", "partition"},
               Concludes
        PROVE  LeavesOut'
    <2>1. AllExcluded(part) = {}
      BY <1>6 DEF LeavesOut
    <2>2. pc' = "report" /\ result'.part = part
      BY <1>6, EndsWithPart DEF Concludes
    <2> QED
      BY <2>1, <2>2 DEF LeavesOut, AllExcluded
  <1>7. CASE MavenFails
    <2>1. pc = "maven" /\ Concludes
      BY <1>7, Zenon DEF MavenFails, Concludes
    <2> QED
      BY <1>6, <2>1
  <1>8. CASE Stalled
    <2>1. pc = "stalled" /\ UNCHANGED part
      BY <1>8, Zenon DEF Stalled
    <2>2. pc' = "maven" \/ Concludes
      BY <1>8, Zenon DEF Stalled, Concludes
    <2> QED
      BY <1>1, <1>6, <2>1, <2>2
  <1>9. CASE Scoped
    <2>1. pc = "ended" /\ UNCHANGED part
      BY <1>9 DEF Scoped
    <2>2. pc' \in {"partition", "classify"} \/ Concludes
      BY <1>9, Zenon DEF Scoped, Concludes
    <2> QED
      BY <1>1, <1>6, <2>1, <2>2
  <1>10. CASE PartitionFailures
    BY <1>10, SecondRunIsNarrowed
  <1>11. CASE Rerun
    BY <1>11, SecondRunLeavesOut
  <1>12. CASE RerunFails
    <2>1. \/ pc' = "classify" /\ unstarted' = TRUE
          \/ pc' = "classify" /\ out' = [NoOutput EXCEPT !.rc = 2]
          \/ pc' = "raised"
      BY <1>12 DEF RerunFails
    <2>2. [NoOutput EXCEPT !.rc = 2].ran = {}
      BY DEF NoOutput
    <2> QED
      BY <2>1, <2>2 DEF LeavesOut
  <1>13. CASE Classify
    <2>1. pc = "classify" /\ UNCHANGED unstarted /\ \E how, compat, noted : Ends(how, out, compat, noted)
      BY <1>13 DEF Classify
    <2>2. pc' = "report" /\ result'.part = part /\ result'.out = out
      BY <2>1, EndsWithPart
    <2> QED
      BY <2>1, <2>2 DEF LeavesOut
  <1>14. CASE Report
    BY <1>14 DEF Report, LeavesOut
  <1>15. CASE Again
    <2>1. part' = NoFailures /\ pc' = "begin"
      BY <1>15 DEF Again
    <2> QED
      BY <2>1, NothingExcluded DEF LeavesOut
  <1>16. CASE UNCHANGED vars
    BY <1>16 DEF vars, LeavesOut, AllExcluded
  <1> QED
    BY <1>0, <1>2, <1>3, <1>4, <1>5, <1>7, <1>8, <1>9, <1>10, <1>11, <1>12, <1>13, <1>14, <1>15, <1>16 DEF Next

\* No test class the evidence names as excluded ran in the run the verdict was
\* taken from (_rerun_without_unrelated_failures), for any test suite, diffs,
\* failures and hanging tests, and however many gates ran before in the
\* checkout: the second run leaves out what it says, although Maven is told
\* simple names that several classes may share.
THEOREM WhatIsExcludedDidNotRun == Spec => []ExcludedDidNotRun
  <1>1. SuiteOK => ExcludedDidNotRun
    BY DEF SuiteOK, LeavesOut, ExcludedDidNotRun, Judged
  <1> QED
    BY SuiteStart, SuiteKept, <1>1, PTL DEF Spec

-----------------------------------------------------------------------------
(* What the verdict of the Java gate is about.                             *)

\* The classes of a diff that a pass must have run, given the sources under an
\* obligation; and those a run answers for: it ran them, or stopped before.
Required(d, files) ==
    {x \in Classes : /\ d.known /\ Module(x) \in Reactor(d.production)
                     /\ Suite[x].standard /\ Suite[x].argument /\ ~Ambiguous(x, Classes)
                     /\ x \in d.tests \/ Suite[x].names \cap files # {}}
AnsweredBy(run) == {x \in Classes : x \in run.ran \/ (run.stopped # 0 /\ Module(x) > run.stopped)}

LEMMA RequiredLess ==
  ASSUME NEW d, NEW files, NEW more, files \subseteq more
  PROVE  Required(d, files) \subseteq Required(d, more)
  BY DEF Required

\* A class that is about the changed sources is never among the failures that
\* are left out, alone or for a name it shares.
LEMMA PartitionSpares ==
  ASSUME NEW failing, NEW d, NEW production, NEW x, d.known, RelatedTo(x, d, production)
  PROVE  x \notin PartitionFailing(failing, d, production).excluded
  <1> DEFINE related == {y \in failing : RelatedTo(y, d, production)}
             p == PartitionFailing(failing, d, production)
             left == failing \ related
  <1>1. CASE failing = {}
    BY <1>1 DEF PartitionFailing, NoFailures
  <1>2. CASE failing # {}
    <2> DEFINE r == IF failing = related THEN "all-failures-related" ELSE ""
    <2>1. p = [NoFailures EXCEPT !.excluded = left, !.retained = related, !.reason = r]
      BY <1>2, Zenon DEF PartitionFailing
    <2>2. x \notin left
      OBVIOUS
    <2> HIDE DEF left, r, related, p
    <2>3. p.excluded = left
      BY <2>1 DEF NoFailures
    <2> QED
      BY <2>2, <2>3 DEF p
  <1> QED
    BY <1>1, <1>2

LEMMA ExcusedParts ==
  ASSUME NEW failing, NEW d, NEW production, NEW known, failing \subseteq known
  PROVE  \A x \in Excused(failing, d, production, known) :
           x \in known /\ (x \in PartitionFailing(failing, d, production).excluded \/ Ambiguous(x, known))
  <1>1. PICK A, R, r : A \subseteq failing /\ PartitionFailing(failing, d, production) = Partitioned(A, {}, R, r)
    BY PartitionExcludes
  <1>2. A \subseteq known
    BY <1>1
  <1>3. PICK C, R1, r1 : Expands(A, R, r, known, C, R1, r1)
    BY <1>2, ExpansionExcludes
  <1>4. PICK spared : Spares(A, C, R1, r1, known, spared)
    BY KeepingExcludes
  <1>5. ExpandColliding(PartitionFailing(failing, d, production), known) = Partitioned(A, C, R1, r1)
    BY <1>1, <1>3 DEF Expands
  <1>6. Excused(failing, d, production, known) = (A \cup C) \ spared
    BY <1>4, <1>5 DEF Excused, Spares
  <1>7. A \cup C = A \cup Sharing(A, known)
    BY <1>3 DEF Expands
  <1>8. PartitionFailing(failing, d, production).excluded = A
    BY <1>1 DEF Partitioned
  <1> QED
    BY <1>2, <1>6, <1>7, <1>8 DEF Sharing

LEMMA RelatedIsKept ==
  ASSUME NEW failing, NEW d, NEW production, NEW known, failing \subseteq known, known \subseteq Classes,
         NEW x, d.known, RelatedTo(x, d, production), ~Ambiguous(x, Classes)
  PROVE  x \notin Excused(failing, d, production, known)
  <1>1. ~Ambiguous(x, known)
    BY DEF Ambiguous
  <1> QED
    BY <1>1, ExcusedParts, PartitionSpares

\* However a run without some classes is asked for, it still selects a class
\* that is not one of them.
LEMMA StaysSelected ==
  ASSUME NEW command, NEW known, known \subseteq Classes, NEW drop, NEW file \in BOOLEAN,
         NEW x \in known, x \notin drop, Suite[x].argument, x \in command.tests
  PROVE  x \in Excluding(command, known, drop, file).tests
  <1> DEFINE rest == known \ drop
             argued == {y \in drop : Suite[y].argument}
             keep == {y \in rest : Suite[y].argument}
             asked == Excluding(command, known, drop, file)
  <1>1. asked = IF rest = {} THEN command
                ELSE IF file THEN SelectedFile(command, rest, argued) ELSE SelectedClasses(command, rest, argued)
    BY Zenon DEF Excluding
  <1>2. x \in Selection(rest) /\ x \in Selection(keep)
    BY DEF Selection
  <1> HIDE DEF asked, argued, rest
  <1>3. SelectedClasses(command, rest, argued) \in {command, Selecting(command, keep, argued)}
    BY Zenon DEF SelectedClasses
  <1> HIDE DEF keep
  <1>4. asked \in {command, Selecting(command, rest, argued), Selecting(command, keep, argued)}
    BY <1>1, <1>3 DEF SelectedFile
  <1> QED
    BY <1>2, <1>4 DEF asked, Selecting

\* It selects no class the suite does not have.
LEMMA SelectsKnown ==
  ASSUME NEW command, NEW known, NEW drop, NEW file \in BOOLEAN, command.tests \subseteq Classes
  PROVE  Excluding(command, known, drop, file).tests \subseteq Classes
  <1>1. CASE SameCommand(Excluding(command, known, drop, file), command, file)
    <2> DEFINE rest == known \ drop
               argued == {y \in drop : Suite[y].argument}
               asked == Excluding(command, known, drop, file)
    <2>1. asked = IF rest = {} THEN command
                  ELSE IF file THEN SelectedFile(command, rest, argued) ELSE SelectedClasses(command, rest, argued)
      BY Zenon DEF Excluding
    <2> DEFINE keep == {y \in rest : Suite[y].argument}
    <2>2. SelectedClasses(command, rest, argued) \in {command, Selecting(command, keep, argued)}
      BY Zenon DEF SelectedClasses
    <2> HIDE DEF asked, argued, rest, keep
    <2>3. asked \in {command, Selecting(command, rest, argued), Selecting(command, keep, argued)}
      BY <2>1, <2>2 DEF SelectedFile
    <2> QED
      BY <2>3 DEF asked, Selecting, Selection
  <1>2. CASE ~SameCommand(Excluding(command, known, drop, file), command, file)
    <2>1. PICK K : Selects(command, known, drop, file, K)
      BY <1>2, ExcludingSelects
    <2> QED
      BY <2>1 DEF Selects, Selection
  <1> QED
    BY <1>1, <1>2

\* Modules are numbers.
LEMMA ModulesAreNumbers ==
  ASSUME NEW d \in Diffs
  PROVE  Reactor(d.production) \subseteq Nat
  <1>1. d.production \subseteq DOMAIN Production
    BY JavaGateAssumption
  <1>2. DOMAIN Upstream \subseteq Nat /\ \A m \in DOMAIN Upstream : Upstream[m] \subseteq DOMAIN Upstream
    BY SuiteAssumption
  <1>3. ChangedModules(d.production) \subseteq DOMAIN Upstream
    BY <1>1, SuiteAssumption DEF ChangedModules
  <1> QED
    BY <1>2, <1>3 DEF Reactor

StopsIn(run, stop) == run.ran = ReachedBy(stop) /\ run.stopped = stop

\* A run that ends was built to its end or stopped in a module it built, and
\* ran all that was selected up to there.
LEMMA RunStops ==
  ASSUME NEW run \in EndedRuns, diff.known, diff \in Diffs
  PROVE  \E stop \in Nat : StopsIn(run, stop)
  <1>1. \/ \E rc, says : run = [rc |-> rc, says |-> says, ran |-> ReachedBy(0), stopped |-> 0,
                                names |-> Printed(0, says)]
        \/ \E m \in Built : \E rc, says :
             run = [rc |-> rc, says |-> says, ran |-> ReachedBy(m), stopped |-> m, names |-> Printed(m, says)]
        \/ /\ RedModules # {}
           /\ \E rc, says : run = [rc |-> rc, says |-> says, ran |-> ReachedBy(Min(RedModules)),
                                   stopped |-> Min(RedModules), names |-> Printed(Min(RedModules), says)]
    <2>1. CASE RedModules = {}
      <3>1. \/ \E says : run = [rc |-> 0, says |-> says, ran |-> ReachedBy(0), stopped |-> 0,
                               names |-> Printed(0, says)]
            \/ \E m \in Built : \E says :
                 run = [rc |-> 1, says |-> says, ran |-> ReachedBy(m), stopped |-> m, names |-> Printed(m, says)]
        BY <2>1 DEF EndedRuns
      <3> QED
        BY <3>1
    <2>2. CASE RedModules # {}
      <3>1. \/ \E says : run = [rc |-> 1, says |-> says, ran |-> ReachedBy(Min(RedModules)),
                               stopped |-> Min(RedModules), names |-> Printed(Min(RedModules), says)]
            \/ \E m \in Built : \E says :
                 run = [rc |-> 1, says |-> says, ran |-> ReachedBy(m), stopped |-> m, names |-> Printed(m, says)]
        BY <2>2 DEF EndedRuns
      <3> QED
        BY <2>2, <3>1
    <2> QED
      BY <2>1, <2>2
  <1>2. Built \subseteq Nat
    BY ModulesAreNumbers DEF Built
  <1>3. RedModules \subseteq Nat
    BY <1>2 DEF RedModules, Selected
  <1>4. RedModules # {} => Min(RedModules) \in Nat
    BY <1>3, MinOfNumbers
  <1>5. \/ StopsIn(run, 0)
        \/ \E m \in Built : StopsIn(run, m)
        \/ RedModules # {} /\ StopsIn(run, Min(RedModules))
    BY <1>1 DEF StopsIn
  <1> QED
    BY <1>2, <1>4, <1>5

LEMMA EndedAnswers ==
  ASSUME NEW run \in EndedRuns, diff.known, diff \in Diffs, NEW files, NEW x \in Required(diff, files),
         x \in cmd.tests
  PROVE  x \in AnsweredBy(run)
  <1>1. PICK stop \in Nat : StopsIn(run, stop)
    BY RunStops
  <1>2. x \in Classes /\ Module(x) \in Reactor(diff.production)
    BY DEF Required
  <1>3. Module(x) \in Nat
    BY <1>2, ModulesAreNumbers
  <1>4. x \in Selected
    BY <1>2 DEF Selected, Built
  <1>5. CASE stop = 0 \/ Module(x) <= stop
    BY <1>1, <1>2, <1>4, <1>5 DEF StopsIn, ReachedBy, AnsweredBy
  <1>6. CASE stop # 0 /\ ~(Module(x) <= stop)
    <2>1. Module(x) > stop
      BY <1>3, <1>6
    <2> QED
      BY <1>1, <1>2, <1>6, <2>1 DEF StopsIn, AnsweredBy
  <1> QED
    BY <1>5, <1>6

Applies(run, n) == Verdicts(run, TRUE)[n][1]
NonePasses(run, n) == \A i \in 1..n : Verdicts(run, TRUE)[i][2] # "passed"

\* The first of the lines that applies gives the verdict.
LEMMA FirstLine ==
  ASSUME NEW run, NEW n \in 1..10, Applies(run, n), NonePasses(run, n)
  PROVE  ClassifyCompleted(run) # "passed"
  <1> DEFINE V == Verdicts(run, TRUE)
             I == {i \in 1..Len(V) : V[i][1]}
             least == IF I # {} THEN Min(I) ELSE 0
  <1>1. Len(V) = 10
    BY DEF Verdicts
  <1>2. ClassifyCompleted(run) = IF least = 0 THEN "missing_evidence" ELSE V[least][2]
    BY Zenon DEF ClassifyCompleted, SelectInSeq
  <1> HIDE DEF V
  <1>3. n \in I
    <2>1. n \in 1..Len(V)
      BY <1>1
    <2>2. V[n][1]
      BY Zenon DEF V, Applies
    <2> QED
      BY <2>1, <2>2, Zenon
  <1> HIDE DEF I
  <1>4. Min(I) \in I /\ Min(I) <= n
    <2>1. I \in SUBSET Nat
      BY DEF I
    <2> QED
      BY <1>3, <2>1, MinOfNumbers
  <1>5. least \in 1..n
    BY <1>3, <1>4 DEF I
  <1> QED
    BY <1>2, <1>5 DEF V, NonePasses

\* A run that was killed does not pass.
LEMMA KilledFails ==
  ASSUME NEW run, run.rc < 0
  PROVE  ClassifyCompleted(run) # "passed"
  <1>1. Applies(run, 5)
    <2>1. Verdicts(run, TRUE)[5][1] = Terminated(run)
      BY DEF Verdicts
    <2>2. Terminated(run)
      BY DEF Terminated
    <2> QED
      BY <2>1, <2>2, Zenon DEF Applies
  <1>2. NonePasses(run, 5)
    BY DEF Verdicts, NonePasses
  <1> QED
    BY <1>1, <1>2, FirstLine

LEMMA StalledFails ==
  ASSUME NEW x
  PROVE  ClassifyCompleted(StalledRun(x)) # "passed"
  <1>1. StalledRun(x).rc < 0
    BY DEF StalledRun
  <1> QED
    BY <1>1, KilledFails

\* The stand-in for a second run that lacks PIT's completion evidence.
NoEvidence == [NoOutput EXCEPT !.rc = 2]

LEMMA SilenceFails == ClassifyCompleted(NoEvidence) # "passed"
  <1> DEFINE V == Verdicts(NoEvidence, TRUE)
             I == {i \in 1..Len(V) : V[i][1]}
             least == IF I # {} THEN Min(I) ELSE 0
  <1>1. Len(V) = 10
    BY DEF Verdicts
  <1>2. ClassifyCompleted(NoEvidence) = IF least = 0 THEN "missing_evidence" ELSE V[least][2]
    BY Zenon DEF ClassifyCompleted, SelectInSeq
  <1>3. NoEvidence.rc = 2 /\ NoEvidence.says = {}
    BY DEF NoEvidence, NoOutput
  <1>4. ~V[8][1] /\ ~V[9][1]
    <2>1. V[8][1] = HasEvidence(NoEvidence)
      BY DEF Verdicts
    <2>2. V[9][1] = (NoEvidence.rc = 0 /\ "no_lines" \in NoEvidence.says)
      BY DEF Verdicts
    <2>3. ~HasEvidence(NoEvidence) /\ ~(NoEvidence.rc = 0 /\ "no_lines" \in NoEvidence.says)
      BY <1>3 DEF HasEvidence
    <2> QED
      BY <2>1, <2>2, <2>3, Zenon
  <1>5. \A i \in 1..10 : i = 8 \/ i = 9 \/ V[i][2] # "passed"
    BY DEF Verdicts
  <1> HIDE DEF V
  <1>6. 8 \notin I /\ 9 \notin I
    BY <1>4, Zenon
  <1>7. I \in SUBSET Nat /\ I \subseteq 1..10
    BY <1>1
  <1> HIDE DEF I
  <1>8. I # {} => Min(I) \in I
    BY <1>7, MinOfNumbers
  <1> QED
    BY <1>2, <1>5, <1>6, <1>7, <1>8

\* What the classes to leave out before or after a hang leave in the command.
LEMMA HangingTyped ==
  ASSUME NEW names, names \subseteq Classes, NEW file \in BOOLEAN,
         DOMAIN reports \subseteq Classes, cmd.tests \subseteq Classes
  PROVE  /\ HangingExclusion(names, file).out \subseteq Classes
         /\ HangingExclusion(names, file).cmd.tests \subseteq Classes
  <1> DEFINE known == Declared({Module(y) : y \in Classes}) \cup DOMAIN reports \cup names
             gone == Excused(names, diff, diff.production, known)
             selected == Excluding(cmd, known, gone, file)
             asked == HangingExclusion(names, file)
  <1>1. asked = [cmd |-> IF gone = {} THEN cmd ELSE selected,
                 out |-> IF gone = {} \/ SameCommand(selected, cmd, file) THEN {} ELSE gone]
    BY Zenon DEF HangingExclusion, Excused
  <1>2. known \subseteq Classes /\ names \subseteq known
    BY DEF Declared
  <1> HIDE DEF known
  <1>3. gone \subseteq Classes
    BY <1>2, ExcusedParts
  <1>4. selected.tests \subseteq Classes
    BY SelectsKnown
  <1> HIDE DEF gone, selected, asked
  <1>5. asked.cmd \in {cmd, selected} /\ asked.out \in {{}, gone}
    BY <1>1
  <1> QED
    BY <1>3, <1>4, <1>5 DEF asked

LEMMA HangingKeeps ==
  ASSUME NEW names, names \subseteq Classes, NEW file \in BOOLEAN, DOMAIN reports \subseteq Classes,
         NEW x \in Required(diff, diff.production), x \in cmd.tests
  PROVE  x \in HangingExclusion(names, file).cmd.tests
  <1> DEFINE known == Declared({Module(y) : y \in Classes}) \cup DOMAIN reports \cup names
             gone == Excused(names, diff, diff.production, known)
             selected == Excluding(cmd, known, gone, file)
             asked == HangingExclusion(names, file)
  <1>1. asked = [cmd |-> IF gone = {} THEN cmd ELSE selected,
                 out |-> IF gone = {} \/ SameCommand(selected, cmd, file) THEN {} ELSE gone]
    BY Zenon DEF HangingExclusion, Excused
  <1>2. known \subseteq Classes /\ names \subseteq known
    BY DEF Declared
  <1>3. /\ x \in Classes /\ diff.known /\ Suite[x].standard /\ Suite[x].argument /\ ~Ambiguous(x, Classes)
        /\ RelatedTo(x, diff, diff.production)
    BY DEF Required, RelatedTo
  <1>4. x \in known
    BY <1>3 DEF Declared
  <1> HIDE DEF known
  <1>5. x \notin gone
    BY <1>2, <1>3, RelatedIsKept
  <1> HIDE DEF gone
  <1>6. x \in selected.tests
    BY <1>2, <1>3, <1>4, <1>5, StaysSelected
  <1> HIDE DEF selected, asked
  <1>7. asked.cmd \in {cmd, selected}
    BY <1>1
  <1> QED
    BY <1>6, <1>7 DEF asked

\* What the gate handles are classes of the suite, about one of the diffs; a
\* stalled run stalled in a class that hangs.
HangShape(h) ==
    /\ {"pre", "quarantined"} \subseteq DOMAIN h
    /\ h.pre \subseteq Classes /\ h.quarantined \subseteq Classes
DiskTyped == store \subseteq Classes /\ DOMAIN reports \subseteq Classes /\ fresh \subseteq Classes
Asked == pc # "begin" => diff \in Diffs
StalledAt == \E x \in Hanging : out = StalledRun(x)

GateTyped ==
    /\ modern \in BOOLEAN /\ DiskTyped /\ cmd.tests \subseteq Classes /\ HangShape(hang)
    /\ Asked /\ (pc = "stalled" => StalledAt)

LEMMA HangStarts == HangShape(NoHang)
  BY DEF HangShape, NoHang

LEMMA HangNoted ==
  ASSUME NEW h, HangShape(h), NEW named, NEW why, NEW retained
  PROVE  HangShape([h EXCEPT !.named = named, !.reason = why, !.retained = retained])
  BY DEF HangShape

LEMMA HangReason ==
  ASSUME NEW h, HangShape(h), NEW why
  PROVE  HangShape([h EXCEPT !.reason = why])
  BY DEF HangShape

LEMMA HangQuarantined ==
  ASSUME NEW h, HangShape(h), NEW more, more \subseteq Classes, NEW n
  PROVE  HangShape([h EXCEPT !.quarantined = more, !.retries = n])
  BY DEF HangShape

LEMMA HangExcluded ==
  ASSUME NEW h, HangShape(h), NEW some, some \subseteq Classes
  PROVE  HangShape([h EXCEPT !.pre = some])
  BY DEF HangShape

LEMMA TypedStart == Init => GateTyped
  BY HangStarts DEF Init, GateTyped, DiskTyped, Asked

LEMMA ReportsWritten ==
  ASSUME DiskTyped, cmd.tests \subseteq Classes, NEW run \in EndedRuns \cup {StalledRun(x) : x \in Hanging}
  PROVE  DOMAIN Written(run) \subseteq Classes /\ fresh \cup run.ran \subseteq Classes
  <1>1. run.ran \subseteq Classes
    BY RanWasSelected
  <1>2. DOMAIN Written(run) = run.ran \cup DOMAIN reports
    BY DEF Written
  <1> QED
    BY <1>1, <1>2 DEF DiskTyped

LEMMA ReportsCleared ==
  ASSUME DiskTyped
  PROVE  DOMAIN Cleared \subseteq Classes /\ {x \in fresh : Stays(x)} \subseteq Classes
  BY DEF DiskTyped, Cleared

LEMMA TypedUntouched ==
  ASSUME GateTyped, UNCHANGED <<modern, store, reports, fresh, cmd, hang, diff>>,
         pc' # "begin" => pc # "begin", pc' # "stalled"
  PROVE  GateTyped'
  BY DEF GateTyped, DiskTyped, Asked

LEMMA BeginTyped == GateTyped /\ Begin => GateTyped'
  <1> SUFFICES ASSUME GateTyped, Begin PROVE GateTyped'
    OBVIOUS
  <1>1. /\ diff' \in Diffs /\ hang' = NoHang /\ fresh' = {}
        /\ \E tests :
             cmd' = [tests |-> IF tests = {} THEN Classes ELSE Selection(tests), drop |-> {}, shape |-> 0]
        /\ pc' \in {"report", "preexclude"}
    <2>1. diff' \in Diffs /\ hang' = NoHang /\ fresh' = {}
      BY DEF Begin
    <2>2. \E tests :
            cmd' = [tests |-> IF tests = {} THEN Classes ELSE Selection(tests), drop |-> {}, shape |-> 0]
      BY Zenon DEF Begin
    <2>3. pc' \in {"report", "preexclude"}
      BY Zenon DEF Begin
    <2> QED
      BY <2>1, <2>2, <2>3, Zenon
  <1>2. UNCHANGED <<modern, store, reports>>
    BY DEF Begin, world
  <1>3. cmd'.tests \subseteq Classes
    BY <1>1 DEF Selection
  <1> QED
    BY <1>1, <1>2, <1>3, HangStarts DEF GateTyped, DiskTyped, Asked

LEMMA PreexcludeTyped == GateTyped /\ Preexclude => GateTyped'
  <1> SUFFICES ASSUME GateTyped, Preexclude PROVE GateTyped'
    OBVIOUS
  <1> DEFINE asked == HangingExclusion(store, FALSE)
             some == IF store = {} THEN {} ELSE asked.out
  <1>1. /\ cmd' = IF store = {} THEN cmd ELSE asked.cmd
        /\ hang' = [hang EXCEPT !.pre = some]
        /\ pc' = "maven" /\ pc = "preexclude"
        /\ UNCHANGED <<modern, store, reports, fresh, diff>>
    BY DEF Preexclude, world, plan
  <1>2. asked.out \subseteq Classes /\ asked.cmd.tests \subseteq Classes
    BY HangingTyped DEF GateTyped, DiskTyped
  <1> HIDE DEF asked
  <1>3. some \subseteq Classes
    BY <1>2
  <1> HIDE DEF some
  <1>4. HangShape(hang')
    BY <1>1, <1>3, HangExcluded DEF GateTyped
  <1> QED
    BY <1>1, <1>2, <1>4 DEF GateTyped, DiskTyped, Asked

LEMMA MavenTyped == GateTyped /\ Maven => GateTyped'
  <1> SUFFICES ASSUME GateTyped, Maven PROVE GateTyped'
    OBVIOUS
  <1>1. /\ reports' = Written(out') /\ fresh' = fresh \cup out'.ran
        /\ pc = "maven" /\ UNCHANGED <<modern, store, cmd, hang, diff, red, hangs>>
    BY DEF Maven, world, plan
  <1>2. \/ out' \in EndedRuns /\ pc' = "ended"
        \/ pc' = "stalled" /\ \E x \in Hanging : out' = StalledRun(x)
    BY DEF Maven
  <1>3. out' \in EndedRuns \cup {StalledRun(x) : x \in Hanging}
    BY <1>2
  <1>4. DOMAIN reports' \subseteq Classes /\ fresh' \subseteq Classes
    BY <1>1, <1>3, ReportsWritten DEF GateTyped
  <1>5. pc' = "stalled" => StalledAt'
    BY <1>1, <1>2 DEF StalledAt, Hanging, StalledRun, Selected, Built
  <1> QED
    BY <1>1, <1>2, <1>4, <1>5 DEF GateTyped, DiskTyped, Asked

LEMMA MavenFailsTyped == GateTyped /\ MavenFails => GateTyped'
  <1> SUFFICES ASSUME GateTyped, MavenFails PROVE GateTyped'
    OBVIOUS
  <1>1. pc' = "report" /\ hang' \in {hang, [hang EXCEPT !.reason = "no-unfinished-test"]}
    BY DEF MavenFails, Ends
  <1>2. pc = "maven" /\ UNCHANGED <<modern, store, reports, fresh, cmd, diff>>
    BY DEF MavenFails, world, plan
  <1>3. HangShape(hang')
    BY <1>1, HangReason DEF GateTyped
  <1> QED
    BY <1>1, <1>2, <1>3 DEF GateTyped, DiskTyped, Asked

\* The class a run stalled in, and the hang as the gate notes it.
StallClass == CHOOSE d \in Hanging : out = StalledRun(d)
Noticed(h) ==
    \E named, why, retained : h = [hang EXCEPT !.named = named, !.reason = why, !.retained = retained]

LEMMA StallClassIsKnown ==
  ASSUME GateTyped, pc = "stalled"
  PROVE  StallClass \in Hanging /\ StallClass \in Classes
  <1>1. StallClass \in Hanging
    BY DEF GateTyped, StalledAt, StallClass
  <1> QED
    BY <1>1 DEF Hanging, Selected, GateTyped

\* A stall leaves a class out and starts again, or ends the gate.
StallRetried(h, asked) ==
    /\ hang' = [h EXCEPT !.quarantined = @ \cup {StallClass}, !.retries = @ + 1]
    /\ cmd' = asked.cmd /\ store' = store \cup {StallClass}
    /\ reports' = Cleared /\ fresh' = {d \in fresh : Stays(d)}
    /\ pc' = "maven" /\ UNCHANGED result

StallEnds(h) ==
    /\ \E why : Ends("command_error", out, FALSE, [h EXCEPT !.reason = why])
    /\ UNCHANGED <<cmd, store, reports, fresh>>

LEMMA StalledCases ==
  ASSUME Stalled
  PROVE  \E h : /\ Noticed(h)
                /\ \/ StallRetried(h, HangingExclusion(hang.pre \cup hang.quarantined \cup {StallClass}, modern))
                   \/ StallEnds(h)
  <1> DEFINE reason == StallReason(StallClass)
             asked == HangingExclusion(hang.pre \cup hang.quarantined \cup {StallClass}, modern)
             named == hang.named \cup {StallClass}
             more == IF reason = "related-to-change" THEN hang.retained \cup {StallClass} ELSE hang.retained
             h == [hang EXCEPT !.named = @ \cup {StallClass}, !.reason = reason,
                               !.retained = IF reason = "related-to-change" THEN @ \cup {StallClass} ELSE @]
  <1>1. Noticed(h)
    <2>1. h = [hang EXCEPT !.named = named, !.reason = reason, !.retained = more]
      BY Zenon
    <2> HIDE DEF h, more, reason, named
    <2> QED
      BY <2>1, Zenon DEF Noticed
  <1>2. IF reason = "" /\ asked.out # {}
        THEN StallRetried(h, asked)
        ELSE /\ Ends("command_error", out, FALSE,
                     [h EXCEPT !.reason = IF @ = "" THEN "test-could-not-be-quarantined" ELSE @])
             /\ UNCHANGED <<cmd, store, reports, fresh>>
    BY Zenon DEF Stalled, StallClass, StallRetried
  <1> HIDE DEF h, asked, reason
  <1>3. StallRetried(h, asked) \/ StallEnds(h)
    BY <1>2, Zenon DEF StallEnds
  <1> QED
    BY <1>1, <1>3, Zenon DEF asked

LEMMA StalledTyped == GateTyped /\ Stalled => GateTyped'
  <1> SUFFICES ASSUME GateTyped, Stalled PROVE GateTyped'
    OBVIOUS
  <1> DEFINE names == hang.pre \cup hang.quarantined \cup {StallClass}
             asked == HangingExclusion(names, modern)
  <1>1. PICK h : Noticed(h) /\ (StallRetried(h, asked) \/ StallEnds(h))
    BY StalledCases
  <1>2. pc = "stalled" /\ UNCHANGED <<modern, diff>>
    BY Zenon DEF Stalled, world, plan
  <1>3. StallClass \in Classes
    BY <1>2, StallClassIsKnown
  <1>4. HangShape(h)
    <2>1. PICK named, why, retained : h = [hang EXCEPT !.named = named, !.reason = why, !.retained = retained]
      BY <1>1 DEF Noticed
    <2>2. HangShape(hang)
      BY DEF GateTyped
    <2>3. HangShape([hang EXCEPT !.named = named, !.reason = why, !.retained = retained])
      BY <2>2, HangNoted, Zenon
    <2> QED
      BY <2>1, <2>3
  <1>5. names \subseteq Classes
    BY <1>3 DEF GateTyped, HangShape
  <1> HIDE DEF names
  <1>6. asked.cmd.tests \subseteq Classes
    BY <1>5, HangingTyped DEF GateTyped, DiskTyped
  <1> HIDE DEF asked
  <1>7. CASE StallRetried(h, asked)
    <2> DEFINE more == h.quarantined \cup {StallClass}
               n == h.retries + 1
    <2>1. hang' = [h EXCEPT !.quarantined = more, !.retries = n]
      BY <1>7, Zenon DEF StallRetried
    <2>2. more \subseteq Classes
      BY <1>3, <1>4 DEF HangShape
    <2> HIDE DEF more, n
    <2>3. HangShape(hang')
      BY <1>4, <2>1, <2>2, HangQuarantined
    <2>4. /\ cmd'.tests \subseteq Classes /\ store' = store \cup {StallClass} /\ reports' = Cleared
          /\ fresh' = {d \in fresh : Stays(d)} /\ pc' = "maven"
      BY <1>6, <1>7 DEF StallRetried
    <2>5. DiskTyped'
      BY <1>3, <2>4, ReportsCleared DEF DiskTyped, GateTyped
    <2> QED
      BY <1>2, <2>3, <2>4, <2>5 DEF GateTyped, Asked
  <1>8. CASE StallEnds(h)
    <2>1. PICK why : Ends("command_error", out, FALSE, [h EXCEPT !.reason = why])
      BY <1>8 DEF StallEnds
    <2>2. pc' = "report" /\ hang' = [h EXCEPT !.reason = why]
      BY <2>1 DEF Ends
    <2>3. HangShape(hang')
      BY <1>4, <2>2, HangReason
    <2> QED
      BY <1>2, <1>8, <2>2, <2>3 DEF StallEnds, GateTyped, DiskTyped, Asked
  <1> QED
    BY <1>1, <1>7, <1>8

LEMMA PartitionTyped == GateTyped /\ PartitionFailures => GateTyped'
  <1> SUFFICES ASSUME GateTyped, PartitionFailures PROVE GateTyped'
    OBVIOUS
  <1>1. /\ cmd' = cmd \/ \E drop : cmd' = Excluding(cmd, Inventory, drop, modern)
        /\ \/ UNCHANGED <<reports, fresh>>
           \/ reports' = Cleared /\ fresh' = {d \in fresh : Stays(d)}
    BY Zenon DEF PartitionFailures
  <1>2. pc' \in {"classify", "rerun"} /\ pc = "partition"
    BY Zenon DEF PartitionFailures
  <1>3. UNCHANGED <<modern, store, diff, hang>>
    BY Zenon DEF PartitionFailures, world, plan
  <1>4. cmd'.tests \subseteq Classes
    BY <1>1, SelectsKnown DEF GateTyped
  <1>5. DiskTyped'
    BY <1>1, <1>3, ReportsCleared DEF GateTyped, DiskTyped
  <1> QED
    BY <1>2, <1>3, <1>4, <1>5 DEF GateTyped, Asked

LEMMA RerunTyped == GateTyped /\ Rerun => GateTyped'
  <1> SUFFICES ASSUME GateTyped, Rerun PROVE GateTyped'
    OBVIOUS
  <1>1. PICK run \in EndedRuns \cup {StalledRun(x) : x \in Hanging} :
          reports' = Written(run) /\ fresh' = fresh \cup run.ran
    BY DEF Rerun
  <1>2. pc' = "classify" /\ pc = "rerun" /\ UNCHANGED <<modern, store, diff, hang, cmd>>
    BY DEF Rerun, world, plan
  <1>3. DOMAIN reports' \subseteq Classes /\ fresh' \subseteq Classes
    BY <1>1, ReportsWritten DEF GateTyped
  <1> QED
    BY <1>2, <1>3 DEF GateTyped, DiskTyped, Asked

LEMMA AgainTyped == GateTyped /\ Again => GateTyped'
  <1> SUFFICES ASSUME GateTyped, Again PROVE GateTyped'
    OBVIOUS
  <1>1. /\ pc' = "begin" /\ hang' = NoHang /\ cmd' = [tests |-> {}, drop |-> {}, shape |-> 0] /\ fresh' = {}
        /\ UNCHANGED <<modern, store, reports>>
    BY DEF Again, world
  <1> QED
    BY <1>1, HangStarts DEF GateTyped, DiskTyped, Asked

LEMMA TypedKept == GateTyped /\ [Next]_vars => GateTyped'
  <1> SUFFICES ASSUME GateTyped, [Next]_vars PROVE GateTyped'
    OBVIOUS
  <1>1. CASE Expire
    <2>1. store' \subseteq store /\ UNCHANGED <<modern, reports, fresh, pc, diff, cmd, hang>> /\ pc = "begin"
      BY <1>1 DEF Expire, world, plan
    <2> QED
      BY <2>1 DEF GateTyped, DiskTyped, Asked
  <1>2. CASE Scoped
    <2>1. pc = "ended" /\ UNCHANGED <<modern, store, reports, fresh, cmd, diff>>
      BY <1>2, Zenon DEF Scoped, world, plan
    <2>2. pc' \in {"report", "partition", "classify"} /\ hang' = hang
      BY <1>2, Zenon DEF Scoped, Ends
    <2> QED
      BY <2>1, <2>2, TypedUntouched
  <1>3. CASE RerunFails
    <2>1. pc = "rerun" /\ pc' \in {"classify", "raised"}
          /\ UNCHANGED <<modern, store, reports, fresh, cmd, hang, diff>>
      BY <1>3 DEF RerunFails, world, plan
    <2> QED
      BY <2>1, TypedUntouched
  <1>4. CASE Classify
    <2>1. pc = "classify" /\ UNCHANGED <<modern, store, reports, fresh, cmd, diff>>
      BY <1>4, Zenon DEF Classify, world, plan
    <2>2. pc' = "report" /\ hang' = hang
      BY <1>4, Zenon DEF Classify, Ends
    <2> QED
      BY <2>1, <2>2, TypedUntouched
  <1>5. CASE Report
    <2>1. pc = "report" /\ pc' = "done" /\ UNCHANGED <<modern, store, reports, fresh, cmd, hang, diff>>
      BY <1>5, Zenon DEF Report, world, plan
    <2> QED
      BY <2>1, TypedUntouched
  <1>6. CASE UNCHANGED vars
    BY <1>6 DEF vars, GateTyped, DiskTyped, Asked, StalledAt, Hanging, StalledRun, Selected, Built
  <1> QED
    BY <1>1, <1>2, <1>3, <1>4, <1>5, <1>6, BeginTyped, PreexcludeTyped, MavenTyped, MavenFailsTyped,
       StalledTyped, PartitionTyped, RerunTyped, AgainTyped DEF Next

LEMMA TypedInv == Spec => []GateTyped
  BY TypedStart, TypedKept, PTL DEF Spec

\* While the first run is prepared and repeated its command selects every class
\* the diff is about, so that the run answers for them, and they can be found
\* among its reports or in the modules it did not reach.  The second run
\* selects those about the sources under an obligation, and the first one,
\* which may still be the better evidence, answers for them too.
FirstRunCovers ==
    /\ pc \in {"preexclude", "maven", "stalled", "ended", "partition"}
         => Required(diff, diff.production) \subseteq cmd.tests
    /\ pc \in {"ended", "partition"}
         => Required(diff, diff.production) \subseteq AnsweredBy(out) /\ out.ran \subseteq fresh
    /\ pc = "partition" => scope.files \subseteq diff.production

SecondRunCovers ==
    pc = "rerun" => Required(diff, scope.files) \subseteq cmd.tests \cap AnsweredBy(kept)

VerdictCovers ==
    /\ pc = "classify" /\ ClassifyCompleted(out) = "passed"
         => Required(diff, scope.files) \subseteq AnsweredBy(out)
    /\ pc \in {"report", "done"} /\ result.status = "passed" /\ result.out # NoOutput
         => Required(diff, result.files) \subseteq AnsweredBy(result.out)

CoverOK == full => FirstRunCovers /\ SecondRunCovers /\ VerdictCovers

LEMMA CoverStart == Init => CoverOK
  BY DEF Init, CoverOK

LEMMA EndsSaid ==
  ASSUME NEW how, NEW run, NEW compat, NEW noted, Ends(how, run, compat, noted)
  PROVE  pc' = "report" /\ result'.status = how /\ result'.out = run /\ result'.files = scope.files
  BY DEF Ends, Verdict

LEMMA EndsUnpassed ==
  ASSUME NEW how, NEW run, NEW compat, NEW noted, Ends(how, run, compat, noted), how # "passed"
  PROVE  CoverOK'
  <1>1. pc' = "report" /\ result'.status # "passed"
    BY EndsSaid
  <1> QED
    BY <1>1 DEF CoverOK, FirstRunCovers, SecondRunCovers, VerdictCovers

LEMMA BeginCovers == Begin => CoverOK'
  <1> SUFFICES ASSUME Begin, full' PROVE CoverOK'
    BY DEF CoverOK
  <1>1. PICK d \in Diffs, whole \in BOOLEAN :
          LET tests == IF d.known /\ ~whole THEN TargetTests(d, d.production) ELSE {}
          IN  /\ full' = whole
              /\ cmd' = [tests |-> IF tests = {} THEN Classes ELSE Selection(tests), drop |-> {}, shape |-> 0]
    BY Zenon DEF Begin
  <1>2. cmd'.tests = Classes
    BY <1>1
  <1>3. \/ pc' = "preexclude"
        \/ pc' = "report" /\ \E how, of, files, tests, tooling :
             result' = [status |-> how, out |-> NoOutput, part |-> NoFailures, hang |-> NoHang, diff |-> of,
                        failed |-> {}, targets |-> {}, files |-> files, tests |-> tests, tooling |-> tooling,
                        compat |-> FALSE]
    BY DEF Begin
  <1>4. pc' = "report" => result'.out = NoOutput
    BY <1>3
  <1> QED
    BY <1>2, <1>3, <1>4 DEF CoverOK, FirstRunCovers, SecondRunCovers, VerdictCovers, Required

LEMMA PreexcludeCovers == GateTyped /\ CoverOK /\ Preexclude => CoverOK'
  <1> SUFFICES ASSUME GateTyped, CoverOK, Preexclude, full PROVE CoverOK'
    BY DEF CoverOK, Preexclude, plan
  <1> DEFINE asked == HangingExclusion(store, FALSE)
  <1>1. cmd' = (IF store = {} THEN cmd ELSE asked.cmd) /\ pc' = "maven" /\ pc = "preexclude" /\ UNCHANGED diff
    BY DEF Preexclude, plan
  <1>2. Required(diff, diff.production) \subseteq cmd.tests
    BY <1>1 DEF CoverOK, FirstRunCovers
  <1>3. Required(diff, diff.production) \subseteq asked.cmd.tests
    BY <1>2, HangingKeeps DEF GateTyped, DiskTyped
  <1> HIDE DEF asked
  <1> QED
    BY <1>1, <1>2, <1>3 DEF CoverOK, FirstRunCovers, SecondRunCovers, VerdictCovers

LEMMA MavenCovers == GateTyped /\ CoverOK /\ Maven => CoverOK'
  <1> SUFFICES ASSUME GateTyped, CoverOK, Maven, full PROVE CoverOK'
    BY DEF CoverOK, Maven, plan
  <1>1. fresh' = fresh \cup out'.ran /\ pc = "maven" /\ UNCHANGED <<cmd, diff>>
    BY DEF Maven, plan
  <1>2. (out' \in EndedRuns /\ pc' = "ended") \/ pc' = "stalled"
    BY DEF Maven
  <1>3. diff \in Diffs
    BY <1>1 DEF GateTyped, Asked
  <1>4. Required(diff, diff.production) \subseteq cmd.tests
    BY <1>1 DEF CoverOK, FirstRunCovers
  <1>5. ASSUME out' \in EndedRuns
        PROVE  Required(diff, diff.production) \subseteq AnsweredBy(out')
    <2> SUFFICES ASSUME NEW x \in Required(diff, diff.production) PROVE x \in AnsweredBy(out')
      OBVIOUS
    <2>1. diff.known
      BY DEF Required
    <2> QED
      BY <1>3, <1>4, <1>5, <2>1, EndedAnswers
  <1> QED
    BY <1>1, <1>2, <1>4, <1>5 DEF CoverOK, FirstRunCovers, SecondRunCovers, VerdictCovers

LEMMA UntrustedFails ==
  ASSUME NEW run
  PROVE  Untrusted(run) # "passed"
  BY DEF Untrusted

LEMMA MavenFailsCovers == MavenFails => CoverOK'
  <1> SUFFICES ASSUME MavenFails PROVE CoverOK'
    OBVIOUS
  <1>1. \/ \E run, noted : Ends("timeout", run, FALSE, noted)
        \/ \E run, noted : Ends("command_error", run, FALSE, noted)
        \/ \E run : Ends(Untrusted(run), run, TRUE, hang)
    BY Zenon DEF MavenFails
  <1> QED
    BY <1>1, UntrustedFails, EndsUnpassed

LEMMA StalledCovers == GateTyped /\ CoverOK /\ Stalled => CoverOK'
  <1> SUFFICES ASSUME GateTyped, CoverOK, Stalled PROVE CoverOK'
    OBVIOUS
  <1> DEFINE names == hang.pre \cup hang.quarantined \cup {StallClass}
             asked == HangingExclusion(names, modern)
  <1>1. PICK h : Noticed(h) /\ (StallRetried(h, asked) \/ StallEnds(h))
    BY StalledCases
  <1>2. pc = "stalled" /\ UNCHANGED <<diff, full>>
    BY Zenon DEF Stalled, plan
  <1>3. CASE StallEnds(h)
    BY <1>3, EndsUnpassed DEF StallEnds
  <1>4. CASE StallRetried(h, asked) /\ full
    <2>1. names \subseteq Classes
      BY <1>2, StallClassIsKnown DEF GateTyped, HangShape
    <2>2. Required(diff, diff.production) \subseteq cmd.tests
      BY <1>2, <1>4 DEF CoverOK, FirstRunCovers
    <2> HIDE DEF names
    <2>3. Required(diff, diff.production) \subseteq asked.cmd.tests
      BY <2>1, <2>2, HangingKeeps DEF GateTyped, DiskTyped
    <2> HIDE DEF asked
    <2>4. cmd' = asked.cmd /\ pc' = "maven"
      BY <1>4 DEF StallRetried
    <2> QED
      BY <1>2, <2>3, <2>4 DEF CoverOK, FirstRunCovers, SecondRunCovers, VerdictCovers
  <1>5. CASE ~full
    BY <1>2, <1>5 DEF CoverOK
  <1> QED
    BY <1>1, <1>3, <1>4, <1>5

LEMMA ScopedCovers == CoverOK /\ Scoped => CoverOK'
  <1> SUFFICES ASSUME CoverOK, Scoped, full PROVE CoverOK'
    BY DEF CoverOK, Scoped, plan
  <1>1. \/ Ends("missing_evidence", out, FALSE, hang)
        \/ /\ \E targets, tests :
                /\ targets = FilteredTargets(out, diff)
                /\ scope' = [targets |-> targets, files |-> targets, tests |-> tests]
           /\ pc' = "partition"
    BY Zenon DEF Scoped
  <1>2. pc = "ended" /\ UNCHANGED <<out, fresh, cmd, diff>>
    BY Zenon DEF Scoped, plan
  <1>3. CASE Ends("missing_evidence", out, FALSE, hang)
    BY <1>3, EndsUnpassed
  <1>4. CASE pc' = "partition" /\ \E targets, tests :
               /\ targets = FilteredTargets(out, diff)
               /\ scope' = [targets |-> targets, files |-> targets, tests |-> tests]
    <2>1. scope'.files \subseteq diff.production
      BY <1>4 DEF FilteredTargets
    <2> QED
      BY <1>2, <1>4, <2>1 DEF CoverOK, FirstRunCovers, SecondRunCovers, VerdictCovers
  <1> QED
    BY <1>1, <1>3, <1>4

\* The classes about a source under an obligation are in the inventory, are not
\* left out, and so are selected by the second run.
LEMMA PartitionCovers == GateTyped /\ CoverOK /\ PartitionFailures => CoverOK'
  <1> SUFFICES ASSUME GateTyped, CoverOK, PartitionFailures, full PROVE CoverOK'
    BY DEF CoverOK, PartitionFailures, plan
  <1> DEFINE failing == {x \in fresh : reports[x]}
             gone == Excused(failing, diff, scope.files, Inventory)
             excluding == Excluding(cmd, Inventory, gone, modern)
  <1>1. \/ pc' = "classify"
        \/ pc' = "rerun" /\ kept' = out /\ cmd' = excluding
    BY Zenon DEF PartitionFailures, Excused
  <1>2. pc = "partition" /\ UNCHANGED <<out, scope, diff>>
    BY Zenon DEF PartitionFailures, plan
  <1>3. /\ Required(diff, diff.production) \subseteq cmd.tests
        /\ Required(diff, diff.production) \subseteq AnsweredBy(out)
        /\ out.ran \subseteq fresh /\ scope.files \subseteq diff.production
    BY <1>2 DEF CoverOK, FirstRunCovers
  <1>4. Required(diff, scope.files) \subseteq cmd.tests /\ Required(diff, scope.files) \subseteq AnsweredBy(out)
    BY <1>3, RequiredLess
  <1>5. failing \subseteq Inventory /\ Inventory \subseteq Classes
    BY DEF Inventory, Declared, GateTyped, DiskTyped
  <1> HIDE DEF failing
  <1>6. ASSUME NEW x \in Required(diff, scope.files)
        PROVE  x \in excluding.tests
    <2>1. /\ x \in Classes /\ diff.known /\ Module(x) \in Reactor(diff.production) /\ Suite[x].standard
          /\ Suite[x].argument /\ ~Ambiguous(x, Classes) /\ RelatedTo(x, diff, scope.files)
      BY <1>6 DEF Required, RelatedTo
    <2>2. x \in Inventory
      <3>1. x \in out.ran \/ (out.stopped # 0 /\ Module(x) > out.stopped)
        BY <1>4, <1>6 DEF AnsweredBy
      <3>2. CASE x \in out.ran
        BY <1>3, <3>2 DEF Inventory
      <3>3. CASE out.stopped # 0 /\ Module(x) > out.stopped
        <4>1. Module(x) \in SkippedModules
          BY <2>1, <3>3 DEF SkippedModules, Built
        <4> QED
          BY <2>1, <4>1 DEF Inventory, Declared
      <3> QED
        BY <3>1, <3>2, <3>3
    <2>3. x \notin gone
      BY <1>5, <2>1, RelatedIsKept
    <2>4. x \in cmd.tests
      BY <1>4, <1>6
    <2> HIDE DEF gone
    <2> QED
      BY <1>5, <2>1, <2>2, <2>3, <2>4, StaysSelected DEF GateTyped
  <1> HIDE DEF excluding, gone
  <1> QED
    BY <1>1, <1>2, <1>4, <1>6 DEF CoverOK, FirstRunCovers, SecondRunCovers, VerdictCovers

LEMMA RerunCovers == GateTyped /\ CoverOK /\ Rerun => CoverOK'
  <1> SUFFICES ASSUME GateTyped, CoverOK, Rerun, full PROVE CoverOK'
    BY DEF CoverOK, Rerun, plan
  <1>1. PICK run \in IF Hanging = {} THEN EndedRuns ELSE {StalledRun(x) : x \in Hanging} :
          out' = kept \/ out' = run
    BY DEF Rerun
  <1>2. pc' = "classify" /\ pc = "rerun" /\ UNCHANGED <<scope, diff>>
    BY DEF Rerun, plan
  <1>3. Required(diff, scope.files) \subseteq cmd.tests /\ Required(diff, scope.files) \subseteq AnsweredBy(kept)
    BY <1>2 DEF CoverOK, SecondRunCovers
  <1>4. diff \in Diffs
    BY <1>2 DEF GateTyped, Asked
  <1>5. ClassifyCompleted(run) = "passed" => Required(diff, scope.files) \subseteq AnsweredBy(run)
    <2>1. CASE run \in EndedRuns
      <3> SUFFICES ASSUME NEW x \in Required(diff, scope.files) PROVE x \in AnsweredBy(run)
        OBVIOUS
      <3>1. diff.known
        BY DEF Required
      <3> QED
        BY <1>3, <1>4, <2>1, <3>1, EndedAnswers
    <2>2. CASE \E x : run = StalledRun(x)
      BY <2>2, StalledFails
    <2> QED
      BY <1>1, <2>1, <2>2
  <1> QED
    BY <1>1, <1>2, <1>3, <1>5 DEF CoverOK, FirstRunCovers, SecondRunCovers, VerdictCovers

LEMMA RerunFailsCovers == CoverOK /\ RerunFails => CoverOK'
  <1> SUFFICES ASSUME CoverOK, RerunFails, full PROVE CoverOK'
    BY DEF CoverOK, RerunFails, plan
  <1>1. \/ out' = kept /\ pc' = "classify"
        \/ out' = NoEvidence /\ pc' = "classify"
        \/ pc' = "raised"
    BY Zenon DEF RerunFails, NoEvidence
  <1>2. pc = "rerun" /\ UNCHANGED <<scope, diff>>
    BY DEF RerunFails, plan
  <1>3. Required(diff, scope.files) \subseteq AnsweredBy(kept)
    BY <1>2 DEF CoverOK, SecondRunCovers
  <1> QED
    BY <1>1, <1>2, <1>3, SilenceFails DEF CoverOK, FirstRunCovers, SecondRunCovers, VerdictCovers

LEMMA ClassifyCovers == CoverOK /\ Classify => CoverOK'
  <1> SUFFICES ASSUME CoverOK, Classify, full PROVE CoverOK'
    BY DEF CoverOK, Classify, plan
  <1>1. \/ \E compat : Ends(ClassifyCompleted(out), out, compat, hang)
        \/ \E compat : Ends(Untrusted(out), out, compat, hang)
    BY Zenon DEF Classify
  <1>2. pc = "classify" /\ UNCHANGED diff
    BY Zenon DEF Classify, plan
  <1>3. ClassifyCompleted(out) = "passed" => Required(diff, scope.files) \subseteq AnsweredBy(out)
    BY <1>2 DEF CoverOK, VerdictCovers
  <1>4. CASE \E compat : Ends(ClassifyCompleted(out), out, compat, hang)
    <2>1. pc' = "report" /\ result'.status = ClassifyCompleted(out) /\ result'.out = out
          /\ result'.files = scope.files
      BY <1>4, EndsSaid
    <2> QED
      BY <1>2, <1>3, <2>1 DEF CoverOK, FirstRunCovers, SecondRunCovers, VerdictCovers
  <1>5. CASE \E compat : Ends(Untrusted(out), out, compat, hang)
    BY <1>5, UntrustedFails, EndsUnpassed
  <1> QED
    BY <1>1, <1>4, <1>5

LEMMA CoverKept == GateTyped /\ CoverOK /\ [Next]_vars => CoverOK'
  <1> SUFFICES ASSUME GateTyped, CoverOK, [Next]_vars PROVE CoverOK'
    OBVIOUS
  <1>1. CASE Expire
    <2>1. pc' = "begin"
      BY <1>1 DEF Expire
    <2> QED
      BY <2>1 DEF CoverOK, FirstRunCovers, SecondRunCovers, VerdictCovers
  <1>2. CASE Report
    <2>1. pc = "report" /\ pc' = "done" /\ UNCHANGED <<full, diff, result>>
      BY <1>2, Zenon DEF Report, plan
    <2> QED
      BY <2>1 DEF CoverOK, FirstRunCovers, SecondRunCovers, VerdictCovers
  <1>3. CASE Again
    <2>1. pc' = "begin"
      BY <1>3 DEF Again
    <2> QED
      BY <2>1 DEF CoverOK, FirstRunCovers, SecondRunCovers, VerdictCovers
  <1>4. CASE UNCHANGED vars
    BY <1>4 DEF vars, CoverOK, FirstRunCovers, SecondRunCovers, VerdictCovers
  <1> QED
    BY <1>1, <1>2, <1>3, <1>4, BeginCovers, PreexcludeCovers, MavenCovers, MavenFailsCovers, StalledCovers,
       ScopedCovers, PartitionCovers, RerunCovers, RerunFailsCovers, ClassifyCovers DEF Next

\* A pass is about the diff (MavenEnforcementRunner.run with the hanging-test
\* quarantine and _rerun_without_unrelated_failures): whatever was left out of
\* whichever run, and however often Maven was run again, the run a full pass was
\* read from ran every class of the diff and every class that names a source
\* under an obligation, for any suite, modules, diffs, failures and hangs.
THEOREM ThePassCoversTheDiff == Spec => []VerdictCoversDiff
  <1>1. CoverOK => VerdictCoversDiff
    <2> SUFFICES ASSUME CoverOK, Judged, result.status = "passed", full, NEW x \in Classes, diff.known,
                        Module(x) \in Built, Suite[x].standard, Suite[x].argument, ~Ambiguous(x, Classes),
                        x \in diff.tests \/ Suite[x].names \cap result.files # {}
                 PROVE  x \in result.out.ran \/ (result.out.stopped # 0 /\ Module(x) > result.out.stopped)
      BY DEF VerdictCoversDiff
    <2>1. x \in Required(diff, result.files)
      BY DEF Required, Built
    <2>2. x \in AnsweredBy(result.out)
      BY <2>1 DEF CoverOK, VerdictCovers, Judged
    <2> QED
      BY <2>2 DEF AnsweredBy
  <1> QED
    BY CoverStart, CoverKept, TypedInv, <1>1, PTL DEF Spec

-----------------------------------------------------------------------------
(* The checkout of a Java run.                                             *)

\* Files an agent has no business in.
Guarded == {f \in Files : ~AllowedLlmPath(f) /\ f # Notes}

\* A guarded file that an agent left changed was so when the snapshot was
\* taken, and is not taken for a change of the setup.
LeftByAgent(f) == f \in DOMAIN before /\ before[f] = ByAgent /\ f \notin audited

CheckoutOK ==
    /\ DOMAIN head = Files /\ DOMAIN work = Files
    /\ \A f \in Guarded : head[f] = AsHead
    /\ bstep = "baseline" => audited = {}
    /\ bstep \in {"poms", "imports", "audit", "compile", "initialised"} =>
         \A f \in Guarded : work[f] = ByAgent => LeftByAgent(f)
    /\ bstep = "select" => \A f \in Guarded : work[f] = ByAgent => f \notin audited
    /\ bstep \in {"class", "verified"} => \A f \in Guarded : work[f] # ByAgent
    /\ bstep = "turn" => \A f \in Guarded : f \in DOMAIN before => before[f] # ByAgent

LEMMA GuardedFiles == Guarded = {Shim, Source} /\ Guarded \subseteq Files \ (Poms \cup {OldTest, Notes})
  BY DEF Guarded, Files, AllowedLlmPath, IsMavenProjectFile, IsTestArtifact, Poms, Root, Child, OldTest,
         Shim, Notes, Source

LEMMA CheckoutStart == BInit => CheckoutOK
  <1> SUFFICES ASSUME BInit PROVE CheckoutOK
    OBVIOUS
  <1>1. PICK r \in RootPoms, p \in ChildPoms :
             head = [f \in Files |-> CASE f = Root -> r [] f = Child -> p [] OTHER -> AsHead]
    BY DEF BInit
  <1>2. \A f \in Guarded : head[f] = AsHead
    BY <1>1, GuardedFiles DEF Poms
  <1>3. DOMAIN head = Files /\ DOMAIN work = Files
    BY <1>1 DEF BInit
  <1> QED
    BY <1>2, <1>3 DEF BInit, CheckoutOK

\* The tests and build files, and the notes, are written; nothing guarded is.
LEMMA GuardedStays ==
  ASSUME CheckoutOK, NEW f \in Poms, NEW content, Write(f, content)
  PROVE  /\ DOMAIN work' = Files
         /\ \A g \in Guarded : work'[g] = work[g]
         /\ UNCHANGED <<head, before, audited>>
  BY GuardedFiles DEF Write, CheckoutOK, LeaveTask

LEMMA SnapshotOfGuarded ==
  ASSUME CheckoutOK, NEW f \in Guarded
  PROVE  /\ work[f] = ByAgent => f \in Dirty /\ Snapshot[f] = ByAgent
         /\ f \in DOMAIN Snapshot => Snapshot[f] = work[f]
         /\ \A old : work[f] = ByAgent /\ f \in DOMAIN old /\ old[f] = ByAgent => f \notin ChangedSince(old)
  BY GuardedFiles DEF CheckoutOK, Dirty, Snapshot, ChangedSince, ByAgent, AsHead

\* What the setup notes as its own never holds a file an agent left changed.
LEMMA AuditSpares ==
  ASSUME CheckoutOK, \A f \in Guarded : work[f] = ByAgent => LeftByAgent(f)
  PROVE  \A f \in Guarded : work[f] = ByAgent => f \notin Merged(before)
  <1> TAKE f \in Guarded
  <1> HAVE work[f] = ByAgent
  <1>1. LeftByAgent(f)
    OBVIOUS
  <1>2. f \notin ChangedSince(before)
    BY <1>1, SnapshotOfGuarded DEF LeftByAgent
  <1> QED
    BY <1>1, <1>2 DEF Merged, LeftByAgent

LEMMA CheckoutKept == CheckoutOK /\ [BNext]_bvars => CheckoutOK'
  <1> SUFFICES ASSUME CheckoutOK, [BNext]_bvars PROVE CheckoutOK'
    OBVIOUS
  <1> USE DEF At, LeaveTask
  <1>1. CASE SetupBranch
    <2>1. DOMAIN work' = Files
      BY <1>1 DEF SetupBranch, RemovesUntracked, CheckoutOK
    <2> QED
      BY <1>1, <2>1 DEF SetupBranch, CheckoutOK
  <1>2. CASE BeginBaseline
    <2>1. before' = Snapshot /\ bstep' \in {"poms", "imports"} /\ audited = {} /\ UNCHANGED <<head, work, audited>>
      BY <1>2 DEF BeginBaseline, CheckoutOK
    <2>2. \A f \in Guarded : work[f] = ByAgent => LeftByAgent(f)'
      BY <2>1, SnapshotOfGuarded DEF LeftByAgent, Snapshot
    <2> QED
      BY <2>1, <2>2 DEF CheckoutOK
  <1>3. ASSUME NEW f \in Poms, NEW content, Write(f, content), bstep = "poms", bstep' \in {"poms", "imports"}
        PROVE  CheckoutOK'
    <2>1. /\ DOMAIN work' = Files /\ UNCHANGED <<head, before, audited>>
          /\ \A g \in Guarded : work'[g] = work[g]
      BY <1>3, GuardedStays
    <2> QED
      BY <1>3, <2>1 DEF CheckoutOK, LeftByAgent
  <1>4. CASE \E f \in Poms : UpgradeFile(f)
    BY <1>3, <1>4 DEF UpgradeFile
  <1>5. CASE UpgradeRootFile
    BY <1>3, <1>5 DEF UpgradeRootFile, Poms
  <1>6. CASE FixImportsAndPair
    <2>1. DOMAIN work' = Files /\ bstep = "imports" /\ bstep' = "audit" /\ UNCHANGED <<head, before, audited>>
      BY <1>6 DEF FixImportsAndPair
    <2>2. \A f \in Guarded : work'[f] = ByAgent => work[f] = ByAgent
      BY <1>6, GuardedFiles DEF FixImportsAndPair, MakesPair, BySetup, ByAgent, Shim, OldTest, Source, Files
    <2> QED
      BY <2>1, <2>2 DEF CheckoutOK, LeftByAgent
  <1>7. CASE Audit
    <2>1. before' = Snapshot /\ audited' = Merged(before) /\ bstep = "audit" /\ bstep' = "compile" /\ UNCHANGED <<head, work>>
      BY <1>7 DEF Audit
    <2>2. \A f \in Guarded : work[f] = ByAgent => LeftByAgent(f)'
      BY <2>1, SnapshotOfGuarded, AuditSpares DEF LeftByAgent, CheckoutOK, Snapshot
    <2> QED
      BY <2>1, <2>2 DEF CheckoutOK
  <1>8. CASE \E ok, notes \in BOOLEAN : Compile(ok, notes)
    <2>1. /\ bstep = "compile" /\ bstep' \in {"initialised", "failed"} /\ UNCHANGED <<head, before, audited>>
          /\ DOMAIN work' = Files /\ \A f \in Guarded : work'[f] = work[f]
      BY <1>8, GuardedFiles DEF Compile, CheckoutOK
    <2> QED
      BY <2>1 DEF CheckoutOK, LeftByAgent
  <1>9. CASE NoteInitialisation
    <2>1. audited' = Merged(before) /\ bstep = "initialised" /\ bstep' = "select" /\ UNCHANGED <<head, work>>
      BY <1>9 DEF NoteInitialisation
    <2> QED
      BY <2>1, AuditSpares DEF CheckoutOK
  <1>10. CASE SelectBatch
    <2>1. bstep = "select" /\ UNCHANGED <<head, work, before, audited>> /\ bstep' \in {"class", "failed"}
      BY <1>10 DEF SelectBatch
    <2>2. ASSUME bstep' = "class", NEW f \in Guarded, work[f] = ByAgent
          PROVE  FALSE
      <3>1. f \in Dirty
        BY <2>2, SnapshotOfGuarded
      <3>2. f \in audited
        BY <1>10, <2>2, <3>1 DEF SelectBatch, AllowedPreexisting, Guarded
      <3> QED
        BY <2>1, <2>2, <3>2 DEF CheckoutOK
    <2> QED
      BY <2>1, <2>2 DEF CheckoutOK
  <1>11. CASE TurnBegin
    <2>1. bstep = "class" /\ bstep' = "turn" /\ before' = Snapshot /\ UNCHANGED <<head, work, audited>>
      BY <1>11 DEF TurnBegin
    <2>2. \A f \in Guarded : f \in DOMAIN Snapshot => Snapshot[f] # ByAgent
      BY <2>1, SnapshotOfGuarded DEF CheckoutOK
    <2> QED
      BY <2>1, <2>2 DEF CheckoutOK
  <1>12. CASE \E f \in Touched, revert \in BOOLEAN : AgentWrites(f, revert)
    BY <1>12 DEF AgentWrites, CheckoutOK
  <1>13. CASE TurnEnd
    <2>1. bstep = "turn" /\ bstep' \in {"verified", "failed"} /\ UNCHANGED <<head, work, audited>>
      BY <1>13 DEF TurnEnd
    <2>2. ASSUME bstep' = "verified", NEW f \in Guarded, work[f] = ByAgent
          PROVE  FALSE
      <3>1. f \in Dirty
        BY <2>2, SnapshotOfGuarded
      <3>2. f \in ChangedSince(before)
        BY <2>1, <2>2, <3>1 DEF ChangedSince, CheckoutOK
      <3> QED
        BY <1>13, <2>2, <3>2 DEF TurnEnd, Guarded
    <2> QED
      BY <2>1, <2>2 DEF CheckoutOK
  <1>14. CASE NextClass
    BY <1>14 DEF NextClass, CheckoutOK
  <1>15. CASE StartAgain
    BY <1>15 DEF StartAgain, CheckoutOK
  <1>16. CASE UNCHANGED bvars
    BY <1>16 DEF bvars, CheckoutOK, LeftByAgent
  <1> QED
    BY <1>1, <1>2, <1>4, <1>5, <1>6, <1>7, <1>8, <1>9, <1>10, <1>11, <1>12, <1>13, <1>14, <1>15, <1>16 DEF BNext

\* An accepted turn leaves nothing of an agent outside tests and build files
\* (task_guard, workspace_policy), for any build files, starts and edits: not in
\* a file the setup had made dirty, and not what a turn that died had written.
THEOREM OnlyTestsAreAuthored == BSpec => []OnlyTestsAuthored
  <1>1. CheckoutOK => OnlyTestsAuthored
    BY DEF CheckoutOK, OnlyTestsAuthored, Guarded
  <1> QED
    BY CheckoutStart, CheckoutKept, <1>1, PTL DEF BSpec

-----------------------------------------------------------------------------
(* The build files.                                                        *)

\* What no part of the upgrade but that of one file touches.
SameRest(p, q) ==
    /\ p.mprop = q.mprop /\ p.inline = q.inline
    /\ p.props = q.props /\ p.deps = q.deps /\ p.mgmt = q.mgmt
    /\ p.edited = q.edited /\ p.skips = q.skips

LEMMA PomParts ==
  ASSUME NEW p \in PomShape
  PROVE  /\ p.mockito \in Mockitos /\ p.mprop \in {"none", "all", "core", "other"}
         /\ p.bbprop \in {"none", "other", "pin"} /\ p.managed \in Versions
         /\ p.bb \in [count : Nat, version : Versions]
  BY DEF PomShape

LEMMA SameParts ==
  ASSUME NEW p \in PomShape, NEW q \in PomShape, SameRest(p, q),
         p.mockito = q.mockito, p.bbprop = q.bbprop, p.bb = q.bb, p.managed = q.managed
  PROVE  p = q
  BY DEF PomShape, SameRest

\* A build file with one part replaced.
LEMMA MockitoReplaced ==
  ASSUME NEW p \in PomShape, NEW m \in Mockitos
  PROVE  LET q == [p EXCEPT !.mockito = m]
         IN  /\ q \in PomShape /\ SameRest(q, p)
             /\ q.mockito = m /\ q.bbprop = p.bbprop /\ q.bb = p.bb /\ q.managed = p.managed
  BY DEF PomShape, SameRest

LEMMA PropertyReplaced ==
  ASSUME NEW p \in PomShape, NEW b \in {"none", "other", "pin"}
  PROVE  LET q == [p EXCEPT !.bbprop = b]
         IN  /\ q \in PomShape /\ SameRest(q, p)
             /\ q.mockito = p.mockito /\ q.bbprop = b /\ q.bb = p.bb /\ q.managed = p.managed
  BY DEF PomShape, SameRest

LEMMA ManagedReplaced ==
  ASSUME NEW p \in PomShape, NEW g \in Versions
  PROVE  LET q == [p EXCEPT !.managed = g]
         IN  /\ q \in PomShape /\ SameRest(q, p)
             /\ q.mockito = p.mockito /\ q.bbprop = p.bbprop /\ q.bb = p.bb /\ q.managed = g
  BY DEF PomShape, SameRest

LEMMA DirectReplaced ==
  ASSUME NEW p \in PomShape, NEW e \in [count : Nat, version : Versions]
  PROVE  LET q == [p EXCEPT !.bb = e]
         IN  /\ q \in PomShape /\ SameRest(q, p)
             /\ q.mockito = p.mockito /\ q.bbprop = p.bbprop /\ q.bb = e /\ q.managed = p.managed
  BY DEF PomShape, SameRest

\* What the upgrade of one file makes of its parts.
LEMMA UpgradeOfParts ==
  ASSUME NEW p \in PomShape
  PROVE  LET q == UpgradedPom(p)
         IN  /\ q \in PomShape
             /\ q.mockito = UpgradedMockito(p.mockito)
             /\ q.mprop = (IF p.mprop = "all" THEN "core" ELSE p.mprop)
             /\ q.bbprop = UpgradedProperty(p)
             /\ q.inline = FALSE
             /\ q.bb = [count |-> p.bb.count, version |-> PinnedVersion(p.bb.version)]
             /\ q.managed = PinnedVersion(p.managed)
             /\ q.props = p.props /\ q.deps = p.deps /\ q.mgmt = p.mgmt
             /\ q.edited = p.edited /\ q.skips = p.skips
  <1> DEFINE m == UpgradedMockito(p.mockito)
             k == IF p.mprop = "all" THEN "core" ELSE p.mprop
             b == UpgradedProperty(p)
             v == PinnedVersion(p.bb.version)
             e == [count |-> p.bb.count, version |-> v]
             g == PinnedVersion(p.managed)
             q == UpgradedPom(p)
  <1>1. m \in Mockitos
    BY PomParts DEF UpgradedMockito, Mockitos
  <1>2. k \in {"none", "all", "core", "other"}
    BY PomParts
  <1>3. b \in {"none", "other", "pin"}
    BY DEF UpgradedProperty
  <1>4. g \in Versions
    BY PomParts DEF PinnedVersion, Versions
  <1>5. p.bb.count \in Nat /\ p.bb.version \in Versions
    BY PomParts
  <1>6. v \in Versions
    BY <1>5 DEF PinnedVersion, Versions
  <1> HIDE DEF v
  <1>7. e \in [count : Nat, version : Versions]
    BY <1>5, <1>6
  <1>8. q = [p EXCEPT !.mockito = m, !.mprop = k, !.bbprop = b, !.inline = FALSE, !.bb = e, !.managed = g]
    BY DEF UpgradedPom, v
  <1> HIDE DEF m, k, b, e, g, q
  <1>9. /\ q \in PomShape
        /\ q.mockito = m /\ q.mprop = k /\ q.bbprop = b /\ q.inline = FALSE /\ q.bb = e /\ q.managed = g
        /\ q.props = p.props /\ q.deps = p.deps /\ q.mgmt = p.mgmt
        /\ q.edited = p.edited /\ q.skips = p.skips
    BY <1>1, <1>2, <1>3, <1>4, <1>7, <1>8 DEF PomShape
  <1> QED
    BY <1>9 DEF m, k, b, e, g, q, v

LEMMA CoreAdded ==
  ASSUME NEW p \in PomShape
  PROVE  LET q == WithCore(p)
         IN  /\ q \in PomShape /\ SameRest(q, p)
             /\ q.mockito = (IF ~NamesCore(p) /\ p.deps THEN "two" ELSE p.mockito)
             /\ q.bbprop = p.bbprop /\ q.bb = p.bb /\ q.managed = p.managed
  <1>1. CASE ~NamesCore(p) /\ p.deps
    <2>1. WithCore(p) = [p EXCEPT !.mockito = "two"]
      BY <1>1 DEF WithCore
    <2>2. "two" \in Mockitos
      BY DEF Mockitos
    <2>3. LET q == WithCore(p)
          IN  /\ q \in PomShape /\ SameRest(q, p)
              /\ q.mockito = "two" /\ q.bbprop = p.bbprop /\ q.bb = p.bb /\ q.managed = p.managed
      BY <2>1, <2>2, MockitoReplaced
    <2> QED
      BY <1>1, <2>3
  <1>2. CASE ~(~NamesCore(p) /\ p.deps)
    BY <1>2 DEF WithCore, SameRest
  <1> QED
    BY <1>1, <1>2

LEMMA PropertyAdded ==
  ASSUME NEW p \in PomShape
  PROVE  LET q == WithProperty(p)
         IN  /\ q \in PomShape /\ SameRest(q, p)
             /\ q.bbprop = (IF p.bbprop = "none" /\ p.props THEN "pin" ELSE p.bbprop)
             /\ q.mockito = p.mockito /\ q.bb = p.bb /\ q.managed = p.managed
  <1>1. CASE p.bbprop = "none" /\ p.props
    <2>1. WithProperty(p) = [p EXCEPT !.bbprop = "pin"]
      BY <1>1 DEF WithProperty
    <2>2. "pin" \in {"none", "other", "pin"}
      OBVIOUS
    <2>3. LET q == WithProperty(p)
          IN  /\ q \in PomShape /\ SameRest(q, p)
              /\ q.mockito = p.mockito /\ q.bbprop = "pin" /\ q.bb = p.bb /\ q.managed = p.managed
      BY <2>1, <2>2, PropertyReplaced, Zenon
    <2> QED
      BY <1>1, <2>3
  <1>2. CASE ~(p.bbprop = "none" /\ p.props)
    BY <1>2 DEF WithProperty, SameRest
  <1> QED
    BY <1>1, <1>2

LEMMA ManagedAdded ==
  ASSUME NEW p \in PomShape
  PROVE  LET q == WithManaged(p)
         IN  /\ q \in PomShape /\ SameRest(q, p)
             /\ q.managed = (IF p.mgmt /\ p.managed = "none" /\ p.bb.count = 0 THEN "pinned" ELSE p.managed)
             /\ q.mockito = p.mockito /\ q.bb = p.bb /\ q.bbprop = p.bbprop
  <1>1. CASE p.mgmt /\ p.managed = "none" /\ p.bb.count = 0
    <2>1. WithManaged(p) = [p EXCEPT !.managed = "pinned"]
      BY <1>1 DEF WithManaged
    <2>2. "pinned" \in Versions
      BY DEF Versions
    <2>3. LET q == WithManaged(p)
          IN  /\ q \in PomShape /\ SameRest(q, p)
              /\ q.mockito = p.mockito /\ q.bbprop = p.bbprop /\ q.bb = p.bb /\ q.managed = "pinned"
      BY <2>1, <2>2, ManagedReplaced
    <2> QED
      BY <1>1, <2>3
  <1>2. CASE ~(p.mgmt /\ p.managed = "none" /\ p.bb.count = 0)
    BY <1>2 DEF WithManaged, SameRest
  <1> QED
    BY <1>1, <1>2

LEMMA DirectAdded ==
  ASSUME NEW p \in PomShape
  PROVE  LET q == WithDirect(p)
         IN  /\ q \in PomShape /\ SameRest(q, p)
             /\ q.bb = (IF p.deps /\ p.bb.count = 0 THEN [count |-> 1, version |-> "none"] ELSE p.bb)
             /\ q.mockito = p.mockito /\ q.managed = p.managed /\ q.bbprop = p.bbprop
  <1> DEFINE e == [count |-> 1, version |-> "none"]
  <1>0. e \in [count : Nat, version : Versions]
    BY DEF Versions
  <1> HIDE DEF e
  <1>1. CASE p.deps /\ p.bb.count = 0
    <2>1. WithDirect(p) = [p EXCEPT !.bb = e]
      BY <1>1 DEF WithDirect, e
    <2>2. e \in [count : Nat, version : Versions]
      BY <1>0
    <2>3. LET q == WithDirect(p)
          IN  /\ q \in PomShape /\ SameRest(q, p)
              /\ q.mockito = p.mockito /\ q.bbprop = p.bbprop /\ q.bb = e /\ q.managed = p.managed
      BY <2>1, <2>2, DirectReplaced
    <2> QED
      BY <1>1, <2>3 DEF e
  <1>2. CASE ~(p.deps /\ p.bb.count = 0)
    BY <1>2 DEF WithDirect, SameRest
  <1> QED
    BY <1>1, <1>2

\* What the additions to a root file make of its parts.
LEMMA AdditionsToParts ==
  ASSUME NEW p \in PomShape
  PROVE  LET q == UpgradedRoot(p)
             named == NamesCore(p) \/ p.deps
         IN  /\ q \in PomShape /\ SameRest(q, p)
             /\ q.mockito = (IF ~NamesCore(p) /\ p.deps THEN "two" ELSE p.mockito)
             /\ q.bbprop = (IF named /\ p.bbprop = "none" /\ p.props THEN "pin" ELSE p.bbprop)
             /\ q.managed = (IF named /\ p.mgmt /\ p.managed = "none" /\ p.bb.count = 0 THEN "pinned"
                             ELSE p.managed)
             /\ q.bb = (IF named /\ p.deps /\ p.bb.count = 0 THEN [count |-> 1, version |-> "none"] ELSE p.bb)
  <1> DEFINE core == WithCore(p)
             pinned_ == WithProperty(core)
             managed_ == WithManaged(pinned_)
             direct == WithDirect(managed_)
  <1>1. /\ core \in PomShape /\ SameRest(core, p)
        /\ core.mockito = (IF ~NamesCore(p) /\ p.deps THEN "two" ELSE p.mockito)
        /\ core.bbprop = p.bbprop /\ core.managed = p.managed /\ core.bb = p.bb
    BY CoreAdded
  <1>2. UpgradedRoot(p) = IF NamesCore(core) THEN direct ELSE core
    BY DEF UpgradedRoot
  <1> HIDE DEF core
  <1>3. NamesCore(core) <=> NamesCore(p) \/ p.deps
    BY <1>1 DEF NamesCore, SameRest
  <1>4. /\ pinned_ \in PomShape /\ SameRest(pinned_, core)
        /\ pinned_.bbprop = (IF core.bbprop = "none" /\ core.props THEN "pin" ELSE core.bbprop)
        /\ pinned_.mockito = core.mockito /\ pinned_.managed = core.managed /\ pinned_.bb = core.bb
    BY <1>1, PropertyAdded
  <1> HIDE DEF pinned_
  <1>5. /\ managed_ \in PomShape /\ SameRest(managed_, pinned_)
        /\ managed_.managed = (IF pinned_.mgmt /\ pinned_.managed = "none" /\ pinned_.bb.count = 0 THEN "pinned"
                               ELSE pinned_.managed)
        /\ managed_.mockito = pinned_.mockito /\ managed_.bbprop = pinned_.bbprop /\ managed_.bb = pinned_.bb
    BY <1>4, ManagedAdded
  <1> HIDE DEF managed_
  <1>6. /\ direct \in PomShape /\ SameRest(direct, managed_)
        /\ direct.bb = (IF managed_.deps /\ managed_.bb.count = 0 THEN [count |-> 1, version |-> "none"]
                        ELSE managed_.bb)
        /\ direct.mockito = managed_.mockito /\ direct.bbprop = managed_.bbprop
        /\ direct.managed = managed_.managed
    BY <1>5, DirectAdded
  <1> HIDE DEF direct
  <1>7. CASE NamesCore(p) \/ p.deps
    <2>1. UpgradedRoot(p) = direct
      BY <1>2, <1>3, <1>7
    <2>2. SameRest(direct, p) /\ SameRest(pinned_, p) /\ SameRest(managed_, p)
      BY <1>1, <1>4, <1>5, <1>6 DEF SameRest
    <2> QED
      BY <1>1, <1>4, <1>5, <1>6, <1>7, <2>1, <2>2 DEF SameRest
  <1>8. CASE ~(NamesCore(p) \/ p.deps)
    <2>1. UpgradedRoot(p) = core
      BY <1>2, <1>3, <1>8
    <2> QED
      BY <1>1, <1>8, <2>1
  <1> QED
    BY <1>7, <1>8

\* The upgrade of one file is done when it was done once, and that of the root
\* file when both were.
LEMMA UpgradedOnce ==
  ASSUME NEW p \in PomShape
  PROVE  UpgradedPom(UpgradedPom(p)) = UpgradedPom(p)
  <1> DEFINE q == UpgradedPom(p)
             r == UpgradedPom(q)
  <1>1. /\ q \in PomShape
        /\ q.mockito = UpgradedMockito(p.mockito)
        /\ q.mprop = (IF p.mprop = "all" THEN "core" ELSE p.mprop)
        /\ q.bbprop = UpgradedProperty(p) /\ q.inline = FALSE
        /\ q.bb = [count |-> p.bb.count, version |-> PinnedVersion(p.bb.version)] /\ q.managed = PinnedVersion(p.managed)
    BY UpgradeOfParts
  <1> HIDE DEF q
  <1>2. /\ r \in PomShape
        /\ r.mockito = UpgradedMockito(q.mockito)
        /\ r.mprop = (IF q.mprop = "all" THEN "core" ELSE q.mprop)
        /\ r.bbprop = UpgradedProperty(q) /\ r.inline = FALSE
        /\ r.bb = [count |-> q.bb.count, version |-> PinnedVersion(q.bb.version)] /\ r.managed = PinnedVersion(q.managed)
        /\ r.props = q.props /\ r.deps = q.deps /\ r.mgmt = q.mgmt
        /\ r.edited = q.edited /\ r.skips = q.skips
    BY <1>1, UpgradeOfParts
  <1> HIDE DEF r
  <1>3. r.mockito = q.mockito
    BY <1>1, <1>2, Zenon DEF UpgradedMockito
  <1>4. SameRest(r, q)
    BY <1>1, <1>2 DEF SameRest
  <1>5. r.bbprop = q.bbprop
    BY <1>1, <1>2 DEF UpgradedProperty
  <1>6. r.bb = q.bb /\ r.managed = q.managed
    BY <1>1, <1>2 DEF PinnedVersion
  <1>7. r = q
    BY <1>1, <1>2, <1>3, <1>4, <1>5, <1>6, SameParts
  <1> QED
    BY <1>7 DEF r, q

LEMMA RootUpgradedOnce ==
  ASSUME NEW p \in PomShape, UpgradedPom(p) = p
  PROVE  LET q == UpgradedRoot(p) IN UpgradedPom(q) = q /\ UpgradedRoot(q) = q
  <1> DEFINE q == UpgradedRoot(p)
             r == UpgradedPom(q)
             s == UpgradedRoot(q)
             named == NamesCore(p) \/ p.deps
  <1>1. /\ p.mockito = UpgradedMockito(p.mockito)
        /\ p.mprop # "all" /\ p.bbprop = UpgradedProperty(p) /\ p.inline = FALSE
        /\ p.bb = [count |-> p.bb.count, version |-> PinnedVersion(p.bb.version)] /\ p.managed = PinnedVersion(p.managed)
    <2> DEFINE u == UpgradedPom(p)
    <2>1. /\ u.mockito = UpgradedMockito(p.mockito)
          /\ u.mprop = (IF p.mprop = "all" THEN "core" ELSE p.mprop)
          /\ u.bbprop = UpgradedProperty(p) /\ u.inline = FALSE
          /\ u.bb = [count |-> p.bb.count, version |-> PinnedVersion(p.bb.version)] /\ u.managed = PinnedVersion(p.managed)
      BY UpgradeOfParts
    <2>2. u = p
      OBVIOUS
    <2> HIDE DEF u
    <2> QED
      BY <2>1, <2>2
  <1>2. /\ q \in PomShape /\ SameRest(q, p)
        /\ q.mockito = (IF ~NamesCore(p) /\ p.deps THEN "two" ELSE p.mockito)
        /\ q.bbprop = (IF named /\ p.bbprop = "none" /\ p.props THEN "pin" ELSE p.bbprop)
        /\ q.managed = (IF named /\ p.mgmt /\ p.managed = "none" /\ p.bb.count = 0 THEN "pinned" ELSE p.managed)
        /\ q.bb = (IF named /\ p.deps /\ p.bb.count = 0 THEN [count |-> 1, version |-> "none"] ELSE p.bb)
    BY AdditionsToParts
  <1>3. p.bb.count \in Nat
    BY PomParts
  <1> HIDE DEF q
  <1>4. r = q
    <2>1. /\ r \in PomShape
          /\ r.mockito = UpgradedMockito(q.mockito)
          /\ r.mprop = (IF q.mprop = "all" THEN "core" ELSE q.mprop)
          /\ r.bbprop = UpgradedProperty(q) /\ r.inline = FALSE
          /\ r.bb = [count |-> q.bb.count, version |-> PinnedVersion(q.bb.version)] /\ r.managed = PinnedVersion(q.managed)
          /\ r.props = q.props /\ r.deps = q.deps /\ r.mgmt = q.mgmt
          /\ r.edited = q.edited /\ r.skips = q.skips
      BY <1>2, UpgradeOfParts
    <2> HIDE DEF r
    <2>2. r.mockito = q.mockito
      BY <1>1, <1>2, <2>1 DEF UpgradedMockito
    <2>3. SameRest(r, q)
      BY <1>1, <1>2, <2>1 DEF SameRest
    <2>4. r.bbprop = q.bbprop
      BY <1>1, <1>2, <2>1 DEF UpgradedProperty, SameRest
    <2>5. r.managed = q.managed
      BY <1>1, <1>2, <2>1 DEF PinnedVersion
    <2>6. r.bb = q.bb
      BY <1>1, <1>2, <2>1 DEF PinnedVersion
    <2> QED
      BY <1>2, <2>1, <2>2, <2>3, <2>4, <2>5, <2>6, SameParts
  <1>5. s = q
    <2>1. /\ s \in PomShape /\ SameRest(s, q)
          /\ s.mockito = (IF ~NamesCore(q) /\ q.deps THEN "two" ELSE q.mockito)
          /\ s.bbprop = (IF (NamesCore(q) \/ q.deps) /\ q.bbprop = "none" /\ q.props THEN "pin" ELSE q.bbprop)
          /\ s.managed = (IF (NamesCore(q) \/ q.deps) /\ q.mgmt /\ q.managed = "none" /\ q.bb.count = 0
                          THEN "pinned" ELSE q.managed)
          /\ s.bb = (IF (NamesCore(q) \/ q.deps) /\ q.deps /\ q.bb.count = 0
                     THEN [count |-> 1, version |-> "none"] ELSE q.bb)
      BY <1>2, AdditionsToParts
    <2> HIDE DEF s
    <2>2. NamesCore(q) <=> named
      BY <1>2 DEF NamesCore, SameRest
    <2>3. s.mockito = q.mockito /\ s.bbprop = q.bbprop
      BY <1>2, <2>1, <2>2 DEF SameRest
    <2>4. q.bb.count = 0 => p.bb.count = 0
      BY <1>2
    <2>5. s.managed = q.managed
      BY <1>2, <2>1, <2>2, <2>4 DEF SameRest
    <2>6. named /\ q.deps => q.bb.count # 0
      BY <1>2 DEF SameRest
    <2>7. s.bb = q.bb
      BY <1>2, <2>1, <2>2, <2>6 DEF SameRest
    <2> QED
      BY <1>2, <2>1, <2>3, <2>5, <2>7, SameParts
  <1> QED
    BY <1>4, <1>5 DEF q, r, s

\* Neither part of the upgrade looks at what an agent or the relaxation of
\* skipTests changes.
LEMMA SameBuildIsSameParts ==
  ASSUME NEW p \in PomShape, NEW q \in PomShape
  PROVE  SameBuild(p, q) <=>
           /\ p.mockito = q.mockito /\ p.mprop = q.mprop /\ p.bbprop = q.bbprop /\ p.inline = q.inline
           /\ p.bb = q.bb /\ p.managed = q.managed /\ p.props = q.props /\ p.deps = q.deps /\ p.mgmt = q.mgmt
  <1> DEFINE r == [p EXCEPT !.edited = q.edited, !.skips = q.skips]
  <1>1. /\ r \in PomShape /\ r.mockito = p.mockito /\ r.mprop = p.mprop /\ r.bbprop = p.bbprop
        /\ r.inline = p.inline /\ r.bb = p.bb /\ r.managed = p.managed /\ r.props = p.props /\ r.deps = p.deps
        /\ r.mgmt = p.mgmt /\ r.edited = q.edited /\ r.skips = q.skips
    <2>1. q.edited \in BOOLEAN /\ q.skips \in BOOLEAN
      BY DEF PomShape
    <2> QED
      BY <2>1 DEF PomShape
  <1>2. SameBuild(p, q) <=> r = q
    BY DEF SameBuild
  <1> HIDE DEF r
  <1>3. (/\ p.mockito = q.mockito /\ p.mprop = q.mprop /\ p.bbprop = q.bbprop /\ p.inline = q.inline
         /\ p.bb = q.bb /\ p.managed = q.managed /\ p.props = q.props /\ p.deps = q.deps /\ p.mgmt = q.mgmt)
        => SameRest(r, q)
    BY <1>1 DEF SameRest
  <1> QED
    BY <1>1, <1>2, <1>3, SameParts

LEMMA EditsDoNotMatter ==
  ASSUME NEW p \in PomShape, NEW q \in PomShape, SameBuild(p, q)
  PROVE  SameBuild(UpgradedPom(p), UpgradedPom(q)) /\ SameBuild(UpgradedRoot(p), UpgradedRoot(q))
  <1>1. /\ p.mockito = q.mockito /\ p.mprop = q.mprop /\ p.bbprop = q.bbprop /\ p.inline = q.inline
        /\ p.bb = q.bb /\ p.managed = q.managed /\ p.props = q.props /\ p.deps = q.deps /\ p.mgmt = q.mgmt
    BY SameBuildIsSameParts
  <1>2. UpgradedProperty(p) = UpgradedProperty(q) /\ (NamesCore(p) <=> NamesCore(q))
    BY <1>1 DEF UpgradedProperty, NamesCore
  <1>3. SameBuild(UpgradedPom(p), UpgradedPom(q))
    <2> DEFINE u == UpgradedPom(p)
               v == UpgradedPom(q)
    <2>1. u \in PomShape /\ v \in PomShape
      BY UpgradeOfParts
    <2>2. /\ u.mockito = UpgradedMockito(p.mockito)
          /\ u.mprop = (IF p.mprop = "all" THEN "core" ELSE p.mprop)
          /\ u.bbprop = UpgradedProperty(p) /\ u.inline = FALSE
          /\ u.bb = [count |-> p.bb.count, version |-> PinnedVersion(p.bb.version)] /\ u.managed = PinnedVersion(p.managed)
          /\ u.props = p.props /\ u.deps = p.deps /\ u.mgmt = p.mgmt
      BY UpgradeOfParts
    <2>3. /\ v.mockito = UpgradedMockito(q.mockito)
          /\ v.mprop = (IF q.mprop = "all" THEN "core" ELSE q.mprop)
          /\ v.bbprop = UpgradedProperty(q) /\ v.inline = FALSE
          /\ v.bb = [count |-> q.bb.count, version |-> PinnedVersion(q.bb.version)] /\ v.managed = PinnedVersion(q.managed)
          /\ v.props = q.props /\ v.deps = q.deps /\ v.mgmt = q.mgmt
      BY UpgradeOfParts
    <2> HIDE DEF u, v
    <2>4. /\ u.mockito = v.mockito /\ u.mprop = v.mprop /\ u.bbprop = v.bbprop /\ u.inline = v.inline
          /\ u.bb = v.bb /\ u.managed = v.managed /\ u.props = v.props /\ u.deps = v.deps /\ u.mgmt = v.mgmt
      BY <1>1, <1>2, <2>2, <2>3
    <2>5. SameBuild(u, v)
      BY <2>1, <2>4, SameBuildIsSameParts
    <2> QED
      BY <2>5 DEF u, v
  <1>4. SameBuild(UpgradedRoot(p), UpgradedRoot(q))
    <2> DEFINE u == UpgradedRoot(p)
               v == UpgradedRoot(q)
    <2>1. u \in PomShape /\ v \in PomShape
      BY AdditionsToParts
    <2>2. SameRest(u, p) /\ SameRest(v, q)
      BY AdditionsToParts
    <2>3. u.mockito = v.mockito /\ u.bbprop = v.bbprop /\ u.bb = v.bb /\ u.managed = v.managed
      BY <1>1, <1>2, AdditionsToParts
    <2> HIDE DEF u, v
    <2>4. SameBuild(u, v)
      BY <1>1, <2>1, <2>2, <2>3, SameBuildIsSameParts DEF SameRest
    <2> QED
      BY <2>4 DEF u, v
  <1> QED
    BY <1>3, <1>4

LEMMA SameAsTheSame ==
  ASSUME NEW p \in PomShape, NEW q \in PomShape, NEW r \in PomShape, SameBuild(p, q)
  PROVE  SameBuild(q, r) => SameBuild(p, r)
  BY SameBuildIsSameParts

LEMMA SameAsItself ==
  ASSUME NEW p \in PomShape
  PROVE  SameBuild(p, p)
  BY SameBuildIsSameParts

\* What a root file is when both parts of the upgrade are done.
UpgradedWhole(p) == UpgradedRoot(UpgradedPom(p))

LEMMA WholeUpgrade ==
  ASSUME NEW p \in PomShape
  PROVE  /\ UpgradedPom(p) \in PomShape /\ UpgradedWhole(p) \in PomShape
         /\ UpgradedWhole(UpgradedPom(p)) = UpgradedWhole(p)
         /\ UpgradedPom(p) = p => UpgradedRoot(p) = UpgradedWhole(p)
         /\ UpgradedPom(p) = p => UpgradedWhole(UpgradedRoot(p)) = UpgradedWhole(p)
  <1>1. UpgradedPom(p) \in PomShape
    BY UpgradeOfParts
  <1>2. UpgradedWhole(p) \in PomShape
    BY <1>1, AdditionsToParts DEF UpgradedWhole
  <1>3. UpgradedWhole(UpgradedPom(p)) = UpgradedWhole(p)
    BY UpgradedOnce DEF UpgradedWhole
  <1>4. UpgradedPom(p) = p => UpgradedRoot(p) = UpgradedWhole(p)
    BY DEF UpgradedWhole
  <1>5. ASSUME UpgradedPom(p) = p PROVE UpgradedWhole(UpgradedRoot(p)) = UpgradedWhole(p)
    <2>1. UpgradedPom(UpgradedRoot(p)) = UpgradedRoot(p) /\ UpgradedRoot(UpgradedRoot(p)) = UpgradedRoot(p)
      BY <1>5, RootUpgradedOnce
    <2> QED
      BY <1>5, <2>1 DEF UpgradedWhole
  <1> QED
    BY <1>1, <1>2, <1>3, <1>4, <1>5

\* The invariant: finished, the upgrade of a build file of the checkout is that
\* of the branch's, wherever the process died; and a file the upgrade has come
\* to stays as it is if the upgrade comes to it again.
BuildsOK ==
    /\ DOMAIN head = Files /\ DOMAIN work = Files
    /\ \A f \in Poms : head[f] \in PomShape /\ work[f] \in PomShape
    /\ SameBuild(UpgradedWhole(work[Root]), UpgradedWhole(head[Root]))
    /\ SameBuild(UpgradedPom(work[Child]), UpgradedPom(head[Child]))
    /\ bstep = "poms" => \A f \in Poms \ todo : UpgradedPom(work[f]) = work[f]
    /\ UpgradeConverges

LEMMA BuildFiles == Root \in Poms /\ Child \in Poms /\ Poms \subseteq Files /\ Root # Child
                    /\ \A f \in Poms : f # OldTest /\ f # Shim /\ f # Notes /\ f # Source
  BY DEF Poms, Root, Child, Files, OldTest, Shim, Notes, Source

LEMMA BuildsStart == BInit => BuildsOK
  <1> SUFFICES ASSUME BInit PROVE BuildsOK
    OBVIOUS
  <1>1. PICK r \in RootPoms, p \in ChildPoms :
             head = [f \in Files |-> CASE f = Root -> r [] f = Child -> p [] OTHER -> AsHead]
    BY DEF BInit
  <1>2. r \in PomShape /\ p \in PomShape
    BY PomAssumption
  <1>3. DOMAIN head = Files /\ DOMAIN work = Files
    BY <1>1 DEF BInit
  <1>4. head[Root] = r /\ head[Child] = p
    BY <1>1, BuildFiles
  <1>5. work[Root] = head[Root] /\ work[Child] = head[Child]
    BY <1>1, BuildFiles DEF BInit
  <1>6. \A f \in Poms : head[f] \in PomShape /\ work[f] \in PomShape
    BY <1>2, <1>4, <1>5 DEF Poms
  <1>7. /\ SameBuild(UpgradedWhole(work[Root]), UpgradedWhole(head[Root]))
        /\ SameBuild(UpgradedPom(work[Child]), UpgradedPom(head[Child]))
    BY <1>2, <1>4, <1>5, WholeUpgrade, SameAsItself
  <1>8. bstep = "out"
    BY DEF BInit
  <1> QED
    BY <1>3, <1>6, <1>7, <1>8 DEF BuildsOK, UpgradeConverges

\* Nothing but the poms and the step decides.
LEMMA BuildsStay ==
  ASSUME BuildsOK, DOMAIN work' = Files, head' = head, work'[Root] = work[Root], work'[Child] = work[Child],
         bstep' \notin {"poms", "imports"}
  PROVE  BuildsOK'
  BY DEF BuildsOK, UpgradeConverges, Poms

\* Files an upgrade of their own is that of what was there before.
LEMMA BuildsReplaced ==
  ASSUME BuildsOK, head' = head, DOMAIN work' = Files,
         \A f \in Poms : work'[f] \in PomShape /\ SameBuild(work'[f], work[f]),
         bstep' \notin {"poms", "imports"}
  PROVE  BuildsOK'
  <1>1. head[Root] \in PomShape /\ work[Root] \in PomShape /\ work'[Root] \in PomShape
    BY BuildFiles DEF BuildsOK
  <1>2. head[Child] \in PomShape /\ work[Child] \in PomShape /\ work'[Child] \in PomShape
    BY BuildFiles DEF BuildsOK
  <1>3. SameBuild(UpgradedWhole(work'[Root]), UpgradedWhole(work[Root]))
    <2>1. SameBuild(UpgradedPom(work'[Root]), UpgradedPom(work[Root]))
      BY <1>1, BuildFiles, EditsDoNotMatter
    <2> QED
      BY <1>1, <2>1, EditsDoNotMatter, WholeUpgrade DEF UpgradedWhole
  <1>4. SameBuild(UpgradedPom(work'[Child]), UpgradedPom(work[Child]))
    BY <1>2, BuildFiles, EditsDoNotMatter
  <1>5. SameBuild(UpgradedWhole(work'[Root]), UpgradedWhole(head[Root]))
    BY <1>1, <1>3, SameAsTheSame, WholeUpgrade DEF BuildsOK
  <1>6. SameBuild(UpgradedPom(work'[Child]), UpgradedPom(head[Child]))
    BY <1>2, <1>4, SameAsTheSame, WholeUpgrade DEF BuildsOK
  <1> QED
    BY <1>5, <1>6 DEF BuildsOK, UpgradeConverges

LEMMA BuildsKept == BuildsOK /\ [BNext]_bvars => BuildsOK'
  <1> SUFFICES ASSUME BuildsOK, [BNext]_bvars PROVE BuildsOK'
    OBVIOUS
  <1> USE DEF At, LeaveTask
  <1>0. /\ head[Root] \in PomShape /\ work[Root] \in PomShape
        /\ head[Child] \in PomShape /\ work[Child] \in PomShape
    BY BuildFiles DEF BuildsOK
  <1>1. CASE SetupBranch
    <2>1. CASE preserve
      BY <1>1, <2>1, BuildsStay DEF SetupBranch, BuildsOK
    <2>2. CASE ~preserve
      <3>1. work' = head /\ head' = head /\ bstep' = "baseline"
        BY <1>1, <2>2 DEF SetupBranch, RemovesUntracked
      <3>2. /\ SameBuild(UpgradedWhole(work'[Root]), UpgradedWhole(head[Root]))
            /\ SameBuild(UpgradedPom(work'[Child]), UpgradedPom(head[Child]))
        BY <1>0, <3>1, WholeUpgrade, SameAsItself
      <3> QED
        BY <3>1, <3>2 DEF BuildsOK, UpgradeConverges
    <2> QED
      BY <2>1, <2>2
  <1>2. CASE BeginBaseline
    <2>1. /\ head' = head /\ work' = work /\ todo' = Poms /\ ci' = ci
          /\ bstep' = (IF ci THEN "imports" ELSE "poms")
      BY <1>2 DEF BeginBaseline
    <2> QED
      BY <2>1 DEF BuildsOK, UpgradeConverges
  <1>3. CASE \E f \in Poms : UpgradeFile(f)
    <2>1. PICK f \in Poms : UpgradeFile(f)
      BY <1>3
    <2>2. /\ bstep = "poms" /\ bstep' = "poms" /\ head' = head /\ todo' = todo \ {f} /\ ci' = ci
          /\ work' = [work EXCEPT ![f] = UpgradedPom(work[f])]
      BY <2>1 DEF UpgradeFile, Write
    <2>3. DOMAIN work' = Files /\ \A g \in Poms : work'[g] = IF g = f THEN UpgradedPom(work[f]) ELSE work[g]
      BY <2>2, BuildFiles DEF BuildsOK
    <2>4. \A g \in Poms : work[g] \in PomShape /\ work'[g] \in PomShape
      BY <2>3, WholeUpgrade DEF BuildsOK
    <2>5. \A g \in Poms \ todo' : UpgradedPom(work'[g]) = work'[g]
      BY <2>2, <2>3, <2>4, UpgradedOnce DEF BuildsOK
    <2>6. UpgradedWhole(work'[Root]) = UpgradedWhole(work[Root])
      BY <2>3, <2>4, BuildFiles, WholeUpgrade
    <2>7. UpgradedPom(work'[Child]) = UpgradedPom(work[Child])
      BY <2>3, <2>4, BuildFiles, UpgradedOnce
    <2> QED
      BY <2>2, <2>3, <2>4, <2>5, <2>6, <2>7 DEF BuildsOK, UpgradeConverges
  <1>4. CASE UpgradeRootFile
    <2>1. /\ bstep = "poms" /\ todo = {} /\ bstep' = "imports" /\ head' = head
          /\ work' = [work EXCEPT ![Root] = UpgradedRoot(work[Root])]
      BY <1>4 DEF UpgradeRootFile, Write
    <2>2. UpgradedPom(work[Root]) = work[Root] /\ UpgradedPom(work[Child]) = work[Child]
      BY <2>1, BuildFiles DEF BuildsOK
    <2>3. work'[Root] = UpgradedWhole(work[Root]) /\ work'[Child] = work[Child] /\ DOMAIN work' = Files
      BY <1>0, <2>1, <2>2, BuildFiles, WholeUpgrade DEF BuildsOK
    <2>4. work'[Root] \in PomShape /\ UpgradedWhole(work'[Root]) = UpgradedWhole(work[Root])
      BY <1>0, <2>2, <2>3, WholeUpgrade DEF UpgradedWhole
    <2>5. \A f \in Poms : work'[f] \in PomShape
      BY <1>0, <2>3, <2>4 DEF Poms
    <2>6. UpgradeConverges'
      BY <2>1, <2>2, <2>3 DEF BuildsOK, UpgradeConverges, UpgradedWhole
    <2> QED
      BY <2>1, <2>3, <2>4, <2>5, <2>6 DEF BuildsOK
  <1>5. CASE FixImportsAndPair
    <2>1. head' = head /\ bstep' = "audit" /\ DOMAIN work' = Files
      BY <1>5 DEF FixImportsAndPair
    <2>2. ASSUME NEW f \in Poms PROVE work'[f] \in PomShape /\ SameBuild(work'[f], work[f])
      <3>1. work'[f] = Relaxed(work[f]) /\ work[f] \in PomShape
        BY <1>5, BuildFiles DEF FixImportsAndPair, BuildsOK
      <3>2. \A p \in PomShape : Relaxed(p) \in PomShape
        BY DEF Relaxed, PomShape
      <3>3. \A p \in PomShape : SameBuild(Relaxed(p), p)
        <4> TAKE p \in PomShape
        <4> DEFINE r == Relaxed(p)
        <4>1. r \in PomShape
          BY <3>2
        <4>2. /\ r.mockito = p.mockito /\ r.mprop = p.mprop /\ r.bbprop = p.bbprop /\ r.inline = p.inline
              /\ r.bb = p.bb /\ r.managed = p.managed /\ r.props = p.props /\ r.deps = p.deps /\ r.mgmt = p.mgmt
          BY DEF Relaxed, PomShape
        <4> HIDE DEF r
        <4>3. SameBuild(r, p)
          BY <4>1, <4>2, SameBuildIsSameParts
        <4> QED
          BY <4>3 DEF r
      <3> QED
        BY <3>1, <3>2, <3>3
    <2> QED
      BY <2>1, <2>2, BuildsReplaced
  <1>6. CASE Audit \/ NoteInitialisation \/ SelectBatch \/ TurnBegin \/ TurnEnd \/ NextClass \/ StartAgain
    <2>1. head' = head /\ work' = work /\ bstep' \notin {"poms", "imports"}
      BY <1>6 DEF Audit, NoteInitialisation, SelectBatch, TurnBegin, TurnEnd, NextClass, StartAgain
    <2> QED
      BY <2>1, BuildsStay DEF BuildsOK
  <1>7. CASE \E ok, notes \in BOOLEAN : Compile(ok, notes)
    <2>1. /\ head' = head /\ bstep' \in {"initialised", "failed"}
          /\ work' = work \/ work' = [work EXCEPT ![Notes] = BySetup]
      BY <1>7 DEF Compile
    <2>2. DOMAIN work' = Files /\ work'[Root] = work[Root] /\ work'[Child] = work[Child]
      BY <2>1, BuildFiles DEF BuildsOK
    <2> QED
      BY <2>1, <2>2, BuildsStay
  <1>8. CASE \E f \in Touched, revert \in BOOLEAN : AgentWrites(f, revert)
    <2>1. PICK f \in Touched, revert \in BOOLEAN : AgentWrites(f, revert)
      BY <1>8
    <2>2. /\ head' = head /\ bstep' = "turn" /\ DOMAIN work' = Files
          /\ \A g \in Files \ {f} : work'[g] = work[g]
      BY <2>1 DEF AgentWrites, BuildsOK
    <2>3. CASE f \notin Poms
      BY <2>2, <2>3, BuildFiles, BuildsStay DEF BuildsOK
    <2>4. CASE f \in Poms /\ ~revert
      <3>1. work'[f] = [work[f] EXCEPT !.edited = TRUE]
        BY <2>1, <2>4, BuildFiles DEF AgentWrites, BuildsOK
      <3>2. \A p \in PomShape : [p EXCEPT !.edited = TRUE] \in PomShape /\ SameBuild([p EXCEPT !.edited = TRUE], p)
        <4> TAKE p \in PomShape
        <4> DEFINE r == [p EXCEPT !.edited = TRUE]
        <4>1. r \in PomShape
          BY DEF PomShape
        <4>2. /\ r.mockito = p.mockito /\ r.mprop = p.mprop /\ r.bbprop = p.bbprop /\ r.inline = p.inline
              /\ r.bb = p.bb /\ r.managed = p.managed /\ r.props = p.props /\ r.deps = p.deps /\ r.mgmt = p.mgmt
          BY DEF PomShape
        <4> HIDE DEF r
        <4>3. SameBuild(r, p)
          BY <4>1, <4>2, SameBuildIsSameParts
        <4> QED
          BY <4>1, <4>3 DEF r
      <3>3. \A g \in Poms : work[g] \in PomShape
        BY DEF BuildsOK
      <3>4. \A g \in Poms : work'[g] \in PomShape /\ SameBuild(work'[g], work[g])
        BY <2>2, <3>1, <3>2, <3>3, BuildFiles, SameAsItself
      <3> QED
        BY <2>2, <3>4, BuildsReplaced
    <2>5. CASE f \in Poms /\ revert
      <3>1. work'[f] = head[f]
        BY <2>1, <2>5, BuildFiles DEF AgentWrites, BuildsOK
      <3>2. \A g \in Poms : work'[g] \in PomShape
        BY <2>2, <3>1, BuildFiles DEF BuildsOK
      <3>3. /\ SameBuild(UpgradedWhole(work'[Root]), UpgradedWhole(head[Root]))
            /\ SameBuild(UpgradedPom(work'[Child]), UpgradedPom(head[Child]))
        BY <1>0, <2>2, <3>1, BuildFiles, WholeUpgrade, SameAsItself DEF BuildsOK
      <3> QED
        BY <2>2, <3>2, <3>3 DEF BuildsOK, UpgradeConverges
    <2> QED
      BY <2>3, <2>4, <2>5
  <1>9. CASE UNCHANGED bvars
    BY <1>9 DEF bvars, BuildsOK, UpgradeConverges
  <1> QED
    BY <1>1, <1>2, <1>3, <1>4, <1>5, <1>6, <1>7, <1>8, <1>9 DEF BNext

\* However often the upgrade of the build files is cut short and begun again
\* (_upgrade_mockito), and whatever an agent edits or reverts in between, the
\* build files end as one undisturbed pass leaves the branch's, for any files.
THEOREM TheUpgradeConverges == BSpec => []UpgradeConverges
  <1>1. BuildsOK => UpgradeConverges
    BY DEF BuildsOK
  <1> QED
    BY BuildsStart, BuildsKept, <1>1, PTL DEF BSpec

-----------------------------------------------------------------------------
(* The Python gate.  What its planner computes, for any file: the library's *)
(* induction takes operators, so counterexamples with a least number stand  *)
(* in for it.                                                              *)

\* A strict order that compares any two.
Ranks(rel, S) ==
    /\ \A x \in S : <<x, x>> \notin rel
    /\ \A x, y \in S : x # y => <<x, y>> \in rel \/ <<y, x>> \in rel
    /\ \A x, y, z \in S : <<x, y>> \in rel /\ <<y, z>> \in rel => <<x, z>> \in rel

\* What is put in order is there, and once: the number of elements before an
\* element gives each its own place.
LEMMA InOrderEnumerates ==
  ASSUME NEW S, IsFiniteSet(S), NEW rel, Ranks(rel, S)
  PROVE  /\ Cardinality(S) \in Nat
         /\ InOrder(S, rel) \in [1..Cardinality(S) -> S]
         /\ \A x \in S : \E i \in 1..Cardinality(S) : InOrder(S, rel)[i] = x
         /\ \A i, j \in 1..Cardinality(S) :
              InOrder(S, rel)[i] = InOrder(S, rel)[j] => i = j
  <1> DEFINE n == Cardinality(S)
             Below(x) == {y \in S : <<y, x>> \in rel}
             place == [x \in S |-> Cardinality(Below(x)) + 1]
  <1>1. n \in Nat
    BY FS_CardinalityType
  <1>2. ASSUME NEW x \in S PROVE IsFiniteSet(Below(x)) /\ Cardinality(Below(x)) \in 0..(n - 1)
    <2>1. IsFiniteSet(S \ {x}) /\ Cardinality(S \ {x}) = n - 1
      BY FS_RemoveElement
    <2>2. Below(x) \in SUBSET (S \ {x})
      BY DEF Ranks
    <2> HIDE DEF Below, n
    <2>3. IsFiniteSet(Below(x)) /\ Cardinality(Below(x)) <= Cardinality(S \ {x})
      BY <2>1, <2>2, FS_Subset
    <2>4. Cardinality(Below(x)) \in Nat
      BY <2>3, FS_CardinalityType
    <2> QED
      BY <1>1, <2>1, <2>3, <2>4
  <1>3. ASSUME NEW x \in S, NEW y \in S, <<x, y>> \in rel
        PROVE  Cardinality(Below(x)) < Cardinality(Below(y))
    <2>1. Below(x) \in SUBSET Below(y)
      BY <1>3 DEF Ranks
    <2>2. x \in Below(y) /\ x \notin Below(x)
      BY <1>3 DEF Ranks
    <2> HIDE DEF Below, n
    <2>4. IsFiniteSet(Below(y)) /\ Cardinality(Below(x)) \in Int /\ Cardinality(Below(y)) \in Int
      BY <1>1, <1>2
    <2>3. Cardinality(Below(x)) <= Cardinality(Below(y))
          /\ Cardinality(Below(y)) # Cardinality(Below(x))
      BY <2>1, <2>2, <2>4, FS_Subset
    <2> QED
      BY <2>3, <2>4
  <1>4. place \in [S -> 1..n]
    <2> HIDE DEF Below, n
    <2> QED
      BY <1>1, <1>2
  <1>5. ASSUME NEW x \in S, NEW y \in S, place[x] = place[y] PROVE x = y
    <2>1. Cardinality(Below(x)) \in Int /\ Cardinality(Below(y)) \in Int
      BY <1>1, <1>2
    <2>2. Cardinality(Below(x)) = Cardinality(Below(y))
      <3> HIDE DEF Below, n
      <3> QED
        BY <1>5, <2>1
    <2>3. <<x, y>> \notin rel /\ <<y, x>> \notin rel
      <3> HIDE DEF Below, n, place
      <3> QED
        BY <1>3, <2>1, <2>2
    <2> QED
      BY <2>3 DEF Ranks
  <1>6. place \in Injection(S, 1..n)
    BY <1>4, <1>5, Fun_IsInj
  <1>7. IsFiniteSet(1..n) /\ Cardinality(1..n) = n
    BY <1>1, FS_Interval
  <1>8. place \in Surjection(S, 1..n)
    BY <1>6, <1>7, FS_Injection
  <1>9. \A i \in 1..n : \E x \in S : place[x] = i
    <2> HIDE DEF place, n
    <2> QED
      BY <1>8, Fun_SurjectionProperties
  <1> DEFINE pick(i) == CHOOSE y \in S : Cardinality(Below(y)) = i - 1
  <1>10. ASSUME NEW i \in 1..n
         PROVE  pick(i) \in S /\ place[pick(i)] = i
    <2>1. PICK x \in S : place[x] = i
      BY <1>9
    <2>2. Cardinality(Below(x)) = i - 1
      BY <1>1, <1>2, <2>1
    <2>3. pick(i) \in S /\ Cardinality(Below(pick(i))) = i - 1
      BY <2>2
    <2> HIDE DEF pick
    <2>4. place[pick(i)] = i
      BY <1>1, <2>3
    <2> QED
      BY <2>3, <2>4
  <1>11. InOrder(S, rel) = [i \in 1..n |-> pick(i)]
    BY DEF InOrder
  <1> HIDE DEF place, pick
  <1>12. ASSUME NEW x \in S PROVE \E i \in 1..n : pick(i) = x
    <2>1. place[x] \in 1..n
      BY <1>4
    <2>2. pick(place[x]) \in S /\ place[pick(place[x])] = place[x]
      BY <1>10, <2>1
    <2>3. pick(place[x]) = x
      BY <1>5, <2>2
    <2> QED
      BY <2>1, <2>3
  <1>13. ASSUME NEW i \in 1..n, NEW j \in 1..n, pick(i) = pick(j)
         PROVE  i = j
    BY <1>10, <1>13
  <1> HIDE DEF n
  <1> QED
    BY <1>1, <1>10, <1>11, <1>12, <1>13 DEF n

\* The n lowest lines of a unit exist.
LEMMA LowestLines ==
  ASSUME NEW T \in SUBSET Nat, IsFiniteSet(T), NEW n \in 0..Cardinality(T)
  PROVE  Lowest(n, T) \in SUBSET T /\ Cardinality(Lowest(n, T)) = n
  <1> DEFINE Low(low, k) == /\ low \in kSubset(k, T)
                            /\ \A x \in low, y \in T \ low : x < y
             card == Cardinality(T)
             bad == {k \in 0..card : ~\E low : Low(low, k)}
  <1>1. card \in Nat
    BY FS_CardinalityType
  <1>2. bad = {}
    <2> SUFFICES ASSUME bad # {} PROVE FALSE
      OBVIOUS
    <2>1. PICK k \in bad : \A d \in bad : k <= d
      <3>1. bad \in SUBSET (0..card)
        OBVIOUS
      <3> HIDE DEF bad
      <3> QED
        BY <1>1, <3>1, LeastUpTo
    <2>2. k \in 0..card /\ ~\E low : Low(low, k)
      BY <2>1
    <2>3. k # 0
      <3>1. {} \in kSubset(0, T)
        BY FS_EmptySet DEF kSubset
      <3>2. Low({}, 0)
        BY <3>1
      <3> QED
        BY <2>2, <3>2
    <2>4. k - 1 \in 0..card /\ k - 1 \notin bad
      BY <1>1, <2>1, <2>2, <2>3
    <2>5. PICK low : Low(low, k - 1)
      BY <2>4
    <2>6. low \in SUBSET T /\ Cardinality(low) = k - 1 /\ IsFiniteSet(low)
      BY <2>5, FS_Subset DEF kSubset
    <2>7. T \ low # {}
      BY <1>1, <2>2, <2>6, FS_Subset
    <2>8. T \ low \in SUBSET Nat /\ IsFiniteSet(T \ low)
      BY FS_Difference
    <2>9. PICK m \in T \ low : \A d \in T \ low : m <= d
      BY <2>7, <2>8, LeastExists
    <2>10. Cardinality(low \cup {m}) = Cardinality(low) + 1
      BY <2>6, <2>9, FS_AddElement
    <2>12. low \cup {m} \in kSubset(k, T)
      BY <1>1, <2>2, <2>6, <2>9, <2>10 DEF kSubset
    <2>11. ASSUME NEW x \in low \cup {m}, NEW y \in T \ (low \cup {m}) PROVE x < y
      BY <2>5, <2>6, <2>9
    <2> QED
      BY <2>2, <2>11, <2>12
  <1>3. \E low : Low(low, n)
    BY <1>2
  <1>4. Lowest(n, T) \in kSubset(n, T)
    BY <1>3 DEF Lowest
  <1> QED
    BY <1>4 DEF kSubset
\* Induction, as a fact about sets of numbers.
LEMMA CountingUp ==
  ASSUME NEW n \in Nat, NEW S, 0 \in S, \A i \in 1..n : i - 1 \in S => i \in S
  PROVE  \A i \in 0..n : i \in S
  <1> DEFINE bad == {i \in 0..n : i \notin S}
  <1>1. bad \in SUBSET (0..n)
    OBVIOUS
  <1>2. ASSUME bad # {} PROVE FALSE
    <2>1. PICK k \in bad : \A d \in bad : k <= d
      <3> HIDE DEF bad
      <3> QED
        BY <1>1, <1>2, LeastUpTo
    <2>2. k \in 1..n
      BY <2>1
    <2>3. k - 1 \in 0..n /\ k - 1 \notin bad
      BY <2>1, <2>2
    <2> QED
      BY <2>1, <2>2, <2>3
  <1> QED
    BY <1>2

\* f lists what the functions next make of start, one after another.
Iterates(n, X, start, next, f) ==
    /\ f \in [0..n -> X] /\ f[0] = start
    /\ \A i \in 1..n : f[i] = next[i][f[i - 1]]

\* There is such a list: a recursive definition along a sequence has a value.
LEMMA Recursion ==
  ASSUME NEW n \in Nat, NEW X, NEW start \in X, NEW next,
         \A i \in 1..n, x \in X : next[i][x] \in X
  PROVE  \E f : Iterates(n, X, start, next, f)
  <1> USE DEF Iterates
  <1> DEFINE Solves(m, f) == Iterates(m, X, start, next, f)
             S == {m \in 0..n : \E f : Solves(m, f)}
  <1>1. 0 \in S
    <2> DEFINE f == [i \in 0..0 |-> start]
    <2>1. Solves(0, f)
      OBVIOUS
    <2> HIDE DEF f, Solves
    <2> QED
      BY <2>1
  <1>2. ASSUME NEW m \in 1..n, m - 1 \in S PROVE m \in S
    <2>1. PICK f : Solves(m - 1, f)
      BY <1>2
    <2> DEFINE g == [i \in 0..m |-> IF i = m THEN next[m][f[m - 1]] ELSE f[i]]
    <2>2. f[m - 1] \in X
      BY <2>1
    <2>3. g \in [0..m -> X]
      BY <2>1, <2>2
    <2>4. g[0] = start
      BY <2>1
    <2>5. ASSUME NEW i \in 1..m PROVE g[i] = next[i][g[i - 1]]
      BY <2>1
    <2> HIDE DEF g
    <2>6. Solves(m, g)
      BY <2>3, <2>4, <2>5
    <2> QED
      BY <2>6
  <1> HIDE DEF S
  <1>3. \A m \in 0..n : m \in S
    BY <1>1, <1>2, CountingUp
  <1>4. n \in S
    BY <1>3
  <1> QED
    BY <1>4 DEF S

-----------------------------------------------------------------------------
(* The lines of a unit that fit, and the bins they are put in.             *)

UnitFits(u) ==
    u.bytes \in Nat /\ u.lines \in SUBSET Nat /\ IsFiniteSet(u.lines) /\ u.lines # {}

LEMMA MaxOfTwo ==
  ASSUME NEW a \in Int
  PROVE  Max({1, a}) = IF a > 1 THEN a ELSE 1
  <1>1. \E x \in {1, a} : \A y \in {1, a} : x >= y
    OBVIOUS
  <1> DEFINE m == Max({1, a})
  <1>2. m \in {1, a} /\ \A y \in {1, a} : m >= y
    BY <1>1 DEF Max
  <1> HIDE DEF m
  <1>3. m = IF a > 1 THEN a ELSE 1
    BY <1>2
  <1> QED
    BY <1>3 DEF m

LEMMA SomeLinesFit ==
  ASSUME NEW u, UnitFits(u)
  PROVE  FittingLines(u) \in SUBSET u.lines /\ FittingLines(u) # {}
  <1> DEFINE fit == Budget \div u.bytes - 1
             n == Cardinality(u.lines)
  <1>1. n \in Nat /\ n # 0
    BY FS_CardinalityType, FS_EmptySet DEF UnitFits
  <1>2. CASE u.bytes > 0 /\ Budget > 0 /\ fit < n
    <2>1. fit \in Int
      BY <1>2, PlanAssumption DEF UnitFits
    <2> HIDE DEF fit, n
    <2>2. Max({1, fit}) \in 1..n
      BY <1>1, <1>2, <2>1, MaxOfTwo
    <2>3. Lowest(Max({1, fit}), u.lines) \in SUBSET u.lines
          /\ Cardinality(Lowest(Max({1, fit}), u.lines)) = Max({1, fit})
      BY <2>2, <1>1, LowestLines DEF UnitFits, n
    <2>4. Lowest(Max({1, fit}), u.lines) # {}
      <3>1. Max({1, fit}) # 0
        BY <1>1, <2>2
      <3> QED
        BY <2>3, <3>1, FS_EmptySet
    <2>5. FittingLines(u) = Lowest(Max({1, fit}), u.lines)
      BY <1>2 DEF FittingLines, fit, n
    <2> QED
      BY <2>3, <2>4, <2>5
  <1>3. CASE ~(u.bytes > 0 /\ Budget > 0 /\ fit < n)
    BY <1>3 DEF FittingLines, UnitFits
  <1> QED
    BY <1>2, <1>3

Bins == [used : Int, lines : SUBSET Nat]
Packings == [bins : Seq(Bins), capped : SUBSET Nat, trimmed : SUBSET Nat]

\* The bins share no line and none is empty; with what was left out they make
\* up the lines L.
Sound(p, L) ==
    /\ p \in Packings
    /\ \A i \in DOMAIN p.bins : p.bins[i].lines # {}
    /\ \A i, j \in DOMAIN p.bins : i # j => p.bins[i].lines \cap p.bins[j].lines = {}
    /\ \A x : x \in L <=> \/ x \in p.capped \/ x \in p.trimmed
                          \/ \E i \in DOMAIN p.bins : x \in p.bins[i].lines

LEMMA PlaceCases ==
  ASSUME NEW p \in Packings, NEW u, UnitFits(u)
  PROVE  LET fits == FittingLines(u)
             cut == p.capped \cup (u.lines \ fits)
             q == Place(p, u)
         IN  /\ q \in Packings /\ q.capped = cut
             /\ \/ /\ q.trimmed = p.trimmed
                   /\ \E i \in DOMAIN p.bins :
                        /\ DOMAIN q.bins = DOMAIN p.bins
                        /\ q.bins[i].lines = p.bins[i].lines \cup fits
                        /\ \A j \in DOMAIN p.bins : j # i => q.bins[j] = p.bins[j]
                \/ /\ q.trimmed = p.trimmed
                   /\ \E bin \in Bins : bin.lines = fits /\ q.bins = Append(p.bins, bin)
                \/ q.trimmed = p.trimmed \cup fits /\ q.bins = p.bins
  <1> DEFINE fits == FittingLines(u)
             est == GeneratedBytes(u.bytes, Cardinality(fits))
             roomy(bin) == est <= Budget /\ bin.used + est <= Budget
             I == {j \in 1..Len(p.bins) : roomy(p.bins[j])}
             i == IF I # {} THEN Min(I) ELSE 0
             cut == p.capped \cup (u.lines \ fits)
             q == Place(p, u)
  <1>1. fits \in SUBSET u.lines /\ u.lines \in SUBSET Nat /\ IsFiniteSet(u.lines)
    BY SomeLinesFit DEF UnitFits
  <1>2. Cardinality(fits) \in Nat
    BY <1>1, FS_Subset, FS_CardinalityType
  <1>3. est \in Int
    <2> HIDE DEF fits
    <2> QED
      BY <1>2 DEF GeneratedBytes, UnitFits
  <1>4. cut \in SUBSET Nat /\ p.bins \in Seq(Bins) /\ p.trimmed \in SUBSET Nat /\ p.capped \in SUBSET Nat
    BY <1>1 DEF Packings
  <1>5. i \in 0..Len(p.bins)
    <2>1. I \in SUBSET (1..Len(p.bins)) /\ Len(p.bins) \in Nat
      BY <1>4
    <2>2. I # {} => Min(I) \in I
      <3>1. I \in SUBSET (0..Len(p.bins))
        BY <2>1
      <3> HIDE DEF I
      <3> QED
        BY <2>1, <3>1, LeastUpTo DEF Min
    <2>3. I # {} => Min(I) \in 1..Len(p.bins)
      <3> HIDE DEF I
      <3> QED
        BY <2>1, <2>2
    <2> DEFINE n == Len(p.bins)
               least == Min(I)
    <2> HIDE DEF I, n, least
    <2>4. i \in 0..n
      BY <2>1, <2>3 DEF n, least
    <2> QED
      BY <2>4 DEF n
  <1>6. q = IF i # 0
            THEN [p EXCEPT !.capped = cut, !.bins[i] = [used |-> @.used + est, lines |-> @.lines \cup fits]]
            ELSE IF Len(p.bins) < Max({1, MaxBatches})
            THEN [p EXCEPT !.capped = cut, !.bins = Append(@, [used |-> est, lines |-> fits])]
            ELSE [p EXCEPT !.capped = cut, !.trimmed = @ \cup fits]
    BY DEF Place, SelectInSeq
  <1> HIDE DEF fits, est, i, I, cut, q
  <1>7. p = [bins |-> p.bins, capped |-> p.capped, trimmed |-> p.trimmed]
    BY DEF Packings
  <1>8. CASE i # 0
    <2>1. i \in DOMAIN p.bins /\ p.bins[i] \in Bins
      BY <1>4, <1>5, <1>8
    <2> DEFINE bin == [used |-> p.bins[i].used + est, lines |-> p.bins[i].lines \cup fits]
    <2>2. q = [bins |-> [p.bins EXCEPT ![i] = bin], capped |-> cut, trimmed |-> p.trimmed]
      BY <1>6, <1>7, <1>8, <2>1 DEF Bins
    <2>3. bin \in Bins
      BY <1>1, <1>3, <2>1 DEF Bins
    <2>4. bin.lines = p.bins[i].lines \cup fits
      OBVIOUS
    <2> HIDE DEF bin
    <2>5. [p.bins EXCEPT ![i] = bin] \in Seq(Bins) /\ DOMAIN [p.bins EXCEPT ![i] = bin] = DOMAIN p.bins
      BY <1>4, <2>1, <2>3
    <2>6. q \in Packings /\ q.capped = cut /\ q.trimmed = p.trimmed /\ q.bins = [p.bins EXCEPT ![i] = bin]
      BY <1>4, <2>2, <2>5 DEF Packings
    <2>7. /\ DOMAIN q.bins = DOMAIN p.bins
          /\ q.bins[i].lines = p.bins[i].lines \cup fits
          /\ \A j \in DOMAIN p.bins : j # i => q.bins[j] = p.bins[j]
      BY <2>1, <2>4, <2>5, <2>6
    <2> QED
      BY <2>1, <2>6, <2>7 DEF cut, fits, q
  <1>9. CASE i = 0 /\ Len(p.bins) < Max({1, MaxBatches})
    <2> DEFINE bin == [used |-> est, lines |-> fits]
    <2>1. bin \in Bins /\ bin.lines = fits
      BY <1>1, <1>3 DEF Bins
    <2>2. q = [bins |-> Append(p.bins, bin), capped |-> cut, trimmed |-> p.trimmed]
      BY <1>6, <1>7, <1>9
    <2> HIDE DEF bin
    <2>3. Append(p.bins, bin) \in Seq(Bins)
      BY <1>4, <2>1
    <2>4. q \in Packings /\ q.capped = cut /\ q.trimmed = p.trimmed /\ q.bins = Append(p.bins, bin)
      BY <1>4, <2>2, <2>3 DEF Packings
    <2> QED
      BY <2>1, <2>4 DEF cut, fits, q
  <1>10. CASE i = 0 /\ ~(Len(p.bins) < Max({1, MaxBatches}))
    <2>1. q = [bins |-> p.bins, capped |-> cut, trimmed |-> p.trimmed \cup fits]
      BY <1>6, <1>7, <1>10
    <2>2. p.trimmed \cup fits \in SUBSET Nat
      BY <1>1, <1>4
    <2>3. q \in Packings /\ q.capped = cut /\ q.trimmed = p.trimmed \cup fits /\ q.bins = p.bins
      BY <1>4, <2>1, <2>2 DEF Packings
    <2> QED
      BY <2>3 DEF cut, fits, q
  <1> QED
    BY <1>8, <1>9, <1>10

\* A unit of other lines is placed whole: its lines are in a bin or left out.
LEMMA PlaceKeeps ==
  ASSUME NEW L, NEW p, Sound(p, L), NEW u, UnitFits(u), u.lines \cap L = {}
  PROVE  Sound(Place(p, u), L \cup u.lines)
  <1> DEFINE fits == FittingLines(u)
             q == Place(p, u)
  <1>1. fits \in SUBSET u.lines /\ fits # {}
    BY SomeLinesFit
  <1>2. p \in Packings /\ p.bins \in Seq(Bins)
    BY DEF Sound, Packings
  <1>3. /\ q \in Packings /\ q.capped = p.capped \cup (u.lines \ fits)
        /\ \/ /\ q.trimmed = p.trimmed
              /\ \E i \in DOMAIN p.bins :
                   /\ DOMAIN q.bins = DOMAIN p.bins
                   /\ q.bins[i].lines = p.bins[i].lines \cup fits
                   /\ \A j \in DOMAIN p.bins : j # i => q.bins[j] = p.bins[j]
           \/ /\ q.trimmed = p.trimmed
              /\ \E bin \in Bins : bin.lines = fits /\ q.bins = Append(p.bins, bin)
           \/ q.trimmed = p.trimmed \cup fits /\ q.bins = p.bins
    BY <1>2, PlaceCases
  <1>4. \A i \in DOMAIN p.bins : p.bins[i].lines \cap fits = {}
    BY <1>1 DEF Sound
  <1> HIDE DEF q, fits
  <1>5. ASSUME q.trimmed = p.trimmed, NEW i \in DOMAIN p.bins,
               DOMAIN q.bins = DOMAIN p.bins, q.bins[i].lines = p.bins[i].lines \cup fits,
               \A j \in DOMAIN p.bins : j # i => q.bins[j] = p.bins[j]
        PROVE  Sound(q, L \cup u.lines)
    <2>1. \A j \in DOMAIN q.bins : q.bins[j].lines # {}
      BY <1>1, <1>5 DEF Sound
    <2>2. \A j, k \in DOMAIN q.bins : j # k => q.bins[j].lines \cap q.bins[k].lines = {}
      BY <1>1, <1>4, <1>5 DEF Sound
    <2>3. ASSUME NEW x PROVE x \in L \cup u.lines <=> \/ x \in q.capped \/ x \in q.trimmed
                                                     \/ \E j \in DOMAIN q.bins : x \in q.bins[j].lines
      BY <1>1, <1>3, <1>5 DEF Sound
    <2> QED
      BY <1>3, <2>1, <2>2, <2>3 DEF Sound
  <1>6. ASSUME q.trimmed = p.trimmed, NEW bin \in Bins, bin.lines = fits, q.bins = Append(p.bins, bin)
        PROVE  Sound(q, L \cup u.lines)
    <2> DEFINE n == Len(p.bins)
    <2>1. /\ n \in Nat /\ DOMAIN p.bins = 1..n /\ DOMAIN q.bins = 1..(n + 1)
          /\ q.bins[n + 1] = bin /\ \A j \in 1..n : q.bins[j] = p.bins[j]
      BY <1>2, <1>6
    <2> HIDE DEF n
    <2>2. \A j \in DOMAIN q.bins : q.bins[j].lines # {}
      BY <1>1, <1>6, <2>1 DEF Sound
    <2>3. \A j, k \in DOMAIN q.bins : j # k => q.bins[j].lines \cap q.bins[k].lines = {}
      BY <1>1, <1>4, <1>6, <2>1 DEF Sound
    <2>4. ASSUME NEW x PROVE x \in L \cup u.lines <=> \/ x \in q.capped \/ x \in q.trimmed
                                                     \/ \E j \in DOMAIN q.bins : x \in q.bins[j].lines
      <3>1. n + 1 \in DOMAIN q.bins /\ q.bins[n + 1].lines = fits
        BY <1>6, <2>1
      <3>2. (\E j \in DOMAIN q.bins : x \in q.bins[j].lines)
            <=> x \in fits \/ \E j \in DOMAIN p.bins : x \in p.bins[j].lines
        BY <2>1, <3>1
      <3> QED
        BY <1>1, <1>3, <1>6, <3>2 DEF Sound
    <2> QED
      BY <1>3, <2>2, <2>3, <2>4 DEF Sound
  <1>7. ASSUME q.trimmed = p.trimmed \cup fits, q.bins = p.bins
        PROVE  Sound(q, L \cup u.lines)
    BY <1>1, <1>3, <1>7 DEF Sound
  <1>8. Sound(q, L \cup u.lines)
    BY <1>3, <1>5, <1>6, <1>7
  <1> QED
    BY <1>8 DEF q

\* All units of a sequence are placed, whatever their order.
LEMMA PackedSound ==
  ASSUME NEW U, \A u \in U : UnitFits(u), NEW order \in Seq(U),
         \A i, j \in DOMAIN order : i # j => order[i].lines \cap order[j].lines = {}
  PROVE  Sound(Packed(order), UNION {order[i].lines : i \in DOMAIN order})
  <1> DEFINE n == Len(order)
             next == [i \in 1..n |-> [p \in Packings |-> Place(p, order[i])]]
             pack == CHOOSE f : f = [i \in 0..n |-> IF i = 0 THEN NoPacking ELSE Place(f[i - 1], order[i])]
             Placed(i) == UNION {order[j].lines : j \in 1..i}
  <1>1. n \in Nat /\ DOMAIN order = 1..n /\ \A i \in 1..n : order[i] \in U
    OBVIOUS
  <1>2. Packed(order) = pack[n]
    BY DEF Packed
  <1> HIDE DEF n
  <1>3. NoPacking \in Packings /\ Sound(NoPacking, {})
    BY DEF NoPacking, Packings, Sound
  <1>4. ASSUME NEW i \in 1..n, NEW p \in Packings
        PROVE  next[i][p] = Place(p, order[i]) /\ next[i][p] \in Packings
    BY <1>1, PlaceCases
  <1> HIDE DEF next
  <1>5. PICK f : Iterates(n, Packings, NoPacking, next, f)
    BY <1>1, <1>3, <1>4, Recursion
  <1>6. f \in [0..n -> Packings] /\ f[0] = NoPacking /\ \A i \in 1..n : f[i] = next[i][f[i - 1]]
    BY <1>5 DEF Iterates
  <1>7. f = [i \in 0..n |-> IF i = 0 THEN NoPacking ELSE Place(f[i - 1], order[i])]
    <2>1. ASSUME NEW i \in 1..n PROVE f[i] = Place(f[i - 1], order[i])
      <3>1. f[i - 1] \in Packings
        BY <1>1, <1>6
      <3> QED
        BY <1>4, <1>6, <3>1
    <2> QED
      BY <1>1, <1>6, <2>1
  <1>8. pack = [i \in 0..n |-> IF i = 0 THEN NoPacking ELSE Place(pack[i - 1], order[i])]
    BY <1>7
  <1> HIDE DEF pack
  <1>9. pack[0] = NoPacking /\ \A i \in 1..n : pack[i] = Place(pack[i - 1], order[i])
    BY <1>1, <1>8
  <1> DEFINE S == {i \in 0..n : Sound(pack[i], Placed(i))}
  <1>10. 0 \in S
    <2>1. Placed(0) = {} /\ 0 \in 0..n
      BY <1>1
    <2> HIDE DEF Placed
    <2> QED
      BY <1>3, <1>9, <2>1
  <1>11. ASSUME NEW i \in 1..n, i - 1 \in S PROVE i \in S
    <2>1. Sound(pack[i - 1], Placed(i - 1)) /\ UnitFits(order[i])
      BY <1>1, <1>11
    <2>2. order[i].lines \cap Placed(i - 1) = {}
      BY <1>1
    <2>3. Placed(i) = Placed(i - 1) \cup order[i].lines
      BY <1>1
    <2> HIDE DEF Placed
    <2>4. Sound(pack[i], Placed(i))
      BY <1>9, <2>1, <2>2, <2>3, PlaceKeeps
    <2> QED
      BY <2>4
  <1> HIDE DEF S
  <1>12. \A i \in 0..n : i \in S
    BY <1>1, <1>10, <1>11, CountingUp
  <1>13. n \in S
    BY <1>1, <1>12
  <1> QED
    BY <1>1, <1>2, <1>13 DEF S

-----------------------------------------------------------------------------
(* The passes over a file.                                                 *)

\* What is asked of a file and of the lines L of a policy: see FileAssumption.
Plannable(file, L) ==
    /\ L \in SUBSET Nat /\ IsFiniteSet(L)
    /\ L \subseteq DOMAIN file.unit
    /\ \A x \in L : file.unit[x] \in DOMAIN file.bytes /\ OperatorHints(file, x) # {}
    /\ \A s \in DOMAIN file.bytes : file.bytes[s] \in Nat /\ file.order[s] \in Int
    /\ \A s, r \in DOMAIN file.bytes : file.order[s] = file.order[r] => s = r

Ranked == {20, 80, 90, 100}

LEMMA HighestRank ==
  ASSUME NEW S \in SUBSET Ranked, S # {}
  PROVE  Max(S) \in Ranked
  <1>1. \E x \in S : \A y \in S : x >= y
    <2>1. CASE 100 \in S
      BY <2>1 DEF Ranked
    <2>2. CASE 100 \notin S /\ 90 \in S
      BY <2>2 DEF Ranked
    <2>3. CASE 100 \notin S /\ 90 \notin S /\ 80 \in S
      BY <2>3 DEF Ranked
    <2>4. CASE 100 \notin S /\ 90 \notin S /\ 80 \notin S
      <3>1. \A x \in S : x = 20
        BY <2>4 DEF Ranked
      <3> QED
        BY <3>1
    <2> QED
      BY <2>1, <2>2, <2>3, <2>4
  <1>2. Max(S) \in S
    BY <1>1 DEF Max
  <1> QED
    BY <1>2

LEMMA LineRank ==
  ASSUME NEW file, NEW L, Plannable(file, L), NEW x \in L
  PROVE  LinePriority(file, x) \in Ranked
  <1> DEFINE S == {Priority(op) : op \in OperatorHints(file, x)}
  <1>1. \A op : Priority(op) \in Ranked
    BY DEF Priority, Ranked
  <1>2. S \in SUBSET Ranked /\ S # {}
    BY <1>1 DEF Plannable
  <1>3. LinePriority(file, x) = Max(S)
    BY DEF LinePriority
  <1> HIDE DEF S
  <1> QED
    BY <1>2, <1>3, HighestRank

LEMMA UnitsFit ==
  ASSUME NEW file, NEW L, Plannable(file, L)
  PROVE  LET units == MutationUnits(file, L)
         IN  /\ IsFiniteSet(units)
             /\ \A u \in units : /\ UnitFits(u) /\ u.priority \in Int
                                 /\ u.symbol \in DOMAIN file.bytes
                                 /\ u.lines = {x \in L : file.unit[x] = u.symbol}
             /\ \A u, v \in units : u.symbol = v.symbol => u = v
             /\ \A x \in L : \E u \in units : x \in u.lines
  <1> DEFINE Of(s) == {x \in L : file.unit[x] = s}
             Best(s) == Max({LinePriority(file, x) : x \in Of(s)})
             Unit(s) == [symbol |-> s, bytes |-> file.bytes[s], lines |-> Of(s), priority |-> Best(s)]
             units == MutationUnits(file, L)
             names == {file.unit[x] : x \in L}
  <1>1. units = {Unit(s) : s \in names}
    <2>1. L \cap DOMAIN file.unit = L
      BY DEF Plannable
    <2> QED
      BY <2>1 DEF MutationUnits
  <1>2. ASSUME NEW s \in names
        PROVE  /\ UnitFits(Unit(s)) /\ Unit(s).priority \in Int
               /\ s \in DOMAIN file.bytes
               /\ Unit(s).symbol = s /\ Unit(s).lines = Of(s)
    <2>1. PICK x \in L : file.unit[x] = s
      OBVIOUS
    <2>2. s \in DOMAIN file.bytes /\ file.bytes[s] \in Nat
      BY <2>1 DEF Plannable
    <2>3. Of(s) \in SUBSET Nat /\ Of(s) # {} /\ IsFiniteSet(Of(s))
      BY <2>1, FS_Subset DEF Plannable
    <2>4. Best(s) \in Int
      <3> DEFINE S == {LinePriority(file, y) : y \in Of(s)}
      <3>1. S \in SUBSET Ranked /\ S # {}
        BY <2>1, LineRank
      <3> HIDE DEF S
      <3>2. Max(S) \in Ranked
        BY <3>1, HighestRank
      <3> QED
        BY <3>2 DEF Ranked, S
    <2> HIDE DEF Of, Best
    <2> QED
      BY <2>2, <2>3, <2>4 DEF UnitFits
  <1>3. IsFiniteSet(units)
    <2> DEFINE f == [x \in L |-> Unit(file.unit[x])]
    <2>1. f \in [L -> units]
      BY <1>1 DEF Plannable
    <2>2. \A u \in units : \E x \in L : f[x] = u
      BY <1>1
    <2> HIDE DEF f, units
    <2>3. f \in Surjection(L, units)
      BY <2>1, <2>2, Fun_IsSurj
    <2> QED
      BY <2>3, FS_Surjection DEF Plannable
  <1> HIDE DEF Unit
  <1>4. ASSUME NEW u \in units
        PROVE  /\ UnitFits(u) /\ u.priority \in Int
               /\ u.symbol \in DOMAIN file.bytes
               /\ u.lines = {x \in L : file.unit[x] = u.symbol}
               /\ u = Unit(u.symbol)
    <2>1. PICK s \in names : u = Unit(s)
      BY <1>1
    <2> QED
      BY <1>2, <2>1
  <1>5. \A u, v \in units : u.symbol = v.symbol => u = v
    BY <1>4
  <1>6. ASSUME NEW x \in L PROVE \E u \in units : x \in u.lines
    <2>1. file.unit[x] \in names
      BY DEF Plannable
    <2>2. Unit(file.unit[x]) \in units /\ x \in Unit(file.unit[x]).lines
      BY <1>1, <1>2, <2>1
    <2> QED
      BY <2>2
  <1> QED
    BY <1>3, <1>4, <1>5, <1>6

LEMMA UnitsRank ==
  ASSUME NEW file, NEW L, Plannable(file, L)
  PROVE  Ranks(Sooner(file, MutationUnits(file, L)), MutationUnits(file, L))
  <1> DEFINE units == MutationUnits(file, L)
             rel == Sooner(file, units)
  <1>1. \A u \in units : u.priority \in Int /\ file.order[u.symbol] \in Int
    BY UnitsFit DEF Plannable
  <1>2. \A u, v \in units : file.order[u.symbol] = file.order[v.symbol] => u = v
    BY UnitsFit DEF Plannable
  <1> HIDE DEF units
  <1>3. \A u, v \in units :
          <<u, v>> \in rel <=>
            \/ u.priority > v.priority
            \/ u.priority = v.priority /\ file.order[u.symbol] < file.order[v.symbol]
    BY DEF Sooner
  <1> HIDE DEF rel
  <1>4. \A u \in units : <<u, u>> \notin rel
    BY <1>1, <1>3
  <1>5. \A u, v \in units : u # v => <<u, v>> \in rel \/ <<v, u>> \in rel
    BY <1>1, <1>2, <1>3
  <1>6. \A u, v, w \in units : <<u, v>> \in rel /\ <<v, w>> \in rel => <<u, w>> \in rel
    BY <1>1, <1>3
  <1> QED
    BY <1>4, <1>5, <1>6 DEF Ranks, rel, units

\* Batches in order of their lowest lines.
LEMMA BinsRank ==
  ASSUME NEW bins, NEW L \in SUBSET Nat, IsFiniteSet(L),
         \A b \in bins : b.lines \in SUBSET L /\ b.lines # {},
         \A a, b \in bins : a # b => a.lines \cap b.lines = {}
  PROVE  Ranks(Lower(bins), bins)
  <1> DEFINE rel == Lower(bins)
  <1>1. \A b \in bins : Min(b.lines) \in b.lines /\ Min(b.lines) \in Int
    <2> SUFFICES ASSUME NEW b \in bins PROVE Min(b.lines) \in b.lines /\ Min(b.lines) \in Int
      OBVIOUS
    <2>1. IsFiniteSet(b.lines) /\ b.lines \in SUBSET Nat
      BY FS_Subset
    <2>2. Min(b.lines) \in b.lines
      BY <2>1, MinOfLines
    <2> QED
      BY <2>1, <2>2
  <1>2. \A a, b \in bins : Min(a.lines) = Min(b.lines) => a = b
    BY <1>1
  <1>3. \A a, b \in bins : <<a, b>> \in rel <=> Min(a.lines) < Min(b.lines)
    BY DEF Lower
  <1> HIDE DEF rel
  <1>4. \A b \in bins : <<b, b>> \notin rel
    BY <1>1, <1>3
  <1>5. \A a, b \in bins : a # b => <<a, b>> \in rel \/ <<b, a>> \in rel
    BY <1>1, <1>2, <1>3
  <1>6. \A a, b, d \in bins : <<a, b>> \in rel /\ <<b, d>> \in rel => <<a, d>> \in rel
    BY <1>1, <1>3
  <1> QED
    BY <1>4, <1>5, <1>6 DEF Ranks, rel

\* Where the units of a file are placed: everything is in one bin or left out.
LEMMA PartitionSound ==
  ASSUME NEW file, NEW L, Plannable(file, L)
  PROVE  \E p : /\ Sound(p, L)
                /\ Partition(file, L) = [p EXCEPT !.bins = InOrder(Range(p.bins), Lower(Range(p.bins)))]
  <1> DEFINE units == MutationUnits(file, L)
             n == Cardinality(units)
             order == InOrder(units, Sooner(file, units))
             p == Packed(order)
  <1>1. /\ IsFiniteSet(units)
        /\ \A u \in units : UnitFits(u) /\ u.lines = {x \in L : file.unit[x] = u.symbol}
        /\ \A u, v \in units : u.symbol = v.symbol => u = v
        /\ \A x \in L : \E u \in units : x \in u.lines
    BY UnitsFit
  <1>2. Ranks(Sooner(file, units), units)
    BY UnitsRank
  <1>3. Partition(file, L) = [p EXCEPT !.bins = InOrder(Range(p.bins), Lower(Range(p.bins)))]
    BY DEF Partition
  <1> HIDE DEF units, p
  <1>4. /\ n \in Nat /\ order \in [1..n -> units]
        /\ \A u \in units : \E i \in 1..n : order[i] = u
        /\ \A i, j \in 1..n : order[i] = order[j] => i = j
    BY <1>1, <1>2, InOrderEnumerates
  <1> HIDE DEF n, order
  <1>5. order \in Seq(units) /\ DOMAIN order = 1..n
    BY <1>4
  <1>6. ASSUME NEW i \in DOMAIN order, NEW j \in DOMAIN order, i # j
        PROVE  order[i].lines \cap order[j].lines = {}
    <2>1. order[i] \in units /\ order[j] \in units /\ order[i] # order[j]
      BY <1>4, <1>6
    <2>2. order[i].symbol # order[j].symbol
      BY <1>1, <2>1
    <2> QED
      BY <1>1, <2>1, <2>2
  <1>7. UNION {order[i].lines : i \in DOMAIN order} = L
    <2>1. \A i \in DOMAIN order : order[i].lines \in SUBSET L
      BY <1>1, <1>4, <1>5
    <2>2. ASSUME NEW x \in L PROVE \E i \in DOMAIN order : x \in order[i].lines
      BY <1>1, <1>4, <1>5
    <2> QED
      BY <2>1, <2>2
  <1>8. \A u \in units : UnitFits(u)
    BY <1>1
  <1>9. Sound(Packed(order), UNION {order[i].lines : i \in DOMAIN order})
    BY <1>5, <1>6, <1>8, PackedSound
  <1>10. Sound(p, L)
    BY <1>7, <1>9 DEF p
  <1> QED
    BY <1>3, <1>10

\* Every line of a policy is in exactly one pass, or reported as left out.
LEMMA PassesCover ==
  ASSUME NEW file, NEW L, Plannable(file, L)
  PROVE  LET tried == GenerationPasses(file, L)
         IN  /\ tried \in Seq(SUBSET L) /\ tried # <<>>
             /\ \A i, j \in DOMAIN tried : i # j => tried[i] \cap tried[j] = {}
             /\ \A x : x \in L <=> \/ x \in ReportedOmissions(file, L)
                                   \/ \E i \in DOMAIN tried : x \in tried[i]
  <1>1. PICK p : /\ Sound(p, L)
                 /\ Partition(file, L) = [p EXCEPT !.bins = InOrder(Range(p.bins), Lower(Range(p.bins)))]
    BY PartitionSound
  <1> DEFINE bins == Range(p.bins)
             n == Cardinality(bins)
             order == InOrder(bins, Lower(bins))
             part1 == Partition(file, L)
             tried == GenerationPasses(file, L)
  <1>2. p.bins \in Seq(Bins) /\ p = [bins |-> p.bins, capped |-> p.capped, trimmed |-> p.trimmed]
    BY <1>1 DEF Sound, Packings
  <1>3. part1.bins = order /\ part1.capped = p.capped /\ part1.trimmed = p.trimmed
    <2> HIDE DEF order
    <2>1. part1 = [p EXCEPT !.bins = order]
      BY <1>1 DEF order
    <2> QED
      BY <1>2, <2>1
  <1>4. bins = {p.bins[i] : i \in DOMAIN p.bins}
    BY DEF Range
  <1>5. IsFiniteSet(bins)
    <2> DEFINE m == Len(p.bins)
    <2>1. m \in Nat /\ DOMAIN p.bins = 1..m
      BY <1>2
    <2>2. IsFiniteSet(1..m)
      <3> HIDE DEF m, bins
      <3> QED
        BY <2>1, FS_Interval
    <2>3. p.bins \in [1..m -> bins] /\ \A b \in bins : \E i \in 1..m : p.bins[i] = b
      BY <1>2, <1>4, <2>1
    <2> HIDE DEF m, bins
    <2>4. p.bins \in Surjection(1..m, bins)
      BY <2>3, Fun_IsSurj
    <2> QED
      BY <2>2, <2>4, FS_Surjection
  <1>6. /\ \A b \in bins : b.lines \in SUBSET L /\ b.lines # {}
        /\ \A a, b \in bins : a # b => a.lines \cap b.lines = {}
        /\ \A x : x \in L <=> \/ x \in p.capped \/ x \in p.trimmed
                              \/ \E b \in bins : x \in b.lines
    BY <1>1, <1>4 DEF Sound
  <1> HIDE DEF bins
  <1>7. /\ n \in Nat /\ order \in [1..n -> bins]
        /\ \A b \in bins : \E i \in 1..n : order[i] = b
        /\ \A i, j \in 1..n : order[i] = order[j] => i = j
    <2>1. Ranks(Lower(bins), bins)
      BY <1>6, BinsRank DEF Plannable
    <2> QED
      BY <1>5, <2>1, InOrderEnumerates
  <1> HIDE DEF n, order
  <1>8. DOMAIN order = 1..n /\ Len(order) = n
    <2>1. order \in Seq(bins)
      BY <1>7
    <2> QED
      BY <1>7, <2>1
  <1>9. tried = IF n <= 1 THEN <<L>> ELSE [i \in 1..n |-> order[i].lines]
    BY <1>3, <1>8 DEF GenerationPasses
  <1>10. ReportedOmissions(file, L) = IF n <= 1 THEN {} ELSE p.capped \cup p.trimmed
    BY <1>3, <1>8 DEF ReportedOmissions
  <1> HIDE DEF tried
  <1>11. CASE n <= 1
    <2>1. tried = <<L>> /\ ReportedOmissions(file, L) = {}
      BY <1>9, <1>10, <1>11
    <2>2. tried \in Seq(SUBSET L) /\ tried # <<>> /\ DOMAIN tried = 1..1 /\ tried[1] = L
      BY <2>1
    <2> QED
      BY <2>1, <2>2 DEF tried
  <1>12. CASE ~(n <= 1)
    <2>1. tried = [i \in 1..n |-> order[i].lines] /\ ReportedOmissions(file, L) = p.capped \cup p.trimmed
      BY <1>9, <1>10, <1>12
    <2>2. DOMAIN tried = 1..n /\ \A i \in 1..n : tried[i] = order[i].lines /\ order[i] \in bins
      BY <1>7, <2>1
    <2>3. tried \in Seq(SUBSET L) /\ tried # <<>>
      <3>1. tried \in [1..n -> SUBSET L]
        BY <1>6, <1>7, <2>1
      <3> QED
        BY <1>7, <1>12, <3>1
    <2>4. \A i, j \in DOMAIN tried : i # j => tried[i] \cap tried[j] = {}
      BY <1>6, <1>7, <2>2
    <2>5. ASSUME NEW x PROVE x \in L <=> \/ x \in ReportedOmissions(file, L)
                                         \/ \E i \in DOMAIN tried : x \in tried[i]
      <3>1. (\E i \in DOMAIN tried : x \in tried[i]) <=> \E b \in bins : x \in b.lines
        BY <1>7, <2>2
      <3> QED
        BY <1>6, <2>1, <3>1
    <2> QED
      BY <2>3, <2>4, <2>5 DEF tried
  <1> QED
    BY <1>11, <1>12

-----------------------------------------------------------------------------
(* A run of the Python gate.                                               *)

JudgingSteps == {"overlay", "install", "coverage", "setup", "generate", "score", "collect", "judge"}

\* The run is at a target of its list.
AtTarget ==
    /\ worklist \in Seq(DOMAIN Targets) /\ t \in Nat \ {0}
    /\ gstep \in JudgingSteps => t <= Len(worklist)

LEMMA TargetIsListed ==
  ASSUME AtTarget, gstep \in JudgingSteps
  PROVE  t \in DOMAIN worklist /\ worklist[t] \in DOMAIN Targets
  BY DEF AtTarget

\* What judging a candidate does to the place in the list.
LEMMA JudgedPlace ==
  ASSUME NEW verdict, TargetJudged(verdict)
  PROVE  \/ gstep' = "target" /\ t' = t + 1
         \/ gstep' = "overlay" /\ t' = t
  BY DEF TargetJudged

LEMMA TargetStep ==
  ASSUME AtTarget, [GNext]_gvars
  PROVE  AtTarget'
  <1> USE DEF AtTarget, JudgingSteps
  <1>1. CASE StartGate
    BY <1>1 DEF StartGate
  <1>2. CASE StartTarget
    <2>1. /\ worklist' = worklist /\ gstep = "target" /\ t <= Len(worklist)
          /\ \/ t' = t + 1 /\ gstep' = gstep
             \/ t' = t
      BY <1>2 DEF StartTarget
    <2> QED
      BY <2>1
  <1>3. CASE PrepareOverlay
    BY <1>3 DEF PrepareOverlay, gateVars
  <1>4. CASE DropUnavailable
    BY <1>4 DEF DropUnavailable, gateVars
  <1>5. CASE InstallManifest
    BY <1>5 DEF InstallManifest, gateVars
  <1>6. CASE InstallFails
    BY <1>6 DEF InstallFails, gateVars
  <1>7. CASE Coverage
    <2>1. gstep = "coverage" /\ worklist' = worklist
      BY <1>7 DEF Coverage
    <2>2. \/ \E verdict : TargetJudged(verdict)
          \/ gstep' = "setup" /\ t' = t
      BY <1>7 DEF Coverage
    <2> QED
      BY <2>1, <2>2, JudgedPlace
  <1>8. CASE Setup
    BY <1>8 DEF Setup, gateVars
  <1>9. CASE Generate
    BY <1>9 DEF Generate, gateVars
  <1>10. CASE Score
    BY <1>10 DEF Score, gateVars
  <1>11. CASE Collect
    BY <1>11 DEF Collect, gateVars
  <1>12. CASE Judge
    <2>1. gstep = "judge" /\ worklist' = worklist
      BY <1>12 DEF Judge
    <2>2. \E verdict : TargetJudged(verdict)
      BY <1>12 DEF Judge
    <2> QED
      BY <2>1, <2>2, JudgedPlace
  <1>13. CASE Abort
    BY <1>13 DEF Abort, gateVars
  <1>14. CASE Finish
    BY <1>14 DEF Finish
  <1>15. CASE Crash
    BY <1>15 DEF Crash
  <1>16. CASE UNCHANGED gvars
    BY <1>16 DEF gvars
  <1> QED
    BY <1>1, <1>2, <1>3, <1>4, <1>5, <1>6, <1>7, <1>8, <1>9, <1>10, <1>11, <1>12, <1>13, <1>14,
       <1>15, <1>16 DEF GNext

LEMMA TargetInv == GSpec => []AtTarget
  <1>1. GInit => AtTarget
    BY GateAssumption DEF GInit, AtTarget, JudgingSteps
  <1> QED
    BY <1>1, TargetStep, PTL DEF GSpec

-----------------------------------------------------------------------------
(* Its overlays.                                                           *)

\* While pip runs, the manifest's overlay carries no marker and only lines of
\* distributions the index does not have were dropped.
OverlaysOK ==
    /\ AtTarget
    /\ MarkedIsInstalled
    /\ overlay = [m \in DOMAIN overlay |-> [dir |-> overlay[m].dir, marker |-> overlay[m].marker]]
    /\ gstep = "install" =>
         LET m == NearestManifest(Target)
         IN  /\ Requirements(m) \ pip \subseteq Unavailable
             /\ m \in DOMAIN overlay => overlay[m].marker = "none"

\* An overlay that is wiped, or filled as the installs fill it.
LEMMA OverlayWritten ==
  ASSUME OverlaysOK, NEW m, NEW set, NEW mark,
         mark = "whole" => Requirements(m) \ set \subseteq Unavailable,
         mark = "compat" => \E i \in DOMAIN worklist : set = CompatibleRequirements(Targets[worklist[i]]),
         overlay' = [overlay EXCEPT ![m] = [dir |-> set, marker |-> mark]],
         worklist' = worklist
  PROVE  /\ MarkedIsInstalled' /\ DOMAIN overlay' = DOMAIN overlay
         /\ overlay' = [n \in DOMAIN overlay' |-> [dir |-> overlay'[n].dir, marker |-> overlay'[n].marker]]
         /\ m \in DOMAIN overlay => overlay'[m].marker = mark
  <1>1. /\ DOMAIN overlay' = DOMAIN overlay
        /\ \A n \in DOMAIN overlay :
             /\ n = m => overlay'[n] = [dir |-> set, marker |-> mark]
             /\ n # m => overlay'[n] = overlay[n]
    BY DEF OverlaysOK
  <1>2. ASSUME NEW n \in DOMAIN overlay
        PROVE  /\ overlay'[n] = [dir |-> overlay'[n].dir, marker |-> overlay'[n].marker]
               /\ overlay'[n].marker = "whole" => Requirements(n) \ overlay'[n].dir \subseteq Unavailable
               /\ overlay'[n].marker = "compat" =>
                    \E i \in DOMAIN worklist :
                       overlay'[n].dir = CompatibleRequirements(Targets[worklist[i]])
    <2>1. CASE n = m
      BY <1>1, <2>1
    <2>2. CASE n # m
      BY <1>1, <2>2 DEF OverlaysOK, MarkedIsInstalled
    <2> QED
      BY <2>1, <2>2
  <1>3. overlay' = [n \in DOMAIN overlay' |-> overlay'[n]]
    OBVIOUS
  <1> QED
    BY <1>1, <1>2, <1>3 DEF MarkedIsInstalled

LEMMA OverlaysKept ==
  ASSUME OverlaysOK, AtTarget', gstep' # "install", overlay' = overlay, worklist' = worklist
  PROVE  OverlaysOK'
  BY DEF OverlaysOK, MarkedIsInstalled

LEMMA OverlayStep ==
  ASSUME OverlaysOK, [GNext]_gvars
  PROVE  OverlaysOK'
  <1>1. AtTarget'
    BY TargetStep DEF OverlaysOK
  <1>2. CASE StartGate
    BY <1>1, <1>2, OverlaysKept DEF StartGate
  <1>3. CASE StartTarget
    BY <1>1, <1>3, OverlaysKept DEF StartTarget
  <1>4. CASE PrepareOverlay
    <2> DEFINE m == NearestManifest(Target)
    <2>1. worklist' = worklist /\ t' = t /\ Target' = Target
      BY <1>4 DEF PrepareOverlay, gateVars, Target
    <2>2. CASE UNCHANGED overlay /\ gstep' = "coverage"
      BY <1>1, <2>1, <2>2, OverlaysKept
    <2>3. CASE overlay' = [overlay EXCEPT ![m] = Wiped] /\ pip' = Requirements(m)
      <3>1. Wiped = [dir |-> {}, marker |-> "none"]
        BY DEF Wiped, NoOverlay
      <3>2. /\ MarkedIsInstalled' /\ DOMAIN overlay' = DOMAIN overlay
            /\ overlay' = [n \in DOMAIN overlay' |-> [dir |-> overlay'[n].dir, marker |-> overlay'[n].marker]]
            /\ m \in DOMAIN overlay => overlay'[m].marker = "none"
        BY <2>1, <2>3, <3>1, OverlayWritten
      <3> QED
        BY <1>1, <2>1, <2>3, <3>2 DEF OverlaysOK
    <2> QED
      BY <1>4, <2>2, <2>3 DEF PrepareOverlay
  <1>5. CASE DropUnavailable
    <2>1. /\ worklist' = worklist /\ Target' = Target /\ overlay' = overlay
          /\ gstep = "install" /\ \E d \in pip \cap Unavailable : pip' = pip \ {d}
      BY <1>5 DEF DropUnavailable, gateVars, Target
    <2>2. MarkedIsInstalled'
      BY <2>1 DEF OverlaysOK, MarkedIsInstalled
    <2>3. Requirements(NearestManifest(Target)) \ pip' \subseteq Unavailable
      BY <2>1 DEF OverlaysOK
    <2> QED
      BY <1>1, <2>1, <2>2, <2>3 DEF OverlaysOK
  <1>6. CASE InstallManifest
    <2> DEFINE m == NearestManifest(Target)
    <2>1. /\ worklist' = worklist /\ gstep = "install" /\ gstep' = "coverage"
          /\ overlay' = [overlay EXCEPT ![m] = [dir |-> pip, marker |-> "whole"]]
      BY <1>6 DEF InstallManifest, gateVars
    <2>2. Requirements(m) \ pip \subseteq Unavailable
      BY <2>1 DEF OverlaysOK
    <2>3. /\ MarkedIsInstalled'
          /\ overlay' = [n \in DOMAIN overlay' |-> [dir |-> overlay'[n].dir, marker |-> overlay'[n].marker]]
      BY <2>1, <2>2, OverlayWritten
    <2> QED
      BY <1>1, <2>1, <2>3 DEF OverlaysOK
  <1>7. CASE InstallFails
    <2> DEFINE m == NearestManifest(Target)
               wanted == CompatibleRequirements(Target)
    <2>1. /\ worklist' = worklist /\ gstep = "install" /\ gstep' = "coverage"
          /\ \/ overlay' = [overlay EXCEPT ![m] = [dir |-> wanted, marker |-> "compat"]]
             \/ overlay' = [overlay EXCEPT ![m] = Wiped]
      BY <1>7 DEF InstallFails, gateVars
    <2>2. t \in DOMAIN worklist /\ wanted = CompatibleRequirements(Targets[worklist[t]])
      BY <2>1, TargetIsListed DEF OverlaysOK, Target, JudgingSteps
    <2>3. Wiped = [dir |-> {}, marker |-> "none"]
      BY DEF Wiped, NoOverlay
    <2> HIDE DEF wanted
    <2>4. /\ MarkedIsInstalled'
          /\ overlay' = [n \in DOMAIN overlay' |-> [dir |-> overlay'[n].dir, marker |-> overlay'[n].marker]]
      BY <2>1, <2>2, <2>3, OverlayWritten
    <2> QED
      BY <1>1, <2>1, <2>4 DEF OverlaysOK
  <1>8. CASE Coverage
    <2>1. gstep' \in {"target", "overlay", "setup"} /\ overlay' = overlay /\ worklist' = worklist
      BY <1>8, JudgedPlace DEF Coverage
    <2> QED
      BY <1>1, <2>1, OverlaysKept
  <1>9. CASE Setup
    BY <1>1, <1>9, OverlaysKept DEF Setup, gateVars
  <1>10. CASE Generate
    BY <1>1, <1>10, OverlaysKept DEF Generate, gateVars
  <1>11. CASE Score
    BY <1>1, <1>11, OverlaysKept DEF Score, gateVars
  <1>12. CASE Collect
    BY <1>1, <1>12, OverlaysKept DEF Collect, gateVars
  <1>13. CASE Judge
    <2>1. gstep' \in {"target", "overlay"} /\ overlay' = overlay /\ worklist' = worklist
      BY <1>13, JudgedPlace DEF Judge
    <2> QED
      BY <1>1, <2>1, OverlaysKept
  <1>14. CASE Abort
    BY <1>1, <1>14, OverlaysKept DEF Abort, gateVars
  <1>15. CASE Finish
    BY <1>1, <1>15, OverlaysKept DEF Finish
  <1>16. CASE Crash
    <2> DEFINE m == NearestManifest(Target)
    <2>1. worklist' = worklist /\ gstep' = "begin"
      BY <1>16 DEF Crash
    <2>2. CASE gstep # "install"
      BY <1>1, <1>16, <2>1, <2>2, OverlaysKept DEF Crash
    <2>3. CASE gstep = "install"
      <3>1. PICK set : overlay' = [overlay EXCEPT ![m].dir = set]
        BY <1>16, <2>3 DEF Crash
      <3>2. CASE m \notin DOMAIN overlay
        <4>1. \A n \in DOMAIN overlay : n # m
          BY <3>2
        <4>2. overlay = [n \in DOMAIN overlay |-> overlay[n]]
          BY DEF OverlaysOK
        <4>3. overlay' = [n \in DOMAIN overlay |-> overlay[n]]
          BY <3>1, <4>1
        <4>4. overlay' = overlay
          BY <4>2, <4>3
        <4> QED
          BY <1>1, <2>1, <4>4, OverlaysKept
      <3>3. CASE m \in DOMAIN overlay
        <4>1. overlay[m] = [dir |-> overlay[m].dir, marker |-> "none"]
          BY <2>3, <3>3 DEF OverlaysOK
        <4>2. [overlay[m] EXCEPT !.dir = set] = [dir |-> set, marker |-> "none"]
          BY <4>1
        <4>3. overlay' = [overlay EXCEPT ![m] = [dir |-> set, marker |-> "none"]]
          BY <3>1, <4>2
        <4> HIDE DEF m
        <4>4. /\ "none" = "whole" => Requirements(m) \ set \subseteq Unavailable
              /\ "none" = "compat" =>
                   \E i \in DOMAIN worklist : set = CompatibleRequirements(Targets[worklist[i]])
          OBVIOUS
        <4>5. /\ MarkedIsInstalled'
              /\ overlay' = [n \in DOMAIN overlay' |-> [dir |-> overlay'[n].dir, marker |-> overlay'[n].marker]]
          BY <2>1, <4>3, <4>4, OverlayWritten, Zenon
        <4> QED
          BY <1>1, <2>1, <4>5 DEF OverlaysOK
      <3> QED
        BY <3>2, <3>3
    <2> QED
      BY <2>2, <2>3
  <1>17. CASE UNCHANGED gvars
    BY <1>1, <1>17 DEF gvars, OverlaysOK, MarkedIsInstalled, Target
  <1> QED
    BY <1>2, <1>3, <1>4, <1>5, <1>6, <1>7, <1>8, <1>9, <1>10, <1>11, <1>12, <1>13, <1>14, <1>15,
       <1>16, <1>17 DEF GNext

\* Whatever dies while pip runs, an overlay that is marked as installed holds
\* what the marker says (dependency_overlay.py: the marker is written last).
THEOREM MarkedOverlaysAreWhole == GSpec => []MarkedIsInstalled
  <1>1. GInit => OverlaysOK
    <2> SUFFICES ASSUME GInit PROVE OverlaysOK
      OBVIOUS
    <2>1. AtTarget
      BY GateAssumption DEF GInit, AtTarget, JudgingSteps
    <2>2. /\ DOMAIN overlay = DOMAIN Manifests
          /\ \A m \in DOMAIN overlay : overlay[m] = [dir |-> {}, marker |-> "none"]
          /\ overlay = [m \in DOMAIN overlay |-> [dir |-> {}, marker |-> "none"]]
      BY DEF GInit, NoOverlay
    <2>3. MarkedIsInstalled
      BY <2>2 DEF MarkedIsInstalled
    <2>4. overlay = [m \in DOMAIN overlay |-> [dir |-> overlay[m].dir, marker |-> overlay[m].marker]]
      BY <2>2
    <2> QED
      BY <2>1, <2>3, <2>4 DEF OverlaysOK, GInit
  <1>2. OverlaysOK => MarkedIsInstalled
    BY DEF OverlaysOK
  <1> QED
    BY <1>1, <1>2, OverlayStep, PTL DEF GSpec

-----------------------------------------------------------------------------
(* Its passes.                                                             *)

MutationSteps == {"generate", "score", "collect", "judge"}

Planned == GenerationPasses(Target.file, lines)

\* What was tried and what is left make up the passes of the policy; the
\* totals are of all passes done, and a pass that failed is remembered.
PassesOK ==
    /\ AtTarget
    /\ gstep \in MutationSteps \cup {"setup"} => lines \in SUBSET Eligible(Target.file, Target.changed)
    /\ history = [tried |-> history.tried, fates |-> history.fates, failed |-> history.failed]
    /\ gstep \in MutationSteps =>
         /\ history.tried \in Seq(SUBSET lines) /\ passes \in Seq(SUBSET lines)
         /\ totals = history.fates /\ IsFiniteSet(DOMAIN totals)
         /\ history.failed \/ output = "failed" => broken
    /\ gstep = "generate" => passes # <<>> /\ history.tried \o passes = Planned
    /\ gstep \in {"score", "collect"} =>
         passes # <<>> /\ history.tried \o Tail(passes) = Planned /\ IsFiniteSet(DOMAIN mutants)
    /\ gstep = "judge" => history.tried = Planned

LEMMA NextPass ==
  ASSUME NEW S, NEW a \in Seq(S), NEW b \in Seq(S), b # <<>>
  PROVE  /\ Append(a, Head(b)) \o Tail(b) = a \o b
         /\ Head(b) \in S /\ Append(a, Head(b)) \in Seq(S) /\ Tail(b) \in Seq(S)
  <1> DEFINE s == Append(a, Head(b)) \o Tail(b)
             r == a \o b
  <1>1. Len(b) \in Nat \ {0} /\ Len(a) \in Nat
    OBVIOUS
  <1>2. Head(b) \in S /\ Append(a, Head(b)) \in Seq(S) /\ Tail(b) \in Seq(S)
    BY <1>1
  <1>3. s \in Seq(S) /\ r \in Seq(S) /\ Len(s) = Len(r)
    BY <1>1, <1>2
  <1>4. ASSUME NEW i \in 1..Len(s) PROVE s[i] = r[i]
    BY <1>1, <1>2, <1>4
  <1> HIDE DEF s, r
  <1>5. s = r
    BY <1>3, <1>4
  <1> QED
    BY <1>2, <1>5 DEF s, r

\* The files of Targets are such that their policies can be planned.
LEMMA PolicyLines ==
  ASSUME AtTarget, gstep \in JudgingSteps, NEW L \in SUBSET Eligible(Target.file, Target.changed)
  PROVE  Plannable(Target.file, L)
  <1> DEFINE file == Target.file
  <1>1. worklist[t] \in DOMAIN Targets
    BY TargetIsListed
  <1>2. /\ Target.changed \subseteq Nat /\ IsFiniteSet(Target.changed)
        /\ \A i \in DOMAIN file.tree :
             file.tree[i].inUnit => file.tree[i].first \in DOMAIN file.unit
        /\ \A x \in DOMAIN file.unit : file.unit[x] \in DOMAIN file.bytes
        /\ \A u \in DOMAIN file.bytes : file.bytes[u] \in Nat /\ file.order[u] \in Int
        /\ \A u, v \in DOMAIN file.bytes : file.order[u] = file.order[v] => u = v
    BY <1>1, FileAssumption DEF Target
  <1> HIDE DEF file
  <1>3. \A x \in L : x \in Target.changed /\ OperatorHints(file, x) # {}
    BY DEF Eligible, file
  <1>4. ASSUME NEW x \in L PROVE x \in DOMAIN file.unit
    <2> DEFINE here == {node \in Range(file.tree) : node.first = x /\ node.inUnit}
    <2>1. here # {}
      <3> SUFFICES ASSUME here = {} PROVE OperatorHints(file, x) = {}
        BY <1>3
      <3>1. \A node \in Range(file.tree) : ~(node.first = x /\ node.inUnit)
        OBVIOUS
      <3> QED
        BY <3>1, Zenon DEF OperatorHints
    <2>2. PICK i \in DOMAIN file.tree : file.tree[i].first = x /\ file.tree[i].inUnit
      BY <2>1 DEF Range
    <2> QED
      BY <1>2, <2>2
  <1>5. L \in SUBSET Nat /\ IsFiniteSet(L)
    <2>1. L \in SUBSET Target.changed
      BY <1>3
    <2> QED
      BY <1>2, <2>1, FS_Subset
  <1>6. L \subseteq DOMAIN file.unit
    BY <1>4
  <1> QED
    BY <1>2, <1>3, <1>5, <1>6 DEF Plannable, file

\* A policy selects among the lines that are worth a mutant.
LEMMA PolicyNarrows ==
  ASSUME NEW target, NEW L \in Policies(target)
  PROVE  L \in SUBSET Eligible(target.file, target.changed)
  <1> DEFINE E == Eligible(target.file, target.changed)
  <1>1. PICK some \in Capped(target.file, E) :
          L \in (IF target.sampled THEN {Sampled(some, s) : s \in SUBSET some} ELSE {some})
    BY DEF Policies
  <1>2. some \in SUBSET E
    BY DEF Capped, kSubset
  <1>3. L \in SUBSET some
    BY <1>1 DEF Sampled
  <1> QED
    BY <1>2, <1>3

\* Outside the mutation run there is nothing to say.
LEMMA PassesLeft ==
  ASSUME PassesOK, AtTarget', gstep' \notin MutationSteps, gstep' # "setup",
         history' = history \/ history' = NoHistory
  PROVE  PassesOK'
  BY DEF PassesOK, MutationSteps, NoHistory

LEMMA PassesStep ==
  ASSUME PassesOK, [GNext]_gvars
  PROVE  PassesOK'
  <1> USE DEF MutationSteps
  <1>1. AtTarget'
    BY TargetStep DEF PassesOK
  <1>2. CASE StartGate
    BY <1>1, <1>2, PassesLeft DEF StartGate, mutationVars
  <1>3. CASE StartTarget
    BY <1>1, <1>3, PassesLeft DEF StartTarget, mutationVars
  <1>4. CASE PrepareOverlay
    BY <1>1, <1>4, PassesLeft DEF PrepareOverlay, mutationVars
  <1>5. CASE DropUnavailable
    BY <1>1, <1>5, PassesLeft DEF DropUnavailable, mutationVars
  <1>6. CASE InstallManifest
    BY <1>1, <1>6, PassesLeft DEF InstallManifest, mutationVars
  <1>7. CASE InstallFails
    BY <1>1, <1>7, PassesLeft DEF InstallFails, mutationVars
  <1>8. CASE Coverage
    <2>1. history' = history /\ worklist' = worklist
      BY <1>8 DEF Coverage
    <2>2. CASE \E verdict : TargetJudged(verdict)
      <3>1. gstep' \in {"target", "overlay"}
        BY <2>2, JudgedPlace
      <3> QED
        BY <1>1, <2>1, <3>1, PassesLeft
    <2>3. CASE gstep' = "setup" /\ t' = t /\ \E selected \in Policies(Target) : lines' = selected
      <3>1. lines' \in SUBSET Eligible(Target.file, Target.changed) /\ Target' = Target
        BY <2>1, <2>3, PolicyNarrows DEF Target
      <3> QED
        BY <1>1, <2>1, <2>3, <3>1 DEF PassesOK
    <2> QED
      BY <1>8, <2>2, <2>3 DEF Coverage
  <1>9. CASE Setup
    <2>1. /\ gstep = "setup" /\ gstep' = "generate" /\ Target' = Target /\ lines' = lines
          /\ passes' = Planned /\ totals' = Nothing /\ history' = NoHistory
          /\ broken' = FALSE /\ output' = "none"
      BY <1>9 DEF Setup, gateVars, Target, Planned
    <2>2. Plannable(Target.file, lines)
      BY <2>1, PolicyLines DEF PassesOK, JudgingSteps
    <2>3. Planned \in Seq(SUBSET lines) /\ Planned # <<>> /\ Planned' = Planned
      BY <2>1, <2>2, PassesCover DEF Planned
    <2>4. NoHistory.tried = <<>> /\ NoHistory.fates = Nothing /\ ~NoHistory.failed
          /\ NoHistory = [tried |-> NoHistory.tried, fates |-> NoHistory.fates, failed |-> NoHistory.failed]
      BY DEF NoHistory
    <2>5. IsFiniteSet(DOMAIN Nothing)
      BY FS_EmptySet DEF Nothing
    <2>6. <<>> \o Planned = Planned
      BY <2>3
    <2> HIDE DEF Planned, NoHistory, Nothing
    <2> QED
      BY <1>1, <2>1, <2>3, <2>4, <2>5, <2>6 DEF PassesOK
  <1>10. CASE Generate
    <2>1. /\ gstep = "generate" /\ Target' = Target /\ lines' = lines /\ passes' = passes /\ totals' = totals
          /\ history' = [history EXCEPT !.tried = Append(@, Head(passes))]
          /\ \/ /\ gstep' = "score" /\ UNCHANGED <<broken, output>>
                /\ \E made \in SUBSET Head(passes) : DOMAIN mutants' = made
             \/ /\ gstep' = "collect" /\ broken' = TRUE
                /\ DOMAIN mutants' \in {{}, Head(passes)}
      BY <1>10 DEF Generate, gateVars, Target, Nothing
    <2>2. /\ history'.tried = Append(history.tried, Head(passes)) /\ history'.fates = history.fates
          /\ history'.failed = history.failed
          /\ history' = [tried |-> history'.tried, fates |-> history'.fates, failed |-> history'.failed]
      BY <2>1 DEF PassesOK
    <2>3. /\ history'.tried \o Tail(passes) = history.tried \o passes
          /\ Head(passes) \in SUBSET lines /\ history'.tried \in Seq(SUBSET lines)
      BY <2>1, <2>2, NextPass DEF PassesOK
    <2>4. IsFiniteSet(DOMAIN mutants')
      <3>1. IsFiniteSet(lines)
        BY <2>1, PolicyLines DEF PassesOK, JudgingSteps, Plannable
      <3>2. DOMAIN mutants' \in SUBSET lines
        BY <2>1, <2>3
      <3> QED
        BY <3>1, <3>2, FS_Subset
    <2>5. Planned' = Planned
      BY <2>1 DEF Planned
    <2> QED
      BY <1>1, <2>1, <2>2, <2>3, <2>4, <2>5 DEF PassesOK
  <1>11. CASE Score
    <2>1. /\ gstep = "score" /\ gstep' = "collect" /\ Target' = Target /\ lines' = lines
          /\ passes' = passes /\ totals' = totals /\ history' = history /\ broken' = broken
          /\ output' # "failed" /\ DOMAIN mutants' = DOMAIN mutants
      BY <1>11 DEF Score, gateVars, Target
    <2>2. Planned' = Planned
      BY <2>1 DEF Planned
    <2> QED
      BY <1>1, <2>1, <2>2 DEF PassesOK
  <1>12. CASE Collect
    <2>1. /\ gstep = "collect" /\ Target' = Target /\ lines' = lines /\ passes' = Tail(passes)
          /\ totals' = Joined(mutants, totals) /\ broken' = broken /\ output' = output
          /\ history' = [history EXCEPT !.fates = Joined(mutants, @), !.failed = @ \/ output = "failed"]
          /\ gstep' = IF passes' = <<>> THEN "judge" ELSE "generate"
      BY <1>12 DEF Collect, MergedTotals, gateVars, Target
    <2>2. /\ history'.tried = history.tried /\ history'.fates = Joined(mutants, history.fates)
          /\ history'.failed = (history.failed \/ output = "failed")
          /\ history' = [tried |-> history'.tried, fates |-> history'.fates, failed |-> history'.failed]
      BY <2>1 DEF PassesOK
    <2>3. IsFiniteSet(DOMAIN totals')
      <3>1. DOMAIN totals' = DOMAIN mutants \cup DOMAIN totals
        BY <2>1 DEF Joined
      <3> QED
        BY <2>1, <3>1, FS_Union DEF PassesOK
    <2>4. Tail(passes) \in Seq(SUBSET lines)
      BY <2>1, NextPass DEF PassesOK
    <2>5. Planned' = Planned
      BY <2>1 DEF Planned
    <2>6. history.tried \o <<>> = history.tried
      BY <2>1 DEF PassesOK
    <2> QED
      BY <1>1, <2>1, <2>2, <2>3, <2>4, <2>5, <2>6 DEF PassesOK
  <1>13. CASE Judge
    <2>1. gstep' \in {"target", "overlay"} /\ history' = NoHistory
      BY <1>13, JudgedPlace DEF Judge, Forget
    <2> QED
      BY <1>1, <2>1, PassesLeft
  <1>14. CASE Abort
    BY <1>1, <1>14, PassesLeft DEF Abort, Forget
  <1>15. CASE Finish
    BY <1>1, <1>15, PassesLeft DEF Finish, mutationVars
  <1>16. CASE Crash
    BY <1>1, <1>16, PassesLeft DEF Crash, Forget
  <1>17. CASE UNCHANGED gvars
    BY <1>1, <1>17 DEF gvars, PassesOK, Target, Planned
  <1> QED
    BY <1>2, <1>3, <1>4, <1>5, <1>6, <1>7, <1>8, <1>9, <1>10, <1>11, <1>12, <1>13, <1>14, <1>15,
       <1>16, <1>17 DEF GNext

LEMMA PassesInit ==
  ASSUME GInit
  PROVE  PassesOK
  <1>1. AtTarget
    BY GateAssumption DEF GInit, AtTarget, JudgingSteps
  <1> QED
    BY <1>1 DEF GInit, PassesOK, MutationSteps, NoHistory

\* Every line the policy selected is generated in exactly one pass or named as
\* left out, for any file, budget and number of batches
\* (mutation_batching.py, _generation_passes, _run_generation_passes).
THEOREM NoLineIsLost == GSpec => []NothingLost
  <1>1. PassesOK => NothingLost
    <2> SUFFICES ASSUME PassesOK, gstep = "judge"
                 PROVE  LET tried == history.tried
                        IN  /\ \A i, j \in DOMAIN tried : i # j => tried[i] \cap tried[j] = {}
                            /\ (UNION Range(tried)) \cup ReportedOmissions(Target.file, lines) = lines
      BY DEF NothingLost
    <2> DEFINE tried == history.tried
    <2>1. tried = GenerationPasses(Target.file, lines)
      BY DEF PassesOK, Planned
    <2>2. Plannable(Target.file, lines)
      BY PolicyLines DEF PassesOK, JudgingSteps, MutationSteps
    <2>3. /\ \A i, j \in DOMAIN tried : i # j => tried[i] \cap tried[j] = {}
          /\ \A x : x \in lines <=> \/ x \in ReportedOmissions(Target.file, lines)
                                    \/ \E i \in DOMAIN tried : x \in tried[i]
      BY <2>1, <2>2, PassesCover
    <2> HIDE DEF tried
    <2>4. \A x : x \in UNION Range(tried) <=> \E i \in DOMAIN tried : x \in tried[i]
      BY DEF Range
    <2>5. (UNION Range(tried)) \cup ReportedOmissions(Target.file, lines) = lines
      <3> DEFINE all == UNION Range(tried)
                 omitted == ReportedOmissions(Target.file, lines)
      <3>1. \A x : x \in lines <=> x \in omitted \/ x \in all
        BY <2>3, <2>4
      <3> HIDE DEF all, omitted
      <3>2. all \cup omitted = lines
        BY <3>1
      <3> QED
        BY <3>2 DEF all, omitted
    <2> QED
      BY <2>3, <2>5 DEF tried
  <1> QED
    BY <1>1, PassesInit, PassesStep, PTL DEF GSpec

-----------------------------------------------------------------------------
(* Its verdicts.                                                           *)

Summaries == [tests : BOOLEAN, passed : BOOLEAN]
Reasons == {"none", "mutation_test_collection_failed", "mutation_backend_failed",
            "mutation_candidate_plan_failed", "mutation_no_tests", "no_mutatable_candidates",
            "not_run", "coverage_not_passed"}
Mutations == [generated : Nat, killed : Nat, survived : Nat, timeout : Nat, suspicious : Nat,
              passed : BOOLEAN, reason : Reasons]

Weighed(m) == m.killed + m.survived + m.timeout + m.suspicious

\* A mutation stage that passed has no reason not to and reached the gate.
FairMutation(m) ==
    m.passed => /\ m.reason \notin {"mutation_backend_failed", "mutation_no_tests"}
                /\ 100 * m.killed >= MutGate * Weighed(m)

FairResults ==
    {r \in [status : {"passed", "failed"}, coverage : Summaries, mutation : Mutations] :
       /\ FairMutation(r.mutation)
       /\ (r.status = "passed") = (r.coverage.passed /\ r.mutation.passed)}

LEMMA CountIsNat ==
  ASSUME NEW f, IsFiniteSet(DOMAIN f), NEW A
  PROVE  Count(f, A) \in Nat
  <1> DEFINE S == {l \in DOMAIN f : f[l] \in A}
  <1>1. IsFiniteSet(S)
    BY FS_Subset
  <1>2. Cardinality(S) \in Nat
    BY <1>1, FS_CardinalityType
  <1> QED
    BY <1>2 DEF Count

LEMMA CountOfBoth ==
  ASSUME NEW f, IsFiniteSet(DOMAIN f), NEW A, NEW B, A \cap B = {}
  PROVE  Count(f, A \cup B) = Count(f, A) + Count(f, B)
  <1> DEFINE S == {l \in DOMAIN f : f[l] \in A}
             T == {l \in DOMAIN f : f[l] \in B}
             both == {l \in DOMAIN f : f[l] \in A \cup B}
  <1>1. IsFiniteSet(S) /\ IsFiniteSet(T)
    BY FS_Subset
  <1>2. both = S \cup T /\ S \cap T = {}
    OBVIOUS
  <1>3. Cardinality(S) \in Nat /\ Cardinality(T) \in Nat
    BY <1>1, FS_CardinalityType
  <1>4. Count(f, A) = Cardinality(S) /\ Count(f, B) = Cardinality(T) /\ Count(f, A \cup B) = Cardinality(both)
    BY DEF Count
  <1> HIDE DEF S, T, both
  <1>5. Cardinality(S \cup T) = Cardinality(S) + Cardinality(T) - Cardinality(S \cap T)
    BY <1>1, FS_Union
  <1>6. Cardinality(S \cap T) = 0
    BY <1>2, FS_EmptySet
  <1> QED
    BY <1>2, <1>3, <1>4, <1>5, <1>6

Counted == Statuses \ {"no tests", "skipped", "interrupted"}

LEMMA CountedStatuses ==
  ASSUME NEW f, IsFiniteSet(DOMAIN f)
  PROVE  Count(f, Counted) = Count(f, {"killed", "segfault"}) + Count(f, {"survived"})
                             + Count(f, {"timeout"}) + Count(f, {"suspicious"})
                             + Count(f, {"not checked"})
  <1> DEFINE A == {"killed", "segfault"}
             B == {"survived"}
             C == {"timeout"}
             D == {"suspicious"}
             E == {"not checked"}
  <1>1. Count(f, A \cup B) = Count(f, A) + Count(f, B)
    BY CountOfBoth
  <1>2. Count(f, (A \cup B) \cup C) = Count(f, A \cup B) + Count(f, C)
    BY CountOfBoth
  <1>3. Count(f, ((A \cup B) \cup C) \cup D) = Count(f, (A \cup B) \cup C) + Count(f, D)
    BY CountOfBoth
  <1>4. Count(f, (((A \cup B) \cup C) \cup D) \cup E) = Count(f, ((A \cup B) \cup C) \cup D) + Count(f, E)
    <2>1. (((A \cup B) \cup C) \cup D) \cap E = {}
      BY Zenon
    <2> HIDE DEF A, B, C, D, E
    <2> QED
      BY <2>1, CountOfBoth
  <1>5. Counted = (((A \cup B) \cup C) \cup D) \cup E
    BY DEF Counted, Statuses
  <1> QED
    BY <1>1, <1>2, <1>3, <1>4, <1>5

\* What a pass of the stage means for the mutants that count.
LEMMA SummaryIsFair ==
  ASSUME NEW fates, IsFiniteSet(DOMAIN fates), NEW said, NEW probe
  PROVE  LET m == MutationSummary(fates, said, probe)
         IN  /\ m \in Mutations /\ FairMutation(m)
             /\ m.passed => /\ ~broken
                            /\ 100 * Count(fates, {"killed", "segfault"}) >= MutGate * Count(fates, Counted)
  <1> DEFINE killed == Count(fates, {"killed", "segfault"})
             survivors == Count(fates, {"survived"})
             timeout == Count(fates, {"timeout"})
             suspicious == Count(fates, {"suspicious"})
             unchecked == Count(fates, {"not checked"})
             generated == Cardinality(DOMAIN fates)
             uncovered == IF said = "uncovered" THEN unchecked ELSE 0
             survived == survivors + uncovered
             noTests == Count(fates, {"no tests"})
             scored == generated - noTests - Count(fates, {"skipped"}) - (unchecked - uncovered)
             collectionFailed == generated > 0 /\ suspicious = generated /\ (said = "collection" \/ probe)
             backendFailed == \/ broken \/ unchecked - uncovered > 0
                              \/ generated = 0 /\ said \in {"failed", "stopped", "uncovered"}
             planFailed == generated > 0 /\ matched # generated
             unassociated == generated > 0 /\ scored = 0 /\ noTests > 0
                             /\ ~backendFailed /\ ~collectionFailed
             m == MutationSummary(fates, said, probe)
             fine == /\ Reaches(killed, killed + survived + timeout + suspicious, MutGate)
                     /\ ~backendFailed /\ ~collectionFailed /\ ~planFailed /\ ~unassociated
             why == CASE collectionFailed -> "mutation_test_collection_failed"
                      [] backendFailed /\ ~collectionFailed -> "mutation_backend_failed"
                      [] planFailed /\ ~backendFailed /\ ~collectionFailed
                           -> "mutation_candidate_plan_failed"
                      [] unassociated /\ ~planFailed -> "mutation_no_tests"
                      [] OTHER -> "none"
  <1>1. /\ killed \in Nat /\ survivors \in Nat /\ timeout \in Nat /\ suspicious \in Nat
        /\ unchecked \in Nat /\ generated \in Nat
    BY CountIsNat, FS_CardinalityType
  <1>2. Count(fates, Counted) = killed + survivors + timeout + suspicious + unchecked
    BY CountedStatuses
  <1>3. m = [generated |-> generated, killed |-> killed, survived |-> survived,
             timeout |-> timeout, suspicious |-> suspicious, passed |-> fine, reason |-> why]
    BY DEF MutationSummary
  <1> HIDE DEF killed, survivors, timeout, suspicious, unchecked, generated, m, collectionFailed,
               planFailed, unassociated
  <1>4. why \in Reasons /\ (fine => why = "none")
    <2> HIDE DEF backendFailed
    <2> QED
      BY DEF Reasons
  <1>5. uncovered \in Nat /\ (fine => uncovered = unchecked /\ ~broken)
    BY <1>1
  <1>6. Reaches(killed, killed + survived + timeout + suspicious, MutGate)
        => 100 * killed >= MutGate * (killed + survived + timeout + suspicious)
    <2> DEFINE d == killed + survived + timeout + suspicious
    <2>1. d \in Nat /\ MutGate \in Int
      BY <1>1, <1>5, GateAssumption
    <2> HIDE DEF d
    <2>2. d = 0 => MutGate * d = 0
      BY <2>1
    <2>3. Reaches(killed, d, MutGate) => 100 * killed >= MutGate * d
      BY <1>1, <2>1, <2>2 DEF Reaches
    <2> QED
      BY <2>3 DEF d
  <1>7. fine => Count(fates, Counted) = killed + survived + timeout + suspicious
    BY <1>1, <1>2, <1>5
  <1>8. fine \in BOOLEAN /\ survived \in Nat
    BY <1>1, <1>5
  <1>9. fine => 100 * killed >= MutGate * (killed + survived + timeout + suspicious)
    BY <1>6
  <1> HIDE DEF fine, why, survived, uncovered
  <1>10. m \in Mutations
    BY <1>1, <1>3, <1>4, <1>8 DEF Mutations
  <1>11. /\ m.passed = fine /\ m.reason = why /\ m.killed = killed
         /\ Weighed(m) = killed + survived + timeout + suspicious
    BY <1>3 DEF Weighed
  <1>12. FairMutation(m)
    BY <1>4, <1>9, <1>11 DEF FairMutation
  <1>13. m.passed => ~broken /\ 100 * killed >= MutGate * Count(fates, Counted)
    BY <1>5, <1>7, <1>9, <1>11
  <1> QED
    BY <1>10, <1>12, <1>13 DEF m, killed

\* What the targets judged so far and the first candidate's result may be.
VerdictsOK ==
    /\ PassesOK
    /\ results \in Seq(FairResults)
    /\ first = NoResult \/ (first \in FairResults /\ first.status = "failed")
    /\ gstep \in MutationSteps \cup {"setup"} => cov \in Summaries
    /\ gstep = "begin" => results = <<>>
    /\ gstep = "done" /\ status \in {"passed", "failed"} /\ results # <<>> =>
         (status = "passed") = \A i \in DOMAIN results : results[i].status = "passed"

LEMMA ResultIsFair ==
  ASSUME NEW s \in Summaries, NEW m \in Mutations, FairMutation(m)
  PROVE  /\ Result(s, m) \in FairResults
         /\ Result(s, m).status = "passed" => m.passed
  BY DEF Result, FairResults, Summaries, Mutations

LEMMA NoMutationIsFair ==
  ASSUME NEW passed \in BOOLEAN,
         NEW reason \in {"no_mutatable_candidates", "not_run", "coverage_not_passed"}
  PROVE  NoMutation(passed, reason) \in Mutations /\ FairMutation(NoMutation(passed, reason))
  <1> DEFINE m == NoMutation(passed, reason)
  <1>1. m = [generated |-> 0, killed |-> 0, survived |-> 0, timeout |-> 0, suspicious |-> 0,
             passed |-> passed, reason |-> reason]
    BY DEF NoMutation
  <1>2. m \in Mutations
    BY <1>1 DEF Mutations, Reasons
  <1>3. m.killed = 0 /\ Weighed(m) = 0 /\ m.reason = reason
    BY <1>1 DEF Weighed
  <1>4. MutGate * 0 = 0
    BY GateAssumption
  <1>5. FairMutation(m)
    BY <1>3, <1>4 DEF FairMutation
  <1> QED
    BY <1>2, <1>5 DEF m

\* A target is added with a result that passed only if this candidate's did.
LEMMA JudgedResults ==
  ASSUME VerdictsOK, NEW verdict \in FairResults, TargetJudged(verdict)
  PROVE  /\ results' \in Seq(FairResults)
         /\ first' = NoResult \/ (first' \in FairResults /\ first'.status = "failed")
         /\ gstep' \in {"target", "overlay"}
         /\ Len(results') > Len(results) /\ Last(results').status = "passed" => verdict.status = "passed"
  <1> DEFINE chosen == IF verdict.status = "passed" \/ first = NoResult THEN verdict ELSE first
             over == verdict.status = "passed" \/ c = Len(StrictTestCandidates(Target))
  <1>1. chosen \in FairResults /\ (chosen.status = "passed" => verdict.status = "passed")
    BY DEF VerdictsOK
  <1>2. \/ over /\ results' = Append(results, chosen) /\ first' = NoResult /\ gstep' = "target"
        \/ ~over /\ first' = chosen /\ gstep' = "overlay" /\ results' = results
    BY DEF TargetJudged
  <1>3. verdict.status \in {"passed", "failed"} /\ (~over => verdict.status # "passed")
    BY DEF FairResults
  <1> HIDE DEF over
  <1>4. CASE results' = Append(results, chosen) /\ first' = NoResult /\ gstep' = "target"
    <2> HIDE DEF chosen
    <2>1. results' \in Seq(FairResults) /\ Len(results') = Len(results) + 1
          /\ results'[Len(results')] = chosen
      BY <1>1, <1>4 DEF VerdictsOK
    <2> QED
      BY <1>1, <1>4, <2>1 DEF Last
  <1>5. CASE ~over /\ first' = chosen /\ gstep' = "overlay" /\ results' = results
    <2>1. chosen.status = "failed"
      BY <1>3, <1>5 DEF VerdictsOK
    <2> HIDE DEF chosen
    <2>2. Len(results') = Len(results) /\ Len(results) \in Nat
      BY <1>5 DEF VerdictsOK
    <2> QED
      BY <1>1, <1>5, <2>1, <2>2 DEF VerdictsOK
  <1> QED
    BY <1>2, <1>4, <1>5

\* Steps that judge nothing.
LEMMA VerdictsKept ==
  ASSUME VerdictsOK, PassesOK', results' = results, first' = first,
         gstep' \in MutationSteps \cup {"setup"} =>
           cov' = cov /\ gstep \in MutationSteps \cup {"setup"},
         gstep' \notin {"begin", "done"}
  PROVE  VerdictsOK'
  BY DEF VerdictsOK

LEMMA VerdictsStep ==
  ASSUME VerdictsOK, [GNext]_gvars
  PROVE  VerdictsOK'
  <1> USE DEF MutationSteps
  <1>1. PassesOK'
    BY PassesStep DEF VerdictsOK
  <1>2. CASE StartGate
    <2>1. gstep = "begin" /\ gstep' \in {"done", "target"} /\ results' = results /\ first' = first
      BY <1>2 DEF StartGate
    <2> QED
      BY <1>1, <2>1 DEF VerdictsOK
  <1>3. CASE StartTarget
    <2>1. /\ gstep = "target" /\ gstep' \in {"target", "overlay"} /\ first' = first
          /\ \/ results' = results
             \/ results' = Append(results, Result([tests |-> TRUE, passed |-> TRUE], NoMutation(TRUE, "not_run")))
             \/ results' = Append(results, Result([tests |-> TRUE, passed |-> FALSE], NoMutation(FALSE, "not_run")))
      BY <1>3 DEF StartTarget
    <2> DEFINE empty == Result([tests |-> TRUE, passed |-> TRUE], NoMutation(TRUE, "not_run"))
               untested == Result([tests |-> TRUE, passed |-> FALSE], NoMutation(FALSE, "not_run"))
    <2>2. empty \in FairResults /\ untested \in FairResults
      <3>1. [tests |-> TRUE, passed |-> TRUE] \in Summaries /\ [tests |-> TRUE, passed |-> FALSE] \in Summaries
        BY DEF Summaries
      <3> QED
        BY <3>1, NoMutationIsFair, ResultIsFair
    <2>3. results' = results \/ results' = Append(results, empty) \/ results' = Append(results, untested)
      BY <2>1
    <2> HIDE DEF empty, untested
    <2>4. results' \in Seq(FairResults)
      BY <2>2, <2>3 DEF VerdictsOK
    <2> QED
      BY <1>1, <2>1, <2>4 DEF VerdictsOK
  <1>4. CASE PrepareOverlay
    BY <1>1, <1>4, VerdictsKept DEF PrepareOverlay, gateVars
  <1>5. CASE DropUnavailable
    BY <1>1, <1>5, VerdictsKept DEF DropUnavailable, gateVars
  <1>6. CASE InstallManifest
    BY <1>1, <1>6, VerdictsKept DEF InstallManifest, gateVars
  <1>7. CASE InstallFails
    BY <1>1, <1>7, VerdictsKept DEF InstallFails, gateVars
  <1>8. CASE Coverage
    <2>1. PICK kind \in {"tests_failed", "no_report", "absent", "report"},
               hits \in 0..Cardinality(Target.changed \cap Target.executable) :
            LET summary == CoverageSummary(Target, kind, hits)
            IN  \/ TargetJudged(Result(summary, NoMutation(TRUE, "no_mutatable_candidates")))
                \/ cov' = summary /\ gstep' = "setup" /\ UNCHANGED <<first, results>>
                \/ TargetJudged(Result(summary, NoMutation(FALSE, "coverage_not_passed")))
      BY <1>8 DEF Coverage
    <2> DEFINE summary == CoverageSummary(Target, kind, hits)
    <2>2. summary \in Summaries
      BY DEF CoverageSummary, Summaries, Reaches
    <2>3. /\ Result(summary, NoMutation(TRUE, "no_mutatable_candidates")) \in FairResults
          /\ Result(summary, NoMutation(FALSE, "coverage_not_passed")) \in FairResults
      <3> HIDE DEF summary
      <3> QED
        BY <2>2, NoMutationIsFair, ResultIsFair
    <2> HIDE DEF summary
    <2>4. CASE \E verdict \in FairResults : TargetJudged(verdict)
      <3>1. /\ results' \in Seq(FairResults) /\ gstep' \in {"target", "overlay"}
            /\ first' = NoResult \/ (first' \in FairResults /\ first'.status = "failed")
        BY <2>4, JudgedResults
      <3> QED
        BY <1>1, <3>1 DEF VerdictsOK
    <2>5. CASE cov' = summary /\ gstep' = "setup" /\ UNCHANGED <<first, results>>
      BY <1>1, <2>2, <2>5 DEF VerdictsOK
    <2> QED
      BY <2>1, <2>3, <2>4, <2>5 DEF summary
  <1>9. CASE Setup
    BY <1>1, <1>9, VerdictsKept DEF Setup, gateVars
  <1>10. CASE Generate
    BY <1>1, <1>10, VerdictsKept DEF Generate, gateVars
  <1>11. CASE Score
    BY <1>1, <1>11, VerdictsKept DEF Score, gateVars
  <1>12. CASE Collect
    BY <1>1, <1>12, VerdictsKept DEF Collect, gateVars
  <1>13. CASE Judge
    <2>1. PICK probe \in BOOLEAN : TargetJudged(Result(cov, MutationSummary(totals, output, probe)))
      BY <1>13 DEF Judge
    <2>2. gstep = "judge"
      BY <1>13 DEF Judge
    <2>3. Result(cov, MutationSummary(totals, output, probe)) \in FairResults
      BY <2>2, SummaryIsFair, ResultIsFair DEF VerdictsOK, PassesOK
    <2>4. /\ results' \in Seq(FairResults) /\ gstep' \in {"target", "overlay"}
          /\ first' = NoResult \/ (first' \in FairResults /\ first'.status = "failed")
      BY <2>1, <2>3, JudgedResults
    <2> QED
      BY <1>1, <2>4 DEF VerdictsOK
  <1>14. CASE Abort
    BY <1>1, <1>14, VerdictsKept DEF Abort, gateVars
  <1>15. CASE Finish
    BY <1>1, <1>15 DEF Finish, VerdictsOK
  <1>16. CASE Crash
    BY <1>1, <1>16 DEF Crash, VerdictsOK
  <1>17. CASE UNCHANGED gvars
    BY <1>1, <1>17 DEF gvars, VerdictsOK
  <1> QED
    BY <1>2, <1>3, <1>4, <1>5, <1>6, <1>7, <1>8, <1>9, <1>10, <1>11, <1>12, <1>13, <1>14, <1>15,
       <1>16, <1>17 DEF GNext

LEMMA VerdictsInv == GSpec => []VerdictsOK
  <1>1. ASSUME GInit PROVE VerdictsOK
    <2>1. PassesOK
      BY <1>1, PassesInit
    <2>2. gstep = "begin" /\ results = <<>> /\ first = NoResult
      BY <1>1 DEF GInit
    <2> QED
      BY <2>1, <2>2 DEF VerdictsOK, MutationSteps
  <1> QED
    BY <1>1, VerdictsStep, PTL DEF GSpec

\* A target passes its mutation stage only if every pass generated its mutants
\* and the tests killed the gate's share of all mutants that count
\* (mutation.py: run_mutation over the merged passes).
THEOREM EveryPassIsEarned == GSpec => PassIsEarned
  <1>1. ASSUME VerdictsOK, [GNext]_gvars, gstep = "judge", gstep' = "target",
               Len(results') > Len(results), Last(results').status = "passed"
        PROVE  /\ ~history.failed
               /\ 100 * Count(history.fates, {"killed", "segfault"})
                    >= MutGate * Count(history.fates, Counted)
    <2>1. Judge
      <3>1. ~UNCHANGED gvars
        BY <1>1 DEF gvars
      <3> QED
        BY <1>1, <3>1 DEF GNext, StartGate, StartTarget, PrepareOverlay, DropUnavailable, InstallManifest,
           InstallFails, Coverage, Setup, Generate, Score, Collect, Abort, Finish, Crash
    <2>2. PICK probe \in BOOLEAN : TargetJudged(Result(cov, MutationSummary(totals, output, probe)))
      BY <2>1 DEF Judge
    <2> DEFINE m == MutationSummary(totals, output, probe)
    <2>3. totals = history.fates /\ IsFiniteSet(DOMAIN totals) /\ cov \in Summaries
          /\ (history.failed => broken)
      BY <1>1 DEF VerdictsOK, PassesOK, MutationSteps
    <2>4. /\ m \in Mutations /\ FairMutation(m)
          /\ m.passed => /\ ~broken
                         /\ 100 * Count(totals, {"killed", "segfault"}) >= MutGate * Count(totals, Counted)
      BY <2>3, SummaryIsFair
    <2> HIDE DEF m
    <2>5. Result(cov, m) \in FairResults /\ (Result(cov, m).status = "passed" => m.passed)
      BY <2>3, <2>4, ResultIsFair
    <2>6. TargetJudged(Result(cov, m))
      BY <2>2 DEF m
    <2>7. Result(cov, m).status = "passed"
      BY <1>1, <2>5, <2>6, JudgedResults
    <2> QED
      BY <2>3, <2>4, <2>5, <2>7
  <1>2. VerdictsOK /\ [GNext]_gvars =>
          [gstep = "judge" /\ gstep' = "target" /\ Len(results') > Len(results)
             /\ Last(results').status = "passed"
           => LET fates == history.fates
                  counted == Statuses \ {"no tests", "skipped", "interrupted"}
              IN  /\ ~history.failed
                  /\ 100 * Count(fates, {"killed", "segfault"}) >= MutGate * Count(fates, counted)]_gvars
    BY <1>1, Zenon DEF Counted
  <1> QED
    BY <1>2, VerdictsInv, PTL DEF GSpec, PassIsEarned

-----------------------------------------------------------------------------
(* The verdict of the run and the aggregates.                              *)

\* f adds the numbers up.
Adds(number, f) ==
    /\ f \in [0..Len(results) -> Nat] /\ f[0] = 0
    /\ \A i \in 1..Len(results) : f[i] = f[i - 1] + number[i]

LEMMA TotalIsSum ==
  ASSUME results \in Seq(FairResults), NEW number, \A i \in 1..Len(results) : number[i] \in Nat
  PROVE  \E f : Adds(number, f) /\ Total(number) = f[Len(results)]
  <1> DEFINE n == Len(results)
             next == [i \in 1..n |-> [x \in Nat |-> x + number[i]]]
             sum == CHOOSE f : f = [i \in 0..n |-> IF i = 0 THEN 0 ELSE f[i - 1] + number[i]]
  <1>1. n \in Nat
    OBVIOUS
  <1>2. Total(number) = sum[n]
    BY DEF Total
  <1> HIDE DEF n
  <1>3. \A i \in 1..n, x \in Nat : next[i][x] = x + number[i] /\ next[i][x] \in Nat
    BY DEF n
  <1> HIDE DEF next
  <1>4. PICK f : Iterates(n, Nat, 0, next, f)
    BY <1>1, <1>3, Recursion
  <1>5. f \in [0..n -> Nat] /\ f[0] = 0 /\ \A i \in 1..n : f[i] = next[i][f[i - 1]]
    BY <1>4 DEF Iterates
  <1>6. ASSUME NEW i \in 1..n PROVE f[i] = f[i - 1] + number[i]
    <2>1. i - 1 \in 0..n
      BY <1>1
    <2>2. f[i - 1] \in Nat
      BY <1>5, <2>1
    <2>3. next[i][f[i - 1]] = f[i - 1] + number[i]
      BY <1>3, <2>2, Zenon
    <2> QED
      BY <1>5, <2>3, Zenon
  <1>7. f = [i \in 0..n |-> IF i = 0 THEN 0 ELSE f[i - 1] + number[i]]
    BY <1>1, <1>5, <1>6
  <1>8. sum = [i \in 0..n |-> IF i = 0 THEN 0 ELSE sum[i - 1] + number[i]]
    BY <1>7
  <1> HIDE DEF sum
  <1>9. sum[0] = 0 /\ \A i \in 1..n : sum[i] = sum[i - 1] + number[i]
    BY <1>1, <1>8
  <1> DEFINE S == {i \in 0..n : sum[i] = f[i]}
  <1>10. 0 \in S
    BY <1>1, <1>5, <1>9
  <1>11. ASSUME NEW i \in 1..n, i - 1 \in S PROVE i \in S
    BY <1>6, <1>9, <1>11
  <1> HIDE DEF S
  <1>12. \A i \in 0..n : i \in S
    BY <1>1, <1>10, <1>11, CountingUp
  <1>13. sum[n] = f[n]
    BY <1>1, <1>12 DEF S
  <1>14. Adds(number, f)
    BY <1>5, <1>6 DEF Adds, n
  <1> QED
    BY <1>2, <1>13, <1>14 DEF n

\* When each target reaches the gate, all of them together do.
LEMMA TotalsReach ==
  ASSUME results \in Seq(FairResults), NEW a, NEW b,
         \A i \in 1..Len(results) : a[i] \in Nat /\ b[i] \in Nat /\ 100 * a[i] >= MutGate * b[i]
  PROVE  Reaches(Total(a), Total(b), MutGate)
  <1> DEFINE n == Len(results)
  <1>1. n \in Nat
    OBVIOUS
  <1>2. PICK f : Adds(a, f) /\ Total(a) = f[n]
    BY TotalIsSum
  <1>3. PICK g : Adds(b, g) /\ Total(b) = g[n]
    BY TotalIsSum
  <1>4. /\ f \in [0..n -> Nat] /\ f[0] = 0 /\ \A i \in 1..n : f[i] = f[i - 1] + a[i]
        /\ g \in [0..n -> Nat] /\ g[0] = 0 /\ \A i \in 1..n : g[i] = g[i - 1] + b[i]
        /\ \A i \in 1..n : a[i] \in Nat /\ b[i] \in Nat /\ 100 * a[i] >= MutGate * b[i]
    BY <1>2, <1>3 DEF Adds
  <1>5. MutGate \in Int
    BY GateAssumption
  <1> DEFINE S == {i \in 0..n : 100 * f[i] >= MutGate * g[i]}
  <1> HIDE DEF n
  <1>6. 0 \in S
    <2>1. MutGate * 0 = 0
      BY <1>5
    <2> QED
      BY <1>1, <1>4, <2>1
  <1>7. ASSUME NEW i \in 1..n, i - 1 \in S PROVE i \in S
    <2>1. i - 1 \in 0..n
      BY <1>1
    <2>2. f[i - 1] \in Nat /\ g[i - 1] \in Nat /\ a[i] \in Nat /\ b[i] \in Nat
      BY <1>4, <2>1
    <2>3. PICK x \in Nat, y \in Nat, v \in Nat, w \in Nat : x = f[i - 1] /\ y = g[i - 1] /\ v = a[i] /\ w = b[i]
      BY <2>2, Zenon
    <2>4. 100 * x >= MutGate * y /\ 100 * v >= MutGate * w
      BY <1>4, <1>7, <2>3
    <2>5. MutGate * (y + w) = MutGate * y + MutGate * w
      BY <1>5
    <2>6. MutGate * y \in Int /\ MutGate * w \in Int
      BY <1>5
    <2>7. 100 * (x + v) >= MutGate * (y + w)
      BY <2>4, <2>5, <2>6
    <2>8. f[i] = x + v /\ g[i] = y + w
      BY <1>4, <2>3
    <2> QED
      BY <2>7, <2>8
  <1> HIDE DEF S
  <1>8. \A i \in 0..n : i \in S
    BY <1>1, <1>6, <1>7, CountingUp
  <1>9. 100 * f[n] >= MutGate * g[n]
    BY <1>1, <1>8 DEF S
  <1> QED
    BY <1>2, <1>3, <1>9 DEF Reaches

\* The verdict of the run, taken target by target, and the aggregates of the
\* same evidence say the same (enforce, aggregate_coverage, aggregate_mutation).
THEOREM LanesSayTheSame == GSpec => []LanesAgree
  <1>1. ASSUME VerdictsOK, gstep = "done", status \in {"passed", "failed"}, results # <<>>
        PROVE  (status = "passed") = (AggregateCoverage /\ AggregateMutation)
    <2>1. DOMAIN results = 1..Len(results) /\ \A i \in DOMAIN results : results[i] \in FairResults
      BY <1>1 DEF VerdictsOK
    <2>2. \A i \in DOMAIN results :
            /\ FairMutation(results[i].mutation) /\ results[i].mutation \in Mutations
            /\ (results[i].status = "passed") = (results[i].coverage.passed /\ results[i].mutation.passed)
      BY <2>1 DEF FairResults
    <2>3. (status = "passed") = \A i \in DOMAIN results : results[i].status = "passed"
      BY <1>1 DEF VerdictsOK
    <2>4. ASSUME \A i \in DOMAIN results : results[i].mutation.passed
          PROVE  Reaches(Total(KilledMutants), Total(ScoredMutants), MutGate)
      <3>1. ASSUME NEW i \in 1..Len(results)
            PROVE  /\ KilledMutants[i] \in Nat /\ ScoredMutants[i] \in Nat
                   /\ 100 * KilledMutants[i] >= MutGate * ScoredMutants[i]
        <4> DEFINE m == results[i].mutation
        <4>1. KilledMutants[i] = m.killed /\ ScoredMutants[i] = Weighed(m)
          BY <2>1 DEF KilledMutants, ScoredMutants, Weighed
        <4>2. m \in Mutations /\ 100 * m.killed >= MutGate * Weighed(m)
          BY <2>1, <2>2, <2>4 DEF FairMutation
        <4> HIDE DEF m
        <4>3. m.killed \in Nat /\ Weighed(m) \in Nat
          BY <4>2 DEF Mutations, Weighed
        <4> QED
          BY <4>1, <4>2, <4>3
      <3> QED
        BY <1>1, <3>1, TotalsReach DEF VerdictsOK
    <2>5. (\A i \in DOMAIN results : results[i].status = "passed")
          => AggregateCoverage /\ AggregateMutation
      BY <2>2, <2>4 DEF AggregateCoverage, AggregateMutation, FairMutation
    <2>6. AggregateCoverage /\ AggregateMutation
          => \A i \in DOMAIN results : results[i].status = "passed"
      BY <2>2 DEF AggregateCoverage, AggregateMutation
    <2> QED
      BY <2>3, <2>5, <2>6
  <1>2. VerdictsOK => LanesAgree
    BY <1>1 DEF LanesAgree
  <1> QED
    BY <1>2, VerdictsInv, PTL
=============================================================================

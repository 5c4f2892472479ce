-------------------------- MODULE VerificationProofs --------------------------
(***************************************************************************)
(* What the verification of a target, the commands it runs, the tree its   *)
(* mutants run in, the report of a check, the review of its survivors, the *)
(* brief of a repair turn and the closing of the session that asked for    *)
(* the repair promise, for any targets, files, imports, mutants, symbols,  *)
(* interpreters, rows and bounds.                                          *)
(***************************************************************************)
EXTENDS PythonVerification, ToolProcess, PythonReport, EquivalenceReview, RepairClosure,
        MutationRounds, MutantWorkspace, FiniteSetTheorems, FunctionTheorems, WellFoundedInduction, TLAPS

-------------------------------------------------------------------------------
(* The closing of a session.  The invariant: as long as there was no rerun, *)
(* what the full-cap gate found wanting is what the record names, once the *)
(* task may be made from it.                                               *)

OwedIsRecorded == owed \subseteq _repair_targets(record)

ClosureOK ==
    /\ reruns \in Nat /\ owed \subseteq GateTargets
    /\ stage = "requested" => record.kind = "failed" /\ (~record.report => OwedIsRecorded)
    /\ stage = "refreshed" => (record.kind \in {"failed", "listed"} => OwedIsRecorded)
    /\ stage = "repairing" /\ reruns = 0 => OwedIsRecorded
    /\ stage = "rerun_failed" => reruns # 0
    /\ closedBy = "task" => stage = "green"
    /\ FirstCloseIsVerified

\* A failure with evidence owes what the record names.
LEMMA FailureOwes ==
  ASSUME NEW r, r.kind = "failed"
  PROVE  _repair_targets(r) = Weak(r.items) /\ Weak(r.items) \subseteq GateTargets
  BY DEF _repair_targets, Weak

LEMMA FailureKinds ==
  /\ \A r \in FullFailures : r.kind = "failed" /\ ~r.report
  /\ \A r \in SampledFailures : r.kind = "failed" /\ r.report
  /\ \A r \in Silent : r.kind # "failed"
  BY DEF FullFailures, SampledFailures, Silent, FailedGate, Passed, Bare, Exhausted, Listed

LEMMA ClosureInit == QInit => ClosureOK
  <1> SUFFICES ASSUME QInit PROVE ClosureOK
    OBVIOUS
  <1>1. record.kind = "failed"
    BY FailureKinds DEF QInit
  <1>2. owed \subseteq GateTargets /\ (~record.report => OwedIsRecorded)
    BY <1>1, FailureOwes DEF QInit, OwedIsRecorded
  <1> QED
    BY <1>1, <1>2 DEF QInit, ClosureOK, FirstCloseIsVerified

LEMMA ClosureNext == ClosureOK /\ [QNext]_qvars => ClosureOK'
  <1> SUFFICES ASSUME ClosureOK, [QNext]_qvars PROVE ClosureOK'
    OBVIOUS
  <1>1. CASE run_repair_preflight
    <2>1. PICK r \in FullFailures \cup Silent :
            IF r.kind = "passed"
            THEN /\ stage' = "green" /\ closedBy' = "gate"
                 /\ UNCHANGED <<record, owed>>
            ELSE /\ record' = r /\ stage' = "refreshed"
                 /\ owed' = IF r.kind = "failed" THEN Weak(r.items) ELSE owed
                 /\ UNCHANGED closedBy
      BY <1>1 DEF run_repair_preflight
    <2>2. CASE r.kind = "passed"
      BY <1>1, <2>1, <2>2
      DEF run_repair_preflight, ClosureOK, FirstCloseIsVerified
    <2>3. CASE r.kind = "failed"
      <3>1. record' = r /\ stage' = "refreshed" /\ owed' = Weak(r.items) /\ closedBy' = closedBy
        BY <2>1, <2>3
      <3>2. closedBy # "task" /\ owed' \subseteq GateTargets /\ OwedIsRecorded'
        BY <1>1, <2>3, <3>1, FailureOwes DEF run_repair_preflight, ClosureOK, OwedIsRecorded
      <3> QED
        BY <1>1, <3>1, <3>2 DEF run_repair_preflight, ClosureOK, FirstCloseIsVerified
    <2>4. CASE r.kind \notin {"passed", "failed"}
      <3>1. record' = r /\ stage' = "refreshed" /\ owed' = owed /\ closedBy' = closedBy
        BY <2>1, <2>4
      <3>2. r.kind = "listed" => _repair_targets(r) = GateTargets
        BY DEF _repair_targets
      <3>3. closedBy # "task" /\ (record'.kind \in {"failed", "listed"} => OwedIsRecorded')
        BY <1>1, <2>4, <3>1, <3>2 DEF run_repair_preflight, ClosureOK, OwedIsRecorded
      <3> QED
        BY <1>1, <3>1, <3>3 DEF run_repair_preflight, ClosureOK, FirstCloseIsVerified
    <2> QED
      BY <2>2, <2>3, <2>4
  <1>2. CASE create_repair_task
    <2>1. closedBy' # "task" /\ UNCHANGED <<record, reruns, owed>>
          /\ stage' \in {"refused", "repairing"}
      BY <1>2 DEF create_repair_task, ClosureOK
    <2>2. stage' = "repairing" => OwedIsRecorded'
      BY <1>2, <2>1 DEF create_repair_task, ClosureOK, OwedIsRecorded, ChangedLinesKnown
    <2> QED
      BY <2>1, <2>2 DEF ClosureOK, FirstCloseIsVerified
  <1>3. CASE PollCloses
    <2>1. reruns = 0 => stage = "repairing" /\ OwedIsRecorded
      BY <1>3 DEF PollCloses, ClosureOK
    <2>2. _repair_targets(record) \subseteq DOMAIN rows /\ \A t \in DOMAIN rows : rows[t].status = "PASS"
      BY <1>3 DEF PollCloses, completed_task_enforcement_result, Completed, RowsCoverRecord
    <2>3. reruns = 0 => Unverified = {}
      BY <2>1, <2>2 DEF Unverified, OwedIsRecorded
    <2>4. reruns' = 0 => Unverified' = {}
      BY <1>3, <2>3 DEF PollCloses, Unverified
    <2> QED
      BY <1>3, <2>4 DEF PollCloses, ClosureOK, FirstCloseIsVerified
  <1>4. CASE PollFails
    BY <1>4 DEF PollFails, ClosureOK, FirstCloseIsVerified
  <1>5. CASE PollReruns
    <2>1. PICK r : /\ record' = r
                   /\ stage' = IF r.kind = "passed" THEN "green" ELSE "rerun_failed"
                   /\ closedBy' = IF r.kind = "passed" THEN "gate" ELSE closedBy
                   /\ owed' = IF r.kind = "failed" /\ ~r.report THEN Weak(r.items) ELSE owed
      BY <1>5 DEF PollReruns
    <2>2. reruns' \in Nat /\ reruns' # 0 /\ closedBy' # "task"
      BY <1>5, <2>1 DEF PollReruns, ClosureOK
    <2>3. owed' \subseteq GateTargets
      BY <2>1 DEF ClosureOK, Weak
    <2> QED
      BY <2>1, <2>2, <2>3 DEF ClosureOK, FirstCloseIsVerified
  <1>6. ASSUME NEW t \in GateTargets, RowEnds(t) PROVE ClosureOK'
    BY <1>6 DEF RowEnds, ClosureOK, OwedIsRecorded, FirstCloseIsVerified
  <1>7. CASE UNCHANGED qvars
    BY <1>7 DEF qvars, ClosureOK, OwedIsRecorded, FirstCloseIsVerified, Unverified
  <1> QED
    BY <1>1, <1>2, <1>3, <1>4, <1>5, <1>6, <1>7 DEF QNext

\* A session that its task's rows turn green at the first poll has a passed
\* row for every target the full-cap gate found wanting (FirstCloseIsVerified),
\* for any targets, evidence and rows: the rows must cover the record, and a
\* record without evidence makes no task
\* (completed_task_enforcement_result, create_repair_task).
THEOREM FirstCloseIsEarned == QSpec => []FirstCloseIsVerified
  <1>1. ClosureOK => FirstCloseIsVerified
    BY DEF ClosureOK
  <1> QED
    BY <1>1, ClosureInit, ClosureNext, PTL DEF QSpec
-------------------------------------------------------------------------------
(* The verification of a target.  The invariant follows the phase: nothing *)
(* is counted before it starts; a batch that was mapped has run once the   *)
(* phase asks for the next; a tally without an aborted run is complete;    *)
(* and the lines in scope are known wherever there is no failure.          *)

Tallies == [Fates -> Nat]

Gens == [meta : Int, exit : Int, mapped : BOOLEAN, eligible : BOOLEAN, error : BOOLEAN]

Muts == [mode : {None, "legacy", "batch", "single"}, left : Int, gen : Gens,
         tally : Tallies, total : Int, mapped : BOOLEAN, eligible : BOOLEAN,
         failed : BOOLEAN, exit : Int, zero : BOOLEAN, attributed : Int, aborted : BOOLEAN]

MutOK == mut \in Muts

Started == {"generate", "run", "restore"}

\* A phase of the modern lane, between Apply and the verdict.
PhaseOK ==
    pc \in Started /\ mut.mode \in {"batch", "single"} =>
        /\ env.changed = "lines" \/ (pc = "restore" /\ mut.failed)
        /\ ~mut.zero /\ (~mut.aborted => mut.tally["unchecked"] = 0)
        /\ mut.mode = "batch" => mut.exit = 0
        /\ mut.mode = "batch" /\ pc # "run" /\ mut.mapped /\ ~mut.failed
              => Generated(mut.tally) > 0
        /\ mut.mode = "single" /\ mut.mapped => mut.gen.meta > 0

VerificationOK ==
    /\ pc \in {"setup", "python", "pytest", "coverage", "compile", "tests", "coverage_verdict",
               "preflight", "filter", "apply", "partition", "done"} \cup Started
    /\ MutOK
    /\ env.changed \in {"unknown", "low_value", "lines"}
    /\ pc \notin Started \cup {"filter", "apply", "partition", "done"} => mut = NoMut
    /\ pc \in {"filter", "apply", "partition"} => mut = [NoMut EXCEPT !.mode = mut.mode]
    /\ pc = "apply" => env.changed # "low_value"
    /\ pc = "partition" => mut.mode = "batch" /\ env.changed = "lines"
    /\ pc # "done" => result = Open
    /\ PhaseOK
    /\ PassIsMeasured

LEMMA MutUpdates ==
  ASSUME NEW m \in Muts
  PROVE  /\ \A x \in Int : /\ [m EXCEPT !.left = x] \in Muts
                           /\ [m EXCEPT !.total = x] \in Muts
                           /\ [m EXCEPT !.exit = x] \in Muts
                           /\ [m EXCEPT !.attributed = x] \in Muts
         /\ \A b \in BOOLEAN : /\ [m EXCEPT !.mapped = b] \in Muts
                               /\ [m EXCEPT !.eligible = b] \in Muts
                               /\ [m EXCEPT !.failed = b] \in Muts
                               /\ [m EXCEPT !.zero = b] \in Muts
                               /\ [m EXCEPT !.aborted = b] \in Muts
         /\ \A t \in Tallies : [m EXCEPT !.tally = t] \in Muts
         /\ \A g \in Gens : [m EXCEPT !.gen = g] \in Muts
  <1>1. \A x \in Int : [m EXCEPT !.left = x] \in Muts
    BY DEF Muts
  <1>2. \A x \in Int : [m EXCEPT !.total = x] \in Muts
    BY DEF Muts
  <1>3. \A x \in Int : [m EXCEPT !.exit = x] \in Muts
    BY DEF Muts
  <1>4. \A x \in Int : [m EXCEPT !.attributed = x] \in Muts
    BY DEF Muts
  <1>5. \A b \in BOOLEAN : [m EXCEPT !.mapped = b] \in Muts
    BY DEF Muts
  <1>6. \A b \in BOOLEAN : [m EXCEPT !.eligible = b] \in Muts
    BY DEF Muts
  <1>7. \A b \in BOOLEAN : [m EXCEPT !.failed = b] \in Muts
    BY DEF Muts
  <1>8. \A b \in BOOLEAN : [m EXCEPT !.zero = b] \in Muts
    BY DEF Muts
  <1>9. \A b \in BOOLEAN : [m EXCEPT !.aborted = b] \in Muts
    BY DEF Muts
  <1>10. \A t \in Tallies : [m EXCEPT !.tally = t] \in Muts
    BY DEF Muts
  <1>11. \A g \in Gens : [m EXCEPT !.gen = g] \in Muts
    BY DEF Muts
  <1> QED
    BY <1>1, <1>2, <1>3, <1>4, <1>5, <1>6, <1>7, <1>8, <1>9, <1>10, <1>11, Zenon

\* A mutation run's tally counts mutants, and one that was not aborted has
\* none it did not reach.
LEMMA RunsCount ==
  ASSUME NEW n \in Int, NEW r \in MutantRuns(n)
  PROVE  /\ r.tally \in Tallies /\ r.exit \in Int /\ r.aborted \in BOOLEAN
         /\ ~r.aborted => r.tally["unchecked"] = 0
  <1> DEFINE tallies == {t \in [Fates -> 0..n] : Generated(t) = n}
             complete == {t \in tallies : t["unchecked"] = 0}
  <1>1. \A t \in tallies : t \in Tallies
    BY DEF Tallies
  <1>2. NoTally \in Tallies /\ NoTally["unchecked"] = 0
    BY DEF NoTally, Tallies, Fates
  <1>3. \/ \E t \in complete : r = [tally |-> t, exit |-> 0, noAssoc |-> FALSE, aborted |-> FALSE]
        \/ \E t \in tallies : r = [tally |-> t, exit |-> 1, noAssoc |-> FALSE, aborted |-> TRUE]
        \/ \E e \in {1, 124} : r = [tally |-> NoTally, exit |-> e, noAssoc |-> FALSE, aborted |-> FALSE]
        \/ r = [tally |-> NoTally, exit |-> 1, noAssoc |-> TRUE, aborted |-> FALSE]
    BY DEF MutantRuns
  <1>4. \A t \in complete : t \in tallies /\ t["unchecked"] = 0
    OBVIOUS
  <1> HIDE DEF tallies, complete
  <1>5. CASE \E t \in complete : r = [tally |-> t, exit |-> 0, noAssoc |-> FALSE, aborted |-> FALSE]
    BY <1>1, <1>4, <1>5
  <1>6. CASE \E t \in tallies : r = [tally |-> t, exit |-> 1, noAssoc |-> FALSE, aborted |-> TRUE]
    BY <1>1, <1>6
  <1>7. CASE \E e \in {1, 124} : r = [tally |-> NoTally, exit |-> e, noAssoc |-> FALSE, aborted |-> FALSE]
    BY <1>2, <1>7
  <1>8. CASE r = [tally |-> NoTally, exit |-> 1, noAssoc |-> TRUE, aborted |-> FALSE]
    BY <1>2, <1>8
  <1> QED
    BY <1>3, <1>5, <1>6, <1>7, <1>8

\* So does what is made of it when no test could be associated.
LEMMA ReconcileCounts ==
  ASSUME NEW t \in Tallies, NEW meta \in Int, NEW noAssoc
  PROVE  /\ Reconcile(t, meta, noAssoc) \in Tallies
         /\ t["unchecked"] = 0 => Reconcile(t, meta, noAssoc)["unchecked"] = 0
  BY DEF Reconcile, NoTally, Tallies, Fates

LEMMA CountIsNatural ==
  ASSUME NEW t \in Tallies
  PROVE  /\ Generated(t) \in Nat /\ Scored(t) \in Nat
         /\ Generated(t) = Scored(t) + t["no_tests"] + t["skipped"] + t["unchecked"]
         /\ \A f \in Fates : t[f] \in Nat
  BY DEF Generated, Scored, Tallies, Fates

LEMMA MergeCounts ==
  ASSUME NEW a \in Tallies, NEW b \in Tallies
  PROVE  /\ Merge(a, b) \in Tallies
         /\ Generated(Merge(a, b)) = Generated(a) + Generated(b)
         /\ Merge(a, b)["unchecked"] = a["unchecked"] + b["unchecked"]
  BY DEF Merge, Generated, Tallies, Fates

LEMMA VerificationInit == Init => VerificationOK
  <1>1. NoMut.mode = None /\ NoTally \in Tallies
    BY DEF NoMut, NoTally, Tallies, Fates
  <1> QED
    BY <1>1 DEF Init, Requests, VerificationOK, MutOK, Muts, Gens, NoMut, NoGen, PhaseOK, Started, Open,
       PassIsMeasured, None

\* A step outside the mutation phase leaves the counts alone.
LEMMA QuietStep ==
  ASSUME VerificationOK, UNCHANGED <<env, mut>>, pc \in {"setup", "python", "pytest", "coverage",
           "compile", "tests", "coverage_verdict"},
         pc' \in {"setup", "python", "pytest", "coverage", "compile", "tests", "coverage_verdict",
                  "preflight", "done"},
         pc' # "done" => UNCHANGED result
  PROVE  VerificationOK'
  <1>1. mut = NoMut /\ result = Open
    BY DEF VerificationOK, Started
  <1>2. MutOK' /\ PhaseOK'
    BY DEF VerificationOK, MutOK, Muts, PhaseOK, Started
  <1>3. PassIsMeasured'
    BY <1>1 DEF PassIsMeasured, NoMut, None
  <1> QED
    BY <1>1, <1>2, <1>3 DEF VerificationOK, Started

\* A step inside it that does not end it.
LEMMA PhaseStep ==
  ASSUME VerificationOK, UNCHANGED <<env, result>>, pc # "done",
         pc' \in Started, MutOK', PhaseOK'
  PROVE  VerificationOK'
  <1>1. result' = Open
    BY DEF VerificationOK
  <1>2. PassIsMeasured'
    BY <1>1 DEF PassIsMeasured, Open, None
  <1> QED
    BY <1>1, <1>2 DEF VerificationOK, Started

LEMMA BeforeTheStart ==
  ASSUME VerificationOK, UNCHANGED <<env, tools, python, overlay, disk, crashed>>
  PROVE  /\ Preflight => VerificationOK'
         /\ FilterLines => VerificationOK'
  <1>1. ASSUME Preflight PROVE VerificationOK'
    <2>1. mut = NoMut /\ result = Open /\ pc = "preflight"
      BY <1>1 DEF VerificationOK, Started, Preflight
    <2>2. CASE pc' = "done"
      <3>1. mut' = NoMut
        BY <1>1, <2>1, <2>2 DEF Preflight
      <3> QED
        BY <2>1, <2>2, <3>1 DEF VerificationOK, MutOK, Muts, PhaseOK, Started, PassIsMeasured, NoMut, None
    <2>3. CASE pc' # "done"
      <3>1. PICK mode \in Modes : mut' = [NoMut EXCEPT !.mode = mode] /\ pc' = "filter" /\ result' = Open
        BY <1>1, <2>1, <2>3 DEF Preflight, End
      <3>2. mode \in {"legacy", "batch", "single"}
        BY DEF Modes
      <3>3. mut \in Muts
        BY DEF VerificationOK, MutOK, Muts
      <3>4. mut'.mode = mode /\ mut' = [NoMut EXCEPT !.mode = mut'.mode]
        BY <2>1, <3>1, <3>3
      <3>5. MutOK'
        BY <2>1, <3>1, <3>2, <3>3 DEF MutOK, Muts
      <3>6. PassIsMeasured' /\ PhaseOK'
        BY <3>1 DEF PassIsMeasured, Open, None, PhaseOK, Started
      <3> QED
        BY <3>1, <3>4, <3>5, <3>6 DEF VerificationOK, Started
    <2> QED
      BY <2>2, <2>3
  <1>2. ASSUME FilterLines PROVE VerificationOK'
    <2>1. pc = "filter" /\ result = Open /\ mut' = mut /\ mut = [NoMut EXCEPT !.mode = mut.mode]
      BY <1>2 DEF VerificationOK, FilterLines
    <2>2. mut.total = 0
      BY <2>1 DEF NoMut
    <2>3. pc' \in {"done", "apply"} /\ (pc' = "apply" => env.changed # "low_value" /\ result' = Open)
      BY <1>2, <2>1 DEF FilterLines, LinesToMutate, End
    <2>4. PassIsMeasured'
      BY <2>1, <2>2 DEF PassIsMeasured
    <2> QED
      BY <2>1, <2>3, <2>4 DEF VerificationOK, MutOK, Muts, PhaseOK, Started
  <1> QED
    BY <1>1, <1>2

LEMMA ApplyKeeps ==
  ASSUME VerificationOK, Apply
  PROVE  VerificationOK'
  <1>1. /\ pc = "apply" /\ UNCHANGED <<env, result>> /\ result = Open /\ env.changed # "low_value"
        /\ mut = [NoMut EXCEPT !.mode = mut.mode]
    BY DEF VerificationOK, Apply
  <1>2. ~mut.zero /\ ~mut.aborted /\ ~mut.mapped /\ mut.exit = 0 /\ mut.tally = NoTally
    BY <1>1 DEF NoMut
  <1>3. NoTally["unchecked"] = 0
    BY DEF NoTally, Fates
  <1>4. CASE mut.mode = "legacy" /\ pc' = "run" /\ mut' = mut
    BY <1>1, <1>4, PhaseStep DEF VerificationOK, MutOK, Muts, PhaseOK, Started
  <1>5. CASE pc' = "restore" /\ mut' = [mut EXCEPT !.failed = TRUE]
    <2>1. MutOK'
      BY <1>5 DEF VerificationOK, MutOK, Muts
    <2>2. PhaseOK'
      <3>1. mut'.failed /\ ~mut'.zero /\ mut'.tally = NoTally /\ mut'.exit = 0 /\ ~mut'.mapped
        BY <1>2, <1>5 DEF VerificationOK, MutOK, Muts
      <3> QED
        BY <1>3, <1>5, <3>1 DEF PhaseOK
    <2> QED
      BY <1>1, <1>5, <2>1, <2>2, PhaseStep DEF Started
  <1>6. CASE env.changed = "lines" /\ pc' = "generate" /\ mut' = [mut EXCEPT !.left = 1]
    <2>1. MutOK'
      BY <1>6 DEF VerificationOK, MutOK, Muts
    <2>2. PhaseOK'
      <3>1. env'.changed = "lines" /\ ~mut'.zero /\ mut'.tally = NoTally /\ mut'.exit = 0 /\ ~mut'.mapped
        BY <1>1, <1>2, <1>6 DEF VerificationOK, MutOK, Muts
      <3> QED
        BY <1>3, <3>1 DEF PhaseOK
    <2> QED
      BY <1>1, <1>6, <2>1, <2>2, PhaseStep DEF Started
  <1>7. CASE mut.mode = "batch" /\ env.changed = "lines" /\ pc' = "partition" /\ mut' = mut
    BY <1>1, <1>7 DEF VerificationOK, MutOK, Muts, PhaseOK, Started, PassIsMeasured, Open, None
  <1> QED
    BY <1>4, <1>5, <1>6, <1>7 DEF Apply

LEMMA PartitionKeeps ==
  ASSUME VerificationOK, PartitionBatches
  PROVE  VerificationOK'
  <1>1. /\ pc = "partition" /\ UNCHANGED <<env, result>> /\ mut.mode = "batch" /\ env.changed = "lines"
        /\ mut = [NoMut EXCEPT !.mode = mut.mode] /\ pc' \in Started
    BY DEF VerificationOK, PartitionBatches, Started
  <1>2. PICK n \in 0..MaxBatches : mut' = [mut EXCEPT !.left = n]
    BY DEF PartitionBatches
  <1>3. n \in Int /\ MutOK
    BY BoundAssumption DEF VerificationOK
  <1>4. MutOK'
    BY <1>2, <1>3 DEF MutOK, Muts
  <1>5. NoTally["unchecked"] = 0
    BY DEF NoTally, Fates
  <1>6. ~mut.zero /\ ~mut.mapped /\ mut.exit = 0 /\ mut.tally = NoTally
    BY <1>1 DEF NoMut
  <1>7. ~mut'.zero /\ ~mut'.mapped /\ mut'.exit = 0 /\ mut'.tally = NoTally /\ mut'.mode = "batch"
    BY <1>1, <1>2, <1>3, <1>6 DEF MutOK, Muts
  <1>8. PhaseOK'
    BY <1>1, <1>5, <1>7 DEF PhaseOK
  <1> QED
    BY <1>1, <1>4, <1>8, PhaseStep

LEMMA MaxIsInteger == ASSUME NEW n \in Int PROVE Max({n, 0}) \in Int
  BY DEF Max

LEMMA GenerationsTyped ==
  ASSUME NEW g \in Generations
  PROVE  /\ g \in Gens
         /\ g.mapped => g.meta > 0
  <1>1. -1..MaxMutants \subseteq Int /\ 0..1 \subseteq Int
    BY BoundAssumption
  <1> QED
    BY <1>1 DEF Generations, Gens

LEMMA GenerateBatchKeeps ==
  ASSUME VerificationOK, GenerateBatch
  PROVE  VerificationOK'
  <1>1. /\ pc = "generate" /\ mut.mode = "batch" /\ UNCHANGED <<env, result>> /\ pc' \in Started
        /\ MutOK /\ PhaseOK
    BY DEF VerificationOK, GenerateBatch, Started
  <1>2. PICK g \in Generations :
          LET next == [mut EXCEPT !.gen = g,
                                  !.total = @ + Max({g.meta, 0}),
                                  !.failed = @ \/ GenerationFails(g),
                                  !.mapped = @ \/ g.mapped,
                                  !.eligible = @ \/ g.eligible]
          IN  IF g.mapped /\ g.exit = 0
              THEN mut' = next /\ pc' = "run"
              ELSE /\ mut' = [next EXCEPT !.left = @ - 1, !.gen = NoGen]
                   /\ pc' = IF mut.left = 1 THEN "restore" ELSE "generate"
    BY DEF GenerateBatch
  <1> DEFINE total == mut.total + Max({g.meta, 0})
             failed == mut.failed \/ GenerationFails(g)
             mapped == mut.mapped \/ g.mapped
             eligible == mut.eligible \/ g.eligible
             next == [mut EXCEPT !.gen = g, !.total = total, !.failed = failed,
                                 !.mapped = mapped, !.eligible = eligible]
             last == [next EXCEPT !.left = @ - 1, !.gen = NoGen]
  <1>3. g \in Gens
    BY GenerationsTyped
  <1>4. /\ g.meta \in Int /\ mut.total \in Int /\ mut.left \in Int /\ NoGen \in Gens
        /\ failed \in BOOLEAN /\ mapped \in BOOLEAN /\ eligible \in BOOLEAN
    BY <1>1, <1>3 DEF MutOK, Muts, Gens, GenerationFails, NoGen
  <1>5. total \in Int
    BY <1>4, MaxIsInteger
  <1>6. \/ g.mapped /\ g.exit = 0 /\ mut' = next /\ pc' = "run"
        \/ ~(g.mapped /\ g.exit = 0) /\ mut' = last /\ pc' \in {"restore", "generate"}
    BY <1>2
  <1> HIDE DEF total, failed, mapped, eligible
  <1>7. next \in Muts /\ last \in Muts
    <2>1. next \in Muts
      BY <1>1, <1>3, <1>4, <1>5, MutUpdates, Zenon DEF MutOK
    <2>2. next.left - 1 \in Int
      <3> HIDE DEF next
      <3> QED
        BY <2>1 DEF Muts
    <2> QED
      BY <2>1, <2>2, <1>4, MutUpdates, Zenon
  <1>8. /\ next.mode = "batch" /\ next.zero = mut.zero /\ next.exit = mut.exit
        /\ next.tally = mut.tally /\ next.aborted = mut.aborted
        /\ next.failed = failed /\ next.mapped = mapped
    BY <1>1 DEF MutOK, Muts
  <1>9. /\ last.mode = "batch" /\ last.zero = mut.zero /\ last.exit = mut.exit
        /\ last.tally = mut.tally /\ last.aborted = mut.aborted
        /\ last.failed = failed /\ last.mapped = mapped
    BY <1>1 DEF MutOK, Muts
  <1> HIDE DEF next, last
  <1>11. MutOK'
    BY <1>6, <1>7 DEF MutOK
  <1>12. /\ mut'.mode = "batch" /\ mut'.zero = mut.zero /\ mut'.exit = mut.exit
         /\ mut'.tally = mut.tally /\ mut'.aborted = mut.aborted
         /\ mut'.failed = failed /\ mut'.mapped = mapped
    BY <1>6, <1>8, <1>9
  <1>13. pc' # "run" /\ g.mapped => failed
    BY <1>6 DEF GenerationFails, failed
  <1>14. /\ pc' # "run" /\ mapped /\ ~failed => mut.mapped /\ ~mut.failed
         /\ mut.failed => failed
    BY <1>13 DEF failed, mapped
  <1>15. /\ env.changed = "lines"
         /\ ~mut.zero /\ (~mut.aborted => mut.tally["unchecked"] = 0) /\ mut.exit = 0
         /\ mut.mapped /\ ~mut.failed => Generated(mut.tally) > 0
    BY <1>1 DEF PhaseOK, Started
  <1>16. Generated(mut.tally)' = Generated(mut.tally)
    BY <1>12 DEF Generated
  <1>17. PhaseOK'
    BY <1>1, <1>12, <1>14, <1>15, <1>16 DEF PhaseOK
  <1> QED
    BY <1>1, <1>11, <1>17, PhaseStep

LEMMA GenerateSingleKeeps ==
  ASSUME VerificationOK, GenerateSingle
  PROVE  VerificationOK'
  <1>1. /\ pc = "generate" /\ mut.mode = "single" /\ UNCHANGED <<env, result>> /\ pc' \in Started
        /\ MutOK /\ PhaseOK
    BY DEF VerificationOK, GenerateSingle, Started
  <1>2. PICK g \in Generations :
          mut' = [mut EXCEPT !.gen = g, !.left = 0, !.total = Max({g.meta, 0}),
                               !.mapped = g.mapped, !.eligible = g.eligible,
                               !.failed = \/ g.exit /= 0 /\ g.meta = -1
                                          \/ SinglePlanFails(g)]
    BY DEF GenerateSingle
  <1>3. /\ g \in Gens
        /\ g.mapped => g.meta > 0
    BY GenerationsTyped
  <1> DEFINE failed == \/ g.exit /= 0 /\ g.meta = -1
                       \/ SinglePlanFails(g)
             total == Max({g.meta, 0})
  <1>4. /\ 0 \in Int /\ g.mapped \in BOOLEAN /\ g.eligible \in BOOLEAN
        /\ total \in Int /\ failed \in BOOLEAN
    BY <1>3, MaxIsInteger DEF SinglePlanFails, Gens
  <1> HIDE DEF failed, total
  <1>5. MutOK'
    <2>1. mut' = [mut EXCEPT !.gen = g, !.left = 0, !.total = total, !.mapped = g.mapped,
                             !.eligible = g.eligible, !.failed = failed]
      BY <1>2 DEF failed, total
    <2> QED
      BY <1>1, <1>3, <1>4, <2>1, MutUpdates, Zenon DEF MutOK
  <1>6. /\ mut'.mode = "single" /\ mut'.zero = mut.zero /\ mut'.tally = mut.tally
        /\ mut'.aborted = mut.aborted /\ mut'.gen = g /\ mut'.mapped = g.mapped
    BY <1>1, <1>2 DEF MutOK, Muts
  <1>7. env.changed = "lines"
    BY <1>1 DEF PhaseOK, Started
  <1>8. ~mut.zero /\ (~mut.aborted => mut.tally["unchecked"] = 0)
    BY <1>1 DEF PhaseOK, Started
  <1>9. PhaseOK'
    BY <1>1, <1>3, <1>6, <1>7, <1>8 DEF PhaseOK
  <1> QED
    BY <1>1, <1>5, <1>9, PhaseStep

LEMMA RunBatchKeeps ==
  ASSUME VerificationOK, RunBatch
  PROVE  VerificationOK'
  <1>1. /\ pc = "run" /\ mut.mode = "batch" /\ UNCHANGED <<env, result>>
        /\ pc' \in {"restore", "generate"} /\ MutOK /\ PhaseOK
    BY DEF VerificationOK, RunBatch
  <1> DEFINE tally(r) == Reconcile(r.tally, mut.gen.meta, r.noAssoc)
  <1>2. PICK r \in MutantRuns(mut.gen.meta) :
          mut' = [mut EXCEPT !.tally = Merge(@, tally(r)),
                                !.failed = \/ @
                                           \/ ~ExpectedExit(r.exit)
                                           \/ Generated(tally(r)) = 0,
                                !.aborted = @ \/ r.aborted,
                                !.left = @ - 1, !.gen = NoGen]
    BY Zenon DEF RunBatch
  <1> DEFINE all == Merge(mut.tally, tally(r))
             failed == \/ mut.failed
                       \/ ~ExpectedExit(r.exit)
                       \/ Generated(tally(r)) = 0
             aborted == mut.aborted \/ r.aborted
  <1>3. /\ mut.gen.meta \in Int /\ mut.tally \in Tallies /\ NoGen \in Gens
        /\ mut.left - 1 \in Int
    BY <1>1 DEF MutOK, Muts, Gens, NoGen
  <1>4. /\ r.tally \in Tallies /\ (~r.aborted => r.tally["unchecked"] = 0)
    BY <1>3, RunsCount
  <1>5. /\ tally(r) \in Tallies /\ (~r.aborted => tally(r)["unchecked"] = 0)
        /\ Generated(tally(r)) \in Nat /\ Generated(mut.tally) \in Nat
    BY <1>3, <1>4, ReconcileCounts, CountIsNatural
  <1>6. /\ all \in Tallies /\ Generated(all) = Generated(mut.tally) + Generated(tally(r))
        /\ all["unchecked"] = mut.tally["unchecked"] + tally(r)["unchecked"]
    BY <1>3, <1>5, MergeCounts
  <1>7. failed \in BOOLEAN /\ aborted \in BOOLEAN
    OBVIOUS
  <1>8. /\ ~mut.zero /\ mut.exit = 0 /\ env.changed = "lines"
        /\ ~aborted => all["unchecked"] = 0
    BY <1>1, <1>5, <1>6 DEF PhaseOK, Started
  <1>9. ~failed => Generated(all) > 0
    BY <1>5, <1>6
  <1>10. mut' = [mut EXCEPT !.tally = all, !.failed = failed, !.aborted = aborted,
                            !.left = @ - 1, !.gen = NoGen]
    BY <1>2
  <1> HIDE DEF all, failed, aborted
  <1>11. MutOK'
    BY <1>1, <1>3, <1>6, <1>7, <1>10, MutUpdates, Zenon DEF MutOK
  <1>12. /\ mut'.mode = "batch" /\ ~mut'.zero /\ mut'.exit = 0 /\ mut'.tally = all
         /\ mut'.failed = failed /\ mut'.aborted = aborted
    BY <1>1, <1>8, <1>10 DEF MutOK, Muts
  <1>13. PhaseOK'
    BY <1>1, <1>8, <1>9, <1>12 DEF PhaseOK
  <1> QED
    BY <1>1, <1>11, <1>13, PhaseStep DEF Started

LEMMA RunSingleKeeps ==
  ASSUME VerificationOK, RunSingle
  PROVE  VerificationOK'
  <1>1. /\ pc = "run" /\ mut.mode = "single" /\ UNCHANGED <<env, result>>
        /\ pc' = "restore" /\ MutOK /\ PhaseOK
    BY DEF VerificationOK, RunSingle
  <1> DEFINE tally(r) == Reconcile(r.tally, mut.gen.meta, r.noAssoc)
  <1>2. PICK r \in MutantRuns(mut.gen.meta) :
          mut' = [mut EXCEPT !.tally = tally(r), !.exit = r.exit, !.aborted = r.aborted]
    BY Zenon DEF RunSingle
  <1>3. mut.gen.meta \in Int
    BY <1>1 DEF MutOK, Muts, Gens
  <1>4. /\ r.tally \in Tallies /\ r.exit \in Int /\ r.aborted \in BOOLEAN
        /\ ~r.aborted => r.tally["unchecked"] = 0
    BY <1>3, RunsCount
  <1>5. tally(r) \in Tallies /\ (~r.aborted => tally(r)["unchecked"] = 0)
    BY <1>3, <1>4, ReconcileCounts
  <1> HIDE DEF tally
  <1>6. MutOK'
    BY <1>1, <1>2, <1>4, <1>5, MutUpdates, Zenon DEF MutOK
  <1>7. /\ ~mut.zero /\ env.changed = "lines" /\ (mut.mapped => mut.gen.meta > 0)
    BY <1>1 DEF PhaseOK, Started
  <1>8. /\ mut'.mode = "single" /\ ~mut'.zero /\ mut'.tally = tally(r) /\ mut'.aborted = r.aborted
        /\ mut'.gen = mut.gen /\ (mut'.mapped => mut.mapped)
    BY <1>1, <1>2, <1>7 DEF MutOK, Muts
  <1>9. PhaseOK'
    BY <1>1, <1>5, <1>7, <1>8 DEF PhaseOK
  <1> QED
    BY <1>1, <1>6, <1>9, PhaseStep DEF Started

LEMMA RunLegacyKeeps ==
  ASSUME VerificationOK, RunLegacy
  PROVE  VerificationOK'
  <1>1. /\ pc = "run" /\ mut.mode = "legacy" /\ UNCHANGED <<env, result>>
        /\ pc' = "restore" /\ MutOK
    BY DEF VerificationOK, RunLegacy
  <1>2. PICK n \in 0..MaxMutants : \E r \in MutantRuns(n) :
          \E attributed \in 0..r.tally["survived"], zero \in BOOLEAN :
            mut' = [mut EXCEPT !.tally = r.tally, !.exit = r.exit, !.aborted = r.aborted,
                               !.attributed = attributed, !.zero = zero]
    BY Zenon DEF RunLegacy
  <1>3. n \in Int
    BY BoundAssumption
  <1>4. PICK r \in MutantRuns(n) : \E attributed \in 0..r.tally["survived"], zero \in BOOLEAN :
            mut' = [mut EXCEPT !.tally = r.tally, !.exit = r.exit, !.aborted = r.aborted,
                               !.attributed = attributed, !.zero = zero]
    BY <1>2
  <1>5. PICK attributed \in 0..r.tally["survived"], zero \in BOOLEAN :
            mut' = [mut EXCEPT !.tally = r.tally, !.exit = r.exit, !.aborted = r.aborted,
                               !.attributed = attributed, !.zero = zero]
    BY <1>4
  <1>6. r.tally \in Tallies /\ r.exit \in Int /\ r.aborted \in BOOLEAN
    BY <1>3, RunsCount
  <1>7. attributed \in Int
    BY <1>6 DEF Tallies, Fates
  <1>8. MutOK'
    BY <1>1, <1>5, <1>6, <1>7, MutUpdates, Zenon DEF MutOK
  <1>9. mut'.mode = "legacy"
    BY <1>1, <1>5 DEF MutOK, Muts
  <1>10. PhaseOK'
    BY <1>9 DEF PhaseOK
  <1> QED
    BY <1>1, <1>8, <1>10, PhaseStep DEF Started

\* The two ways to pass: nothing to mutate, or the gate's share was killed.
LEMMA VerdictPasses ==
  ASSUME NEW m, MutationVerdict(m)[1] = "passed"
  PROVE  /\ ~m.failed /\ ExpectedExit(m.exit)
         /\ \/ Generated(m.tally) = 0 /\ (m.mode = "batch" \/ NothingMutatable(m))
            \/ /\ Generated(m.tally) > 0
               /\ Passes(ScopedKilled(m), ScopedScored(m))
               /\ ~Unassociated(Generated(m.tally),
                                IF env.changed = "unknown" THEN 0 ELSE ScopedScored(m),
                                m.tally["no_tests"])
  BY DEF MutationVerdict

LEMMA FinishKeeps ==
  ASSUME VerificationOK, FinishMutation
  PROVE  VerificationOK'
  <1>1. /\ pc = "restore" /\ pc' = "done" /\ UNCHANGED <<env, mut>>
        /\ result'.status = MutationVerdict(mut)[1] /\ MutOK /\ PhaseOK
    BY DEF VerificationOK, FinishMutation, End
  <1>2. ASSUME result'.status = "passed", mut.mode \in {"batch", "single"},
               mut.mapped, ~mut.aborted
        PROVE  /\ Scored(mut.tally) + mut.tally["skipped"] > 0 /\ ExpectedExit(mut.exit)
               /\ mut.tally["killed"] * 100 >= Gate * Scored(mut.tally)
    <2> DEFINE generated == Generated(mut.tally)
    <2>1. /\ ~mut.failed /\ ExpectedExit(mut.exit)
          /\ \/ generated = 0 /\ (mut.mode = "batch" \/ NothingMutatable(mut))
             \/ /\ generated > 0
                /\ Passes(ScopedKilled(mut), ScopedScored(mut))
                /\ ~Unassociated(generated,
                                 IF env.changed = "unknown" THEN 0 ELSE ScopedScored(mut),
                                 mut.tally["no_tests"])
      BY <1>1, <1>2, VerdictPasses
    <2>2. /\ env.changed = "lines" /\ ~mut.zero /\ mut.tally["unchecked"] = 0
          /\ mut.mode = "batch" => generated > 0
          /\ mut.mode = "single" => mut.gen.meta > 0
      BY <1>1, <1>2, <2>1 DEF PhaseOK, Started
    <2>3. mut.tally \in Tallies
      BY <1>1 DEF MutOK, Muts
    <2>4. generated > 0
      BY <1>2, <2>1, <2>2, <2>3, CountIsNatural DEF NothingMutatable
    <2>5. ScopedScored(mut) = Scored(mut.tally) /\ ScopedKilled(mut) = mut.tally["killed"]
      BY <1>2 DEF ScopedScored, ScopedKilled
    <2>6. ~(Scored(mut.tally) = 0 /\ mut.tally["no_tests"] > 0)
      BY <2>1, <2>2, <2>4, <2>5 DEF Unassociated
    <2>7. Passes(mut.tally["killed"], Scored(mut.tally))
      BY <2>1, <2>4, <2>5
    <2>8. /\ Scored(mut.tally) \in Nat
          /\ mut.tally["skipped"] \in Nat /\ mut.tally["no_tests"] \in Nat
          /\ generated = Scored(mut.tally) + mut.tally["no_tests"] + mut.tally["skipped"]
                         + mut.tally["unchecked"]
      BY <2>3, CountIsNatural DEF Fates
    <2>9. Scored(mut.tally) + mut.tally["skipped"] > 0
      <3> HIDE DEF generated
      <3> QED
        BY <2>2, <2>4, <2>6, <2>8
    <2> QED
      BY <2>1, <2>7, <2>9 DEF Passes
  <1>3. PassIsMeasured'
    BY <1>1, <1>2 DEF PassIsMeasured, ExpectedExit, Scored
  <1> QED
    BY <1>1, <1>3 DEF VerificationOK, MutOK, PhaseOK, Started

LEMMA StoppedKeeps ==
  ASSUME VerificationOK, Raise \/ Crash
  PROVE  VerificationOK'
  <1>1. /\ pc \in Started /\ pc' = "done" /\ UNCHANGED <<env, mut>> /\ result'.status = "raised"
    BY DEF Raise, Crash, End, Started
  <1> QED
    BY <1>1 DEF VerificationOK, MutOK, PhaseOK, Started, PassIsMeasured

LEMMA VerificationNext == VerificationOK /\ [Next]_vars => VerificationOK'
  <1> SUFFICES ASSUME VerificationOK, [Next]_vars PROVE VerificationOK'
    OBVIOUS
  <1>1. CASE SetupCommand \/ InstallOverlay
    BY <1>1, QuietStep DEF SetupCommand, InstallOverlay, End
  <1>2. CASE ProbePython \/ ProbePytest \/ ProbeCoverage
    BY <1>2, QuietStep DEF ProbePython, ProbePytest, ProbeCoverage, End
  <1>3. CASE CompileTarget \/ RunCoverage \/ CoverageVerdict
    BY <1>3, QuietStep DEF CompileTarget, RunCoverage, CoverageVerdict, End
  <1>4. CASE Preflight
    BY <1>4, BeforeTheStart DEF Preflight
  <1>5. CASE FilterLines
    BY <1>5, BeforeTheStart DEF FilterLines
  <1>6. CASE UNCHANGED vars
    BY <1>6 DEF vars, VerificationOK, MutOK, PhaseOK, PassIsMeasured, ExpectedExit, Scored,
       Generated
  <1> QED
    BY <1>1, <1>2, <1>3, <1>4, <1>5, <1>6, ApplyKeeps, PartitionKeeps, GenerateBatchKeeps,
       GenerateSingleKeeps, RunBatchKeeps, RunSingleKeeps, RunLegacyKeeps, FinishKeeps,
       StoppedKeeps DEF Next

\* A modern verification that passes after its mutants were mapped has the
\* results of completed runs for a mutant a test was associated with, and the
\* gate's share of the scored ones is killed (PassIsMeasured), for any number
\* of mutants and batches and any gate: a batch or a pass without a result
\* fails the target, and so do mutants no test covers (run_mutation_phase,
\* all_selected_mutants_unassociated).
THEOREM MutationIsMeasured == Spec => []PassIsMeasured
  <1>1. VerificationOK => PassIsMeasured
    BY DEF VerificationOK
  <1> QED
    BY <1>1, VerificationInit, VerificationNext, PTL DEF Spec

-------------------------------------------------------------------------------
(* The report of a check.                                                  *)

ResultShape ==
    [status : {"none", "passed", "failed"},
     reason : {"none", "test_failed", "coverage_failed", "mutation_backend_failed", "passed", "mutation_failed",
               "missing_test_file"},
     testsPass : BOOLEAN, covered : BOOLEAN, generated : Nat, killed : Nat, scored : Nat, timeouts : Int,
     mutated : BOOLEAN]

\* Each target that was run passed, or is one of those a sample forgives, and
\* if there is one the mutants of all of them are enough.
Earned ==
    /\ request.base /\ request.tests
    /\ \A t \in Executable :
         \/ answer.of[t].status = "passed"
         \/ /\ request.sampled /\ answer.of[t].reason = "mutation_failed"
            /\ answer.of[t].testsPass /\ answer.of[t].covered
    /\ (\E t \in Executable : answer.of[t].status /= "passed")
         => \/ \E t \in Skipped : request.kind[t] /= "comment"
            \/ Reaches(Rate(answer.of, Executable))

\* The answer of the binding, if it is one, is about what it was asked for.
AnswerOK ==
    /\ answer.targets = Executable
    /\ answer.status = "passed" => \A t \in Executable : answer.of[t].status = "passed"
    /\ \A t \in Executable : answer.of[t] \in ResultShape

ReportOK ==
    /\ request.kind \in [Targets -> Kinds]
    /\ at \in {"skip", "allocate", "rounds", "bind", "project"} => request.base /\ request.tests
    /\ at = "project" /\ answer.status /= "error" => AnswerOK
    /\ at = "reported" /\ report.status = "passed" /\ request.changed /\ answer.status /= "error" => Earned
    /\ at /= "end" => verdict = "none"
    /\ verdict = "passed" /\ request.changed /\ answer.status /= "error" => Earned

\* The results of a target.
LEMMA FailedShape ==
  ASSUME NEW why \in {"test_failed", "coverage_failed", "mutation_backend_failed", "missing_test_file"}
  PROVE  Failed(why) \in ResultShape
  <1>1. NoResult \in ResultShape
    BY DEF NoResult, ResultShape
  <1> QED
    BY <1>1 DEF Failed, ResultShape

LEMMA ScoredShape ==
  ASSUME NEW a \in Nat, NEW b \in Nat, NEW e \in Nat
  PROVE  ScoredResult(a, b, e) \in ResultShape
  <1> DEFINE passed == b * 100 >= ReportGate * a
             d == a - b - e
  <1>1. passed \in BOOLEAN /\ d \in Int
    OBVIOUS
  <1>2. ScoredResult(a, b, e) =
          [status |-> IF passed THEN "passed" ELSE "failed",
           reason |-> IF passed THEN "passed" ELSE "mutation_failed",
           testsPass |-> TRUE, covered |-> TRUE, generated |-> a,
           killed |-> b, scored |-> a, timeouts |-> d, mutated |-> passed]
    BY DEF ScoredResult
  <1> HIDE DEF passed, d
  <1> QED
    BY <1>1, <1>2 DEF ResultShape

LEMMA CandidateShape ==
  ASSUME NEW t, NEW r \in CandidateResults(t)
  PROVE  r \in ResultShape
  <1>1. CASE r = Failed("test_failed")
    BY <1>1, FailedShape
  <1>2. CASE r = [Failed("coverage_failed") EXCEPT !.testsPass = TRUE]
    BY <1>2, FailedShape DEF ResultShape
  <1>3. CASE r = [Failed("mutation_backend_failed") EXCEPT !.testsPass = TRUE, !.covered = TRUE]
    <2>1. Failed("mutation_backend_failed") \in ResultShape
      BY FailedShape
    <2> QED
      BY <1>3, <2>1 DEF ResultShape
  <1> DEFINE Scores == {x \in (0..(IF request.sampled THEN Allocation(t) ELSE 2)) \X (0..2) \X (0..2) :
                          x[2] + x[3] <= x[1]}
  <1>4. ASSUME NEW x \in Scores, r = ScoredResult(x[1], x[2], x[3])
        PROVE  r \in ResultShape
    <2>1. x[1] \in Nat /\ x[2] \in Nat /\ x[3] \in Nat
      OBVIOUS
    <2> QED
      BY <1>4, <2>1, ScoredShape
  <1>5. \/ r = Failed("test_failed")
        \/ r = [Failed("coverage_failed") EXCEPT !.testsPass = TRUE]
        \/ r = [Failed("mutation_backend_failed") EXCEPT !.testsPass = TRUE, !.covered = TRUE]
        \/ \E x \in Scores : r = ScoredResult(x[1], x[2], x[3])
    BY DEF CandidateResults
  <1> QED
    BY <1>1, <1>2, <1>3, <1>4, <1>5

LEMMA WalkShape ==
  ASSUME NEW t, NEW r \in Results(t)
  PROVE  r \in ResultShape
  <1>0. PICK n \in 0..2 : \E s \in [1..n -> CandidateResults(t)] : r = WalkCandidates(s)
    BY DEF Results
  <1>1. PICK s \in [1..n -> CandidateResults(t)] : r = WalkCandidates(s)
    BY <1>0
  <1>2. CASE s = <<>>
    BY <1>1, <1>2, FailedShape DEF WalkCandidates
  <1>3. CASE s # <<>>
    <2>0. n # 0
      <3>1. ASSUME n = 0 PROVE s = <<>>
        BY <3>1
      <3> QED
        BY <1>3, <3>1
    <2>1. DOMAIN s \in {{1}, {1, 2}} /\ \A i \in DOMAIN s : s[i] \in CandidateResults(t)
      BY <2>0
    <2> DEFINE passing == {i \in DOMAIN s : s[i].status = "passed"}
    <2>2. ASSUME passing # {}
          PROVE  Min(passing) \in passing
      <3>1. passing \in {{1}, {2}, {1, 2}}
        BY <2>1, <2>2
      <3> HIDE DEF passing
      <3>2. \E x \in passing : \A y \in passing : x <= y
        BY <3>1
      <3> QED
        BY <3>2 DEF Min
    <2>3. r = IF passing # {} THEN s[Min(passing)] ELSE s[1]
      BY <1>1, <1>3 DEF WalkCandidates
    <2>4. \E i \in DOMAIN s : r = s[i]
      BY <2>1, <2>2, <2>3
    <2> QED
      BY <2>1, <2>4, CandidateShape
  <1> QED
    BY <1>2, <1>3

\* Two sets of results count the same where one only adds targets that have
\* none.
LEMMA CountedAlike ==
  ASSUME NEW f, NEW g, NEW S, NEW T, S \subseteq T, NEW field,
         \A t \in S : f[t][field] = g[t][field], \A t \in T \ S : f[t][field] = 0
  PROVE  Counted(f, T, field) = Counted(g, S, field)
  <1> DEFINE F == UNION {{t} \X (1..f[t][field]) : t \in T}
             G == UNION {{t} \X (1..g[t][field]) : t \in S}
  <1>1. ASSUME NEW x, x \in F
        PROVE  x \in G
    <2>1. PICK t \in T : x \in {t} \X (1..f[t][field])
      BY <1>1
    <2>2. t \in S
      <3>1. ASSUME t \notin S PROVE FALSE
        <4>1. f[t][field] = 0
          BY <3>1
        <4>2. 1..f[t][field] = {}
          BY <4>1
        <4> QED
          BY <2>1, <4>2
      <3> QED
        BY <3>1
    <2> QED
      BY <2>1, <2>2
  <1>2. ASSUME NEW x, x \in G
        PROVE  x \in F
    BY <1>2
  <1>3. F = G
    <2> HIDE DEF F, G
    <2> QED
      BY <1>1, <1>2
  <1> QED
    BY <1>3 DEF Counted

LEMMA Reclassified ==
  ASSUME NEW r \in ResultShape
  PROVE  /\ Reclassify(r).generated = r.generated /\ Reclassify(r).killed = r.killed
         /\ Reclassify(r).scored = r.scored /\ Reclassify(r).mutated = r.mutated
         /\ Reclassify(r).status = "passed"
              => r.status = "passed" \/ (r.reason = "mutation_failed" /\ r.testsPass /\ r.covered)
  <1>1. CASE Reclassify(r) = r
    <2>1. r.reason # "mutation_gate_failed"
      BY DEF ResultShape
    <2> QED
      BY <1>1
  <1>2. CASE Reclassify(r) # r
    <2>1. Reclassify(r) = [r EXCEPT !.status = "passed", !.reason = "sampled_mutation_diagnostic"]
      BY <1>2, Zenon DEF Reclassify
    <2>2. r.reason \in {"mutation_gate_failed", "mutation_failed"} /\ r.testsPass /\ r.covered
      BY <1>2, Zenon DEF Reclassify
    <2>3. r.reason # "mutation_gate_failed"
      BY DEF ResultShape
    <2> QED
      BY <2>1, <2>2, <2>3 DEF ResultShape
  <1> QED
    BY <1>1, <1>2

\* The report of a sample, and the results it is made of.
Projected == [t \in Targets |-> IF t \in Skipped THEN SkipResult(request.kind[t])
                                ELSE IF request.sampled THEN Reclassify(answer.of[t]) ELSE answer.of[t]]

LEMMA SkipCounts ==
  ASSUME NEW kind
  PROVE  /\ SkipResult(kind).killed = 0 /\ SkipResult(kind).scored = 0 /\ SkipResult(kind).generated = 0
         /\ SkipResult(kind).mutated = TRUE
  BY DEF SkipResult, NoResult

\* Where the skipped files hold comments only, the report is scored as the
\* targets that were run.
LEMMA ScoredAlike ==
  ASSUME AnswerOK, request.sampled, Executable # {}, \A t \in Skipped : request.kind[t] = "comment"
  PROVE  Rate(Projected, Targets) = Rate(answer.of, Executable)
  <1>0. Executable \subseteq Targets /\ Skipped = Targets \ Executable
    BY DEF Executable, Skipped
  <1>1. \A t \in Executable : Projected[t] = Reclassify(answer.of[t])
    BY <1>0 DEF Projected
  <1>2. \A t \in Targets \ Executable : Projected[t] = SkipResult(request.kind[t])
    BY <1>0 DEF Projected
  <1>3. /\ \A t \in Executable : Projected[t].killed = answer.of[t].killed
        /\ \A t \in Executable : Projected[t].scored = answer.of[t].scored
        /\ \A t \in Executable : Projected[t].generated = answer.of[t].generated
        /\ \A t \in Executable : Projected[t].mutated = answer.of[t].mutated
    BY <1>1, Reclassified DEF AnswerOK
  <1>4. /\ \A t \in Targets \ Executable : Projected[t].killed = 0
        /\ \A t \in Targets \ Executable : Projected[t].scored = 0
        /\ \A t \in Targets \ Executable : Projected[t].generated = 0
        /\ \A t \in Targets \ Executable : Projected[t].mutated = TRUE
    BY <1>2, SkipCounts
  <1>5. Counted(Projected, Targets, "killed") = Counted(answer.of, Executable, "killed")
    BY <1>0, <1>3, <1>4, CountedAlike
  <1>6. Counted(Projected, Targets, "scored") = Counted(answer.of, Executable, "scored")
    BY <1>0, <1>3, <1>4, CountedAlike
  <1>7. Counted(Projected, Targets, "generated") = Counted(answer.of, Executable, "generated")
    BY <1>0, <1>3, <1>4, CountedAlike
  <1>8. (\A t \in Targets : Projected[t].mutated) <=> (\A t \in Executable : answer.of[t].mutated)
    BY <1>0, <1>3, <1>4
  <1>9. {Scope(t) : t \in Targets} = {"changed_lines"} /\ {Scope(t) : t \in Executable} = {"changed_lines"}
    <2>1. \A t \in Targets : request.kind[t] \in {"code", "comment"}
      BY <1>0 DEF Executable
    <2>2. \A t \in Targets : Scope(t) = "changed_lines"
      BY <2>1 DEF Scope
    <2> QED
      BY <1>0, <2>2
  <1> DEFINE rate(killed, all_scored, generated, all) ==
               IF all_scored > 0 THEN <<killed, all_scored>>
               ELSE IF generated > 0 \/ all THEN <<1, 1>> ELSE <<0, 1>>
  <1>10. Rate(Projected, Targets)
           = rate(Counted(Projected, Targets, "killed"), Counted(Projected, Targets, "scored"),
                  Counted(Projected, Targets, "generated"), \A t \in Targets : Projected[t].mutated)
    BY <1>9, Zenon DEF Rate
  <1>11. Rate(answer.of, Executable)
           = rate(Counted(answer.of, Executable, "killed"), Counted(answer.of, Executable, "scored"),
                  Counted(answer.of, Executable, "generated"), \A t \in Executable : answer.of[t].mutated)
    BY <1>9, Zenon DEF Rate
  <1> QED
    BY <1>5, <1>6, <1>7, <1>8, <1>10, <1>11

LEMMA ReportStart == RInit => ReportOK
  BY DEF RInit, ReportOK, NoReport

\* Whatever a step that does not end the gate leaves as it was stays as it was.
LEMMA EarnedStays ==
  ASSUME UNCHANGED <<request, answer>>
  PROVE  Earned' <=> Earned
  BY DEF Earned, Executable, Skipped, Rate, Scope, Reaches, Counted

\* Files that are skipped owe nothing.
LEMMA SkipsAreEarned ==
  ASSUME Executable = {}, request.base, request.tests
  PROVE  Earned
  BY DEF Earned

LEMMA BoundAnswers ==
  ASSUME Bind, answer'.status # "error"
  PROVE  AnswerOK'
  <1>0. UNCHANGED request /\ Executable' = Executable
    BY DEF Bind, Executable
  <1>1. PICK results \in [Executable -> UNION {Results(t) : t \in Executable}] :
          /\ \A t \in Executable : results[t] \in Results(t)
          /\ answer' = [status |-> IF \A t \in Executable : results[t].status = "passed" THEN "passed" ELSE "failed",
                        targets |-> Executable,
                        of |-> [t \in Targets |-> IF t \in Executable THEN results[t] ELSE NoResult]]
    BY DEF Bind
  <1>2. \A t \in Executable : answer'.of[t] = results[t]
    BY <1>1 DEF Executable
  <1>3. \A t \in Executable : results[t] \in ResultShape
    BY <1>1, WalkShape
  <1>4. answer'.status = "passed" => \A t \in Executable : results[t].status = "passed"
    BY <1>1
  <1> QED
    BY <1>0, <1>1, <1>2, <1>3, <1>4 DEF AnswerOK

\* A projected report that passes is earned.
LEMMA ProjectEarns ==
  ASSUME ReportOK, Project, report'.status = "passed", answer.status # "error"
  PROVE  Earned
  <1> DEFINE ts == Skipped \union answer.targets
             forgiven == request.sampled /\ ~UnsampledFailure(Projected, ts)
             passed == answer.status = "passed" \/ forgiven
             below == request.sampled /\ ts /= {} /\ ~Reaches(Rate(Projected, ts))
  <1>1. at = "project" /\ AnswerOK /\ request.base /\ request.tests
    BY DEF Project, ReportOK
  <1>2. ts = Targets /\ Executable \subseteq Targets /\ Skipped = Targets \ Executable
    BY <1>1 DEF AnswerOK, Skipped, Executable
  <1>3. report'.status = IF passed /\ ~below THEN "passed" ELSE IF passed THEN "failed" ELSE answer.status
    BY DEF Project, Projected
  <1>4. passed /\ ~below
    BY <1>3
  <1>5. CASE answer.status = "passed"
    BY <1>1, <1>5 DEF Earned, AnswerOK
  <1>6. CASE answer.status # "passed"
    <2>1. request.sampled /\ \A t \in Executable : Projected[t].status = "passed"
      BY <1>2, <1>4, <1>6 DEF UnsampledFailure
    <2>2. \A t \in Executable : Projected[t] = Reclassify(answer.of[t])
      BY <1>2, <2>1 DEF Projected
    <2>3. \A t \in Executable : \/ answer.of[t].status = "passed"
                                \/ /\ answer.of[t].reason = "mutation_failed"
                                   /\ answer.of[t].testsPass /\ answer.of[t].covered
      BY <1>1, <2>1, <2>2, Reclassified DEF AnswerOK
    <2>4. ASSUME \E t \in Executable : answer.of[t].status /= "passed",
                 \A t \in Skipped : request.kind[t] = "comment"
          PROVE  Reaches(Rate(answer.of, Executable))
      <3>1. Executable # {} /\ Targets # {}
        BY <1>2, <2>4
      <3>2. Reaches(Rate(Projected, Targets))
        BY <1>2, <1>4, <2>1, <3>1
      <3>3. Rate(Projected, Targets) = Rate(answer.of, Executable)
        BY <1>1, <2>1, <2>4, <3>1, ScoredAlike
      <3> QED
        BY <3>2, <3>3
    <2> QED
      BY <1>1, <2>1, <2>3, <2>4 DEF Earned
  <1> QED
    BY <1>5, <1>6

LEMMA ReportKept ==
  ASSUME ReportOK, [RNext]_rvars
  PROVE  ReportOK'
  <1>1. ASSUME UNCHANGED <<request, answer, report, verdict>>, at' \in {"allocate", "rounds", "bind"},
               at \in {"skip", "allocate", "rounds"}
        PROVE  ReportOK'
    BY <1>1 DEF ReportOK
  <1>2. CASE PrepareRuntime
    BY <1>2, EarnedStays DEF PrepareRuntime, ReportOK
  <1>3. CASE CommandCut
    BY <1>3, EarnedStays DEF CommandCut, CutVerdicts, ReportOK
  <1>4. ASSUME NEW how, NEW why, Finish(how, why), at \notin {"end", "project"}
        PROVE  /\ ReportOK' \/ how = "passed"
               /\ how = "passed" /\ ~request.changed => ReportOK'
    <2>1. at' = "reported" /\ UNCHANGED <<request, answer, verdict>>
      BY <1>4 DEF Finish
    <2>3. report'.status = how
      <3>1. report' = [NoReport EXCEPT !.status = how, !.reason = why]
        BY <1>4 DEF Finish
      <3> QED
        BY <3>1 DEF NoReport
    <2>2. Earned' <=> Earned
      BY <2>1, EarnedStays
    <2> QED
      BY <1>4, <2>1, <2>2, <2>3 DEF ReportOK
  <1>5. CASE ReportPreflight
    <2>1. CASE ~request.base
      BY <1>4, <1>5, <2>1 DEF ReportPreflight
    <2>2. CASE request.base /\ ~request.changed
      BY <1>4, <1>5, <2>2 DEF ReportPreflight
    <2>3. CASE request.base /\ request.changed /\ ~request.tests
      BY <1>4, <1>5, <2>3 DEF ReportPreflight
    <2>4. CASE request.base /\ request.changed /\ request.tests
      <3>1. at = "start" /\ at' = "skip" /\ UNCHANGED <<request, answer, report, verdict>>
        BY <1>5, <2>4 DEF ReportPreflight
      <3> QED
        BY <2>4, <3>1 DEF ReportOK
    <2> QED
      BY <2>1, <2>2, <2>3, <2>4 DEF ReportOK
  <1>6. CASE SkipTargets
    <2>1. CASE Executable /= {}
      BY <1>1, <1>6, <2>1 DEF SkipTargets
    <2>2. CASE Executable = {}
      <3>1. at = "skip" /\ at' = "reported" /\ UNCHANGED <<request, answer, verdict>>
        BY <1>6, <2>2 DEF SkipTargets
      <3>2. Earned
        BY <2>2, <3>1, SkipsAreEarned DEF ReportOK
      <3> QED
        BY <3>1, <3>2, EarnedStays DEF ReportOK
    <2> QED
      BY <2>1, <2>2
  <1>7. CASE StartAllocation
    BY <1>1, <1>7 DEF StartAllocation
  <1>8. CASE TakeTurn
    BY <1>1, <1>8 DEF TakeTurn
  <1>9. CASE StartRound
    BY <1>1, <1>9 DEF StartRound
  <1>10. CASE EndAllocation
    BY <1>1, <1>10 DEF EndAllocation
  <1>11. CASE Bind
    <2>1. at = "bind" /\ at' = "project" /\ UNCHANGED <<request, report, verdict>>
      BY <1>11 DEF Bind
    <2> QED
      BY <1>11, <2>1, BoundAnswers DEF ReportOK
  <1>12. CASE Project
    <2>1. at = "project" /\ at' = "reported" /\ UNCHANGED <<request, answer, verdict>>
      BY <1>12 DEF Project
    <2> QED
      BY <1>12, <2>1, EarnedStays, ProjectEarns DEF ReportOK
  <1>13. CASE Classify
    <2>1. at = "reported" /\ at' = "end" /\ UNCHANGED <<request, answer, report>>
      BY <1>13 DEF Classify
    <2>2. verdict' = "passed" => report.status = "passed"
      BY <1>13 DEF Classify, Validate
    <2> QED
      BY <2>1, <2>2, EarnedStays DEF ReportOK
  <1>14. CASE UNCHANGED rvars
    BY <1>14, EarnedStays DEF rvars, ReportOK, AnswerOK, Executable
  <1> QED
    BY <1>2, <1>3, <1>5, <1>6, <1>7, <1>8, <1>9, <1>10, <1>11, <1>12, <1>13, <1>14 DEF RNext

\* A verdict of passed is earned by the targets (run_python_enforcement,
\* _project_binding_evidence, _classify_completed), for any targets, kinds of
\* files, operators, budget and gate: none of the steps that aggregate, forgive
\* and validate turns a target that failed into one that did not, except for the
\* mutants a sample missed, and then the mutants of all targets make up for it.
THEOREM PassesCoverTargets == RSpec => []PassCoversTargets
  <1>1. ReportOK => PassCoversTargets
    BY DEF ReportOK, PassCoversTargets, Earned
  <1> QED
    BY ReportStart, ReportKept, <1>1, PTL DEF RSpec

-------------------------------------------------------------------------------
(* The review of the survivors.  The invariant: a unit that is asked about  *)
(* its survivors was failed by these and by nothing else, and what the turn *)
(* has said it has said itself.                                             *)

LEMMA ReadingsAreFinite == IsFiniteSet(Readings)
  <1> DEFINE flags == (BOOLEAN \X BOOLEAN) \X BOOLEAN
             f == [x \in flags |-> [whole |-> x[1][1], killedOnly |-> x[1][2], drop |-> x[2]]]
  <1>1. IsFiniteSet(BOOLEAN)
    <2>1. BOOLEAN = {TRUE} \cup {FALSE}
      OBVIOUS
    <2>2. IsFiniteSet({TRUE}) /\ IsFiniteSet({FALSE})
      BY FS_Singleton
    <2> QED
      BY <2>1, <2>2, FS_Union
  <1>2. IsFiniteSet(flags)
    BY <1>1, FS_Product
  <1>3. f \in Surjection(flags, Readings)
    <2>1. f \in [flags -> Readings]
      BY DEF Readings
    <2>2. ASSUME NEW r \in Readings PROVE \E x \in flags : f[x] = r
      <3>1. <<<<r.whole, r.killedOnly>>, r.drop>> \in flags
        BY DEF Readings
      <3>2. f[<<<<r.whole, r.killedOnly>>, r.drop>>] = r
        BY <3>1 DEF Readings
      <3> QED
        BY <3>1, <3>2
    <2> QED
      BY <2>1, <2>2 DEF Surjection
  <1> QED
    BY <1>2, <1>3, FS_Surjection

Scenes == [lang : {"java", "python"}, rule : Readings, inDiff : SUBSET Mutants,
           file : [Mutants -> Sources], owner : [Mutants -> Units]]

\* No mutant is left that fails the gate and did not survive.
LEMMA NoOthers ==
  ASSUME NEW missed \in SUBSET Mutants, NEW survivors \in SUBSET missed,
         Cardinality(missed \ survivors) = 0
  PROVE  missed = survivors
  <1>1. IsFiniteSet(missed \ survivors)
    BY ReviewAssumption, FS_Subset
  <1>2. missed \ survivors = {}
    BY <1>1, FS_EmptySet
  <1> QED
    BY <1>2

\* If all readings agree, they agree with the rule of the gate.
LEMMA JavaKeys ==
  ASSUME scene \in Scenes, NEW m, java_scoring_survivors(m) # Unproven,
         java_scoring_survivors(m).others = 0
  PROVE  /\ java_scoring_survivors(m).keys = Missed(scene.rule, m.status)
         /\ Missed(scene.rule, m.status) \subseteq Mutants
  <1> DEFINE fitting == {r \in Readings : Printed(r, m.status) = Printed(scene.rule, m.status)}
             answers == {Failures(r, m.status) : r \in fitting}
             f == [r \in fitting |-> Failures(r, m.status)]
             truth == Failures(scene.rule, m.status)
             missed == Missed(scene.rule, m.status)
             survivors == {x \in missed : m.status[x] = "SURVIVED"}
  <1>1. Cardinality(answers) = 1 /\ java_scoring_survivors(m) = Proven(CHOOSE a \in answers : TRUE)
    BY DEF java_scoring_survivors
  <1>2. scene.rule \in fitting
    BY DEF Scenes
  <1>3. IsFiniteSet(answers)
    <2>1. IsFiniteSet(fitting)
      BY ReadingsAreFinite, FS_Subset
    <2>2. f \in Surjection(fitting, answers)
      BY DEF Surjection
    <2> QED
      BY <2>1, <2>2, FS_Surjection
  <1>4. truth \in answers
    BY <1>2
  <1>5. PICK a : answers = {a}
    BY <1>1, <1>3, FS_Singleton
  <1>6. (CHOOSE b \in answers : TRUE) = truth
    BY <1>4, <1>5
  <1>7. java_scoring_survivors(m) = Proven(truth)
    BY <1>1, <1>6
  <1>8. missed \in SUBSET Mutants
    BY DEF Missed, CountedRows
  <1>9. truth.keys = survivors /\ truth.others = Cardinality(missed \ survivors)
    BY DEF Failures
  <1>10. java_scoring_survivors(m).keys = survivors /\ Cardinality(missed \ survivors) = 0
    BY <1>7, <1>9 DEF Proven
  <1>11. survivors \in SUBSET missed
    OBVIOUS
  <1> HIDE DEF survivors, missed
  <1>12. missed = survivors
    BY <1>8, <1>10, <1>11, NoOthers
  <1> QED
    BY <1>8, <1>10, <1>12 DEF missed

\* Mutmut's list is whole when it is as long as the survivors are many.
LEMMA PythonKeys ==
  ASSUME NEW scope \in SUBSET Mutants, NEW m, m.listed \subseteq scope,
         \A x \in m.listed : m.status[x] = "SURVIVED",
         python_scoring_survivors(m, scope) # Unproven,
         python_scoring_survivors(m, scope).others = 0
  PROVE  python_scoring_survivors(m, scope).keys = MissedByPython(m.status, scope)
  <1> DEFINE survivors == {x \in scope : m.status[x] = "SURVIVED"}
             timeouts == {x \in scope : m.status[x] = "TIMED_OUT"}
             listing == [keys |-> m.listed, others |-> Cardinality(timeouts)]
  <1>1. ListIsWhole(m, scope) /\ python_scoring_survivors(m, scope) = Proven(listing)
    BY DEF python_scoring_survivors
  <1>2. IsFiniteSet(survivors) /\ IsFiniteSet(timeouts)
    BY ReviewAssumption, FS_Subset
  <1>3. m.listed \subseteq survivors /\ Cardinality(m.listed) = Cardinality(survivors)
    BY <1>1 DEF ListIsWhole
  <1>4. m.listed = survivors
    BY <1>2, <1>3, FS_Subset
  <1>5. timeouts = {}
    <2>1. Cardinality(timeouts) = 0
      BY <1>1 DEF Proven
    <2> QED
      BY <1>2, <2>1, FS_EmptySet
  <1>6. MissedByPython(m.status, scope) = survivors \cup timeouts
    BY DEF MissedByPython
  <1> QED
    BY <1>1, <1>4, <1>5, <1>6 DEF Proven

\* A unit is asked about all that fails it.
LEMMA AskedAboutAll ==
  ASSUME scene \in Scenes, NEW u \in Units, NEW m \in Measurements(UnitScope(u), {FALSE}),
         assess_eligibility(scoring_survivors(m, UnitScope(u)))
  PROVE  /\ scoring_survivors(m, UnitScope(u)).keys = FailsGate(m.status, UnitScope(u))
         /\ FailsGate(m.status, UnitScope(u)) \subseteq Mutants
  <1>1. UnitScope(u) \in SUBSET Mutants
    BY DEF UnitScope
  <1>2. m.listed \subseteq UnitScope(u) /\ \A x \in m.listed : m.status[x] = "SURVIVED"
    BY DEF Measurements
  <1>3. /\ scoring_survivors(m, UnitScope(u)) # Unproven
        /\ scoring_survivors(m, UnitScope(u)).others = 0
    BY DEF assess_eligibility
  <1>4. CASE scene.lang = "java"
    BY <1>3, <1>4, JavaKeys DEF scoring_survivors, FailsGate
  <1>5. CASE scene.lang # "java"
    <2>1. FailsGate(m.status, UnitScope(u)) = MissedByPython(m.status, UnitScope(u))
      BY <1>5 DEF FailsGate
    <2>2. MissedByPython(m.status, UnitScope(u)) \subseteq Mutants
      BY <1>1 DEF MissedByPython
    <2>3. scoring_survivors(m, UnitScope(u)) = python_scoring_survivors(m, UnitScope(u))
      BY <1>5 DEF scoring_survivors
    <2> QED
      BY <1>1, <1>2, <1>3, <2>1, <2>2, <2>3, PythonKeys
  <1> QED
    BY <1>4, <1>5

ReviewTypes ==
    /\ scene \in Scenes
    /\ ustep \in [Units -> {"todo", "prompt", "turn", "done"}]
    /\ turns \in [Units -> Nat]
    /\ asked = [u \in Units |-> asked[u]] /\ said = [u \in Units |-> said[u]]
    /\ saved = [u \in Units |-> saved[u]]

\* What a unit is asked about is all that fails it.
EvidenceIsWhole ==
    \A u \in Units : ustep[u] \in {"prompt", "turn"} =>
        asked[u].fails = asked[u].survivors.keys /\ asked[u].fails \subseteq Mutants

\* The file a turn is judged by is its own.
FileIsOwn == \A u \in Units : ustep[u] = "turn" /\ said[u] # NoFile => said[u].turn = turns[u]

ReviewOK == ReviewTypes /\ EvidenceIsWhole /\ FileIsOwn /\ ReviewIsWhole

LEMMA ReviewStart == EInit => ReviewOK
  <1> SUFFICES ASSUME EInit PROVE ReviewOK
    OBVIOUS
  <1>1. ReviewTypes
    BY DEF EInit, ReviewTypes, Scenes
  <1>2. EvidenceIsWhole /\ FileIsOwn
    BY DEF EInit, EvidenceIsWhole, FileIsOwn
  <1>3. ReviewIsWhole
    BY DEF EInit, ReviewIsWhole, NoReview
  <1> QED
    BY <1>1, <1>2, <1>3 DEF ReviewOK

\* A unit is closed without a review that excuses anything.
LEMMA PlainClose ==
  ASSUME ReviewOK, NEW u \in Units, NEW status, NEW review, review.outcome # "all_equivalent",
         Close(u, status, review), UNCHANGED <<scene, turns, said, asked, judged>>
  PROVE  ReviewOK'
  <1>1. ReviewTypes'
    BY DEF ReviewOK, ReviewTypes, Close
  <1>2. /\ ustep'[u] = "done" /\ saved'[u] = review
        /\ \A v \in Units \ {u} : ustep'[v] = ustep[v] /\ saved'[v] = saved[v]
    BY DEF ReviewOK, ReviewTypes, Close
  <1>3. EvidenceIsWhole' /\ FileIsOwn'
    BY <1>2 DEF ReviewOK, EvidenceIsWhole, FileIsOwn
  <1>4. ReviewIsWhole'
    BY <1>2 DEF ReviewOK, ReviewIsWhole
  <1> QED
    BY <1>1, <1>3, <1>4 DEF ReviewOK

LEMMA PrepareKeeps ==
  ASSUME ReviewOK, NEW u \in Units, prepare_review(u)
  PROVE  ReviewOK'
  <1>1. CASE Close(u, "PASS", NoReview) /\ UNCHANGED asked
    BY <1>1, PlainClose DEF prepare_review, NoReview
  <1>2. CASE Close(u, "FAIL", NoReview) /\ UNCHANGED asked
    BY <1>2, PlainClose DEF prepare_review, NoReview
  <1>3. ASSUME NEW m \in Measurements(UnitScope(u), {FALSE}),
               ~assess_eligibility(scoring_survivors(m, UnitScope(u))),
               Close(u, RowStatus, NoReview) /\ UNCHANGED asked
        PROVE  ReviewOK'
    BY <1>3, PlainClose DEF prepare_review, NoReview
  <1>4. ASSUME NEW m \in Measurements(UnitScope(u), {FALSE}),
               assess_eligibility(scoring_survivors(m, UnitScope(u))),
               ustep' = [ustep EXCEPT ![u] = "prompt"],
               asked' = [asked EXCEPT ![u] =
                          [survivors |-> scoring_survivors(m, UnitScope(u)), tree |-> content,
                           fails |-> FailsGate(m.status, UnitScope(u))]],
               UNCHANGED saved
        PROVE  ReviewOK'
    <2>0. UNCHANGED <<scene, turns, said, judged>>
      BY DEF prepare_review
    <2>1. ReviewTypes'
      BY <1>4, <2>0 DEF ReviewOK, ReviewTypes
    <2>2. /\ asked'[u].fails = FailsGate(m.status, UnitScope(u))
          /\ asked'[u].survivors = scoring_survivors(m, UnitScope(u))
          /\ ustep'[u] = "prompt"
          /\ \A v \in Units \ {u} : ustep'[v] = ustep[v] /\ asked'[v] = asked[v]
      BY <1>4 DEF ReviewOK, ReviewTypes
    <2>3. EvidenceIsWhole'
      BY <1>4, <2>0, <2>2, AskedAboutAll DEF ReviewOK, ReviewTypes, EvidenceIsWhole
    <2>4. FileIsOwn'
      BY <2>0, <2>2 DEF ReviewOK, FileIsOwn
    <2>5. ReviewIsWhole'
      BY <1>4, <2>0 DEF ReviewOK, ReviewIsWhole
    <2> QED
      BY <2>1, <2>3, <2>4, <2>5 DEF ReviewOK
  <1> QED
    BY <1>1, <1>2, <1>3, <1>4 DEF prepare_review

LEMMA PromptKeeps ==
  ASSUME ReviewOK, NEW u \in Units, render_prompt(u)
  PROVE  ReviewOK'
  <1>1. ReviewTypes'
    BY DEF ReviewOK, ReviewTypes, render_prompt, CleanVerdicts
  <1>2. /\ ustep[u] = "prompt" /\ said'[u] = NoFile /\ UNCHANGED <<scene, asked, saved, judged>>
        /\ \A v \in Units \ {u} : /\ ustep'[v] = ustep[v] /\ said'[v] = said[v]
                                  /\ turns'[v] = turns[v]
    BY DEF ReviewOK, ReviewTypes, render_prompt, CleanVerdicts
  <1>3. EvidenceIsWhole' /\ FileIsOwn'
    BY <1>2 DEF ReviewOK, EvidenceIsWhole, FileIsOwn
  <1>4. ReviewIsWhole'
    BY <1>2 DEF ReviewOK, ReviewIsWhole
  <1> QED
    BY <1>1, <1>3, <1>4 DEF ReviewOK

LEMMA WritesKeep ==
  ASSUME ReviewOK, NEW u \in Units, AgentWrites(u)
  PROVE  ReviewOK'
  <1>0. PICK o \in [Mutants -> Opinions] :
             said' = [said EXCEPT ![u] = [turn |-> turns[u], of |-> o]]
    BY DEF AgentWrites
  <1>1. ReviewTypes'
    BY <1>0 DEF ReviewOK, ReviewTypes, AgentWrites
  <1>2. /\ said'[u].turn = turns[u] /\ UNCHANGED <<scene, ustep, turns, asked, saved, judged>>
        /\ \A v \in Units \ {u} : said'[v] = said[v]
    BY <1>0 DEF ReviewOK, ReviewTypes, AgentWrites
  <1>3. EvidenceIsWhole' /\ FileIsOwn'
    BY <1>2 DEF ReviewOK, EvidenceIsWhole, FileIsOwn
  <1>4. ReviewIsWhole'
    BY <1>2 DEF ReviewOK, ReviewIsWhole
  <1> QED
    BY <1>1, <1>3, <1>4 DEF ReviewOK

LEMMA DeathKeeps ==
  ASSUME ReviewOK, NEW u \in Units, WorkerDies(u)
  PROVE  ReviewOK'
  <1>1. ReviewTypes'
    BY DEF ReviewOK, ReviewTypes, WorkerDies
  <1>2. /\ ustep[u] = "turn" /\ ustep'[u] = "prompt"
        /\ UNCHANGED <<scene, turns, said, asked, saved, judged>>
        /\ \A v \in Units \ {u} : ustep'[v] = ustep[v]
    BY DEF ReviewOK, ReviewTypes, WorkerDies
  <1>3. EvidenceIsWhole' /\ FileIsOwn'
    BY <1>2 DEF ReviewOK, EvidenceIsWhole, FileIsOwn
  <1>4. ReviewIsWhole'
    BY <1>2 DEF ReviewOK, ReviewIsWhole
  <1> QED
    BY <1>1, <1>3, <1>4 DEF ReviewOK

\* A review that is saved excuses what its own turn called equivalent, on the
\* tree that was measured.
LEMMA InterpretKeeps ==
  ASSUME ReviewOK, NEW u \in Units, interpret(u)
  PROVE  ReviewOK'
  <1> DEFINE keys == asked[u].survivors.keys
             Good(b) == TreeUnchanged(u) /\ b /\ parse_verdicts(said[u], keys)
             Kept(b) == IF Good(b) THEN Reviewed(asked[u]) ELSE [outcome |-> "rejected"]
             Agreed(b) == {<<x, content[scene.file[x]]>> : x \in
                             {y \in keys : Good(b) /\ said[u].turn = turns[u]
                                           /\ said[u].of[y] = "equivalent"}}
  <1>1. PICK completed \in BOOLEAN : /\ Close(u, RowStatus, Kept(completed))
                                     /\ judged' = judged \cup Agreed(completed)
    BY DEF interpret
  <1>2. ReviewTypes'
    BY <1>1 DEF ReviewOK, ReviewTypes, interpret, Close
  <1>3. /\ ustep[u] = "turn" /\ ustep'[u] = "done" /\ saved'[u] = Kept(completed)
        /\ scene' = scene
        /\ \A v \in Units \ {u} : /\ ustep'[v] = ustep[v] /\ saved'[v] = saved[v]
                                  /\ asked'[v] = asked[v] /\ said'[v] = said[v]
                                  /\ turns'[v] = turns[v]
    BY <1>1 DEF ReviewOK, ReviewTypes, interpret, Close
  <1>4. EvidenceIsWhole' /\ FileIsOwn'
    BY <1>3 DEF ReviewOK, EvidenceIsWhole, FileIsOwn
  <1>5. ASSUME saved'[u].outcome = "all_equivalent", NEW x \in saved'[u].fails
        PROVE  <<x, saved'[u].tree[scene.file[x]]>> \in judged'
    <2>1. Good(completed)
      BY <1>3, <1>5
    <2>2. saved'[u].fails = asked[u].fails /\ saved'[u].tree = asked[u].tree
      BY <1>3, <2>1 DEF Reviewed
    <2>3. x \in keys /\ x \in Mutants
      BY <1>3, <1>5, <2>2 DEF ReviewOK, EvidenceIsWhole
    <2>4. said[u].of[x] = "equivalent" /\ said[u].turn = turns[u]
      BY <1>3, <2>1, <2>3 DEF parse_verdicts, ReviewOK, FileIsOwn
    <2>5. <<x, content[scene.file[x]]>> \in Agreed(completed)
      BY <2>1, <2>3, <2>4
    <2> QED
      BY <1>1, <2>1, <2>2, <2>5 DEF TreeUnchanged
  <1>6. ReviewIsWhole'
    <2>1. ASSUME NEW v \in Units \ {u}, saved'[v].outcome = "all_equivalent", NEW x \in saved'[v].fails
          PROVE  <<x, saved'[v].tree[scene.file[x]]>> \in judged'
      BY <1>1, <1>3, <2>1 DEF ReviewOK, ReviewIsWhole
    <2> QED
      BY <1>3, <1>5, <2>1 DEF ReviewIsWhole
  <1> QED
    BY <1>2, <1>4, <1>6 DEF ReviewOK

LEMMA ReviewNext == ReviewOK /\ [ENext]_evars => ReviewOK'
  <1> SUFFICES ASSUME ReviewOK, [ENext]_evars PROVE ReviewOK'
    OBVIOUS
  <1>1. CASE UNCHANGED <<scene, ustep, asked, turns, said, saved, judged>>
    BY <1>1 DEF ReviewOK, ReviewTypes, EvidenceIsWhole, FileIsOwn, ReviewIsWhole
  <1>2. ASSUME NEW u \in Units, AgentEdits(u) PROVE ReviewOK'
    BY <1>1, <1>2 DEF AgentEdits
  <1>3. CASE Rebased
    BY <1>1, <1>3 DEF Rebased
  <1>4. CASE TaskEnds
    BY <1>1, <1>4 DEF TaskEnds
  <1>5. CASE Rerun
    BY <1>1, <1>5 DEF Rerun
  <1>6. CASE UNCHANGED evars
    BY <1>1, <1>6 DEF evars
  <1> QED
    BY <1>2, <1>3, <1>4, <1>5, <1>6, PrepareKeeps, PromptKeeps, WritesKeep, DeathKeeps,
       InterpretKeeps DEF ENext

\* A review excuses only what it saw, for any mutants, files, units and bounds:
\* every mutant that failed the gate had survived and was called equivalent by
\* the turn that was asked about it, on the text that was measured
\* (java_scoring_survivors, python_scoring_survivors, interpret).
THEOREM AReviewSeesAll == ESpec => []ReviewIsWhole
  <1>1. ReviewOK => ReviewIsWhole
    BY DEF ReviewOK
  <1> QED
    BY <1>1, ReviewStart, ReviewNext, PTL DEF ESpec

-------------------------------------------------------------------------------
(* The watchdogs of a command.  The invariant: the one timer of a running   *)
(* process stands at its nearest deadline.                                  *)

\* The least of finitely many numbers.
LEMMA LeastOf ==
  ASSUME NEW T \in SUBSET Nat, IsFiniteSet(T), T # {}
  PROVE  Min(T) \in T /\ \A y \in T : Min(T) <= y
  <1> DEFINE UpTo(k) == {j \in T : j <= k}
             Heads == {UpTo(k) : k \in T}
  <1>1. Heads \subseteq FiniteSubsetsOf(T) /\ Heads # {}
    <2>1. ASSUME NEW k \in T PROVE UpTo(k) \in SUBSET T /\ IsFiniteSet(UpTo(k))
      BY FS_Subset
    <2> QED
      BY <2>1 DEF FiniteSubsetsOf
  <1>2. IsWellFoundedOn(StrictSubsetOrdering(T), FiniteSubsetsOf(T))
    BY FS_StrictSubsetOrderingWellFounded
  <1>3. PICK X \in Heads : \A Y \in Heads : <<Y, X>> \notin StrictSubsetOrdering(T)
    BY <1>1, <1>2, WFMin
  <1>4. PICK k \in T : X = UpTo(k)
    BY <1>3
  <1>5. ASSUME NEW j \in T, ~(k <= j) PROVE FALSE
    <2>1. j \in Nat /\ k \in Nat /\ j < k
      BY <1>5
    <2>2. \A i \in UpTo(j) : i \in UpTo(k)
      BY <2>1
    <2>3. k \in UpTo(k) /\ k \notin UpTo(j)
      BY <2>1
    <2>4. <<UpTo(j), X>> \in StrictSubsetOrdering(T)
      BY <1>4, <2>2, <2>3 DEF StrictSubsetOrdering
    <2> QED
      BY <1>3, <2>4
  <1> QED
    BY <1>5 DEF Min

LEMMA TwoNumbers ==
  ASSUME NEW a \in Int, NEW b \in Int
  PROVE  Max({a, b}) \in Int /\ Max({a, b}) >= a /\ Max({a, b}) >= b /\ Min({a, b}) \in Int
  <1>1. \E x \in {a, b} : \A y \in {a, b} : x >= y
    <2>1. CASE a >= b
      BY <2>1
    <2>2. CASE b >= a
      BY <2>2
    <2> QED
      BY <2>1, <2>2
  <1>2. \E x \in {a, b} : \A y \in {a, b} : x <= y
    <2>1. CASE a <= b
      BY <2>1
    <2>2. CASE b <= a
      BY <2>2
    <2> QED
      BY <2>1, <2>2
  <1>3. Max({a, b}) \in {a, b} /\ \A y \in {a, b} : Max({a, b}) >= y
    BY <1>1 DEF Max
  <1>4. Min({a, b}) \in {a, b}
    BY <1>2 DEF Min
  <1> QED
    BY <1>3, <1>4

LEMMA SelfAbortIsNat ==
  ASSUME NEW b \in Nat
  PROVE  SelfAbort(b) \in Nat
  <1>1. PICK q \in Int : q = b \div 20
    OBVIOUS
  <1>2. PICK top \in Int : top = Max({30, q})
    BY TwoNumbers
  <1>3. Margin(b) \in Int
    <2>1. Min({top, 300}) \in Int
      BY TwoNumbers
    <2> QED
      BY <1>1, <1>2, <2>1 DEF Margin
  <1>4. Max({b - Margin(b), 30}) \in Int /\ Max({b - Margin(b), 30}) >= 30
    BY <1>3, TwoNumbers
  <1> QED
    BY <1>4 DEF SelfAbort

Deadlines == {"adapter", "phase"} \X Nat
ProcStates == {"none", "running", "finishing", "exited", "aborted", "killed"}

ClockTypes ==
    /\ budget \in Nat /\ clock \in Nat
    /\ proc \in [Procs -> ProcStates]
    /\ watchdogs \in [Procs -> SUBSET Deadlines]
    /\ timer \in [Procs -> Nat \cup {Off}]

\* A process that runs has its timer at the nearest deadline, one that does not
\* has none, and no deadline has gone by.
Guarding(p) ==
    /\ IsFiniteSet(watchdogs[p])
    /\ proc[p] = "running" => timer[p] = Nearest(watchdogs[p])
    /\ proc[p] # "running" => watchdogs[p] = {}
    /\ \A w \in watchdogs[p] : clock <= w[2]

ClocksOK == ClockTypes /\ \A p \in Procs : Guarding(p)

LEMMA NearestOfSome ==
  ASSUME NEW ws \in SUBSET Deadlines, IsFiniteSet(ws)
  PROVE  /\ Nearest(ws) \in Nat \cup {Off}
         /\ ws # {} => Nearest(ws) # Off
         /\ \A w \in ws : Nearest(ws) <= w[2]
  <1>1. CASE ws = {}
    BY <1>1 DEF Nearest
  <1>2. CASE ws # {}
    <2> DEFINE times == {w[2] : w \in ws}
               f == [w \in ws |-> w[2]]
    <2>1. times \in SUBSET Nat /\ times # {}
      BY <1>2 DEF Deadlines
    <2>2. IsFiniteSet(times)
      <3>1. f \in Surjection(ws, times)
        BY DEF Surjection
      <3> QED
        BY <3>1, FS_Surjection
    <2>3. Min(times) \in times /\ \A y \in times : Min(times) <= y
      BY <2>1, <2>2, LeastOf
    <2>4. Nearest(ws) = Min(times)
      BY <1>2 DEF Nearest
    <2>5. \A w \in ws : w[2] \in times
      OBVIOUS
    <2>6. Min(times) \in Nat
      BY <2>1, <2>3
    <2> HIDE DEF times
    <2> QED
      BY <2>3, <2>4, <2>5, <2>6 DEF Off
  <1> QED
    BY <1>1, <1>2

LEMMA ClocksStart == PInit => ClocksOK
  <1> SUFFICES ASSUME PInit PROVE ClocksOK
    OBVIOUS
  <1>1. ClockTypes
    BY ProcessAssumption DEF PInit, ClockTypes, ProcStates, Procs, Off, Deadlines
  <1>2. ASSUME NEW p \in Procs PROVE Guarding(p)
    BY <1>2, FS_EmptySet DEF PInit, Guarding, Nearest, Procs
  <1> QED
    BY <1>1, <1>2 DEF ClocksOK

\* A step that leaves time and one of the processes alone.
LEMMA OneProcess ==
  ASSUME ClocksOK, NEW p \in Procs, UNCHANGED <<budget, clock>>, ClockTypes', Guarding(p)',
         \A q \in Procs \ {p} : /\ proc'[q] = proc[q] /\ watchdogs'[q] = watchdogs[q]
                                /\ timer'[q] = timer[q]
  PROVE  ClocksOK'
  BY DEF ClocksOK, Guarding

\* A running process puts watchdogs on or takes them off.
LEMMA RegisterKeeps ==
  ASSUME ClocksOK, NEW p \in Procs, NEW ws \in SUBSET Deadlines, IsFiniteSet(ws),
         \A w \in ws : clock <= w[2], proc[p] = "running", Register(p, ws),
         UNCHANGED <<budget, clock, proc>>
  PROVE  ClocksOK'
  <1>1. /\ watchdogs'[p] = ws /\ timer'[p] = Nearest(ws)
        /\ \A q \in Procs \ {p} : watchdogs'[q] = watchdogs[q] /\ timer'[q] = timer[q]
    BY DEF Register, ClocksOK, ClockTypes
  <1>2. ClockTypes'
    BY NearestOfSome DEF Register, ClocksOK, ClockTypes
  <1>3. Guarding(p)'
    BY <1>1 DEF Guarding
  <1> QED
    BY <1>1, <1>2, <1>3, OneProcess

LEMMA GoneKeeps ==
  ASSUME ClocksOK, NEW ps \in SUBSET Procs, NEW how \in ProcStates \ {"running"}, Gone(ps, how),
         UNCHANGED <<budget, clock>>
  PROVE  ClocksOK'
  <1>1. ClockTypes'
    BY DEF Gone, ClocksOK, ClockTypes
  <1>2. ASSUME NEW p \in Procs PROVE Guarding(p)'
    <2>1. CASE p \in ps
      BY <2>1, FS_EmptySet DEF Gone, Guarding
    <2>2. CASE p \notin ps
      BY <2>2 DEF Gone, Guarding, ClocksOK
    <2> QED
      BY <2>1, <2>2
  <1> QED
    BY <1>1, <1>2 DEF ClocksOK

LEMMA AdapterKeeps == ClocksOK /\ EnterAdapter => ClocksOK'
  <1> SUFFICES ASSUME ClocksOK, EnterAdapter PROVE ClocksOK'
    OBVIOUS
  <1> DEFINE ws == IF SelfAbort(budget) = 0 THEN {} ELSE {<<"adapter", clock + SelfAbort(budget)>>}
  <1>1. SelfAbort(budget) \in Nat /\ clock \in Nat
    BY SelfAbortIsNat DEF ClocksOK, ClockTypes
  <1>2. ws \in SUBSET Deadlines /\ \A w \in ws : clock <= w[2]
    BY <1>1 DEF Deadlines
  <1>3. IsFiniteSet(ws)
    BY FS_EmptySet, FS_Singleton
  <1>4. proc["leader"] = "running" /\ Register("leader", ws) /\ UNCHANGED <<budget, clock, proc>>
    BY DEF EnterAdapter
  <1> HIDE DEF ws
  <1> QED
    BY <1>2, <1>3, <1>4, RegisterKeeps DEF Procs

LEMMA EnterPhaseKeeps ==
  ASSUME ClocksOK, NEW p \in Procs, EnterPhase(p)
  PROVE  ClocksOK'
  <1> DEFINE ws == watchdogs[p] \cup {<<"phase", clock + PhaseTimeout>>}
  <1>1. clock \in Nat /\ PhaseTimeout \in Nat /\ watchdogs[p] \in SUBSET Deadlines
    BY ProcessAssumption DEF ClocksOK, ClockTypes
  <1>2. IsFiniteSet(watchdogs[p]) /\ \A w \in watchdogs[p] : clock <= w[2]
    BY DEF ClocksOK, Guarding
  <1>3. ws \in SUBSET Deadlines /\ \A w \in ws : clock <= w[2]
    BY <1>1, <1>2 DEF Deadlines
  <1>4. IsFiniteSet(ws)
    BY <1>2, FS_AddElement
  <1>5. proc[p] = "running" /\ Register(p, ws) /\ UNCHANGED <<budget, clock, proc>>
    BY DEF EnterPhase
  <1> HIDE DEF ws
  <1> QED
    BY <1>3, <1>4, <1>5, RegisterKeeps

LEMMA ExitPhaseKeeps ==
  ASSUME ClocksOK, NEW p \in Procs, ExitPhase(p)
  PROVE  ClocksOK'
  <1> DEFINE ws == {w \in watchdogs[p] : w[1] /= "phase"}
  <1>1. watchdogs[p] \in SUBSET Deadlines /\ IsFiniteSet(watchdogs[p])
        /\ \A w \in watchdogs[p] : clock <= w[2]
    BY DEF ClocksOK, ClockTypes, Guarding
  <1>2. ws \in SUBSET Deadlines /\ \A w \in ws : clock <= w[2]
    BY <1>1
  <1>3. IsFiniteSet(ws)
    BY <1>1, FS_Subset
  <1>4. proc[p] = "running" /\ Register(p, ws) /\ UNCHANGED <<budget, clock, proc>>
    BY DEF ExitPhase
  <1> HIDE DEF ws
  <1> QED
    BY <1>2, <1>3, <1>4, RegisterKeeps

\* The child inherits the deadlines and a timer at the nearest of them.
LEMMA ForkKeeps == ClocksOK /\ Fork => ClocksOK'
  <1> SUFFICES ASSUME ClocksOK, Fork PROVE ClocksOK'
    OBVIOUS
  <1> DEFINE ws == watchdogs["leader"]
  <1>1. ws \in SUBSET Deadlines /\ IsFiniteSet(ws) /\ \A w \in ws : clock <= w[2]
    BY DEF ClocksOK, ClockTypes, Guarding, Procs
  <1>2. /\ proc["leader"] = "running" /\ UNCHANGED <<budget, clock>>
        /\ proc' = [proc EXCEPT !["mutant"] = "running"]
        /\ watchdogs' = [watchdogs EXCEPT !["mutant"] = ws]
        /\ timer' = [leader |-> Nearest(ws), mutant |-> Nearest(ws)]
    BY DEF Fork, ArmChild
  <1>3. Nearest(ws) \in Nat \cup {Off}
    BY <1>1, NearestOfSome
  <1>4. /\ proc'["leader"] = "running" /\ proc'["mutant"] = "running"
        /\ watchdogs'["leader"] = ws /\ watchdogs'["mutant"] = ws
        /\ timer'["leader"] = Nearest(ws) /\ timer'["mutant"] = Nearest(ws)
    BY <1>2 DEF ClocksOK, ClockTypes, Procs
  <1>5. ClockTypes'
    BY <1>1, <1>2, <1>3 DEF ClocksOK, ClockTypes, Procs, ProcStates
  <1>6. ASSUME NEW p \in Procs PROVE Guarding(p)'
    BY <1>1, <1>2, <1>4 DEF Guarding, Procs
  <1> QED
    BY <1>5, <1>6 DEF ClocksOK

LEMMA ShutdownKeeps == ClocksOK /\ FinishProcess => ClocksOK'
  <1> SUFFICES ASSUME ClocksOK, FinishProcess PROVE ClocksOK'
    OBVIOUS
  <1>1. Grace \in Nat /\ clock \in Nat /\ UNCHANGED <<budget, clock>>
    BY ProcessAssumption DEF ClocksOK, ClockTypes, FinishProcess
  <1>2. /\ proc'["leader"] = "finishing" /\ watchdogs'["leader"] = {}
        /\ \A q \in Procs \ {"leader"} : /\ proc'[q] = proc[q] /\ watchdogs'[q] = watchdogs[q]
                                         /\ timer'[q] = timer[q]
    BY DEF FinishProcess, ClocksOK, ClockTypes, Procs
  <1>3. ClockTypes'
    <2>1. /\ proc' = [proc EXCEPT !["leader"] = "finishing"]
          /\ watchdogs' = [watchdogs EXCEPT !["leader"] = {}]
          /\ timer' = [timer EXCEPT !["leader"] = clock + Grace]
      BY DEF FinishProcess
    <2>2. clock + Grace \in Nat
      BY <1>1
    <2>3. proc' \in [Procs -> ProcStates] /\ watchdogs' \in [Procs -> SUBSET Deadlines]
      BY <2>1 DEF ClocksOK, ClockTypes, ProcStates
    <2>4. timer' \in [Procs -> Nat \cup {Off}]
      BY <2>1, <2>2 DEF ClocksOK, ClockTypes
    <2> QED
      BY <1>1, <2>3, <2>4 DEF ClocksOK, ClockTypes
  <1>4. Guarding("leader")'
    BY <1>2, FS_EmptySet DEF Guarding
  <1> QED
    BY <1>1, <1>2, <1>3, <1>4, OneProcess DEF Procs

\* Time does not pass over a deadline: it is no further away than the timer.
LEMMA TickKeeps == ClocksOK /\ Tick => ClocksOK'
  <1> SUFFICES ASSUME ClocksOK, Tick PROVE ClocksOK'
    OBVIOUS
  <1> DEFINE next == {clock + Step} \cup Armed
  <1>1. clock \in Nat /\ Step \in Nat /\ timer \in [Procs -> Nat \cup {Off}]
    BY ProcessAssumption DEF ClocksOK, ClockTypes
  <1>2. Armed \in SUBSET Nat
    BY <1>1 DEF Armed, Living
  <1>3. IsFiniteSet(Armed)
    <2>1. Armed \subseteq {timer["leader"]} \cup {timer["mutant"]}
      BY DEF Armed, Living, Procs
    <2>2. IsFiniteSet({timer["leader"]} \cup {timer["mutant"]})
      BY FS_Singleton, FS_Union
    <2> QED
      BY <2>1, <2>2, FS_Subset
  <1>4. IsFiniteSet(next) /\ next \in SUBSET Nat /\ next # {}
    BY <1>1, <1>2, <1>3, FS_AddElement
  <1>5. clock' = Min(next) /\ UNCHANGED <<budget, proc, watchdogs, timer>>
    BY DEF Tick
  <1>6. clock' \in Nat /\ \A due \in next : clock' <= due
    BY <1>4, <1>5, LeastOf
  <1>7. ClockTypes'
    BY <1>5, <1>6 DEF ClocksOK, ClockTypes
  <1>8. ASSUME NEW p \in Procs PROVE Guarding(p)'
    <2>1. Guarding(p) /\ watchdogs[p] \in SUBSET Deadlines
      BY DEF ClocksOK, ClockTypes
    <2>2. ASSUME NEW w \in watchdogs[p] PROVE clock' <= w[2]
      <3>1. proc[p] = "running" /\ timer[p] = Nearest(watchdogs[p]) /\ IsFiniteSet(watchdogs[p])
        BY <2>1, <2>2 DEF Guarding
      <3>2. timer[p] # Off /\ timer[p] <= w[2]
        BY <2>1, <2>2, <3>1, NearestOfSome
      <3>3. timer[p] \in Armed
        BY <3>1, <3>2 DEF Armed, Living, Alive
      <3>4. clock' <= timer[p] /\ timer[p] \in Nat
        BY <1>2, <1>6, <3>3
      <3>5. w[2] \in Nat
        BY <2>1, <2>2 DEF Deadlines
      <3> QED
        BY <1>6, <3>2, <3>4, <3>5
    <2> QED
      BY <1>5, <2>1, <2>2 DEF Guarding
  <1> QED
    BY <1>7, <1>8 DEF ClocksOK

LEMMA ClocksNext == ClocksOK /\ [PNext]_pvars => ClocksOK'
  <1> SUFFICES ASSUME ClocksOK, [PNext]_pvars PROVE ClocksOK'
    OBVIOUS
  <1>1. Living \in SUBSET Procs /\ "leader" \in Procs /\ "mutant" \in Procs
    BY DEF Living, Procs
  <1>2. CASE UNCHANGED <<budget, clock, proc, watchdogs, timer>>
    BY <1>2 DEF ClocksOK, ClockTypes, Guarding
  <1>3. CASE LeaderExits
    BY <1>1, <1>3, GoneKeeps DEF LeaderExits, ProcStates
  <1>4. CASE MutantExits
    BY <1>1, <1>4, GoneKeeps DEF MutantExits, ProcStates
  <1>5. ASSUME NEW p \in Procs, Fire(p) PROVE ClocksOK'
    <2> DEFINE how == IF proc[p] = "finishing" THEN "exited" ELSE "aborted"
    <2>1. how \in ProcStates \ {"running"} /\ Gone({p}, how) /\ UNCHANGED <<budget, clock>>
      BY <1>5 DEF Fire, ProcStates
    <2> HIDE DEF how
    <2> QED
      BY <2>1, GoneKeeps
  <1>6. CASE MemoryKill
    BY <1>1, <1>6, GoneKeeps DEF MemoryKill, ProcStates
  <1>7. CASE Expire
    <2>1. PICK dying \in SUBSET Living : Gone(dying, "killed")
      BY <1>7 DEF Expire
    <2>2. dying \in SUBSET Procs /\ "killed" \in ProcStates \ {"running"}
          /\ UNCHANGED <<budget, clock>>
      BY <1>1, <1>7 DEF Expire, ProcStates
    <2> QED
      BY <2>1, <2>2, GoneKeeps
  <1>8. CASE Terminate
    <2>1. CASE Alive("leader")
      BY <1>1, <1>8, <2>1, GoneKeeps DEF Terminate, ProcStates
    <2>2. CASE ~Alive("leader")
      BY <1>2, <1>8, <2>2 DEF Terminate
    <2> QED
      BY <2>1, <2>2
  <1>9. CASE Collect
    BY <1>2, <1>9 DEF Collect
  <1>10. CASE UNCHANGED pvars
    BY <1>2, <1>10 DEF pvars
  <1> QED
    BY <1>3, <1>4, <1>5, <1>6, <1>7, <1>8, <1>9, <1>10, AdapterKeeps, EnterPhaseKeeps, ExitPhaseKeeps,
       ForkKeeps, ShutdownKeeps, TickKeeps DEF PNext

\* Nested watchdogs share one timer and none is ever lost, for any timeouts and
\* any granularity of time: no process runs past a deadline registered in it or
\* inherited by it, through phases, forks, exits and kills
\* (_arm_nearest_watchdog, register_at_fork, finish_process).
THEOREM DeadlinesAreKept == PSpec => []NobodyOutlivesADeadline
  <1>1. ClocksOK => NobodyOutlivesADeadline
    BY DEF ClocksOK, Guarding, NobodyOutlivesADeadline, Living
  <1> QED
    BY <1>1, ClocksStart, ClocksNext, PTL DEF PSpec

-------------------------------------------------------------------------------
(* The rounds of a mutation repair.                                        *)

RoundsTyped == scored \in BOOLEAN /\ attempt \in Nat

RoundsOK == RoundsTyped /\ TurnIsBriefed

LEMMA PlaceIsNat ==
  ASSUME NEW items \in SUBSET MutantIds, NEW m
  PROVE  /\ IsFiniteSet(items) /\ IsFiniteSet({x \in items : x < m})
         /\ Place(m, items) \in Nat /\ Cardinality(items) \in Nat
  <1>1. IsFiniteSet(items)
    BY FS_Subset, RoundsAssumption DEF MutantIds
  <1>2. IsFiniteSet({x \in items : x < m})
    BY <1>1, FS_Subset
  <1> QED
    BY <1>1, <1>2, FS_CardinalityType DEF Place

\* Places are numbers below the number of mutants, and no two share one.
LEMMA PlacesDiffer ==
  ASSUME NEW items \in SUBSET MutantIds, NEW m \in items, NEW n \in items, m < n
  PROVE  Place(m, items) < Place(n, items)
  <1> DEFINE M == {x \in items : x < m}
             N == {x \in items : x < n}
  <1>0. MutantIds \subseteq Nat
    BY RoundsAssumption DEF MutantIds
  <1>1. m \in N /\ m \notin M
    BY <1>0
  <1>2. \A x \in M : x \in N
    BY <1>0
  <1>3. IsFiniteSet(N) /\ Cardinality(M) \in Nat /\ Cardinality(N) \in Nat
    BY PlaceIsNat DEF Place
  <1> HIDE DEF M, N
  <1>4. Cardinality(M) <= Cardinality(N) /\ Cardinality(M) # Cardinality(N)
    BY <1>1, <1>2, <1>3, FS_Subset
  <1> QED
    BY <1>3, <1>4 DEF Place, M, N

LEMMA PlaceBelow ==
  ASSUME NEW items \in SUBSET MutantIds, NEW m \in items
  PROVE  Place(m, items) \in 0..(Cardinality(items) - 1)
  <1> DEFINE M == {x \in items : x < m}
  <1>0. MutantIds \subseteq Nat
    BY RoundsAssumption DEF MutantIds
  <1>1. m \notin M /\ \A x \in M : x \in items
    BY <1>0
  <1>2. IsFiniteSet(items) /\ Cardinality(M) \in Nat /\ Cardinality(items) \in Nat
    BY PlaceIsNat DEF Place
  <1> HIDE DEF M
  <1>3. Cardinality(M) <= Cardinality(items) /\ Cardinality(M) # Cardinality(items)
    BY <1>1, <1>2, FS_Subset
  <1> QED
    BY <1>2, <1>3 DEF Place, M

\* What is cut in pieces is cut into as many as there are, none too large.
LEMMA CutArithmetic ==
  ASSUME NEW n \in Nat, NEW b \in Nat \ {0}, NEW p \in 0..(n - 1)
  PROVE  /\ p \div b \in Nat /\ (n + b - 1) \div b \in Nat
         /\ p \div b + 1 \in 1..((n + b - 1) \div b)
         /\ p - (p \div b) * b \in 0..(b - 1)
  <1> DEFINE q == p \div b
             t == (n + b - 1) \div b
             a == n + b - 1
  <1>1. q \in Int /\ q * b <= p /\ p < q * b + b
    OBVIOUS
  <1>2. t \in Int /\ t * b <= a /\ a < t * b + b
    OBVIOUS
  <1> HIDE DEF q, t
  <1>3. q \in Nat
    <2> SUFFICES ASSUME q <= -1 PROVE FALSE
      BY <1>1
    <2>1. (q + 1) * b <= 0
      BY <1>1
    <2> QED
      BY <1>1, <2>1
  <1>4. q < t
    <2> SUFFICES ASSUME t <= q PROVE FALSE
      BY <1>1, <1>2
    <2>1. t * b <= q * b
      BY <1>1, <1>2
    <2> QED
      BY <1>1, <1>2, <2>1
  <1>5. p - q * b \in 0..(b - 1)
    BY <1>1
  <1> QED
    BY <1>1, <1>2, <1>3, <1>4, <1>5 DEF q, t

\* A batch that was cut off is no larger than a batch.
LEMMA BatchSize ==
  ASSUME NEW items \in SUBSET MutantIds, NEW i \in Nat \ {0}
  PROVE  Cardinality({m \in items : Place(m, items) \div BatchMax = i - 1}) <= BatchMax
  <1> DEFINE P == {m \in items : Place(m, items) \div BatchMax = i - 1}
             base == (i - 1) * BatchMax
             f == [m \in P |-> Place(m, items) - base]
  <1>0. MutantIds \subseteq Nat /\ BatchMax \in Nat \ {0} /\ base \in Nat
    BY RoundsAssumption DEF MutantIds
  <1>1. ASSUME NEW m \in P PROVE f[m] \in 0..(BatchMax - 1) /\ Place(m, items) \in Nat
    <2>1. m \in items /\ Place(m, items) \div BatchMax = i - 1
      OBVIOUS
    <2>2. Place(m, items) \in 0..(Cardinality(items) - 1) /\ Cardinality(items) \in Nat
      BY <2>1, PlaceBelow, PlaceIsNat
    <2>3. Place(m, items) - (Place(m, items) \div BatchMax) * BatchMax \in 0..(BatchMax - 1)
      BY <1>0, <2>2, CutArithmetic
    <2>4. Place(m, items) - base \in 0..(BatchMax - 1)
      BY <2>1, <2>3
    <2> QED
      BY <2>2, <2>4
  <1>2. ASSUME NEW m \in P, NEW n \in P, f[m] = f[n] PROVE m = n
    <2>1. Place(m, items) = Place(n, items) /\ Place(m, items) \in Nat
      <3> HIDE DEF base
      <3>1. Place(m, items) - base = Place(n, items) - base
        BY <1>2
      <3> QED
        BY <1>0, <1>1, <3>1
    <2>2. m \in items /\ n \in items /\ m \in Nat /\ n \in Nat
      BY <1>0
    <2> QED
      BY <2>1, <2>2, PlacesDiffer
  <1> HIDE DEF P, base
  <1>3. f \in Injection(P, 0..(BatchMax - 1))
    BY <1>1, <1>2, Fun_IsInj
  <1>4. IsFiniteSet(0..(BatchMax - 1)) /\ Cardinality(0..(BatchMax - 1)) = BatchMax
    BY <1>0, FS_Interval
  <1>5. Cardinality(P) <= Cardinality(0..(BatchMax - 1))
    BY <1>3, <1>4, FS_Injection
  <1> QED
    BY <1>4, <1>5 DEF P

LEMMA SymbolIsNat ==
  ASSUME NEW m \in MutantIds
  PROVE  SymbolForLine(m) \in Nat
  BY RoundsAssumption DEF SymbolForLine, MutantIds, Module

\* What is in a batch.
BatchOK(b, set) ==
    /\ b.symbol \in Nat /\ b.part \in Nat /\ b.of \in Nat /\ b.items \in SUBSET set
    /\ \A m \in b.items : SymbolForLine(m) = b.symbol
    /\ Cardinality(b.items) <= BatchMax

LEMMA BatchesOfOK ==
  ASSUME NEW set \in SUBSET MutantIds, NEW s \in Nat, NEW b \in BatchesOf(s, GroupedBySymbol(set, s))
  PROVE  BatchOK(b, set) /\ b.symbol = s
  <1> DEFINE items == GroupedBySymbol(set, s)
  <1>0. items \in SUBSET MutantIds /\ items \subseteq set /\ \A m \in items : SymbolForLine(m) = s
    BY DEF GroupedBySymbol
  <1> HIDE DEF items
  <1>1. CASE Cardinality(items) <= BatchMax
    <2>1. b = [symbol |-> s, part |-> 0, of |-> 0, items |-> items]
      BY <1>1 DEF BatchesOf, items
    <2> QED
      BY <1>0, <1>1, <2>1 DEF BatchOK
  <1>2. CASE ~(Cardinality(items) <= BatchMax)
    <2>1. PICK i \in 1..BatchCount(items) :
            b = [symbol |-> s, part |-> i, of |-> BatchCount(items),
                 items |-> {m \in items : Place(m, items) \div BatchMax = i - 1}]
      BY <1>2 DEF BatchesOf, items
    <2>2. BatchMax \in Nat \ {0} /\ Cardinality(items) \in Nat
      BY <1>0, PlaceIsNat, RoundsAssumption
    <2>3. BatchCount(items) \in Nat
      <3>1. Cardinality(items) > 0
        BY <1>2, <2>2
      <3>2. 0 \in 0..(Cardinality(items) - 1)
        BY <2>2, <3>1
      <3> QED
        BY <2>2, <3>2, CutArithmetic DEF BatchCount
    <2>4. i \in Nat \ {0}
      BY <2>3
    <2>5. Cardinality({m \in items : Place(m, items) \div BatchMax = i - 1}) <= BatchMax
      BY <1>0, <2>4, BatchSize
    <2> DEFINE P == {m \in items : Place(m, items) \div BatchMax = i - 1}
    <2>6. P \in SUBSET set /\ \A m \in P : SymbolForLine(m) = s
      BY <1>0
    <2>7. b = [symbol |-> s, part |-> i, of |-> BatchCount(items), items |-> P] /\ Cardinality(P) <= BatchMax
      BY <2>1, <2>5
    <2> HIDE DEF P
    <2>8. b.symbol = s /\ b.part = i /\ b.of = BatchCount(items) /\ b.items = P
      BY <2>7
    <2> QED
      BY <2>3, <2>4, <2>6, <2>7, <2>8 DEF BatchOK
  <1> QED
    BY <1>1, <1>2

LEMMA BatchesAreOK ==
  ASSUME NEW set \in SUBSET MutantIds, NEW b \in Batches(set)
  PROVE  BatchOK(b, set) /\ b \in BatchesOf(b.symbol, GroupedBySymbol(set, b.symbol))
  <1>1. PICK s \in {SymbolForLine(m) : m \in set} : b \in BatchesOf(s, GroupedBySymbol(set, s))
    BY DEF Batches
  <1>2. s \in Nat
    BY SymbolIsNat
  <1> QED
    BY <1>1, <1>2, BatchesOfOK

\* Every one of the mutants is in one batch, and in no other.
LEMMA InOneBatch ==
  ASSUME NEW set \in SUBSET MutantIds, NEW m \in set
  PROVE  Cardinality({b \in Batches(set) : m \in b.items}) = 1
  <1> DEFINE s == SymbolForLine(m)
             items == GroupedBySymbol(set, s)
             Mine == {b \in Batches(set) : m \in b.items}
  <1>0. items \in SUBSET MutantIds /\ m \in items /\ s \in Nat /\ m \in MutantIds
    BY SymbolIsNat DEF GroupedBySymbol
  <1>1. ASSUME NEW b \in Mine PROVE b \in BatchesOf(s, items)
    <2>1. b \in Batches(set) /\ m \in b.items
      OBVIOUS
    <2>2. BatchOK(b, set) /\ b \in BatchesOf(b.symbol, GroupedBySymbol(set, b.symbol))
      BY <2>1, BatchesAreOK
    <2>3. b.symbol = s
      BY <2>1, <2>2 DEF BatchOK
    <2> QED
      BY <2>2, <2>3
  <1>2. ASSUME NEW b \in BatchesOf(s, items), m \in b.items PROVE b \in Mine
    BY <1>2 DEF Batches
  <1> HIDE DEF s, items, Mine
  <1>3. \E c : Mine = {c}
    <2>1. CASE Cardinality(items) <= BatchMax
      <3> DEFINE c == [symbol |-> s, part |-> 0, of |-> 0, items |-> items]
      <3>1. BatchesOf(s, items) = {c}
        BY <2>1 DEF BatchesOf
      <3>2. c.items = items
        OBVIOUS
      <3> HIDE DEF c
      <3>3. c \in Mine
        BY <1>0, <1>2, <3>1, <3>2
      <3>4. Mine = {c}
        BY <1>1, <3>1, <3>3
      <3> QED
        BY <3>4
    <2>2. CASE ~(Cardinality(items) <= BatchMax)
      <3> DEFINE Cut(i) == {x \in items : Place(x, items) \div BatchMax = i - 1}
                 B(i) == [symbol |-> s, part |-> i, of |-> BatchCount(items), items |-> Cut(i)]
                 p == Place(m, items) \div BatchMax
      <3>1. BatchesOf(s, items) = {B(i) : i \in 1..BatchCount(items)}
        BY <2>2 DEF BatchesOf
      <3>2. p \in Nat /\ p + 1 \in 1..BatchCount(items)
        <4>1. BatchMax \in Nat \ {0} /\ Cardinality(items) \in Nat
          BY <1>0, PlaceIsNat, RoundsAssumption
        <4>2. Place(m, items) \in 0..(Cardinality(items) - 1)
          BY <1>0, PlaceBelow
        <4> QED
          BY <4>1, <4>2, CutArithmetic DEF BatchCount
      <3>3. ASSUME NEW i \in Int PROVE m \in Cut(i) <=> p = i - 1
        BY <1>0
      <3>4. ASSUME NEW i PROVE B(i).items = Cut(i)
        OBVIOUS
      <3> HIDE DEF B, Cut, p
      <3>5. m \in B(p + 1).items
        <4>1. p + 1 \in Int /\ p = (p + 1) - 1
          BY <3>2
        <4>2. m \in Cut(p + 1)
          BY <3>3, <4>1
        <4> QED
          BY <3>4, <4>2
      <3>6. B(p + 1) \in Mine
        BY <1>2, <3>1, <3>2, <3>5
      <3>7. ASSUME NEW b \in Mine PROVE b = B(p + 1)
        <4>1. PICK i \in 1..BatchCount(items) : b = B(i)
          BY <1>1, <3>1
        <4>2. m \in Cut(i) /\ i \in Int
          BY <4>1, <3>4 DEF Mine
        <4>3. i = p + 1
          BY <3>2, <3>3, <4>2
        <4> QED
          BY <4>1, <4>3
      <3>8. Mine = {B(p + 1)}
        BY <3>6, <3>7
      <3> QED
        BY <3>8
    <2> QED
      BY <2>1, <2>2
  <1> QED
    BY <1>3, FS_Singleton DEF Mine

\* There are finitely many batches.
LEMMA BatchesOfFinite ==
  ASSUME NEW s, NEW items \in SUBSET MutantIds
  PROVE  IsFiniteSet(BatchesOf(s, items))
  <1>1. CASE Cardinality(items) <= BatchMax
    <2> DEFINE c == [symbol |-> s, part |-> 0, of |-> 0, items |-> items]
    <2>1. BatchesOf(s, items) = {c}
      BY <1>1 DEF BatchesOf
    <2> QED
      BY <2>1, FS_Singleton
  <1>2. CASE ~(Cardinality(items) <= BatchMax)
    <2> DEFINE B(i) == [symbol |-> s, part |-> i, of |-> BatchCount(items),
                        items |-> {x \in items : Place(x, items) \div BatchMax = i - 1}]
               f == [i \in 1..BatchCount(items) |-> B(i)]
    <2>1. BatchesOf(s, items) = {B(i) : i \in 1..BatchCount(items)}
      BY <1>2 DEF BatchesOf
    <2>2. BatchCount(items) \in Nat
      <3>1. BatchMax \in Nat \ {0} /\ Cardinality(items) \in Nat
        BY PlaceIsNat, RoundsAssumption
      <3>2. 0 \in 0..(Cardinality(items) - 1)
        BY <1>2, <3>1
      <3> QED
        BY <3>1, <3>2, CutArithmetic DEF BatchCount
    <2> HIDE DEF B
    <2>3. f \in Surjection(1..BatchCount(items), BatchesOf(s, items))
      BY <2>1, Fun_IsSurj
    <2>4. IsFiniteSet(1..BatchCount(items))
      BY <2>2, FS_Interval
    <2> QED
      BY <2>3, <2>4, FS_Surjection
  <1> QED
    BY <1>1, <1>2

LEMMA BatchesFinite ==
  ASSUME NEW set \in SUBSET MutantIds
  PROVE  IsFiniteSet(Batches(set))
  <1> DEFINE Of(s) == BatchesOf(s, GroupedBySymbol(set, s))
             Parts == {Of(s) : s \in {SymbolForLine(m) : m \in set}}
             f == [m \in set |-> Of(SymbolForLine(m))]
  <1>1. f \in Surjection(set, Parts)
    <2> HIDE DEF Of
    <2> QED
      BY Fun_IsSurj
  <1>2. IsFiniteSet(set)
    BY PlaceIsNat
  <1>3. IsFiniteSet(Parts)
    BY <1>1, <1>2, FS_Surjection
  <1>4. \A T \in Parts : IsFiniteSet(T)
    BY BatchesOfFinite DEF GroupedBySymbol
  <1>5. IsFiniteSet(UNION Parts)
    BY <1>3, <1>4, FS_UNION
  <1> QED
    BY <1>5 DEF Batches

\* The ranking is one: of finitely many batches nothing precedes the first.
RankedTyped(b) == Ranked(b) \in Int /\ Size(b) \in Nat /\ b.symbol \in Nat /\ b.part \in Nat

LEMMA BatchIsRanked ==
  ASSUME NEW set \in SUBSET MutantIds, NEW b, BatchOK(b, set)
  PROVE  RankedTyped(b)
  <1>1. b.symbol \in Nat /\ b.part \in Nat /\ Size(b) \in Nat
    BY PlaceIsNat DEF BatchOK, Size
  <1>2. FamilyEffort(b) \in Nat /\ FamilyEffort(b) >= 1
    BY RoundsAssumption DEF FamilyEffort, MethodEffort
  <1>3. MutationRoi(b) \in Int
    <2> DEFINE x == 200 * Size(b) + FamilyEffort(b)
               y == 2 * FamilyEffort(b)
    <2>1. x \in Int /\ y \in Int /\ y > 0
      BY <1>1, <1>2
    <2> HIDE DEF x, y
    <2>2. x \div y \in Int
      BY <2>1
    <2> QED
      BY <2>2 DEF MutationRoi, x, y
  <1> QED
    BY <1>1, <1>3 DEF RankedTyped, Ranked

LEMMA BeforeIsAnOrder ==
  /\ \A b : RankedTyped(b) => ~Before(b, b)
  /\ \A b, c, d : RankedTyped(b) /\ RankedTyped(c) /\ RankedTyped(d) /\ Before(b, c) /\ Before(c, d)
                    => Before(b, d)
  BY DEF RankedTyped, Before

LEMMA SomethingIsFirst ==
  ASSUME NEW groups, IsFiniteSet(groups), groups # {}, \A b \in groups : RankedTyped(b)
  PROVE  \E b \in groups : Cardinality({c \in groups : Before(c, b)}) = 0
  <1> DEFINE Pre(b) == {c \in groups : Before(c, b)}
             T == {Cardinality(Pre(b)) : b \in groups}
  <1>1. ASSUME NEW b \in groups
        PROVE  IsFiniteSet(Pre(b)) /\ Cardinality(Pre(b)) \in 0..Cardinality(groups)
    <2>1. Pre(b) \in SUBSET groups
      OBVIOUS
    <2> HIDE DEF Pre
    <2> QED
      BY <2>1, FS_Subset, FS_CardinalityType
  <1>2. T \in SUBSET Nat /\ T # {} /\ IsFiniteSet(T)
    <2>1. Cardinality(groups) \in Nat
      BY FS_CardinalityType
    <2> HIDE DEF Pre
    <2>2. T \in SUBSET (0..Cardinality(groups)) /\ T # {}
      BY <1>1
    <2> HIDE DEF T
    <2>3. IsFiniteSet(0..Cardinality(groups))
      BY <2>1, FS_Interval
    <2>4. IsFiniteSet(T)
      BY <2>2, <2>3, FS_Subset
    <2> QED
      BY <2>1, <2>2, <2>4
  <1>3. Min(T) \in T /\ \A y \in T : Min(T) <= y
    <2> HIDE DEF T
    <2> QED
      BY <1>2, LeastOf
  <1>4. PICK b \in groups : Cardinality(Pre(b)) = Min(T)
    <2> HIDE DEF Pre
    <2> QED
      BY <1>3
  <1>5. ASSUME NEW c \in Pre(b) PROVE FALSE
    <2>1. c \in groups /\ Before(c, b)
      OBVIOUS
    <2>2. \A d \in Pre(c) : d \in Pre(b)
      BY <2>1, BeforeIsAnOrder
    <2>3. c \notin Pre(c)
      BY <2>1, BeforeIsAnOrder
    <2>4. IsFiniteSet(Pre(b)) /\ Cardinality(Pre(b)) \in Nat /\ Cardinality(Pre(c)) \in Nat
      BY <1>1, <1>2, <2>1, FS_CardinalityType
    <2>5. Min(T) <= Cardinality(Pre(c))
      BY <1>3, <2>1
    <2> HIDE DEF Pre, T
    <2>6. Pre(c) \in SUBSET Pre(b) /\ Pre(c) # Pre(b)
      BY <1>5, <2>2, <2>3
    <2>7. Cardinality(Pre(c)) <= Cardinality(Pre(b)) /\ Cardinality(Pre(c)) # Cardinality(Pre(b))
      BY <2>4, <2>6, FS_Subset
    <2> QED
      BY <1>4, <2>4, <2>5, <2>7
  <1>6. Pre(b) = {}
    BY <1>5
  <1> HIDE DEF Pre
  <1>7. Cardinality(Pre(b)) = 0
    BY <1>6, FS_EmptySet
  <1> QED
    BY <1>7 DEF Pre

LEMMA SomethingIsSelected ==
  ASSUME NEW groups, IsFiniteSet(groups), \A b \in groups : RankedTyped(b), NEW n
  PROVE  Selected(groups, n) \subseteq groups /\ (groups # {} => Selected(groups, n) # {})
  <1>1. Selected(groups, n) \subseteq groups
    BY DEF Selected, OrderedGroups
  <1>2. ASSUME groups # {} PROVE Selected(groups, n) # {}
    <2>1. PICK b \in groups : Cardinality({c \in groups : Before(c, b)}) = 0
      BY <1>2, SomethingIsFirst
    <2>2. GroupsPerRound \in Nat /\ 0 < GroupsPerRound
      BY RoundsAssumption
    <2>3. b \in OrderedGroups(groups, GroupsPerRound)
      BY <2>1, <2>2 DEF OrderedGroups
    <2> QED
      BY <1>2, <2>3 DEF Selected
  <1> QED
    BY <1>1, <1>2

\* The batches of a brief, and the ones whose diffs were fetched.
Briefed(plan) == {g.batch : g \in plan.groups}
Fetched(plan) == {g.batch : g \in {h \in plan.groups : h.diffed}}

\* A brief that was made, whatever the measurement was.
LEMMA BriefAccounts ==
  ASSUME NEW st \in [MutantIds -> Outcomes], NEW how \in {"exact", "order", "none"},
         NEW plan, plan = RoundPlan(st, RepairGroups(st, how)), attempt \in Nat
  PROVE  /\ Briefed(plan) = Batches(ToRepair(st, how))
         /\ ToRepair(st, how) \in SUBSET MutantIds /\ With("survived", st) \subseteq ToRepair(st, how)
         /\ how = "exact" => \A m \in ToRepair(st, how) : st[m] # "killed"
         /\ plan.named = Selected(Briefed(plan), attempt + 1)
         /\ plan.named \subseteq Fetched(plan)
         /\ plan.kind # "none"
  <1> DEFINE set == ToRepair(st, how)
             n == attempt + 1
             Diffed(b) == ~IsSplit(st) \/ b \in DraftSelected(Batches(set), n)
             Shown(b) == IF Diffed(b) THEN {m \in b.items : Place(m, b.items) < DiffLimit}
                         ELSE Representatives(b.items, VisitAttempt(n, Batches(set), IsSplit(st)))
             G(b) == [batch |-> b, diffed |-> Diffed(b), shown |-> Shown(b)]
  <1>1. RepairGroups(st, how) = {G(b) : b \in Batches(set)}
    BY DEF RepairGroups
  <1>2. ASSUME NEW b PROVE G(b).batch = b /\ G(b).diffed = Diffed(b)
    OBVIOUS
  <1>3. plan.groups = RepairGroups(st, how)
    BY DEF RoundPlan
  <1>4. set \in SUBSET MutantIds /\ With("survived", st) \subseteq set
    BY DEF ToRepair, With, TimeoutOrSuspicious, Firsts
  <1>5. ASSUME how = "exact", NEW m \in set PROVE st[m] # "killed"
    <2>1. TimeoutOrSuspicious(st, how) = With("timeout", st) \cup With("suspicious", st)
      BY <1>5 DEF TimeoutOrSuspicious
    <2>2. m \in With("survived", st) \/ m \in With("timeout", st) \/ m \in With("suspicious", st)
      BY <1>5, <2>1 DEF ToRepair
    <2> QED
      BY <2>2 DEF With
  <1> HIDE DEF G, Diffed, set
  <1>6. Briefed(plan) = Batches(set)
    <2>1. ASSUME NEW b \in Briefed(plan) PROVE b \in Batches(set)
      BY <1>1, <1>2, <1>3 DEF Briefed
    <2>2. ASSUME NEW b \in Batches(set) PROVE b \in Briefed(plan)
      <3>1. G(b) \in plan.groups /\ G(b).batch = b
        BY <1>1, <1>2, <1>3
      <3> QED
        BY <3>1 DEF Briefed
    <2> QED
      BY <2>1, <2>2
  <1>7. plan.named = Selected(Briefed(plan), n) /\ plan.kind # "none"
    BY <1>3 DEF RoundPlan, Briefed
  <1>8. ASSUME NEW b \in plan.named PROVE b \in Fetched(plan)
    <2>1. b \in DraftSelected(Batches(set), n)
      BY <1>6, <1>7 DEF DraftSelected
    <2>2. b \in Batches(set)
      BY <2>1 DEF DraftSelected, Selected, OrderedGroups
    <2>3. G(b) \in plan.groups /\ G(b).diffed /\ G(b).batch = b
      BY <1>1, <1>2, <1>3, <2>1, <2>2 DEF Diffed
    <2> QED
      BY <2>3 DEF Fetched
  <1> QED
    BY <1>4, <1>5, <1>6, <1>7, <1>8 DEF set

LEMMA RoundsStart == UInit => RoundsOK
  <1> SUFFICES ASSUME UInit PROVE RoundsOK
    OBVIOUS
  <1>1. mstep # "turn" /\ RoundsTyped
    BY DEF UInit, RoundsTyped
  <1> QED
    BY <1>1 DEF RoundsOK, TurnIsBriefed

LEMMA MeasurementBriefs ==
  ASSUME RoundsTyped, NEW st \in [MutantIds -> Outcomes], NEW how \in {"exact", "order", "none"},
         MeasureMutation(st, how)
  PROVE  TurnIsBriefed'
  <1>1. SUFFICES ASSUME mstep' = "turn", brief'.kind # "none" PROVE TurnIsBriefed'
    BY DEF TurnIsBriefed
  <1>2. statuses' = st /\ known' = how /\ attempt \in Nat /\ brief' \in Briefs(st, how)
    BY <1>1 DEF MeasureMutation, RoundsTyped
  <1>3. brief' = RoundPlan(st, RepairGroups(st, how))
    BY <1>1, <1>2 DEF Briefs, NoBrief
  <1> DEFINE set == ToRepair(st, how)
             plan == brief'
             batches == Briefed(plan)
  <1> HIDE DEF plan
  <1>3a. plan = RoundPlan(st, RepairGroups(st, how))
    BY <1>3 DEF plan
  <1>4. /\ batches = Batches(set)
        /\ set \in SUBSET MutantIds /\ With("survived", st) \subseteq set
        /\ how = "exact" => \A m \in set : st[m] # "killed"
        /\ plan.named = Selected(batches, attempt + 1)
        /\ plan.named \subseteq Fetched(plan)
    BY <1>2, <1>3a, BriefAccounts
  <1> HIDE DEF set, batches
  <1>5. ASSUME NEW b \in batches PROVE BatchOK(b, set) /\ RankedTyped(b)
    BY <1>4, BatchesAreOK, BatchIsRanked
  <1>6. \A m \in With("survived", st) : Cardinality({b \in batches : m \in b.items}) = 1
    BY <1>4, InOneBatch
  <1>7. how = "exact" => \A b \in batches : \A m \in b.items : st[m] # "killed"
    BY <1>4, <1>5 DEF BatchOK
  <1>8. \A b \in batches : Size(b) <= BatchMax
    BY <1>5 DEF BatchOK, Size
  <1>9. batches # {} => plan.named # {}
    BY <1>4, <1>5, BatchesFinite, SomethingIsSelected
  <1> QED
    BY <1>2, <1>4, <1>6, <1>7, <1>8, <1>9 DEF TurnIsBriefed, With, Size, batches, plan, Briefed, Fetched

LEMMA RoundsNext == RoundsOK /\ [UNext]_uvars => RoundsOK'
  <1> SUFFICES ASSUME RoundsOK, [UNext]_uvars PROVE RoundsOK'
    OBVIOUS
  <1>1. CASE \E st \in [MutantIds -> Outcomes], how \in {"exact", "order", "none"} : MeasureMutation(st, how)
    <2>1. PICK st \in [MutantIds -> Outcomes] :
            \E how \in {"exact", "order", "none"} : MeasureMutation(st, how)
      BY <1>1
    <2>2. PICK how \in {"exact", "order", "none"} : MeasureMutation(st, how)
      BY <2>1
    <2>3. RoundsTyped'
      BY <2>2 DEF RoundsOK, RoundsTyped, MeasureMutation
    <2> QED
      BY <2>2, <2>3, MeasurementBriefs DEF RoundsOK
  <1>2. CASE FixMutation
    <2>1. mstep' = "measure" /\ attempt' = attempt + 1 /\ scored' = scored
      BY <1>2 DEF FixMutation
    <2>2. mstep' # "turn"
      BY <2>1
    <2>3. TurnIsBriefed'
      BY <2>2 DEF TurnIsBriefed
    <2> QED
      BY <2>1, <2>3 DEF RoundsOK, RoundsTyped
  <1>3. CASE UNCHANGED uvars
    BY <1>3 DEF uvars, RoundsOK, RoundsTyped, TurnIsBriefed, With, Size
  <1> QED
    BY <1>1, <1>2, <1>3 DEF UNext

\* The brief a turn is given accounts for the measurement before it: every
\* survivor is in one group, no group is larger than a batch, the prompt names
\* some whenever anything failed, and has the diffs of those it names.
THEOREM TurnsAreBriefed == USpec => []TurnIsBriefed
  <1>1. RoundsOK => TurnIsBriefed
    BY DEF RoundsOK
  <1> QED
    BY <1>1, RoundsStart, RoundsNext, PTL DEF USpec

-------------------------------------------------------------------------------
(* The tree the mutants run in.  First what sequences hold: the queue of the *)
(* closure is put together from sequences of sequences.                      *)

\* What holds of 0 and is passed on by each number up to n holds of n.
LEMMA StepByStep ==
  ASSUME NEW n \in Nat, NEW S, 0 \in S, \A i \in 1..n : i - 1 \in S => i \in S
  PROVE  \A i \in 0..n : i \in S
  <1> DEFINE bad == {i \in 0..n : i \notin S}
  <1>1. bad \in SUBSET Nat /\ IsFiniteSet(bad)
    <2>1. IsFiniteSet(0..n)
      BY FS_Interval
    <2>2. bad \subseteq 0..n /\ 0..n \subseteq Nat
      OBVIOUS
    <2> QED
      BY <2>1, <2>2, FS_Subset
  <1>2. ASSUME bad # {} PROVE FALSE
    <2> DEFINE k == Min(bad)
    <2>1. k \in bad /\ \A y \in bad : k <= y
      <3> HIDE DEF bad
      <3> QED
        BY <1>1, <1>2, LeastOf
    <2> HIDE DEF k
    <2>2. k \in 1..n
      BY <2>1
    <2>3. k - 1 \in 0..n /\ k - 1 \notin bad
      BY <2>1, <2>2
    <2> QED
      BY <2>1, <2>2, <2>3
  <1> QED
    BY <1>2

LEMMA LengthOfBoth ==
  ASSUME NEW X, NEW a \in Seq(X), NEW b \in Seq(X)
  PROVE  /\ Len(a) \in Nat /\ Len(b) \in Nat
         /\ Len(a \o b) = Len(a) + Len(b) /\ DOMAIN (a \o b) = 1..(Len(a) + Len(b))
  OBVIOUS

LEMMA ElementsOfBoth ==
  ASSUME NEW X, NEW a \in Seq(X), NEW b \in Seq(X)
  PROVE  a \o b \in Seq(X) /\ ToSet(a \o b) = ToSet(a) \cup ToSet(b)
  <1>1. a \o b \in Seq(X) /\ Len(a \o b) = Len(a) + Len(b) /\ Len(a) \in Nat /\ Len(b) \in Nat
    OBVIOUS
  <1>2. ASSUME NEW x \in ToSet(a \o b) PROVE x \in ToSet(a) \cup ToSet(b)
    <2>1. PICK i \in 1..(Len(a) + Len(b)) : x = (a \o b)[i]
      BY <1>1 DEF ToSet
    <2>2. CASE i <= Len(a)
      <3>1. x = a[i] /\ i \in DOMAIN a
        BY <1>1, <2>1, <2>2
      <3> QED
        BY <3>1 DEF ToSet
    <2>3. CASE ~(i <= Len(a))
      <3>1. x = b[i - Len(a)] /\ i - Len(a) \in DOMAIN b
        BY <1>1, <2>1, <2>3
      <3> QED
        BY <3>1 DEF ToSet
    <2> QED
      BY <2>2, <2>3
  <1>3. ASSUME NEW x \in ToSet(a) PROVE x \in ToSet(a \o b)
    <2>1. PICK i \in DOMAIN a : x = a[i]
      BY DEF ToSet
    <2>2. i \in DOMAIN (a \o b) /\ (a \o b)[i] = x
      BY <1>1, <2>1
    <2> QED
      BY <2>2 DEF ToSet
  <1>4. ASSUME NEW x \in ToSet(b) PROVE x \in ToSet(a \o b)
    <2>1. PICK i \in DOMAIN b : x = b[i]
      BY DEF ToSet
    <2>2. i + Len(a) \in DOMAIN (a \o b) /\ (a \o b)[i + Len(a)] = x
      BY <1>1, <2>1
    <2> QED
      BY <2>2 DEF ToSet
  <1> QED
    BY <1>1, <1>2, <1>3, <1>4

\* Joined(s, i, q): q is a sequence of what the first i of the sequences hold.
Joined(s, i, X, q) == q \in Seq(X) /\ ToSet(q) = UNION {ToSet(s[j]) : j \in 1..i}

LEMMA JoinedFirst ==
  ASSUME NEW X, NEW s, s[1] \in Seq(X)
  PROVE  Joined(s, 1, X, s[1])
  BY DEF Joined

LEMMA JoinedNext ==
  ASSUME NEW X, NEW s, NEW i \in Nat, i > 1, s[i] \in Seq(X), NEW q, Joined(s, i - 1, X, q)
  PROVE  Joined(s, i, X, q \o s[i])
  <1>1. q \o s[i] \in Seq(X) /\ ToSet(q \o s[i]) = ToSet(q) \cup ToSet(s[i])
    BY ElementsOfBoth DEF Joined
  <1>2. 1..i = 1..(i - 1) \cup {i}
    OBVIOUS
  <1>3. UNION {ToSet(s[j]) : j \in 1..i} = (UNION {ToSet(s[j]) : j \in 1..(i - 1)}) \cup ToSet(s[i])
    BY <1>2
  <1> QED
    BY <1>1, <1>3 DEF Joined

\* Flattens(s, m, f): f lists what the sequences up to each place are joined to.
Flattens(s, m, f) == f = [i \in 1..m |-> IF i = 1 THEN s[i] ELSE f[i - 1] \o s[i]]

LEMMA FlattenExists ==
  ASSUME NEW s, NEW n \in Nat
  PROVE  \E f : Flattens(s, n, f)
  <1> DEFINE S == {m \in 0..n : \E f : Flattens(s, m, f)}
  <1>1. 0 \in S
    <2> DEFINE f == [i \in 1..0 |-> {}]
    <2>1. f = [i \in 1..0 |-> IF i = 1 THEN s[i] ELSE f[i - 1] \o s[i]]
      OBVIOUS
    <2> HIDE DEF f
    <2>2. Flattens(s, 0, f)
      BY <2>1 DEF Flattens
    <2> QED
      BY <2>2
  <1>2. ASSUME NEW m \in 1..n, m - 1 \in S PROVE m \in S
    <2>1. PICK f : Flattens(s, m - 1, f)
      BY <1>2
    <2> DEFINE g == [i \in 1..m |-> IF i < m THEN f[i] ELSE IF m = 1 THEN s[m] ELSE f[m - 1] \o s[m]]
    <2>2. \A i \in 1..(m - 1) : f[i] = IF i = 1 THEN s[i] ELSE f[i - 1] \o s[i]
      BY <2>1 DEF Flattens
    <2>3. ASSUME NEW i \in 1..m PROVE g[i] = IF i = 1 THEN s[i] ELSE g[i - 1] \o s[i]
      <3>1. CASE i < m
        <4>1. g[i] = f[i] /\ i \in 1..(m - 1)
          BY <3>1
        <4>2. i # 1 => g[i - 1] = f[i - 1]
          BY <3>1
        <4> HIDE DEF g
        <4> QED
          BY <2>2, <4>1, <4>2
      <3>2. CASE i = m
        <4>1. g[i] = IF m = 1 THEN s[m] ELSE f[m - 1] \o s[m]
          BY <3>2
        <4>2. i # 1 => g[i - 1] = f[i - 1]
          BY <3>2
        <4> HIDE DEF g
        <4> QED
          BY <3>2, <4>1, <4>2
      <3> QED
        BY <3>1, <3>2
    <2>4. g = [i \in 1..m |-> g[i]]
      OBVIOUS
    <2> HIDE DEF g
    <2>5. g = [i \in 1..m |-> IF i = 1 THEN s[i] ELSE g[i - 1] \o s[i]]
      BY <2>3, <2>4
    <2>6. Flattens(s, m, g)
      BY <2>5 DEF Flattens
    <2> QED
      BY <2>6
  <1> HIDE DEF S
  <1>3. n \in S
    BY <1>1, <1>2, StepByStep
  <1> QED
    BY <1>3 DEF S

LEMMA FlattenElements ==
  ASSUME NEW X, NEW n \in Nat \ {0}, NEW s \in [1..n -> Seq(X)]
  PROVE  Joined(s, n, X, FlattenSeq(s))
  <1> DEFINE flatten == CHOOSE f : Flattens(s, n, f)
  <1>1. Len(s) = n
    OBVIOUS
  <1>2. FlattenSeq(s) = flatten[n]
    BY <1>1, Zenon DEF FlattenSeq, Flattens
  <1>3. Flattens(s, n, flatten)
    BY FlattenExists
  <1> HIDE DEF flatten
  <1>4. \A i \in 1..n : flatten[i] = IF i = 1 THEN s[i] ELSE flatten[i - 1] \o s[i]
    BY <1>3 DEF Flattens
  <1> DEFINE S == {i \in 0..n : i = 0 \/ Joined(s, i, X, flatten[i])}
  <1>5. 0 \in S
    OBVIOUS
  <1>6. \A i \in 1..n : i - 1 \in S => i \in S
    <2> SUFFICES ASSUME NEW i \in 1..n, i - 1 \in S PROVE Joined(s, i, X, flatten[i])
      OBVIOUS
    <2>1. s[i] \in Seq(X) /\ i \in Nat
      OBVIOUS
    <2>2. CASE i = 1
      <3>1. flatten[i] = s[1] /\ s[1] \in Seq(X)
        BY <1>4, <2>1, <2>2
      <3> QED
        BY <2>2, <3>1, JoinedFirst
    <2>3. CASE i # 1
      <3>1. Joined(s, i - 1, X, flatten[i - 1])
        BY <2>3
      <3>2. i > 1
        BY <2>1, <2>3
      <3>3. Joined(s, i, X, flatten[i - 1] \o s[i])
        BY <2>1, <3>2, <3>1, JoinedNext
      <3>4. flatten[i] = flatten[i - 1] \o s[i]
        BY <1>4, <2>3
      <3> QED
        BY <3>3, <3>4
    <2> QED
      BY <2>2, <2>3
  <1> HIDE DEF S
  <1>7. n \in S
    <2>1. n \in Nat /\ n \in 0..n
      OBVIOUS
    <2>2. \A i \in 0..n : i \in S
      BY <2>1, <1>5, <1>6, StepByStep
    <2> QED
      BY <2>1, <2>2
  <1> QED
    BY <1>2, <1>7 DEF S

\* A finite set put in a sequence.
LEMMA SequenceOfSet ==
  ASSUME NEW S, IsFiniteSet(S)
  PROVE  SetToSeq(S) \in Seq(S) /\ ToSet(SetToSeq(S)) = S
  <1> DEFINE n == Cardinality(S)
             f == SetToSeq(S)
  <1>1. n \in Nat /\ ExistsBijection(1..n, S)
    BY FS_CardinalityType
  <1>2. \E g \in [1..n -> S] : IsInjective(g)
    BY <1>1 DEF ExistsBijection, Bijection, Injection
  <1>3. f \in [1..n -> S] /\ IsInjective(f)
    BY <1>2 DEF SetToSeq
  <1> HIDE DEF f
  <1>4. f \in Injection(1..n, S)
    BY <1>3 DEF Injection
  <1>5. Cardinality(1..n) = n
    BY <1>1, FS_Interval
  <1>6. f \in Surjection(1..n, S)
    BY <1>4, <1>5, FS_Injection
  <1>7. f \in Seq(S)
    BY <1>1, <1>3
  <1>8. ToSet(f) = S
    BY <1>3, <1>6 DEF Surjection, ToSet
  <1> QED
    BY <1>7, <1>8 DEF f

\* A path and a name put below one of its directories share the directories
\* above that name.
LEMMA SharedDirectories ==
  ASSUME NEW S, NEW p \in Seq(S), NEW n \in 0..(Len(p) - 1), NEW e, NEW m \in 1..n
  PROVE  /\ Len(Append(SubSeq(p, 1, n), e)) = n + 1
         /\ SubSeq(Append(SubSeq(p, 1, n), e), 1, m) = SubSeq(p, 1, m)
  <1> DEFINE T == S \cup {e}
             d == SubSeq(p, 1, n)
             q == Append(d, e)
  <1>1. p \in Seq(T)
    OBVIOUS
  <1>2. Len(p) \in Nat /\ n \in Nat /\ n < Len(p) /\ m \in Nat /\ m <= n /\ m >= 1
    OBVIOUS
  <1>3. d \in Seq(T) /\ Len(d) = n /\ \A i \in 1..n : d[i] = p[i]
    BY <1>1, <1>2
  <1> HIDE DEF d, T
  <1>4. q \in Seq(T) /\ Len(q) = n + 1 /\ \A i \in 1..n : q[i] = d[i]
    <2>1. e \in T
      BY DEF T
    <2> QED
      BY <1>3, <2>1
  <1> HIDE DEF q
  <1>5. SubSeq(q, 1, m) = [i \in 1..m |-> q[i]]
    BY <1>2, <1>4
  <1>6. SubSeq(p, 1, m) = [i \in 1..m |-> p[i]]
    BY <1>1, <1>2
  <1>7. \A i \in 1..m : q[i] = p[i]
    BY <1>2, <1>3, <1>4
  <1> QED
    BY <1>4, <1>5, <1>6, <1>7 DEF d, q

LEMMA InitializersBelow ==
  ASSUME NEW S, NEW p \in Seq(S), NEW n \in 0..(Len(p) - 1), NEW e
  PROVE  Initializers(Append(SubSeq(p, 1, n), e)) \subseteq Initializers(p)
  <1> DEFINE q == Append(SubSeq(p, 1, n), e)
  <1>1. Len(p) \in Nat
    OBVIOUS
  <1>2. SUFFICES ASSUME NEW r \in Initializers(q) PROVE r \in Initializers(p)
    OBVIOUS
  <1>3. Len(q) = n + 1
    <2> DEFINE T == S \cup {e}
    <2>1. p \in Seq(T) /\ e \in T
      OBVIOUS
    <2> HIDE DEF T
    <2> QED
      BY <1>1, <2>1
  <1> HIDE DEF q
  <1>4. r \in Files /\ \E m \in 1..(Len(q) - 1) : r = Append(SubSeq(q, 1, m), Init_)
    BY <1>2 DEF Initializers
  <1>5. PICK m \in 1..n : r = Append(SubSeq(q, 1, m), Init_)
    BY <1>3, <1>4
  <1>6. SubSeq(q, 1, m) = SubSeq(p, 1, m)
    BY SharedDirectories DEF q
  <1>7. m \in 1..(Len(p) - 1)
    BY <1>1
  <1> QED
    BY <1>4, <1>5, <1>6, <1>7 DEF Initializers

LEMMA FilesArePaths == \A f \in Files : f \in Seq(STRING) /\ f # <<>> /\ Len(f) \in Nat \ {0}
  BY TreeAssumption

LEMMA InitializersOfInitializer ==
  ASSUME NEW p \in Files, NEW q \in Initializers(p)
  PROVE  Initializers(q) \subseteq Initializers(p)
  <1>1. PICK n \in 1..(Len(p) - 1) : q = Append(SubSeq(p, 1, n), Init_)
    BY DEF Initializers
  <1>2. p \in Seq(STRING) /\ n \in 0..(Len(p) - 1)
    BY FilesArePaths
  <1> QED
    BY <1>1, <1>2, InitializersBelow

LEMMA InitializersOfConftest ==
  ASSUME tests \subseteq Files, NEW c \in Conftests
  PROVE  c \in Files /\ \E t \in tests : Initializers(c) \subseteq Initializers(t)
  <1> DEFINE above(t) == {SubSeq(t, 1, n) : n \in 0..(Len(t) - 1)}
  <1>0. \E t \in tests : \E d \in above(t) : c = Append(d, "conftest")
    BY DEF Conftests
  <1>4. PICK t \in tests : \E d \in above(t) : c = Append(d, "conftest")
    BY <1>0
  <1>1. PICK n \in 0..(Len(t) - 1) : c = Append(SubSeq(t, 1, n), "conftest")
    BY <1>4
  <1>2. t \in Seq(STRING)
    BY FilesArePaths
  <1>3. Initializers(c) \subseteq Initializers(t)
    BY <1>1, <1>2, InitializersBelow
  <1> QED
    BY <1>3 DEF Conftests

LEMMA InitializersAreFiles ==
  ASSUME NEW p
  PROVE  Initializers(p) \subseteq Files /\ IsFiniteSet(Initializers(p))
  <1>1. Initializers(p) \subseteq Files
    BY DEF Initializers
  <1> QED
    BY <1>1, TreeAssumption, FS_Subset

LEMMA BesideElements ==
  ASSUME NEW p
  PROVE  Beside(p) \in Seq(Files) /\ ToSet(Beside(p)) = Initializers(p)
  <1> DEFINE I == Initializers(p)
  <1>1. I \subseteq Files /\ IsFiniteSet(I)
    BY InitializersAreFiles
  <1> HIDE DEF I
  <1>2. SetToSeq(I) \in Seq(I) /\ ToSet(SetToSeq(I)) = I
    BY <1>1, SequenceOfSet
  <1>3. SetToSeq(I) \in Seq(Files)
    BY <1>1, <1>2
  <1> QED
    BY <1>2, <1>3 DEF Beside, I

\* A module that is found is a file.
LEMMA ResolveInFiles ==
  ASSUME NEW f \in Importers, NEW name
  PROVE  Resolve(f, name) \in Files \cup {<<>>}
  <1> DEFINE dir == Dir(f)
             roots == [n \in 1..Len(dir) |-> SubSeq(dir, 1, Len(dir) + 1 - n)] \o << <<>>, <<"src">> >>
             spelled(n) == <<roots[n] \o name, roots[n] \o name \o <<Init_>> >>
             hits == {n \in DOMAIN roots : ToSet(spelled(n)) \cap Files # {}}
             first == spelled(Min(hits))
  <1>1. Resolve(f, name) = IF name = <<>> \/ hits = {} THEN <<>>
                           ELSE IF first[1] \in Files THEN first[1] ELSE first[2]
    BY DEF Resolve
  <1>2. Len(dir) \in Nat
    <2>1. f \in Seq(STRING) /\ Len(f) \in Nat \ {0}
      BY FilesArePaths, TreeAssumption
    <2> QED
      BY <2>1 DEF Dir, Front
  <1> HIDE DEF dir
  <1>3. DOMAIN roots = 1..(Len(dir) + 2)
    <2> DEFINE up == [n \in 1..Len(dir) |-> SubSeq(dir, 1, Len(dir) + 1 - n)]
               U == {up[n] : n \in 1..Len(dir)}
               low == << <<>>, <<"src">> >>
               V == U \cup {<<>>, <<"src">>}
    <2>1. up \in Seq(V) /\ Len(up) = Len(dir)
      BY <1>2
    <2>2. low \in Seq(V) /\ Len(low) = 2
      OBVIOUS
    <2>3. roots = up \o low
      OBVIOUS
    <2> HIDE DEF up, low, V, roots
    <2>4. DOMAIN (up \o low) = 1..(Len(up) + Len(low))
      BY <2>1, <2>2, LengthOfBoth
    <2> QED
      BY <2>1, <2>2, <2>3, <2>4
  <1> HIDE DEF roots
  <1>4. IsFiniteSet(DOMAIN roots) /\ DOMAIN roots \subseteq Nat
    <2>1. Len(dir) + 2 \in Nat
      BY <1>2
    <2>2. IsFiniteSet(1..(Len(dir) + 2))
      BY <2>1, FS_Interval
    <2> QED
      BY <1>3, <2>1, <2>2
  <1>5. hits \in SUBSET Nat /\ IsFiniteSet(hits)
    <2>1. hits \subseteq DOMAIN roots
      OBVIOUS
    <2> QED
      BY <2>1, <1>4, FS_Subset
  <1>6. CASE name # <<>> /\ hits # {}
    <2>1. Min(hits) \in hits
      <3> HIDE DEF hits
      <3> QED
        BY <1>5, <1>6, LeastOf
    <2>2. ToSet(first) \cap Files # {}
      BY <2>1
    <2>3. \E i \in DOMAIN first : first[i] \in Files
      <3> HIDE DEF first
      <3> QED
        BY <2>2 DEF ToSet
    <2>4. DOMAIN first = {1, 2}
      OBVIOUS
    <2> HIDE DEF first, hits
    <2>5. first[1] \in Files \/ first[2] \in Files
      BY <2>3, <2>4
    <2> QED
      BY <1>1, <1>6, <2>5
  <1>7. CASE ~(name # <<>> /\ hits # {})
    <2> HIDE DEF hits, first
    <2> QED
      BY <1>1, <1>7
  <1> QED
    BY <1>6, <1>7


-------------------------------------------------------------------------------
(* The closure.  What has been reached is parsed or waits in the queue; it is *)
(* closed under initializers, and under imports where it has been parsed.     *)

Reached == visited \cup ToSet(pending)
Traced == {Source} \cup tests \cup Conftests \cup ToSet(deps)

QueueOK ==
    /\ pending \in Seq(Files) /\ visited \subseteq Files /\ deps \in Seq(Files)
    /\ Traced \subseteq Reached
    /\ \A f \in Reached : Initializers(f) \subseteq Reached
    /\ \A f \in visited \cap Importers : Resolve(f, imports[f]) \in Reached \cup {<<>>}
    /\ Reached \subseteq Code

TreeOK ==
    /\ tests \in TestChoices
    /\ step = "start" => pending = <<>> /\ visited = {} /\ deps = <<>>
    /\ step = "closure" => QueueOK
    /\ CopyIsClosed

\* Nothing of the repository lies under a directory the copy leaves out and
\* mutmut does not bring: what is imported from there is not in the tree.
NothingGenerated == \A f \in Files : f[1] \notin {"mutants", "build"}

LEMMA TestsAreFiles == TreeOK => tests \subseteq Files /\ IsFiniteSet(tests)
  <1> SUFFICES ASSUME TreeOK PROVE tests \subseteq Files /\ IsFiniteSet(tests)
    OBVIOUS
  <1>1. tests \subseteq Files
    BY TreeAssumption DEF TreeOK
  <1> QED
    BY <1>1, TreeAssumption, FS_Subset

LEMMA RootsElements ==
  ASSUME tests \subseteq Files, IsFiniteSet(tests)
  PROVE  /\ Roots \in Seq(Files) /\ Len(Roots) \in Nat \ {0}
         /\ ToSet(Roots) = {Source} \cup tests \cup Conftests
  <1>1. Conftests \subseteq Files /\ IsFiniteSet(Conftests)
    <2>1. Conftests \subseteq Files
      BY DEF Conftests
    <2> QED
      BY <2>1, TreeAssumption, FS_Subset
  <1> DEFINE a == <<Source>>
             b == SetToSeq(tests)
             c1 == SetToSeq(Conftests)
  <1>2. a \in Seq(Files) /\ ToSet(a) = {Source} /\ Len(a) = 1
    BY TreeAssumption DEF ToSet
  <1>3. b \in Seq(Files) /\ ToSet(b) = tests
    BY SequenceOfSet
  <1>4. c1 \in Seq(Files) /\ ToSet(c1) = Conftests
    <2>1. c1 \in Seq(Conftests) /\ ToSet(c1) = Conftests
      BY <1>1, SequenceOfSet
    <2> QED
      BY <1>1, <2>1
  <1>5. Roots = (a \o b) \o c1
    BY DEF Roots
  <1> HIDE DEF a, b, c1
  <1>6. a \o b \in Seq(Files) /\ ToSet(a \o b) = {Source} \cup tests /\ Len(a \o b) = 1 + Len(b)
    <2>1. a \o b \in Seq(Files) /\ ToSet(a \o b) = {Source} \cup tests
      BY <1>2, <1>3, ElementsOfBoth
    <2>2. Len(a \o b) = Len(a) + Len(b)
      BY <1>2, <1>3, LengthOfBoth
    <2> QED
      BY <1>2, <2>1, <2>2
  <1> DEFINE ab == a \o b
  <1> HIDE DEF ab
  <1>7. ab \in Seq(Files) /\ ToSet(ab) = {Source} \cup tests /\ Len(ab) = 1 + Len(b) /\ Roots = ab \o c1
    BY <1>5, <1>6 DEF ab
  <1>8. Roots \in Seq(Files) /\ ToSet(Roots) = ToSet(ab) \cup ToSet(c1)
    BY <1>4, <1>7, ElementsOfBoth
  <1>9. Len(Roots) = Len(ab) + Len(c1) /\ Len(b) \in Nat /\ Len(c1) \in Nat
    BY <1>2, <1>3, <1>4, <1>7, LengthOfBoth
  <1> QED
    BY <1>4, <1>7, <1>8, <1>9

\* The queue the closure starts with: the roots and their initializers.
LEMMA QueueOfRoots ==
  ASSUME tests \subseteq Files, IsFiniteSet(tests), StartClosure
  PROVE  /\ pending' \in Seq(Files)
         /\ ToSet(pending') = ToSet(Roots) \cup UNION {Initializers(f) : f \in ToSet(Roots)}
  <1> DEFINE n == Len(Roots)
             s == [i \in 1..n |-> <<Roots[i]>> \o Beside(Roots[i])]
  <1>1. Roots \in Seq(Files) /\ n \in Nat \ {0} /\ Roots \in [1..n -> Files]
    <2>1. Roots \in Seq(Files) /\ n \in Nat \ {0}
      BY RootsElements
    <2> QED
      BY <2>1
  <1>2. ASSUME NEW i \in 1..n
        PROVE  s[i] \in Seq(Files) /\ ToSet(s[i]) = {Roots[i]} \cup Initializers(Roots[i])
    <2> DEFINE r == Roots[i]
    <2>1. r \in Files
      BY <1>1
    <2>2. s[i] = <<r>> \o Beside(r)
      OBVIOUS
    <2> HIDE DEF r, s
    <2>3. <<r>> \in Seq(Files) /\ ToSet(<<r>>) = {r}
      BY <2>1 DEF ToSet
    <2>4. Beside(r) \in Seq(Files) /\ ToSet(Beside(r)) = Initializers(r)
      BY BesideElements
    <2> DEFINE a == <<r>>
               b == Beside(r)
    <2> HIDE DEF a, b
    <2>5. a \in Seq(Files) /\ b \in Seq(Files) /\ s[i] = a \o b
      BY <2>2, <2>3, <2>4 DEF a, b
    <2>6. s[i] \in Seq(Files) /\ ToSet(s[i]) = ToSet(a) \cup ToSet(b)
      BY <2>5, ElementsOfBoth
    <2> QED
      BY <2>3, <2>4, <2>6 DEF r, a, b
  <1>3. s \in [1..n -> Seq(Files)]
    BY <1>2
  <1>4. pending' = FlattenSeq(s)
    BY DEF StartClosure
  <1> HIDE DEF s, n
  <1>5. Joined(s, n, Files, FlattenSeq(s))
    BY <1>1, <1>3, FlattenElements
  <1>6. pending' \in Seq(Files) /\ ToSet(pending') = UNION {ToSet(s[j]) : j \in 1..n}
    BY <1>4, <1>5 DEF Joined
  <1>7. \A x : x \in UNION {ToSet(s[j]) : j \in 1..n}
               <=> \E j \in 1..n : x = Roots[j] \/ x \in Initializers(Roots[j])
    BY <1>2
  <1>8. ToSet(Roots) = {Roots[j] : j \in 1..n}
    BY <1>1 DEF ToSet
  <1> QED
    BY <1>6, <1>7, <1>8

LEMMA StartKeepsTheTree ==
  ASSUME TreeOK, StartClosure
  PROVE  TreeOK'
  <1>1. tests \subseteq Files /\ IsFiniteSet(tests)
    BY TestsAreFiles
  <1>2. visited = {} /\ deps = <<>> /\ UNCHANGED <<tests, imports, fixtures, visited, deps>> /\ step' = "closure"
    BY DEF StartClosure, TreeOK
  <1>3. Conftests' = Conftests /\ Traced' = Traced /\ Code' = Code
    BY <1>2 DEF Conftests, Traced, Code
  <1> DEFINE R == ToSet(Roots)
  <1>4. pending' \in Seq(Files) /\ ToSet(pending') = R \cup UNION {Initializers(f) : f \in R}
    BY <1>1, QueueOfRoots
  <1>5. R = {Source} \cup tests \cup Conftests /\ R \subseteq Files
    <2>1. Roots \in Seq(Files) /\ R = {Source} \cup tests \cup Conftests
      BY <1>1, RootsElements
    <2> QED
      BY <2>1 DEF ToSet
  <1> HIDE DEF R
  <1>6. ToSet(deps) = {}
    BY <1>2 DEF ToSet
  <1>7. Reached' = R \cup UNION {Initializers(f) : f \in R}
    BY <1>2, <1>4 DEF Reached
  <1>8. Traced = R
    BY <1>5, <1>6 DEF Traced
  <1>9. Code = R \cup UNION {Initializers(f) : f \in R}
    BY <1>5, <1>6 DEF Code
  <1>10. ASSUME NEW f \in Reached' PROVE Initializers(f) \subseteq Reached'
    <2>1. CASE f \in R
      BY <1>7, <2>1
    <2>2. CASE f \notin R
      <3>1. PICK g \in R : f \in Initializers(g)
        BY <1>7, <2>2
      <3>2. Initializers(f) \subseteq Initializers(g)
        BY <1>5, <3>1, InitializersOfInitializer
      <3> QED
        BY <1>7, <3>1, <3>2
    <2> QED
      BY <2>1, <2>2
  <1>11. visited' = {} /\ deps' \in Seq(Files)
    BY <1>2
  <1>12. QueueOK'
    BY <1>3, <1>4, <1>7, <1>8, <1>9, <1>10, <1>11 DEF QueueOK
  <1>13. step' = "closure" /\ tests' \in TestChoices
    BY <1>2 DEF TreeOK
  <1>14. CopyIsClosed'
    BY <1>13 DEF CopyIsClosed
  <1> QED
    BY <1>12, <1>13, <1>14 DEF TreeOK

LEMMA HeadAndTail ==
  ASSUME NEW X, NEW p \in Seq(X), p # <<>>
  PROVE  Head(p) \in X /\ Tail(p) \in Seq(X) /\ ToSet(p) = {Head(p)} \cup ToSet(Tail(p))
  <1>1. Head(p) = p[1] /\ Tail(p) \in Seq(X) /\ Len(p) \in Nat \ {0} /\ Len(Tail(p)) = Len(p) - 1
        /\ \A i \in 1..(Len(p) - 1) : Tail(p)[i] = p[i + 1]
    OBVIOUS
  <1>2. DOMAIN p = 1..Len(p) /\ DOMAIN Tail(p) = 1..(Len(p) - 1)
    OBVIOUS
  <1>3. ASSUME NEW x \in ToSet(p) PROVE x \in {Head(p)} \cup ToSet(Tail(p))
    <2>1. PICK i \in 1..Len(p) : x = p[i]
      BY <1>2 DEF ToSet
    <2>2. CASE i = 1
      BY <1>1, <2>1, <2>2
    <2>3. CASE i # 1
      <3>1. i - 1 \in DOMAIN Tail(p) /\ Tail(p)[i - 1] = x
        BY <1>1, <1>2, <2>1, <2>3
      <3> QED
        BY <3>1 DEF ToSet
    <2> QED
      BY <2>2, <2>3
  <1>4. ASSUME NEW x \in ToSet(Tail(p)) PROVE x \in ToSet(p)
    <2>1. PICK i \in 1..(Len(p) - 1) : x = Tail(p)[i]
      BY <1>2 DEF ToSet
    <2>2. i + 1 \in DOMAIN p /\ p[i + 1] = x
      BY <1>1, <1>2, <2>1
    <2> QED
      BY <2>2 DEF ToSet
  <1>5. Head(p) \in ToSet(p) /\ Head(p) \in X
    BY <1>1, <1>2 DEF ToSet
  <1> QED
    BY <1>1, <1>3, <1>4, <1>5

LEMMA ElementsAppended ==
  ASSUME NEW X, NEW p \in Seq(X), NEW x \in X
  PROVE  Append(p, x) \in Seq(X) /\ ToSet(Append(p, x)) = ToSet(p) \cup {x}
  <1> DEFINE a == <<x>>
  <1>1. a \in Seq(X) /\ ToSet(a) = {x} /\ Append(p, x) = p \o a
    BY DEF ToSet
  <1> HIDE DEF a
  <1>2. p \o a \in Seq(X) /\ ToSet(p \o a) = ToSet(p) \cup ToSet(a)
    BY <1>1, ElementsOfBoth
  <1> QED
    BY <1>1, <1>2

LEMMA FollowingKeepsTheTree ==
  ASSUME TreeOK, FollowImports
  PROVE  TreeOK'
  <1> DEFINE f == Head(pending)
             q == IF f \in Importers THEN Resolve(f, imports[f]) ELSE <<>>
             new == f \notin visited /\ q # <<>> /\ q \notin visited \cup {f}
             more == IF new THEN {q} \cup Initializers(q) ELSE {}
  <1>1. QueueOK /\ tests \subseteq Files
    BY TestsAreFiles DEF FollowImports, TreeOK
  <1>2. /\ visited' = visited \cup {f}
        /\ deps' = IF new /\ q \notin ToSet(deps) THEN Append(deps, q) ELSE deps
        /\ pending' = Tail(pending) \o (IF new THEN <<q>> \o Beside(q) ELSE <<>>)
        /\ UNCHANGED <<tests, imports, fixtures, step>> /\ step = "closure" /\ pending # <<>>
    BY DEF FollowImports
  <1>3. f \in Files /\ Tail(pending) \in Seq(Files)
        /\ ToSet(pending) = {f} \cup ToSet(Tail(pending))
    BY <1>1, <1>2, HeadAndTail DEF QueueOK
  <1> HIDE DEF f
  <1>4. q \in Files \cup {<<>>}
    BY ResolveInFiles
  <1> HIDE DEF q
  <1>5. /\ deps' \in Seq(Files)
        /\ ToSet(deps) \subseteq ToSet(deps') /\ (new => q \in ToSet(deps'))
        /\ ToSet(deps') \subseteq ToSet(deps) \cup (IF new THEN {q} ELSE {})
    <2>1. deps \in Seq(Files)
      BY <1>1 DEF QueueOK
    <2>2. CASE new /\ q \notin ToSet(deps)
      <3>1. q \in Files /\ deps' = Append(deps, q)
        BY <1>2, <1>4, <2>2
      <3> HIDE DEF new
      <3>2. deps' \in Seq(Files) /\ ToSet(deps') = ToSet(deps) \cup {q}
        BY <2>1, <3>1, ElementsAppended
      <3> QED
        BY <2>2, <3>2
    <2>3. CASE ~(new /\ q \notin ToSet(deps))
      <3> HIDE DEF new
      <3> QED
        BY <1>2, <2>1, <2>3
    <2> QED
      BY <2>2, <2>3
  <1>6. pending' \in Seq(Files) /\ ToSet(pending') = ToSet(Tail(pending)) \cup more
    <2> DEFINE t1 == Tail(pending)
    <2>1. t1 \in Seq(Files)
      BY <1>3
    <2>2. CASE new
      <3> DEFINE a == <<q>>
                 b == Beside(q)
                 ab == a \o b
      <3>1. a \in Seq(Files) /\ ToSet(a) = {q}
        BY <1>4, <2>2 DEF ToSet
      <3>2. b \in Seq(Files) /\ ToSet(b) = Initializers(q)
        BY BesideElements
      <3>3. pending' = t1 \o ab /\ more = {q} \cup Initializers(q)
        BY <1>2, <2>2
      <3> HIDE DEF a, b, t1, new, more
      <3>4. ab \in Seq(Files) /\ ToSet(ab) = ToSet(a) \cup ToSet(b)
        BY <3>1, <3>2, ElementsOfBoth
      <3> HIDE DEF ab
      <3>5. t1 \o ab \in Seq(Files) /\ ToSet(t1 \o ab) = ToSet(t1) \cup ToSet(ab)
        BY <2>1, <3>4, ElementsOfBoth
      <3> QED
        BY <3>1, <3>2, <3>3, <3>4, <3>5 DEF t1
    <2>3. CASE ~new
      <3>1. pending' = t1 \o <<>> /\ more = {}
        BY <1>2, <2>3
      <3> HIDE DEF t1, more, new
      <3>2. t1 \o <<>> = t1
        BY <2>1
      <3> QED
        BY <2>1, <3>1, <3>2 DEF t1
    <2> QED
      BY <2>2, <2>3
  <1>7. Reached' = Reached \cup more
    <2> HIDE DEF more
    <2> QED
      BY <1>2, <1>3, <1>6 DEF Reached
  <1>8. Conftests' = Conftests /\ Traced \subseteq Traced' /\ Traced' \subseteq Traced \cup more
    <2>1. Conftests' = Conftests
      BY <1>2 DEF Conftests
    <2>2. (IF new THEN {q} ELSE {}) \subseteq more
      OBVIOUS
    <2> HIDE DEF more, new
    <2> QED
      BY <1>2, <1>5, <2>1, <2>2 DEF Traced
  <1>9. \A p : Initializers(p)' = Initializers(p)
    BY DEF Initializers
  <1>10. Traced' \subseteq Reached'
    <2> HIDE DEF more
    <2> QED
      BY <1>1, <1>7, <1>8 DEF QueueOK
  <1>11. ASSUME NEW g \in Reached' PROVE Initializers(g) \subseteq Reached'
    <2>1. CASE g \in Reached
      <3> HIDE DEF more
      <3> QED
        BY <1>1, <1>7, <2>1 DEF QueueOK
    <2>2. CASE g \in more
      <3>1. q \in Files /\ more = {q} \cup Initializers(q)
        BY <1>4, <2>2
      <3>2. g = q \/ g \in Initializers(q)
        BY <2>2, <3>1
      <3> HIDE DEF more
      <3>3. Initializers(g) \subseteq Initializers(q)
        BY <3>1, <3>2, InitializersOfInitializer
      <3> QED
        BY <1>7, <3>1, <3>3
    <2> HIDE DEF more
    <2> QED
      BY <1>7, <2>1, <2>2
  <1>12. ASSUME NEW g \in visited' \cap Importers
         PROVE  Resolve(g, imports'[g]) \in Reached' \cup {<<>>}
    <2>1. CASE g \in visited
      <3>1. Resolve(g, imports[g]) \in Reached \cup {<<>>}
        BY <1>1, <1>12, <2>1 DEF QueueOK
      <3> HIDE DEF more
      <3> QED
        BY <1>2, <1>7, <3>1
    <2>2. CASE g \notin visited
      <3>1. g = f /\ q = Resolve(g, imports'[g])
        BY <1>2, <1>12, <2>2 DEF q
      <3>2. f \in Reached /\ visited \subseteq Reached
        BY <1>3 DEF Reached
      <3>3. q = <<>> \/ q \in visited \cup {f} \/ q \in more
        BY <2>2, <3>1
      <3> HIDE DEF more, new
      <3> QED
        BY <1>7, <3>1, <3>2, <3>3
    <2> QED
      BY <2>1, <2>2
  <1>13. Code \subseteq Code' /\ more \subseteq Code'
    <2>1. Code = Traced \cup UNION {Initializers(g) : g \in Traced}
      BY DEF Code, Traced
    <2>2. Code' = Traced' \cup UNION {Initializers(g) : g \in Traced'}
      BY <2>1, <1>9 DEF Code, Traced
    <2>3. new => q \in Traced'
      BY <1>5 DEF Traced
    <2>4. more \subseteq Code'
      BY <2>2, <2>3
    <2> HIDE DEF more, new
    <2> QED
      BY <1>8, <2>1, <2>2, <2>4
  <1>14. Reached' \subseteq Code'
    <2> HIDE DEF more
    <2> QED
      BY <1>1, <1>7, <1>13 DEF QueueOK
  <1>15. visited' \subseteq Files
    BY <1>1, <1>2, <1>3 DEF QueueOK
  <1>16. QueueOK'
    <2> HIDE DEF more, new
    <2> QED
      BY <1>5, <1>6, <1>9, <1>10, <1>11, <1>12, <1>14, <1>15 DEF QueueOK
  <1>17. step' = "closure" /\ tests' \in TestChoices
    BY <1>2 DEF TreeOK
  <1>18. CopyIsClosed'
    BY <1>17 DEF CopyIsClosed
  <1> QED
    BY <1>16, <1>17, <1>18 DEF TreeOK

\* What may not be copied is there without being copied.
LEMMA NotCopiedIsThere ==
  ASSUME NothingGenerated, NEW x \in Files, ~MayCopy(x, FALSE)
  PROVE  x \in {Source} \cup tests \cup {f \in Files : f[1] \in {"test", "tests"}} \cup {<<Init_>>}
  <1>1. CASE x[1] \in Excluded
    BY <1>1 DEF NothingGenerated, Excluded
  <1>2. CASE IsPrefix(x, Source)
    <2>1. ~IsStrictPrefix(x, Source)
      BY TreeAssumption
    <2>2. x = Source
      BY <1>2, <2>1 DEF IsStrictPrefix
    <2> QED
      BY <2>2
  <1> QED
    BY <1>1, <1>2 DEF MayCopy

LEMMA CopyingKeepsTheTree ==
  ASSUME TreeOK, CopySupport, NothingGenerated
  PROVE  TreeOK'
  <1> DEFINE read == {Source} \cup tests \cup ToSet(deps)
             named1 == UNION {Literals(f)' : f \in read} \cup UNION {ResourceRoots(f)' : f \in read}
             plain == Conftests \cup ToSet(deps) \cup named1
                      \cup UNION {Initializers(f) : f \in read \cup named1}
             nested == {t \in tests : t[1] \notin {"test", "tests"}}
  <1>1. QueueOK /\ tests \subseteq Files /\ pending = <<>>
    BY TestsAreFiles DEF CopySupport, TreeOK
  <1>2. /\ copies' = {p \in plain : MayCopy(p, FALSE)} \cup {p \in nested : MayCopy(p, TRUE)}
        /\ UNCHANGED <<tests, imports, fixtures, deps>> /\ step' = "copied"
    BY DEF CopySupport
  <1>3. Conftests \cup ToSet(deps) \subseteq plain
        /\ \A f \in read : Initializers(f) \subseteq plain
    OBVIOUS
  <1>4. Source \notin copies'
    BY <1>2 DEF MayCopy
  <1> HIDE DEF plain, nested
  <1>5. Conftests' = Conftests
    BY <1>2 DEF Conftests
  <1>6. Reached = visited
    BY <1>1 DEF Reached, ToSet
  <1>7. Code' = Code
    BY <1>2, <1>5 DEF Code
  <1>8. Code = Traced \cup UNION {Initializers(g) : g \in Traced}
    BY DEF Code, Traced
  <1>9. Code = visited
    BY <1>1, <1>6, <1>8 DEF QueueOK
  <1>10. ASSUME NEW x \in Code PROVE x \in There'
    <2>1. x \in Files
      BY <1>1, <1>9 DEF QueueOK
    <2>2. {Source} \cup tests \cup {f \in Files : f[1] \in {"test", "tests"}} \cup {<<Init_>>} \subseteq There'
      BY <1>2 DEF There
    <2>3. CASE x \in plain
      <3>1. CASE MayCopy(x, FALSE)
        BY <1>2, <2>3, <3>1 DEF There
      <3>2. CASE ~MayCopy(x, FALSE)
        BY <2>1, <2>2, <3>2, NotCopiedIsThere
      <3> QED
        BY <3>1, <3>2
    <2>4. CASE x \in {Source} \cup tests
      BY <2>2, <2>4
    <2>5. CASE x \notin plain \cup {Source} \cup tests
      <3>1. x \notin Traced
        BY <1>3, <2>5 DEF Traced
      <3>2. PICK g \in Traced : x \in Initializers(g)
        BY <1>8, <1>10, <3>1
      <3>3. CASE g \in read
        BY <1>3, <2>5, <3>2, <3>3
      <3>4. CASE g \notin read
        <4>1. g \in Conftests
          BY <3>2, <3>4 DEF Traced
        <4>2. PICK t \in tests : Initializers(g) \subseteq Initializers(t)
          BY <1>1, <4>1, InitializersOfConftest
        <4> QED
          BY <1>3, <2>5, <3>2, <4>2
      <3> QED
        BY <3>3, <3>4
    <2> QED
      BY <2>3, <2>4, <2>5
  <1>11. \A f \in Code \cap Importers : Resolve(f, imports[f]) \in Code \cup {<<>>}
    BY <1>1, <1>6, <1>9 DEF QueueOK
  <1>12. CopyIsClosed'
    BY <1>2, <1>4, <1>7, <1>10, <1>11 DEF CopyIsClosed
  <1>13. step' = "copied" /\ tests' \in TestChoices
    BY <1>2 DEF TreeOK
  <1> QED
    BY <1>12, <1>13 DEF TreeOK

LEMMA TreeInit == WInit => TreeOK
  BY DEF WInit, TreeOK, CopyIsClosed

\* The phases run in a tree that is not touched any more.
LEMMA PhasesKeepTheTree ==
  ASSUME TreeOK, UNCHANGED <<tests, imports, fixtures, pending, visited, deps, copies>>,
         step' = step \/ step' \in {"idle", "phase"}
  PROVE  TreeOK'
  <1>1. Conftests' = Conftests
    BY DEF Conftests
  <1>2. Code' = Code /\ There' = There
    BY <1>1 DEF Code, There
  <1>3. Reached' = Reached /\ Traced' = Traced
    BY <1>1 DEF Reached, Traced
  <1>4. QueueOK' = QueueOK
    BY <1>2, <1>3 DEF QueueOK
  <1>5. CopyIsClosed'
    <2>1. CASE step' = "copied"
      <3>1. step = "copied"
        BY <2>1
      <3> QED
        BY <1>2, <3>1 DEF TreeOK, CopyIsClosed
    <2> QED
      BY <2>1 DEF CopyIsClosed
  <1>6. /\ tests' \in TestChoices
        /\ step' = "start" => pending' = <<>> /\ visited' = {} /\ deps' = <<>>
        /\ step' = "closure" => QueueOK
    BY DEF TreeOK
  <1> QED
    BY <1>4, <1>5, <1>6 DEF TreeOK

LEMMA TreeNext == NothingGenerated /\ TreeOK /\ [WNext]_wvars => TreeOK'
  <1> SUFFICES ASSUME NothingGenerated, TreeOK, [WNext]_wvars PROVE TreeOK'
    OBVIOUS
  <1>1. CASE EnterPytest \/ ExitPytest
    BY <1>1, PhasesKeepTheTree DEF EnterPytest, ExitPytest
  <1>2. CASE \E n \in ModuleNames, o \in Origins \ {"absent"} : ImportModule(n, o)
    BY <1>2, PhasesKeepTheTree DEF ImportModule
  <1>3. CASE \E p \in Spellings, m \in BOOLEAN : LoadByPath(p, m)
    BY <1>3, PhasesKeepTheTree DEF LoadByPath
  <1>4. CASE UNCHANGED wvars
    BY <1>4, PhasesKeepTheTree DEF wvars
  <1> QED
    BY <1>1, <1>2, <1>3, <1>4, StartKeepsTheTree, FollowingKeepsTheTree, CopyingKeepsTheTree
       DEF WNext

\* mutation_support_copy_paths: whatever the repository holds and imports, as
\* long as nothing lies under a top-level mutants or build, the tree the
\* mutants run in has the target, the tests, their conftests and everything
\* they import, with the initializers on the way; the mutant stays as it is.
THEOREM TheCopyIsClosed ==
  NothingGenerated => (WInit /\ [][WNext]_wvars => []CopyIsClosed)
  <1>1. TreeOK => CopyIsClosed
    BY DEF TreeOK
  <1> SUFFICES ASSUME NothingGenerated PROVE WInit /\ [][WNext]_wvars => []CopyIsClosed
    OBVIOUS
  <1>2. TreeOK /\ [WNext]_wvars => TreeOK'
    BY TreeNext
  <1> QED
    BY <1>1, <1>2, TreeInit, PTL
===============================================================================

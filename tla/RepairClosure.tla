--------------------------- MODULE RepairClosure ----------------------------
(***************************************************************************)
(* How a Python repair session gets its targets and when it is closed:     *)
(* from the rows of its completed task, if they cover every source the     *)
(* recorded gate result still finds wanting, or by a rerun of the gate     *)
(* (uta/language/python/ci.py and the refresh of uta/app/repair/           *)
(* session.py).                                                            *)
(***************************************************************************)
EXTENDS Naturals, FiniteSets

CONSTANTS
    GateTargets,       \* the sources the change touches
    MaxReruns      \* bound: reruns of one session

VARIABLES
    record,     \* record.enforcement_result
    named,      \* targets the request names
    stage,      \* status of the session
    rows,       \* target -> its row; a target without a row is not there
    reruns,     \* reruns the session has done
    closedBy,   \* history: what turned the session green
    owed        \* history: targets the last full-cap gate found wanting; all before one

qvars == <<record, named, stage, rows, reruns, closedBy, owed>>

---------------------------------------------------------------------------
(* Results of the gate.                                                    *)

\* A target's part of the evidence: a skip that only advises, each of the
\* ways to fall short, and an item without any signal.
Item(reason, coverage, mutation, tests) ==
    [reason |-> reason, coverage |-> coverage, mutation |-> mutation, tests |-> tests]
Items == {Item("passed", "passed", "passed", TRUE), Item("advisory", "passed", "zero", TRUE),
          Item("passed", "failed", "passed", TRUE), Item("failed", "passed", "failed", TRUE),
          Item("passed", "passed", "zero", TRUE), Item("failed", "none", "none", FALSE),
          Item("none", "none", "none", TRUE)}

\* A skip is no failure, although it trips the test for missing mutants too.
_target_result_needs_repair(i) ==
    /\ i.reason # "advisory"
    /\ \/ i.coverage = "failed" \/ i.mutation \in {"failed", "zero"} \/ ~i.tests
       \/ i.reason \notin {"none", "passed"}
       \/ i.reason = "none" /\ i.coverage = "none" /\ i.mutation = "none"

Weak(items) == {t \in GateTargets : _target_result_needs_repair(items[t])}

\* What the runner answers: a pass; a failure with the targets' evidence; an
\* error that lists the changed files and judges none of them; no evidence at
\* all (a timeout, a command that does not start, an environment that cannot be
\* prepared, no HEAD to compare with); or the targets of the stored plans,
\* under other keys, when the memory limit was hit.
Passed == [kind |-> "passed"]
Listed(lines) == [kind |-> "listed", lines |-> lines]
Bare == [kind |-> "bare"]
Exhausted == [kind |-> "exhausted"]
FailedGate(report, items, lines) ==
    [kind |-> "failed", report |-> report, items |-> items, lines |-> lines]
Silent == {Passed, Bare, Exhausted} \cup {Listed(l) : l \in SUBSET GateTargets}

\* The full-cap profile judges each target. The sampled one judges the report:
\* what it says of a target is a diagnosis.
FullFailures ==
    {FailedGate(FALSE, i, l) : i \in {j \in [GateTargets -> Items] : Weak(j) # {}}, l \in SUBSET GateTargets}
SampledFailures == {FailedGate(TRUE, i, GateTargets) : i \in [GateTargets -> Items]}

\* Targets of the record: those that need repair, or all that changed when
\* there are no results for them.
_repair_targets(r) ==
    CASE r.kind = "failed" -> Weak(r.items) [] r.kind = "listed" -> GateTargets [] OTHER -> {}
Requested == IF named # {} THEN named ELSE _repair_targets(record)

ChangedLinesKnown == record.kind \in {"failed", "listed"} /\ Requested \subseteq record.lines

OpenRow == [status |-> "PENDING"]
_coverage_summary_for_task_row(row) == row.summary # "none"

---------------------------------------------------------------------------
(* The session.                                                            *)

QInit ==
    /\ record \in FullFailures \cup SampledFailures
    /\ named \in SUBSET GateTargets
    /\ stage = "requested" /\ rows = << >>
    /\ reruns = 0 /\ closedBy = "nothing"
    /\ owed = IF record.report THEN GateTargets ELSE Weak(record.items)

\* A failure of the sampled report says nothing about targets: the full-cap
\* gate runs first, and a pass of it ends the session.
run_repair_preflight ==
    /\ stage = "requested" /\ record.report
    /\ \E r \in FullFailures \cup Silent :
         IF r.kind = "passed"
         THEN /\ stage' = "green" /\ closedBy' = "gate"
              /\ UNCHANGED <<record, owed>>
         ELSE /\ record' = r /\ stage' = "refreshed"
              /\ owed' = IF r.kind = "failed" THEN Weak(r.items) ELSE owed
              /\ UNCHANGED closedBy
    /\ UNCHANGED <<named, rows, reruns>>

create_repair_task ==
    /\ \/ stage = "requested" /\ ~record.report
       \/ stage = "refreshed"
    /\ IF Requested = {} \/ ~ChangedLinesKnown
       THEN stage' = "refused" /\ UNCHANGED rows
       ELSE stage' = "repairing" /\ rows' = [t \in Requested |-> OpenRow]
    /\ UNCHANGED <<record, named, reruns, closedBy, owed>>

\* The task works on its rows. Its report may have a summary of a target's
\* coverage, under one of the names a row is known by.
RowEnds(t) ==
    /\ stage = "repairing" /\ t \in DOMAIN rows /\ rows[t] = OpenRow
    /\ \E row \in [status : {"PASS", "FAIL"}, coverage : BOOLEAN, mutation : BOOLEAN,
                   summary : {"none", "passed", "failed"}] :
         rows' = [rows EXCEPT ![t] = row]
    /\ UNCHANGED <<record, named, stage, reruns, closedBy, owed>>

\* What a row shows: the summary of its coverage before its own rate, and a
\* mutation score that meets the gate or no mutants at all.
_target_evidence_from_task_row(row) ==
    /\ IF _coverage_summary_for_task_row(row) THEN row.summary = "passed" ELSE row.coverage
    /\ row.mutation

Ended == \A t \in DOMAIN rows : rows[t] # OpenRow
Completed == Ended /\ \A t \in DOMAIN rows : rows[t].status = "PASS"

\* The rows stand for the gate when they cover every target the record still
\* wants repaired and meet both gates.
RowsCoverRequest == named \subseteq DOMAIN rows
RowsCoverRecord == _repair_targets(record) \subseteq DOMAIN rows
completed_task_enforcement_result ==
    Completed /\ RowsCoverRecord /\ \A t \in DOMAIN rows : _target_evidence_from_task_row(rows[t])

\* Every poll asks the task's rows first; a session whose rerun failed is
\* asked too, and is only spared another rerun.
PollCloses ==
    /\ stage \in {"repairing", "rerun_failed"} /\ completed_task_enforcement_result
    /\ stage' = "green" /\ closedBy' = "task" /\ record' = Passed
    /\ UNCHANGED <<named, rows, reruns, owed>>
PollFails ==
    /\ stage = "repairing" /\ Ended /\ ~Completed
    /\ stage' = "repair_failed"
    /\ UNCHANGED <<record, named, rows, reruns, closedBy, owed>>
PollReruns ==
    /\ stage = "repairing" /\ Completed /\ ~completed_task_enforcement_result
    /\ reruns < MaxReruns
    /\ \E r \in FullFailures \cup SampledFailures \cup Silent :
         /\ record' = r
         /\ stage' = IF r.kind = "passed" THEN "green" ELSE "rerun_failed"
         /\ closedBy' = IF r.kind = "passed" THEN "gate" ELSE closedBy
         /\ owed' = IF r.kind = "failed" /\ ~r.report THEN Weak(r.items) ELSE owed
    /\ reruns' = reruns + 1
    /\ UNCHANGED <<named, rows>>

QNext ==
    \/ run_repair_preflight \/ create_repair_task \/ PollCloses \/ PollFails \/ PollReruns
    \/ \E t \in GateTargets : RowEnds(t)

QSpec == QInit /\ [][QNext]_qvars

---------------------------------------------------------------------------
(* Properties.                                                             *)

Unverified == {t \in owed : ~(t \in DOMAIN rows /\ rows[t].status = "PASS")}

\* A session that its task's rows turn green at the first poll has a passed
\* row for every target the full-cap gate found wanting, also when the
\* request named only some of them or the preflight came back without
\* evidence.
FirstCloseIsVerified == closedBy = "task" /\ reruns = 0 => Unverified = {}
=============================================================================

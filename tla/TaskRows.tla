------------------------------ MODULE TaskRows ------------------------------
(***************************************************************************)
(* One repo task as the task database holds it, and what each method of    *)
(* TaskManager makes of it.  A row is the repo_tasks row, its class_tasks   *)
(* rows, its unacknowledged task_control rows and the two things the code   *)
(* asks of its task_events: how many `task_failed' events there are, and    *)
(* whether a `task_terminal' event closes its progress stream.              *)
(*                                                                         *)
(* Data is abstracted to what the code tells apart.  An error message is    *)
(* the retry policy classify_run_error gives it ("none" when there is no    *)
(* message).  Class statuses are grouped by what the code does with them:   *)
(*   BLOCKED   PUSH_FAILED, UNSAFE_DIFF and BUDGET_EXCEEDED, which          *)
(*             sync_results never overwrites                               *)
(*   REVIEWED  MUTATION_FAIL whose saved review calls every surviving       *)
(*             mutant equivalent                                           *)
(*   FAIL      every other terminal status that is not PASS or CANCELLED    *)
(***************************************************************************)
EXTENDS Naturals

CONSTANTS
    Classes,      \* the target classes of a task
    Threshold     \* settings.quarantine_threshold; 0 disables the quarantine

ASSUME ThresholdAssumption == Threshold \in Nat
ASSUME ClassesAssumption == Classes # {}

TerminalStatuses ==
    {"COMPLETED", "FAILED", "CANCELLED", "POISONED", "BUDGET_EXCEEDED"}

Statuses ==
    {"CREATED", "QUEUED", "RUNNING", "STOP_REQUESTED", "STOPPED"} \cup TerminalStatuses

\* A task that no one has created yet; the database has no row for it.
NotCreated == "NOT_CREATED"

UnfinishedClass == {"QUEUED", "RUNNING"}
TerminalClass == {"PASS", "FAIL", "REVIEWED", "BLOCKED", "CANCELLED"}
ClassStatuses == UnfinishedClass \cup TerminalClass

Policies == {"transient", "class_fail_continue", "internal_retry_once", "budget_abort"}
ErrorClasses == Policies \cup {"none"}

Row == [status   : Statuses \cup {NotCreated},
        err      : ErrorClasses,
        controls : SUBSET {"stop", "cancel"},
        failures : 0..(Threshold + 1),
        closed   : BOOLEAN,
        classes  : [Classes -> ClassStatuses]]

NewRow == [status   |-> NotCreated,
           err      |-> "none",
           controls |-> {},
           failures |-> 0,
           closed   |-> FALSE,
           classes  |-> [c \in Classes |-> "QUEUED"]]

-----------------------------------------------------------------------------
(* Helpers.                                                                *)

SetClasses(r, from, to) ==
    [r EXCEPT !.classes =
        [c \in Classes |-> IF r.classes[c] \in from THEN to ELSE r.classes[c]]]

\* The counter only ever meets Threshold - 1 and Threshold, so it saturates above.
CountFailure(r) ==
    [r EXCEPT !.failures = IF @ > Threshold THEN @ ELSE @ + 1]

StopRequested(r) == r.status = "STOP_REQUESTED" \/ r.controls # {}

-----------------------------------------------------------------------------
(* TaskLifecycleStateMixin and TaskLifecycleRecoveryMixin.                  *)

Create(r) == [r EXCEPT !.status = "CREATED"]

StartRow(r) == [r EXCEPT !.status = "QUEUED", !.err = "none"]

MarkRunningAcknowledging(r) ==
    [r EXCEPT !.status = "RUNNING", !.err = "none", !.controls = {}]

MarkRunning(r) == [r EXCEPT !.status = "RUNNING", !.err = "none"]

\* The conditional update of acquire_next_task: last_error is left alone.
AcquireRow(r) == [r EXCEPT !.status = "RUNNING"]

\* stop_task commits the control row and the status separately.
RequestStop(r) == [r EXCEPT !.controls = @ \cup {"stop"}]
SetStopRequested(r) == [r EXCEPT !.status = "STOP_REQUESTED"]

\* mark_stopped acknowledges `stop' controls only; a `cancel' stays pending.
MarkStopped(r, reason) ==
    [r EXCEPT !.controls = @ \ {"stop"}, !.status = "STOPPED", !.err = reason]

\* finish_task_with_terminal_event: a repeat of the same terminal status whose
\* stream is already closed writes the row and appends no event.
FinishTask(r, status, err, failed) ==
    LET repeat == r.status = status /\ r.closed
        closing == [r EXCEPT !.status = status, !.err = err, !.closed = TRUE]
    IN  IF failed /\ ~repeat THEN CountFailure(closing) ELSE closing

MarkFailed(r, err) ==
    FinishTask(r,
               IF Threshold > 0 /\ r.failures + 1 >= Threshold THEN "POISONED" ELSE "FAILED",
               err, TRUE)

MarkBudgetExceeded(r, err) == FinishTask(r, "BUDGET_EXCEEDED", err, FALSE)

CancelRow(r) ==
    FinishTask(SetClasses([r EXCEPT !.controls = @ \cup {"cancel"}], UnfinishedClass, "CANCELLED"),
               "CANCELLED", r.err, FALSE)

\* A plain resume that also reruns what failed, as --force-rerun-failed does.
ResumableWithFailed(force) ==
    UnfinishedClass \cup
    (IF force = "all" THEN TerminalClass ELSE TerminalClass \ {"PASS", "CANCELLED"})

\* resume_task refuses STOP_REQUESTED and nothing else.  `force' is "none",
\* "failed" (--force-rerun-failed) or "all" (--force-rerun-all).
Resumable(force) ==
    UnfinishedClass \cup
    CASE force = "none"   -> {}
      [] force = "failed" -> TerminalClass \ {"PASS", "CANCELLED"}
      [] force = "all"    -> TerminalClass

ResumeRow(r, force) ==
    SetClasses([r EXCEPT !.status = "QUEUED", !.err = "none", !.controls = {}],
               Resumable(force), "QUEUED")

\* What requeue_orphaned_running_tasks and requeue_daemon_shutdown_tasks write.
RequeueRow(r) ==
    SetClasses([r EXCEPT !.status = "QUEUED", !.err = "none"], {"RUNNING"}, "QUEUED")

\* queue_retry of the daemon: the error message is kept.
RetryRow(r) == [r EXCEPT !.status = "QUEUED"]

UnblockRow(r) == [r EXCEPT !.status = "QUEUED", !.controls = {}]

\* record_stage moves a selected class to RUNNING unless it is terminal.
RecordStage(r, c) ==
    [r EXCEPT !.classes[c] = IF @ \in TerminalClass THEN @ ELSE "RUNNING"]

\* record_unsafe_diff and the turn cap block the class.
BlockClass(r, c) == [r EXCEPT !.classes[c] = "BLOCKED"]

-----------------------------------------------------------------------------
(* sync_results.  The task row is read first (snap is the status read) and  *)
(* written last; the class rows in between.                                *)

SyncClasses(r, res) ==
    [c \in Classes |->
        IF res[c] \notin TerminalClass \/ r.classes[c] = "BLOCKED"
        THEN r.classes[c] ELSE res[c]]

SyncStatusNoneFailed(classes, snap, fin) ==
    IF snap \in {"POISONED", "BUDGET_EXCEEDED"} THEN snap
    ELSE IF fin # "none" THEN "FAILED"
    ELSE IF \A c \in Classes : classes[c] \notin {"FAIL", "BLOCKED"} THEN "COMPLETED" ELSE "FAILED"

SyncStatusPassOnly(classes, snap, fin) ==
    IF snap \in {"POISONED", "BUDGET_EXCEEDED"} THEN snap
    ELSE IF fin # "none" THEN "FAILED"
    ELSE IF \A c \in Classes : classes[c] = "PASS" THEN "COMPLETED" ELSE snap

SyncStatus(classes, snap, fin) ==
    LET resolved == \A c \in Classes : classes[c] \in TerminalClass
        good     == \A c \in Classes : classes[c] \in {"PASS", "REVIEWED"}
    IN  IF snap \in {"POISONED", "BUDGET_EXCEEDED"} THEN snap
        ELSE IF fin # "none" THEN "FAILED"
        ELSE IF good THEN "COMPLETED"
        ELSE IF resolved THEN "FAILED" ELSE snap

\* The statuses sync_results closes a task with; CANCELLED is not one of them.
SyncTerminal == {"COMPLETED", "FAILED", "POISONED", "BUDGET_EXCEEDED"}

\* last_error: the run's own error, or the summary of the failing classes.
SyncErrors(classes, status, fin) ==
    IF fin # "none" THEN {fin}
    ELSE IF status \in SyncTerminal /\ \E c \in Classes : classes[c] # "PASS"
         THEN ErrorClasses
         ELSE {"none"}

\* Every terminal outcome but COMPLETED adds a task_failed event, whatever the
\* prior status was; no task_terminal event is added.
SyncRow(r, res, snap, fin, err) ==
    LET classes == SyncClasses(r, res)
        status  == SyncStatus(classes, snap, fin)
        written == [r EXCEPT !.classes = classes, !.status = status, !.err = err]
    IN  IF status \in SyncTerminal \ {"COMPLETED"} THEN CountFailure(written) ELSE written
=============================================================================

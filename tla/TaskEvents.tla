----------------------------- MODULE TaskEvents -----------------------------
(***************************************************************************)
(* The event log of one task: the rows its runs append, the cap on what    *)
(* agents may report, retention, and the two readers that follow it with a *)
(* cursor, the event stream and the progress page                          *)
(* (uta/tasks/progress_store.py, uta/tasks/storage/event_repository.py,    *)
(* uta/testgen/progress.py, uta/app/routes.py, uta/app/repair/progress.py).*)
(* An identifier is SQLite's; what one transaction writes is one step.     *)
(***************************************************************************)
EXTENDS Naturals, Sequences, FiniteSets, FiniteSetsExt, SequencesExt

CONSTANTS
    MaxRows,     \* progress rows a task may have
    MaxBytes,    \* bytes of progress payload a task may have
    Sizes,       \* payload sizes of the model's progress events
    MaxBatch,    \* longest batch an agent session flushes
    MaxEvents,   \* bound: identifiers given out
    PageSize     \* events one reading returns

ASSUME EventsAssumption ==
    /\ {MaxRows, MaxBytes, MaxBatch, MaxEvents} \subseteq Nat
    /\ Sizes \subseteq Nat \ {0} /\ PageSize \in Nat \ {0}

VARIABLES
    log,      \* the rows of task_events: id, kind and payload size
    lastId,   \* the largest identifier ever given out (sqlite_sequence)
    task,     \* the columns of the repo_tasks row the log goes with
    oldTo,    \* rows up to this identifier are past the retention cutoff
    readers,  \* reader -> its cursor and whether it is open
    received, \* reader -> identifiers it was given
    omitted   \* whether any progress was ever left out

vvars == <<log, lastId, task, oldTo, readers, received, omitted>>
Terminal == {"COMPLETED", "FAILED", "CANCELLED", "POISONED", "BUDGET_EXCEEDED"}
Readers == {"stream", "page"}
\* What a session flushes: progress events, and whether its own queue dropped
\* any, which it says with a progress_truncated event.
Batches == [sizes : BoundedSeq(Sizes, MaxBatch), dropped : BOOLEAN]

FreshIdOfRows == Max({0} \cup {e.id : e \in log}) + 1
\* AUTOINCREMENT: an identifier is never given out twice, deleted rows' ones
\* neither.
FreshId == lastId + 1

Insert(kinds, sizes) ==
    /\ FreshId + Len(kinds) - 1 <= MaxEvents
    /\ log' = log \cup {[id |-> FreshId + i - 1, kind |-> kinds[i], size |-> sizes[i]] :
                          i \in 1..Len(kinds)}
    /\ lastId' = FreshId + Len(kinds) - 1
AddEvent(kind) == Insert(<<kind>>, <<0>>)

VInit ==
    /\ log = {[id |-> 1, kind |-> "created", size |-> 0],
              [id |-> 2, kind |-> "model", size |-> 0]}
    /\ lastId = 2 /\ oldTo = 0 /\ omitted = FALSE
    /\ task = [status |-> "QUEUED", rows |-> 0, bytes |-> 0, truncated |-> FALSE]
    /\ readers = [r \in Readers |-> [cursor |-> 0, open |-> FALSE]]
    /\ received = [r \in Readers |-> {}]

-----------------------------------------------------------------------------
\* Agent progress. The longest prefix that fits both caps is admitted.
PrefixSum(s, k) ==
    LET sum[i \in 0..Len(s)] == IF i = 0 THEN 0 ELSE sum[i - 1] + s[i] IN sum[k]
Fits(s, k) == task.rows + k <= MaxRows /\ task.bytes + PrefixSum(s, k) <= MaxBytes
Admitted(s, n) == (\A k \in 1..n : Fits(s, k)) /\ (n < Len(s) => ~Fits(s, n + 1))

WinsMarkerIfAsked(batch, n) == batch.dropped /\ ~task.truncated
\* The first writer to leave something out, or to say that its own queue did,
\* writes the marker; the flag in the task row keeps it to one.
WinsMarker(batch, n) == (batch.dropped \/ n < Len(batch.sizes)) /\ ~task.truncated

AppendBatch(batch) ==
    \E n \in 0..Len(batch.sizes) :
       LET won == WinsMarker(batch, n)
           marker == IF won THEN <<"truncated">> ELSE <<>>
       IN /\ task.status = "RUNNING" /\ Admitted(batch.sizes, n)
          /\ Insert([i \in 1..n |-> "progress"] \o marker, SubSeq(batch.sizes, 1, n) \o <<0>>)
          /\ task' = [task EXCEPT !.rows = @ + n, !.bytes = @ + PrefixSum(batch.sizes, n),
                                  !.truncated = @ \/ won]
          /\ omitted' = (omitted \/ n < Len(batch.sizes) \/ batch.dropped)
          /\ UNCHANGED <<oldTo, readers, received>>

\* Retention deletes old progress rows; the counters in the task row stay.
Prune ==
    /\ \E e \in log : e.kind = "progress" /\ e.id <= oldTo
    /\ log' = {e \in log : ~(e.kind = "progress" /\ e.id <= oldTo)}
    /\ UNCHANGED <<lastId, task, oldTo, readers, received, omitted>>

TimeGoesBy ==
    /\ oldTo < lastId
    /\ oldTo' \in {oldTo + 1, lastId}
    /\ UNCHANGED <<log, lastId, task, readers, received, omitted>>

-----------------------------------------------------------------------------
\* The runs of the task, by what they write into the log.
LeaveReaders == UNCHANGED <<oldTo, readers, received, omitted>>

MarkRunning ==
    /\ task.status = "QUEUED"
    /\ AddEvent("running")
    /\ task' = [task EXCEPT !.status = "RUNNING"]
    /\ LeaveReaders

\* Stage transitions, turn outcomes, commits: rows no reader treats apart.
RecordStage ==
    /\ task.status = "RUNNING" /\ AddEvent("stage")
    /\ UNCHANGED task /\ LeaveReaders

\* The end of a run that has results: the status is one update, the summary
\* another statement.
SyncResults ==
    /\ task.status \in {"RUNNING", "FAILED"}
    /\ \E status \in {"COMPLETED", "FAILED"} :
          task' = [task EXCEPT !.status = status]
    /\ AddEvent("summary")
    /\ LeaveReaders

\* A remote head that is not the local one fails the task in the middle of
\* its run.
PushMismatch ==
    /\ task.status = "RUNNING"
    /\ task' = [task EXCEPT !.status = "FAILED"] /\ AddEvent("push_failed")
    /\ LeaveReaders

\* finish_task_with_terminal_event: status, summaries and closing event in one
\* transaction; a task already in that status keeps its last closing event.
Finish(status, summaries) ==
    /\ task' = [task EXCEPT !.status = status]
    /\ IF task.status = status /\ \E e \in log : e.kind = "terminal"
       THEN UNCHANGED <<log, lastId>>
       ELSE Insert(summaries \o <<"terminal">>, [i \in 1..Len(summaries) + 1 |-> 0])
    /\ LeaveReaders

MarkFailed == task.status \in {"RUNNING", "FAILED"} /\ Finish("FAILED", <<"summary">>)
MarkPoisoned == task.status = "RUNNING" /\ Finish("POISONED", <<"summary", "summary">>)
CancelTask == task.status \notin Terminal /\ Finish("CANCELLED", <<"summary">>)

Requeue ==
    /\ task.status \in Terminal
    /\ task' = [task EXCEPT !.status = "QUEUED"] /\ AddEvent("resumed")
    /\ LeaveReaders

-----------------------------------------------------------------------------
\* Reading: the oldest rows after the cursor, at most a page of them.
RowsAfter(cursor) == {e \in log : e.id > cursor}
EventsSince(cursor) ==
    LET after == RowsAfter(cursor)
    IN {e \in after : Cardinality({o \in after : o.id < e.id}) < PageSize}

LeaveLog == UNCHANGED <<log, lastId, task, oldTo, omitted>>
\* The cursor becomes the identifier of the last row handed over.
Deliver(r, rows, open) ==
    \E last \in rows :
        /\ \A e \in rows : e.id <= last.id
        /\ readers' = [readers EXCEPT ![r] = [cursor |-> last.id, open |-> open]]
        /\ received' = [received EXCEPT ![r] = @ \cup {e.id : e \in rows}]
        /\ LeaveLog

\* A client connects with the last identifier it was given, and again after
\* a dropped connection.
Connect ==
    /\ ~readers["stream"].open
    /\ readers' = [readers EXCEPT !["stream"].open = TRUE]
    /\ UNCHANGED received /\ LeaveLog
Disconnect ==
    /\ readers["stream"].open
    /\ readers' = [readers EXCEPT !["stream"].open = FALSE]
    /\ UNCHANGED received /\ LeaveLog

\* The streamer sends what is new and stops behind a closing event.
Ends(rows) == {e \in rows : e.kind = "terminal"}
StreamPoll ==
    LET rows == EventsSince(readers["stream"].cursor)
        sent == {e \in rows : \A o \in Ends(rows) : e.id <= o.id}
    IN readers["stream"].open /\ Deliver("stream", sent, Ends(rows) = {})

\* A fresh page gets the whole history, later polls what is after its cursor.
PageLoad == ~readers["page"].open /\ Deliver("page", log, TRUE)
PagePoll == readers["page"].open /\ Deliver("page", EventsSince(readers["page"].cursor), TRUE)

VNext ==
    \/ \E batch \in Batches : AppendBatch(batch)
    \/ Prune \/ TimeGoesBy
    \/ MarkRunning \/ RecordStage \/ SyncResults \/ PushMismatch
    \/ MarkFailed \/ MarkPoisoned \/ CancelTask \/ Requeue
    \/ Connect \/ Disconnect \/ StreamPoll \/ PageLoad \/ PagePoll

VSpec == VInit /\ [][VNext]_vvars

-----------------------------------------------------------------------------
\* Progress stays inside both caps over the whole life of the task, and when
\* anything was left out the log says so, once, however many sessions met
\* the cap and however often the task ran.
OmissionIsTold ==
    /\ task.rows <= MaxRows /\ task.bytes <= MaxBytes
    /\ Cardinality({e \in log : e.kind = "truncated"}) = (IF omitted THEN 1 ELSE 0)

\* The log as its readers see it: ids that were given, rows that are left, and
\* what each reader was handed.
Feed ==
    INSTANCE EventFeed WITH rows <- {e.id : e \in log}, issued <- lastId,
                            cursor <- [r \in Readers |-> readers[r].cursor],
                            got <- received

\* To its readers the log is the plain feed of EventFeed: reconnecting, paging,
\* closing events, batches cut at a cap and retention add nothing to it
\* (events_since, append_progress_event_batch).
ImplementsFeed == Feed!FSpec
=============================================================================

------------------------------ MODULE FixSession ------------------------------
(***************************************************************************)
(* The fix sessions of one failed CI check (uta/app/repair): a session     *)
(* creates a repair task on a thread of its own, follows that task, reruns *)
(* the gate when the task is done, and reports the outcome.  The record of *)
(* an ended check is not kept in memory: every request and every creation  *)
(* thread works on the copy it loaded and saves the whole copy back.       *)
(* Workers of the task daemon end the repair tasks; the API process may    *)
(* die.  heap[0] is the stored record, heap[o] an object of the API        *)
(* process, which a request shares with the creation threads it starts.    *)
(***************************************************************************)
EXTENDS Integers, Sequences, FiniteSets

CONSTANTS
    Requests,     \* request threads of the API process
    RateLimit,    \* repair_rate_limit_per_task
    MaxSessions,  \* bound: sessions opened
    MaxTasks,     \* bound: repair tasks created
    MaxRequests,  \* bound: requests made
    MaxCrashes    \* bound: deaths of the API process

ASSUME SizesAssumption ==
    /\ IsFiniteSet(Requests)
    /\ RateLimit \in Nat \ {0} /\ MaxSessions \in Nat /\ MaxTasks \in Nat
    /\ MaxRequests \in Nat /\ MaxCrashes \in Nat

Sids == 1..MaxSessions
Tasks == 1..MaxTasks
Objects == 1..MaxRequests

VARIABLES
    heap,      \* 0: the stored CI record; others: the copies in memory
    task,      \* repo_tasks: the repair tasks and how they stand
    request,   \* each request thread: its step, its object, its session
    creator,   \* the creation thread of each session, with its object
    lockfile,  \* the rerun lock file of each session: who wrote it
    posted,    \* external: the callback keys the CI system got, per session
    bounds     \* requests, sessions and crashes so far

vars == <<heap, task, request, creator, lockfile, posted, bounds>>

Passed == {"green", "passed_with_equivalent_mutants"}
FailedSession == {"repair_failed", "rerun_failed", "rerun_unavailable",
                  "repair_task_create_failed"}

\* A task ends with the rows its handler can or cannot make a gate result of.
Ended == {"done", "done_passed", "done_failed"}
Lost == {"FAILED", "CANCELLED"}

\* create_fix_session of shared/fix_sessions, marked as started.
NewSession(id) == [id |-> id, status |-> "creating_repair_task", task |-> 0,
                   key |-> "none", already |-> FALSE]

NoCopy == [status |-> "failed", excused |-> FALSE, sessions |-> <<>>]
NoRequest == [at |-> "idle", obj |-> 0, at_session |-> 1, op |-> "none", key |-> "none"]
NoCreator == [at |-> "none", obj |-> 0, own |-> 0, other |-> 0]

Init ==
    /\ heap = [o \in {0} \cup Objects |-> NoCopy]
    /\ task = [k \in Tasks |-> "none"]
    /\ request = [r \in Requests |-> NoRequest]
    /\ creator = [s \in Sids |-> NoCreator]
    /\ lockfile = [s \in Sids |-> "absent"]
    /\ posted = [s \in Sids |-> {}]
    /\ bounds = [requests |-> 0, opened |-> 0, crashes |-> 0]

-------------------------------------------------------------------------------
(* Records and sessions *)

Live == {k \in Tasks : task[k] = "live"}
record == heap[0]

\* Where a copy keeps the session of this id; 0 when it does not know it.
Find(copy, id) ==
    LET at == {n \in DOMAIN copy.sessions : copy.sessions[n].id = id}
    IN IF at = {} THEN 0 ELSE CHOOSE n \in at : TRUE

\* One field assignment on the n-th session of a copy.
Set(copy, n, field, value) == [copy EXCEPT !.sessions[n][field] = value]
Status(copy, n, value) == Set(copy, n, "status", value)

\* An object gets a value; Save also writes the whole object to the store.
Assign(o, copy) == heap' = [heap EXCEPT ![o] = copy]
Save(o, copy) == heap' = [heap EXCEPT ![o] = copy, ![0] = copy]

\* An object nobody uses any more is as good as gone.
Collected(h, rs, cs) ==
    [o \in DOMAIN h |->
        IF o = 0 \/ (\E r \in Requests : rs[r].obj = o) \/ (\E s \in Sids : cs[s].obj = o)
        THEN h[o] ELSE NoCopy]

\* _is_repair_session_terminal_failed
TerminalFailed(session) == session.status \in FailedSession

\* _start_deferred_repair_task_creation: one live thread per session; it
\* works on the object of the request that starts it.
Creators(s, o) ==
    IF creator[s].at = "none"
    THEN [creator EXCEPT ![s] = [NoCreator EXCEPT !.at = "begin", !.obj = o]]
    ELSE creator

\* _report_repair_result_once: nothing to do for a key that was reported.
Unreported(session, key) == session.key # key

\* _repair_terminal_callback_key of a gate result.
ResultKey(passed) == IF passed THEN "success" ELSE "failure"

\* _try_grant_equivalent_mutants: the session and the record are excused.
Granted(copy, n) ==
    [Status(copy, n, "passed_with_equivalent_mutants") EXCEPT
        !.status = "success", !.excused = TRUE]

\* _apply_repair_enforcement_result: the copy with the outcome of a gate
\* result, before it is reported.
Applied(copy, n, outcome) ==
    IF outcome = "excused" THEN Granted(copy, n)
    ELSE [Status(copy, n, IF outcome = "passed" THEN "green" ELSE "rerun_failed") EXCEPT
            !.status = IF outcome = "passed" THEN "success" ELSE "failed",
            !.excused = FALSE]

OutcomeKey(outcome) ==
    IF outcome = "excused" THEN "passed_with_equivalent_mutants"
    ELSE ResultKey(outcome = "passed")

-------------------------------------------------------------------------------
(* Requests *)

Here(r, at) == request[r].at = at
Obj(r) == request[r].obj
Copy(r) == heap[Obj(r)]
N(r) == request[r].at_session
Session(r) == Copy(r).sessions[N(r)]
Sid(r) == Session(r).id
Move(r, at) == request' = [request EXCEPT ![r].at = at]

\* A request loads the record (get) to read it, to open a session, or to
\* retry the first session.  Sessions are opened for a failed check only
\* (can_create_fix_session).
Load(r, op) ==
    /\ Here(r, "idle")
    /\ bounds.requests < MaxRequests
    /\ op = "retry" => record.sessions # <<>>
    /\ op = "create" => record.status = "failed"
    /\ LET o == bounds.requests + 1 IN
       /\ Assign(o, record)
       /\ request' = [request EXCEPT ![r] = [NoRequest EXCEPT
                        !.at = "refresh", !.obj = o, !.op = op]]
    /\ bounds' = [bounds EXCEPT !.requests = @ + 1]
    /\ UNCHANGED <<task, creator, lockfile, posted>>

\* The next session of the refresh loop; a lock file of this request goes.
NextSession(r) ==
    /\ request' = [request EXCEPT ![r].at = "refresh", ![r].at_session = @ + 1]
    /\ lockfile' = [lockfile EXCEPT ![Sid(r)] = IF @ = r THEN "absent" ELSE @]

\* A report is due under the key that _report_repair_result_once compares; a
\* result that was reported before is only saved.
ReportDue(r, copy, key) ==
    IF Unreported(copy.sessions[N(r)], key)
    THEN /\ request' = [request EXCEPT ![r].at = "report", ![r].key = key]
         /\ Assign(Obj(r), copy)
         /\ UNCHANGED lockfile
    ELSE NextSession(r) /\ Save(Obj(r), copy)

\* _ensure_deferred_repair_task_creation
RestartCreation(r) ==
    /\ Session(r).status = "creating_repair_task"
    /\ Session(r).task = 0 /\ ~Session(r).already
    /\ creator' = Creators(Sid(r), Obj(r))
    /\ NextSession(r)
    /\ UNCHANGED heap

\* The task of the session is live: a failed session is taken up again.
FollowLive(r) ==
    /\ Session(r).task \in Live
    /\ IF Session(r).status = "repair_failed"
       THEN Save(Obj(r), Status(Copy(r), N(r), "repairing")) ELSE UNCHANGED heap
    /\ NextSession(r)
    /\ UNCHANGED creator

\* The task of the session was lost: so is the session, which is saved first.
FollowLost(r) ==
    /\ Session(r).task # 0 /\ task[Session(r).task] \in Lost
    /\ Session(r).status \notin Passed
    /\ Save(Obj(r), Status(Copy(r), N(r), "repair_failed"))
    /\ Move(r, "failed")
    /\ UNCHANGED <<creator, lockfile>>

\* completed_task_enforcement_result answered: its result is applied.
ApplyTaskResult(r) ==
    LET ts == task[Session(r).task] IN
    /\ Session(r).task # 0
    /\ Session(r).status \notin Passed
    /\ ts \in {"done_passed", "done_failed"}
    /\ \E outcome \in IF ts = "done_passed" THEN {"passed"} ELSE {"failed", "excused"} :
          ReportDue(r, Applied(Copy(r), N(r), outcome), OutcomeKey(outcome))
    /\ UNCHANGED creator

\* _remove_stale_repair_rerun_lock: a file that a dead process left goes once
\* it is old.
LockIsFree(s) == lockfile[s] \in {"absent", "dead"}

\* _repair_rerun_lock: the lock file is created, or the session is left to
\* whoever holds it.
Acquire(r) ==
    /\ Session(r).task # 0
    /\ Session(r).status \notin Passed \cup FailedSession
    /\ task[Session(r).task] = "done"
    /\ IF LockIsFree(Sid(r))
       THEN /\ lockfile' = [lockfile EXCEPT ![Sid(r)] = r]
            /\ Save(Obj(r), Status(Copy(r), N(r), "rerun_running"))
            /\ Move(r, "rerun")
       ELSE NextSession(r) /\ UNCHANGED heap
    /\ UNCHANGED creator

\* repair_failed over a task that is done after all: taken up again.
Revive(r) ==
    /\ Session(r).task # 0 /\ Session(r).status = "repair_failed"
    /\ task[Session(r).task] = "done"
    /\ Save(Obj(r), Status(Copy(r), N(r), "repair_completed"))
    /\ UNCHANGED <<request, creator, lockfile>>

\* A session that has nothing to do now: no task and no creation to restart,
\* a settled one, or a rerun that is not yet known to be dead.
Skip(r) ==
    LET session == Session(r) IN
    /\ \/ session.task = 0 /\ (session.status # "creating_repair_task" \/ session.already)
       \/ session.task # 0 /\ task[session.task] \notin {"live"} /\ session.status \in Passed
       \/ /\ session.task # 0 /\ task[session.task] = "done"
          /\ session.status \in (FailedSession \ {"repair_failed"}) \cup {"rerun_running"}
    /\ NextSession(r)
    /\ UNCHANGED <<heap, creator>>

\* _refresh_repair_sessions: one session of the loop.
Refresh(r) ==
    /\ Here(r, "refresh") /\ N(r) <= Len(Copy(r).sessions)
    /\ \/ RestartCreation(r) \/ FollowLive(r) \/ FollowLost(r)
       \/ ApplyTaskResult(r) \/ Acquire(r) \/ Revive(r) \/ Skip(r)
    /\ UNCHANGED <<task, posted, bounds>>

\* The gate ran again in the repaired checkout and its result is applied.
Rerun(r) ==
    /\ Here(r, "rerun")
    /\ \E outcome \in {"passed", "failed", "excused"} :
          ReportDue(r, Applied(Copy(r), N(r), outcome), OutcomeKey(outcome))
    /\ UNCHANGED <<task, creator, posted, bounds>>

\* The session was saved as repair_failed; now it is reported.
ReportFailure(r) ==
    /\ Here(r, "failed")
    /\ ReportDue(r, Copy(r), "repair_failed")
    /\ UNCHANGED <<task, creator, posted, bounds>>

\* The mutant: the session is saved with its key before anything is posted.
KeepBeforePost(r) ==
    /\ Here(r, "report")
    /\ Save(Obj(r), Set(Copy(r), N(r), "key", request[r].key))
    /\ Move(r, "keep")
    /\ UNCHANGED <<task, creator, lockfile, posted, bounds>>

\* _report_result: the callback is posted, the record saved.
Report(r) ==
    /\ Here(r, "report")
    /\ posted' = [posted EXCEPT ![Sid(r)] = @ \cup {request[r].key}]
    /\ Save(Obj(r), Copy(r))
    /\ Move(r, "keep")
    /\ UNCHANGED <<task, creator, lockfile, bounds>>

\* The rest of _report_repair_result_once: the key is kept with the session.
KeepKey(r) ==
    /\ Here(r, "keep")
    /\ Save(Obj(r), Set(Copy(r), N(r), "key", request[r].key))
    /\ NextSession(r)
    /\ UNCHANGED <<task, creator, posted, bounds>>

\* The request is answered, the record stored or left, threads started.
Finished(r, stored, creators) ==
    LET requests == [request EXCEPT ![r] = NoRequest] IN
    /\ request' = requests
    /\ creator' = creators
    /\ heap' = Collected([heap EXCEPT ![0] = stored, ![Obj(r)] =
                            IF stored = heap[0] THEN @ ELSE stored], requests, creators)

Refreshed(r, op) ==
    /\ Here(r, "refresh") /\ request[r].op = op
    /\ N(r) > Len(Copy(r).sessions)
    /\ UNCHANGED <<lockfile, posted>>

\* repair_rate_limit_per_task
LimitLeft(n) == n < RateLimit

\* create_fix_session after its refresh: answered with the first session of
\* the same fingerprint unless that one has failed (a task of it that lives
\* is cancelled), refused at the limit, else a new session is saved and its
\* creation thread started.
Open(r) ==
    LET n == Len(Copy(r).sessions)
        id == bounds.opened + 1
        superseded == n > 0 /\ TerminalFailed(Copy(r).sessions[1])
        opened == [Copy(r) EXCEPT !.sessions = Append(@, NewSession(id))]
    IN /\ Refreshed(r, "create")
       /\ task' = IF superseded /\ Copy(r).sessions[1].task \in Live
                  THEN [task EXCEPT ![Copy(r).sessions[1].task] = "CANCELLED"] ELSE task
       /\ IF LimitLeft(n) /\ (n = 0 \/ superseded)
          THEN /\ id \in Sids
               /\ Finished(r, opened, Creators(id, Obj(r)))
               /\ bounds' = [bounds EXCEPT !.opened = id]
          ELSE Finished(r, heap[0], creator) /\ UNCHANGED bounds

\* materialize_retry_request: a live task is taken up again; else the session
\* forgets its task and its creation is started anew.
Materialized(copy, n) ==
    IF copy.sessions[n].task \in Live
    THEN Status(copy, n, "repair_task_created")
    ELSE Set(Status(copy, n, "creating_repair_task"), n, "task", 0)

\* The retry route: retry_session, materialize_retry_request, save.
Retry(r) ==
    LET copy == Materialized(Copy(r), 1)
        id == copy.sessions[1].id
    IN /\ Refreshed(r, "retry")
       /\ Finished(r, copy, IF copy.sessions[1].status = "creating_repair_task"
                            THEN Creators(id, Obj(r)) ELSE creator)
       /\ UNCHANGED <<task, bounds>>

\* A reader is answered.
Answer(r) ==
    /\ Refreshed(r, "read")
    /\ Finished(r, heap[0], creator)
    /\ UNCHANGED <<task, bounds>>

-------------------------------------------------------------------------------
(* Creation threads *)

CObj(s) == creator[s].obj
Cr(s) == heap[CObj(s)]
CN(s) == Find(Cr(s), s)
Stage(s, at) == creator' = [creator EXCEPT ![s].at = at]

\* The thread saves its object and ends.
Gone(s, stored) ==
    LET creators == [creator EXCEPT ![s] = NoCreator] IN
    /\ creator' = creators
    /\ heap' = Collected([heap EXCEPT ![0] = stored, ![CObj(s)] =
                            IF stored = heap[0] THEN @ ELSE stored], request, creators)

\* _run_deferred_repair_task_creation begins, unless somebody was faster.
CreationBegins(s) ==
    LET session == Cr(s).sessions[CN(s)] IN
    /\ creator[s].at = "begin"
    /\ IF session.task # 0 \/ session.already
       THEN Gone(s, heap[0])
       ELSE /\ Save(CObj(s), Status(Cr(s), CN(s), "creating_repair_task"))
            /\ Stage(s, "refresh")
    /\ UNCHANGED <<task, request, lockfile, posted, bounds>>

\* The except clause of the thread, and the workspace rules check of
\* _create_repair_task: the session is marked.
CreationFails(s) ==
    /\ creator[s].at \in {"refresh", "preflight", "find"}
    /\ Gone(s, Status(Cr(s), CN(s), "repair_task_create_failed"))
    /\ UNCHANGED <<task, request, lockfile, posted, bounds>>

\* _refresh_repair_workspace; the handler decides whether the gate is run
\* before the task is made, and the session says so.
WorkspaceRefreshed(s) ==
    /\ creator[s].at = "refresh"
    /\ \/ Save(CObj(s), Status(Cr(s), CN(s), "rerun_running")) /\ Stage(s, "preflight")
       \/ Stage(s, "find") /\ UNCHANGED heap
    /\ UNCHANGED <<task, request, lockfile, posted, bounds>>

\* _rerun_after_repair_workspace_refresh: green already, or repairs go on.
Preflight(s) ==
    /\ creator[s].at = "preflight"
    /\ \/ Assign(CObj(s), Applied(Cr(s), CN(s), "passed")) /\ Stage(s, "report")
       \/ Save(CObj(s), Status(Cr(s), CN(s), "repairing")) /\ Stage(s, "find")
    /\ UNCHANGED <<task, request, lockfile, posted, bounds>>

\* The success of the preflight is reported once, kept, and ends the thread.
PreflightReport(s) ==
    /\ creator[s].at = "report"
    /\ posted' = IF Unreported(Cr(s).sessions[CN(s)], "success")
                 THEN [posted EXCEPT ![s] = @ \cup {"success"}] ELSE posted
    /\ Gone(s, Set(Set(Cr(s), CN(s), "key", "success"), CN(s), "already", TRUE))
    /\ UNCHANGED <<task, request, lockfile, bounds>>

\* find_active_duplicate_repair_task_for_targets: a live task for the same
\* targets is reused.
FindActive(s) ==
    /\ creator[s].at = "find"
    /\ creator' = IF Live = {} THEN [creator EXCEPT ![s].at = "create"]
                  ELSE [creator EXCEPT ![s].at = "attach",
                            ![s].own = CHOOSE k \in Live : \A j \in Live : k <= j]
    /\ UNCHANGED <<heap, task, request, lockfile, posted, bounds>>

\* handler.create_repair_task
CreateTask(s) ==
    /\ creator[s].at = "create"
    /\ \E k \in Tasks :
          /\ task[k] = "none" /\ \A j \in Tasks : task[j] = "none" => k <= j
          /\ task' = [task EXCEPT ![k] = "live"]
          /\ creator' = [creator EXCEPT ![s].at = "dedupe", ![s].own = k]
    /\ UNCHANGED <<heap, request, lockfile, posted, bounds>>

\* The mutant: the second look finds nothing.
NoOthers(own) == {}

\* find_active_duplicate_repair_task: the other live tasks for the targets.
Others(own) == Live \ {own}

\* The second look, after the task was created.
Dedupe(s) ==
    /\ creator[s].at = "dedupe"
    /\ LET others == Others(creator[s].own) IN
       creator' = IF others = {}
                  THEN [creator EXCEPT ![s].at = "attach"]
                  ELSE [creator EXCEPT ![s].at = "cancel",
                            ![s].other = CHOOSE k \in others : \A j \in others : k <= j]
    /\ UNCHANGED <<heap, task, request, lockfile, posted, bounds>>

\* The thread's own task is cancelled in favour of the other one.
CancelOwn(s) ==
    /\ creator[s].at = "cancel"
    /\ LET own == creator[s].own IN
       /\ task' = IF task[own] = "live" THEN [task EXCEPT ![own] = "CANCELLED"] ELSE task
       /\ creator' = [creator EXCEPT ![s].at = "attach", ![s].own = creator[s].other, ![s].other = 0]
    /\ UNCHANGED <<heap, request, lockfile, posted, bounds>>

\* The end of _create_repair_task: the session has its task.
Attach(s) ==
    /\ creator[s].at = "attach"
    /\ Gone(s, Set(Status(Cr(s), CN(s), "repair_task_created"), CN(s), "task", creator[s].own))
    /\ UNCHANGED <<task, request, lockfile, posted, bounds>>

-------------------------------------------------------------------------------
(* Environment *)

\* A worker of the daemon ends a repair task, or an operator cancels it.
TaskEnds(k) ==
    /\ task[k] = "live"
    /\ \E status \in Ended \cup Lost : task' = [task EXCEPT ![k] = status]
    /\ UNCHANGED <<heap, request, creator, lockfile, posted, bounds>>

\* The API process dies: its threads and objects are gone, its lock files stay.
\* (With no thread at work nothing is lost.)
Crash ==
    /\ \E o \in Objects : heap[o] # NoCopy
    /\ bounds.crashes < MaxCrashes
    /\ request' = [r \in Requests |-> NoRequest]
    /\ creator' = [s \in Sids |-> NoCreator]
    /\ heap' = [o \in DOMAIN heap |-> IF o = 0 THEN heap[0] ELSE NoCopy]
    /\ lockfile' = [s \in Sids |-> IF lockfile[s] = "absent" THEN "absent" ELSE "dead"]
    /\ bounds' = [bounds EXCEPT !.crashes = @ + 1]
    /\ UNCHANGED <<task, posted>>

-------------------------------------------------------------------------------
RequestStep(r) ==
    \/ Refresh(r) \/ Rerun(r) \/ ReportFailure(r) \/ Report(r) \/ KeepKey(r)
    \/ Open(r) \/ Retry(r) \/ Answer(r)

CreatorStep(s) ==
    \/ CreationBegins(s) \/ CreationFails(s) \/ WorkspaceRefreshed(s)
    \/ Preflight(s) \/ PreflightReport(s) \/ FindActive(s) \/ CreateTask(s)
    \/ Dedupe(s) \/ CancelOwn(s) \/ Attach(s)

Next ==
    \/ \E r \in Requests :
          \/ RequestStep(r)
          \/ \E op \in {"read", "create", "retry"} : Load(r, op)
    \/ \E s \in Sids : CreatorStep(s)
    \/ \E k \in Tasks : TaskEnds(k)
    \/ Crash

Spec == Init /\ [][Next]_vars

-------------------------------------------------------------------------------

\* The repairs of one check never compete: besides the tasks whose creation
\* threads are about to look for a twin, or to cancel their own, at most one
\* repair task for the same targets is live, whatever stale copies restarted.
\* (A process that dies between the creation and the second look leaves two.)
OneLiveRepair ==
    bounds.crashes = 0 => Cardinality(Live \ {creator[s].own : s \in {s \in Sids : creator[s].at \in {"dedupe", "cancel"}}}) <= 1

\* A callback is never lost: a kept key was posted, since a kept key silences
\* every later report; and while the process lives a stored green session, which
\* refreshes skip for ever, was posted or is in the hands of a thread about to
\* post it (another user of the same object may save it just before).
GreenWasReported ==
    \A n \in DOMAIN record.sessions :
        LET session == record.sessions[n] IN
        /\ session.key # "none" => session.key \in posted[session.id]
        /\ session.status \in Passed /\ bounds.crashes = 0 =>
              \/ posted[session.id] \cap {"success", "passed_with_equivalent_mutants"} # {}
              \/ creator[session.id].at = "report"
              \/ \E r \in Requests : Here(r, "report") /\ Sid(r) = session.id
===============================================================================

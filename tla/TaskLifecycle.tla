--------------------------- MODULE TaskLifecycle ---------------------------
(***************************************************************************)
(* The life of repo tasks between the task database, the task daemon that   *)
(* schedules them, the `uta run' worker processes it supervises, and the    *)
(* operators and the CI service that start, stop, cancel and resume them.   *)
(*                                                                         *)
(* Grain: one step is one committed database operation of one process, or   *)
(* the process event next to it (a spawn, a poll, a ps scan).  Every value  *)
(* a process keeps in memory across two commits is a variable here.         *)
(***************************************************************************)
EXTENDS TaskRows, FiniteSets

CONSTANTS
    Tasks,             \* task ids
    Daemons,           \* daemon process incarnations, each started at most once
    None,              \* "no task" and "no class"
    RepoOf,            \* [Tasks -> repository path]
    Rank,              \* [Tasks -> Nat]: the (priority, created_at) order
    PythonTasks,       \* tasks whose worker takes the Python path of `uta run'
    UrgentTasks,       \* tasks of priority below 100, made by the CI service
    MaxSlots,          \* --max-parallel
    AcquireLimit,      \* LIMIT of the acquire query (20 in the code)
    MaxRetries,        \* transient_max_retries (3 in the code)
    IncludeFailed,     \* --include-failed
    ConcurrentDaemons, \* may two daemons run at the same time?
    ScanFails,         \* may the ps scan time out and report no process?
    ErrorKinds,        \* the policies an error message may classify as
    StopKinds,         \* the policies a stop reason may classify as
    Results,           \* what a generation cycle may say of a class
    Operations,        \* the operator commands in use
    MaxOperations      \* bound: how many of them

ASSUME ConstantsAssumption ==
    /\ RepoOf \in [Tasks -> STRING]
    /\ Rank \in [Tasks -> Nat]
    /\ MaxSlots \in Nat \ {0}
    /\ AcquireLimit \in Nat \ {0}
    /\ MaxRetries \in Nat
    /\ MaxOperations \in Nat
    /\ {IncludeFailed, ConcurrentDaemons, ScanFails} \subseteq BOOLEAN
    /\ ErrorKinds \subseteq Policies
    /\ StopKinds \subseteq Policies
    /\ Results \subseteq {"PASS", "FAIL", "REVIEWED"}
    /\ None \notin Tasks
    /\ None \notin Classes

VARIABLES
    rows,        \* [Tasks -> Row]: the database
    mode,        \* [Daemons -> mode]: not started, up, draining, dead
    pc,          \* [Daemons -> where the daemon's loop is]
    pool,        \* [Daemons -> tasks with a supervised process]
    pending,     \* [Daemons -> tasks waiting in pending_retries]
    ready,       \* [Daemons -> those whose backoff has elapsed]
    retry,       \* [Daemons -> [Tasks -> retry_count]]
    live,        \* [Daemons -> live_task_ids, as last scanned]
    picked,      \* [Daemons -> the task acquired and not yet launched]
    hb,          \* [Daemons -> the task of its fresh RUNNING heartbeat row]
    wk,          \* [Daemons -> [Tasks -> Worker]]: the processes it spawned
    stopping,    \* <<t, u>>: stop_task(t) wrote the control, not yet the status
    preempting,  \* <<t, u>>: t was RUNNING when u asked for preemption
    preempted,   \* <<t, u>>: the task_preempted events
    ops          \* operator commands issued

daemonVars == <<mode, pc, pool, pending, ready, retry, live, picked, hb>>
requestVars == <<stopping, preempting, preempted, ops>>
vars == <<rows, daemonVars, wk, requestVars>>

-----------------------------------------------------------------------------
LoopPCs == {"reap", "promote", "scan", "orphans", "acquire", "beat", "launch"}
LivePCs == {"boot", "run", "turn", "push", "sync", "final", "fsync"}
WorkerPCs == LivePCs \cup {"none", "exit0", "exit1"}

Worker == [pc   : WorkerPCs,
           cls  : Classes \cup {None},           \* the batch in hand
           snap : Statuses \cup {"none", NotCreated}, \* status read by sync_results
           fin  : ErrorClasses,                  \* final_error of the run
           res  : [Classes -> Results \cup {"none", "skip"}]]

NoResults == [c \in Classes |-> "none"]
NoWorker == [pc |-> "none", cls |-> None, snap |-> "none", fin |-> "none", res |-> NoResults]

\* An internal error is retried once, a transient one MaxRetries times.
RetryBound == IF MaxRetries > 1 THEN MaxRetries ELSE 1

\* Every variable has its type; in particular the retry counter of a task never
\* passes the bound of its error policy, through reaping, backoff and relaunch,
\* and a worker holds only statuses a row can have.
TypeOK ==
    /\ rows \in [Tasks -> Row]
    /\ mode \in [Daemons -> {"new", "up", "draining", "dead"}]
    /\ pc \in [Daemons -> LoopPCs]
    /\ pool \in [Daemons -> SUBSET Tasks]
    /\ pending \in [Daemons -> SUBSET Tasks]
    /\ ready \in [Daemons -> SUBSET Tasks]
    /\ retry \in [Daemons -> [Tasks -> 0..RetryBound]]
    /\ live \in [Daemons -> SUBSET Tasks]
    /\ picked \in [Daemons -> Tasks \cup {None}]
    /\ hb \in [Daemons -> Tasks \cup {None}]
    /\ wk \in [Daemons -> [Tasks -> Worker]]
    /\ stopping \subseteq Tasks \X (Tasks \cup {None})
    /\ preempting \subseteq Tasks \X Tasks
    /\ preempted \subseteq Tasks \X Tasks
    /\ ops \in 0..MaxOperations

Init ==
    /\ rows = [t \in Tasks |-> NewRow]
    /\ mode = [d \in Daemons |-> "new"]
    /\ pc = [d \in Daemons |-> "reap"]
    /\ pool = [d \in Daemons |-> {}]
    /\ pending = [d \in Daemons |-> {}]
    /\ ready = [d \in Daemons |-> {}]
    /\ retry = [d \in Daemons |-> [t \in Tasks |-> 0]]
    /\ live = [d \in Daemons |-> {}]
    /\ picked = [d \in Daemons |-> None]
    /\ hb = [d \in Daemons |-> None]
    /\ wk = [d \in Daemons |-> [t \in Tasks |-> NoWorker]]
    /\ stopping = {}
    /\ preempting = {}
    /\ preempted = {}
    /\ ops = 0

-----------------------------------------------------------------------------
Running(d) == mode[d] \in {"up", "draining"}
Alive(d, t) == wk[d][t].pc \in LivePCs
LiveTasks == {t \in Tasks : \E d \in Daemons : Alive(d, t)}

\* resume_preempted_tasks(u): only a preempted task that is STOPPED by now.
ResumePreemptedAny(R, u) ==
    [t \in Tasks |-> IF t # u /\ R[t].status = "STOPPED" THEN ResumeRow(R[t], "none") ELSE R[t]]

ResumePreempted(R, u) ==
    [t \in Tasks |-> IF <<t, u>> \in preempted /\ R[t].status = "STOPPED"
                     THEN ResumeRow(R[t], "none") ELSE R[t]]

SetRow(t, r) == rows' = [rows EXCEPT ![t] = r]

\* The row of t is settled with r, and the tasks it preempted are resumed.
Settle(t, r) == rows' = ResumePreempted([rows EXCEPT ![t] = r], t)

-----------------------------------------------------------------------------
(* Operators and the CI service.                                           *)

RequestOnly == UNCHANGED <<daemonVars, wk>>

Command(op) ==
    /\ op \in Operations
    /\ ops < MaxOperations
    /\ ops' = ops + 1
    /\ RequestOnly

\* create_task, and for a repair task the SELECT of the tasks to preempt.
CreateTask(t) ==
    /\ rows[t].status = NotCreated
    /\ SetRow(t, Create(rows[t]))
    /\ preempting' = preempting \cup
          {<<v, t>> : v \in {u \in Tasks \ (UrgentTasks \cup {t}) :
                                 /\ t \in UrgentTasks
                                 /\ RepoOf[u] = RepoOf[t]
                                 /\ rows[u].status = "RUNNING"}}
    /\ RequestOnly
    /\ UNCHANGED <<stopping, preempted, ops>>

\* preempt_running_same_repo_for_urgent stops each selected task in turn.
PreemptStop(t, u) ==
    /\ <<t, u>> \in preempting
    /\ preempting' = preempting \ {<<t, u>>}
    /\ SetRow(t, RequestStop(rows[t]))
    /\ stopping' = stopping \cup {<<t, u>>}
    /\ RequestOnly
    /\ UNCHANGED <<preempted, ops>>

StartTask(t) ==
    /\ Command("start")
    /\ rows[t].status # NotCreated
    /\ SetRow(t, StartRow(rows[t]))
    /\ UNCHANGED <<stopping, preempting, preempted>>

StopTask(t) ==
    /\ Command("stop")
    /\ rows[t].status # NotCreated
    /\ SetRow(t, RequestStop(rows[t]))
    /\ stopping' = stopping \cup {<<t, None>>}
    /\ UNCHANGED <<preempting, preempted>>

\* The second commit of stop_task, and the task_preempted event that follows it.
StopTaskStatus(t, u) ==
    /\ <<t, u>> \in stopping
    /\ stopping' = stopping \ {<<t, u>>}
    /\ SetRow(t, SetStopRequested(rows[t]))
    /\ preempted' = IF u = None THEN preempted ELSE preempted \cup {<<t, u>>}
    /\ RequestOnly
    /\ UNCHANGED <<preempting, ops>>

CancelTask(t) ==
    /\ Command("cancel")
    /\ rows[t].status # NotCreated
    /\ SetRow(t, CancelRow(rows[t]))
    /\ UNCHANGED <<stopping, preempting, preempted>>

ForceFlags == [resume |-> "none", resume_failed |-> "failed", resume_all |-> "all"]

ResumeTask(t, op) ==
    /\ Command(op)
    /\ rows[t].status \notin {NotCreated, "STOP_REQUESTED"}
    /\ SetRow(t, ResumeRow(rows[t], ForceFlags[op]))
    /\ UNCHANGED <<stopping, preempting, preempted>>

UnblockTask(t) ==
    /\ Command("unblock")
    /\ rows[t].status \in {"POISONED", "BUDGET_EXCEEDED", "FAILED"}
    /\ SetRow(t, UnblockRow(rows[t]))
    /\ UNCHANGED <<stopping, preempting, preempted>>

-----------------------------------------------------------------------------
(* The daemon's loop: reap, promote retries, scan, requeue orphans, acquire. *)

At(d, label) == Running(d) /\ pc[d] = label
Goto(d, label) == pc' = [pc EXCEPT ![d] = label]

\* Popen of `uta run' for t, and its slot in the pool.
Spawn(d, t, count) ==
    /\ wk' = [wk EXCEPT ![d][t] = [NoWorker EXCEPT !.pc = "boot"]]
    /\ pool' = [pool EXCEPT ![d] = @ \cup {t}]
    /\ retry' = [retry EXCEPT ![d][t] = count]

StartDaemon(d) ==
    /\ mode[d] = "new"
    /\ ConcurrentDaemons \/ \A e \in Daemons : ~Running(e)
    /\ mode' = [mode EXCEPT ![d] = "up"]
    /\ UNCHANGED <<rows, pc, pool, pending, ready, retry, live, picked, hb, wk, requestVars>>

\* The reaction of reap_finished to a nonzero exit status.
Policy(t) == IF rows[t].err = "none" THEN "class_fail_continue" ELSE rows[t].err

Retries(d, t) ==
    \/ Policy(t) = "transient" /\ retry[d][t] < MaxRetries
    \/ Policy(t) = "internal_retry_once" /\ retry[d][t] < 1

ReapFailure(d, t) ==
    IF Retries(d, t)
    THEN /\ SetRow(t, RetryRow(rows[t]))
         /\ pending' = [pending EXCEPT ![d] = @ \cup {t}]
         /\ ready' = [ready EXCEPT ![d] = IF Policy(t) = "transient" THEN @ \ {t} ELSE @ \cup {t}]
         /\ retry' = [retry EXCEPT ![d][t] = @ + 1]
    ELSE /\ Settle(t, IF Policy(t) = "budget_abort"
                      THEN MarkBudgetExceeded(rows[t], Policy(t))
                      ELSE MarkFailed(rows[t], Policy(t)))
         /\ retry' = [retry EXCEPT ![d][t] = 0]
         /\ UNCHANGED <<pending, ready>>

ReapFinished(d, t) ==
    /\ At(d, "reap")
    /\ t \in pool[d]
    /\ wk[d][t].pc \in {"exit0", "exit1"}
    /\ pool' = [pool EXCEPT ![d] = @ \ {t}]
    /\ wk' = [wk EXCEPT ![d][t] = NoWorker]
    /\ hb' = [hb EXCEPT ![d] = None]
    /\ \/ wk[d][t].pc = "exit0" /\ retry' = [retry EXCEPT ![d][t] = 0]
                                /\ UNCHANGED <<rows, pending, ready>>
       \/ wk[d][t].pc = "exit1" /\ ReapFailure(d, t)
    /\ UNCHANGED <<mode, pc, live, picked, requestVars>>

\* What a dead daemon held in memory is gone.
Forget(d) ==
    /\ mode' = [mode EXCEPT ![d] = "dead"]
    /\ pool' = [pool EXCEPT ![d] = {}]
    /\ pending' = [pending EXCEPT ![d] = {}]
    /\ ready' = [ready EXCEPT ![d] = {}]
    /\ retry' = [retry EXCEPT ![d] = [t \in Tasks |-> 0]]
    /\ live' = [live EXCEPT ![d] = {}]
    /\ picked' = [picked EXCEPT ![d] = None]
    /\ Goto(d, "reap")

\* A draining daemon with nothing left to supervise leaves the loop.
ReapDone(d) ==
    /\ At(d, "reap")
    /\ \A t \in pool[d] : wk[d][t].pc \notin {"exit0", "exit1"}
    /\ IF mode[d] = "draining" /\ pool[d] = {}
       THEN Forget(d)
       ELSE /\ Goto(d, IF mode[d] = "draining" THEN "scan" ELSE "promote")
            /\ UNCHANGED <<mode, pool, pending, ready, retry, live, picked>>
    /\ UNCHANGED <<rows, hb, wk, requestVars>>

BackoffElapses(d, t) ==
    /\ Running(d)
    /\ t \in pending[d] \ ready[d]
    /\ ready' = [ready EXCEPT ![d] = @ \cup {t}]
    /\ UNCHANGED <<rows, mode, pc, pool, pending, retry, live, picked, hb, wk, requestVars>>

HasSlot(d) == Cardinality(pool[d]) < MaxSlots

\* promote_ready_retries launches without another look at the database.
PromoteRetry(d, t) ==
    /\ At(d, "promote")
    /\ t \in ready[d]
    /\ HasSlot(d)
    /\ pending' = [pending EXCEPT ![d] = @ \ {t}]
    /\ ready' = [ready EXCEPT ![d] = @ \ {t}]
    /\ Spawn(d, t, retry[d][t])
    /\ UNCHANGED <<rows, mode, pc, live, picked, hb, requestVars>>

\* launch refuses a task whose runtime configuration is broken.
PromoteRejected(d, t) ==
    /\ At(d, "promote")
    /\ t \in ready[d]
    /\ HasSlot(d)
    /\ pending' = [pending EXCEPT ![d] = @ \ {t}]
    /\ ready' = [ready EXCEPT ![d] = @ \ {t}]
    /\ retry' = [retry EXCEPT ![d][t] = 0]
    /\ Settle(t, MarkFailed(rows[t], "class_fail_continue"))
    /\ UNCHANGED <<mode, pc, pool, live, picked, hb, wk, requestVars>>

PromoteDone(d) ==
    /\ At(d, "promote")
    /\ ready[d] = {} \/ ~HasSlot(d)
    /\ Goto(d, "scan")
    /\ UNCHANGED <<rows, mode, pool, pending, ready, retry, live, picked, hb, wk, requestVars>>

\* _live_uta_task_ids: an error or a timeout of ps yields the empty set.
ScanProcesses(d) ==
    /\ At(d, "scan")
    /\ \E seen \in {LiveTasks} \cup (IF ScanFails THEN {{}} ELSE {}) :
          live' = [live EXCEPT ![d] = seen]
    /\ Goto(d, "orphans")
    /\ UNCHANGED <<rows, mode, pool, pending, ready, retry, picked, hb, wk, requestVars>>

HasFreshHeartbeat(t) == \E d \in Daemons : hb[d] = t

OrphanedWithHeartbeat(d, t) ==
    /\ rows[t].status = "RUNNING"
    /\ t \notin pool[d] \cup live[d]
    /\ HasFreshHeartbeat(t)

Orphaned(d, t) ==
    /\ rows[t].status = "RUNNING"
    /\ t \notin pool[d] \cup live[d]
    /\ ~HasFreshHeartbeat(t)

RequeueOrphans(d) ==
    /\ At(d, "orphans")
    /\ rows' = [t \in Tasks |-> IF Orphaned(d, t) THEN RequeueRow(rows[t]) ELSE rows[t]]
    /\ Goto(d, "acquire")
    /\ UNCHANGED <<mode, pool, pending, ready, retry, live, picked, hb, wk, requestVars>>

\* acquire_next_task: the first LIMIT rows in order, minus the excluded ids; of
\* those, the first whose repository has no other active task.
ExcludedOwnOnly(d) == pool[d] \cup pending[d]

Excluded(d) == pool[d] \cup pending[d] \cup live[d]

Candidates(d) ==
    {t \in Tasks \ Excluded(d) :
        rows[t].status \in {"CREATED", "QUEUED"} \cup (IF IncludeFailed THEN {"FAILED"} ELSE {})}

Window(d) ==
    {t \in Candidates(d) : Cardinality({u \in Candidates(d) : Rank[u] < Rank[t]}) < AcquireLimit}

RepoBusyStopping(t) ==
    \E u \in Tasks \ {t} : RepoOf[u] = RepoOf[t] /\ rows[u].status = "STOP_REQUESTED"

RepoBusy(t) ==
    \E u \in Tasks \ {t} : /\ RepoOf[u] = RepoOf[t]
                           /\ rows[u].status \in {"RUNNING", "STOP_REQUESTED"}

Runnable(d) == {t \in Window(d) : ~RepoBusy(t)}

AcquireNext(d, t) ==
    /\ At(d, "acquire")
    /\ mode[d] = "up"
    /\ HasSlot(d)
    /\ t \in Runnable(d)
    /\ \A u \in Runnable(d) : Rank[t] <= Rank[u]
    /\ SetRow(t, AcquireRow(rows[t]))
    /\ picked' = [picked EXCEPT ![d] = t]
    /\ Goto(d, "beat")
    /\ UNCHANGED <<mode, pool, pending, ready, retry, live, hb, wk, requestVars>>

AcquireHeartbeat(d) ==
    /\ At(d, "beat")
    /\ hb' = [hb EXCEPT ![d] = picked[d]]
    /\ Goto(d, "launch")
    /\ UNCHANGED <<rows, mode, pool, pending, ready, retry, live, picked, wk, requestVars>>

Launch(d, t) ==
    /\ At(d, "launch")
    /\ picked[d] = t
    /\ picked' = [picked EXCEPT ![d] = None]
    /\ Spawn(d, t, 0)
    /\ Goto(d, "acquire")
    /\ UNCHANGED <<rows, mode, pending, ready, live, hb, requestVars>>

LaunchRejected(d, t) ==
    /\ At(d, "launch")
    /\ picked[d] = t
    /\ picked' = [picked EXCEPT ![d] = None]
    /\ Settle(t, MarkFailed(rows[t], "class_fail_continue"))
    /\ Goto(d, "acquire")
    /\ UNCHANGED <<mode, pool, pending, ready, retry, live, hb, wk, requestVars>>

\* Nothing more to acquire: the heartbeats of this pass, then sleep.  One row
\* per runner: with several slots the last one written stays.
AcquireDone(d) ==
    /\ At(d, "acquire")
    /\ mode[d] = "draining" \/ ~HasSlot(d) \/ Runnable(d) = {}
    /\ \E t \in (IF pool[d] = {} THEN {None} ELSE pool[d]) : hb' = [hb EXCEPT ![d] = t]
    /\ live' = [live EXCEPT ![d] = {}]
    /\ Goto(d, "reap")
    /\ UNCHANGED <<rows, mode, pool, pending, ready, retry, picked, wk, requestVars>>

-----------------------------------------------------------------------------
(* How a daemon ends.  Bound: while another incarnation can take over.      *)

CanEnd(d) == \E e \in Daemons \ {d} : mode[e] = "new"

Shutdown(d) ==
    /\ mode[d] = "up"
    /\ CanEnd(d)
    /\ mode' = [mode EXCEPT ![d] = "draining"]
    /\ UNCHANGED <<rows, pc, pool, pending, ready, retry, live, picked, hb, wk, requestVars>>

\* The second signal: _cleanup_daemon_pool kills the children that still run
\* and requeues those whose row is RUNNING.
ForceExit(d) ==
    /\ mode[d] = "draining"
    /\ Forget(d)
    /\ rows' = [t \in Tasks |->
                  IF t \in pool[d] /\ Alive(d, t) /\ rows[t].status = "RUNNING"
                  THEN RequeueRow(rows[t]) ELSE rows[t]]
    /\ wk' = [wk EXCEPT ![d] = [t \in Tasks |-> IF t \in pool[d] THEN NoWorker ELSE @[t]]]
    /\ UNCHANGED <<hb, requestVars>>

\* SIGKILL or a crash: the children run in sessions of their own and survive.
Crash(d) ==
    /\ Running(d)
    /\ CanEnd(d)
    /\ Forget(d)
    /\ wk' = [wk EXCEPT ![d] = [t \in Tasks |-> IF Alive(d, t) THEN @[t] ELSE NoWorker]]
    /\ UNCHANGED <<rows, hb, requestVars>>

\* The heartbeat row of a dead daemon is older than the stale threshold.
HeartbeatExpires(d) ==
    /\ mode[d] = "dead"
    /\ hb[d] # None
    /\ hb' = [hb EXCEPT ![d] = None]
    /\ UNCHANGED <<rows, mode, pc, pool, pending, ready, retry, live, picked, wk, requestVars>>

-----------------------------------------------------------------------------
(* The worker process: `uta run --production --task-id t'.                  *)

WorkerOnly == UNCHANGED <<daemonVars, requestVars>>

WorkerAt(d, t, labels) == wk[d][t].pc \in labels

SetWorker(d, t, w) == wk' = [wk EXCEPT ![d][t] = w]

\* Only a running daemon polls the exit status of its child.
Exit(d, t, code) ==
    SetWorker(d, t, IF Running(d) THEN [NoWorker EXCEPT !.pc = code] ELSE NoWorker)

IsPython(t) == t \in PythonTasks

\* mark_running, then (Python) the one selection of the targets still to do.
Boot(d, t) ==
    /\ WorkerAt(d, t, {"boot"})
    /\ SetRow(t, MarkRunning(rows[t]))
    /\ SetWorker(d, t, [wk[d][t] EXCEPT
          !.pc = "run",
          !.res = [c \in Classes |->
             IF IsPython(t) /\ rows[t].classes[c] \in TerminalClass THEN "skip" ELSE "none"]])
    /\ WorkerOnly

\* The classes select_next_class / select_next_target can still choose from:
\* Java looks at the class rows again, Python at its own results only.
Remaining(d, t) ==
    {c \in Classes : /\ wk[d][t].res[c] = "none"
                     /\ IsPython(t) \/ rows[t].classes[c] \notin TerminalClass}

\* The Java selection is a stage boundary and honours a stop request.
SelectClass(d, t, c) ==
    /\ WorkerAt(d, t, {"run"})
    /\ IsPython(t) \/ ~StopRequested(rows[t])
    /\ c \in Remaining(d, t)
    /\ SetRow(t, RecordStage(rows[t], c))
    /\ SetWorker(d, t, [wk[d][t] EXCEPT !.pc = "turn", !.cls = c])
    /\ WorkerOnly

\* set_stage or llm_guard_before sees the request: TaskStopRequested.
ObserveStop(d, t) ==
    /\ WorkerAt(d, t, {"run", "turn"})
    /\ StopRequested(rows[t])
    /\ \E reason \in StopKinds : SetRow(t, MarkStopped(rows[t], reason))
    /\ Exit(d, t, IF IsPython(t) THEN "exit1" ELSE "exit0")
    /\ WorkerOnly

\* After an exception the Java command syncs an empty result set with the
\* message as final_error; the Python command exits with status 1.
Abort(d, t, err) ==
    IF IsPython(t)
    THEN Exit(d, t, "exit1")
    ELSE SetWorker(d, t, [NoWorker EXCEPT !.pc = "final", !.fin = err])

\* Any other exception: marked failed by the Java command only.
Unhandled(d, t, err) ==
    /\ IF IsPython(t) THEN UNCHANGED rows ELSE Settle(t, MarkFailed(rows[t], err))
    /\ Abort(d, t, err)

PipelineError(d, t) ==
    /\ WorkerAt(d, t, {"run", "turn"})
    /\ \E err \in ErrorKinds : Unhandled(d, t, err)
    /\ WorkerOnly

\* A stop during an agent turn: GenerationPaused, which nothing catches.
PauseTurn(d, t) ==
    /\ WorkerAt(d, t, {"turn"})
    /\ StopRequested(rows[t])
    /\ Unhandled(d, t, "class_fail_continue")
    /\ WorkerOnly

\* The workflow ends early with state.error and without delivering the batch.
StopEarly(d, t) ==
    /\ WorkerAt(d, t, {"run", "turn"})
    /\ IF IsPython(t)
       THEN Exit(d, t, "exit0")
       ELSE \E err \in ErrorKinds :
               SetWorker(d, t, [wk[d][t] EXCEPT !.pc = "final", !.fin = err, !.cls = None])
    /\ UNCHANGED rows
    /\ WorkerOnly

\* Dirty paths found before the class starts (Java): record_unsafe_diff fails
\* the task and the command's handler fails it again.
UnsafeWorkspace(d, t, c) ==
    /\ WorkerAt(d, t, {"run"})
    /\ ~IsPython(t)
    /\ ~StopRequested(rows[t])
    /\ c \in Remaining(d, t)
    /\ LET failed == MarkFailed(BlockClass(rows[t], c), "class_fail_continue")
       IN  Settle(t, MarkFailed(failed, "class_fail_continue"))
    /\ Abort(d, t, "class_fail_continue")
    /\ WorkerOnly

UnsafeDiff(d, t) ==
    /\ WorkerAt(d, t, {"turn"})
    /\ Settle(t, MarkFailed(BlockClass(rows[t], wk[d][t].cls), "class_fail_continue"))
    /\ Abort(d, t, "class_fail_continue")
    /\ WorkerOnly

\* The currency cap of WorkflowCostGate, before a provider turn.
CurrencyCap(d, t) ==
    /\ WorkerAt(d, t, {"turn"})
    /\ Settle(t, MarkBudgetExceeded(rows[t], "class_fail_continue"))
    /\ Abort(d, t, "class_fail_continue")
    /\ WorkerOnly

\* The turn cap: the class is blocked, the task failed, then BUDGET_EXCEEDED.
TurnCap(d, t) ==
    /\ WorkerAt(d, t, {"turn"})
    /\ ~StopRequested(rows[t])
    /\ LET failed == MarkFailed(BlockClass(rows[t], wk[d][t].cls), "budget_abort")
       IN  Settle(t, MarkBudgetExceeded(failed, "budget_abort"))
    /\ Abort(d, t, "budget_abort")
    /\ WorkerOnly

\* commit_to_branch after its stop check: commit and push.  A push that was
\* refused leaves the rows alone: record_push_failed is called with an argument
\* the manager does not take, which raises before it writes and is swallowed.
Deliver(d, t) ==
    /\ WorkerAt(d, t, {"turn"})
    /\ ~StopRequested(rows[t])
    /\ \E result \in Results :
          SetWorker(d, t, [wk[d][t] EXCEPT !.pc = "push", !.res[wk[d][t].cls] = result])
    /\ UNCHANGED rows
    /\ WorkerOnly

\* The read of the task row sync_results starts with.
SyncRead(d, t) ==
    /\ WorkerAt(d, t, {"push", "final"})
    /\ SetWorker(d, t, [wk[d][t] EXCEPT
          !.pc = IF @ = "push" THEN "sync" ELSE "fsync", !.snap = rows[t].status])
    /\ UNCHANGED rows
    /\ WorkerOnly

SyncWrite(d, t) ==
    /\ WorkerAt(d, t, {"sync", "fsync"})
    /\ LET w       == wk[d][t]
           classes == SyncClasses(rows[t], w.res)
           status  == SyncStatus(classes, w.snap, w.fin)
       IN  /\ \E err \in SyncErrors(classes, status, w.fin) \cap (ErrorKinds \cup {"none", w.fin}) :
                 LET r == SyncRow(rows[t], w.res, w.snap, w.fin, err)
                 IN  IF status \in SyncTerminal THEN Settle(t, r) ELSE SetRow(t, r)
           /\ IF w.pc = "sync"
              THEN SetWorker(d, t, [w EXCEPT !.pc = "run", !.cls = None, !.snap = "none"])
              ELSE Exit(d, t, "exit0")
    /\ WorkerOnly

\* No target left: the final stage, then (Java only) the final sync_results.
FinishRun(d, t) ==
    /\ WorkerAt(d, t, {"run"})
    /\ Remaining(d, t) = {}
    /\ ~StopRequested(rows[t])
    /\ IF IsPython(t)
       THEN Exit(d, t, "exit0")
       ELSE SetWorker(d, t, [wk[d][t] EXCEPT !.pc = "final"])
    /\ UNCHANGED rows
    /\ WorkerOnly

\* The process is killed: nothing is written.
WorkerDies(d, t) ==
    /\ Alive(d, t)
    /\ Exit(d, t, "exit1")
    /\ UNCHANGED rows
    /\ WorkerOnly

-----------------------------------------------------------------------------
Request ==
    \/ \E t \in Tasks :
          \/ CreateTask(t) \/ StartTask(t) \/ StopTask(t) \/ CancelTask(t) \/ UnblockTask(t)
          \/ \E op \in DOMAIN ForceFlags : ResumeTask(t, op)
    \/ \E t \in Tasks, u \in Tasks \cup {None} : StopTaskStatus(t, u)
    \/ \E t, u \in Tasks : PreemptStop(t, u)

DaemonStep(d) ==
    \/ ReapDone(d) \/ PromoteDone(d) \/ ScanProcesses(d) \/ RequeueOrphans(d)
    \/ AcquireHeartbeat(d) \/ AcquireDone(d)
    \/ \E t \in Tasks : \/ ReapFinished(d, t) \/ PromoteRetry(d, t) \/ PromoteRejected(d, t)
                        \/ AcquireNext(d, t) \/ Launch(d, t) \/ LaunchRejected(d, t)

DaemonEnds(d) == Shutdown(d) \/ ForceExit(d) \/ Crash(d)

\* The steps a healthy worker takes of itself.
WorkerStep(d, t) ==
    \/ Boot(d, t) \/ ObserveStop(d, t) \/ PauseTurn(d, t) \/ Deliver(d, t)
    \/ SyncRead(d, t) \/ SyncWrite(d, t) \/ FinishRun(d, t)
    \/ \E c \in Classes : SelectClass(d, t, c)

\* The ways a run goes wrong.
WorkerFault(d, t) ==
    \/ PipelineError(d, t) \/ StopEarly(d, t) \/ UnsafeDiff(d, t) \/ CurrencyCap(d, t)
    \/ TurnCap(d, t) \/ WorkerDies(d, t)
    \/ \E c \in Classes : UnsafeWorkspace(d, t, c)

Next ==
    \/ Request
    \/ \E d \in Daemons :
          \/ StartDaemon(d) \/ DaemonStep(d) \/ DaemonEnds(d) \/ HeartbeatExpires(d)
          \/ \E t \in Tasks : BackoffElapses(d, t) \/ WorkerStep(d, t) \/ WorkerFault(d, t)

Spec == Init /\ [][Next]_vars

(***************************************************************************)
(* Fairness: the supervisor restarts the daemon, the daemon's loop and a    *)
(* healthy worker keep going, a stop command finishes its second commit,    *)
(* and time passes (backoffs elapse, the heartbeats of the dead go stale).  *)
(* Nothing is assumed of faults, of operators, or of which branch is taken. *)
(***************************************************************************)
Fairness ==
    /\ \A d \in Daemons : /\ WF_vars(StartDaemon(d))
                          /\ WF_vars(DaemonStep(d))
                          /\ WF_vars(HeartbeatExpires(d))
    /\ \A d \in Daemons, t \in Tasks : /\ WF_vars(WorkerStep(d, t))
                                       /\ WF_vars(BackoffElapses(d, t))
    /\ \A t \in Tasks, u \in Tasks \cup {None} : WF_vars(StopTaskStatus(t, u))
    /\ \A t, u \in Tasks : WF_vars(PreemptStop(t, u))

FairSpec == Spec /\ Fairness

-----------------------------------------------------------------------------
(* What the code keeps.                                                    *)

\* The tasks a daemon may launch without another look at the process table.
Launchable(d) == pending[d] \cup ({picked[d]} \cap Tasks)

\* A task never has two worker processes: run_task_daemon launches a task only
\* when no process of it is left, be it its own, one of a crashed daemon that
\* survived it, or one whose retry is waiting.
OneWorkerPerTask ==
    /\ \A t \in Tasks : \A d, e \in Daemons : Alive(d, t) /\ Alive(e, t) => d = e
    /\ \A d \in Daemons : \A t \in Launchable(d) : t \notin LiveTasks

\* Between the database and the processes: a repo task is COMPLETED only while
\* every class row is PASS or carries an accepted equivalence review, whatever
\* start, stop, cancel, resume and unblock interleave with the stale snapshot of
\* sync_results.  (Not with --force-rerun-all, which resets classes that a run
\* in progress knows nothing of, under the COMPLETED that its sync_results read.)
CompletedMeansPassed ==
    \A t \in Tasks : rows[t].status = "COMPLETED" =>
        \A c \in Classes : rows[t].classes[c] \in {"PASS", "REVIEWED"}

\* The work done on a class survives crashes, requeues, retries, stops and plain
\* resumes: a terminal class row never goes back to be run again, and PASS and
\* the blocked statuses are never replaced.  (Without the --force-rerun flags.)
FinishedClassKept ==
    [][\A t \in Tasks, c \in Classes :
          LET old == rows[t].classes[c]
              new == rows'[t].classes[c]
          IN  /\ old \in TerminalClass => new \in TerminalClass
              /\ old \in {"PASS", "BLOCKED"} => new = old]_vars

\* The same-repo lock of acquire_next_task, which is nothing but the statuses
\* RUNNING and STOP_REQUESTED of the other rows: no two tasks of one repository
\* are RUNNING, while stops and preemptions move rows back and forth and
\* sync_results writes an old RUNNING back.  (Of the rows, not of the processes;
\* and it does not survive a retry, which promote_ready_retries launches without
\* a look at the lock, or a start, resume or unblock command.)
RepoLock ==
    \A t, u \in {v \in Tasks : rows[v].status = "RUNNING"} : RepoOf[t] = RepoOf[u] => t = u

\* A task left RUNNING without a process (a daemon that crashed before or after
\* the launch, a worker that was killed) is noticed: it is run again or leaves
\* RUNNING.
OrphansRecovered ==
    \A t \in Tasks : (rows[t].status = "RUNNING" /\ t \notin LiveTasks)
                     ~> (rows[t].status # "RUNNING" \/ t \in LiveTasks)

\* Every task that is created reaches a terminal status, through crashes,
\* killed workers, retries and same-repo waiting.
TasksSettle ==
    \A t \in Tasks : rows[t].status \in {"CREATED", "QUEUED", "RUNNING"}
                     ~> rows[t].status \in TerminalStatuses

\* A stop request is not lost: its control row is acknowledged by an operator,
\* or when no process of the task is left that has not obeyed it.
StopNotLost ==
    [][\A t \in Tasks :
          "stop" \in rows[t].controls \ rows'[t].controls /\ ops' = ops
          => t \notin LiveTasks']_vars

\* A stopped task waits: nothing but an operator brings it back, unless it was
\* stopped to make room for an urgent task of the CI service, and that one has
\* reached a terminal status (resume_preempted_tasks).  Of Java workers: a
\* Python worker that obeys a stop exits with status 1, which the daemon takes
\* for a failure.
StoppedWaits ==
    [][\A t \in Tasks :
          /\ rows[t].status = "STOPPED"
          /\ rows'[t].status \notin {"STOPPED", "STOP_REQUESTED"}
          /\ ops' = ops
          => \E u \in UrgentTasks : <<t, u>> \in preempted /\ rows'[u].status \in TerminalStatuses
      ]_vars

-----------------------------------------------------------------------------
(***************************************************************************)
(* The inductive strengthenings the proofs use.                            *)
(***************************************************************************)

\* A worker about to write a status has read one.
SyncingWorker == {w \in Worker : w.pc \in {"sync", "fsync"} => w.snap # "none"}

TypeInv == TypeOK /\ wk \in [Daemons -> [Tasks -> SyncingWorker]]

\* Only a running daemon holds anything in memory, and there is one of them.
OneDaemon == \A d, e \in Daemons : Running(d) /\ Running(e) => d = e

IdleDaemon ==
    \A d \in Daemons : ~Running(d) => pool[d] = {} /\ pending[d] = {} /\ picked[d] = None

FreshDaemon ==
    \A d \in Daemons : mode[d] = "new" => pc[d] = "reap" /\ \A t \in Tasks : ~Alive(d, t)

\* The children of a running daemon are in its pool.
ChildrenPooled ==
    \A d \in Daemons, t \in Tasks : Running(d) /\ Alive(d, t) => t \in pool[d]

\* A pooled task has no process of another daemon.
PoolExclusive ==
    \A d, e \in Daemons : \A t \in pool[d] : e # d => ~Alive(e, t)

RetriesWait ==
    \A d \in Daemons : ready[d] \subseteq pending[d] /\ pending[d] \cap pool[d] = {}

PickedWaits ==
    \A d \in Daemons : /\ picked[d] # None => pc[d] \in {"beat", "launch"}
                       /\ picked[d] \notin pool[d] \cup pending[d]

\* Between the scan and the end of the pass, every process is a child of this
\* daemon or was seen by the scan.
ScanCovers ==
    \A d \in Daemons : Running(d) /\ pc[d] \in {"orphans", "acquire", "beat", "launch"}
                       => LiveTasks \subseteq live[d] \cup pool[d]

ProcessInv ==
    /\ OneWorkerPerTask
    /\ OneDaemon /\ IdleDaemon /\ FreshDaemon /\ ChildrenPooled /\ PoolExclusive
    /\ RetriesWait /\ PickedWaits /\ ScanCovers

\* What a worker in progress holds agrees with the class rows k of its task: a
\* result it will write again is the one the row has, unless the row is open or
\* was cancelled; the class in hand, and any class a Python worker has no result
\* of, was not judged by anyone else; COMPLETED was read over good rows.
Judged == {"PASS", "FAIL", "REVIEWED", "BLOCKED"}

AgreesWith(w, k, python) ==
    /\ \A c \in Classes : w.res[c] \in TerminalClass /\ k[c] \in Judged => k[c] \in {w.res[c], "BLOCKED"}
    /\ w.pc = "turn" => w.cls \in Classes /\ k[w.cls] \notin Judged
    /\ python /\ w.pc # "boot" => \A c \in Classes : w.res[c] = "none" => k[c] \notin Judged
    /\ w.pc \in {"sync", "fsync"} /\ w.snap = "COMPLETED"
          => \A c \in Classes : k[c] \in {"PASS", "REVIEWED"}

ClassInv ==
    /\ CompletedMeansPassed
    /\ \A d \in Daemons, t \in Tasks :
          Alive(d, t) => AgreesWith(wk[d][t], rows[t].classes, IsPython(t))

\* A stopped task has no process, and no daemon is about to start one.
StoppedIsIdle ==
    \A t \in Tasks : rows[t].status = "STOPPED" =>
        t \notin LiveTasks /\ \A d \in Daemons : t \notin Launchable(d)

SnapNotStopped ==
    \A d \in Daemons, t \in Tasks :
        wk[d][t].pc \in {"sync", "fsync"} => wk[d][t].snap # "STOPPED"

\* A process that was not polled yet is in the pool; of a stopped Java task, it
\* did not fail.
ExitedArePooled ==
    \A d \in Daemons, t \in Tasks : wk[d][t].pc \in {"exit0", "exit1"} => t \in pool[d]

StoppedExitsWell ==
    \A t \in Tasks : rows[t].status = "STOPPED" /\ ~IsPython(t)
        => \A d \in Daemons : wk[d][t].pc # "exit1"

\* Tasks are stopped by operators, and preempted for urgent tasks only.
UrgentPreempts ==
    /\ \A x \in preempting \cup preempted : x[2] \in UrgentTasks
    /\ \A x \in stopping : x[2] \in UrgentTasks \cup {None}

StopInv ==
    StoppedIsIdle /\ SnapNotStopped /\ ExitedArePooled /\ StoppedExitsWell /\ UrgentPreempts

\* The work of a task can still bring its row back to RUNNING.
Unresolved(t) == \E c \in Classes : rows[t].classes[c] \notin TerminalClass

Working(d, t) ==
    Alive(d, t) /\ wk[d][t].fin = "none" /\ (wk[d][t].pc = "boot" \/ Unresolved(t))

\* Who holds the lock of its repository, whatever its row says at the moment.
Holds(t) ==
    \/ rows[t].status = "RUNNING"
    \/ \E d \in Daemons : picked[d] = t \/ Working(d, t)

\* One holder per repository, and acquire_next_task can see it: its row is
\* active, and so is the status its worker will write back.
OneHolder == \A t, u \in Tasks : Holds(t) /\ Holds(u) /\ RepoOf[t] = RepoOf[u] => t = u

Active == {"RUNNING", "STOP_REQUESTED"}

HolderIsActive == \A t \in Tasks : Holds(t) => rows[t].status \in Active

SnapIsActive ==
    \A d \in Daemons, t \in Tasks :
        Working(d, t) /\ wk[d][t].pc \in {"sync", "fsync"} => wk[d][t].snap \in Active

\* No retry is under way, and no error that would start one.
Retryable == {"transient", "internal_retry_once"}

NothingRetries ==
    /\ \A t \in Tasks : rows[t].err \notin Retryable
    /\ \A d \in Daemons : pending[d] = {}
    /\ \A d \in Daemons, t \in Tasks : wk[d][t].fin \notin Retryable

RunsClean ==
    \A d \in Daemons, t \in Tasks :
        wk[d][t].pc \in {"boot", "run", "turn", "push", "sync"} => wk[d][t].fin = "none"

\* The class in hand is open, and so are those a Python worker has no result of.
InHandIsOpen(w, k, python) ==
    /\ python /\ w.pc \in LivePCs \ {"boot"}
          => \A c \in Classes : w.res[c] = "none" => k[c] \notin TerminalClass
    /\ w.pc = "turn" => w.cls \in Classes /\ k[w.cls] \notin TerminalClass

OpenInHand ==
    \A d \in Daemons, t \in Tasks : InHandIsOpen(wk[d][t], rows[t].classes, IsPython(t))

LockInv ==
    OneHolder /\ HolderIsActive /\ SnapIsActive /\ NothingRetries /\ RunsClean /\ OpenInHand
=============================================================================

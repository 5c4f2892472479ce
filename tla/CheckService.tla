----------------------------- MODULE CheckService -----------------------------
(***************************************************************************)
(* The CI check service (uta/app/service.py, uta/app/routes.py): triggers  *)
(* become check records, threads claim them under a parallel limit, run    *)
(* the quality gate in a checkout, report the verdict to the CI system and *)
(* drain the records that had to wait.  Operators stop checks, retry them, *)
(* and release them to the CI system by hand; the API process may die and  *)
(* be started again at any point.                                          *)
(*                                                                         *)
(* A record lives twice: in _tasks, the process's memory, and in the JSON  *)
(* store.  All threads share the object in _tasks, so a thread's write is  *)
(* seen at once; what the store holds is what the last save wrote.         *)
(***************************************************************************)
EXTENDS Integers, FiniteSets

CONSTANTS
    N,            \* checks submitted, numbered in the order of created_at
    Threads,      \* background callbacks and drain threads of the process
    Limit,        \* ci_report_parallel_limit (0 and below: no limit)
    Unrunnable,   \* checks of a language no handler is configured for
    Excused,      \* checks of the app whose failures RDC hears as success
    MaxEvents     \* bound: crashes of the process, stops and releases by operators

Checks == 1..N

ASSUME SizeAssumption == N \in Nat /\ Limit \in Int /\ IsFiniteSet(Threads)
ASSUME SetsAssumption == Unrunnable \subseteq Checks /\ Excused \subseteq Checks
ASSUME BoundsAssumption == MaxEvents \in Nat

VARIABLES
    mem,        \* _tasks: the record object of each check, or NoRecord
    store,      \* the JSON file of each check, or NoRecord
    active,     \* _ci_active_task_ids
    stopping,   \* _ci_stop_requested
    lock,       \* the thread that holds _ci_queue_lock, or Nobody
    marker,     \* checks with an inflight marker of a live process
    scheduled,  \* run_check calls handed to FastAPI and not begun yet
    thread,     \* what each thread is doing
    poke,       \* a _start_pending_ci_checks_if_possible call is under way
    look,       \* the check a reader is about to mark as interrupted, or 0
    release,    \* the check whose release was sent and not saved yet, or 0
    heard,      \* external: the last verdict the CI system has of each check
    freed,      \* history: checks released while no failure was on its way
    events      \* crashes, stops and releases so far

vars == <<mem, store, active, stopping, lock, marker, scheduled, thread, poke,
          look, release, heard, freed, events>>

NoRecord == [status |-> "none", override |-> FALSE]
Nobody == "nobody"

Live == {"queued", "pending", "running"}
Waiting == {"queued", "pending"}
Verdicts == {"success", "failed"}

\* check: the one the thread works on; passed: the gate result or the verdict
\* being sent.
Idle == [at |-> "idle", check |-> 0, passed |-> FALSE]

Init ==
    /\ mem = [c \in Checks |-> NoRecord]
    /\ store = [c \in Checks |-> NoRecord]
    /\ active = {} /\ stopping = {} /\ lock = Nobody /\ marker = {}
    /\ scheduled = {}
    /\ thread = [t \in Threads |-> Idle]
    /\ poke = FALSE /\ look = 0 /\ release = 0
    /\ heard = [c \in Checks |-> "none"]
    /\ freed = {}
    /\ events = 0

-------------------------------------------------------------------------------
(* Records and the queue *)

\* _load_record: the object in memory, else a copy read from the store.
Rec(c) == IF mem[c] # NoRecord THEN mem[c] ELSE store[c]

Submitted == {c \in Checks : Rec(c) # NoRecord}

\* save after an assignment to the record of c: both copies have the new value.
Save(c, r) == mem' = [mem EXCEPT ![c] = r] /\ store' = [store EXCEPT ![c] = r]

\* An assignment to the record that the next save makes durable.
Assign(c, r) == mem' = [mem EXCEPT ![c] = r] /\ UNCHANGED store

To(c, status) == [Rec(c) EXCEPT !.status = status]

LockFree == lock = Nobody

\* _active_ci_check_count_locked
CountedActive(exclude) ==
    {c \in Submitted \ exclude :
        \/ c \in active
        \/ Rec(c).status = "running" /\ c \in marker}

\* _ci_report_limit_reached_locked
LimitReached(exclude) ==
    Limit > 0 /\ Cardinality(CountedActive(exclude)) >= Limit

\* The mutant: only capacity-pending records are drained.
ClaimablePendingOnly == {c \in Submitted : Rec(c).status = "pending"}

\* The records _claim_next_pending_ci_check may claim, and the oldest of them.
Claimable == {c \in Submitted : Rec(c).status \in Waiting}
Oldest(S) == CHOOSE c \in S : \A d \in S : c <= d

\* _mark_ci_check_claimed: the status first, the active set after it; a thread
\* that holds the lock can be seen between the two by readers that do not
\* take it.
BeginClaim(t, c) ==
    /\ Assign(c, To(c, "running"))
    /\ lock' = t
    /\ thread' = [thread EXCEPT ![t] = [at |-> "register", check |-> c, passed |-> FALSE]]

\* _claim_next_pending_ci_check by thread t, which ends when there is
\* nothing to claim.
ClaimNext(t) ==
    /\ LockFree
    /\ IF LimitReached({}) \/ Claimable = {}
       THEN /\ thread' = [thread EXCEPT ![t] = Idle]
            /\ UNCHANGED <<mem, store, lock>>
       ELSE BeginClaim(t, Oldest(Claimable))
    /\ UNCHANGED <<active, stopping, marker, look, release, heard, freed, events>>

-------------------------------------------------------------------------------
(* Requests *)

\* _handle_trigger: the request that was verified and parsed into a trigger
\* leaves run_check to the background tasks of the response.
Background(c) == scheduled' = scheduled \cup {c}

\* submit: a new record is saved as queued.  A retry of an ended check submits
\* a new record the same way.
Submit ==
    \E c \in Checks \ Submitted :
        /\ \A d \in Checks \ Submitted : c <= d
        /\ Save(c, [status |-> "queued", override |-> FALSE])
        /\ Background(c)
        /\ UNCHANGED <<active, stopping, lock, marker, thread, poke, look,
                       release, heard, freed, events>>

\* stop_ci_task: the intent, the status and the active set change together
\* under the lock; then the next waiting check is started.
StopCheck(c) ==
    /\ events < MaxEvents
    /\ LockFree
    /\ Rec(c).status \in Live
    /\ Save(c, To(c, "stopped"))
    /\ stopping' = stopping \cup {c}
    /\ active' = active \ {c}
    /\ poke' = TRUE
    /\ events' = events + 1
    /\ UNCHANGED <<lock, marker, scheduled, thread, look, release, heard, freed>>

\* replay_ci_callback, first half: the CI system is told "passed".
ReplaySend(c) ==
    /\ events < MaxEvents
    /\ release = 0
    /\ Rec(c) # NoRecord
    /\ heard' = [heard EXCEPT ![c] = "pass"]
    /\ release' = c
    /\ events' = events + 1
    /\ UNCHANGED <<mem, store, active, stopping, lock, marker, scheduled,
                   thread, poke, look, freed>>

\* A failing verdict of c is being posted.
FailureOnItsWay(c) ==
    \E t \in Threads : thread[t].at = "send" /\ thread[t].check = c /\ ~thread[t].passed

\* replay_ci_callback, second half: the override is put on the record.
ReplaySave ==
    /\ release # 0
    /\ LET r == [Rec(release) EXCEPT !.override = TRUE]
       IN IF mem[release] # NoRecord
          THEN Save(release, r)
          ELSE store' = [store EXCEPT ![release] = r] /\ UNCHANGED mem
    /\ freed' = IF heard[release] = "pass" /\ ~FailureOnItsWay(release)
                THEN freed \cup {release} ELSE freed
    /\ release' = 0
    /\ UNCHANGED <<active, stopping, lock, marker, scheduled, thread, poke,
                   look, heard, events>>

\* get, first part: a running record that nobody in this process works on and
\* no live marker vouches for is about to be marked; none of the three reads
\* takes the lock.
Read(c) ==
    /\ look = 0
    /\ Rec(c) # NoRecord
    /\ mem' = IF Rec(c).status \in Live THEN [mem EXCEPT ![c] = Rec(c)] ELSE mem
    /\ look' = IF /\ Rec(c).status = "running"
                  /\ c \notin active
                  /\ c \notin marker
               THEN c ELSE 0
    /\ poke' = (poke \/ Rec(c).status \in Waiting)
    /\ UNCHANGED <<store, active, stopping, lock, marker, scheduled, thread,
                   release, heard, freed, events>>

\* _mark_orphaned_running_record_interrupted
MarkInterrupted ==
    /\ look # 0
    /\ Save(look, To(look, "failed"))
    /\ look' = 0
    /\ UNCHANGED <<active, stopping, lock, marker, scheduled, thread, poke,
                   release, heard, freed, events>>

\* recent_records: any waiting record in the list starts the next one.
Recent ==
    /\ Claimable # {}
    /\ poke' = TRUE
    /\ UNCHANGED <<mem, store, active, stopping, lock, marker, scheduled,
                   thread, look, release, heard, freed, events>>

-------------------------------------------------------------------------------
(* Threads *)

Go(t, at) == thread' = [thread EXCEPT ![t].at = at]
At(t, at) == thread[t].at = at
Mine(t) == thread[t].check

\* _claim_ci_check: the check itself does not count against the limit, and a
\* check that is running already may be claimed once more.
ClaimCheck(t, c) ==
    IF LimitReached({c})
    THEN Save(c, To(c, "pending")) /\ UNCHANGED <<lock, thread>>
    ELSE BeginClaim(t, c)

\* run_check: a callback of FastAPI begins.
RunCheck(t, c) ==
    /\ At(t, "idle") /\ c \in scheduled
    /\ LockFree
    /\ scheduled' = scheduled \ {c}
    /\ IF c \in Unrunnable \/ Rec(c).status \notin Live
       THEN UNCHANGED <<mem, store, lock, thread>>
       ELSE ClaimCheck(t, c)
    /\ UNCHANGED <<active, stopping, marker, poke, look, release, heard, freed, events>>

\* _start_pending_ci_checks_if_possible: the request's thread claims, and a
\* new thread runs the check; a check nobody can run goes back to pending.
StartPending(t) ==
    /\ At(t, "idle") /\ poke
    /\ poke' = FALSE
    /\ UNCHANGED scheduled
    /\ IF ~LimitReached({}) /\ Claimable # {} /\ Oldest(Claimable) \in Unrunnable
       THEN /\ LockFree
            /\ Save(Oldest(Claimable), To(Oldest(Claimable), "pending"))
            /\ UNCHANGED <<active, stopping, lock, marker, thread, look,
                           release, heard, freed, events>>
       ELSE ClaimNext(t)

\* _claim_ci_check and _claim_next_pending_ci_check, the rest: active, saved,
\* unlocked.
Register(t) ==
    /\ At(t, "register")
    /\ active' = active \cup {Mine(t)}
    /\ Save(Mine(t), Rec(Mine(t)))
    /\ lock' = Nobody
    /\ Go(t, "start")
    /\ UNCHANGED <<stopping, marker, scheduled, poke, look, release, heard, freed, events>>

\* _ci_check_stop_requested: where the thread goes on, unless it was stopped.
UnlessStopped(t, at) == IF Mine(t) \in stopping THEN "end" ELSE at

\* _inflight_marker, on entry.
WriteMarker(c) == marker' = marker \cup {c}

\* _run_claimed_ci_check and _run_check begin: the inflight marker is written
\* and the stop intent asked for, under the lock.
Start(t) ==
    /\ At(t, "start")
    /\ LockFree
    /\ WriteMarker(Mine(t))
    /\ Go(t, UnlessStopped(t, "running"))
    /\ UNCHANGED <<mem, store, active, stopping, lock, scheduled, poke, look,
                   release, heard, freed, events>>

\* _run_check, the status is written again, without the lock.
MarkRunning(t) ==
    /\ At(t, "running")
    /\ Save(Mine(t), To(Mine(t), "running"))
    /\ Go(t, "prepare")
    /\ UNCHANGED <<active, stopping, lock, marker, scheduled, poke, look,
                   release, heard, freed, events>>

\* The checkout is prepared, its path saved and the stop intent asked for
\* again, or preparing it raises.
Prepare(t) ==
    /\ At(t, "prepare")
    /\ \/ LockFree /\ Save(Mine(t), Rec(Mine(t))) /\ Go(t, UnlessStopped(t, "run"))
       \/ UNCHANGED <<mem, store>> /\ Go(t, "except")
    /\ UNCHANGED <<active, stopping, lock, marker, scheduled, poke, look,
                   release, heard, freed, events>>

\* The language's runner runs the gate (external here): it answers or raises.
\* No runner is configured for an unrunnable check that a drain claimed.
RunGate(t) ==
    /\ At(t, "run")
    /\ \/ /\ Mine(t) \notin Unrunnable
          /\ \E passed \in BOOLEAN :
                thread' = [thread EXCEPT ![t].at = "finish", ![t].passed = passed]
       \/ Go(t, "except")
    /\ UNCHANGED <<mem, store, active, stopping, lock, marker, scheduled, poke,
                   look, release, heard, freed, events>>

\* The mutant: a late result is applied although a stop was requested.
FinishAnyway(t) ==
    /\ At(t, "finish")
    /\ LockFree
    /\ Assign(Mine(t), To(Mine(t), IF thread[t].passed THEN "success" ELSE "failed"))
    /\ Go(t, "report")
    /\ UNCHANGED <<active, stopping, lock, marker, scheduled, poke, look,
                   release, heard, freed, events>>

\* The end of _run_check under the lock: a stop wins over a late result.
Finish(t) ==
    /\ At(t, "finish")
    /\ LockFree
    /\ IF Mine(t) \in stopping
       THEN UNCHANGED <<mem, store>>
       ELSE Assign(Mine(t), To(Mine(t), IF thread[t].passed THEN "success" ELSE "failed"))
    /\ Go(t, UnlessStopped(t, "report"))
    /\ UNCHANGED <<active, stopping, lock, marker, scheduled, poke, look,
                   release, heard, freed, events>>

\* RdcProtocol.report_result: the failures of one app are reported as success.
RdcVerdict(c, passed) == passed \/ c \in Excused

\* The mutant: the operator's release is not looked up.
ChooseVerdictPlain(t) ==
    /\ At(t, "report")
    /\ thread' = [thread EXCEPT ![t].at = "send", ![t].passed = RdcVerdict(Mine(t), @)]
    /\ UNCHANGED <<mem, store, active, stopping, lock, marker, scheduled, poke,
                   look, release, heard, freed, events>>

\* _report_result chooses the verdict: the operator's override wins.
ChooseVerdict(t) ==
    /\ At(t, "report")
    /\ thread' = [thread EXCEPT
            ![t].at = "send",
            ![t].passed = RdcVerdict(Mine(t), @ \/ Rec(Mine(t)).override)]
    /\ UNCHANGED <<mem, store, active, stopping, lock, marker, scheduled, poke,
                   look, release, heard, freed, events>>

\* send: up to retry_times + 1 posts of the same body.  The CI system applies
\* it, or refuses every post of it.
Post(c, passed) ==
    \/ heard' = [heard EXCEPT ![c] = IF passed THEN "pass" ELSE "fail"]
    \/ UNCHANGED heard

\* The verdict is posted; the record keeps the outcome and is saved.
SendVerdict(t) ==
    /\ At(t, "send")
    /\ Post(Mine(t), thread[t].passed)
    /\ Save(Mine(t), Rec(Mine(t)))
    /\ Go(t, "end")
    /\ UNCHANGED <<active, stopping, lock, marker, scheduled, poke, look,
                   release, freed, events>>

\* _run_claimed_ci_check, the except clause: a stop wins, else the record has
\* failed, without a word to the CI system.
Raised(t) ==
    /\ At(t, "except")
    /\ LockFree
    /\ IF Mine(t) \in stopping
       THEN UNCHANGED <<mem, store>>
       ELSE Save(Mine(t), To(Mine(t), "failed"))
    /\ Go(t, "end")
    /\ UNCHANGED <<active, stopping, lock, marker, scheduled, poke, look,
                   release, heard, freed, events>>

\* The marker is removed, then the finally clause under the lock.
End(t) ==
    /\ At(t, "end")
    /\ LockFree
    /\ marker' = marker \ {Mine(t)}
    /\ active' = active \ {Mine(t)}
    /\ stopping' = stopping \ {Mine(t)}
    /\ thread' = [thread EXCEPT ![t] = [Idle EXCEPT !.at = "drain"]]
    /\ UNCHANGED <<mem, store, lock, scheduled, poke, look, release, heard,
                   freed, events>>

\* _run_check_and_drain goes on with the oldest waiting check.
Drain(t) ==
    /\ At(t, "drain")
    /\ ClaimNext(t)
    /\ UNCHANGED <<scheduled, poke>>

\* The process dies and is started again: memory is gone, its markers name a
\* dead pid, and recover_ci_queue starts the oldest waiting record.
Crash ==
    /\ events < MaxEvents
    /\ mem' = [c \in Checks |-> NoRecord]
    /\ active' = {} /\ stopping' = {} /\ lock' = Nobody /\ marker' = {}
    /\ scheduled' = {}
    /\ thread' = [t \in Threads |-> Idle]
    /\ poke' = TRUE /\ look' = 0 /\ release' = 0
    /\ events' = events + 1
    /\ UNCHANGED <<store, heard, freed>>

-------------------------------------------------------------------------------
ThreadStep(t) ==
    \/ Register(t) \/ Start(t) \/ MarkRunning(t) \/ Prepare(t) \/ RunGate(t)
    \/ Finish(t) \/ ChooseVerdict(t) \/ SendVerdict(t) \/ Raised(t)
    \/ End(t) \/ Drain(t)

Begin(t) == StartPending(t) \/ \E c \in Checks : RunCheck(t, c)

Operate(c) == StopCheck(c) \/ ReplaySend(c) \/ Read(c)

Next ==
    \/ Submit \/ Recent \/ ReplaySave \/ MarkInterrupted \/ Crash
    \/ \E c \in Checks : Operate(c)
    \/ \E t \in Threads : Begin(t) \/ ThreadStep(t)

Spec == Init /\ [][Next]_vars

-------------------------------------------------------------------------------

\* A release sticks: once it is on the record, and no failure was on its way
\* to the CI system at that moment, what the CI system hears last is "passed",
\* whatever the run of the check, its retries and restarts report afterwards.
ReleaseSticks == \A c \in freed : heard[c] = "pass"

\* A stop is final against everything that takes the lock: while the intent
\* is noted, only the unlocked rewrite of "running" in _run_check (and a
\* reader's mark that was decided before) changes a stopped record.
StopBeatsResults ==
    [][\A c \in Checks :
          (c \in stopping /\ mem[c].status = "stopped" /\ mem'[c].status \in Verdicts)
             => look = c]_vars

\* No wake-up is lost: while a check waits, something in the process is bound
\* to look at the queue again (its own callback, a claim under way, or a
\* thread that drains when it is done), unless an older check that no handler
\* can run heads the queue.  Nobody has to poll.
NoLostWakeup ==
    \A c \in Checks \ Unrunnable :
        Rec(c).status \in Waiting =>
            \/ c \in scheduled \/ poke
            \/ \E t \in Threads : thread[t].at # "idle"
            \/ \E u \in Unrunnable : u < c /\ Rec(u).status \in Waiting
-------------------------------------------------------------------------------
(* The inductive strengthenings the proofs use. *)

Records ==
    [status : {"none", "queued", "pending", "running", "stopped", "success", "failed"},
     override : BOOLEAN]

\* Where a thread works on a check it has claimed and registered.
Working == {"start", "running", "prepare", "run", "finish", "report", "send", "except", "end"}

TypeOK ==
    /\ mem \in [Checks -> Records] /\ store \in [Checks -> Records]
    /\ active \subseteq Checks /\ marker \subseteq Checks
    /\ thread \in [Threads -> [at : {"idle", "drain", "register"} \cup Working,
                              check : 0..N, passed : BOOLEAN]]
    /\ \A t \in Threads : thread[t].at \notin {"idle", "drain"} => thread[t].check \in Checks
    /\ look \in 0..N /\ release \in 0..N
    /\ heard \in [Checks -> {"none", "pass", "fail"}]
    /\ freed \subseteq Checks

\* A released check carries the override in both places it lives in, and no
\* failure of it is on its way.
ReleaseInv ==
    \A c \in freed :
        /\ store[c].override /\ (mem[c] # NoRecord => mem[c].override)
        /\ heard[c] = "pass" /\ ~FailureOnItsWay(c)

\* What counts against the limit has a thread that will drain the queue, and no
\* reader is about to fail a check that nobody can run and that waits.
WakeInv ==
    /\ \A c \in active \cup marker : \E t \in Threads : thread[t].at \in Working /\ thread[t].check = c
    /\ look # 0 => Rec(look) # NoRecord
    /\ look \in Unrunnable => Rec(look).status \notin Waiting
===============================================================================

-------------------------- MODULE TaskRecordProofs --------------------------
(***************************************************************************)
(* What the task database says of the work, for any tasks, classes, slots   *)
(* and limits, with one daemon at a time and a process scan that works: the *)
(* results of a class are kept, COMPLETED means passed, a stop is obeyed    *)
(* and kept, and a repository has one RUNNING task.                         *)
(*                                                                         *)
(* Each rests on OneWorker: the rows of a task are judged by its one        *)
(* process, everyone else moves open rows only.                             *)
(***************************************************************************)
EXTENDS TaskLifecycleProofs

\* Without the --force-rerun flags.
NoForce == Operations \cap {"resume_failed", "resume_all"} = {}

-----------------------------------------------------------------------------
(* The class rows.                                                         *)

\* From the class rows k to l, only open rows move, and nobody judges them.
Mild(k, l) ==
    \A c \in Classes :
        l[c] = k[c] \/ (k[c] \in UnfinishedClass /\ l[c] \in UnfinishedClass \cup {"CANCELLED"})

MildRows == \A u \in Tasks : Mild(rows[u].classes, rows'[u].classes)

\* The body of FinishedClassKept.
KeepsFinished ==
    \A t \in Tasks, c \in Classes :
        LET old == rows[t].classes[c]
            new == rows'[t].classes[c]
        IN  /\ old \in TerminalClass => new \in TerminalClass
            /\ old \in {"PASS", "BLOCKED"} => new = old

LEMMA MildKeepsFinished ==
  ASSUME MildRows
  PROVE  KeepsFinished
  BY DEF MildRows, Mild, KeepsFinished, UnfinishedClass, TerminalClass

\* What finish_task_with_terminal_event writes, with or without a failure.
Finished(r, q, s, err) ==
    q.classes = r.classes /\ q.status = s /\ q.controls = r.controls /\ q.err = err

LEMMA FinishTaskClasses ==
  ASSUME NEW r \in Row, NEW s, NEW err
  PROVE  /\ Finished(r, FinishTask(r, s, err, TRUE), s, err)
         /\ Finished(r, FinishTask(r, s, err, FALSE), s, err)
  BY DEF FinishTask, CountFailure, Row, Finished

LEMMA FailureClasses ==
  ASSUME NEW r \in Row, NEW err
  PROVE  /\ MarkFailed(r, err).classes = r.classes
         /\ MarkFailed(r, err).status \in {"FAILED", "POISONED"}
         /\ MarkFailed(r, err).controls = r.controls
         /\ MarkFailed(r, err).err = err
         /\ MarkBudgetExceeded(r, err).classes = r.classes
         /\ MarkBudgetExceeded(r, err).status = "BUDGET_EXCEEDED"
         /\ MarkBudgetExceeded(r, err).controls = r.controls
         /\ MarkBudgetExceeded(r, err).err = err
  <1> DEFINE verdict == IF Threshold > 0 /\ r.failures + 1 >= Threshold THEN "POISONED" ELSE "FAILED"
  <1>1. MarkFailed(r, err) = FinishTask(r, verdict, err, TRUE)
    BY DEF MarkFailed
  <1>2. verdict \in {"FAILED", "POISONED"}
    OBVIOUS
  <1>3. MarkBudgetExceeded(r, err) = FinishTask(r, "BUDGET_EXCEEDED", err, FALSE)
    BY DEF MarkBudgetExceeded
  <1> HIDE DEF verdict
  <1>4. Finished(r, FinishTask(r, verdict, err, TRUE), verdict, err)
    BY FinishTaskClasses
  <1>5. Finished(r, FinishTask(r, "BUDGET_EXCEEDED", err, FALSE), "BUDGET_EXCEEDED", err)
    BY FinishTaskClasses
  <1> QED
    BY <1>1, <1>2, <1>3, <1>4, <1>5 DEF Finished

LEMMA CancelRowClasses ==
  ASSUME NEW r \in Row
  PROVE  /\ Mild(r.classes, CancelRow(r).classes)
         /\ CancelRow(r).status = "CANCELLED"
  <1> DEFINE closing == SetClasses([r EXCEPT !.controls = @ \cup {"cancel"}], UnfinishedClass, "CANCELLED")
  <1>1. [r EXCEPT !.controls = @ \cup {"cancel"}] \in Row
    BY DEF Row
  <1>2. closing \in Row
    BY <1>1, SetClassesType DEF ClassStatuses, TerminalClass
  <1>3. Mild(r.classes, closing.classes)
    BY DEF SetClasses, Row, Mild
  <1>4. CancelRow(r) = FinishTask(closing, "CANCELLED", r.err, FALSE)
    BY DEF CancelRow
  <1> HIDE DEF closing
  <1>5. Finished(closing, FinishTask(closing, "CANCELLED", r.err, FALSE), "CANCELLED", r.err)
    BY <1>2, FinishTaskClasses
  <1> QED
    BY <1>3, <1>4, <1>5 DEF Finished

LEMMA ResumeRowClasses ==
  ASSUME NEW r \in Row
  PROVE  /\ Mild(r.classes, ResumeRow(r, "none").classes)
         /\ ResumeRow(r, "none").status = "QUEUED"
         /\ ResumeRow(r, "none").err = "none"
  <1>1. Resumable("none") = UnfinishedClass
    BY DEF Resumable
  <1> QED
    BY <1>1 DEF ResumeRow, SetClasses, Row, Mild, UnfinishedClass

LEMMA RequeueRowClasses ==
  ASSUME NEW r \in Row
  PROVE  /\ Mild(r.classes, RequeueRow(r).classes)
         /\ RequeueRow(r).status = "QUEUED"
         /\ RequeueRow(r).controls = r.controls
         /\ RequeueRow(r).err = "none"
  BY DEF RequeueRow, SetClasses, Row, Mild, UnfinishedClass

\* The methods that leave the class rows alone.
LEMMA AssignmentClasses ==
  ASSUME NEW r \in Row, NEW err
  PROVE  /\ Create(r).classes = r.classes
         /\ StartRow(r).classes = r.classes
         /\ MarkRunning(r).classes = r.classes
         /\ AcquireRow(r).classes = r.classes
         /\ RequestStop(r).classes = r.classes
         /\ SetStopRequested(r).classes = r.classes
         /\ MarkStopped(r, err).classes = r.classes
         /\ RetryRow(r).classes = r.classes
         /\ UnblockRow(r).classes = r.classes
  BY DEF Create, StartRow, MarkRunning, AcquireRow, RequestStop, SetStopRequested, MarkStopped,
         RetryRow, UnblockRow, Row

LEMMA SetRowMild ==
  ASSUME rows \in [Tasks -> Row], NEW t \in Tasks, NEW r, SetRow(t, r),
         Mild(rows[t].classes, r.classes)
  PROVE  MildRows
  BY DEF SetRow, MildRows, Mild

\* Settling t resumes what it preempted, which moves open class rows only.
LEMMA SettleRows ==
  ASSUME rows \in [Tasks -> Row], NEW t \in Tasks, NEW r \in Row, r.status # "STOPPED", Settle(t, r)
  PROVE  /\ rows'[t] = r
         /\ \A u \in Tasks \ {t} :
              \/ rows'[u] = rows[u]
              \/ /\ <<u, t>> \in preempted /\ rows[u].status = "STOPPED"
                 /\ rows'[u] = ResumeRow(rows[u], "none")
         /\ \A u \in Tasks \ {t} : Mild(rows[u].classes, rows'[u].classes)
  <1> DEFINE R == [rows EXCEPT ![t] = r]
  <1>1. rows' = [u \in Tasks |-> IF <<u, t>> \in preempted /\ R[u].status = "STOPPED"
                                 THEN ResumeRow(R[u], "none") ELSE R[u]]
    BY DEF Settle, ResumePreempted
  <1>2. R[t] = r /\ \A u \in Tasks \ {t} : R[u] = rows[u]
    OBVIOUS
  <1>3. rows'[t] = r
    BY <1>1, <1>2
  <1>4. ASSUME NEW u \in Tasks \ {t}
        PROVE  \/ rows'[u] = rows[u]
               \/ /\ <<u, t>> \in preempted /\ rows[u].status = "STOPPED"
                  /\ rows'[u] = ResumeRow(rows[u], "none")
    BY <1>1, <1>2
  <1>5. ASSUME NEW u \in Tasks \ {t} PROVE Mild(rows[u].classes, rows'[u].classes)
    <2>1. rows[u] \in Row
      OBVIOUS
    <2>2. CASE rows'[u] = rows[u]
      BY <2>2 DEF Mild
    <2>3. CASE rows'[u] = ResumeRow(rows[u], "none")
      BY <2>1, <2>3, ResumeRowClasses
    <2> QED
      BY <1>4, <2>2, <2>3
  <1> QED
    BY <1>3, <1>4, <1>5

\* A step that moves open class rows only, and completes no task.
Gentle(u) ==
    /\ Mild(rows[u].classes, rows'[u].classes)
    /\ rows'[u].status = "COMPLETED" => rows[u].status = "COMPLETED"

LEMMA SetRowGentle ==
  ASSUME rows \in [Tasks -> Row], NEW t \in Tasks, NEW r, SetRow(t, r)
  PROVE  /\ \A u \in Tasks \ {t} : Gentle(u)
         /\ Mild(rows[t].classes, r.classes) /\ r.status \in {rows[t].status} \cup (Statuses \ {"COMPLETED"})
               => Gentle(t)
  BY DEF SetRow, Gentle, Mild

LEMMA SettleGentle ==
  ASSUME rows \in [Tasks -> Row], NEW t \in Tasks, NEW r \in Row, r.status # "STOPPED", Settle(t, r)
  PROVE  /\ \A u \in Tasks \ {t} : Gentle(u)
         /\ Mild(rows[t].classes, r.classes) /\ r.status # "COMPLETED" => Gentle(t)
  <1>1. ASSUME NEW u \in Tasks \ {t} PROVE Gentle(u)
    <2>1. rows[u] \in Row
      OBVIOUS
    <2>2. Mild(rows[u].classes, rows'[u].classes)
      BY SettleRows
    <2>3. rows'[u] = rows[u] \/ rows'[u] = ResumeRow(rows[u], "none")
      BY SettleRows
    <2>4. ResumeRow(rows[u], "none").status = "QUEUED"
      BY <2>1, ResumeRowClasses
    <2> QED
      BY <2>2, <2>3, <2>4 DEF Gentle
  <1>2. rows'[t] = r
    BY SettleRows
  <1> QED
    BY <1>1, <1>2 DEF Gentle

\* The two ways a run or the daemon fails a task.
LEMMA FailureGentle ==
  ASSUME rows \in [Tasks -> Row], NEW t \in Tasks, NEW err \in ErrorClasses,
         \/ Settle(t, MarkFailed(rows[t], err))
         \/ Settle(t, MarkBudgetExceeded(rows[t], err))
  PROVE  \A u \in Tasks : Gentle(u)
  <1>1. PICK r \in {MarkFailed(rows[t], err), MarkBudgetExceeded(rows[t], err)} : Settle(t, r)
    OBVIOUS
  <1>2. rows[t] \in Row
    OBVIOUS
  <1>3. r \in Row
    BY <1>1, <1>2, MarkFailedType, MarkBudgetExceededType
  <1>4. r.classes = rows[t].classes /\ r.status \in {"FAILED", "POISONED", "BUDGET_EXCEEDED"}
    BY <1>1, <1>2, FailureClasses
  <1>5. Mild(rows[t].classes, r.classes) /\ r.status \notin {"COMPLETED", "STOPPED"}
    BY <1>4 DEF Mild
  <1> QED
    BY <1>1, <1>3, <1>5, SettleGentle

-----------------------------------------------------------------------------
(* What a worker holds of the class rows.                                  *)

\* A process that has nothing to write yet.
FreshWorker(w, python) ==
    w.res = NoResults /\ (w.pc = "boot" \/ (w.pc = "final" /\ ~python))

LEMMA FreshAgrees ==
  ASSUME NEW w, NEW k, NEW python, FreshWorker(w, python)
  PROVE  AgreesWith(w, k, python)
  BY DEF FreshWorker, AgreesWith, NoResults, TerminalClass

LEMMA MildAgrees ==
  ASSUME NEW w, NEW python, NEW k, NEW l, Mild(k, l), AgreesWith(w, k, python)
  PROVE  AgreesWith(w, l, python)
  <1>1. \A c \in Classes : l[c] \in Judged => l[c] = k[c]
    BY DEF Mild, Judged, UnfinishedClass
  <1>2. \A c \in Classes : k[c] \in {"PASS", "REVIEWED"} => l[c] = k[c]
    BY DEF Mild, UnfinishedClass
  <1> QED
    BY <1>1, <1>2 DEF AgreesWith

LEMMA CompletedStays ==
  ASSUME CompletedMeansPassed, NEW t \in Tasks, Gentle(t)
  PROVE  rows'[t].status = "COMPLETED" => \A c \in Classes : rows'[t].classes[c] \in {"PASS", "REVIEWED"}
  BY DEF CompletedMeansPassed, Gentle, Mild, UnfinishedClass

\* Steps of anyone but the worker, and those that end or restart it.
LEMMA GentleStep ==
  ASSUME ClassInv, \A u \in Tasks : Gentle(u),
         \A e \in Daemons, u \in Tasks :
            Alive(e, u)' => \/ Alive(e, u) /\ wk'[e][u] = wk[e][u]
                           \/ FreshWorker(wk'[e][u], IsPython(u))
  PROVE  ClassInv' /\ KeepsFinished
  <1>1. CompletedMeansPassed'
    BY CompletedStays DEF ClassInv, CompletedMeansPassed
  <1>2. ASSUME NEW e \in Daemons, NEW u \in Tasks, Alive(e, u)'
        PROVE  AgreesWith(wk'[e][u], rows'[u].classes, IsPython(u))
    <2>1. CASE Alive(e, u) /\ wk'[e][u] = wk[e][u]
      <3>1. AgreesWith(wk[e][u], rows[u].classes, IsPython(u))
        BY <2>1 DEF ClassInv
      <3>2. Mild(rows[u].classes, rows'[u].classes)
        BY DEF Gentle
      <3> QED
        BY <2>1, <3>1, <3>2, MildAgrees
    <2>2. CASE FreshWorker(wk'[e][u], IsPython(u))
      BY <2>2, FreshAgrees
    <2> QED
      BY <1>2, <2>1, <2>2
  <1>3. \A e \in Daemons, u \in Tasks :
           Alive(e, u)' => AgreesWith(wk[e][u], rows[u].classes, IsPython(u))'
    BY <1>2 DEF IsPython, AgreesWith
  <1>4. KeepsFinished
    BY MildKeepsFinished DEF MildRows, Gentle
  <1> QED
    BY <1>1, <1>3, <1>4 DEF ClassInv

\* A step of the one worker of t, which judges the rows of t.
LEMMA OwnStep ==
  ASSUME TypeInv, ProcessInv, ClassInv, NEW d \in Daemons, NEW t \in Tasks, Alive(d, t),
         NEW w, SetWorker(d, t, w), \A u \in Tasks \ {t} : Gentle(u),
         w.pc \in LivePCs => AgreesWith(w, rows'[t].classes, IsPython(t)),
         rows'[t].status = "COMPLETED" =>
            \A c \in Classes : rows'[t].classes[c] \in {"PASS", "REVIEWED"}
  PROVE  ClassInv'
  <1>0. wk \in [Daemons -> [Tasks -> SyncingWorker]]
    BY DEF TypeInv
  <1>1. CompletedMeansPassed'
    BY CompletedStays DEF ClassInv, CompletedMeansPassed
  <1>2. ASSUME NEW e \in Daemons, NEW u \in Tasks, Alive(e, u)'
        PROVE  AgreesWith(wk'[e][u], rows'[u].classes, IsPython(u))
    <2>1. CASE u # t
      <3>1. wk'[e][u] = wk[e][u]
        BY <1>0, <2>1 DEF SetWorker
      <3>2. AgreesWith(wk[e][u], rows[u].classes, IsPython(u))
        BY <1>2, <3>1 DEF ClassInv, Alive
      <3>3. Mild(rows[u].classes, rows'[u].classes)
        BY <2>1 DEF Gentle
      <3> QED
        BY <3>1, <3>2, <3>3, MildAgrees
    <2>2. CASE u = t /\ e = d
      <3>1. wk'[e][u] = w
        BY <1>0, <2>2 DEF SetWorker
      <3> QED
        BY <1>2, <2>2, <3>1 DEF Alive
    <2>3. CASE u = t /\ e # d
      <3>1. wk'[e][u] = wk[e][u]
        BY <1>0, <2>3 DEF SetWorker
      <3>2. Alive(e, t)
        BY <1>2, <2>3, <3>1 DEF Alive
      <3> QED
        BY <2>3, <3>2 DEF ProcessInv, OneWorkerPerTask
    <2> QED
      BY <2>1, <2>2, <2>3
  <1>3. \A e \in Daemons, u \in Tasks :
           Alive(e, u)' => AgreesWith(wk[e][u], rows[u].classes, IsPython(u))'
    BY <1>2 DEF IsPython, AgreesWith
  <1> QED
    BY <1>1, <1>3 DEF ClassInv

-----------------------------------------------------------------------------
(* Each group of actions keeps ClassInv and the finished classes.           *)

LEMMA RequestKeepsClasses ==
  ASSUME NoForce, TypeInv, ClassInv, Request
  PROVE  ClassInv' /\ KeepsFinished
  <1>0. rows \in [Tasks -> Row] /\ \A t \in Tasks : rows[t] \in Row
    BY DEF TypeInv, TypeOK
  <1>1. \A e \in Daemons, u \in Tasks : Alive(e, u)' => Alive(e, u) /\ wk'[e][u] = wk[e][u]
    <2>1. RequestOnly
      BY DEF Request, CreateTask, StartTask, StopTask, CancelTask, UnblockTask, ResumeTask,
             StopTaskStatus, PreemptStop, Command
    <2> QED
      BY <2>1 DEF RequestOnly, Alive
  <1> SUFFICES \A u \in Tasks : Gentle(u)
    BY <1>1, GentleStep
  <1>2. ASSUME NEW t \in Tasks, NEW r, SetRow(t, r), Mild(rows[t].classes, r.classes),
               r.status \in {rows[t].status} \cup (Statuses \ {"COMPLETED"})
        PROVE  \A u \in Tasks : Gentle(u)
    BY <1>0, <1>2, SetRowGentle
  <1>3. ASSUME NEW t \in Tasks,
               \/ SetRow(t, Create(rows[t])) \/ SetRow(t, StartRow(rows[t]))
               \/ SetRow(t, RequestStop(rows[t])) \/ SetRow(t, SetStopRequested(rows[t]))
               \/ SetRow(t, UnblockRow(rows[t]))
        PROVE  \A u \in Tasks : Gentle(u)
    <2>1. PICK r \in {Create(rows[t]), StartRow(rows[t]), RequestStop(rows[t]),
                      SetStopRequested(rows[t]), UnblockRow(rows[t])} : SetRow(t, r)
      BY <1>3
    <2>2. r.classes = rows[t].classes
      BY <1>0, <2>1, AssignmentClasses
    <2>3. r.status \in {rows[t].status} \cup (Statuses \ {"COMPLETED"})
      BY <1>0, <2>1 DEF Create, StartRow, RequestStop, SetStopRequested, UnblockRow, Row, Statuses
    <2>4. Mild(rows[t].classes, r.classes)
      BY <2>2 DEF Mild
    <2> QED
      BY <1>2, <2>1, <2>3, <2>4
  <1>4. ASSUME NEW t \in Tasks, CancelTask(t) PROVE \A u \in Tasks : Gentle(u)
    <2>1. SetRow(t, CancelRow(rows[t]))
      BY <1>4 DEF CancelTask
    <2>2. Mild(rows[t].classes, CancelRow(rows[t]).classes) /\ CancelRow(rows[t]).status = "CANCELLED"
      BY <1>0, CancelRowClasses
    <2> QED
      BY <1>2, <2>1, <2>2 DEF Statuses, TerminalStatuses
  <1>5. ASSUME NEW t \in Tasks, NEW op \in DOMAIN ForceFlags, ResumeTask(t, op)
        PROVE  \A u \in Tasks : Gentle(u)
    <2>1. ForceFlags[op] = "none"
      BY <1>5 DEF ResumeTask, Command, ForceFlags, NoForce
    <2>2. SetRow(t, ResumeRow(rows[t], "none"))
      BY <1>5, <2>1 DEF ResumeTask
    <2>3. /\ Mild(rows[t].classes, ResumeRow(rows[t], "none").classes)
          /\ ResumeRow(rows[t], "none").status = "QUEUED"
      BY <1>0, ResumeRowClasses
    <2> QED
      BY <1>2, <2>2, <2>3 DEF Statuses
  <1> QED
    BY <1>3, <1>4, <1>5
    DEF Request, CreateTask, StartTask, StopTask, UnblockTask, StopTaskStatus, PreemptStop

LEMMA DaemonKeepsClasses ==
  ASSUME TypeInv, ClassInv, NEW d \in Daemons,
         \/ StartDaemon(d) \/ DaemonStep(d) \/ DaemonEnds(d) \/ HeartbeatExpires(d)
         \/ \E t \in Tasks : BackoffElapses(d, t)
  PROVE  ClassInv' /\ KeepsFinished
  <1> DEFINE Workers == \A e \in Daemons, u \in Tasks :
                Alive(e, u)' => \/ Alive(e, u) /\ wk'[e][u] = wk[e][u]
                               \/ FreshWorker(wk'[e][u], IsPython(u))
             Rows == \A u \in Tasks : Gentle(u)
  <1>0. rows \in [Tasks -> Row] /\ \A t \in Tasks : rows[t] \in Row
    BY DEF TypeInv, TypeOK
  <1>w. wk \in [Daemons -> [Tasks -> SyncingWorker]]
    BY DEF TypeInv
  <1> SUFFICES Workers /\ Rows
    BY GentleStep
  <1>a. UNCHANGED rows => Rows
    BY DEF Gentle, Mild
  <1>b. UNCHANGED wk => Workers
    BY DEF Alive
  <1>c. ASSUME NEW t \in Tasks, NEW count, Spawn(d, t, count) PROVE Workers
    BY <1>c, <1>w DEF Spawn, Alive, FreshWorker, NoWorker
  <1>d. ASSUME NEW t \in Tasks, NEW r, SetRow(t, r), Mild(rows[t].classes, r.classes),
               r.status \in {rows[t].status} \cup (Statuses \ {"COMPLETED"})
        PROVE  Rows
    BY <1>0, <1>d, SetRowGentle
  <1>e. \A t \in Tasks : Settle(t, MarkFailed(rows[t], "class_fail_continue")) => Rows
    BY <1>0, FailureGentle DEF ErrorClasses, Policies
  <1>f. ASSUME \A t \in Tasks : rows'[t] \in {rows[t], RequeueRow(rows[t])}
        PROVE  Rows
    <2>1. \A t \in Tasks : /\ Mild(rows[t].classes, RequeueRow(rows[t]).classes)
                           /\ RequeueRow(rows[t]).status = "QUEUED"
      BY <1>0, RequeueRowClasses
    <2> QED
      BY <1>f, <2>1 DEF Gentle, Mild
  <1>1. CASE StartDaemon(d) \/ ReapDone(d) \/ PromoteDone(d) \/ ScanProcesses(d)
             \/ AcquireHeartbeat(d) \/ AcquireDone(d) \/ HeartbeatExpires(d) \/ Shutdown(d)
             \/ \E t \in Tasks : BackoffElapses(d, t)
    BY <1>1, <1>a, <1>b
    DEF StartDaemon, ReapDone, PromoteDone, ScanProcesses, AcquireHeartbeat, AcquireDone,
        HeartbeatExpires, Shutdown, BackoffElapses
  <1>2. CASE RequeueOrphans(d)
    <2>1. Rows
      BY <1>2, <1>f DEF RequeueOrphans
    <2> QED
      BY <1>2, <1>b, <2>1 DEF RequeueOrphans
  <1>3. ASSUME NEW t \in Tasks, ReapFinished(d, t) PROVE Workers /\ Rows
    <2>1. Workers
      BY <1>3, <1>w DEF ReapFinished, Alive, NoWorker, LivePCs
    <2>2. CASE UNCHANGED rows
      BY <2>1, <2>2, <1>a
    <2>3. CASE SetRow(t, RetryRow(rows[t]))
      <3>1. RetryRow(rows[t]).status = "QUEUED"
        BY <1>0 DEF RetryRow, Row
      <3>2. Mild(rows[t].classes, RetryRow(rows[t]).classes)
        BY <1>0, AssignmentClasses DEF Mild
      <3> QED
        BY <2>1, <2>3, <3>1, <3>2, <1>d DEF Statuses
    <2>4. CASE \/ Settle(t, MarkBudgetExceeded(rows[t], Policy(t)))
               \/ Settle(t, MarkFailed(rows[t], Policy(t)))
      <3>1. Policy(t) \in ErrorClasses
        BY <1>0 DEF Policy, Row, ErrorClasses, Policies
      <3> QED
        BY <1>0, <2>1, <2>4, <3>1, FailureGentle
    <2> QED
      BY <1>3, <2>2, <2>3, <2>4 DEF ReapFinished, ReapFailure
  <1>4. ASSUME NEW t \in Tasks, PromoteRetry(d, t) \/ Launch(d, t) PROVE Workers /\ Rows
    BY <1>4, <1>a, <1>c DEF PromoteRetry, Launch
  <1>5. ASSUME NEW t \in Tasks, PromoteRejected(d, t) \/ LaunchRejected(d, t) PROVE Workers /\ Rows
    BY <1>5, <1>b, <1>e DEF PromoteRejected, LaunchRejected
  <1>6. ASSUME NEW t \in Tasks, AcquireNext(d, t) PROVE Workers /\ Rows
    <2>1. AcquireRow(rows[t]).status = "RUNNING"
      BY <1>0 DEF AcquireRow, Row
    <2>2. Mild(rows[t].classes, AcquireRow(rows[t]).classes)
      BY <1>0, AssignmentClasses DEF Mild
    <2>3. Rows
      BY <1>6, <2>1, <2>2, <1>d DEF AcquireNext, Statuses
    <2> QED
      BY <1>6, <2>3, <1>b DEF AcquireNext
  <1>7. CASE ForceExit(d)
    <2>1. Rows
      BY <1>7, <1>f DEF ForceExit
    <2>2. Workers
      BY <1>7, <1>w DEF ForceExit, Alive, NoWorker, LivePCs
    <2> QED
      BY <2>1, <2>2
  <1>8. CASE Crash(d)
    <2>1. Workers
      BY <1>8, <1>w DEF Crash, Alive, NoWorker, LivePCs
    <2> QED
      BY <1>8, <1>a, <2>1 DEF Crash
  <1> QED
    BY <1>1, <1>2, <1>3, <1>4, <1>5, <1>6, <1>7, <1>8 DEF DaemonStep, DaemonEnds

\* A class is blocked before the task is failed, once or twice.
BlockedRows(r, c, err) ==
    LET failed == MarkFailed(BlockClass(r, c), err)
    IN  {failed, MarkFailed(failed, err), MarkBudgetExceeded(failed, err)}

LEMMA BlockedFailure ==
  ASSUME NEW r \in Row, NEW c \in Classes \cup {None}, NEW err \in ErrorClasses
  PROVE  \A q \in BlockedRows(r, c, err) :
            /\ q \in Row
            /\ q.status \in {"FAILED", "POISONED", "BUDGET_EXCEEDED"}
            /\ q.classes = [r.classes EXCEPT ![c] = "BLOCKED"]
            /\ q.controls = r.controls
            /\ q.err = err
  <1>1. /\ BlockClass(r, c) \in Row
        /\ BlockClass(r, c).classes = [r.classes EXCEPT ![c] = "BLOCKED"]
        /\ BlockClass(r, c).controls = r.controls
    BY ClassUpdateTypes DEF BlockClass, Row
  <1> DEFINE failed == MarkFailed(BlockClass(r, c), err)
  <1>2. /\ failed \in Row
        /\ failed.status \in {"FAILED", "POISONED"}
        /\ failed.classes = BlockClass(r, c).classes
        /\ failed.controls = BlockClass(r, c).controls
        /\ failed.err = err
    BY <1>1, MarkFailedType, FailureClasses
  <1> HIDE DEF failed
  <1>3. /\ MarkFailed(failed, err) \in Row /\ MarkBudgetExceeded(failed, err) \in Row
        /\ MarkFailed(failed, err).status \in {"FAILED", "POISONED"}
        /\ MarkFailed(failed, err).classes = failed.classes
        /\ MarkFailed(failed, err).controls = failed.controls
        /\ MarkFailed(failed, err).err = err
        /\ MarkBudgetExceeded(failed, err).status = "BUDGET_EXCEEDED"
        /\ MarkBudgetExceeded(failed, err).classes = failed.classes
        /\ MarkBudgetExceeded(failed, err).controls = failed.controls
        /\ MarkBudgetExceeded(failed, err).err = err
    BY <1>2, MarkFailedType, MarkBudgetExceededType, FailureClasses
  <1>4. BlockedRows(r, c, err) = {failed, MarkFailed(failed, err), MarkBudgetExceeded(failed, err)}
    BY DEF failed, BlockedRows
  <1> QED
    BY <1>1, <1>2, <1>3, <1>4

\* A worker that ends, in one of the ways it may.
LEMMA ExitIsFresh ==
  ASSUME wk \in [Daemons -> [Tasks -> SyncingWorker]], NEW d \in Daemons, NEW t \in Tasks,
         \/ Exit(d, t, "exit0") \/ Exit(d, t, "exit1")
         \/ \E err : Abort(d, t, err)
  PROVE  /\ \E w : SetWorker(d, t, w) /\ (w.pc \in LivePCs => FreshWorker(w, IsPython(t)))
         /\ \A e \in Daemons, u \in Tasks :
               Alive(e, u)' => \/ Alive(e, u) /\ wk'[e][u] = wk[e][u]
                              \/ FreshWorker(wk'[e][u], IsPython(u))
  <1>1. PICK w : SetWorker(d, t, w) /\ (w.pc \in LivePCs => FreshWorker(w, IsPython(t)))
    <2>1. ASSUME NEW code \in {"exit0", "exit1"}, Exit(d, t, code)
          PROVE  \E w : SetWorker(d, t, w) /\ w.pc \notin LivePCs
      BY <2>1 DEF Exit, NoWorker, LivePCs
    <2>2. ASSUME NEW err, Abort(d, t, err), ~IsPython(t)
          PROVE  \E w : SetWorker(d, t, w) /\ FreshWorker(w, IsPython(t))
      <3>1. FreshWorker([NoWorker EXCEPT !.pc = "final", !.fin = err], IsPython(t))
        BY <2>2 DEF FreshWorker, NoWorker
      <3> QED
        BY <2>2, <3>1 DEF Abort
    <2> QED
      BY <2>1, <2>2 DEF Abort
  <1>2. wk'[d][t] = w /\ \A e \in Daemons, u \in Tasks : <<e, u>> # <<d, t>> => wk'[e][u] = wk[e][u]
    BY <1>1 DEF SetWorker
  <1> QED
    BY <1>1, <1>2 DEF Alive

LEMMA WorkerKeepsClasses ==
  ASSUME TypeInv, ProcessInv, ClassInv, NEW d \in Daemons, NEW t \in Tasks,
         WorkerStep(d, t) \/ WorkerFault(d, t)
  PROVE  ClassInv' /\ KeepsFinished
  <1> DEFINE k == rows[t].classes
             w == wk[d][t]
             Rest == \A u \in Tasks \ {t} : Gentle(u)
             Goal == ClassInv' /\ KeepsFinished
  <1>0. /\ rows \in [Tasks -> Row] /\ rows[t] \in Row
        /\ wk \in [Daemons -> [Tasks -> SyncingWorker]] /\ w \in SyncingWorker
    BY DEF TypeInv, TypeOK
  <1>r. k \in [Classes -> ClassStatuses]
    BY <1>0 DEF Row
  <1>t. w.res \in [Classes -> Results \cup {"none", "skip"}]
    BY <1>0 DEF SyncingWorker, Worker
  <1>i. Alive(d, t) /\ AgreesWith(w, k, IsPython(t))
    BY WorkerIsAlive DEF ClassInv
  <1>c. ErrorKinds \cup StopKinds \cup {"class_fail_continue", "budget_abort"} \subseteq ErrorClasses
    BY ConstantsAssumption DEF ErrorClasses, Policies
  <1>a. UNCHANGED rows => \A u \in Tasks : Gentle(u)
    BY DEF Gentle, Mild
  <1>b. UNCHANGED rows => KeepsFinished
    BY DEF KeepsFinished
  <1>p. rows[t].status = "COMPLETED" => \A c \in Classes : k[c] \in {"PASS", "REVIEWED"}
    BY DEF ClassInv, CompletedMeansPassed
  <1>f. ASSUME Rest, Mild(k, rows'[t].classes) PROVE KeepsFinished
    BY <1>f, MildKeepsFinished DEF MildRows, Gentle
  <1>s. ASSUME NEW v, SetWorker(d, t, v), UNCHANGED rows, v.pc \in LivePCs => AgreesWith(v, k, IsPython(t))
        PROVE  Goal
    <2>1. Rest /\ rows'[t].classes = k /\ rows'[t].status = rows[t].status
      BY <1>s, <1>a
    <2>2. ClassInv'
      BY <1>s, <1>i, <1>p, <2>1, OwnStep
    <2> QED
      BY <1>s, <1>b, <2>2
  <1>e. ASSUME \A u \in Tasks : Gentle(u),
               \/ Exit(d, t, "exit0") \/ Exit(d, t, "exit1") \/ \E err : Abort(d, t, err)
        PROVE  Goal
    BY <1>0, <1>e, ExitIsFresh, GentleStep
  <1>g. ASSUME NEW err \in ErrorClasses, Unhandled(d, t, err) PROVE Goal
    <2>1. \A u \in Tasks : Gentle(u)
      BY <1>0, <1>a, <1>g, FailureGentle DEF Unhandled
    <2> QED
      BY <1>e, <1>g, <2>1 DEF Unhandled
  \* A class that was not judged yet is blocked.
  <1>h. ASSUME NEW c \in Classes, k[c] \notin Judged, NEW err \in ErrorClasses,
               NEW q, q \in BlockedRows(rows[t], c, err), Settle(t, q), Abort(d, t, err)
        PROVE  Goal
    <2>1. /\ q \in Row
          /\ q.status \in {"FAILED", "POISONED", "BUDGET_EXCEEDED"}
          /\ q.classes = [k EXCEPT ![c] = "BLOCKED"]
      <3>1. rows[t] \in Row /\ q \in BlockedRows(rows[t], c, err)
        BY <1>0, <1>h
      <3> QED
        BY <3>1, BlockedFailure
    <2>2. Rest /\ rows'[t] = q
      <3>1. q.status # "STOPPED"
        BY <2>1
      <3> QED
        BY <1>0, <1>h, <2>1, <3>1, SettleGentle, SettleRows
    <2>3. ClassInv'
      <3>1. PICK v : SetWorker(d, t, v) /\ (v.pc \in LivePCs => FreshWorker(v, IsPython(t)))
        BY <1>0, <1>h, ExitIsFresh
      <3>2. v.pc \in LivePCs => AgreesWith(v, rows'[t].classes, IsPython(t))
        BY <3>1, FreshAgrees
      <3>3. rows'[t].status # "COMPLETED"
        BY <2>1, <2>2
      <3> QED
        BY <1>i, <2>2, <3>1, <3>2, <3>3, OwnStep
    <2>4. KeepsFinished
      <3>1. ASSUME NEW u \in Tasks \ {t}, NEW b \in Classes
            PROVE  /\ rows[u].classes[b] \in TerminalClass => rows'[u].classes[b] = rows[u].classes[b]
        BY <2>2 DEF Gentle, Mild, UnfinishedClass, TerminalClass
      <3>2. ASSUME NEW b \in Classes
            PROVE  /\ k[b] \in TerminalClass => rows'[t].classes[b] \in TerminalClass
                   /\ k[b] \in {"PASS", "BLOCKED"} => rows'[t].classes[b] = k[b]
        BY <1>h, <1>r, <2>1, <2>2 DEF Judged, TerminalClass
      <3> QED
        BY <3>1, <3>2 DEF KeepsFinished, TerminalClass
    <2> QED
      BY <2>3, <2>4
  <1>1. CASE Boot(d, t)
    <2> DEFINE v == [w EXCEPT !.pc = "run",
                              !.res = [c \in Classes |-> IF IsPython(t) /\ k[c] \in TerminalClass
                                                         THEN "skip" ELSE "none"]]
    <2>1. SetWorker(d, t, v) /\ SetRow(t, MarkRunning(rows[t]))
      BY <1>1 DEF Boot
    <2>2. rows'[t].classes = k /\ rows'[t].status = "RUNNING"
      BY <1>0, <2>1 DEF SetRow, MarkRunning, Row
    <2>3. Rest
      BY <1>0, <2>1, SetRowGentle
    <2>4. AgreesWith(v, k, IsPython(t))
      BY <1>0 DEF AgreesWith, SyncingWorker, Worker, TerminalClass, Judged
    <2>5. ClassInv'
      <3> HIDE DEF v
      <3> QED
        BY <1>i, <2>1, <2>2, <2>3, <2>4, OwnStep
    <2>6. Mild(k, rows'[t].classes)
      BY <2>2 DEF Mild
    <2> QED
      BY <1>f, <2>3, <2>5, <2>6
  <1>2. CASE ObserveStop(d, t)
    <2>1. PICK reason \in StopKinds : SetRow(t, MarkStopped(rows[t], reason))
      BY <1>2 DEF ObserveStop
    <2>2. /\ MarkStopped(rows[t], reason).status = "STOPPED"
          /\ MarkStopped(rows[t], reason).classes = k
      BY <1>0 DEF MarkStopped, Row
    <2>3. \A u \in Tasks : Gentle(u)
      BY <1>0, <2>1, <2>2, SetRowGentle DEF Statuses, Mild
    <2> QED
      BY <1>2, <1>e, <2>3 DEF ObserveStop
  <1>3. CASE PauseTurn(d, t)
    BY <1>3, <1>c, <1>g DEF PauseTurn
  <1>4. CASE Deliver(d, t)
    <2>1. PICK result \in Results : SetWorker(d, t, [w EXCEPT !.pc = "push", !.res[w.cls] = result])
      BY <1>4 DEF Deliver
    <2> DEFINE v == [w EXCEPT !.pc = "push", !.res[w.cls] = result]
    <2>2. w.cls \in Classes /\ k[w.cls] \notin Judged
      BY <1>4, <1>i DEF Deliver, WorkerAt, AgreesWith
    <2>3. v.pc = "push" /\ v.res = [w.res EXCEPT ![w.cls] = result]
      BY <1>0 DEF SyncingWorker, Worker
    <2>4. AgreesWith(v, k, IsPython(t))
      <3> HIDE DEF v
      <3>1. \A c \in Classes : v.res[c] = IF c = w.cls THEN result ELSE w.res[c]
        BY <1>t, <2>3
      <3>2. result # "none" /\ w.pc = "turn"
        BY <1>4, ConstantsAssumption DEF Deliver, WorkerAt
      <3> QED
        BY <1>i, <2>2, <2>3, <3>1, <3>2 DEF AgreesWith
    <2>5. UNCHANGED rows /\ SetWorker(d, t, v)
      BY <1>4, <2>1 DEF Deliver
    <2> HIDE DEF v
    <2> QED
      BY <1>s, <2>4, <2>5
  <1>5. CASE SyncRead(d, t)
    <2> DEFINE v == [w EXCEPT !.pc = IF @ = "push" THEN "sync" ELSE "fsync", !.snap = rows[t].status]
    <2>1. AgreesWith(v, k, IsPython(t))
      <3>1. v.res = w.res /\ v.pc \in {"sync", "fsync"} /\ v.snap = rows[t].status /\ w.pc # "boot"
        BY <1>0, <1>5 DEF SyncingWorker, Worker, SyncRead, WorkerAt
      <3> HIDE DEF v
      <3> QED
        BY <1>i, <1>p, <3>1 DEF AgreesWith
    <2>2. UNCHANGED rows /\ SetWorker(d, t, v)
      BY <1>5 DEF SyncRead
    <2> HIDE DEF v
    <2> QED
      BY <1>s, <2>1, <2>2
  <1>7. CASE FinishRun(d, t)
    <2>1. CASE IsPython(t)
      BY <1>7, <2>1, <1>a, <1>e DEF FinishRun
    <2>2. CASE ~IsPython(t)
      <3> DEFINE v == [w EXCEPT !.pc = "final"]
      <3>1. v.res = w.res /\ v.pc = "final"
        BY <1>0 DEF SyncingWorker, Worker
      <3>2. UNCHANGED rows /\ SetWorker(d, t, v)
        BY <1>7, <2>2 DEF FinishRun
      <3> HIDE DEF v
      <3>3. AgreesWith(v, k, IsPython(t))
        BY <1>i, <2>2, <3>1 DEF AgreesWith
      <3> QED
        BY <1>s, <3>2, <3>3
    <2> QED
      BY <2>1, <2>2
  <1>8. ASSUME NEW c \in Classes, SelectClass(d, t, c) PROVE Goal
    <2> DEFINE v == [w EXCEPT !.pc = "turn", !.cls = c]
    <2>1. SetWorker(d, t, v) /\ SetRow(t, RecordStage(rows[t], c))
      BY <1>8 DEF SelectClass
    <2>2. /\ rows'[t].classes = [k EXCEPT ![c] = IF @ \in TerminalClass THEN @ ELSE "RUNNING"]
          /\ rows'[t].status = rows[t].status
      BY <1>0, <2>1 DEF SetRow, RecordStage, Row
    <2>3. Rest
      BY <1>0, <2>1, SetRowGentle
    <2>4. v.res = w.res /\ v.pc = "turn" /\ v.cls = c
      BY <1>0 DEF SyncingWorker, Worker
    <2>5. k[c] \notin Judged
      BY <1>8, <1>i DEF SelectClass, WorkerAt, Remaining, AgreesWith, Judged, TerminalClass
    <2>6. Mild(k, rows'[t].classes)
      BY <1>r, <2>2 DEF Mild, ClassStatuses, UnfinishedClass
    <2>7. AgreesWith(v, rows'[t].classes, IsPython(t))
      <3> HIDE DEF v
      <3>1. AgreesWith(w, rows'[t].classes, IsPython(t))
        BY <1>i, <2>6, MildAgrees
      <3>2. rows'[t].classes[c] \notin Judged
        BY <1>r, <2>2, <2>5 DEF Judged
      <3>3. w.pc = "run"
        BY <1>8 DEF SelectClass, WorkerAt
      <3> QED
        BY <2>4, <3>1, <3>2, <3>3 DEF AgreesWith
    <2>8. rows'[t].status = "COMPLETED" => \A b \in Classes : rows'[t].classes[b] \in {"PASS", "REVIEWED"}
      BY <1>p, <2>2, <2>6 DEF Mild, UnfinishedClass
    <2>9. ClassInv'
      <3> HIDE DEF v
      <3> QED
        BY <1>i, <2>1, <2>3, <2>7, <2>8, OwnStep
    <2> QED
      BY <1>f, <2>3, <2>6, <2>9
  <1>9. CASE PipelineError(d, t)
    BY <1>9, <1>c, <1>g DEF PipelineError
  <1>10. CASE StopEarly(d, t)
    <2>1. CASE IsPython(t)
      BY <1>10, <2>1, <1>a, <1>e DEF StopEarly
    <2>2. CASE ~IsPython(t)
      <3>1. PICK err \in ErrorKinds : SetWorker(d, t, [w EXCEPT !.pc = "final", !.fin = err, !.cls = None])
        BY <1>10, <2>2 DEF StopEarly
      <3> DEFINE v == [w EXCEPT !.pc = "final", !.fin = err, !.cls = None]
      <3>2. v.res = w.res /\ v.pc = "final"
        BY <1>0 DEF SyncingWorker, Worker
      <3>3. UNCHANGED rows /\ SetWorker(d, t, v)
        BY <1>10, <3>1 DEF StopEarly
      <3> HIDE DEF v
      <3>4. AgreesWith(v, k, IsPython(t))
        BY <1>i, <2>2, <3>2 DEF AgreesWith
      <3> QED
        BY <1>s, <3>3, <3>4
    <2> QED
      BY <2>1, <2>2
  <1>11. CASE UnsafeDiff(d, t)
    <2>1. w.cls \in Classes /\ k[w.cls] \notin Judged
      BY <1>11, <1>i DEF UnsafeDiff, WorkerAt, AgreesWith
    <2> QED
      BY <1>11, <1>c, <1>h, <2>1 DEF UnsafeDiff, BlockedRows
  <1>12. CASE CurrencyCap(d, t)
    <2>1. \A u \in Tasks : Gentle(u)
      BY <1>0, <1>c, <1>12, FailureGentle DEF CurrencyCap
    <2> QED
      BY <1>12, <1>e, <2>1 DEF CurrencyCap
  <1>13. CASE TurnCap(d, t)
    <2>1. w.cls \in Classes /\ k[w.cls] \notin Judged
      BY <1>13, <1>i DEF TurnCap, WorkerAt, AgreesWith
    <2> QED
      BY <1>13, <1>c, <1>h, <2>1 DEF TurnCap, BlockedRows
  <1>14. CASE WorkerDies(d, t)
    BY <1>14, <1>a, <1>e DEF WorkerDies
  <1>15. ASSUME NEW c \in Classes, UnsafeWorkspace(d, t, c) PROVE Goal
    <2>1. k[c] \notin Judged
      BY <1>15 DEF UnsafeWorkspace, Remaining, Judged, TerminalClass
    <2> QED
      BY <1>15, <1>c, <1>h, <2>1 DEF UnsafeWorkspace, BlockedRows
  <1>6. CASE SyncWrite(d, t)
    <2> DEFINE l == SyncClasses(rows[t], w.res)
               status == SyncStatus(l, w.snap, w.fin)
    <2>0. /\ w.pc \in {"sync", "fsync"}
          /\ w.snap \in Statuses \cup {NotCreated} /\ w.fin \in ErrorClasses
      BY <1>6, <1>0 DEF SyncWrite, WorkerAt, SyncingWorker, Worker
    \* What the worker has judged itself is what the rows say.
    <2>1. \A c \in Classes : l[c] = IF w.res[c] \notin TerminalClass \/ k[c] = "BLOCKED"
                                    THEN k[c] ELSE w.res[c]
      BY DEF SyncClasses
    <2>2. \A c \in Classes : /\ k[c] \in TerminalClass => l[c] \in TerminalClass
                             /\ k[c] \in Judged => l[c] = k[c]
      BY <1>i, <2>1 DEF AgreesWith, Judged, TerminalClass
    <2>3. status = "COMPLETED" => \A c \in Classes : l[c] \in {"PASS", "REVIEWED"}
      <3>1. w.snap = "COMPLETED" => \A c \in Classes : l[c] \in {"PASS", "REVIEWED"}
        BY <1>i, <2>0, <2>2 DEF AgreesWith, Judged
      <3> HIDE DEF l
      <3> QED
        BY <3>1 DEF SyncStatus
    <2>4. Rest /\ rows'[t].classes = l /\ rows'[t].status = status
      <3>1. PICK err \in SyncErrors(l, status, w.fin) \cap (ErrorKinds \cup {"none", w.fin}) :
               LET r == SyncRow(rows[t], w.res, w.snap, w.fin, err)
               IN  IF status \in SyncTerminal THEN Settle(t, r) ELSE SetRow(t, r)
        BY <1>6 DEF SyncWrite
      <3> DEFINE r == SyncRow(rows[t], w.res, w.snap, w.fin, err)
      <3>2. err \in ErrorClasses
        BY <3>1, <1>c, <2>0 DEF ErrorClasses
      <3>3. r \in Row
        BY <3>2, <2>0, <1>0, SyncRowType
      <3>4. r.classes = l /\ r.status = status
        BY <1>0 DEF SyncRow, CountFailure, Row
      <3>5. CASE status \in SyncTerminal
        <4>1. Settle(t, r) /\ r.status # "STOPPED"
          BY <3>1, <3>4, <3>5 DEF SyncTerminal
        <4> HIDE DEF r, l, status
        <4> QED
          BY <1>0, <3>3, <3>4, <4>1, SettleGentle, SettleRows
      <3>6. CASE status \notin SyncTerminal
        <4>1. SetRow(t, r)
          BY <3>1, <3>6
        <4> HIDE DEF r, l, status
        <4> QED
          BY <1>0, <3>4, <4>1, SetRowGentle DEF SetRow
      <3> QED
        BY <3>5, <3>6
    <2>5. ClassInv'
      <3>1. CASE w.pc = "sync"
        <4> DEFINE v == [w EXCEPT !.pc = "run", !.cls = None, !.snap = "none"]
        <4>1. SetWorker(d, t, v)
          BY <1>6, <3>1 DEF SyncWrite
        <4>2. v.res = w.res /\ v.pc = "run"
          BY <1>0 DEF SyncingWorker, Worker
        <4> HIDE DEF v, l, status
        <4>3. AgreesWith(v, l, IsPython(t))
          BY <1>i, <2>0, <2>1, <4>2 DEF AgreesWith, Judged, TerminalClass
        <4> QED
          BY <1>i, <2>3, <2>4, <4>1, <4>3, OwnStep
      <3>2. CASE w.pc # "sync"
        <4>1. PICK v : SetWorker(d, t, v) /\ (v.pc \in LivePCs => FreshWorker(v, IsPython(t)))
          BY <1>6, <1>0, <3>2, ExitIsFresh DEF SyncWrite
        <4>2. v.pc \in LivePCs => AgreesWith(v, rows'[t].classes, IsPython(t))
          BY <4>1, FreshAgrees
        <4> HIDE DEF l, status
        <4> QED
          BY <1>i, <2>3, <2>4, <4>1, <4>2, OwnStep
      <3> QED
        BY <3>1, <3>2
    <2>6. KeepsFinished
      <3>1. ASSUME NEW u \in Tasks \ {t}, NEW b \in Classes
            PROVE  rows[u].classes[b] \in TerminalClass => rows'[u].classes[b] = rows[u].classes[b]
        BY <2>4 DEF Gentle, Mild, UnfinishedClass, TerminalClass
      <3> HIDE DEF l, status
      <3> QED
        BY <2>2, <2>4, <3>1 DEF KeepsFinished, TerminalClass, Judged
    <2> QED
      BY <2>5, <2>6
  <1> QED
    BY <1>1, <1>2, <1>3, <1>4, <1>5, <1>6, <1>7, <1>8, <1>9, <1>10, <1>11, <1>12, <1>13,
       <1>14, <1>15
    DEF WorkerStep, WorkerFault

LEMMA InitClasses == Init => ClassInv
  BY DEF Init, ClassInv, CompletedMeansPassed, Alive, NoWorker, LivePCs, NewRow, NotCreated

LEMMA NextClasses ==
  ASSUME NoForce, TypeInv, ProcessInv, ClassInv, [Next]_vars
  PROVE  ClassInv' /\ KeepsFinished
  <1>1. CASE UNCHANGED vars
    <2>1. \A e \in Daemons, u \in Tasks : Alive(e, u)' => Alive(e, u) /\ wk'[e][u] = wk[e][u]
      BY <1>1 DEF vars, Alive
    <2>2. \A u \in Tasks : Gentle(u)
      BY <1>1 DEF vars, Gentle, Mild
    <2> QED
      BY <2>1, <2>2, GentleStep
  <1>2. CASE Next
    BY <1>2, RequestKeepsClasses, DaemonKeepsClasses, WorkerKeepsClasses DEF Next
  <1> QED
    BY <1>1, <1>2

\* COMPLETED means passed, for any interleaving of the commands, the daemon and
\* the stale snapshots of sync_results.  (The --force-rerun flags are excluded:
\* with them it does not hold.)
THEOREM CompletedIsPassed ==
  ASSUME Sequential, NoForce
  PROVE  Spec => []CompletedMeansPassed
  <1> DEFINE Inv == TypeInv /\ ProcessInv /\ ClassInv
  <1>1. Init => Inv
    BY InitTypes, InitProcesses, InitClasses
  <1>2. Inv /\ [Next]_vars => Inv'
    BY NextTypes, NextProcesses, NextClasses
  <1>3. Inv => CompletedMeansPassed
    BY DEF ClassInv
  <1> QED
    BY <1>1, <1>2, <1>3, PTL DEF Spec

\* No step of anyone takes back the verdict of a class: not the requeue of an
\* orphan, not a retry, not a stop and a resume, not a second run of the task.
THEOREM WorkIsKept ==
  ASSUME Sequential, NoForce
  PROVE  Spec => FinishedClassKept
  <1> DEFINE Inv == TypeInv /\ ProcessInv /\ ClassInv
  <1>1. Init => Inv
    BY InitTypes, InitProcesses, InitClasses
  <1>2. Inv /\ [Next]_vars => Inv'
    BY NextTypes, NextProcesses, NextClasses
  <1>3. Inv /\ [Next]_vars => [KeepsFinished]_vars
    BY NextClasses
  <1> HIDE DEF Inv
  <1> QED
    BY <1>1, <1>2, <1>3, PTL DEF Spec, FinishedClassKept, KeepsFinished

-----------------------------------------------------------------------------
(* Stops: the bodies of StopNotLost and StoppedWaits for one task.          *)

Obeyed(u) == "stop" \in rows[u].controls \ rows'[u].controls /\ ops' = ops => u \notin LiveTasks'

Waits(t) ==
    /\ rows[t].status = "STOPPED"
    /\ rows'[t].status \notin {"STOPPED", "STOP_REQUESTED"}
    /\ ops' = ops
    => \E u \in UrgentTasks : <<t, u>> \in preempted /\ rows'[u].status \in TerminalStatuses

StopsWell == (\A u \in Tasks : Obeyed(u)) /\ (\A u \in Tasks : ~IsPython(u) => Waits(u))

\* A step that stops no task, and changes processes of tasks that are not
\* stopped only.
LEMMA IdleStep ==
  ASSUME StoppedIsIdle, SnapNotStopped, StoppedExitsWell,
         \A u \in Tasks : rows'[u].status = "STOPPED" => rows[u].status = "STOPPED",
         \A e \in Daemons, u \in Tasks :
            \/ wk'[e][u] = wk[e][u]
            \/ wk'[e][u] = NoWorker
            \/ /\ rows'[u].status # "STOPPED"
               /\ wk'[e][u].pc \in {"sync", "fsync"} => wk'[e][u].snap # "STOPPED",
         \A e \in Daemons, u \in Tasks :
            u \in Launchable(e)' => u \in Launchable(e) \/ rows'[u].status # "STOPPED"
  PROVE  StoppedIsIdle' /\ SnapNotStopped' /\ StoppedExitsWell'
  <1>0. NoWorker.pc = "none"
    BY DEF NoWorker
  <1>1. ASSUME NEW u \in Tasks, rows'[u].status = "STOPPED"
        PROVE  u \notin LiveTasks' /\ \A e \in Daemons : u \notin Launchable(e)'
    <2>1. u \notin LiveTasks /\ \A e \in Daemons : u \notin Launchable(e)
      BY <1>1 DEF StoppedIsIdle
    <2>2. \A e \in Daemons : ~Alive(e, u)'
      BY <1>0, <1>1, <2>1 DEF LiveTasks, Alive, LivePCs
    <2> QED
      BY <1>1, <2>1, <2>2 DEF LiveTasks
  <1>2. StoppedIsIdle'
    BY <1>1 DEF StoppedIsIdle
  <1>3. SnapNotStopped'
    BY <1>0 DEF SnapNotStopped
  <1>4. StoppedExitsWell'
    BY <1>0 DEF StoppedExitsWell, IsPython
  <1> QED
    BY <1>2, <1>3, <1>4

\* Settling t resumes tasks that were stopped for it, and these have no process.
LEMMA SettleStops ==
  ASSUME TypeInv, StopInv, NEW t \in Tasks, NEW r \in Row, r.status \in TerminalStatuses,
         r.controls = rows[t].controls, ~IsPython(t) => rows[t].status # "STOPPED",
         LiveTasks' \subseteq LiveTasks, Settle(t, r)
  PROVE  StopsWell /\ \A u \in Tasks : rows'[u].status = "STOPPED" => rows[u].status = "STOPPED"
  <1>0. rows \in [Tasks -> Row] /\ preempted \subseteq Tasks \X Tasks
    BY DEF TypeInv, TypeOK
  <1>1. r.status # "STOPPED"
    BY DEF TerminalStatuses
  <1>2. rows'[t] = r
    BY <1>0, <1>1, SettleRows
  <1>3. ASSUME NEW u \in Tasks \ {t}
        PROVE  \/ rows'[u] = rows[u]
               \/ /\ <<u, t>> \in preempted /\ rows[u].status = "STOPPED"
                  /\ rows'[u] = ResumeRow(rows[u], "none")
    BY <1>0, <1>1, SettleRows
  <1>4. ASSUME NEW u \in Tasks \ {t}, rows'[u] # rows[u]
        PROVE  /\ t \in UrgentTasks /\ <<u, t>> \in preempted /\ u \notin LiveTasks'
               /\ rows'[u].status # "STOPPED"
    <2>1. <<u, t>> \in preempted /\ rows[u].status = "STOPPED" /\ rows'[u] = ResumeRow(rows[u], "none")
      BY <1>3, <1>4
    <2>2. u \notin LiveTasks'
      BY <2>1 DEF StopInv, StoppedIsIdle
    <2>3. t \in UrgentTasks
      <3>1. <<u, t>>[2] \in UrgentTasks
        BY <2>1 DEF StopInv, UrgentPreempts
      <3> QED
        BY <3>1
    <2>4. rows'[u].status = "QUEUED"
      BY <1>0, <2>1, ResumeRowClasses
    <2> QED
      BY <2>1, <2>2, <2>3, <2>4
  <1>5. ASSUME NEW u \in Tasks PROVE Obeyed(u)
    BY <1>2, <1>4 DEF Obeyed
  <1>6. ASSUME NEW u \in Tasks, ~IsPython(u) PROVE Waits(u)
    BY <1>2, <1>4, <1>6 DEF Waits
  <1>7. ASSUME NEW u \in Tasks PROVE rows'[u].status = "STOPPED" => rows[u].status = "STOPPED"
    BY <1>1, <1>2, <1>4
  <1> QED
    BY <1>5, <1>6, <1>7 DEF StopsWell

LEMMA RequestKeepsStops ==
  ASSUME TypeInv, StopInv, Request
  PROVE  StopInv' /\ StopsWell
  <1>0. /\ rows \in [Tasks -> Row] /\ \A t \in Tasks : rows[t] \in Row
        /\ ops \in Nat /\ MaxOperations \in Nat
    BY ConstantsAssumption DEF TypeInv, TypeOK
  <1>1. RequestOnly
    BY DEF Request, CreateTask, StartTask, StopTask, CancelTask, UnblockTask, ResumeTask,
           StopTaskStatus, PreemptStop, Command
  <1>2. /\ \A e \in Daemons, u \in Tasks : wk'[e][u] = wk[e][u]
        /\ \A e \in Daemons : Launchable(e)' = Launchable(e)
        /\ pool' = pool
    BY <1>1 DEF RequestOnly, daemonVars, Launchable
  <1>3. ASSUME \A u \in Tasks : rows'[u].status = "STOPPED" => rows[u].status = "STOPPED",
               UrgentPreempts'
        PROVE  StopInv'
    <2>1. StoppedIsIdle' /\ SnapNotStopped' /\ StoppedExitsWell'
      BY <1>2, <1>3, IdleStep DEF StopInv
    <2>2. ExitedArePooled'
      BY <1>2 DEF StopInv, ExitedArePooled
    <2> QED
      BY <1>3, <2>1, <2>2 DEF StopInv
  <1>4. ASSUME NEW t \in Tasks, NEW r, SetRow(t, r), r.status # "STOPPED" \/ r.status = rows[t].status
        PROVE  \A u \in Tasks : rows'[u].status = "STOPPED" => rows[u].status = "STOPPED"
    BY <1>0, <1>4 DEF SetRow
  <1>u. UrgentPreempts
    BY DEF StopInv
  \* Commands: the operator is the one who acts.
  <1>5. ASSUME NEW t \in Tasks, NEW r, SetRow(t, r), r.status # "STOPPED" \/ r.status = rows[t].status,
               ops' = ops + 1, UNCHANGED <<preempting, preempted>>,
               stopping' = stopping \/ stopping' = stopping \cup {<<t, None>>}
        PROVE  StopInv' /\ StopsWell
    <2>1. UrgentPreempts'
      BY <1>5, <1>u DEF UrgentPreempts
    <2>2. StopsWell
      BY <1>0, <1>5 DEF StopsWell, Obeyed, Waits
    <2> QED
      BY <1>3, <1>4, <1>5, <2>1, <2>2
  <1>6. ASSUME NEW t \in Tasks, CreateTask(t) PROVE StopInv' /\ StopsWell
    <2>1. SetRow(t, Create(rows[t])) /\ rows[t].status = NotCreated
      BY <1>6 DEF CreateTask
    <2>2. Create(rows[t]).status = "CREATED" /\ Create(rows[t]).controls = rows[t].controls
      BY <1>0 DEF Create, Row
    <2>3. UrgentPreempts'
      BY <1>6, <1>u DEF UrgentPreempts, CreateTask
    <2>4. StopsWell
      BY <1>0, <2>1, <2>2 DEF StopsWell, Obeyed, Waits, SetRow, NotCreated
    <2> QED
      BY <1>3, <1>4, <2>1, <2>2, <2>3, <2>4
  <1>7. ASSUME NEW t \in Tasks, NEW u \in Tasks, PreemptStop(t, u) PROVE StopInv' /\ StopsWell
    <2>1. SetRow(t, RequestStop(rows[t]))
      BY <1>7 DEF PreemptStop
    <2>2. /\ RequestStop(rows[t]).status = rows[t].status
          /\ RequestStop(rows[t]).controls = rows[t].controls \cup {"stop"}
      BY <1>0 DEF RequestStop, Row
    <2>3. UrgentPreempts'
      BY <1>7, <1>u DEF UrgentPreempts, PreemptStop
    <2>4. StopsWell
      BY <1>0, <2>1, <2>2 DEF StopsWell, Obeyed, Waits, SetRow
    <2> QED
      BY <1>3, <1>4, <2>1, <2>2, <2>3, <2>4
  <1>8. ASSUME NEW t \in Tasks, NEW u \in Tasks \cup {None}, StopTaskStatus(t, u)
        PROVE  StopInv' /\ StopsWell
    <2>1. SetRow(t, SetStopRequested(rows[t]))
      BY <1>8 DEF StopTaskStatus
    <2>2. /\ SetStopRequested(rows[t]).status = "STOP_REQUESTED"
          /\ SetStopRequested(rows[t]).controls = rows[t].controls
      BY <1>0 DEF SetStopRequested, Row
    <2>3. UrgentPreempts'
      <3>1. <<t, u>>[2] = u /\ <<t, u>>[2] \in UrgentTasks \cup {None}
        BY <1>8, <1>u DEF UrgentPreempts, StopTaskStatus
      <3> QED
        BY <1>8, <1>u, <3>1 DEF UrgentPreempts, StopTaskStatus
    <2>4. StopsWell
      BY <1>0, <2>1, <2>2 DEF StopsWell, Obeyed, Waits, SetRow
    <2> QED
      BY <1>3, <1>4, <2>1, <2>2, <2>3, <2>4
  <1>9. ASSUME NEW t \in Tasks,
               \/ StartTask(t) \/ StopTask(t) \/ CancelTask(t) \/ UnblockTask(t)
               \/ \E op \in DOMAIN ForceFlags : ResumeTask(t, op)
        PROVE  StopInv' /\ StopsWell
    <2>1. /\ ops' = ops + 1 /\ UNCHANGED <<preempting, preempted>>
          /\ stopping' = stopping \/ stopping' = stopping \cup {<<t, None>>}
      BY <1>9 DEF StartTask, StopTask, CancelTask, UnblockTask, ResumeTask, Command
    <2>2. CASE StartTask(t)
      <3>1. SetRow(t, StartRow(rows[t])) /\ StartRow(rows[t]).status = "QUEUED"
        BY <1>0, <2>2 DEF StartTask, StartRow, Row
      <3> QED
        BY <1>5, <2>1, <3>1
    <2>3. CASE StopTask(t)
      <3>1. SetRow(t, RequestStop(rows[t])) /\ RequestStop(rows[t]).status = rows[t].status
        BY <1>0, <2>3 DEF StopTask, RequestStop, Row
      <3> QED
        BY <1>5, <2>1, <3>1
    <2>4. CASE CancelTask(t)
      <3>1. SetRow(t, CancelRow(rows[t])) /\ CancelRow(rows[t]).status = "CANCELLED"
        BY <1>0, <2>4, CancelRowClasses DEF CancelTask
      <3> QED
        BY <1>5, <2>1, <3>1
    <2>5. CASE UnblockTask(t)
      <3>1. SetRow(t, UnblockRow(rows[t])) /\ UnblockRow(rows[t]).status = "QUEUED"
        BY <1>0, <2>5 DEF UnblockTask, UnblockRow, Row
      <3> QED
        BY <1>5, <2>1, <3>1
    <2>6. ASSUME NEW op, ResumeTask(t, op) PROVE StopInv' /\ StopsWell
      <3>1. SetRow(t, ResumeRow(rows[t], ForceFlags[op]))
        BY <2>6 DEF ResumeTask
      <3>2. \A force : ResumeRow(rows[t], force).status = "QUEUED"
        BY <1>0 DEF ResumeRow, SetClasses, Row
      <3> QED
        BY <1>5, <2>1, <3>1, <3>2
    <2> QED
      BY <1>9, <2>2, <2>3, <2>4, <2>5, <2>6
  <1> QED
    BY <1>6, <1>7, <1>8, <1>9 DEF Request

LEMMA DaemonKeepsStops ==
  ASSUME TypeInv, ProcessInv, StopInv, NEW d \in Daemons,
         \/ StartDaemon(d) \/ DaemonStep(d) \/ DaemonEnds(d) \/ HeartbeatExpires(d)
         \/ \E t \in Tasks : BackoffElapses(d, t)
  PROVE  StopInv' /\ StopsWell
  <1> DEFINE NoneStopped == \A u \in Tasks : rows'[u].status = "STOPPED" => rows[u].status = "STOPPED"
             Workers == \A e \in Daemons, u \in Tasks :
                \/ wk'[e][u] = wk[e][u]
                \/ wk'[e][u] = NoWorker
                \/ /\ rows'[u].status # "STOPPED"
                   /\ wk'[e][u].pc \in {"sync", "fsync"} => wk'[e][u].snap # "STOPPED"
             Queues == \A e \in Daemons, u \in Tasks :
                u \in Launchable(e)' => u \in Launchable(e) \/ rows'[u].status # "STOPPED"
             Goal == NoneStopped /\ Workers /\ Queues /\ ExitedArePooled' /\ StopsWell
  <1>0. rows \in [Tasks -> Row] /\ \A t \in Tasks : rows[t] \in Row
    BY DEF TypeInv, TypeOK
  <1>w. wk \in [Daemons -> [Tasks -> SyncingWorker]]
    BY DEF TypeInv
  <1>q. UNCHANGED requestVars
    BY DEF StartDaemon, DaemonStep, DaemonEnds, HeartbeatExpires, BackoffElapses, ReapDone,
           PromoteDone, ScanProcesses, RequeueOrphans, AcquireHeartbeat, AcquireDone, ReapFinished,
           PromoteRetry, PromoteRejected, AcquireNext, Launch, LaunchRejected, Shutdown, ForceExit,
           Crash
  <1>s. SUFFICES Goal
    <2>1. StoppedIsIdle' /\ SnapNotStopped' /\ StoppedExitsWell'
      BY <1>s, IdleStep DEF StopInv
    <2>2. UrgentPreempts'
      BY <1>q DEF StopInv, UrgentPreempts, requestVars
    <2> QED
      BY <1>s, <2>1, <2>2 DEF StopInv
  <1>p. /\ StoppedIsIdle /\ ExitedArePooled /\ StoppedExitsWell
        /\ RetriesWait /\ PickedWaits
    BY DEF StopInv, ProcessInv
  <1>a. UNCHANGED rows => NoneStopped /\ StopsWell
    BY DEF StopsWell, Obeyed, Waits
  <1>b. UNCHANGED wk => Workers
    OBVIOUS
  <1>c. UNCHANGED <<wk, pool>> => ExitedArePooled'
    BY <1>p DEF ExitedArePooled
  <1>d. UNCHANGED <<pending, picked>> => Queues
    BY DEF Launchable
  \* A launch: the task is not stopped.
  <1>e. ASSUME NEW t \in Tasks, NEW count, t \in Launchable(d), UNCHANGED rows, Spawn(d, t, count)
        PROVE  Workers /\ ExitedArePooled'
    <2>1. rows'[t].status # "STOPPED"
      BY <1>e, <1>p DEF StoppedIsIdle
    <2>2. /\ wk'[d][t] = [NoWorker EXCEPT !.pc = "boot"]
          /\ \A f \in Daemons, u \in Tasks : <<f, u>> # <<d, t>> => wk'[f][u] = wk[f][u]
          /\ pool'[d] = pool[d] \cup {t} /\ \A f \in Daemons \ {d} : pool'[f] = pool[f]
      BY <1>e, <1>w, ProcessTypes DEF Spawn
    <2>3. wk'[d][t].pc = "boot"
      BY <2>2 DEF NoWorker
    <2>4. Workers
      BY <2>1, <2>2, <2>3
    <2>5. ExitedArePooled'
      BY <1>p, <2>2, <2>3 DEF ExitedArePooled
    <2> QED
      BY <2>4, <2>5
  <1>f. ASSUME NEW t \in Tasks, t \in Launchable(d), UNCHANGED wk,
               Settle(t, MarkFailed(rows[t], "class_fail_continue"))
        PROVE  NoneStopped /\ StopsWell
    <2> DEFINE r == MarkFailed(rows[t], "class_fail_continue")
    <2>1. r \in Row /\ r.status \in TerminalStatuses /\ r.controls = rows[t].controls
      BY <1>0, MarkFailedType, FailureClasses DEF ErrorClasses, Policies, TerminalStatuses
    <2>2. rows[t].status # "STOPPED"
      BY <1>f, <1>p DEF StoppedIsIdle
    <2>3. LiveTasks' \subseteq LiveTasks
      BY <1>f, SameProcesses
    <2> HIDE DEF r
    <2>4. Settle(t, r)
      BY <1>f DEF r
    <2> QED
      BY <2>1, <2>2, <2>3, <2>4, SettleStops
  <1>g. ASSUME \A t \in Tasks : rows'[t] # rows[t] =>
                  rows[t].status = "RUNNING" /\ rows'[t] = RequeueRow(rows[t])
        PROVE  NoneStopped /\ StopsWell
    <2>1. \A t \in Tasks : /\ RequeueRow(rows[t]).status = "QUEUED"
                           /\ RequeueRow(rows[t]).controls = rows[t].controls
      BY <1>0, RequeueRowClasses
    <2>2. NoneStopped
      BY <1>g, <2>1
    <2>3. \A u \in Tasks : rows'[u].controls = rows[u].controls
      BY <1>g, <2>1
    <2>4. \A u \in Tasks : Waits(u)
      BY <1>g DEF Waits
    <2> QED
      BY <2>2, <2>3, <2>4 DEF StopsWell, Obeyed
  <1>1. CASE StartDaemon(d) \/ PromoteDone(d) \/ ScanProcesses(d)
             \/ AcquireHeartbeat(d) \/ AcquireDone(d) \/ HeartbeatExpires(d) \/ Shutdown(d)
             \/ \E t \in Tasks : BackoffElapses(d, t)
    <2>1. UNCHANGED <<rows, wk, pool, pending, picked>>
      BY <1>1 DEF StartDaemon, PromoteDone, ScanProcesses, AcquireHeartbeat, AcquireDone,
                  HeartbeatExpires, Shutdown, BackoffElapses
    <2> QED
      BY <2>1, <1>a, <1>b, <1>c, <1>d
  <1>2. CASE ReapDone(d)
    <2>1. UNCHANGED <<rows, wk>>
      BY <1>2 DEF ReapDone
    <2>2. CASE Forget(d)
      <3>1. /\ \A e \in Daemons : Launchable(e)' \subseteq Launchable(e)
            /\ \A e \in Daemons \ {d} : pool'[e] = pool[e]
        BY <2>2, ProcessTypes DEF Forget, Launchable
      <3>2. \A t \in pool[d] : wk[d][t].pc \notin {"exit0", "exit1"}
        BY <1>2 DEF ReapDone
      <3>3. ExitedArePooled'
        BY <1>p, <2>1, <3>1, <3>2 DEF ExitedArePooled
      <3> QED
        BY <2>1, <3>1, <3>3, <1>a, <1>b
    <2>3. CASE ~Forget(d)
      <3>1. UNCHANGED <<pool, pending, picked>>
        BY <1>2, <2>3 DEF ReapDone
      <3> QED
        BY <2>1, <3>1, <1>a, <1>b, <1>c, <1>d
    <2> QED
      BY <2>2, <2>3
  <1>3. CASE RequeueOrphans(d)
    <2>1. NoneStopped /\ StopsWell
      BY <1>3, <1>g DEF RequeueOrphans, Orphaned
    <2> QED
      BY <1>3, <1>b, <1>c, <1>d, <2>1 DEF RequeueOrphans
  \* A stopped Java task left no failed process to reap.
  <1>4. ASSUME NEW t \in Tasks, ReapFinished(d, t) PROVE Goal
    <2>1. /\ wk' = [wk EXCEPT ![d][t] = NoWorker]
          /\ pool' = [pool EXCEPT ![d] = @ \ {t}]
          /\ picked' = picked
      BY <1>4 DEF ReapFinished
    <2>2. Workers
      BY <1>w, <2>1
    <2>3. ExitedArePooled'
      BY <1>p, <1>w, <2>1, ProcessTypes DEF ExitedArePooled, NoWorker
    <2>4. LiveTasks' \subseteq LiveTasks
      BY <1>w, <2>1 DEF LiveTasks, Alive, NoWorker, LivePCs
    <2>5. CASE UNCHANGED <<rows, pending, ready>>
      BY <2>1, <2>2, <2>3, <2>5, <1>a, <1>d
    <2>6. CASE wk[d][t].pc = "exit1" /\ ReapFailure(d, t) /\ Retries(d, t)
      <3>1. SetRow(t, RetryRow(rows[t])) /\ pending' = [pending EXCEPT ![d] = @ \cup {t}]
        BY <2>6 DEF ReapFailure
      <3>2. RetryRow(rows[t]).status = "QUEUED" /\ RetryRow(rows[t]).controls = rows[t].controls
        BY <1>0 DEF RetryRow, Row
      <3>3. rows'[t].status = "QUEUED" /\ \A u \in Tasks \ {t} : rows'[u] = rows[u]
        BY <1>0, <3>1, <3>2 DEF SetRow
      <3>4. NoneStopped /\ Queues
        BY <2>1, <3>1, <3>3, ProcessTypes DEF Launchable
      <3>5. ~IsPython(t) => rows[t].status # "STOPPED"
        BY <1>p, <2>6 DEF StoppedExitsWell
      <3>6. StopsWell
        BY <1>0, <3>1, <3>2, <3>3, <3>5 DEF StopsWell, Obeyed, Waits, SetRow
      <3> QED
        BY <2>2, <2>3, <3>4, <3>6
    <2>7. CASE wk[d][t].pc = "exit1" /\ ReapFailure(d, t) /\ ~Retries(d, t)
      <3>1. PICK r \in {MarkBudgetExceeded(rows[t], Policy(t)), MarkFailed(rows[t], Policy(t))} :
               Settle(t, r)
        BY <2>7 DEF ReapFailure
      <3>2. Policy(t) \in ErrorClasses
        BY <1>0 DEF Policy, Row, ErrorClasses, Policies
      <3>3. r \in Row
        BY <1>0, <3>1, <3>2, MarkFailedType, MarkBudgetExceededType
      <3>4. r.status \in TerminalStatuses /\ r.controls = rows[t].controls
        BY <1>0, <3>1, FailureClasses DEF TerminalStatuses
      <3>5. ~IsPython(t) => rows[t].status # "STOPPED"
        BY <1>p, <2>7 DEF StoppedExitsWell
      <3>6. NoneStopped /\ StopsWell
        BY <2>4, <3>1, <3>3, <3>4, <3>5, SettleStops
      <3>7. UNCHANGED pending
        BY <2>7 DEF ReapFailure
      <3> QED
        BY <2>1, <2>2, <2>3, <3>6, <3>7, <1>d
    <2> QED
      BY <1>4, <2>5, <2>6, <2>7 DEF ReapFinished
  <1>5. ASSUME NEW t \in Tasks, PromoteRetry(d, t) PROVE Goal
    <2>1. t \in Launchable(d)
      BY <1>5, <1>p DEF PromoteRetry, RetriesWait, Launchable
    <2>2. Queues
      BY <1>5, ProcessTypes DEF PromoteRetry, Launchable
    <2> QED
      BY <1>5, <1>a, <1>e, <2>1, <2>2 DEF PromoteRetry
  <1>6. ASSUME NEW t \in Tasks, Launch(d, t) PROVE Goal
    <2>1. t \in Launchable(d)
      BY <1>6 DEF Launch, Launchable
    <2>2. Queues
      BY <1>6, ProcessTypes DEF Launch, Launchable
    <2> QED
      BY <1>6, <1>a, <1>e, <2>1, <2>2 DEF Launch
  <1>7. ASSUME NEW t \in Tasks, PromoteRejected(d, t) PROVE Goal
    <2>1. t \in Launchable(d)
      BY <1>7, <1>p DEF PromoteRejected, RetriesWait, Launchable
    <2>2. Queues
      BY <1>7, ProcessTypes DEF PromoteRejected, Launchable
    <2> QED
      BY <1>7, <1>b, <1>c, <1>f, <2>1, <2>2 DEF PromoteRejected
  <1>8. ASSUME NEW t \in Tasks, LaunchRejected(d, t) PROVE Goal
    <2>1. t \in Launchable(d)
      BY <1>8 DEF LaunchRejected, Launchable
    <2>2. Queues
      BY <1>8, ProcessTypes DEF LaunchRejected, Launchable
    <2> QED
      BY <1>8, <1>b, <1>c, <1>f, <2>1, <2>2 DEF LaunchRejected
  <1>9. ASSUME NEW t \in Tasks, AcquireNext(d, t) PROVE Goal
    <2>1. /\ SetRow(t, AcquireRow(rows[t])) /\ picked' = [picked EXCEPT ![d] = t]
          /\ UNCHANGED <<pool, pending, wk>>
      BY <1>9 DEF AcquireNext
    <2>2. AcquireRow(rows[t]).status = "RUNNING" /\ AcquireRow(rows[t]).controls = rows[t].controls
      BY <1>0 DEF AcquireRow, Row
    <2>3. rows[t].status # "STOPPED"
      BY <1>9 DEF AcquireNext, Runnable, Window, Candidates
    <2>4. NoneStopped /\ StopsWell
      BY <1>0, <2>1, <2>2, <2>3 DEF StopsWell, Obeyed, Waits, SetRow
    <2>5. Queues
      BY <1>0, <2>1, <2>2, ProcessTypes DEF Launchable, SetRow
    <2> QED
      BY <2>1, <2>4, <2>5, <1>b, <1>c
  <1>10. CASE ForceExit(d)
    <2>1. NoneStopped /\ StopsWell
      BY <1>10, <1>g DEF ForceExit
    <2>2. \A e \in Daemons, u \in Tasks :
             /\ wk'[e][u] = wk[e][u] \/ wk'[e][u] = NoWorker
             /\ e = d /\ u \in pool[d] => wk'[e][u] = NoWorker
      BY <1>10, <1>w DEF ForceExit
    <2>3. /\ \A e \in Daemons : Launchable(e)' \subseteq Launchable(e)
          /\ \A e \in Daemons \ {d} : pool'[e] = pool[e]
      BY <1>10, ProcessTypes DEF ForceExit, Forget, Launchable
    <2>4. ExitedArePooled'
      BY <1>p, <2>2, <2>3 DEF ExitedArePooled, NoWorker
    <2> QED
      BY <2>1, <2>2, <2>3, <2>4
  <1>11. CASE Crash(d)
    <2>1. UNCHANGED rows
      BY <1>11 DEF Crash
    <2>2. /\ \A e \in Daemons, u \in Tasks : wk'[e][u] = wk[e][u] \/ wk'[e][u] = NoWorker
          /\ \A u \in Tasks : wk'[d][u].pc \notin {"exit0", "exit1"}
      BY <1>11, <1>w DEF Crash, NoWorker, Alive, LivePCs
    <2>3. /\ \A e \in Daemons : Launchable(e)' \subseteq Launchable(e)
          /\ \A e \in Daemons \ {d} : pool'[e] = pool[e]
      BY <1>11, ProcessTypes DEF Crash, Forget, Launchable
    <2>4. ExitedArePooled'
      BY <1>p, <2>2, <2>3 DEF ExitedArePooled, NoWorker
    <2> QED
      BY <2>1, <2>2, <2>3, <2>4, <1>a
  <1> QED
    BY <1>1, <1>2, <1>3, <1>4, <1>5, <1>6, <1>7, <1>8, <1>9, <1>10, <1>11 DEF DaemonStep, DaemonEnds

\* What a worker step makes of the process: an exit status is left for a running
\* daemon only, and what sync_results has read is the status of the row.
Leaves(d, t, v) ==
    /\ SetWorker(d, t, v)
    /\ v.pc \in {"exit0", "exit1"} => Running(d)
    /\ v.pc \in {"sync", "fsync"} => v.snap = rows[t].status

LEMMA WorkerLeaves ==
  ASSUME TypeInv, NEW d \in Daemons, NEW t \in Tasks, WorkerStep(d, t) \/ WorkerFault(d, t)
  PROVE  \E v : Leaves(d, t, v)
  <1> USE DEF Leaves
  <1> DEFINE Goal == \E v : Leaves(d, t, v)
             w == wk[d][t]
  <1>0. w \in SyncingWorker
    BY DEF TypeInv
  <1>a. \A code : Exit(d, t, code) /\ code \in {"exit0", "exit1"} => Goal
    BY DEF Exit, NoWorker
  <1>b. ASSUME NEW err, Abort(d, t, err) PROVE Goal
    <2>1. [NoWorker EXCEPT !.pc = "final", !.fin = err].pc = "final"
      BY DEF NoWorker
    <2> QED
      BY <1>a, <1>b, <2>1 DEF Abort
  <1>s. ASSUME NEW v, SetWorker(d, t, v), v.pc \in {"run", "turn", "push", "final"} PROVE Goal
    BY <1>s
  <1>1. CASE Boot(d, t)
    <2>1. \A res : [w EXCEPT !.pc = "run", !.res = res].pc = "run"
      BY <1>0 DEF SyncingWorker, Worker
    <2> QED
      BY <1>1, <1>s, <2>1 DEF Boot
  <1>2. CASE ObserveStop(d, t)
    BY <1>2, <1>a DEF ObserveStop
  <1>3. CASE PauseTurn(d, t)
    BY <1>3, <1>b DEF PauseTurn, Unhandled
  <1>4. CASE Deliver(d, t)
    <2>1. PICK result \in Results : SetWorker(d, t, [w EXCEPT !.pc = "push", !.res[w.cls] = result])
      BY <1>4 DEF Deliver
    <2>2. [w EXCEPT !.pc = "push", !.res[w.cls] = result].pc = "push"
      BY <1>0 DEF SyncingWorker, Worker
    <2> QED
      BY <1>s, <2>1, <2>2
  <1>5. CASE SyncRead(d, t)
    <2> DEFINE v == [w EXCEPT !.pc = IF @ = "push" THEN "sync" ELSE "fsync", !.snap = rows[t].status]
    <2>1. v.snap = rows[t].status /\ v.pc \in {"sync", "fsync"}
      BY <1>0 DEF SyncingWorker, Worker
    <2>2. SetWorker(d, t, v)
      BY <1>5 DEF SyncRead
    <2> QED
      BY <2>1, <2>2
  <1>6. CASE SyncWrite(d, t)
    <2>1. [w EXCEPT !.pc = "run", !.cls = None, !.snap = "none"].pc = "run"
      BY <1>0 DEF SyncingWorker, Worker
    <2> QED
      BY <1>6, <1>a, <2>1 DEF SyncWrite
  <1>7. CASE FinishRun(d, t)
    <2>1. [w EXCEPT !.pc = "final"].pc = "final"
      BY <1>0 DEF SyncingWorker, Worker
    <2> QED
      BY <1>7, <1>a, <2>1 DEF FinishRun
  <1>8. CASE \E c \in Classes : SelectClass(d, t, c)
    <2>1. \A c : [w EXCEPT !.pc = "turn", !.cls = c].pc = "turn"
      BY <1>0 DEF SyncingWorker, Worker
    <2> QED
      BY <1>8, <1>s, <2>1 DEF SelectClass
  <1>9. CASE PipelineError(d, t)
    BY <1>9, <1>b DEF PipelineError, Unhandled
  <1>10. CASE StopEarly(d, t)
    <2>1. \A err : [w EXCEPT !.pc = "final", !.fin = err, !.cls = None].pc = "final"
      BY <1>0 DEF SyncingWorker, Worker
    <2> QED
      BY <1>10, <1>a, <2>1 DEF StopEarly
  <1>11. CASE UnsafeDiff(d, t) \/ CurrencyCap(d, t) \/ TurnCap(d, t)
    BY <1>11, <1>b DEF UnsafeDiff, CurrencyCap, TurnCap
  <1>12. CASE WorkerDies(d, t)
    BY <1>12, <1>a DEF WorkerDies
  <1>13. CASE \E c \in Classes : UnsafeWorkspace(d, t, c)
    BY <1>13, <1>b DEF UnsafeWorkspace
  <1> QED
    BY <1>1, <1>2, <1>3, <1>4, <1>5, <1>6, <1>7, <1>8, <1>9, <1>10, <1>11, <1>12, <1>13
    DEF WorkerStep, WorkerFault


\* What a worker step makes of the row, but for the stop it obeys.
WorkerRow(d, t, r) ==
    /\ r \in Row /\ r.controls = rows[t].controls
    /\ \/ r.status \in TerminalStatuses /\ Settle(t, r)
       \/ r.status \in {rows[t].status, "RUNNING"} /\ SetRow(t, r)
       \/ /\ wk[d][t].pc \in {"sync", "fsync"} /\ r.status = wk[d][t].snap
          /\ SetRow(t, r)

LEMMA WorkerRows ==
  ASSUME TypeInv, NEW d \in Daemons, NEW t \in Tasks,
         WorkerStep(d, t) \/ WorkerFault(d, t), ~ObserveStop(d, t)
  PROVE  UNCHANGED rows \/ \E r : WorkerRow(d, t, r)
  <1> DEFINE w == wk[d][t]
             Goal == UNCHANGED rows \/ \E r : WorkerRow(d, t, r)
  <1>0. /\ rows \in [Tasks -> Row] /\ rows[t] \in Row
        /\ wk \in [Daemons -> [Tasks -> SyncingWorker]] /\ w \in SyncingWorker
    BY DEF TypeInv, TypeOK
  <1>c. ErrorKinds \cup StopKinds \cup {"class_fail_continue", "budget_abort"} \subseteq ErrorClasses
    BY ConstantsAssumption DEF ErrorClasses, Policies
  <1>a. ASSUME NEW err \in ErrorClasses,
               \/ Settle(t, MarkFailed(rows[t], err))
               \/ Settle(t, MarkBudgetExceeded(rows[t], err))
        PROVE  Goal
    <2>1. /\ MarkFailed(rows[t], err) \in Row
          /\ MarkFailed(rows[t], err).controls = rows[t].controls
          /\ MarkFailed(rows[t], err).status \in TerminalStatuses
          /\ MarkBudgetExceeded(rows[t], err) \in Row
          /\ MarkBudgetExceeded(rows[t], err).controls = rows[t].controls
          /\ MarkBudgetExceeded(rows[t], err).status \in TerminalStatuses
      BY <1>0, MarkFailedType, MarkBudgetExceededType, FailureClasses DEF TerminalStatuses
    <2> QED
      BY <1>a, <2>1 DEF WorkerRow
  <1>b. ASSUME NEW c \in Classes \cup {None}, NEW err \in ErrorClasses, NEW q,
               q \in BlockedRows(rows[t], c, err), Settle(t, q)
        PROVE  Goal
    <2>1. rows[t] \in Row /\ q \in BlockedRows(rows[t], c, err)
      BY <1>0, <1>b
    <2>2. /\ q \in Row
          /\ q.status \in {"FAILED", "POISONED", "BUDGET_EXCEEDED"}
          /\ q.classes = [rows[t].classes EXCEPT ![c] = "BLOCKED"]
          /\ q.controls = rows[t].controls
          /\ q.err = err
      BY <2>1, BlockedFailure
    <2> QED
      BY <1>b, <2>2 DEF WorkerRow, TerminalStatuses
  <1>1. CASE Boot(d, t)
    <2>1. /\ MarkRunning(rows[t]) \in Row
          /\ MarkRunning(rows[t]).status = "RUNNING"
          /\ MarkRunning(rows[t]).controls = rows[t].controls
      BY <1>0, AssignmentTypes DEF MarkRunning, Row, ErrorClasses
    <2> QED
      BY <1>1, <2>1 DEF Boot, WorkerRow
  <1>2. CASE Deliver(d, t) \/ SyncRead(d, t) \/ FinishRun(d, t) \/ StopEarly(d, t) \/ WorkerDies(d, t)
    BY <1>2 DEF Deliver, SyncRead, FinishRun, StopEarly, WorkerDies
  <1>3. CASE PauseTurn(d, t) \/ PipelineError(d, t)
    BY <1>3, <1>a, <1>c DEF PauseTurn, PipelineError, Unhandled
  <1>d. w.cls \in Classes \cup {None}
    BY <1>0 DEF SyncingWorker, Worker
  <1>4. CASE UnsafeDiff(d, t)
    BY <1>4, <1>b, <1>c, <1>d DEF UnsafeDiff, BlockedRows
  <1>5. CASE CurrencyCap(d, t)
    BY <1>5, <1>a, <1>c DEF CurrencyCap
  <1>6. CASE TurnCap(d, t)
    BY <1>6, <1>b, <1>c, <1>d DEF TurnCap, BlockedRows
  <1>7. CASE \E c \in Classes : UnsafeWorkspace(d, t, c)
    BY <1>7, <1>b, <1>c DEF UnsafeWorkspace, BlockedRows
  <1>8. ASSUME NEW c \in Classes, SelectClass(d, t, c) PROVE Goal
    <2>1. /\ RecordStage(rows[t], c) \in Row
          /\ RecordStage(rows[t], c).status = rows[t].status
          /\ RecordStage(rows[t], c).controls = rows[t].controls
      BY <1>0, ClassUpdateTypes DEF RecordStage, Row
    <2> QED
      BY <1>8, <2>1 DEF SelectClass, WorkerRow
  <1>9. CASE SyncWrite(d, t)
    <2> DEFINE l == SyncClasses(rows[t], w.res)
               status == SyncStatus(l, w.snap, w.fin)
    <2>0. /\ w.pc \in {"sync", "fsync"}
          /\ w.snap \in Statuses \cup {NotCreated} /\ w.fin \in ErrorClasses
      BY <1>9, <1>0 DEF SyncWrite, WorkerAt, SyncingWorker, Worker
    <2>1. PICK err \in SyncErrors(l, status, w.fin) \cap (ErrorKinds \cup {"none", w.fin}) :
             LET r == SyncRow(rows[t], w.res, w.snap, w.fin, err)
             IN  IF status \in SyncTerminal THEN Settle(t, r) ELSE SetRow(t, r)
      BY <1>9 DEF SyncWrite
    <2> DEFINE r == SyncRow(rows[t], w.res, w.snap, w.fin, err)
    <2>2. err \in ErrorClasses
      BY <2>1, <1>c, <2>0 DEF ErrorClasses
    <2>3. r \in Row
      BY <2>2, <2>0, <1>0, SyncRowType
    <2>4. r.controls = rows[t].controls /\ r.status = status
      BY <1>0 DEF SyncRow, CountFailure, Row
    <2>5. status \in SyncTerminal \/ status = w.snap
      BY DEF SyncStatus, SyncTerminal
    <2> HIDE DEF r, status
    <2>6. CASE status \in SyncTerminal
      <3>1. Settle(t, r) /\ r.status \in TerminalStatuses
        BY <2>1, <2>4, <2>6 DEF r, SyncTerminal, TerminalStatuses
      <3> QED
        BY <2>3, <2>4, <3>1 DEF WorkerRow
    <2>7. CASE status \notin SyncTerminal
      <3>1. SetRow(t, r)
        BY <2>1, <2>7 DEF r
      <3> QED
        BY <2>0, <2>3, <2>4, <2>5, <2>7, <3>1 DEF WorkerRow
    <2> QED
      BY <2>6, <2>7
  <1> QED
    BY <1>1, <1>2, <1>3, <1>4, <1>5, <1>6, <1>7, <1>8, <1>9 DEF WorkerStep, WorkerFault

LEMMA WorkerKeepsStops ==
  ASSUME TypeInv, ProcessInv, StopInv, NEW d \in Daemons, NEW t \in Tasks,
         WorkerStep(d, t) \/ WorkerFault(d, t)
  PROVE  StopInv' /\ StopsWell
  <1> DEFINE NoneStopped == \A u \in Tasks : rows'[u].status = "STOPPED" => rows[u].status = "STOPPED"
  <1>0. /\ rows \in [Tasks -> Row] /\ rows[t] \in Row
        /\ wk \in [Daemons -> [Tasks -> SyncingWorker]]
    BY DEF TypeInv, TypeOK
  <1>1. Alive(d, t) /\ WorkerOnly
    BY WorkerIsAlive
  <1>2. t \in LiveTasks /\ rows[t].status # "STOPPED"
    BY <1>1 DEF StopInv, StoppedIsIdle, LiveTasks
  <1>l. PICK v : Leaves(d, t, v)
    BY WorkerLeaves
  <1>3. /\ SetWorker(d, t, v)
        /\ v.pc \in {"exit0", "exit1"} => Running(d)
        /\ v.pc \in {"sync", "fsync"} => v.snap = rows[t].status
    BY <1>l DEF Leaves
  <1>4. wk'[d][t] = v /\ \A e \in Daemons, u \in Tasks : <<e, u>> # <<d, t>> => wk'[e][u] = wk[e][u]
    BY <1>0, <1>3 DEF SetWorker
  <1>5. LiveTasks' \subseteq LiveTasks
    BY <1>1, <1>4 DEF LiveTasks, Alive
  <1>6. UNCHANGED <<pool, pending, picked, preempting, preempted, stopping, ops>>
    BY <1>1 DEF WorkerOnly, daemonVars, requestVars
  <1>7. ExitedArePooled' /\ UrgentPreempts' /\ \A e \in Daemons : Launchable(e)' = Launchable(e)
    <2>1. ExitedArePooled'
      BY <1>1, <1>3, <1>4, <1>6 DEF ExitedArePooled, StopInv, ProcessInv, ChildrenPooled
    <2> QED
      BY <1>6, <2>1 DEF UrgentPreempts, StopInv, Launchable
  <1>8. ASSUME NoneStopped, StopsWell PROVE StopInv' /\ StopsWell
    <2>1. rows'[t].status # "STOPPED" /\ (v.pc \in {"sync", "fsync"} => v.snap # "STOPPED")
      BY <1>2, <1>3, <1>8
    <2>2. StoppedIsIdle' /\ SnapNotStopped' /\ StoppedExitsWell'
      BY <1>4, <1>7, <1>8, <2>1, IdleStep DEF StopInv
    <2> QED
      BY <1>7, <1>8, <2>2 DEF StopInv
  <1>9. CASE UNCHANGED rows
    BY <1>8, <1>9 DEF StopsWell, Obeyed, Waits
  <1>10. ASSUME NEW r, WorkerRow(d, t, r) PROVE StopInv' /\ StopsWell
    <2>1. r \in Row /\ r.controls = rows[t].controls
      BY <1>10 DEF WorkerRow
    <2>2. CASE r.status \in TerminalStatuses /\ Settle(t, r)
      BY <1>2, <1>5, <1>8, <2>1, <2>2, SettleStops
    <2>3. CASE SetRow(t, r) /\ r.status # "STOPPED"
      BY <1>0, <1>2, <1>8, <2>1, <2>3 DEF SetRow, StopsWell, Obeyed, Waits
    <2> QED
      BY <1>2, <1>10, <2>2, <2>3 DEF WorkerRow, StopInv, SnapNotStopped
  \* The worker obeys: the row is STOPPED and the one process of the task ends.
  <1>11. CASE ObserveStop(d, t)
    <2>1. PICK reason \in StopKinds : SetRow(t, MarkStopped(rows[t], reason))
      BY <1>11 DEF ObserveStop
    <2>2. rows'[t].status = "STOPPED" /\ \A u \in Tasks \ {t} : rows'[u] = rows[u]
      BY <1>0, <2>1 DEF SetRow, MarkStopped, Row
    <2>3. v.pc \notin LivePCs /\ v.pc \notin {"sync", "fsync"} /\ (v.pc = "exit1" => IsPython(t))
      BY <1>0, <1>4, <1>11 DEF ObserveStop, Exit, SetWorker, NoWorker, LivePCs
    <2>4. \A e \in Daemons : ~Alive(e, t)'
      BY <1>1, <1>4, <2>3 DEF Alive, ProcessInv, OneWorkerPerTask
    <2>5. t \notin LiveTasks'
      BY <2>4 DEF LiveTasks
    <2>6. StoppedIsIdle'
      <3>1. \A e \in Daemons : t \notin Launchable(e)
        BY <1>2 DEF ProcessInv, OneWorkerPerTask
      <3> QED
        BY <1>5, <1>7, <2>2, <2>5, <3>1 DEF StopInv, StoppedIsIdle
    <2>7. SnapNotStopped'
      BY <1>4, <2>3 DEF StopInv, SnapNotStopped
    <2>8. StoppedExitsWell'
      <3>1. \A e \in Daemons \ {d} : wk[e][t].pc # "exit1"
        BY <1>1 DEF StopInv, ExitedArePooled, ProcessInv, PoolExclusive
      <3>2. \A e \in Daemons : ~IsPython(t) => wk'[e][t].pc # "exit1"
        BY <1>4, <2>3, <3>1
      <3> QED
        BY <1>4, <2>2, <3>2 DEF StopInv, StoppedExitsWell, IsPython
    <2>9. StopsWell
      BY <1>2, <2>2, <2>5 DEF StopsWell, Obeyed, Waits
    <2> QED
      BY <1>7, <2>6, <2>7, <2>8, <2>9 DEF StopInv
  <1> QED
    BY <1>9, <1>10, <1>11, WorkerRows

LEMMA InitStops == Init => StopInv
  <1> SUFFICES ASSUME Init PROVE StopInv
    OBVIOUS
  <1>1. \A d \in Daemons, t \in Tasks : wk[d][t].pc = "none"
    BY DEF Init, NoWorker
  <1>2. \A t \in Tasks : rows[t].status # "STOPPED"
    BY DEF Init, NewRow, NotCreated
  <1>3. preempting = {} /\ preempted = {} /\ stopping = {}
    BY DEF Init
  <1> QED
    BY <1>1, <1>2, <1>3
    DEF StopInv, StoppedIsIdle, SnapNotStopped, ExitedArePooled, StoppedExitsWell, UrgentPreempts

LEMMA NextStops ==
  ASSUME TypeInv, ProcessInv, StopInv, [Next]_vars
  PROVE  StopInv' /\ StopsWell
  <1>1. CASE UNCHANGED vars
    <2>1. UNCHANGED <<rows, wk, pool, pending, picked, stopping, preempting, preempted>>
      BY <1>1 DEF vars, daemonVars, requestVars
    <2>2. StopsWell
      BY <2>1 DEF StopsWell, Obeyed, Waits
    <2>3. StoppedIsIdle' /\ SnapNotStopped' /\ StoppedExitsWell'
      BY <2>1, IdleStep DEF StopInv, Launchable
    <2> QED
      BY <2>1, <2>2, <2>3 DEF StopInv, ExitedArePooled, UrgentPreempts
  <1>2. CASE Next
    BY <1>2, RequestKeepsStops, DaemonKeepsStops, WorkerKeepsStops DEF Next
  <1> QED
    BY <1>1, <1>2

\* A stop is never lost: whoever takes its control row away, an operator apart,
\* the task has no process any more that might have missed it.
THEOREM StopIsObeyed ==
  ASSUME Sequential
  PROVE  Spec => StopNotLost
  <1> DEFINE Inv == TypeInv /\ ProcessInv /\ StopInv
  <1>1. Init => Inv
    BY InitTypes, InitProcesses, InitStops
  <1>2. Inv /\ [Next]_vars => Inv'
    BY NextTypes, NextProcesses, NextStops
  <1>3. Inv /\ [Next]_vars => [\A t \in Tasks : Obeyed(t)]_vars
    BY NextStops DEF StopsWell
  <1> HIDE DEF Inv
  <1> QED
    BY <1>1, <1>2, <1>3, PTL DEF Spec, StopNotLost, Obeyed

\* A stopped task stays stopped until an operator, or the end of the urgent task
\* it made room for, brings it back.  Of Java tasks: a Python worker leaves a
\* stop with exit status 1, and reaping it fails the task.
THEOREM StoppedStays ==
  ASSUME Sequential, PythonTasks = {}
  PROVE  Spec => StoppedWaits
  <1> DEFINE Inv == TypeInv /\ ProcessInv /\ StopInv
  <1>1. Init => Inv
    BY InitTypes, InitProcesses, InitStops
  <1>2. Inv /\ [Next]_vars => Inv'
    BY NextTypes, NextProcesses, NextStops
  <1>3. Inv /\ [Next]_vars => \A t \in Tasks : Waits(t)
    BY NextStops DEF StopsWell, IsPython
  <1>4. Inv /\ [Next]_vars =>
          [\A t \in Tasks :
              /\ rows[t].status = "STOPPED"
              /\ rows'[t].status \notin {"STOPPED", "STOP_REQUESTED"}
              /\ ops' = ops
              => \E u \in UrgentTasks : <<t, u>> \in preempted /\ rows'[u].status \in TerminalStatuses
          ]_vars
    BY <1>3 DEF Waits
  <1> HIDE DEF Inv
  <1> QED
    BY <1>1, <1>2, <1>4, PTL DEF Spec, StoppedWaits

-----------------------------------------------------------------------------
(* The lock of a repository.                                               *)

\* Operators only stop tasks, and no error is one the daemon retries: a retry is
\* launched, and a start, resume or unblock command queues, without a look at
\* the lock.
LockScope ==
    /\ Operations \subseteq {"stop"}
    /\ (ErrorKinds \cup StopKinds) \cap Retryable = {}

\* The open classes of u stay open and the others closed.
OpenSame(u) == \A c \in Classes : rows'[u].classes[c] \in TerminalClass <=> rows[u].classes[c] \in TerminalClass

\* The row of u is left alone, or it was STOPPED and is resumed.
Resumed(u) ==
    \/ rows'[u] = rows[u]
    \/ /\ rows[u].status = "STOPPED" /\ rows'[u].status = "QUEUED"
       /\ rows'[u].err = "none" /\ OpenSame(u)

LEMMA SettleResumes ==
  ASSUME rows \in [Tasks -> Row], NEW t \in Tasks, NEW r \in Row, r.status \in TerminalStatuses,
         Settle(t, r)
  PROVE  rows'[t] = r /\ \A u \in Tasks \ {t} : Resumed(u)
  <1>0. r.status # "STOPPED"
    BY DEF TerminalStatuses
  <1>1. rows'[t] = r
    BY <1>0, SettleRows
  <1>2. ASSUME NEW u \in Tasks \ {t} PROVE Resumed(u)
    <2>1. \/ rows'[u] = rows[u]
          \/ rows[u].status = "STOPPED" /\ rows'[u] = ResumeRow(rows[u], "none")
      BY <1>0, SettleRows
    <2>2. /\ ResumeRow(rows[u], "none").status = "QUEUED"
          /\ ResumeRow(rows[u], "none").err = "none"
      BY ResumeRowClasses
    <2>3. \A c \in Classes : ResumeRow(rows[u], "none").classes[c] \in TerminalClass
                             <=> rows[u].classes[c] \in TerminalClass
      <3>1. Resumable("none") = UnfinishedClass /\ rows[u] \in Row
        BY DEF Resumable
      <3> QED
        BY <3>1 DEF ResumeRow, SetClasses, Row, UnfinishedClass, TerminalClass
    <2> QED
      BY <2>1, <2>2, <2>3 DEF Resumed, OpenSame
  <1> QED
    BY <1>1, <1>2

\* A step of anyone but a worker that acquires nothing: no new holder.
LEMMA OutsideHolds ==
  ASSUME NEW u \in Tasks, Holds(u)', OpenSame(u),
         rows'[u].status = "RUNNING" => rows[u].status = "RUNNING",
         \A e \in Daemons : picked'[e] = u => picked[e] = u,
         \A e \in Daemons : \/ wk'[e][u] = wk[e][u]
                            \/ wk'[e][u] = NoWorker
                            \/ picked[e] = u
  PROVE  Holds(u)
  <1>1. Unresolved(u)' => Unresolved(u)
    BY DEF Unresolved, OpenSame
  <1>2. ASSUME NEW e \in Daemons, Working(e, u)' PROVE picked[e] = u \/ Working(e, u)
    <2>1. wk'[e][u] # NoWorker
      BY <1>2 DEF Working, Alive, NoWorker, LivePCs
    <2> QED
      BY <1>1, <1>2, <2>1 DEF Working, Alive
  <1> QED
    BY <1>2 DEF Holds

LEMMA OutsideLock ==
  ASSUME LockInv,
         \A u \in Tasks : OpenSame(u) /\ rows'[u].err \notin Retryable,
         \A u \in Tasks : rows'[u].status = "RUNNING" => rows[u].status = "RUNNING",
         \A e \in Daemons : pending'[e] = {},
         \A e \in Daemons, u \in Tasks : picked'[e] = u => picked[e] = u,
         \A e \in Daemons, u \in Tasks :
            \/ wk'[e][u] = wk[e][u]
            \/ wk'[e][u] = NoWorker
            \/ wk'[e][u] = [NoWorker EXCEPT !.pc = "boot"] /\ picked[e] = u,
         \A u \in Tasks : Holds(u) /\ Holds(u)' => rows'[u].status \in Active
  PROVE  LockInv'
  <1>0. /\ NoWorker.pc = "none" /\ NoWorker.fin = "none"
        /\ [NoWorker EXCEPT !.pc = "boot"].pc = "boot" /\ [NoWorker EXCEPT !.pc = "boot"].fin = "none"
    BY DEF NoWorker
  <1>1. \A u \in Tasks : Holds(u)' => Holds(u)
    BY OutsideHolds
  <1>2. OneHolder' /\ HolderIsActive'
    BY <1>1 DEF LockInv, OneHolder, HolderIsActive, Active
  <1>3. SnapIsActive'
    <2> SUFFICES ASSUME NEW e \in Daemons, NEW u \in Tasks, Working(e, u)', wk'[e][u].pc \in {"sync", "fsync"}
                 PROVE  wk'[e][u].snap \in Active
      BY DEF SnapIsActive, Active
    <2>1. wk'[e][u] = wk[e][u]
      BY <1>0
    <2>2. Working(e, u)
      BY <2>1 DEF Working, Alive, Unresolved, OpenSame
    <2> QED
      BY <2>1, <2>2 DEF LockInv, SnapIsActive
  <1>4. NothingRetries'
    <2>1. \A e \in Daemons, u \in Tasks : wk'[e][u].fin \notin Retryable
      BY <1>0 DEF LockInv, NothingRetries, Retryable
    <2> QED
      BY <2>1 DEF NothingRetries, Retryable
  <1>w. \A e \in Daemons, u \in Tasks :
           \/ wk'[e][u] = wk[e][u]
           \/ wk'[e][u].pc \in {"none", "boot"} /\ wk'[e][u].fin = "none"
    BY <1>0
  <1>5. RunsClean'
    BY <1>w DEF LockInv, RunsClean
  <1>6. OpenInHand'
    <2> SUFFICES ASSUME NEW e \in Daemons, NEW u \in Tasks
                 PROVE  InHandIsOpen(wk'[e][u], rows'[u].classes, IsPython(u))
      BY DEF OpenInHand, InHandIsOpen, IsPython
    <2>1. CASE wk'[e][u] = wk[e][u]
      BY <2>1 DEF LockInv, OpenInHand, InHandIsOpen, OpenSame
    <2>2. CASE wk'[e][u].pc \in {"none", "boot"}
      BY <2>2 DEF InHandIsOpen, LivePCs
    <2> QED
      BY <1>w, <2>1, <2>2
  <1> QED
    BY <1>2, <1>3, <1>4, <1>5, <1>6 DEF LockInv

LEMMA RequestKeepsLock ==
  ASSUME LockScope, TypeInv, LockInv, Request
  PROVE  LockInv'
  <1>0. rows \in [Tasks -> Row] /\ \A t \in Tasks : rows[t] \in Row
    BY DEF TypeInv, TypeOK
  <1>1. RequestOnly
    BY DEF Request, CreateTask, StartTask, StopTask, CancelTask, UnblockTask, ResumeTask,
           StopTaskStatus, PreemptStop, Command
  <1>2. UNCHANGED <<pending, picked, wk>>
    BY <1>1 DEF RequestOnly, daemonVars
  <1>p. HolderIsActive /\ NothingRetries
    BY DEF LockInv
  <1>3. ASSUME NEW t \in Tasks, NEW r, SetRow(t, r), r.classes = rows[t].classes, r.err = rows[t].err,
               r.status = "RUNNING" => rows[t].status = "RUNNING",
               Holds(t) => r.status \in Active
        PROVE  LockInv'
    <2>1. rows'[t] = r /\ \A u \in Tasks \ {t} : rows'[u] = rows[u]
      BY <1>0, <1>3 DEF SetRow
    <2>2. \A u \in Tasks : OpenSame(u) /\ rows'[u].err \notin Retryable
      BY <1>3, <1>p, <2>1 DEF OpenSame, NothingRetries
    <2>3. \A u \in Tasks : Holds(u) => rows'[u].status \in Active
      BY <1>3, <1>p, <2>1 DEF HolderIsActive
    <2>4. \A u \in Tasks : rows'[u].status = "RUNNING" => rows[u].status = "RUNNING"
      BY <1>3, <2>1
    <2>5. \A e \in Daemons : pending'[e] = {}
      BY <1>2, <1>p DEF NothingRetries
    <2> QED
      BY <1>2, <2>2, <2>3, <2>4, <2>5, OutsideLock
  <1>4. ASSUME NEW t \in Tasks, CreateTask(t) PROVE LockInv'
    <2>1. SetRow(t, Create(rows[t])) /\ ~Holds(t)
      BY <1>4, <1>p DEF CreateTask, HolderIsActive, Active, NotCreated
    <2>2. /\ Create(rows[t]).classes = rows[t].classes /\ Create(rows[t]).err = rows[t].err
          /\ Create(rows[t]).status = "CREATED"
      BY <1>0 DEF Create, Row
    <2> QED
      BY <1>3, <2>1, <2>2
  <1>5. ASSUME NEW t \in Tasks, SetRow(t, RequestStop(rows[t])) PROVE LockInv'
    <2>1. /\ RequestStop(rows[t]).classes = rows[t].classes /\ RequestStop(rows[t]).err = rows[t].err
          /\ RequestStop(rows[t]).status = rows[t].status
      BY <1>0 DEF RequestStop, Row
    <2> QED
      BY <1>3, <1>5, <1>p, <2>1 DEF HolderIsActive
  <1>6. ASSUME NEW t \in Tasks, SetRow(t, SetStopRequested(rows[t])) PROVE LockInv'
    <2>1. /\ SetStopRequested(rows[t]).classes = rows[t].classes
          /\ SetStopRequested(rows[t]).err = rows[t].err
          /\ SetStopRequested(rows[t]).status = "STOP_REQUESTED"
      BY <1>0 DEF SetStopRequested, Row
    <2> QED
      BY <1>3, <1>6, <2>1 DEF Active
  <1>7. \A op : Command(op) => op = "stop"
    BY DEF Command, LockScope
  <1> QED
    BY <1>4, <1>5, <1>6, <1>7
    DEF Request, StartTask, StopTask, CancelTask, UnblockTask, ResumeTask, StopTaskStatus, PreemptStop,
        ForceFlags

\* Of a task without a process that no daemon has acquired, only the row counts.
LEMMA NoHolder ==
  ASSUME NEW t \in Tasks, t \notin LiveTasks', \A e \in Daemons : picked'[e] # t,
         rows'[t].status # "RUNNING"
  PROVE  ~Holds(t)'
  BY DEF Holds, Working, LiveTasks

LEMMA DaemonKeepsLock ==
  ASSUME Sequential, LockScope, TypeInv, ProcessInv, LockInv, NEW d \in Daemons,
         \/ StartDaemon(d) \/ DaemonStep(d) \/ DaemonEnds(d) \/ HeartbeatExpires(d)
         \/ \E t \in Tasks : BackoffElapses(d, t)
  PROVE  LockInv'
  <1> DEFINE Workers == \A e \in Daemons, u \in Tasks :
                \/ wk'[e][u] = wk[e][u]
                \/ wk'[e][u] = NoWorker
                \/ wk'[e][u] = [NoWorker EXCEPT !.pc = "boot"] /\ picked[e] = u
             Queues == /\ \A e \in Daemons : pending'[e] = {}
                       /\ \A e \in Daemons, u \in Tasks : picked'[e] = u => picked[e] = u
             Rows == \A u \in Tasks : /\ OpenSame(u) /\ rows'[u].err \notin Retryable
                                      /\ rows'[u].status = "RUNNING" => rows[u].status = "RUNNING"
                                      /\ Holds(u) /\ Holds(u)' => rows'[u].status \in Active
  <1>0. rows \in [Tasks -> Row] /\ \A t \in Tasks : rows[t] \in Row
    BY DEF TypeInv, TypeOK
  <1>w. wk \in [Daemons -> [Tasks -> SyncingWorker]]
    BY DEF TypeInv
  <1>p. /\ OneHolder /\ HolderIsActive /\ NothingRetries
        /\ IdleDaemon /\ OneDaemon /\ PickedWaits /\ PoolExclusive /\ OneWorkerPerTask /\ RetriesWait
    BY DEF LockInv, ProcessInv
  <1>s. ASSUME Workers, Queues, Rows PROVE LockInv'
    BY <1>s, OutsideLock
  <1>e. \A e \in Daemons : pending[e] = {} /\ ready[e] = {}
    BY <1>p DEF NothingRetries, RetriesWait
  <1>a. UNCHANGED rows => Rows
    BY <1>p DEF OpenSame, NothingRetries, HolderIsActive
  <1>b. UNCHANGED wk => Workers
    OBVIOUS
  <1>c. UNCHANGED <<pending, picked>> => Queues
    BY <1>e
  <1>d. Forget(d) => Queues
    BY <1>e, ProcessTypes DEF Forget
  \* Settling a task without a process ends its hold.
  <1>f. ASSUME NEW t \in Tasks, NEW err, err \in ErrorClasses \ Retryable,
               \/ Settle(t, MarkFailed(rows[t], err))
               \/ Settle(t, MarkBudgetExceeded(rows[t], err)),
               t \notin LiveTasks', \A e \in Daemons : picked'[e] # t
        PROVE  Rows
    <2>1. PICK r \in {MarkFailed(rows[t], err), MarkBudgetExceeded(rows[t], err)} : Settle(t, r)
      BY <1>f
    <2>2. r \in Row
      BY <1>0, <1>f, <2>1, MarkFailedType, MarkBudgetExceededType
    <2>3. r.classes = rows[t].classes /\ r.err = err /\ r.status \in {"FAILED", "POISONED", "BUDGET_EXCEEDED"}
      BY <1>0, <2>1, FailureClasses
    <2>4. r.status \in TerminalStatuses
      BY <2>3 DEF TerminalStatuses
    <2>5. rows'[t] = r /\ \A u \in Tasks \ {t} : Resumed(u)
      BY <1>0, <2>1, <2>2, <2>4, SettleResumes
    <2>6. ~Holds(t)' /\ rows'[t].status # "RUNNING"
      BY <1>f, <2>3, <2>5, NoHolder
    <2>7. ASSUME NEW u \in Tasks \ {t}
          PROVE  /\ OpenSame(u) /\ rows'[u].err \notin Retryable
                 /\ rows'[u].status = "RUNNING" => rows[u].status = "RUNNING"
                 /\ Holds(u) => rows'[u].status \in Active
      BY <1>p, <2>5 DEF Resumed, OpenSame, NothingRetries, HolderIsActive, Active, Retryable
    <2>8. OpenSame(t) /\ rows'[t].err \notin Retryable
      BY <1>f, <2>3, <2>5 DEF OpenSame
    <2> QED
      BY <2>6, <2>7, <2>8
  \* Requeued tasks have no process and are not acquired.
  <1>g. ASSUME \A t \in Tasks : rows'[t] # rows[t] =>
                  /\ rows[t].status = "RUNNING" /\ rows'[t] = RequeueRow(rows[t])
                  /\ t \notin LiveTasks' /\ \A e \in Daemons : picked'[e] # t
        PROVE  Rows
    <2>1. \A t \in Tasks : /\ RequeueRow(rows[t]).status = "QUEUED" /\ RequeueRow(rows[t]).err = "none"
      BY <1>0, RequeueRowClasses
    <2>2. \A t \in Tasks, c \in Classes :
             RequeueRow(rows[t]).classes[c] \in TerminalClass <=> rows[t].classes[c] \in TerminalClass
      BY <1>0 DEF RequeueRow, SetClasses, Row, TerminalClass
    <2>3. ASSUME NEW u \in Tasks, rows'[u] # rows[u]
          PROVE  /\ OpenSame(u) /\ rows'[u].err = "none" /\ rows'[u].status = "QUEUED" /\ ~Holds(u)'
      <3>1. OpenSame(u) /\ rows'[u].err = "none" /\ rows'[u].status = "QUEUED"
        BY <1>g, <2>1, <2>2, <2>3 DEF OpenSame
      <3> QED
        BY <1>g, <2>3, <3>1, NoHolder
    <2> QED
      BY <1>p, <2>3 DEF OpenSame, NothingRetries, HolderIsActive, Retryable
  \* Only the running daemon has acquired a task.
  <1>h. ASSUME Running(d) PROVE \A e \in Daemons \ {d} : picked[e] = None
    BY <1>h, <1>p DEF IdleDaemon, OneDaemon
  <1>1. CASE StartDaemon(d) \/ PromoteDone(d) \/ ScanProcesses(d)
             \/ AcquireHeartbeat(d) \/ AcquireDone(d) \/ HeartbeatExpires(d) \/ Shutdown(d)
             \/ \E t \in Tasks : BackoffElapses(d, t)
    <2>1. UNCHANGED <<rows, wk, pending, picked>>
      BY <1>1 DEF StartDaemon, PromoteDone, ScanProcesses, AcquireHeartbeat, AcquireDone,
                  HeartbeatExpires, Shutdown, BackoffElapses
    <2> QED
      BY <2>1, <1>a, <1>b, <1>c, <1>s
  <1>2. CASE ReapDone(d)
    <2>1. UNCHANGED <<rows, wk>>
      BY <1>2 DEF ReapDone
    <2>2. Queues
      BY <1>2, <1>c, <1>d DEF ReapDone
    <2> QED
      BY <2>1, <2>2, <1>a, <1>b, <1>s
  <1>3. CASE RequeueOrphans(d)
    <2>1. /\ Running(d) /\ picked[d] = None /\ LiveTasks \subseteq live[d] \cup pool[d]
          /\ UNCHANGED <<wk, pending, picked>>
      BY <1>3 DEF RequeueOrphans, At, ProcessInv, PickedWaits, ScanCovers
    <2>2. \A e \in Daemons : picked'[e] = None
      BY <1>h, <2>1
    <2>3. ASSUME NEW t \in Tasks, rows'[t] # rows[t]
          PROVE  /\ rows[t].status = "RUNNING" /\ rows'[t] = RequeueRow(rows[t]) /\ t \notin LiveTasks'
      <3>1. Orphaned(d, t) /\ rows'[t] = RequeueRow(rows[t])
        BY <1>3, <2>3 DEF RequeueOrphans
      <3>2. LiveTasks' = LiveTasks
        BY <2>1, SameProcesses
      <3> QED
        BY <2>1, <3>1, <3>2 DEF Orphaned
    <2>4. Rows
      BY <1>g, <2>2, <2>3, ProcessTypes
    <2> QED
      BY <1>b, <1>c, <1>s, <2>1, <2>4
  <1>4. ASSUME NEW t \in Tasks, ReapFinished(d, t) PROVE LockInv'
    <2>1. /\ Running(d) /\ t \in pool[d] /\ wk' = [wk EXCEPT ![d][t] = NoWorker] /\ picked' = picked
      BY <1>4 DEF ReapFinished, At
    <2>2. Workers
      BY <1>w, <2>1
    <2>3. ~Retries(d, t) /\ Policy(t) \in ErrorClasses \ Retryable
      BY <1>0, <1>p DEF Retries, Policy, NothingRetries, Retryable, Row, ErrorClasses, Policies
    <2>4. t \notin LiveTasks'
      BY <1>p, <1>w, <2>1 DEF LiveTasks, Alive, NoWorker, LivePCs, PoolExclusive
    <2>5. \A e \in Daemons : picked'[e] # t
      BY <1>h, <1>p, <2>1, ProcessTypes DEF PickedWaits
    <2>6. UNCHANGED pending
      BY <1>4, <2>3 DEF ReapFinished, ReapFailure
    <2>7. CASE UNCHANGED rows
      BY <1>a, <1>c, <1>s, <2>1, <2>2, <2>6, <2>7
    <2>8. CASE \/ Settle(t, MarkBudgetExceeded(rows[t], Policy(t)))
               \/ Settle(t, MarkFailed(rows[t], Policy(t)))
      BY <1>c, <1>f, <1>s, <2>1, <2>2, <2>3, <2>4, <2>5, <2>6, <2>8
    <2> QED
      BY <1>4, <2>3, <2>7, <2>8 DEF ReapFinished, ReapFailure
  <1>5. ASSUME NEW t \in Tasks, PromoteRetry(d, t) \/ PromoteRejected(d, t) PROVE FALSE
    BY <1>5, <1>e DEF PromoteRetry, PromoteRejected
  <1>6. ASSUME NEW t \in Tasks, Launch(d, t) PROVE LockInv'
    <2>1. Workers
      BY <1>6, <1>w DEF Launch, Spawn
    <2>2. Queues
      BY <1>6, <1>e, ProcessTypes DEF Launch
    <2> QED
      BY <1>6, <1>a, <1>s, <2>1, <2>2 DEF Launch
  <1>7. ASSUME NEW t \in Tasks, LaunchRejected(d, t) PROVE LockInv'
    <2>1. /\ Running(d) /\ picked[d] = t /\ picked' = [picked EXCEPT ![d] = None]
          /\ UNCHANGED <<pending, wk>> /\ Settle(t, MarkFailed(rows[t], "class_fail_continue"))
      BY <1>7 DEF LaunchRejected, At
    <2>2. Queues
      BY <1>e, <2>1, ProcessTypes
    <2>3. t \notin LiveTasks'
      BY <1>p, <2>1, SameProcesses DEF OneWorkerPerTask, Launchable
    <2>4. \A e \in Daemons : picked'[e] # t
      BY <1>h, <2>1, ProcessTypes
    <2>5. "class_fail_continue" \in ErrorClasses \ Retryable
      BY DEF ErrorClasses, Policies, Retryable
    <2>6. Rows
      BY <1>f, <2>1, <2>3, <2>4, <2>5
    <2> QED
      BY <1>b, <1>s, <2>1, <2>2, <2>6
  \* acquire_next_task: every holder of the repository would be in its way.
  <1>8. ASSUME NEW t \in Tasks, AcquireNext(d, t) PROVE LockInv'
    <2>1. /\ SetRow(t, AcquireRow(rows[t])) /\ picked' = [picked EXCEPT ![d] = t]
          /\ UNCHANGED <<pending, wk>> /\ ~RepoBusy(t)
      BY <1>8 DEF AcquireNext, Runnable
    <2>2. /\ rows'[t].status = "RUNNING" /\ rows'[t].err = rows[t].err
          /\ rows'[t].classes = rows[t].classes
          /\ \A u \in Tasks \ {t} : rows'[u] = rows[u]
      BY <1>0, <2>1 DEF SetRow, AcquireRow, Row
    <2>3. ASSUME NEW u \in Tasks \ {t}, Holds(u)' PROVE Holds(u)
      <3>1. \A e \in Daemons : picked'[e] = u => picked[e] = u
        BY <2>1, ProcessTypes
      <3> QED
        BY <2>1, <2>2, <2>3, <3>1 DEF Holds, Working, Alive, Unresolved
    <2>4. ASSUME NEW u \in Tasks \ {t}, Holds(u)' PROVE RepoOf[u] # RepoOf[t]
      BY <1>p, <2>1, <2>3, <2>4 DEF HolderIsActive, RepoBusy, Active
    <2>5. OneHolder'
      BY <1>p, <2>3, <2>4 DEF OneHolder
    <2>6. HolderIsActive'
      BY <1>p, <2>2, <2>3 DEF HolderIsActive, Active
    <2>7. SnapIsActive' /\ RunsClean'
      BY <2>1, <2>2 DEF LockInv, SnapIsActive, RunsClean, Working, Alive, Unresolved, Active
    <2>8. NothingRetries'
      BY <1>p, <2>1, <2>2 DEF NothingRetries
    <2>9. OpenInHand'
      BY <2>1, <2>2 DEF LockInv, OpenInHand, InHandIsOpen, IsPython
    <2> QED
      BY <2>5, <2>6, <2>7, <2>8, <2>9 DEF LockInv
  <1>9. CASE ForceExit(d)
    <2>1. Running(d) /\ Forget(d)
      BY <1>9 DEF ForceExit, Running
    <2>2. \A e \in Daemons, u \in Tasks :
             /\ wk'[e][u] = wk[e][u] \/ wk'[e][u] = NoWorker
             /\ e = d /\ u \in pool[d] => wk'[e][u] = NoWorker
      BY <1>9, <1>w DEF ForceExit
    <2>3. \A e \in Daemons : picked'[e] = None
      BY <1>h, <2>1, ProcessTypes DEF Forget
    <2>4. ASSUME NEW u \in pool[d] PROVE u \notin LiveTasks'
      BY <1>p, <2>2 DEF LiveTasks, Alive, NoWorker, LivePCs, PoolExclusive
    <2>5. ASSUME NEW u \in Tasks, rows'[u] # rows[u]
          PROVE  rows[u].status = "RUNNING" /\ rows'[u] = RequeueRow(rows[u]) /\ u \notin LiveTasks'
      BY <1>9, <2>4, <2>5 DEF ForceExit
    <2>6. Rows
      BY <1>g, <2>3, <2>5, ProcessTypes
    <2> QED
      BY <1>d, <1>s, <2>1, <2>2, <2>6
  <1>10. CASE Crash(d)
    <2>1. Workers
      BY <1>10, <1>w DEF Crash
    <2> QED
      BY <1>10, <1>a, <1>d, <1>s, <2>1 DEF Crash
  <1> QED
    BY <1>1, <1>2, <1>3, <1>4, <1>5, <1>6, <1>7, <1>8, <1>9, <1>10 DEF DaemonStep, DaemonEnds

\* A step of the one worker of t, which becomes v.
StillWorking(t, v) ==
    v.pc \in LivePCs /\ v.fin = "none" /\ (v.pc = "boot" \/ Unresolved(t)')

LEMMA OwnLock ==
  ASSUME TypeInv, ProcessInv, LockInv, NEW d \in Daemons, NEW t \in Tasks, Alive(d, t),
         NEW v, SetWorker(d, t, v), UNCHANGED <<pending, picked>>,
         \A u \in Tasks \ {t} : Resumed(u),
         rows'[t].err \notin Retryable, v.fin \notin Retryable,
         v.pc \in {"boot", "run", "turn", "push", "sync"} => v.fin = "none",
         InHandIsOpen(v, rows'[t].classes, IsPython(t)),
         rows'[t].status = "RUNNING" \/ StillWorking(t, v) => Holds(t) /\ rows'[t].status \in Active,
         StillWorking(t, v) /\ v.pc \in {"sync", "fsync"} => v.snap \in Active
  PROVE  LockInv'
  <1>0. wk \in [Daemons -> [Tasks -> SyncingWorker]]
    BY DEF TypeInv
  <1>1. wk'[d][t] = v /\ \A e \in Daemons, u \in Tasks : <<e, u>> # <<d, t>> => wk'[e][u] = wk[e][u]
    BY <1>0 DEF SetWorker
  <1>2. \A e \in Daemons : picked[e] # t /\ (e # d => ~Alive(e, t)')
    <2>1. \A e \in Daemons : t \notin Launchable(e)
      BY DEF ProcessInv, OneWorkerPerTask, LiveTasks
    <2>2. \A e \in Daemons \ {d} : ~Alive(e, t)
      BY DEF ProcessInv, OneWorkerPerTask
    <2> QED
      BY <1>1, <2>1, <2>2 DEF Launchable, Alive
  <1>3. /\ \A e \in Daemons : Working(e, t)' => e = d /\ StillWorking(t, v)
    BY <1>1, <1>2 DEF Working, Alive, StillWorking
  <1>4. Holds(t)' => Holds(t) /\ rows'[t].status \in Active
    BY <1>2, <1>3 DEF Holds
  <1>5. ASSUME NEW u \in Tasks \ {t}
        PROVE  /\ OpenSame(u) /\ rows'[u].err \notin Retryable
               /\ rows'[u].status = "RUNNING" => rows[u].status = "RUNNING"
               /\ Holds(u) => rows'[u].status \in Active
    BY DEF Resumed, OpenSame, LockInv, NothingRetries, HolderIsActive, Active, Retryable
  <1>6. ASSUME NEW u \in Tasks \ {t}, NEW e \in Daemons, Working(e, u)' PROVE Working(e, u)
    BY <1>1, <1>5, <1>6 DEF Working, Alive, Unresolved, OpenSame
  <1>7. ASSUME NEW u \in Tasks \ {t}, Holds(u)' PROVE Holds(u)
    BY <1>5, <1>6, <1>7 DEF Holds
  <1>8. OneHolder' /\ HolderIsActive'
    BY <1>4, <1>5, <1>7 DEF LockInv, OneHolder, HolderIsActive, Active
  <1>9. SnapIsActive'
    <2> SUFFICES ASSUME NEW e \in Daemons, NEW u \in Tasks, Working(e, u)', wk'[e][u].pc \in {"sync", "fsync"}
                 PROVE  wk'[e][u].snap \in Active
      BY DEF SnapIsActive, Active
    <2>1. CASE u = t
      BY <1>1, <1>3, <2>1
    <2>2. CASE u # t
      BY <1>1, <1>6, <2>2 DEF LockInv, SnapIsActive
    <2> QED
      BY <2>1, <2>2
  <1>10. NothingRetries' /\ RunsClean'
    <2>1. NothingRetries'
      BY <1>1, <1>5 DEF LockInv, NothingRetries, Retryable
    <2>2. RunsClean'
      BY <1>1 DEF LockInv, RunsClean
    <2> QED
      BY <2>1, <2>2
  <1>11. OpenInHand'
    <2> SUFFICES ASSUME NEW e \in Daemons, NEW u \in Tasks
                 PROVE  InHandIsOpen(wk'[e][u], rows'[u].classes, IsPython(u))
      BY DEF OpenInHand, InHandIsOpen, IsPython
    <2>1. CASE u # t
      BY <1>1, <1>5, <2>1 DEF LockInv, OpenInHand, InHandIsOpen, OpenSame
    <2>2. CASE u = t /\ e = d
      BY <1>1, <2>2
    <2>3. CASE u = t /\ e # d
      <3>1. wk'[e][u].pc \notin LivePCs
        BY <1>2, <2>3 DEF Alive
      <3> QED
        BY <3>1 DEF InHandIsOpen, LivePCs
    <2> QED
      BY <2>1, <2>2, <2>3
  <1> QED
    BY <1>8, <1>9, <1>10, <1>11 DEF LockInv

Ended(d, t, v) ==
  /\ SetWorker(d, t, v)
  /\ v.pc \in {"none", "exit0", "exit1", "final"} /\ v.fin \notin Retryable
  /\ v.pc = "final" => v.fin # "none" /\ ~IsPython(t)

WaysOut(d, t) ==
  \/ Exit(d, t, "exit0") \/ Exit(d, t, "exit1")
  \/ \E err \in Policies \ Retryable : Abort(d, t, err)

\* How a worker ends: it works no more.
LEMMA EndsWork ==
  ASSUME NEW d \in Daemons, NEW t \in Tasks, WaysOut(d, t)
  PROVE  \E v : Ended(d, t, v)
  <1>1. ASSUME NEW code \in {"exit0", "exit1"}, Exit(d, t, code)
        PROVE  \E v : SetWorker(d, t, v) /\ v.pc \in {"none", "exit0", "exit1"} /\ v.fin = "none"
    BY <1>1 DEF Exit, NoWorker
  <1>2. ASSUME NEW err \in Policies \ Retryable, ~IsPython(t), Abort(d, t, err)
        PROVE  \E v : SetWorker(d, t, v) /\ v.pc = "final" /\ v.fin = err
    <2>1. [NoWorker EXCEPT !.pc = "final", !.fin = err].pc = "final"
      BY DEF NoWorker
    <2>2. [NoWorker EXCEPT !.pc = "final", !.fin = err].fin = err
      BY DEF NoWorker
    <2> QED
      BY <1>2, <2>1, <2>2 DEF Abort
  <1>3. CASE \E code \in {"exit0", "exit1"} : Exit(d, t, code)
    BY <1>1, <1>3 DEF Retryable, Ended
  <1>4. CASE ~IsPython(t) /\ \E err \in Policies \ Retryable : Abort(d, t, err)
    <2>1. PICK err \in Policies \ Retryable : Abort(d, t, err)
      BY <1>4
    <2>2. PICK v : SetWorker(d, t, v) /\ v.pc = "final" /\ v.fin = err
      BY <1>2, <1>4, <2>1
    <2> QED
      BY <1>4, <2>1, <2>2 DEF Policies, Ended
  <1> QED
    BY <1>3, <1>4 DEF Abort, WaysOut

LEMMA WorkerKeepsLock ==
  ASSUME LockScope, TypeInv, ProcessInv, LockInv, NEW d \in Daemons, NEW t \in Tasks,
         WorkerStep(d, t) \/ WorkerFault(d, t)
  PROVE  LockInv'
  <1> DEFINE k == rows[t].classes
             w == wk[d][t]
             Rest == \A u \in Tasks \ {t} : Resumed(u)
  <1>0. /\ rows \in [Tasks -> Row] /\ rows[t] \in Row
        /\ wk \in [Daemons -> [Tasks -> SyncingWorker]] /\ w \in SyncingWorker
    BY DEF TypeInv, TypeOK
  <1>r. k \in [Classes -> ClassStatuses]
    BY <1>0 DEF Row
  <1>t. w.res \in [Classes -> Results \cup {"none", "skip"}]
    BY <1>0 DEF SyncingWorker, Worker
  <1>1. Alive(d, t) /\ UNCHANGED <<pending, picked>>
    BY WorkerIsAlive DEF WorkerOnly, daemonVars
  <1>2. /\ InHandIsOpen(w, k, IsPython(t))
        /\ rows[t].err \notin Retryable /\ w.fin \notin Retryable
        /\ w.pc \in {"boot", "run", "turn", "push", "sync"} => w.fin = "none"
        /\ Holds(t) => rows[t].status \in Active
        /\ w.fin = "none" /\ (w.pc = "boot" \/ Unresolved(t)) => Working(d, t) /\ Holds(t)
    <2>1. w.fin = "none" /\ (w.pc = "boot" \/ Unresolved(t)) => Working(d, t)
      BY <1>1 DEF Working
    <2> QED
      BY <2>1 DEF LockInv, OpenInHand, NothingRetries, RunsClean, HolderIsActive, Holds
  <1>c. /\ ErrorKinds \cup StopKinds \cup {"class_fail_continue", "budget_abort"} \subseteq Policies \ Retryable
        /\ Policies \ Retryable \subseteq ErrorClasses
    BY ConstantsAssumption DEF ErrorClasses, Policies, LockScope, Retryable
  <1>u. UNCHANGED rows => Rest
    BY DEF Resumed
  \* The worker ends; its row is not RUNNING, unless it was.
  <1>e. ASSUME Rest, rows'[t].err \notin Retryable, rows'[t].status = "RUNNING" => Holds(t),
               \/ Exit(d, t, "exit0") \/ Exit(d, t, "exit1")
               \/ \E err \in Policies \ Retryable : Abort(d, t, err)
        PROVE  LockInv'
    <2>0. PICK v : Ended(d, t, v)
      BY <1>e, EndsWork DEF WaysOut
    <2>1. /\ SetWorker(d, t, v)
          /\ v.pc \in {"none", "exit0", "exit1", "final"} /\ v.fin \notin Retryable
          /\ v.pc = "final" => v.fin # "none" /\ ~IsPython(t)
      BY <2>0 DEF Ended
    <2>2. ~StillWorking(t, v)
      BY <2>1 DEF StillWorking, LivePCs
    <2>3. InHandIsOpen(v, rows'[t].classes, IsPython(t))
      BY <2>1 DEF InHandIsOpen, LivePCs
    <2>4. rows'[t].status = "RUNNING" => rows'[t].status \in Active
      BY DEF Active
    <2> QED
      BY <1>1, <1>e, <2>1, <2>2, <2>3, <2>4, OwnLock
  \* The worker goes on, the database is left alone.
  <1>g. ASSUME NEW v, SetWorker(d, t, v), UNCHANGED rows, v.fin = w.fin, v.pc # "boot",
               v.pc \in {"run", "turn", "push", "sync"} => w.fin = "none",
               InHandIsOpen(v, k, IsPython(t)),
               v.pc \in {"sync", "fsync"} => v.snap = rows[t].status
        PROVE  LockInv'
    <2>1. StillWorking(t, v) => Holds(t)
      BY <1>2, <1>g DEF StillWorking, Unresolved
    <2>2. /\ rows'[t].status = "RUNNING" \/ StillWorking(t, v) => Holds(t) /\ rows'[t].status \in Active
          /\ StillWorking(t, v) /\ v.pc \in {"sync", "fsync"} => v.snap \in Active
      BY <1>2, <1>g, <2>1 DEF Holds
    <2>3. Rest /\ rows'[t].err \notin Retryable /\ InHandIsOpen(v, rows'[t].classes, IsPython(t))
      BY <1>2, <1>g, <1>u
    <2> QED
      BY <1>1, <1>2, <1>g, <2>2, <2>3, OwnLock
  <1>f. ASSUME NEW r \in Row, r.status \in {"FAILED", "POISONED", "BUDGET_EXCEEDED"}, r.err \notin Retryable,
               Settle(t, r), \E err \in Policies \ Retryable : Abort(d, t, err)
        PROVE  LockInv'
    <2>1. r.status \in TerminalStatuses
      BY <1>f DEF TerminalStatuses
    <2>2. Rest /\ rows'[t] = r
      BY <1>0, <1>f, <2>1, SettleResumes
    <2>3. rows'[t].status # "RUNNING" /\ rows'[t].err \notin Retryable
      BY <1>f, <2>2
    <2> QED
      BY <1>e, <1>f, <2>2, <2>3
  <1>h. ASSUME NEW err \in Policies \ Retryable, Abort(d, t, err),
               Settle(t, MarkFailed(rows[t], err)) \/ Settle(t, MarkBudgetExceeded(rows[t], err))
        PROVE  LockInv'
    <2>1. PICK r \in {MarkFailed(rows[t], err), MarkBudgetExceeded(rows[t], err)} : Settle(t, r)
      BY <1>h
    <2>2. r \in Row
      BY <1>0, <1>c, <2>1, MarkFailedType, MarkBudgetExceededType
    <2>3. r.err = err /\ r.status \in {"FAILED", "POISONED", "BUDGET_EXCEEDED"}
      BY <1>0, <2>1, FailureClasses
    <2> QED
      BY <1>f, <1>h, <2>1, <2>2, <2>3
  <1>j. ASSUME NEW err \in Policies \ Retryable, Unhandled(d, t, err) PROVE LockInv'
    <2>1. CASE IsPython(t)
      BY <1>2, <1>e, <1>j, <1>u, <2>1 DEF Unhandled, Holds
    <2>2. CASE ~IsPython(t)
      BY <1>h, <1>j, <2>2 DEF Unhandled
    <2> QED
      BY <2>1, <2>2
  <1>k. ASSUME NEW c \in Classes \cup {None}, NEW err \in Policies \ Retryable, Abort(d, t, err),
               NEW q, q \in BlockedRows(rows[t], c, err), Settle(t, q)
        PROVE  LockInv'
    <2>1. rows[t] \in Row /\ q \in BlockedRows(rows[t], c, err) /\ err \in ErrorClasses
      BY <1>0, <1>c, <1>k
    <2>2. /\ q \in Row
          /\ q.status \in {"FAILED", "POISONED", "BUDGET_EXCEEDED"}
          /\ q.classes = [rows[t].classes EXCEPT ![c] = "BLOCKED"]
          /\ q.controls = rows[t].controls
          /\ q.err = err
      BY <2>1, BlockedFailure
    <2> QED
      BY <1>f, <1>k, <2>2
  <1>l. w.cls \in Classes \cup {None}
    BY <1>0 DEF SyncingWorker, Worker
  <1>3. CASE Boot(d, t)
    <2> DEFINE rs == [c \in Classes |-> IF IsPython(t) /\ k[c] \in TerminalClass THEN "skip" ELSE "none"]
               v == [w EXCEPT !.pc = "run", !.res = rs]
    <2>1. SetWorker(d, t, v) /\ SetRow(t, MarkRunning(rows[t])) /\ w.pc = "boot"
      BY <1>3 DEF Boot, WorkerAt
    <2>2. rows'[t].classes = k /\ rows'[t].status = "RUNNING" /\ rows'[t].err = "none" /\ Rest
      BY <1>0, <2>1 DEF SetRow, MarkRunning, Row, Resumed
    <2>3. v.pc = "run" /\ v.fin = w.fin /\ v.res = rs
      BY <1>0 DEF SyncingWorker, Worker
    <2>4. InHandIsOpen(v, k, IsPython(t))
      BY <2>3 DEF InHandIsOpen
    <2> HIDE DEF v
    <2>5. Holds(t) /\ w.fin = "none" /\ "none" \notin Retryable /\ "RUNNING" \in Active
      BY <1>2, <2>1 DEF Retryable, Active
    <2> QED
      BY <1>1, <2>1, <2>2, <2>3, <2>4, <2>5, OwnLock
  <1>4. CASE ObserveStop(d, t)
    <2>1. PICK reason \in StopKinds : SetRow(t, MarkStopped(rows[t], reason))
      BY <1>4 DEF ObserveStop
    <2>2. rows'[t].status = "STOPPED" /\ rows'[t].err = reason /\ Rest
      BY <1>0, <2>1 DEF SetRow, MarkStopped, Row, Resumed
    <2>3. reason \notin Retryable
      BY <1>c, <2>1
    <2>4. Exit(d, t, "exit0") \/ Exit(d, t, "exit1")
      BY <1>4 DEF ObserveStop
    <2> QED
      BY <1>e, <2>2, <2>3, <2>4
  <1>5. CASE PauseTurn(d, t)
    BY <1>5, <1>c, <1>j DEF PauseTurn
  <1>6. CASE PipelineError(d, t)
    BY <1>6, <1>c, <1>j DEF PipelineError
  <1>7. CASE UnsafeDiff(d, t)
    BY <1>7, <1>c, <1>k, <1>l DEF UnsafeDiff, BlockedRows
  <1>8. CASE CurrencyCap(d, t)
    BY <1>8, <1>c, <1>h DEF CurrencyCap
  <1>9. CASE TurnCap(d, t)
    BY <1>9, <1>c, <1>k, <1>l DEF TurnCap, BlockedRows
  <1>10. CASE \E c \in Classes : UnsafeWorkspace(d, t, c)
    BY <1>10, <1>c, <1>k DEF UnsafeWorkspace, BlockedRows
  <1>11. CASE WorkerDies(d, t)
    BY <1>11, <1>2, <1>e, <1>u DEF WorkerDies, Holds
  <1>12. CASE Deliver(d, t)
    <2>1. PICK result \in Results : SetWorker(d, t, [w EXCEPT !.pc = "push", !.res[w.cls] = result])
      BY <1>12 DEF Deliver
    <2> DEFINE v == [w EXCEPT !.pc = "push", !.res[w.cls] = result]
    <2>2. v.pc = "push" /\ v.fin = w.fin /\ v.res = [w.res EXCEPT ![w.cls] = result]
      BY <1>0 DEF SyncingWorker, Worker
    <2>3. UNCHANGED rows /\ SetWorker(d, t, v) /\ w.pc = "turn"
      BY <1>12, <2>1 DEF Deliver, WorkerAt
    <2> HIDE DEF v
    <2>4. \A c \in Classes : v.res[c] = "none" => w.res[c] = "none"
      BY <1>t, <2>2, ConstantsAssumption
    <2>5. InHandIsOpen(v, k, IsPython(t))
      BY <1>2, <2>2, <2>3, <2>4 DEF InHandIsOpen, LivePCs
    <2> QED
      BY <1>2, <1>g, <2>2, <2>3, <2>5
  <1>13. CASE SyncRead(d, t)
    <2> DEFINE v == [w EXCEPT !.pc = IF @ = "push" THEN "sync" ELSE "fsync", !.snap = rows[t].status]
    <2>1. /\ v.pc = IF w.pc = "push" THEN "sync" ELSE "fsync"
          /\ v.snap = rows[t].status /\ v.fin = w.fin /\ v.res = w.res
      BY <1>0 DEF SyncingWorker, Worker
    <2>2. UNCHANGED rows /\ SetWorker(d, t, v) /\ w.pc \in {"push", "final"}
      BY <1>13 DEF SyncRead, WorkerAt
    <2> HIDE DEF v
    <2>3. InHandIsOpen(v, k, IsPython(t))
      BY <1>2, <2>1, <2>2 DEF InHandIsOpen, LivePCs
    <2> QED
      BY <1>2, <1>g, <2>1, <2>2, <2>3
  <1>14. CASE FinishRun(d, t)
    <2>1. CASE IsPython(t)
      BY <1>14, <1>2, <1>e, <1>u, <2>1 DEF FinishRun, Holds
    <2>2. CASE ~IsPython(t)
      <3> DEFINE v == [w EXCEPT !.pc = "final"]
      <3>1. v.pc = "final" /\ v.fin = w.fin
        BY <1>0 DEF SyncingWorker, Worker
      <3>2. UNCHANGED rows /\ SetWorker(d, t, v)
        BY <1>14, <2>2 DEF FinishRun
      <3> HIDE DEF v
      <3>3. InHandIsOpen(v, k, IsPython(t))
        BY <2>2, <3>1 DEF InHandIsOpen
      <3> QED
        BY <1>g, <3>1, <3>2, <3>3
    <2> QED
      BY <2>1, <2>2
  <1>15. CASE StopEarly(d, t)
    <2>1. CASE IsPython(t)
      BY <1>15, <1>2, <1>e, <1>u, <2>1 DEF StopEarly, Holds
    <2>2. CASE ~IsPython(t)
      <3>1. PICK err \in ErrorKinds : SetWorker(d, t, [w EXCEPT !.pc = "final", !.fin = err, !.cls = None])
        BY <1>15, <2>2 DEF StopEarly
      <3> DEFINE v == [w EXCEPT !.pc = "final", !.fin = err, !.cls = None]
      <3>2. v.pc = "final" /\ v.fin = err
        BY <1>0 DEF SyncingWorker, Worker
      <3>3. UNCHANGED rows /\ SetWorker(d, t, v)
        BY <1>15, <3>1 DEF StopEarly
      <3>4. err \notin Retryable /\ err # "none"
        BY <1>c DEF Policies
      <3> HIDE DEF v
      <3>5. InHandIsOpen(v, rows'[t].classes, IsPython(t)) /\ ~StillWorking(t, v)
        BY <2>2, <3>2, <3>4 DEF InHandIsOpen, StillWorking
      <3>6. rows'[t].err \notin Retryable /\ (rows'[t].status = "RUNNING" => Holds(t) /\ rows'[t].status \in Active)
        BY <1>2, <3>3 DEF Holds
      <3> QED
        BY <1>1, <1>u, <3>2, <3>3, <3>4, <3>5, <3>6, OwnLock
    <2> QED
      BY <2>1, <2>2
  <1>16. ASSUME NEW c \in Classes, SelectClass(d, t, c) PROVE LockInv'
    <2> DEFINE v == [w EXCEPT !.pc = "turn", !.cls = c]
    <2>1. SetWorker(d, t, v) /\ SetRow(t, RecordStage(rows[t], c)) /\ w.pc = "run"
      BY <1>16 DEF SelectClass, WorkerAt
    <2>2. /\ rows'[t].classes = [k EXCEPT ![c] = IF @ \in TerminalClass THEN @ ELSE "RUNNING"]
          /\ rows'[t].status = rows[t].status /\ rows'[t].err = rows[t].err /\ Rest
      BY <1>0, <2>1 DEF SetRow, RecordStage, Row, Resumed
    <2>3. v.pc = "turn" /\ v.cls = c /\ v.fin = w.fin /\ v.res = w.res
      BY <1>0 DEF SyncingWorker, Worker
    <2>4. k[c] \notin TerminalClass
      BY <1>16, <1>2, <2>1 DEF SelectClass, Remaining, InHandIsOpen, LivePCs
    <2>5. \A b \in Classes : rows'[t].classes[b] \in TerminalClass <=> k[b] \in TerminalClass
      BY <1>r, <2>2 DEF TerminalClass
    <2> HIDE DEF v
    <2>6. InHandIsOpen(v, rows'[t].classes, IsPython(t))
      BY <1>2, <2>1, <2>3, <2>4, <2>5 DEF InHandIsOpen, LivePCs
    <2>7. Holds(t) /\ rows'[t].status \in Active
      BY <1>2, <2>1, <2>2, <2>4 DEF Unresolved
    <2> QED
      BY <1>1, <1>2, <2>1, <2>2, <2>3, <2>6, <2>7, OwnLock
  \* sync_results: RUNNING is written back only by a run that goes on, and such
  \* a run has read an active status.
  <1>17. CASE SyncWrite(d, t)
    <2> DEFINE l == SyncClasses(rows[t], w.res)
               status == SyncStatus(l, w.snap, w.fin)
    <2>0. /\ w.pc \in {"sync", "fsync"}
          /\ w.snap \in Statuses \cup {NotCreated} /\ w.fin \in ErrorClasses
      BY <1>17, <1>0 DEF SyncWrite, WorkerAt, SyncingWorker, Worker
    <2>1. \A c \in Classes : l[c] = IF w.res[c] \notin TerminalClass \/ k[c] = "BLOCKED"
                                    THEN k[c] ELSE w.res[c]
      BY DEF SyncClasses
    <2>2. \A c \in Classes : l[c] \notin TerminalClass => k[c] \notin TerminalClass
      BY <2>1 DEF TerminalClass
    <2>3. /\ Rest /\ rows'[t].classes = l /\ rows'[t].status = status
          /\ rows'[t].err \notin Retryable
      <3>1. PICK err \in SyncErrors(l, status, w.fin) \cap (ErrorKinds \cup {"none", w.fin}) :
               LET r == SyncRow(rows[t], w.res, w.snap, w.fin, err)
               IN  IF status \in SyncTerminal THEN Settle(t, r) ELSE SetRow(t, r)
        BY <1>17 DEF SyncWrite
      <3> DEFINE r == SyncRow(rows[t], w.res, w.snap, w.fin, err)
      <3>2. err \in ErrorClasses /\ err \notin Retryable
        BY <3>1, <1>2, <1>c, <2>0 DEF ErrorClasses, Retryable
      <3>3. r \in Row
        BY <3>2, <2>0, <1>0, SyncRowType
      <3>4. r.classes = l /\ r.status = status /\ r.err = err
        BY <1>0 DEF SyncRow, CountFailure, Row
      <3>5. CASE status \in SyncTerminal
        <4>1. Settle(t, r) /\ r.status \in TerminalStatuses
          BY <3>1, <3>4, <3>5 DEF SyncTerminal, TerminalStatuses
        <4> HIDE DEF r, l, status
        <4> QED
          BY <1>0, <3>2, <3>3, <3>4, <4>1, SettleResumes
      <3>6. CASE status \notin SyncTerminal
        <4>1. SetRow(t, r)
          BY <3>1, <3>6
        <4> HIDE DEF r, l, status
        <4> QED
          BY <1>0, <3>2, <3>4, <4>1 DEF SetRow, Resumed
      <3> QED
        BY <3>5, <3>6
    <2>4. Unresolved(t)' => Unresolved(t)
      BY <2>2, <2>3 DEF Unresolved
    <2>5. w.fin = "none" /\ Unresolved(t)' => Holds(t) /\ w.snap \in Active /\ status = w.snap
      <3>1. w.fin = "none" /\ Unresolved(t)' => Working(d, t) /\ Holds(t)
        BY <1>2, <2>4
      <3>2. Working(d, t) => w.snap \in Active
        BY <2>0 DEF LockInv, SnapIsActive
      <3>3. Unresolved(t)' => \E c \in Classes : l[c] \notin TerminalClass
        BY <2>3 DEF Unresolved
      <3> HIDE DEF l
      <3> QED
        BY <3>1, <3>2, <3>3 DEF SyncStatus, Active, TerminalClass
    <2>6. status = "RUNNING" => w.fin = "none" /\ Unresolved(t)'
      <3>1. status = "RUNNING" => w.fin = "none" /\ \E c \in Classes : l[c] \notin TerminalClass
        BY DEF SyncStatus
      <3> HIDE DEF l, status
      <3> QED
        BY <2>3, <3>1 DEF Unresolved
    <2> HIDE DEF status, l
    <2>7. CASE w.pc = "sync"
      <3> DEFINE v == [w EXCEPT !.pc = "run", !.cls = None, !.snap = "none"]
      <3>1. SetWorker(d, t, v)
        BY <1>17, <2>7 DEF SyncWrite
      <3>2. v.pc = "run" /\ v.fin = w.fin /\ v.res = w.res
        BY <1>0 DEF SyncingWorker, Worker
      <3> HIDE DEF v
      <3>3. InHandIsOpen(v, l, IsPython(t))
        BY <1>2, <2>1, <2>7, <3>2 DEF InHandIsOpen, LivePCs, TerminalClass
      <3>4. rows'[t].status = "RUNNING" \/ StillWorking(t, v) => Holds(t) /\ rows'[t].status \in Active
        BY <2>3, <2>5, <2>6, <3>2 DEF StillWorking
      <3> QED
        BY <1>1, <1>2, <2>3, <2>7, <3>1, <3>2, <3>3, <3>4, OwnLock
    <2>8. CASE w.pc # "sync"
      <3>1. Exit(d, t, "exit0")
        BY <1>17, <2>8 DEF SyncWrite
      <3> QED
        BY <1>e, <2>3, <2>5, <2>6, <3>1
    <2> QED
      BY <2>7, <2>8
  <1> QED
    BY <1>3, <1>4, <1>5, <1>6, <1>7, <1>8, <1>9, <1>10, <1>11, <1>12, <1>13, <1>14, <1>15, <1>16, <1>17
    DEF WorkerStep, WorkerFault

LEMMA InitLock == Init => LockInv
  <1> SUFFICES ASSUME Init PROVE LockInv
    OBVIOUS
  <1>1. \A d \in Daemons, t \in Tasks :
           wk[d][t].pc = "none" /\ wk[d][t].fin = "none" /\ picked[d] = None /\ pending[d] = {}
    BY DEF Init, NoWorker
  <1>2. \A d \in Daemons : pending[d] = {}
    BY DEF Init
  <1>3. \A t \in Tasks : rows[t].status = "NOT_CREATED" /\ rows[t].err = "none"
    BY DEF Init, NewRow, NotCreated
  <1>4. \A t \in Tasks : ~Holds(t)
    BY <1>1, <1>3, ConstantsAssumption DEF Holds, Working, Alive, LivePCs
  <1>5. \A d \in Daemons, t \in Tasks : ~Working(d, t)
    BY <1>1 DEF Working, Alive, LivePCs
  <1>6. OpenInHand
    BY <1>1 DEF OpenInHand, InHandIsOpen, LivePCs
  <1> QED
    BY <1>1, <1>2, <1>3, <1>4, <1>5, <1>6
    DEF LockInv, OneHolder, HolderIsActive, SnapIsActive, NothingRetries, RunsClean, Retryable

LEMMA NextLock ==
  ASSUME Sequential, LockScope, TypeInv, ProcessInv, LockInv, [Next]_vars
  PROVE  LockInv'
  <1>1. CASE UNCHANGED vars
    <2>1. UNCHANGED <<rows, wk, pending, picked>>
      BY <1>1 DEF vars, daemonVars
    <2>2. \A u \in Tasks : OpenSame(u) /\ rows'[u].err \notin Retryable
      BY <2>1 DEF LockInv, NothingRetries, OpenSame
    <2>3. \A u \in Tasks : Holds(u) => rows'[u].status \in Active
      BY <2>1 DEF LockInv, HolderIsActive
    <2>4. \A e \in Daemons : pending'[e] = {}
      BY <2>1 DEF LockInv, NothingRetries
    <2> QED
      BY <2>1, <2>2, <2>3, <2>4, OutsideLock
  <1>2. CASE Next
    BY <1>2, RequestKeepsLock, DaemonKeepsLock, WorkerKeepsLock DEF Next
  <1> QED
    BY <1>1, <1>2

\* No two tasks of one repository are RUNNING, while stops and preemptions move
\* the rows in and out of RUNNING and sync_results writes old statuses back:
\* within LockScope, for any number of repositories, tasks, slots and daemons in
\* sequence, crashes included.
THEOREM LockIsKept ==
  ASSUME Sequential, LockScope
  PROVE  Spec => []RepoLock
  <1> DEFINE Inv == TypeInv /\ ProcessInv /\ LockInv
  <1>1. Init => Inv
    BY InitTypes, InitProcesses, InitLock
  <1>2. Inv /\ [Next]_vars => Inv'
    BY NextTypes, NextProcesses, NextLock
  <1>3. Inv => RepoLock
    BY DEF LockInv, OneHolder, Holds, RepoLock
  <1> QED
    BY <1>1, <1>2, <1>3, PTL DEF Spec
=============================================================================

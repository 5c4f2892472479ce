------------------------ MODULE TaskLifecycleProofs ------------------------
(***************************************************************************)
(* Type correctness of TaskLifecycle, for any tasks, classes, daemons and   *)
(* limits; and a task never has two worker processes.                       *)
(***************************************************************************)
EXTENDS TaskLifecycle, TLAPS

-----------------------------------------------------------------------------
(* Every TaskManager method yields a row.                                  *)

LEMMA NewRowType == NewRow \in Row
  BY ThresholdAssumption
  DEF NewRow, Row, NotCreated, ErrorClasses, ClassStatuses, UnfinishedClass

LEMMA SetClassesType ==
  ASSUME NEW r \in Row, NEW from, NEW to \in ClassStatuses
  PROVE  SetClasses(r, from, to) \in Row
  BY DEF SetClasses, Row

LEMMA CountFailureType ==
  ASSUME NEW r \in Row
  PROVE  CountFailure(r) \in Row
  BY ThresholdAssumption DEF CountFailure, Row

LEMMA FinishTaskType ==
  ASSUME NEW r \in Row, NEW s \in TerminalStatuses, NEW err \in ErrorClasses,
         NEW failed \in BOOLEAN
  PROVE  FinishTask(r, s, err, failed) \in Row
  <1> DEFINE closing == [r EXCEPT !.status = s, !.err = err, !.closed = TRUE]
  <1>1. closing \in Row
    BY DEF Row, Statuses
  <1> QED
    BY <1>1, CountFailureType DEF FinishTask

LEMMA MarkFailedType ==
  ASSUME NEW r \in Row, NEW err \in ErrorClasses
  PROVE  MarkFailed(r, err) \in Row
  BY FinishTaskType DEF MarkFailed, TerminalStatuses

LEMMA MarkBudgetExceededType ==
  ASSUME NEW r \in Row, NEW err \in ErrorClasses
  PROVE  MarkBudgetExceeded(r, err) \in Row
  BY FinishTaskType DEF MarkBudgetExceeded, TerminalStatuses

LEMMA CancelRowType ==
  ASSUME NEW r \in Row
  PROVE  CancelRow(r) \in Row
  <1>1. [r EXCEPT !.controls = @ \cup {"cancel"}] \in Row
    BY DEF Row
  <1>2. SetClasses([r EXCEPT !.controls = @ \cup {"cancel"}], UnfinishedClass, "CANCELLED") \in Row
    BY <1>1, SetClassesType DEF ClassStatuses, TerminalClass
  <1>3. r.err \in ErrorClasses
    BY DEF Row
  <1> QED
    BY <1>2, <1>3, FinishTaskType DEF CancelRow, TerminalStatuses

LEMMA ResumeRowType ==
  ASSUME NEW r \in Row, NEW force
  PROVE  ResumeRow(r, force) \in Row
  <1>1. [r EXCEPT !.status = "QUEUED", !.err = "none", !.controls = {}] \in Row
    BY DEF Row, Statuses, ErrorClasses
  <1> QED
    BY <1>1, SetClassesType DEF ResumeRow, ClassStatuses, UnfinishedClass

LEMMA RequeueRowType ==
  ASSUME NEW r \in Row
  PROVE  RequeueRow(r) \in Row
  <1>1. [r EXCEPT !.status = "QUEUED", !.err = "none"] \in Row
    BY DEF Row, Statuses, ErrorClasses
  <1> QED
    BY <1>1, SetClassesType DEF RequeueRow, ClassStatuses, UnfinishedClass

\* The methods that assign fields and nothing else.
LEMMA AssignmentTypes ==
  ASSUME NEW r \in Row, NEW err \in ErrorClasses
  PROVE  /\ Create(r) \in Row
         /\ StartRow(r) \in Row
         /\ MarkRunning(r) \in Row
         /\ AcquireRow(r) \in Row
         /\ RequestStop(r) \in Row
         /\ SetStopRequested(r) \in Row
         /\ MarkStopped(r, err) \in Row
         /\ RetryRow(r) \in Row
         /\ UnblockRow(r) \in Row
  BY DEF Create, StartRow, MarkRunning, AcquireRow, RequestStop, SetStopRequested,
         MarkStopped, RetryRow, UnblockRow, Row, Statuses, ErrorClasses

LEMMA ClassUpdateTypes ==
  ASSUME NEW r \in Row, NEW c
  PROVE  /\ RecordStage(r, c) \in Row
         /\ BlockClass(r, c) \in Row
  BY DEF RecordStage, BlockClass, Row, ClassStatuses, UnfinishedClass, TerminalClass

\* sync_results: a status of its own, or the one it read.
LEMMA SyncRowType ==
  ASSUME NEW r \in Row, NEW res, NEW snap \in Statuses \cup {NotCreated},
         NEW fin, NEW err \in ErrorClasses
  PROVE  SyncRow(r, res, snap, fin, err) \in Row
  <1> DEFINE classes == SyncClasses(r, res)
             status  == SyncStatus(classes, snap, fin)
             written == [r EXCEPT !.classes = classes, !.status = status, !.err = err]
  <1>1. classes \in [Classes -> ClassStatuses]
    BY DEF SyncClasses, Row, ClassStatuses
  <1>2. status \in Statuses \cup {NotCreated}
    BY DEF SyncStatus, Statuses, TerminalStatuses
  <1>3. written \in Row
    BY <1>1, <1>2 DEF Row
  <1> QED
    BY <1>3, CountFailureType DEF SyncRow

-----------------------------------------------------------------------------
(* How an action may change the database, and a worker.                    *)

LEMMA SetRowType ==
  ASSUME rows \in [Tasks -> Row], NEW t \in Tasks, NEW r \in Row, SetRow(t, r)
  PROVE  rows' \in [Tasks -> Row]
  BY DEF SetRow

\* Settling a task resumes the tasks it preempted.
LEMMA SettleType ==
  ASSUME rows \in [Tasks -> Row], NEW t \in Tasks, NEW r \in Row, Settle(t, r)
  PROVE  rows' \in [Tasks -> Row]
  <1> DEFINE R == [rows EXCEPT ![t] = r]
  <1>1. R \in [Tasks -> Row]
    OBVIOUS
  <1>2. \A u \in Tasks : ResumeRow(R[u], "none") \in Row
    BY <1>1, ResumeRowType
  <1>3. ResumePreempted(R, t) \in [Tasks -> Row]
    BY <1>1, <1>2 DEF ResumePreempted
  <1> QED
    BY <1>3 DEF Settle

LEMMA NoWorkerType ==
  /\ NoWorker \in SyncingWorker
  /\ \A code \in {"boot", "exit0", "exit1"} : [NoWorker EXCEPT !.pc = code] \in SyncingWorker
  BY DEF NoWorker, NoResults, SyncingWorker, Worker, WorkerPCs, LivePCs, ErrorClasses

LEMMA SetWorkerType ==
  ASSUME wk \in [Daemons -> [Tasks -> SyncingWorker]],
         NEW d \in Daemons, NEW t \in Tasks, NEW w \in SyncingWorker, SetWorker(d, t, w)
  PROVE  wk' \in [Daemons -> [Tasks -> SyncingWorker]]
  BY DEF SetWorker

LEMMA ExitType ==
  ASSUME wk \in [Daemons -> [Tasks -> SyncingWorker]],
         NEW d \in Daemons, NEW t \in Tasks, NEW code \in {"exit0", "exit1"}, Exit(d, t, code)
  PROVE  wk' \in [Daemons -> [Tasks -> SyncingWorker]]
  <1>1. /\ NoWorker \in SyncingWorker
        /\ [NoWorker EXCEPT !.pc = code] \in SyncingWorker
    BY NoWorkerType
  <1>2. (IF Running(d) THEN [NoWorker EXCEPT !.pc = code] ELSE NoWorker) \in SyncingWorker
    BY <1>1
  <1> QED
    BY <1>2, SetWorkerType DEF Exit

LEMMA AbortType ==
  ASSUME wk \in [Daemons -> [Tasks -> SyncingWorker]],
         NEW d \in Daemons, NEW t \in Tasks, NEW err \in ErrorClasses, Abort(d, t, err)
  PROVE  wk' \in [Daemons -> [Tasks -> SyncingWorker]]
  <1>1. [NoWorker EXCEPT !.pc = "final", !.fin = err] \in SyncingWorker
    BY DEF NoWorker, NoResults, SyncingWorker, Worker, WorkerPCs, LivePCs
  <1> QED
    BY <1>1, ExitType, SetWorkerType DEF Abort

LEMMA SpawnType ==
  ASSUME TypeInv, NEW d \in Daemons, NEW t \in Tasks, NEW count \in 0..RetryBound,
         Spawn(d, t, count)
  PROVE  /\ wk' \in [Daemons -> [Tasks -> SyncingWorker]]
         /\ pool' \in [Daemons -> SUBSET Tasks]
         /\ retry' \in [Daemons -> [Tasks -> 0..RetryBound]]
  <1>1. [NoWorker EXCEPT !.pc = "boot"] \in SyncingWorker
    BY NoWorkerType
  <1> QED
    BY <1>1 DEF Spawn, TypeInv, TypeOK

\* Two spellings of the same types: what TypeInv says beyond TypeOK.
LEMMA SyncingIsWorker ==
  ASSUME wk' \in [Daemons -> [Tasks -> SyncingWorker]]
  PROVE  wk' \in [Daemons -> [Tasks -> Worker]]
  BY DEF SyncingWorker

-----------------------------------------------------------------------------
(* Each group of actions keeps the types.                                  *)

LEMMA RequestKeepsTypes ==
  ASSUME TypeInv, Request
  PROVE  TypeInv'
  <1> USE ConstantsAssumption
  <1> DEFINE Good == /\ rows' \in [Tasks -> Row]
                     /\ ops' \in 0..MaxOperations
                     /\ stopping' \subseteq Tasks \X (Tasks \cup {None})
                     /\ preempting' \subseteq Tasks \X Tasks
                     /\ preempted' \subseteq Tasks \X Tasks
                     /\ RequestOnly
  <1>0. /\ rows \in [Tasks -> Row]
        /\ ops \in 0..MaxOperations
        /\ stopping \subseteq Tasks \X (Tasks \cup {None})
        /\ preempting \subseteq Tasks \X Tasks
        /\ preempted \subseteq Tasks \X Tasks
    BY DEF TypeInv, TypeOK
  <1>s. SUFFICES Good
    BY DEF TypeInv, TypeOK, RequestOnly, daemonVars
  <1>a. \A t \in Tasks : /\ Create(rows[t]) \in Row
                         /\ RequestStop(rows[t]) \in Row
                         /\ StartRow(rows[t]) \in Row
                         /\ SetStopRequested(rows[t]) \in Row
                         /\ UnblockRow(rows[t]) \in Row
    BY <1>0, AssignmentTypes DEF ErrorClasses
  <1>b. \A op : Command(op) => ops' \in 0..MaxOperations /\ RequestOnly
    BY <1>0 DEF Command
  <1>1. ASSUME NEW t \in Tasks, CreateTask(t) PROVE Good
    <2>1. rows' \in [Tasks -> Row]
      BY <1>1, <1>0, <1>a, SetRowType DEF CreateTask
    <2> QED
      BY <1>1, <1>0, <2>1 DEF CreateTask
  <1>2. ASSUME NEW t \in Tasks, StartTask(t) PROVE Good
    <2>1. rows' \in [Tasks -> Row]
      BY <1>2, <1>0, <1>a, SetRowType DEF StartTask
    <2> QED
      BY <1>2, <1>0, <1>b, <2>1 DEF StartTask
  <1>3. ASSUME NEW t \in Tasks, StopTask(t) PROVE Good
    <2>1. rows' \in [Tasks -> Row]
      BY <1>3, <1>0, <1>a, SetRowType DEF StopTask
    <2> QED
      BY <1>3, <1>0, <1>b, <2>1 DEF StopTask
  <1>4. ASSUME NEW t \in Tasks, CancelTask(t) PROVE Good
    <2>1. rows' \in [Tasks -> Row]
      BY <1>4, <1>0, CancelRowType, SetRowType DEF CancelTask
    <2> QED
      BY <1>4, <1>0, <1>b, <2>1 DEF CancelTask
  <1>5. ASSUME NEW t \in Tasks, UnblockTask(t) PROVE Good
    <2>1. rows' \in [Tasks -> Row]
      BY <1>5, <1>0, <1>a, SetRowType DEF UnblockTask
    <2> QED
      BY <1>5, <1>0, <1>b, <2>1 DEF UnblockTask
  <1>6. ASSUME NEW t \in Tasks, NEW op, ResumeTask(t, op) PROVE Good
    <2>1. rows' \in [Tasks -> Row]
      BY <1>6, <1>0, ResumeRowType, SetRowType DEF ResumeTask
    <2> QED
      BY <1>6, <1>0, <1>b, <2>1 DEF ResumeTask
  <1>7. ASSUME NEW t \in Tasks, NEW u \in Tasks \cup {None}, StopTaskStatus(t, u) PROVE Good
    <2>1. rows' \in [Tasks -> Row]
      BY <1>7, <1>0, <1>a, SetRowType DEF StopTaskStatus
    <2> QED
      BY <1>7, <1>0, <2>1 DEF StopTaskStatus
  <1>8. ASSUME NEW t \in Tasks, NEW u \in Tasks, PreemptStop(t, u) PROVE Good
    <2>1. rows' \in [Tasks -> Row]
      BY <1>8, <1>0, <1>a, SetRowType DEF PreemptStop
    <2> QED
      BY <1>8, <1>0, <2>1 DEF PreemptStop
  <1> QED
    BY <1>1, <1>2, <1>3, <1>4, <1>5, <1>6, <1>7, <1>8 DEF Request

LEMMA WorkerKeepsTypes ==
  ASSUME TypeInv, NEW d \in Daemons, NEW t \in Tasks, WorkerStep(d, t) \/ WorkerFault(d, t)
  PROVE  TypeInv'
  <1> USE ConstantsAssumption
  <1> DEFINE RowsOK == rows' \in [Tasks -> Row]
             WkOK   == wk' \in [Daemons -> [Tasks -> SyncingWorker]]
             Good   == RowsOK /\ WkOK /\ WorkerOnly
  <1>0. /\ rows \in [Tasks -> Row]
        /\ rows[t] \in Row
        /\ wk \in [Daemons -> [Tasks -> SyncingWorker]]
        /\ wk[d][t] \in SyncingWorker
    BY DEF TypeInv, TypeOK
  <1>s. SUFFICES Good
    BY SyncingIsWorker DEF TypeInv, TypeOK, WorkerOnly, daemonVars, requestVars
  <1>a. ErrorKinds \cup StopKinds \cup {"none", "class_fail_continue", "budget_abort"} \subseteq ErrorClasses
    BY DEF ErrorClasses, Policies
  <1>b. UNCHANGED rows => RowsOK
    BY <1>0
  <1>1. ASSUME Boot(d, t) PROVE Good
    <2>1. RowsOK
      BY <1>1, <1>0, <1>a, AssignmentTypes, SetRowType DEF Boot
    <2>2. WkOK
      <3> DEFINE rs == [c \in Classes |-> IF IsPython(t) /\ rows[t].classes[c] \in TerminalClass
                                          THEN "skip" ELSE "none"]
                 w  == [wk[d][t] EXCEPT !.pc = "run", !.res = rs]
      <3>1. w \in SyncingWorker
        BY <1>0 DEF SyncingWorker, Worker, WorkerPCs, LivePCs
      <3> QED
        BY <1>1, <1>0, <3>1, SetWorkerType DEF Boot
    <2> QED
      BY <1>1, <2>1, <2>2 DEF Boot
  <1>2. ASSUME ObserveStop(d, t) PROVE Good
    <2>1. RowsOK
      BY <1>2, <1>0, <1>a, AssignmentTypes, SetRowType DEF ObserveStop
    <2>2. WkOK
      BY <1>2, <1>0, ExitType DEF ObserveStop
    <2> QED
      BY <1>2, <2>1, <2>2 DEF ObserveStop
  <1>d. ASSUME NEW err \in ErrorClasses, Unhandled(d, t, err) PROVE RowsOK /\ WkOK
    <2>1. RowsOK
      BY <1>d, <1>0, <1>b, MarkFailedType, SettleType DEF Unhandled
    <2>2. WkOK
      BY <1>d, <1>0, AbortType DEF Unhandled
    <2> QED
      BY <2>1, <2>2
  <1>3. ASSUME PauseTurn(d, t) PROVE Good
    BY <1>3, <1>a, <1>d DEF PauseTurn
  <1>4. ASSUME Deliver(d, t) PROVE Good
    <2>1. RowsOK
      BY <1>4, <1>0 DEF Deliver
    <2>2. WkOK
      <3>1. PICK result \in Results :
               SetWorker(d, t, [wk[d][t] EXCEPT !.pc = "push", !.res[wk[d][t].cls] = result])
        BY <1>4 DEF Deliver
      <3>2. [wk[d][t] EXCEPT !.pc = "push", !.res[wk[d][t].cls] = result] \in SyncingWorker
        BY <1>0 DEF SyncingWorker, Worker, WorkerPCs, LivePCs
      <3> QED
        BY <3>1, <3>2, <1>0, SetWorkerType
    <2> QED
      BY <1>4, <2>1, <2>2 DEF Deliver
  <1>5. ASSUME SyncRead(d, t) PROVE Good
    <2> DEFINE w == [wk[d][t] EXCEPT !.pc = IF @ = "push" THEN "sync" ELSE "fsync",
                                     !.snap = rows[t].status]
    <2>1. rows[t].status \in Statuses \cup {NotCreated} /\ rows[t].status # "none"
      BY <1>0 DEF Row, Statuses, TerminalStatuses, NotCreated
    <2>2. w \in SyncingWorker
      BY <1>0, <2>1 DEF SyncingWorker, Worker, WorkerPCs, LivePCs
    <2>3. WkOK
      BY <1>5, <1>0, <2>2, SetWorkerType DEF SyncRead
    <2> QED
      BY <1>5, <1>b, <2>3 DEF SyncRead
  <1>6. ASSUME SyncWrite(d, t) PROVE Good
    <2> DEFINE w       == wk[d][t]
               classes == SyncClasses(rows[t], w.res)
               status  == SyncStatus(classes, w.snap, w.fin)
    <2>0. w.snap \in Statuses \cup {NotCreated} /\ w.fin \in ErrorClasses
      BY <1>6, <1>0 DEF SyncWrite, WorkerAt, SyncingWorker, Worker
    <2>1. RowsOK
      <3>1. PICK err \in SyncErrors(classes, status, w.fin) \cap (ErrorKinds \cup {"none", w.fin}) :
               LET r == SyncRow(rows[t], w.res, w.snap, w.fin, err)
               IN  IF status \in SyncTerminal THEN Settle(t, r) ELSE SetRow(t, r)
        BY <1>6 DEF SyncWrite
      <3>2. err \in ErrorClasses
        BY <3>1, <1>a, <2>0
      <3>3. SyncRow(rows[t], w.res, w.snap, w.fin, err) \in Row
        BY <3>2, <2>0, <1>0, SyncRowType
      <3> QED
        BY <3>1, <3>3, <1>0, SettleType, SetRowType
    <2>2. WkOK
      <3>1. [w EXCEPT !.pc = "run", !.cls = None, !.snap = "none"] \in SyncingWorker
        BY <1>0 DEF SyncingWorker, Worker, WorkerPCs, LivePCs
      <3> QED
        BY <1>6, <3>1, <1>0, SetWorkerType, ExitType DEF SyncWrite
    <2> QED
      BY <1>6, <2>1, <2>2 DEF SyncWrite
  <1>7. ASSUME FinishRun(d, t) PROVE Good
    <2>1. [wk[d][t] EXCEPT !.pc = "final"] \in SyncingWorker
      BY <1>0 DEF SyncingWorker, Worker, WorkerPCs, LivePCs
    <2>2. WkOK
      BY <1>7, <1>0, <2>1, SetWorkerType, ExitType DEF FinishRun
    <2> QED
      BY <1>7, <1>b, <2>2 DEF FinishRun
  <1>8. ASSUME NEW c \in Classes, SelectClass(d, t, c) PROVE Good
    <2>1. RowsOK
      BY <1>8, <1>0, ClassUpdateTypes, SetRowType DEF SelectClass
    <2>2. [wk[d][t] EXCEPT !.pc = "turn", !.cls = c] \in SyncingWorker
      BY <1>0 DEF SyncingWorker, Worker, WorkerPCs, LivePCs
    <2>3. WkOK
      BY <1>8, <1>0, <2>2, SetWorkerType DEF SelectClass
    <2> QED
      BY <1>8, <2>1, <2>3 DEF SelectClass
  <1>9. ASSUME PipelineError(d, t) PROVE Good
    BY <1>9, <1>a, <1>d DEF PipelineError
  <1>10. ASSUME StopEarly(d, t) PROVE Good
    <2>1. \A err \in ErrorKinds :
             [wk[d][t] EXCEPT !.pc = "final", !.fin = err, !.cls = None] \in SyncingWorker
      BY <1>0, <1>a DEF SyncingWorker, Worker, WorkerPCs, LivePCs
    <2>2. WkOK
      BY <1>10, <1>0, <2>1, SetWorkerType, ExitType DEF StopEarly
    <2> QED
      BY <1>10, <1>b, <2>2 DEF StopEarly
  <1>11. ASSUME UnsafeDiff(d, t) PROVE Good
    <2>1. MarkFailed(BlockClass(rows[t], wk[d][t].cls), "class_fail_continue") \in Row
      BY <1>0, <1>a, ClassUpdateTypes, MarkFailedType
    <2>2. RowsOK
      BY <1>11, <1>0, <2>1, SettleType DEF UnsafeDiff
    <2>3. WkOK
      BY <1>11, <1>0, <1>a, AbortType DEF UnsafeDiff
    <2> QED
      BY <1>11, <2>2, <2>3 DEF UnsafeDiff
  <1>12. ASSUME CurrencyCap(d, t) PROVE Good
    <2>1. RowsOK
      BY <1>12, <1>0, <1>a, MarkBudgetExceededType, SettleType DEF CurrencyCap
    <2>2. WkOK
      BY <1>12, <1>0, <1>a, AbortType DEF CurrencyCap
    <2> QED
      BY <1>12, <2>1, <2>2 DEF CurrencyCap
  <1>13. ASSUME TurnCap(d, t) PROVE Good
    <2> DEFINE failed == MarkFailed(BlockClass(rows[t], wk[d][t].cls), "budget_abort")
    <2>1. MarkBudgetExceeded(failed, "budget_abort") \in Row
      BY <1>0, <1>a, ClassUpdateTypes, MarkFailedType, MarkBudgetExceededType
    <2>2. RowsOK
      BY <1>13, <1>0, <2>1, SettleType DEF TurnCap
    <2>3. WkOK
      BY <1>13, <1>0, <1>a, AbortType DEF TurnCap
    <2> QED
      BY <1>13, <2>2, <2>3 DEF TurnCap
  <1>14. ASSUME WorkerDies(d, t) PROVE Good
    <2>1. WkOK
      BY <1>14, <1>0, ExitType DEF WorkerDies
    <2> QED
      BY <1>14, <1>b, <2>1 DEF WorkerDies
  <1>15. ASSUME NEW c \in Classes, UnsafeWorkspace(d, t, c) PROVE Good
    <2> DEFINE failed == MarkFailed(BlockClass(rows[t], c), "class_fail_continue")
    <2>1. MarkFailed(failed, "class_fail_continue") \in Row
      BY <1>0, <1>a, ClassUpdateTypes, MarkFailedType
    <2>2. RowsOK
      BY <1>15, <1>0, <2>1, SettleType DEF UnsafeWorkspace
    <2>3. WkOK
      BY <1>15, <1>0, <1>a, AbortType DEF UnsafeWorkspace
    <2> QED
      BY <1>15, <2>2, <2>3 DEF UnsafeWorkspace
  <1> QED
    BY <1>1, <1>2, <1>3, <1>4, <1>5, <1>6, <1>7, <1>8, <1>9, <1>10, <1>11, <1>12, <1>13,
       <1>14, <1>15
    DEF WorkerStep, WorkerFault

\* The daemon's variables, one by one.
LEMMA DaemonKeepsTypes ==
  ASSUME TypeInv, NEW d \in Daemons,
         \/ StartDaemon(d) \/ DaemonStep(d) \/ DaemonEnds(d) \/ HeartbeatExpires(d)
         \/ \E t \in Tasks : BackoffElapses(d, t)
  PROVE  TypeInv'
  <1> USE ConstantsAssumption
  <1> DEFINE RowsOK == rows' \in [Tasks -> Row]
             ModeOK == mode' \in [Daemons -> {"new", "up", "draining", "dead"}]
             PcOK   == pc' \in [Daemons -> LoopPCs]
             SetsOK == /\ pool' \in [Daemons -> SUBSET Tasks]
                       /\ pending' \in [Daemons -> SUBSET Tasks]
                       /\ ready' \in [Daemons -> SUBSET Tasks]
                       /\ live' \in [Daemons -> SUBSET Tasks]
             RetryOK == retry' \in [Daemons -> [Tasks -> 0..RetryBound]]
             TaskOK == /\ picked' \in [Daemons -> Tasks \cup {None}]
                       /\ hb' \in [Daemons -> Tasks \cup {None}]
             WkOK   == wk' \in [Daemons -> [Tasks -> SyncingWorker]]
             Good   == RowsOK /\ ModeOK /\ PcOK /\ SetsOK /\ RetryOK /\ TaskOK /\ WkOK
                       /\ UNCHANGED requestVars
  <1>s. SUFFICES Good
    BY SyncingIsWorker DEF TypeInv, TypeOK, requestVars
  <1>0. /\ rows \in [Tasks -> Row]
        /\ mode \in [Daemons -> {"new", "up", "draining", "dead"}]
        /\ pc \in [Daemons -> LoopPCs]
        /\ pool \in [Daemons -> SUBSET Tasks]
        /\ pending \in [Daemons -> SUBSET Tasks]
        /\ ready \in [Daemons -> SUBSET Tasks]
        /\ live \in [Daemons -> SUBSET Tasks]
        /\ retry \in [Daemons -> [Tasks -> 0..RetryBound]]
        /\ picked \in [Daemons -> Tasks \cup {None}]
        /\ hb \in [Daemons -> Tasks \cup {None}]
        /\ wk \in [Daemons -> [Tasks -> SyncingWorker]]
    BY DEF TypeInv, TypeOK
  <1>a. /\ RetryBound \in Nat
        /\ MaxRetries <= RetryBound /\ 1 <= RetryBound
        /\ 0 \in 0..RetryBound
    BY DEF RetryBound
  <1>b. NoWorker \in SyncingWorker
    BY NoWorkerType
  <1>c. /\ "class_fail_continue" \in ErrorClasses
        /\ \A t \in Tasks : rows[t] \in Row /\ Policy(t) \in ErrorClasses
    BY <1>0 DEF ErrorClasses, Policies, Policy, Row
  <1>d. \A label \in LoopPCs : Goto(d, label) => PcOK
    BY <1>0 DEF Goto
  <1>e. /\ "reap" \in LoopPCs /\ "promote" \in LoopPCs /\ "scan" \in LoopPCs
        /\ "orphans" \in LoopPCs /\ "acquire" \in LoopPCs /\ "beat" \in LoopPCs
        /\ "launch" \in LoopPCs
    BY DEF LoopPCs
  <1>f. Forget(d) => /\ ModeOK /\ PcOK /\ SetsOK /\ RetryOK
                     /\ picked' \in [Daemons -> Tasks \cup {None}]
    BY <1>0, <1>a, <1>d, <1>e DEF Forget
  <1>1. ASSUME StartDaemon(d) PROVE Good
    BY <1>1, <1>0 DEF StartDaemon
  <1>2. ASSUME ReapDone(d) PROVE Good
    <2>1. ModeOK /\ PcOK /\ SetsOK /\ RetryOK /\ picked' \in [Daemons -> Tasks \cup {None}]
      BY <1>2, <1>0, <1>d, <1>e, <1>f DEF ReapDone
    <2> QED
      BY <1>2, <1>0, <2>1 DEF ReapDone
  <1>3. ASSUME PromoteDone(d) PROVE Good
    BY <1>3, <1>0, <1>d, <1>e DEF PromoteDone
  <1>4. ASSUME ScanProcesses(d) PROVE Good
    <2>1. live' \in [Daemons -> SUBSET Tasks]
      BY <1>4, <1>0 DEF ScanProcesses, LiveTasks
    <2> QED
      BY <1>4, <1>0, <1>d, <1>e, <2>1 DEF ScanProcesses
  <1>5. ASSUME RequeueOrphans(d) PROVE Good
    <2>1. RowsOK
      BY <1>5, <1>c, RequeueRowType DEF RequeueOrphans
    <2> QED
      BY <1>5, <1>0, <1>d, <1>e, <2>1 DEF RequeueOrphans
  <1>6. ASSUME AcquireHeartbeat(d) PROVE Good
    BY <1>6, <1>0, <1>d, <1>e DEF AcquireHeartbeat
  <1>7. ASSUME AcquireDone(d) PROVE Good
    <2>1. hb' \in [Daemons -> Tasks \cup {None}] /\ live' \in [Daemons -> SUBSET Tasks]
      BY <1>7, <1>0 DEF AcquireDone
    <2> QED
      BY <1>7, <1>0, <1>d, <1>e, <2>1 DEF AcquireDone
  <1>8. ASSUME NEW t \in Tasks, ReapFinished(d, t) PROVE Good
    <2>1. /\ pool' \in [Daemons -> SUBSET Tasks]
          /\ TaskOK /\ WkOK /\ ModeOK /\ PcOK
          /\ live' \in [Daemons -> SUBSET Tasks]
      BY <1>8, <1>0, <1>b DEF ReapFinished
    <2>2. CASE wk[d][t].pc = "exit0"
      <3>1. retry' = [retry EXCEPT ![d][t] = 0] /\ UNCHANGED <<rows, pending, ready>>
        BY <1>8, <2>2 DEF ReapFinished
      <3>2. RetryOK
        BY <1>0, <1>a, <3>1
      <3> QED
        BY <1>8, <1>0, <2>1, <3>1, <3>2 DEF ReapFinished
    <2>3. CASE wk[d][t].pc = "exit1"
      <3>0. ReapFailure(d, t)
        BY <1>8, <2>3 DEF ReapFinished
      <3>1. CASE Retries(d, t)
        <4>1. retry[d][t] + 1 \in 0..RetryBound
          BY <1>0, <1>a, <3>1 DEF Retries
        <4>2. RowsOK
          BY <3>0, <3>1, <1>0, <1>c, AssignmentTypes, SetRowType DEF ReapFailure
        <4>3. /\ pending' \in [Daemons -> SUBSET Tasks]
              /\ ready' \in [Daemons -> SUBSET Tasks]
          <5>1. /\ pending' = [pending EXCEPT ![d] = @ \cup {t}]
                /\ ready' = [ready EXCEPT ![d] =
                              IF Policy(t) = "transient" THEN @ \ {t} ELSE @ \cup {t}]
            BY <3>0, <3>1 DEF ReapFailure
          <5> QED
            BY <5>1, <1>0
        <4>4. RetryOK
          <5>1. retry' = [retry EXCEPT ![d][t] = @ + 1]
            BY <3>0, <3>1 DEF ReapFailure
          <5> QED
            BY <5>1, <4>1, <1>0
        <4> QED
          BY <1>8, <2>1, <4>2, <4>3, <4>4 DEF ReapFinished
      <3>2. CASE ~Retries(d, t)
        <4> DEFINE r == IF Policy(t) = "budget_abort"
                        THEN MarkBudgetExceeded(rows[t], Policy(t))
                        ELSE MarkFailed(rows[t], Policy(t))
        <4>1. r \in Row
          BY <1>c, MarkBudgetExceededType, MarkFailedType
        <4>2. RowsOK
          BY <3>0, <3>2, <4>1, <1>0, SettleType DEF ReapFailure
        <4>3. RetryOK
          <5>1. retry' = [retry EXCEPT ![d][t] = 0]
            BY <3>0, <3>2 DEF ReapFailure
          <5> QED
            BY <5>1, <1>0, <1>a
        <4> QED
          BY <1>8, <1>0, <3>0, <3>2, <2>1, <4>2, <4>3 DEF ReapFinished, ReapFailure
      <3> QED
        BY <3>1, <3>2
    <2> QED
      BY <1>8, <2>2, <2>3 DEF ReapFinished
  <1>9. ASSUME NEW t \in Tasks, PromoteRetry(d, t) PROVE Good
    <2>0. retry[d][t] \in 0..RetryBound
      BY <1>0
    <2>1. WkOK /\ RetryOK /\ pool' \in [Daemons -> SUBSET Tasks]
      BY <1>9, <2>0, SpawnType DEF PromoteRetry
    <2> QED
      BY <1>9, <1>0, <2>1 DEF PromoteRetry
  <1>10. ASSUME NEW t \in Tasks, PromoteRejected(d, t) PROVE Good
    <2>1. RowsOK
      BY <1>10, <1>0, <1>c, MarkFailedType, SettleType DEF PromoteRejected
    <2> QED
      BY <1>10, <1>0, <1>a, <2>1 DEF PromoteRejected
  <1>11. ASSUME NEW t \in Tasks, AcquireNext(d, t) PROVE Good
    <2>1. RowsOK
      BY <1>11, <1>0, <1>c, AssignmentTypes, SetRowType DEF AcquireNext
    <2> QED
      BY <1>11, <1>0, <1>d, <1>e, <2>1 DEF AcquireNext
  <1>12. ASSUME NEW t \in Tasks, Launch(d, t) PROVE Good
    <2>1. WkOK /\ RetryOK /\ pool' \in [Daemons -> SUBSET Tasks]
      BY <1>12, <1>a, SpawnType DEF Launch
    <2> QED
      BY <1>12, <1>0, <1>d, <1>e, <2>1 DEF Launch
  <1>13. ASSUME NEW t \in Tasks, LaunchRejected(d, t) PROVE Good
    <2>1. RowsOK
      BY <1>13, <1>0, <1>c, MarkFailedType, SettleType DEF LaunchRejected
    <2> QED
      BY <1>13, <1>0, <1>d, <1>e, <2>1 DEF LaunchRejected
  <1>14. ASSUME Shutdown(d) PROVE Good
    BY <1>14, <1>0 DEF Shutdown
  <1>15. ASSUME ForceExit(d) PROVE Good
    <2>1. RowsOK
      BY <1>15, <1>c, RequeueRowType DEF ForceExit
    <2>2. WkOK
      BY <1>15, <1>0, <1>b DEF ForceExit
    <2> QED
      BY <1>15, <1>0, <1>f, <2>1, <2>2 DEF ForceExit
  <1>16. ASSUME Crash(d) PROVE Good
    <2>1. WkOK
      BY <1>16, <1>0, <1>b DEF Crash
    <2> QED
      BY <1>16, <1>0, <1>f, <2>1 DEF Crash
  <1>17. ASSUME HeartbeatExpires(d) PROVE Good
    BY <1>17, <1>0 DEF HeartbeatExpires
  <1>18. ASSUME NEW t \in Tasks, BackoffElapses(d, t) PROVE Good
    BY <1>18, <1>0 DEF BackoffElapses
  <1> QED
    BY <1>1, <1>2, <1>3, <1>4, <1>5, <1>6, <1>7, <1>8, <1>9, <1>10, <1>11, <1>12, <1>13,
       <1>14, <1>15, <1>16, <1>17, <1>18
    DEF DaemonStep, DaemonEnds

LEMMA InitTypes == Init => TypeInv
  <1> SUFFICES ASSUME Init PROVE TypeInv
    OBVIOUS
  <1> USE ConstantsAssumption
  <1>1. 0 \in 0..RetryBound /\ 0 \in 0..MaxOperations
    BY DEF RetryBound
  <1>2. NoWorker \in SyncingWorker /\ NoWorker \in Worker
    BY NoWorkerType DEF SyncingWorker
  <1> QED
    BY <1>1, <1>2, NewRowType DEF Init, TypeInv, TypeOK, LoopPCs

LEMMA NextTypes == TypeInv /\ [Next]_vars => TypeInv'
  <1> SUFFICES ASSUME TypeInv, [Next]_vars PROVE TypeInv'
    OBVIOUS
  <1>1. CASE UNCHANGED vars
    BY <1>1 DEF TypeInv, TypeOK, vars, daemonVars, requestVars
  <1>2. CASE Next
    BY <1>2, RequestKeepsTypes, DaemonKeepsTypes, WorkerKeepsTypes DEF Next
  <1> QED
    BY <1>1, <1>2

\* The types hold in every reachable state: whatever order commands, commits,
\* crashes and stale snapshots come in, every row of the database keeps a known
\* status, retry counts stay within their bound, and a status written back by
\* sync_results is one that a row had.
THEOREM TypeCorrect == Spec => []TypeOK
  <1>1. Spec => []TypeInv
    BY InitTypes, NextTypes, PTL DEF Spec
  <1>2. TypeInv => TypeOK
    BY DEF TypeInv
  <1> QED
    BY <1>1, <1>2, PTL

-----------------------------------------------------------------------------
(* One worker process per task, as long as one daemon runs at a time and   *)
(* the process scan works.  OneWorkerPerTask is not inductive: it needs to *)
(* know where a live process of a task can come from.  ProcessInv says it: *)
(* a process is a child of the running daemon, and then it is in its pool, *)
(* or it outlived a daemon that died, and then the scan of the pass in     *)
(* progress has seen it.                                                   *)


\* The supervisor runs one daemon at a time, and ps answers.
Sequential == ConcurrentDaemons = FALSE /\ ScanFails = FALSE

\* Steps that change no pool, queue or program counter of a daemon, and start
\* no process.
LEMMA QuietStep ==
  ASSUME TypeInv, ProcessInv,
         UNCHANGED <<mode, pc, pool, pending, ready, live, picked>>,
         \A d \in Daemons, t \in Tasks : Alive(d, t)' => Alive(d, t)
  PROVE  ProcessInv'
  <1>1. LiveTasks' \subseteq LiveTasks
    BY DEF LiveTasks
  <1>2. \A d \in Daemons : Running(d)' <=> Running(d)
    BY DEF Running
  <1>3. OneWorkerPerTask'
    BY <1>1 DEF ProcessInv, OneWorkerPerTask, Launchable
  <1>4. OneDaemon' /\ IdleDaemon'
    BY <1>2 DEF ProcessInv, OneDaemon, IdleDaemon
  <1>7. RetriesWait' /\ PickedWaits'
    BY DEF ProcessInv, RetriesWait, PickedWaits
  <1>5. FreshDaemon' /\ ChildrenPooled'
    BY <1>2 DEF ProcessInv, FreshDaemon, ChildrenPooled
  <1>8. PoolExclusive'
    BY DEF ProcessInv, PoolExclusive, TypeInv, TypeOK
  <1>6. ScanCovers'
    BY <1>1, <1>2 DEF ProcessInv, ScanCovers
  <1> QED
    BY <1>3, <1>4, <1>5, <1>6, <1>7, <1>8 DEF ProcessInv

\* A worker step is a step of a live process and touches no other.
LEMMA WorkerIsAlive ==
  ASSUME NEW d \in Daemons, NEW t \in Tasks, WorkerStep(d, t) \/ WorkerFault(d, t)
  PROVE  Alive(d, t) /\ WorkerOnly /\ \E w : SetWorker(d, t, w)
  <1> USE DEF Exit, Abort, Unhandled, WorkerAt, Alive, LivePCs
  <1>1. CASE Boot(d, t) BY <1>1 DEF Boot
  <1>2. CASE ObserveStop(d, t) BY <1>2 DEF ObserveStop
  <1>3. CASE PauseTurn(d, t) BY <1>3 DEF PauseTurn
  <1>4. CASE Deliver(d, t) BY <1>4 DEF Deliver
  <1>5. CASE SyncRead(d, t) BY <1>5 DEF SyncRead
  <1>6. CASE SyncWrite(d, t) BY <1>6 DEF SyncWrite
  <1>7. CASE FinishRun(d, t) BY <1>7 DEF FinishRun
  <1>8. CASE \E c \in Classes : SelectClass(d, t, c) BY <1>8 DEF SelectClass
  <1>9. CASE PipelineError(d, t) BY <1>9 DEF PipelineError
  <1>10. CASE StopEarly(d, t) BY <1>10 DEF StopEarly
  <1>11. CASE UnsafeDiff(d, t) BY <1>11 DEF UnsafeDiff
  <1>12. CASE CurrencyCap(d, t) BY <1>12 DEF CurrencyCap
  <1>13. CASE TurnCap(d, t) BY <1>13 DEF TurnCap
  <1>14. CASE WorkerDies(d, t) BY <1>14 DEF WorkerDies
  <1>15. CASE \E c \in Classes : UnsafeWorkspace(d, t, c) BY <1>15 DEF UnsafeWorkspace
  <1> QED
    BY <1>1, <1>2, <1>3, <1>4, <1>5, <1>6, <1>7, <1>8, <1>9, <1>10, <1>11, <1>12, <1>13,
       <1>14, <1>15
    DEF WorkerStep, WorkerFault

LEMMA WorkerKeepsProcesses ==
  ASSUME TypeInv, ProcessInv, NEW d \in Daemons, NEW t \in Tasks,
         WorkerStep(d, t) \/ WorkerFault(d, t)
  PROVE  ProcessInv'
  <1>1. Alive(d, t) /\ WorkerOnly /\ \E w : SetWorker(d, t, w)
    BY WorkerIsAlive
  <1>2. UNCHANGED <<mode, pc, pool, pending, ready, live, picked>>
    BY <1>1 DEF WorkerOnly, daemonVars
  <1>3. wk \in [Daemons -> [Tasks -> SyncingWorker]]
    BY DEF TypeInv
  <1>4. \A e \in Daemons, u \in Tasks : Alive(e, u)' => Alive(e, u)
    BY <1>1, <1>3 DEF SetWorker, Alive
  <1> QED
    BY <1>2, <1>4, QuietStep

LEMMA RequestKeepsProcesses ==
  ASSUME TypeInv, ProcessInv, Request
  PROVE  ProcessInv'
  <1>1. RequestOnly
    BY DEF Request, CreateTask, StartTask, StopTask, CancelTask, UnblockTask, ResumeTask,
           StopTaskStatus, PreemptStop, Command
  <1>2. UNCHANGED <<mode, pc, pool, pending, ready, live, picked, wk>>
    BY <1>1 DEF RequestOnly, daemonVars
  <1>3. \A e \in Daemons, u \in Tasks : Alive(e, u)' => Alive(e, u)
    BY <1>2 DEF Alive
  <1> QED
    BY <1>2, <1>3, QuietStep

-----------------------------------------------------------------------------
(* The daemon.                                                             *)

\* What the lemmas below use of the types.
LEMMA ProcessTypes ==
  ASSUME TypeInv
  PROVE  /\ mode \in [Daemons -> {"new", "up", "draining", "dead"}]
         /\ pc \in [Daemons -> LoopPCs]
         /\ pool \in [Daemons -> SUBSET Tasks]
         /\ pending \in [Daemons -> SUBSET Tasks]
         /\ ready \in [Daemons -> SUBSET Tasks]
         /\ live \in [Daemons -> SUBSET Tasks]
         /\ picked \in [Daemons -> Tasks \cup {None}]
         /\ wk \in [Daemons -> [Tasks -> SyncingWorker]]
         /\ None \notin Tasks
  BY ConstantsAssumption DEF TypeInv, TypeOK

LEMMA SameProcesses ==
  ASSUME UNCHANGED wk
  PROVE  /\ LiveTasks' = LiveTasks
         /\ \A e \in Daemons, u \in Tasks : Alive(e, u)' <=> Alive(e, u)
  BY DEF LiveTasks, Alive

\* The daemon moves on in its loop; it may refresh or drop what it scanned.
LEMMA LoopStep ==
  ASSUME TypeInv, ProcessInv, NEW d \in Daemons, NEW label, Running(d), Goto(d, label),
         UNCHANGED <<mode, pool, pending, ready, picked, wk>>,
         \A e \in Daemons \ {d} : live'[e] = live[e],
         picked[d] = None \/ label \in {"beat", "launch"},
         label \in {"orphans", "acquire", "beat", "launch"}
            => LiveTasks \subseteq live'[d] \cup pool[d]
  PROVE  ProcessInv'
  <1>1. pc' = [pc EXCEPT ![d] = label]
    BY DEF Goto
  <1>2. OneWorkerPerTask'
    BY SameProcesses DEF ProcessInv, OneWorkerPerTask, Launchable
  <1>3. OneDaemon' /\ IdleDaemon'
    BY DEF ProcessInv, OneDaemon, IdleDaemon, Running
  <1>4. FreshDaemon'
    BY <1>1, SameProcesses, ProcessTypes DEF ProcessInv, FreshDaemon, Running
  <1>5. ChildrenPooled'
    BY SameProcesses DEF ProcessInv, ChildrenPooled, Running
  <1>6. PoolExclusive'
    BY SameProcesses, ProcessTypes DEF ProcessInv, PoolExclusive
  <1>7. RetriesWait'
    BY DEF ProcessInv, RetriesWait
  <1>8. PickedWaits'
    BY <1>1, ProcessTypes DEF ProcessInv, PickedWaits
  <1>9. ScanCovers'
    BY <1>1, SameProcesses, ProcessTypes DEF ProcessInv, ScanCovers, Running
  <1> QED
    BY <1>2, <1>3, <1>4, <1>5, <1>6, <1>7, <1>8, <1>9 DEF ProcessInv

\* A daemon ends: what it held is gone, and no process is started.
LEMMA ForgetStep ==
  ASSUME TypeInv, ProcessInv, NEW d \in Daemons, Running(d), Forget(d),
         \A e \in Daemons, t \in Tasks : Alive(e, t)' => Alive(e, t)
  PROVE  ProcessInv'
  <1>0. /\ mode' = [mode EXCEPT ![d] = "dead"]
        /\ pool' = [pool EXCEPT ![d] = {}]
        /\ pending' = [pending EXCEPT ![d] = {}]
        /\ ready' = [ready EXCEPT ![d] = {}]
        /\ live' = [live EXCEPT ![d] = {}]
        /\ picked' = [picked EXCEPT ![d] = None]
        /\ pc' = [pc EXCEPT ![d] = "reap"]
    BY DEF Forget, Goto
  <1>1. LiveTasks' \subseteq LiveTasks
    BY DEF LiveTasks
  <1>2. OneWorkerPerTask'
    <2>1. \A e \in Daemons : Launchable(e)' \subseteq Launchable(e)
      BY <1>0, ProcessTypes DEF Launchable
    <2> QED
      BY <1>1, <2>1 DEF ProcessInv, OneWorkerPerTask
  <1>3. OneDaemon' /\ IdleDaemon'
    BY <1>0, ProcessTypes DEF ProcessInv, OneDaemon, IdleDaemon, Running
  <1>4. FreshDaemon'
    BY <1>0, ProcessTypes DEF ProcessInv, FreshDaemon
  <1>5. ChildrenPooled'
    BY <1>0, ProcessTypes DEF ProcessInv, ChildrenPooled, Running
  <1>6. PoolExclusive'
    BY <1>0, ProcessTypes DEF ProcessInv, PoolExclusive
  <1>7. RetriesWait'
    BY <1>0, ProcessTypes DEF ProcessInv, RetriesWait
  <1>8. PickedWaits'
    BY <1>0, ProcessTypes DEF ProcessInv, PickedWaits
  <1>9. ScanCovers'
    BY <1>0, <1>1, ProcessTypes DEF ProcessInv, ScanCovers, Running
  <1> QED
    BY <1>2, <1>3, <1>4, <1>5, <1>6, <1>7, <1>8, <1>9 DEF ProcessInv

\* The running daemon starts a process for a task that has none.
LEMMA SpawnStep ==
  ASSUME TypeInv, ProcessInv, NEW d \in Daemons, NEW t \in Tasks, NEW count, NEW label,
         Running(d), t \notin LiveTasks, Spawn(d, t, count), Goto(d, label),
         label \in {"orphans", "acquire", "beat", "launch"}
            => pc[d] \in {"orphans", "acquire", "beat", "launch"},
         pending' = [pending EXCEPT ![d] = @ \ {t}],
         ready' = [ready EXCEPT ![d] = @ \ {t}],
         picked' = [picked EXCEPT ![d] = None],
         UNCHANGED <<mode, live>>
  PROVE  ProcessInv'
  <1>0. /\ wk' = [wk EXCEPT ![d][t] = [NoWorker EXCEPT !.pc = "boot"]]
        /\ pool' = [pool EXCEPT ![d] = @ \cup {t}]
        /\ pc' = [pc EXCEPT ![d] = label]
    BY DEF Spawn, Goto
  <1>1. \A e \in Daemons, u \in Tasks : Alive(e, u)' => Alive(e, u) \/ (e = d /\ u = t)
    BY <1>0, ProcessTypes DEF Alive
  <1>2. LiveTasks' \subseteq LiveTasks \cup {t}
    BY <1>1 DEF LiveTasks
  <1>3. \A e \in Daemons : ~Alive(e, t)
    BY DEF LiveTasks
  <1>4. \A e \in Daemons \ {d} : ~Running(e) /\ pool[e] = {} /\ pending[e] = {} /\ picked[e] = None
    BY DEF ProcessInv, OneDaemon, IdleDaemon
  <1>5. OneWorkerPerTask'
    <2>1. \A u \in Tasks : \A e, f \in Daemons : Alive(e, u)' /\ Alive(f, u)' => e = f
      BY <1>1, <1>3 DEF ProcessInv, OneWorkerPerTask
    <2>2. \A e \in Daemons : Launchable(e)' \subseteq Launchable(e) \ {t}
      BY <1>4, ProcessTypes DEF Launchable
    <2> QED
      BY <1>2, <2>1, <2>2 DEF ProcessInv, OneWorkerPerTask
  <1>6. OneDaemon' /\ IdleDaemon'
    BY <1>0, ProcessTypes DEF ProcessInv, OneDaemon, IdleDaemon, Running
  <1>7. FreshDaemon'
    BY <1>0, <1>1, ProcessTypes DEF ProcessInv, FreshDaemon, Running
  <1>8. ChildrenPooled'
    BY <1>0, <1>1, ProcessTypes DEF ProcessInv, ChildrenPooled, Running
  <1>9. PoolExclusive'
    BY <1>0, <1>1, <1>3, <1>4, ProcessTypes DEF ProcessInv, PoolExclusive
  <1>10. RetriesWait'
    BY <1>0, ProcessTypes DEF ProcessInv, RetriesWait
  <1>11. PickedWaits'
    BY <1>0, <1>4, ProcessTypes DEF ProcessInv, PickedWaits
  <1>12. ScanCovers'
    BY <1>0, <1>2, <1>4, ProcessTypes DEF ProcessInv, ScanCovers, Running
  <1> QED
    BY <1>5, <1>6, <1>7, <1>8, <1>9, <1>10, <1>11, <1>12 DEF ProcessInv

\* The running daemon changes what it holds for later, and nothing else: the
\* tasks added have no process and no slot.
LEMMA QueueStep ==
  ASSUME TypeInv, ProcessInv, NEW d \in Daemons, NEW label, Running(d), Goto(d, label),
         label \in {"orphans", "acquire", "beat", "launch"}
            => pc[d] \in {"orphans", "acquire", "beat", "launch"},
         UNCHANGED <<mode, pool, live, wk>>,
         NEW P \in SUBSET Tasks, NEW Y \in SUBSET Tasks, NEW k \in Tasks \cup {None},
         pending' = [pending EXCEPT ![d] = P],
         ready' = [ready EXCEPT ![d] = Y],
         picked' = [picked EXCEPT ![d] = k],
         Y \subseteq P,
         P \subseteq pending[d],
         k = None \/ label \in {"beat", "launch"},
         k \notin P \cup pool[d],
         k \notin LiveTasks
  PROVE  ProcessInv'
  <1>0. pc' = [pc EXCEPT ![d] = label]
    BY DEF Goto
  <1>1. OneWorkerPerTask'
    <2>1. \A e \in Daemons : Launchable(e)' \subseteq Launchable(e) \cup {k}
      BY ProcessTypes DEF Launchable
    <2> QED
      BY <2>1, SameProcesses DEF ProcessInv, OneWorkerPerTask
  <1>2. OneDaemon' /\ IdleDaemon'
    BY ProcessTypes DEF ProcessInv, OneDaemon, IdleDaemon, Running
  <1>3. FreshDaemon'
    BY <1>0, SameProcesses, ProcessTypes DEF ProcessInv, FreshDaemon, Running
  <1>4. ChildrenPooled'
    BY SameProcesses DEF ProcessInv, ChildrenPooled, Running
  <1>5. PoolExclusive'
    BY SameProcesses, ProcessTypes DEF ProcessInv, PoolExclusive
  <1>6. RetriesWait'
    BY ProcessTypes DEF ProcessInv, RetriesWait
  <1>7. PickedWaits'
    BY <1>0, ProcessTypes DEF ProcessInv, PickedWaits
  <1>8. ScanCovers'
    BY <1>0, SameProcesses, ProcessTypes DEF ProcessInv, ScanCovers, Running
  <1> QED
    BY <1>1, <1>2, <1>3, <1>4, <1>5, <1>6, <1>7, <1>8 DEF ProcessInv

\* A finished child leaves the pool; its task may wait for a retry from here on.
LEMMA ReapStep ==
  ASSUME TypeInv, ProcessInv, NEW d \in Daemons, NEW t \in Tasks, ReapFinished(d, t)
  PROVE  ProcessInv'
  <1>0. /\ Running(d) /\ pc[d] = "reap" /\ t \in pool[d]
        /\ pool' = [pool EXCEPT ![d] = @ \ {t}]
        /\ wk' = [wk EXCEPT ![d][t] = NoWorker]
        /\ UNCHANGED <<mode, pc, live, picked>>
    BY DEF ReapFinished, At
  <1>1. \/ UNCHANGED <<pending, ready>>
        \/ /\ pending' = [pending EXCEPT ![d] = @ \cup {t}]
           /\ \/ ready' = [ready EXCEPT ![d] = @ \ {t}]
              \/ ready' = [ready EXCEPT ![d] = @ \cup {t}]
    BY DEF ReapFinished, ReapFailure
  <1>2. \A e \in Daemons, u \in Tasks : Alive(e, u)' => Alive(e, u) /\ ~(e = d /\ u = t)
    BY <1>0, ProcessTypes DEF Alive, NoWorker, LivePCs
  <1>3. LiveTasks' \subseteq LiveTasks \ {t}
    BY <1>0, <1>2, ProcessTypes DEF LiveTasks, ProcessInv, PoolExclusive
  <1>4. OneWorkerPerTask'
    <2>1. \A e \in Daemons : Launchable(e)' \subseteq Launchable(e) \cup {t}
      BY <1>0, <1>1, ProcessTypes DEF Launchable
    <2> QED
      BY <1>2, <1>3, <2>1 DEF ProcessInv, OneWorkerPerTask
  <1>5. OneDaemon' /\ IdleDaemon'
    BY <1>0, <1>1, ProcessTypes DEF ProcessInv, OneDaemon, IdleDaemon, Running
  <1>6. FreshDaemon'
    BY <1>0, <1>2 DEF ProcessInv, FreshDaemon
  <1>7. ChildrenPooled'
    BY <1>0, <1>2, ProcessTypes DEF ProcessInv, ChildrenPooled, Running
  <1>8. PoolExclusive'
    BY <1>0, <1>2, ProcessTypes DEF ProcessInv, PoolExclusive
  <1>9. RetriesWait'
    BY <1>0, <1>1, ProcessTypes DEF ProcessInv, RetriesWait
  <1>10. PickedWaits'
    BY <1>0, <1>1, ProcessTypes DEF ProcessInv, PickedWaits
  <1>11. ScanCovers'
    BY <1>0, <1>3, ProcessTypes DEF ProcessInv, ScanCovers, OneDaemon, Running
  <1> QED
    BY <1>4, <1>5, <1>6, <1>7, <1>8, <1>9, <1>10, <1>11 DEF ProcessInv

LEMMA DaemonKeepsProcesses ==
  ASSUME TypeInv, ProcessInv, Sequential, NEW d \in Daemons,
         \/ StartDaemon(d) \/ DaemonStep(d) \/ DaemonEnds(d) \/ HeartbeatExpires(d)
         \/ \E t \in Tasks : BackoffElapses(d, t)
  PROVE  ProcessInv'
  <1>p. /\ OneDaemon /\ IdleDaemon /\ FreshDaemon /\ ChildrenPooled /\ PoolExclusive
        /\ OneWorkerPerTask /\ RetriesWait /\ PickedWaits /\ ScanCovers
    BY DEF ProcessInv
  <1>1. ASSUME StartDaemon(d) PROVE ProcessInv'
    <2>0. /\ mode' = [mode EXCEPT ![d] = "up"] /\ mode[d] = "new"
          /\ \A e \in Daemons : ~Running(e)
          /\ UNCHANGED <<pc, pool, pending, ready, live, picked, wk>>
      BY <1>1 DEF StartDaemon, Sequential
    <2>1. OneWorkerPerTask'
      BY <1>p, SameProcesses, <2>0 DEF OneWorkerPerTask, Launchable
    <2>2. OneDaemon' /\ IdleDaemon'
      BY ProcessTypes, <1>p, <2>0 DEF OneDaemon, IdleDaemon, Running
    <2>3. FreshDaemon' /\ ChildrenPooled'
      BY ProcessTypes, SameProcesses, <1>p, <2>0 DEF FreshDaemon, ChildrenPooled, Running
    <2>4. PoolExclusive' /\ RetriesWait'
      BY ProcessTypes, SameProcesses, <1>p, <2>0 DEF PoolExclusive, RetriesWait
    <2>5. PickedWaits' /\ ScanCovers'
      BY ProcessTypes, <1>p, <2>0 DEF PickedWaits, ScanCovers, FreshDaemon, Running
    <2> QED
      BY <2>1, <2>2, <2>3, <2>4, <2>5 DEF ProcessInv
  <1>2. ASSUME HeartbeatExpires(d) PROVE ProcessInv'
    BY <1>2, SameProcesses, QuietStep DEF HeartbeatExpires
  <1>3. ASSUME ReapDone(d) PROVE ProcessInv'
    <2>0. Running(d) /\ pc[d] = "reap" /\ UNCHANGED wk
      BY <1>3 DEF ReapDone, At
    <2>1. CASE Forget(d)
      BY <2>0, <2>1, SameProcesses, ForgetStep
    <2>2. CASE ~Forget(d)
      <3>1. PICK label \in {"scan", "promote"} :
               Goto(d, label) /\ UNCHANGED <<mode, pool, pending, ready, live, picked>>
        BY <1>3, <2>2 DEF ReapDone
      <3>2. picked[d] = None
        BY <2>0, <1>p DEF PickedWaits
      <3> QED
        BY <2>0, <3>1, <3>2, LoopStep
    <2> QED
      BY <2>1, <2>2
  <1>4. ASSUME PromoteDone(d) PROVE ProcessInv'
    <2>1. Running(d) /\ picked[d] = None
      BY <1>4, <1>p DEF PromoteDone, At, PickedWaits
    <2> QED
      BY <1>4, <2>1, LoopStep DEF PromoteDone
  \* The scan sees every process there is.
  <1>5. ASSUME ScanProcesses(d) PROVE ProcessInv'
    <2>1. Running(d) /\ picked[d] = None
      BY <1>5, <1>p DEF ScanProcesses, At, PickedWaits
    <2>2. live' = [live EXCEPT ![d] = LiveTasks]
      BY <1>5 DEF ScanProcesses, Sequential
    <2>3. LiveTasks \subseteq live'[d] \cup pool[d] /\ \A e \in Daemons \ {d} : live'[e] = live[e]
      BY <2>2, ProcessTypes
    <2> QED
      BY <1>5, <2>1, <2>3, LoopStep DEF ScanProcesses
  <1>6. ASSUME RequeueOrphans(d) PROVE ProcessInv'
    <2>1. Running(d) /\ picked[d] = None /\ LiveTasks \subseteq live[d] \cup pool[d]
      BY <1>6, <1>p DEF RequeueOrphans, At, PickedWaits, ScanCovers
    <2> QED
      BY <1>6, <2>1, LoopStep DEF RequeueOrphans
  <1>7. ASSUME AcquireHeartbeat(d) PROVE ProcessInv'
    <2>1. Running(d) /\ LiveTasks \subseteq live[d] \cup pool[d]
      BY <1>7, <1>p DEF AcquireHeartbeat, At, ScanCovers
    <2> QED
      BY <1>7, <2>1, LoopStep DEF AcquireHeartbeat
  <1>8. ASSUME AcquireDone(d) PROVE ProcessInv'
    <2>1. Running(d) /\ picked[d] = None
      BY <1>8, <1>p DEF AcquireDone, At, PickedWaits
    <2>2. \A e \in Daemons \ {d} : live'[e] = live[e]
      BY <1>8, ProcessTypes DEF AcquireDone
    <2> QED
      BY <1>8, <2>1, <2>2, LoopStep DEF AcquireDone
  <1>9. ASSUME NEW t \in Tasks, ReapFinished(d, t) PROVE ProcessInv'
    BY <1>9, ReapStep
  <1>10. ASSUME NEW t \in Tasks, BackoffElapses(d, t) PROVE ProcessInv'
    <2> DEFINE Y == ready[d] \cup {t}
    <2>1. /\ Running(d) /\ Goto(d, pc[d])
          /\ pending' = [pending EXCEPT ![d] = pending[d]]
          /\ ready' = [ready EXCEPT ![d] = Y]
          /\ picked' = [picked EXCEPT ![d] = picked[d]]
          /\ UNCHANGED <<mode, pool, live, wk>>
      BY <1>10, ProcessTypes DEF BackoffElapses, Goto
    <2>2. pending[d] \in SUBSET Tasks /\ Y \in SUBSET Tasks /\ Y \subseteq pending[d]
      BY <1>10, <1>p, ProcessTypes DEF BackoffElapses, RetriesWait
    <2>3. /\ picked[d] \in Tasks \cup {None}
          /\ picked[d] = None \/ pc[d] \in {"beat", "launch"}
          /\ picked[d] \notin pending[d] \cup pool[d]
      BY <1>p, ProcessTypes DEF PickedWaits
    <2>4. picked[d] \notin LiveTasks
      BY <1>p, ProcessTypes DEF OneWorkerPerTask, Launchable, LiveTasks
    <2> QED
      BY <2>1, <2>2, <2>3, <2>4, QueueStep
  \* A waiting retry has no process: its child was reaped before.
  <1>11. ASSUME NEW t \in Tasks, PromoteRetry(d, t) PROVE ProcessInv'
    <2>1. /\ Running(d) /\ pc[d] = "promote" /\ t \in ready[d]
          /\ Spawn(d, t, retry[d][t])
          /\ pending' = [pending EXCEPT ![d] = @ \ {t}]
          /\ ready' = [ready EXCEPT ![d] = @ \ {t}]
          /\ UNCHANGED <<mode, pc, live, picked>>
      BY <1>11 DEF PromoteRetry, At
    <2>2. t \notin LiveTasks
      BY <2>1, <1>p DEF RetriesWait, OneWorkerPerTask, Launchable
    <2>3. Goto(d, "promote") /\ picked' = [picked EXCEPT ![d] = None]
      BY <2>1, <1>p, ProcessTypes DEF Goto, PickedWaits
    <2> QED
      BY <2>1, <2>2, <2>3, SpawnStep
  <1>12. ASSUME NEW t \in Tasks, PromoteRejected(d, t) PROVE ProcessInv'
    <2> DEFINE P == pending[d] \ {t}
               Y == ready[d] \ {t}
    <2>1. /\ Running(d) /\ pc[d] = "promote"
          /\ pending' = [pending EXCEPT ![d] = P]
          /\ ready' = [ready EXCEPT ![d] = Y]
          /\ UNCHANGED <<mode, pc, pool, live, picked, wk>>
      BY <1>12 DEF PromoteRejected, At
    <2>2. /\ Goto(d, "promote") /\ picked' = [picked EXCEPT ![d] = None]
          /\ None \notin LiveTasks /\ None \notin P \cup pool[d]
      BY <2>1, <1>p, ProcessTypes DEF Goto, PickedWaits, LiveTasks
    <2>3. P \in SUBSET Tasks /\ Y \in SUBSET Tasks /\ Y \subseteq P /\ P \subseteq pending[d]
      BY <1>p, ProcessTypes DEF RetriesWait
    <2> HIDE DEF P, Y
    <2> QED
      BY <2>1, <2>2, <2>3, QueueStep
  \* A task acquired is outside the pool, the retries and what the scan saw,
  \* so it has no process.
  <1>13. ASSUME NEW t \in Tasks, AcquireNext(d, t) PROVE ProcessInv'
    <2>1. /\ Running(d) /\ pc[d] = "acquire" /\ t \notin Excluded(d)
          /\ picked' = [picked EXCEPT ![d] = t]
          /\ Goto(d, "beat")
          /\ UNCHANGED <<mode, pool, pending, ready, live, wk>>
      BY <1>13 DEF AcquireNext, At, Runnable, Window, Candidates
    <2>2. t \notin LiveTasks /\ t \notin pending[d] \cup pool[d]
      BY <2>1, <1>p DEF ScanCovers, Excluded
    <2>3. /\ pending' = [pending EXCEPT ![d] = pending[d]]
          /\ ready' = [ready EXCEPT ![d] = ready[d]]
          /\ pending[d] \in SUBSET Tasks /\ ready[d] \in SUBSET Tasks
          /\ ready[d] \subseteq pending[d]
      BY <2>1, <1>p, ProcessTypes DEF RetriesWait
    <2> QED
      BY <2>1, <2>2, <2>3, QueueStep
  <1>14. ASSUME NEW t \in Tasks, Launch(d, t) PROVE ProcessInv'
    <2>1. /\ Running(d) /\ pc[d] = "launch" /\ picked[d] = t
          /\ Spawn(d, t, 0) /\ Goto(d, "acquire")
          /\ picked' = [picked EXCEPT ![d] = None]
          /\ UNCHANGED <<mode, pending, ready, live>>
      BY <1>14 DEF Launch, At
    <2>2. t \notin LiveTasks
      BY <2>1, <1>p DEF OneWorkerPerTask, Launchable
    <2>3. t \notin pending[d] /\ t \notin ready[d]
      BY <2>1, <1>p DEF PickedWaits, RetriesWait
    <2>4. /\ pending' = [pending EXCEPT ![d] = @ \ {t}]
          /\ ready' = [ready EXCEPT ![d] = @ \ {t}]
      BY <2>1, <2>3, ProcessTypes
    <2> QED
      BY <2>1, <2>2, <2>4, SpawnStep
  <1>15. ASSUME NEW t \in Tasks, LaunchRejected(d, t) PROVE ProcessInv'
    <2>1. /\ Running(d) /\ pc[d] = "launch"
          /\ picked' = [picked EXCEPT ![d] = None] /\ Goto(d, "acquire")
          /\ UNCHANGED <<mode, pool, pending, ready, live, wk>>
      BY <1>15 DEF LaunchRejected, At
    <2>2. /\ pending' = [pending EXCEPT ![d] = pending[d]]
          /\ ready' = [ready EXCEPT ![d] = ready[d]]
          /\ pending[d] \in SUBSET Tasks /\ ready[d] \in SUBSET Tasks
          /\ ready[d] \subseteq pending[d]
          /\ None \notin LiveTasks /\ None \notin pending[d] \cup pool[d]
      BY <2>1, <1>p, ProcessTypes DEF RetriesWait, LiveTasks
    <2> QED
      BY <2>1, <2>2, QueueStep
  <1>16. ASSUME Shutdown(d) PROVE ProcessInv'
    <2>0. /\ mode[d] = "up" /\ mode' = [mode EXCEPT ![d] = "draining"]
          /\ UNCHANGED <<pc, pool, pending, ready, live, picked, wk>>
      BY <1>16 DEF Shutdown
    <2>1. \A e \in Daemons : (Running(e)' <=> Running(e)) /\ (mode'[e] = "new" <=> mode[e] = "new")
      BY <2>0, ProcessTypes DEF Running
    <2>2. OneWorkerPerTask' /\ OneDaemon' /\ IdleDaemon'
      <3>1. OneWorkerPerTask'
        BY <2>0, <1>p, SameProcesses DEF OneWorkerPerTask, Launchable
      <3>2. OneDaemon' /\ IdleDaemon'
        BY <2>0, <2>1, <1>p DEF OneDaemon, IdleDaemon
      <3> QED
        BY <3>1, <3>2
    <2>3. FreshDaemon' /\ ChildrenPooled'
      BY <2>0, <2>1, <1>p, SameProcesses DEF FreshDaemon, ChildrenPooled
    <2>4. PoolExclusive' /\ RetriesWait' /\ PickedWaits'
      BY <2>0, <1>p, SameProcesses, ProcessTypes DEF PoolExclusive, RetriesWait, PickedWaits
    <2>5. ScanCovers'
      BY <2>0, <2>1, <1>p, SameProcesses DEF ScanCovers
    <2> QED
      BY <2>2, <2>3, <2>4, <2>5 DEF ProcessInv
  <1>17. ASSUME ForceExit(d) PROVE ProcessInv'
    <2>1. \A e \in Daemons, u \in Tasks : Alive(e, u)' => Alive(e, u)
      BY <1>17, ProcessTypes DEF ForceExit, Alive, NoWorker, LivePCs
    <2> QED
      BY <1>17, <2>1, ForgetStep DEF ForceExit, Running
  <1>18. ASSUME Crash(d) PROVE ProcessInv'
    <2>1. \A e \in Daemons, u \in Tasks : Alive(e, u)' => Alive(e, u)
      BY <1>18, ProcessTypes DEF Crash, Alive, NoWorker, LivePCs
    <2> QED
      BY <1>18, <2>1, ForgetStep DEF Crash
  <1> QED
    BY <1>1, <1>2, <1>3, <1>4, <1>5, <1>6, <1>7, <1>8, <1>9, <1>10, <1>11, <1>12, <1>13,
       <1>14, <1>15, <1>16, <1>17, <1>18
    DEF DaemonStep, DaemonEnds

LEMMA InitProcesses == Init => ProcessInv
  <1> SUFFICES ASSUME Init PROVE ProcessInv
    OBVIOUS
  <1>1. \A d \in Daemons, t \in Tasks : ~Alive(d, t)
    BY DEF Init, Alive, NoWorker, LivePCs
  <1>2. LiveTasks = {}
    BY <1>1 DEF LiveTasks
  <1> QED
    BY <1>1, <1>2, ConstantsAssumption
    DEF Init, ProcessInv, OneWorkerPerTask, Launchable, OneDaemon, IdleDaemon, FreshDaemon,
        ChildrenPooled, PoolExclusive, RetriesWait, PickedWaits, ScanCovers, Running

LEMMA NextProcesses ==
  ASSUME Sequential, TypeInv, ProcessInv, [Next]_vars
  PROVE  ProcessInv'
  <1>1. CASE UNCHANGED vars
    BY <1>1, SameProcesses, QuietStep DEF vars, daemonVars
  <1>2. CASE Next
    BY <1>2, RequestKeepsProcesses, DaemonKeepsProcesses, WorkerKeepsProcesses DEF Next
  <1> QED
    BY <1>1, <1>2

\* With one daemon at a time and a process scan that works, no task ever has two
\* `uta run' processes: not across crashes of the daemon whose children outlive
\* it, not through retries that are launched without a look at the database, and
\* whatever commands rewrite the rows.
THEOREM OneWorker ==
  ASSUME Sequential
  PROVE  Spec => []OneWorkerPerTask
  <1>1. TypeInv /\ ProcessInv /\ [Next]_vars => (TypeInv /\ ProcessInv)'
    BY NextTypes, NextProcesses
  <1>2. Spec => [](TypeInv /\ ProcessInv)
    BY <1>1, InitTypes, InitProcesses, PTL DEF Spec
  <1>3. TypeInv /\ ProcessInv => OneWorkerPerTask
    BY DEF ProcessInv
  <1> QED
    BY <1>2, <1>3, PTL
=============================================================================

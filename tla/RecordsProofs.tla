---------------------------- MODULE RecordsProofs -----------------------------
(***************************************************************************)
(* What the runs of a task leave behind, for any numbers of everything: no *)
(* call in progress loses its directory, no lineage is out of reach of     *)
(* retention, the classes of a delivered batch are resolved, a verified    *)
(* commit is on the remote branch, a generated branch is new, and the      *)
(* event log of a task implements the plain feed of EventFeed.             *)
(***************************************************************************)
EXTENDS BranchDelivery, Lineages, StandaloneCalls, TaskCreation, TaskEvents,
        FiniteSetTheorems, TLAPS

-----------------------------------------------------------------------------
(* The event log.                                                          *)

Ids == {e.id : e \in log}

(* What the argument needs of the state: identifiers are positive and      *)
(* given out, the log is finite (a page counts the rows before a row), no  *)
(* cursor is ahead of what was given out, and a page that was never loaded *)
(* starts from nothing.                                                    *)
RowsOK ==
    /\ lastId \in Nat
    /\ IsFiniteSet(log)
    /\ \A e \in log : e.id \in Nat /\ 1 <= e.id /\ e.id <= lastId
ReadersOK ==
    /\ readers \in [Readers -> [cursor : Nat, open : BOOLEAN]]
    /\ \A r \in Readers : readers[r].cursor <= lastId
    /\ received \in [Readers -> SUBSET Nat]
    /\ ~readers["page"].open => readers["page"].cursor = 0
LogOK == RowsOK /\ ReadersOK

-----------------------------------------------------------------------------
(* Writing.                                                                *)

\* The rows of a batch are finitely many and take the next identifiers.
LEMMA InsertStep ==
  ASSUME RowsOK, NEW kinds, NEW sizes, Len(kinds) \in Nat, Insert(kinds, sizes)
  PROVE  /\ RowsOK' /\ lastId <= lastId'
         /\ Ids' = Ids \cup (lastId + 1)..lastId'
  <1> DEFINE n == Len(kinds)
             Row(i) == [id |-> FreshId + i - 1, kind |-> kinds[i], size |-> sizes[i]]
             new == {Row(i) : i \in 1..n}
             f == [i \in 1..n |-> Row(i)]
  <1>1. n \in Nat /\ lastId \in Nat /\ lastId' = lastId + n
    BY DEF Insert, FreshId, RowsOK
  <1>2. log' = log \cup new
    BY DEF Insert
  <1>3. \A i \in 1..n : Row(i).id = lastId + i
    BY <1>1 DEF FreshId
  <1> HIDE DEF n, Row
  <1>4. {e.id : e \in new} = (lastId + 1)..(lastId + n)
    <2>1. \A x \in {e.id : e \in new} : x \in (lastId + 1)..(lastId + n)
      BY <1>1, <1>3
    <2>2. ASSUME NEW x \in (lastId + 1)..(lastId + n) PROVE x \in {e.id : e \in new}
      <3>1. x - lastId \in 1..n /\ Row(x - lastId).id = x
        BY <1>1, <1>3
      <3> QED
        BY <3>1
    <2> QED
      BY <2>1, <2>2
  <1>5. Ids' = Ids \cup {e.id : e \in new}
    BY <1>2 DEF Ids
  <1>6. IsFiniteSet(new)
    <2>1. IsFiniteSet(1..n)
      BY <1>1, FS_Interval
    <2>2. f \in Surjection(1..n, new)
      BY DEF Surjection
    <2> QED
      BY <2>1, <2>2, FS_Surjection
  <1>7. IsFiniteSet(log')
    BY <1>2, <1>6, FS_Union DEF RowsOK
  <1>8. \A e \in new : e.id \in (lastId + 1)..(lastId + n)
    BY <1>4
  <1> HIDE DEF new
  <1>9. \A e \in log' : e.id \in Nat /\ 1 <= e.id /\ e.id <= lastId'
    BY <1>1, <1>2, <1>8 DEF RowsOK
  <1> QED
    BY <1>1, <1>4, <1>5, <1>7, <1>9 DEF RowsOK

\* A step that only writes is an Append of the feed, or none of its steps.
LEMMA WritingSimulates ==
  ASSUME LogOK, UNCHANGED <<readers, received>>,
         \/ UNCHANGED <<log, lastId>>
         \/ \E kinds, sizes : Len(kinds) \in Nat /\ Insert(kinds, sizes)
  PROVE  LogOK' /\ [Feed!FNext]_(Feed!fvars)
  <1>1. CASE UNCHANGED <<log, lastId>>
    BY <1>1 DEF LogOK, RowsOK, ReadersOK, Feed!fvars
  <1>2. ASSUME NEW kinds, NEW sizes, Len(kinds) \in Nat, Insert(kinds, sizes)
        PROVE  LogOK' /\ [Feed!FNext]_(Feed!fvars)
    <2>1. RowsOK' /\ lastId <= lastId' /\ Ids' = Ids \cup (lastId + 1)..lastId'
      BY <1>2, InsertStep DEF LogOK
    <2>2. ReadersOK'
      BY <2>1 DEF LogOK, RowsOK, ReadersOK
    <2>3. CASE lastId < lastId'
      <3>1. Feed!Append
        BY <2>1, <2>3 DEF Feed!Append, RowsOK, Ids
      <3> QED
        BY <2>1, <2>2, <3>1 DEF LogOK, Feed!FNext
    <2>4. CASE lastId = lastId'
      <3>1. lastId \in Nat
        BY DEF LogOK, RowsOK
      <3>2. \A i : i \notin (lastId + 1)..lastId'
        BY <2>4, <3>1
      <3>3. Ids' = Ids
        BY <2>1, <3>2
      <3> QED
        BY <2>1, <2>2, <2>4, <3>3 DEF LogOK, Feed!fvars, Ids
    <2> QED
      BY <2>1, <2>3, <2>4 DEF LogOK, RowsOK
  <1> QED
    BY <1>1, <1>2

\* Every action that writes into the log writes with Insert, or nothing.
LEMMA WritersInsert ==
  ASSUME \/ \E batch \in Batches : AppendBatch(batch)
         \/ MarkRunning \/ RecordStage \/ SyncResults \/ PushMismatch
         \/ MarkFailed \/ MarkPoisoned \/ CancelTask \/ Requeue \/ TimeGoesBy
  PROVE  /\ UNCHANGED <<readers, received>>
         /\ \/ UNCHANGED <<log, lastId>>
            \/ \E kinds, sizes : Len(kinds) \in Nat /\ Insert(kinds, sizes)
  <1>1. ASSUME NEW batch \in Batches, AppendBatch(batch)
        PROVE  /\ UNCHANGED <<readers, received>>
               /\ \E kinds, sizes : Len(kinds) \in Nat /\ Insert(kinds, sizes)
    <2>1. batch.sizes \in Seq(Sizes)
      BY DEF Batches, BoundedSeq, SeqOf
    <2>2. PICK n \in 0..Len(batch.sizes) :
             LET won == WinsMarker(batch, n)
                 marker == IF won THEN <<"truncated">> ELSE <<>>
             IN Insert([i \in 1..n |-> "progress"] \o marker,
                       SubSeq(batch.sizes, 1, n) \o <<0>>)
      BY <1>1 DEF AppendBatch
    <2> DEFINE marker == IF WinsMarker(batch, n) THEN <<"truncated">> ELSE <<>>
               kinds == [i \in 1..n |-> "progress"] \o marker
    <2>3. n \in Nat /\ [i \in 1..n |-> "progress"] \in Seq({"progress", "truncated"})
      BY <2>1
    <2>4. Len(kinds) \in Nat
      <3>1. CASE WinsMarker(batch, n)
        <4>1. marker = <<"truncated">> /\ <<"truncated">> \in Seq({"progress", "truncated"})
          BY <3>1
        <4> QED
          BY <2>3, <4>1
      <3>2. CASE ~WinsMarker(batch, n)
        <4>1. marker = <<>> /\ <<>> \in Seq({"progress", "truncated"})
          BY <3>2
        <4> QED
          BY <2>3, <4>1
      <3> QED
        BY <3>1, <3>2
    <2>5. Insert(kinds, SubSeq(batch.sizes, 1, n) \o <<0>>)
      BY <2>2
    <2> HIDE DEF kinds
    <2> QED
      BY <1>1, <2>4, <2>5 DEF AppendBatch
  <1>2. ASSUME NEW told, AddEvent(told)
        PROVE  \E kinds, sizes : Len(kinds) \in Nat /\ Insert(kinds, sizes)
    BY <1>2 DEF AddEvent
  <1>3. ASSUME NEW status, NEW summaries \in Seq({"summary"}), Finish(status, summaries)
        PROVE  /\ UNCHANGED <<readers, received>>
               /\ \/ UNCHANGED <<log, lastId>>
                  \/ \E kinds, sizes : Len(kinds) \in Nat /\ Insert(kinds, sizes)
    <2>1. <<"terminal">> \in Seq({"summary", "terminal"}) /\ summaries \in Seq({"summary", "terminal"})
      OBVIOUS
    <2>2. Len(summaries \o <<"terminal">>) \in Nat
      BY <2>1
    <2> QED
      BY <1>3, <2>2 DEF Finish, LeaveReaders
  <1>4. CASE MarkRunning \/ RecordStage \/ SyncResults \/ PushMismatch \/ Requeue
    <2>1. UNCHANGED <<readers, received>> /\ \E told : AddEvent(told)
      BY <1>4 DEF MarkRunning, RecordStage, SyncResults, PushMismatch, Requeue, LeaveReaders
    <2> QED
      BY <1>2, <2>1
  <1>5. CASE MarkFailed \/ MarkPoisoned \/ CancelTask
    <2>1. <<"summary">> \in Seq({"summary"}) /\ <<"summary", "summary">> \in Seq({"summary"})
      OBVIOUS
    <2> QED
      BY <1>3, <1>5, <2>1 DEF MarkFailed, MarkPoisoned, CancelTask
  <1>6. CASE TimeGoesBy
    BY <1>6 DEF TimeGoesBy
  <1> QED
    BY <1>1, <1>4, <1>5, <1>6

\* Retention takes rows away and gives no identifier back.
LEMMA PruneSimulates ==
  ASSUME LogOK, Prune
  PROVE  LogOK' /\ Feed!Forget
  <1>1. log' \subseteq log /\ UNCHANGED <<lastId, readers, received>>
    BY DEF Prune
  <1>2. IsFiniteSet(log')
    BY <1>1, FS_Subset DEF LogOK, RowsOK
  <1> QED
    BY <1>1, <1>2 DEF LogOK, RowsOK, ReadersOK, Feed!Forget

-----------------------------------------------------------------------------
(* Reading.                                                                *)

\* Handing over, oldest first and without a gap, rows after the cursor is a
\* Read of the feed.
LEMMA DeliverReads ==
  ASSUME LogOK, NEW r \in Readers, NEW rows \in SUBSET log, NEW open \in BOOLEAN,
         r = "page" => open,
         \A e \in rows : readers[r].cursor < e.id,
         \A e \in rows : \A o \in log : readers[r].cursor < o.id /\ o.id <= e.id => o \in rows,
         Deliver(r, rows, open)
  PROVE  LogOK' /\ Feed!Read(r)
  <1>1. PICK last \in rows :
           /\ \A e \in rows : e.id <= last.id
           /\ readers' = [readers EXCEPT ![r] = [cursor |-> last.id, open |-> open]]
           /\ received' = [received EXCEPT ![r] = @ \cup {e.id : e \in rows}]
           /\ UNCHANGED <<log, lastId>>
    BY DEF Deliver, LeaveLog
  <1> DEFINE given == {e.id : e \in rows}
             c == readers[r].cursor
             m == last.id
  <1>2. c \in Nat /\ m \in Nat /\ lastId \in Nat /\ c < m /\ m <= lastId
    BY DEF LogOK, RowsOK, ReadersOK
  <1>3. given = {i \in Ids : c < i /\ i <= m}
    <2>1. \A e \in rows : e \in log /\ e.id \in Ids /\ c < e.id /\ e.id <= m
      BY <1>1 DEF Ids
    <2>2. ASSUME NEW i \in Ids, c < i, i <= m PROVE i \in given
      <3>1. PICK e \in log : i = e.id
        BY DEF Ids
      <3>2. e \in rows
        BY <2>2, <3>1
      <3> QED
        BY <3>1, <3>2
    <2> QED
      BY <2>1, <2>2
  <1>4. given \subseteq Nat
    BY DEF LogOK, RowsOK
  <1> HIDE DEF given
  <1>5. RowsOK'
    BY <1>1 DEF LogOK, RowsOK
  <1>6. ReadersOK'
    <2>1. readers' \in [Readers -> [cursor : Nat, open : BOOLEAN]]
      BY <1>1, <1>2 DEF LogOK, ReadersOK
    <2>2. \A q \in Readers : readers'[q].cursor <= lastId'
      BY <1>1, <1>2 DEF LogOK, ReadersOK
    <2>3. received' \in [Readers -> SUBSET Nat]
      BY <1>1, <1>4 DEF LogOK, ReadersOK, given
    <2>4. ~readers'["page"].open => readers'["page"].cursor = 0
      BY <1>1 DEF LogOK, ReadersOK, Readers
    <2> QED
      BY <2>1, <2>2, <2>3, <2>4 DEF ReadersOK
  <1>7. Feed!Read(r)
    <2> DEFINE cur == [q \in Readers |-> readers[q].cursor]
    <2>1. cur[r] = c /\ m \in c..lastId
      BY <1>2
    <2>2. cur' = [cur EXCEPT ![r] = m]
      BY <1>1 DEF LogOK, ReadersOK
    <2>3. received' = [received EXCEPT ![r] = @ \cup {i \in Ids : c < i /\ i <= m}]
      BY <1>1, <1>3 DEF given
    <2> HIDE DEF c, m
    <2> QED
      BY <1>1, <2>1, <2>2, <2>3 DEF Feed!Read, Feed!Between, Ids
  <1> QED
    BY <1>5, <1>6, <1>7 DEF LogOK

\* A page has no gap: a row before one that made it in has no more rows
\* before itself.
LEMMA PageHasNoGap ==
  ASSUME LogOK, NEW c \in Nat, NEW e \in EventsSince(c), NEW o \in log,
         c < o.id, o.id <= e.id
  PROVE  o \in EventsSince(c)
  <1> DEFINE after == RowsAfter(c)
             Before(x) == {w \in after : w.id < x.id}
  <1>1. after \in SUBSET log /\ o \in after
    BY DEF RowsAfter, LogOK, RowsOK
  <1>2. IsFiniteSet(after) /\ \A w \in after : w.id \in Nat
    BY <1>1, FS_Subset DEF LogOK, RowsOK
  <1>3. e \in after /\ Cardinality(Before(e)) < PageSize
    BY DEF EventsSince
  <1>4. Before(e) \in SUBSET after /\ Before(o) \in SUBSET Before(e)
    BY <1>1, <1>2, <1>3
  <1> HIDE DEF after, Before
  <1>5. IsFiniteSet(Before(e))
    BY <1>2, <1>4, FS_Subset
  <1>6. IsFiniteSet(Before(o)) /\ Cardinality(Before(o)) <= Cardinality(Before(e))
    BY <1>4, <1>5, FS_Subset
  <1>7. Cardinality(Before(o)) \in Nat /\ Cardinality(Before(e)) \in Nat
    BY <1>5, <1>6, FS_CardinalityType
  <1>8. Cardinality(Before(o)) < PageSize
    BY <1>3, <1>6, <1>7, EventsAssumption
  <1> QED
    BY <1>1, <1>8 DEF EventsSince, after, Before

\* The three readings are Reads of the feed, the closing event's cut included.
LEMMA ReadingSimulates ==
  ASSUME LogOK, StreamPoll \/ PageLoad \/ PagePoll
  PROVE  LogOK' /\ \E r \in Readers : Feed!Read(r)
  <1>0. "stream" \in Readers /\ "page" \in Readers
    BY DEF Readers
  <1>1. CASE StreamPoll
    <2> DEFINE c == readers["stream"].cursor
               rows == EventsSince(c)
               sent == {e \in rows : \A o \in Ends(rows) : e.id <= o.id}
               going == Ends(rows) = {}
    <2>1. c \in Nat /\ going \in BOOLEAN
      BY <1>0 DEF LogOK, ReadersOK
    <2>2. Deliver("stream", sent, going)
      BY <1>1 DEF StreamPoll
    <2>3. sent \in SUBSET log /\ \A e \in sent : c < e.id
      BY <2>1 DEF EventsSince, RowsAfter, LogOK, RowsOK
    <2>4. ASSUME NEW e \in sent, NEW o \in log, c < o.id, o.id <= e.id
          PROVE  o \in sent
      <3>1. o \in rows
        BY <2>1, <2>4, PageHasNoGap
      <3>2. \A w \in Ends(rows) : w \in log /\ e.id <= w.id
        BY DEF Ends, EventsSince, RowsAfter
      <3>3. e \in log
        BY <2>3
      <3>4. \A w \in Ends(rows) : o.id <= w.id
        BY <2>4, <3>2, <3>3 DEF LogOK, RowsOK
      <3> QED
        BY <3>1, <3>4
    <2> HIDE DEF sent, going
    <2> QED
      BY <1>0, <2>1, <2>2, <2>3, <2>4, DeliverReads
  <1>2. CASE PageLoad
    <2>1. readers["page"].cursor = 0 /\ Deliver("page", log, TRUE)
      BY <1>2 DEF PageLoad, LogOK, ReadersOK
    <2>2. \A e \in log : readers["page"].cursor < e.id
      BY <2>1 DEF LogOK, RowsOK
    <2> QED
      BY <1>0, <2>1, <2>2, DeliverReads
  <1>3. CASE PagePoll
    <2> DEFINE c == readers["page"].cursor
               rows == EventsSince(c)
    <2>1. c \in Nat /\ Deliver("page", rows, TRUE)
      BY <1>0, <1>3 DEF PagePoll, LogOK, ReadersOK
    <2>2. rows \in SUBSET log /\ \A e \in rows : c < e.id
      BY <2>1 DEF EventsSince, RowsAfter, LogOK, RowsOK
    <2>3. \A e \in rows : \A o \in log : c < o.id /\ o.id <= e.id => o \in rows
      BY <2>1, PageHasNoGap
    <2> HIDE DEF rows
    <2> QED
      BY <1>0, <2>1, <2>2, <2>3, DeliverReads
  <1> QED
    BY <1>1, <1>2, <1>3

\* A connection coming and going is invisible in the feed: the cursor is the
\* client's.
LEMMA ConnectionSimulates ==
  ASSUME LogOK, Connect \/ Disconnect
  PROVE  LogOK' /\ UNCHANGED Feed!fvars
  <1>1. /\ UNCHANGED <<log, lastId, received>>
        /\ \E b \in BOOLEAN : readers' = [readers EXCEPT !["stream"].open = b]
    BY DEF Connect, Disconnect, LeaveLog
  <1>2. PICK b \in BOOLEAN : readers' = [readers EXCEPT !["stream"].open = b]
    BY <1>1
  <1>3. /\ readers' \in [Readers -> [cursor : Nat, open : BOOLEAN]]
        /\ \A r \in Readers : readers'[r].cursor = readers[r].cursor
        /\ readers'["page"] = readers["page"]
    BY <1>2 DEF LogOK, ReadersOK, Readers
  <1>4. LogOK'
    BY <1>1, <1>3 DEF LogOK, RowsOK, ReadersOK
  <1>5. [r \in Readers |-> readers[r].cursor]' = [r \in Readers |-> readers[r].cursor]
    BY <1>3
  <1> QED
    BY <1>1, <1>4, <1>5 DEF Feed!fvars

-----------------------------------------------------------------------------
\* One step of the log is one step of the feed, or none.
LEMMA StepSimulates ==
  ASSUME LogOK, [VNext]_vvars
  PROVE  LogOK' /\ [Feed!FNext]_(Feed!fvars)
  <1>1. CASE \/ \E batch \in Batches : AppendBatch(batch)
             \/ MarkRunning \/ RecordStage \/ SyncResults \/ PushMismatch
             \/ MarkFailed \/ MarkPoisoned \/ CancelTask \/ Requeue \/ TimeGoesBy
    BY <1>1, WritersInsert, WritingSimulates
  <1>2. CASE Prune
    BY <1>2, PruneSimulates DEF Feed!FNext
  <1>3. CASE StreamPoll \/ PageLoad \/ PagePoll
    BY <1>3, ReadingSimulates DEF Feed!FNext
  <1>4. CASE Connect \/ Disconnect
    BY <1>4, ConnectionSimulates
  <1>5. CASE UNCHANGED vvars
    BY <1>5, WritingSimulates DEF vvars
  <1> QED
    BY <1>1, <1>2, <1>3, <1>4, <1>5 DEF VNext

\* A new task has two rows, nobody has read.
LEMMA LogStart == VInit => LogOK /\ Feed!FInit
  <1> SUFFICES ASSUME VInit PROVE LogOK /\ Feed!FInit
    OBVIOUS
  <1> DEFINE a == [id |-> 1, kind |-> "created", size |-> 0]
             b == [id |-> 2, kind |-> "model", size |-> 0]
  <1>1. log = {a} \cup {b} /\ lastId = 2 /\ a.id = 1 /\ b.id = 2
    BY DEF VInit
  <1> HIDE DEF a, b
  <1>2. IsFiniteSet(log)
    BY <1>1, FS_Singleton, FS_Union
  <1>3. RowsOK
    BY <1>1, <1>2 DEF RowsOK
  <1>4. ReadersOK
    BY <1>1 DEF VInit, ReadersOK, Readers
  <1>5. Ids = 1..2
    BY <1>1 DEF Ids
  <1>6. Feed!FInit
    BY <1>1, <1>5 DEF VInit, Feed!FInit, Ids, Readers
  <1> QED
    BY <1>3, <1>4, <1>6 DEF LogOK

\* The event log of a task, with its capped batches, retention, reconnecting
\* stream, closing events and pages, implements the plain feed, for every
\* value of the caps and sizes (progress_store.py, event_repository.py).
THEOREM LogImplementsFeed == VSpec => ImplementsFeed
  <1>1. VInit => LogOK /\ Feed!FInit
    BY LogStart
  <1>2. LogOK /\ [VNext]_vvars => LogOK' /\ [Feed!FNext]_(Feed!fvars)
    BY StepSimulates
  <1> QED
    BY <1>1, <1>2, PTL DEF VSpec, ImplementsFeed, Feed!FSpec

-----------------------------------------------------------------------------
(* What the feed promises holds of the log: shown on the feed's own steps. *)

\* A step of the feed puts no reader past a row it was not handed: new rows
\* lie ahead of every cursor, and a reading takes all there is on its way.
LEMMA FeedSkipsNothing ==
  ASSUME LogOK, Feed!NothingSkipped, [Feed!FNext]_(Feed!fvars)
  PROVE  Feed!NothingSkipped'
  <1> DEFINE cur == [r \in Readers |-> readers[r].cursor]
             ids == {e.id : e \in log}
  <1>1. /\ cur \in [Readers -> Nat] /\ received \in [Readers -> SUBSET Nat]
        /\ ids \subseteq Nat /\ lastId \in Nat
        /\ \A r \in Readers : cur[r] <= lastId
    BY DEF LogOK, RowsOK, ReadersOK
  <1>2. \A r \in Readers : \A i \in ids : i <= cur[r] => i \in received[r]
    BY DEF Feed!NothingSkipped
  <1>3. SUFFICES \A r \in Readers : \A i \in ids' : i <= cur'[r] => i \in received'[r]
    BY DEF Feed!NothingSkipped
  <1>4. CASE Feed!Append
    <2>1. /\ ids' = ids \cup (lastId + 1)..lastId' /\ lastId' \in Nat
          /\ cur' = cur /\ received' = received
      BY <1>4 DEF Feed!Append
    <2> HIDE DEF ids, cur
    <2> QED
      BY <1>1, <1>2, <2>1
  <1>5. CASE Feed!Forget
    <2>1. ids' \subseteq ids /\ cur' = cur /\ received' = received
      BY <1>5 DEF Feed!Forget
    <2> HIDE DEF ids, cur
    <2> QED
      BY <1>2, <2>1
  <1>6. ASSUME NEW q \in Readers, Feed!Read(q)
        PROVE  \A r \in Readers : \A i \in ids' : i <= cur'[r] => i \in received'[r]
    <2>1. PICK n \in cur[q]..lastId :
             /\ cur' = [cur EXCEPT ![q] = n]
             /\ received' = [received EXCEPT ![q] = @ \cup {i \in ids : cur[q] < i /\ i <= n}]
             /\ ids' = ids
      BY <1>6 DEF Feed!Read, Feed!Between
    <2> HIDE DEF ids, cur
    <2> QED
      BY <1>1, <1>2, <2>1
  <1>7. CASE UNCHANGED Feed!fvars
    <2>1. ids' = ids /\ cur' = cur /\ received' = received
      BY <1>7 DEF Feed!fvars
    <2> HIDE DEF ids, cur
    <2> QED
      BY <1>2, <2>1
  <1> QED
    BY <1>4, <1>5, <1>6, <1>7 DEF Feed!FNext

\* No reader of a task's log passes over a row: across reconnections, pages
\* smaller than what is new, and rows deleted behind and in front of it
\* (list_task_events_after, stream_task_events).
THEOREM ReadersMissNothing == VSpec => []Feed!NothingSkipped
  <1>1. VInit => LogOK /\ Feed!NothingSkipped
    <2>1. VInit => LogOK
      BY LogStart
    <2>2. LogOK /\ VInit => Feed!NothingSkipped
      BY DEF LogOK, RowsOK, VInit, Readers, Feed!NothingSkipped
    <2> QED
      BY <2>1, <2>2
  <1>2. LogOK /\ Feed!NothingSkipped /\ [VNext]_vvars => LogOK' /\ Feed!NothingSkipped'
    BY StepSimulates, FeedSkipsNothing
  <1> QED
    BY <1>1, <1>2, PTL DEF VSpec

-----------------------------------------------------------------------------
(* Sums. The library's induction is not usable for a recursive definition, *)
(* but a counterexample with the fewest summands is.                       *)

\* The sets of the elements up to k are finite, and the least of them belongs
\* to the least k.
LEMMA LeastExists ==
  ASSUME NEW S \in SUBSET Nat, IsFiniteSet(S), S # {}
  PROVE  \E k \in S : \A d \in S : k <= d
  <1> DEFINE UpTo(k) == {j \in S : j <= k}
             Heads == {UpTo(k) : k \in S}
  <1>1. Heads \subseteq FiniteSubsetsOf(S) /\ Heads # {}
    <2>1. ASSUME NEW k \in S PROVE UpTo(k) \in SUBSET S /\ IsFiniteSet(UpTo(k))
      BY FS_Subset
    <2> QED
      BY <2>1 DEF FiniteSubsetsOf
  <1>2. IsWellFoundedOn(StrictSubsetOrdering(S), FiniteSubsetsOf(S))
    BY FS_StrictSubsetOrderingWellFounded
  <1>3. PICK X \in Heads : \A Y \in Heads : <<Y, X>> \notin StrictSubsetOrdering(S)
    BY <1>1, <1>2, WFMin
  <1>4. PICK k \in S : X = UpTo(k)
    BY <1>3
  <1>5. ASSUME NEW j \in S, ~(k <= j) PROVE FALSE
    <2>1. UpTo(j) \in Heads /\ UpTo(j) \subseteq S /\ X \subseteq S
      BY <1>4
    <2>2. ASSUME NEW i \in UpTo(j) PROVE i \in UpTo(k)
      BY <1>5
    <2>3. k \in UpTo(k) /\ k \notin UpTo(j)
      BY <1>5
    <2>4. <<UpTo(j), X>> \in StrictSubsetOrdering(S)
      BY <1>4, <2>1, <2>2, <2>3 DEF StrictSubsetOrdering
    <2> QED
      BY <1>3, <2>1, <2>4
  <1> QED
    BY <1>5

\* f holds the sums of the first n sizes.
Sums(s, f, n) ==
    /\ f \in [0..n -> Nat]
    /\ \A i \in 0..n : f[i] = IF i = 0 THEN 0 ELSE f[i - 1] + s[i]
Summable(s, n) == \E f : Sums(s, f, n)

LEMMA PrefixSumIsNat ==
  ASSUME NEW s \in Seq(Nat), NEW k \in 0..Len(s)
  PROVE  PrefixSum(s, k) \in Nat /\ PrefixSum(s, 0) = 0
  <1> DEFINE top == Len(s)
             bad == {n \in 0..top : ~Summable(s, n)}
             sum == CHOOSE f : f = [i \in 0..top |-> IF i = 0 THEN 0 ELSE f[i - 1] + s[i]]
  <1>1. top \in Nat /\ 0 \in Int /\ top \in Int /\ \A i \in 1..top : s[i] \in Nat
    OBVIOUS
  <1>2. PrefixSum(s, k) = sum[k] /\ PrefixSum(s, 0) = sum[0]
    BY DEF PrefixSum
  <1> HIDE DEF top
  <1>3. bad = {}
    <2> SUFFICES ASSUME bad # {} PROVE FALSE
      OBVIOUS
    <2>1. IsFiniteSet(0..top)
      BY ONLY <1>1, FS_Interval
    <2>2. bad \in SUBSET Nat /\ IsFiniteSet(bad)
      BY <1>1, <2>1, FS_Subset
    <2>3. PICK n \in bad : \A m \in bad : n <= m
      <3> HIDE DEF bad
      <3> QED
        BY <2>2, LeastExists
    <2>4. n \in 0..top /\ ~Summable(s, n)
      BY <2>3
    <2>5. n # 0
      <3> SUFFICES ASSUME n = 0 PROVE FALSE
        OBVIOUS
      <3> DEFINE f == [i \in 0..n |-> 0]
      <3>1. Sums(s, f, n)
        BY DEF Sums
      <3> HIDE DEF f
      <3> QED
        BY <2>4, <3>1 DEF Summable
    <2>6. n - 1 \in 0..top /\ n \in 1..top
      BY <1>1, <2>4, <2>5
    <2>7. Summable(s, n - 1)
      BY <1>1, <2>3, <2>6
    <2>8. PICK f : Sums(s, f, n - 1)
      BY <2>7 DEF Summable
    <2> DEFINE g == [i \in 0..n |-> IF i = n THEN f[n - 1] + s[n] ELSE f[i]]
    <2>9. Sums(s, g, n)
      <3>1. f[n - 1] \in Nat /\ s[n] \in Nat
        BY <1>1, <2>6, <2>8 DEF Sums
      <3>2. g \in [0..n -> Nat]
        BY <2>6, <2>8, <3>1 DEF Sums
      <3>3. ASSUME NEW i \in 0..n PROVE g[i] = IF i = 0 THEN 0 ELSE g[i - 1] + s[i]
        BY <2>6, <2>8 DEF Sums
      <3> HIDE DEF g
      <3> QED
        BY <3>2, <3>3 DEF Sums
    <2> HIDE DEF g
    <2> QED
      BY <2>4, <2>9 DEF Summable
  <1>4. PICK f : Sums(s, f, top)
    <2>1. top \in 0..top /\ top \notin bad
      BY <1>1, <1>3
    <2> QED
      BY <2>1 DEF Summable
  <1>5. f = [i \in 0..top |-> IF i = 0 THEN 0 ELSE f[i - 1] + s[i]]
    BY <1>4 DEF Sums
  <1>6. sum = [i \in 0..top |-> IF i = 0 THEN 0 ELSE sum[i - 1] + s[i]]
    BY <1>5
  <1> HIDE DEF sum
  <1>7. \A i \in 0..top : sum[i] = IF i = 0 THEN 0 ELSE sum[i - 1] + s[i]
    BY <1>6
  <1> DEFINE odd == {n \in 0..top : sum[n] \notin Nat}
  <1>8. odd = {}
    <2> SUFFICES ASSUME odd # {} PROVE FALSE
      OBVIOUS
    <2>1. IsFiniteSet(0..top)
      BY ONLY <1>1, FS_Interval
    <2>2. odd \in SUBSET Nat /\ IsFiniteSet(odd)
      BY <1>1, <2>1, FS_Subset
    <2>3. PICK n \in odd : \A m \in odd : n <= m
      <3> HIDE DEF odd
      <3> QED
        BY <2>2, LeastExists
    <2>4. n \in 0..top /\ sum[n] \notin Nat /\ n # 0
      BY <1>1, <1>7, <2>3
    <2>5. n - 1 \in 0..top /\ n \in 1..top
      BY <1>1, <2>4
    <2>6. sum[n - 1] \in Nat
      BY <1>1, <2>3, <2>5
    <2>7. sum[n] = sum[n - 1] + s[n] /\ s[n] \in Nat
      BY <1>1, <1>7, <2>4, <2>5
    <2> QED
      BY <2>4, <2>6, <2>7
  <1>9. k \in 0..top /\ 0 \in 0..top
    BY <1>1 DEF top
  <1> QED
    BY <1>2, <1>7, <1>8, <1>9

-----------------------------------------------------------------------------
(* The caps and the marker.                                                *)

TruncationMarks == {e \in log : e.kind = "truncated"}

\* The flag of the task row is up exactly when something was left out, and
\* then there is one marker in the log.
CapsOK ==
    /\ task \in [status : {task.status}, rows : 0..MaxRows, bytes : 0..MaxBytes,
                 truncated : BOOLEAN]
    /\ omitted \in BOOLEAN /\ omitted = task.truncated
    /\ IF omitted THEN \E e : TruncationMarks = {e} ELSE TruncationMarks = {}

LEMMA PlainRows ==
  ASSUME NEW kinds, NEW sizes, Len(kinds) \in Nat, Insert(kinds, sizes),
         \A i \in 1..Len(kinds) : kinds[i] # "truncated"
  PROVE  TruncationMarks' = TruncationMarks
  <1> DEFINE Row(i) == [id |-> FreshId + i - 1, kind |-> kinds[i], size |-> sizes[i]]
             new == {Row(i) : i \in 1..Len(kinds)}
  <1>1. log' = log \cup new
    BY DEF Insert
  <1>2. \A i \in 1..Len(kinds) : Row(i).kind = kinds[i]
    OBVIOUS
  <1> HIDE DEF Row
  <1>3. \A e \in new : e.kind # "truncated"
    BY <1>2
  <1> HIDE DEF new
  <1> QED
    BY <1>1, <1>3 DEF TruncationMarks

LEMMA LastRowMarks ==
  ASSUME NEW kinds, NEW sizes, Len(kinds) \in Nat \ {0}, Insert(kinds, sizes),
         kinds[Len(kinds)] = "truncated",
         \A i \in 1..(Len(kinds) - 1) : kinds[i] # "truncated"
  PROVE  \E e : TruncationMarks' = TruncationMarks \cup {e}
  <1> DEFINE Row(i) == [id |-> FreshId + i - 1, kind |-> kinds[i], size |-> sizes[i]]
             new == {Row(i) : i \in 1..Len(kinds)}
             marker == Row(Len(kinds))
  <1>1. log' = log \cup new
    BY DEF Insert
  <1>2. \A i \in 1..Len(kinds) : Row(i).kind = kinds[i]
    OBVIOUS
  <1> HIDE DEF Row
  <1>3. marker \in new /\ marker.kind = "truncated" /\ \A e \in new : e.kind = "truncated" => e = marker
    <2>1. \A i \in 1..Len(kinds) : i = Len(kinds) \/ i \in 1..(Len(kinds) - 1)
      OBVIOUS
    <2> QED
      BY <1>2, <2>1
  <1> HIDE DEF new, marker
  <1>4. TruncationMarks' = TruncationMarks \cup {marker}
    BY <1>1, <1>3 DEF TruncationMarks
  <1> QED
    BY <1>4

LEMMA AppendKeepsCaps ==
  ASSUME CapsOK, NEW batch \in Batches, AppendBatch(batch)
  PROVE  CapsOK'
  <1> DEFINE s == batch.sizes
  <1>1. s \in Seq(Nat) /\ batch.dropped \in BOOLEAN
    <2>1. s \in Seq(Sizes) /\ batch.dropped \in BOOLEAN
      BY DEF Batches, BoundedSeq, SeqOf
    <2>2. Sizes \subseteq Nat
      BY EventsAssumption
    <2> HIDE DEF s
    <2>3. Len(s) \in Nat /\ s \in [1..Len(s) -> Sizes]
      BY <2>1
    <2>4. s \in [1..Len(s) -> Nat]
      BY <2>2, <2>3
    <2> QED
      BY <2>1, <2>3, <2>4
  <1>2. PICK n \in 0..Len(s) :
           /\ Admitted(s, n)
           /\ Insert([i \in 1..n |-> "progress"] \o
                        (IF WinsMarker(batch, n) THEN <<"truncated">> ELSE <<>>),
                     SubSeq(s, 1, n) \o <<0>>)
           /\ task' = [task EXCEPT !.rows = @ + n, !.bytes = @ + PrefixSum(s, n),
                                   !.truncated = @ \/ WinsMarker(batch, n)]
           /\ omitted' = (omitted \/ n < Len(s) \/ batch.dropped)
    BY DEF AppendBatch
  <1> HIDE DEF s
  <1>3. /\ task.rows \in Nat /\ task.rows <= MaxRows /\ task.bytes \in Nat /\ task.bytes <= MaxBytes
        /\ task.truncated \in BOOLEAN /\ omitted = task.truncated /\ MaxRows \in Nat /\ MaxBytes \in Nat
    BY EventsAssumption DEF CapsOK
  <1>4. PICK total \in Nat : total = PrefixSum(s, n)
    BY <1>1, PrefixSumIsNat
  <1>5. task.rows + n \in 0..MaxRows /\ task.bytes + total \in 0..MaxBytes
    <2>1. CASE n = 0
      <3>1. 0 \in 0..Len(s)
        BY <1>1
      <3>2. total = 0
        BY <1>1, <1>4, <2>1, <3>1, PrefixSumIsNat
      <3> QED
        BY <1>3, <2>1, <3>2
    <2>2. CASE n # 0
      <3>1. n \in 1..n
        BY <1>1, <2>2
      <3>2. Fits(s, n)
        BY <1>2, <3>1 DEF Admitted
      <3>3. task.rows + n <= MaxRows /\ task.bytes + total <= MaxBytes
        BY <1>4, <3>2 DEF Fits
      <3> QED
        BY <1>1, <1>3, <3>1, <3>3
    <2> QED
      BY <2>1, <2>2
  <1>6. PICK won \in BOOLEAN : won = WinsMarker(batch, n)
    BY DEF WinsMarker
  <1>7. won <=> ((batch.dropped \/ n < Len(s)) /\ ~task.truncated)
    BY <1>6 DEF WinsMarker, s
  <1>8. task' = [task EXCEPT !.rows = @ + n, !.bytes = @ + total, !.truncated = @ \/ won]
    BY <1>2, <1>4, <1>6
  <1>9. /\ task' \in [status : {task.status}, rows : 0..MaxRows, bytes : 0..MaxBytes,
                      truncated : BOOLEAN]
        /\ task'.status = task.status /\ (task'.truncated <=> (task.truncated \/ won))
    BY <1>3, <1>5, <1>8 DEF CapsOK
  <1>10. (omitted' <=> (omitted \/ won)) /\ omitted' \in BOOLEAN
    BY <1>1, <1>2, <1>3, <1>7
  <1> DEFINE plain == [i \in 1..n |-> "progress"]
  <1>11. IF omitted' THEN \E e : TruncationMarks' = {e} ELSE TruncationMarks' = {}
    <2>1. n \in Nat /\ plain \in Seq({"progress", "truncated"}) /\ Len(plain) = n
      BY <1>1, <1>2
    <2>2. CASE ~won
      <3>1. <<>> \in Seq({"progress", "truncated"})
        OBVIOUS
      <3>2. PICK kinds \in Seq({"progress", "truncated"}) :
               kinds = plain \o (IF WinsMarker(batch, n) THEN <<"truncated">> ELSE <<>>)
        <4>1. plain \o <<>> \in Seq({"progress", "truncated"})
          BY <2>1, <3>1
        <4>2. (IF WinsMarker(batch, n) THEN <<"truncated">> ELSE <<>>) = <<>>
          BY <1>6, <2>2
        <4> QED
          BY <4>1, <4>2
      <3>3. Insert(kinds, SubSeq(s, 1, n) \o <<0>>)
        BY <1>2, <3>2
      <3>4. kinds = plain \o <<>>
        BY <1>6, <2>2, <3>2
      <3>5. Len(kinds) = n /\ \A i \in 1..n : kinds[i] = "progress"
        BY <2>1, <3>4
      <3>6. Len(kinds) \in Nat /\ \A i \in 1..Len(kinds) : kinds[i] # "truncated"
        BY <2>1, <3>5
      <3>7. TruncationMarks' = TruncationMarks
        BY <3>3, <3>6, PlainRows
      <3> QED
        BY <1>10, <2>2, <3>7 DEF CapsOK
    <2>3. CASE won
      <3>1. <<"truncated">> \in Seq({"progress", "truncated"}) /\ Len(<<"truncated">>) = 1
        OBVIOUS
      <3>2. PICK kinds \in Seq({"progress", "truncated"}) :
               kinds = plain \o (IF WinsMarker(batch, n) THEN <<"truncated">> ELSE <<>>)
        <4>1. plain \o <<"truncated">> \in Seq({"progress", "truncated"})
          BY <2>1, <3>1
        <4>2. (IF WinsMarker(batch, n) THEN <<"truncated">> ELSE <<>>) = <<"truncated">>
          BY <1>6, <2>3
        <4> QED
          BY <4>1, <4>2
      <3>3. Insert(kinds, SubSeq(s, 1, n) \o <<0>>)
        BY <1>2, <3>2
      <3>4. kinds = plain \o <<"truncated">>
        BY <1>6, <2>3, <3>2
      <3>5. /\ Len(kinds) = n + 1 /\ kinds[n + 1] = "truncated"
            /\ \A i \in 1..n : kinds[i] = "progress"
        BY <2>1, <3>1, <3>4
      <3>6. /\ Len(kinds) \in Nat \ {0} /\ kinds[Len(kinds)] = "truncated"
            /\ \A i \in 1..(Len(kinds) - 1) : kinds[i] # "truncated"
        BY <2>1, <3>5
      <3>7. PICK e : TruncationMarks' = TruncationMarks \cup {e}
        BY <3>3, <3>6, LastRowMarks
      <3>8. TruncationMarks = {} /\ omitted'
        BY <1>3, <1>7, <1>10, <2>3 DEF CapsOK
      <3> QED
        BY <3>7, <3>8
    <2> QED
      BY <2>2, <2>3
  <1> QED
    BY <1>3, <1>9, <1>10, <1>11 DEF CapsOK

LEMMA CapsKept == CapsOK /\ [VNext]_vvars => CapsOK'
  <1> SUFFICES ASSUME CapsOK, [VNext]_vvars PROVE CapsOK'
    OBVIOUS
  <1>1. ASSUME TruncationMarks' = TruncationMarks, omitted' = omitted,
               \/ task' = task \/ \E status : task' = [task EXCEPT !.status = status]
        PROVE  CapsOK'
    <2>1. /\ task' \in [status : {task'.status}, rows : 0..MaxRows, bytes : 0..MaxBytes,
                        truncated : BOOLEAN]
          /\ task'.truncated = task.truncated
      BY <1>1 DEF CapsOK
    <2> QED
      BY <1>1, <2>1 DEF CapsOK
  <1>2. CASE \E batch \in Batches : AppendBatch(batch)
    BY <1>2, AppendKeepsCaps
  <1>3. ASSUME NEW told \in {"running", "stage", "summary", "push_failed", "resumed"}, AddEvent(told)
        PROVE  TruncationMarks' = TruncationMarks
    <2>1. Insert(<<told>>, <<0>>)
      BY <1>3 DEF AddEvent
    <2>2. Len(<<told>>) = 1 /\ \A i \in 1..Len(<<told>>) : <<told>>[i] # "truncated"
      OBVIOUS
    <2> QED
      BY <2>1, <2>2, PlainRows
  <1>4. CASE MarkRunning \/ RecordStage \/ SyncResults \/ PushMismatch \/ Requeue
    <2>1. /\ \E told \in {"running", "stage", "summary", "push_failed", "resumed"} : AddEvent(told)
          /\ omitted' = omitted
          /\ task' = task \/ \E status : task' = [task EXCEPT !.status = status]
      BY <1>4 DEF MarkRunning, RecordStage, SyncResults, PushMismatch, Requeue, LeaveReaders
    <2> QED
      BY <1>1, <1>3, <2>1
  <1>5. ASSUME NEW status, NEW summaries \in {<<"summary">>, <<"summary", "summary">>},
               Finish(status, summaries)
        PROVE  CapsOK'
    <2>1. omitted' = omitted /\ task' = [task EXCEPT !.status = status]
      BY <1>5 DEF Finish, LeaveReaders
    <2>2. PICK kinds \in Seq({"summary", "terminal"}) : kinds = summaries \o <<"terminal">>
      <3>1. /\ <<"terminal">> \in Seq({"summary", "terminal"})
            /\ <<"summary">> \in Seq({"summary", "terminal"})
            /\ <<"summary", "summary">> \in Seq({"summary", "terminal"})
        OBVIOUS
      <3>2. PICK sums \in Seq({"summary", "terminal"}) : sums = summaries
        BY <3>1
      <3>3. sums \o <<"terminal">> \in Seq({"summary", "terminal"})
        BY <3>1
      <3> QED
        BY <3>2, <3>3
    <2>3. Len(kinds) \in Nat /\ \A i \in 1..Len(kinds) : kinds[i] # "truncated"
      OBVIOUS
    <2>4. log' = log \/ Insert(kinds, [i \in 1..Len(summaries) + 1 |-> 0])
      BY <1>5, <2>2 DEF Finish
    <2>5. TruncationMarks' = TruncationMarks
      BY <2>3, <2>4, PlainRows DEF TruncationMarks
    <2> QED
      BY <1>1, <2>1, <2>5
  <1>6. CASE MarkFailed \/ MarkPoisoned \/ CancelTask
    BY <1>5, <1>6 DEF MarkFailed, MarkPoisoned, CancelTask
  <1>7. CASE Prune
    <2>1. log' = {e \in log : ~(e.kind = "progress" /\ e.id <= oldTo)} /\ UNCHANGED <<task, omitted>>
      BY <1>7 DEF Prune
    <2>2. TruncationMarks' = TruncationMarks
      BY <2>1 DEF TruncationMarks
    <2> QED
      BY <1>1, <2>1, <2>2
  <1>8. CASE TimeGoesBy \/ Connect \/ Disconnect \/ StreamPoll \/ PageLoad \/ PagePoll \/ UNCHANGED vvars
    <2>1. log' = log /\ task' = task /\ omitted' = omitted
      BY <1>8 DEF TimeGoesBy, Connect, Disconnect, StreamPoll, PageLoad, PagePoll, Deliver, LeaveLog, vvars
    <2> QED
      BY <1>1, <2>1 DEF TruncationMarks
  <1> QED
    BY <1>2, <1>4, <1>6, <1>7, <1>8 DEF VNext

LEMMA CapsStart == VInit => CapsOK
  <1> SUFFICES ASSUME VInit PROVE CapsOK
    OBVIOUS
  <1>1. TruncationMarks = {}
    BY DEF VInit, TruncationMarks
  <1>2. /\ task \in [status : {task.status}, rows : 0..MaxRows, bytes : 0..MaxBytes, truncated : BOOLEAN]
        /\ task.truncated = FALSE /\ omitted = FALSE
    BY EventsAssumption DEF VInit
  <1> QED
    BY <1>1, <1>2 DEF CapsOK

\* For any caps and batches, however many sessions meet a cap and however often
\* the task runs or its rows are pruned: progress stays inside both caps, and
\* the log has one marker if anything was left out, none otherwise
\* (append_progress_event_batch).
THEOREM OmissionsAreTold == VSpec => []OmissionIsTold
  <1>1. CapsOK => OmissionIsTold
    <2> SUFFICES ASSUME CapsOK PROVE OmissionIsTold
      OBVIOUS
    <2>1. Cardinality(TruncationMarks) = IF omitted THEN 1 ELSE 0
      <3>1. CASE omitted
        <4>1. PICK e : TruncationMarks = {e}
          BY <3>1 DEF CapsOK
        <4>2. Cardinality(TruncationMarks) = 1
          BY <4>1, FS_Singleton
        <4> QED
          BY <3>1, <4>2
      <3>2. CASE ~omitted
        <4>1. TruncationMarks = {}
          BY <3>2 DEF CapsOK
        <4>2. Cardinality(TruncationMarks) = 0
          BY <4>1, FS_EmptySet
        <4> QED
          BY <3>2, <4>2
      <3> QED
        BY <3>1, <3>2
    <2>2. task.rows <= MaxRows /\ task.bytes <= MaxBytes
      BY EventsAssumption DEF CapsOK
    <2> QED
      BY <2>1, <2>2 DEF OmissionIsTold, TruncationMarks
  <1> QED
    BY CapsStart, CapsKept, <1>1, PTL DEF VSpec

-----------------------------------------------------------------------------
(* The directories of the standalone calls.                                *)

Steps == {"out", "made", "body", "removed", "unlocked"}

CallTypes ==
    /\ cstep \in [Calls -> Steps]
    /\ looked \in [Passes -> Calls \cup {Nobody}]

\* A directory is young from its making until its lease is held.
MadeIsYoung == \A c \in Calls : cstep[c] = "made" => c \notin aged
\* The lease of a call that is in progress is held.
BodyIsLocked == \A c \in Calls : cstep[c] = "body" => c \in lock
\* What a pass looked at and will find old belongs to no call in progress:
\* it was old when the pass looked, so its lease, which nobody held, is not
\* one about to be taken.
LookedIsDead ==
    \A p \in Passes : \A c \in Calls :
        looked[p] = c /\ c \in aged => cstep[c] \notin {"made", "body"}

CallsOK ==
    CallTypes /\ MadeIsYoung /\ BodyIsLocked /\ LookedIsDead /\ LiveCallKeepsDirectory

-----------------------------------------------------------------------------
\* Nothing is there at the start.
LEMMA CallsStart == CInit => CallsOK
  BY CallsAssumption DEF CInit, CallsOK, CallTypes, MadeIsYoung, BodyIsLocked, LookedIsDead,
     LiveCallKeepsDirectory, Steps

\* A fresh directory is young, so no pass that looked earlier will take it.
LEMMA MakeDirectoryKeeps ==
  ASSUME CallsOK, NEW c \in Calls, MakeDirectory(c)
  PROVE  CallsOK'
  <1> USE DEF MakeDirectory, CallsOK
  <1>1. CallTypes'
    BY DEF CallTypes, Steps
  <1>2. MadeIsYoung' /\ BodyIsLocked' /\ LookedIsDead'
    BY DEF CallTypes, MadeIsYoung, BodyIsLocked, LookedIsDead
  <1>3. LiveCallKeepsDirectory'
    BY DEF CallTypes, LiveCallKeepsDirectory
  <1> QED
    BY <1>1, <1>2, <1>3

\* Taking the lease touches the directory, which is young for it.
LEMMA TakeLeaseKeeps ==
  ASSUME CallsOK, NEW c \in Calls, TakeLease(c)
  PROVE  CallsOK'
  <1> USE DEF CallsOK
  <1>1. CASE c \in dirs
    BY <1>1 DEF TakeLease, CallTypes, Steps, MadeIsYoung, BodyIsLocked, LookedIsDead,
       LiveCallKeepsDirectory
  <1>2. CASE c \notin dirs
    BY <1>2 DEF TakeLease, CallTypes, Steps, MadeIsYoung, BodyIsLocked, LookedIsDead,
       LiveCallKeepsDirectory
  <1> QED
    BY <1>1, <1>2

\* The three ways a call ends take the lock or the directory of that call
\* alone, which is then not in progress.
LEMMA EndingKeeps ==
  ASSUME CallsOK, NEW c \in Calls, RemoveTree(c) \/ GiveUpLock(c) \/ CallDies(c)
  PROVE  CallsOK'
  <1> USE DEF CallsOK, CallTypes, Steps, MadeIsYoung, BodyIsLocked, LookedIsDead,
              LiveCallKeepsDirectory
  <1>1. CASE RemoveTree(c)
    BY <1>1 DEF RemoveTree
  <1>2. CASE GiveUpLock(c)
    BY <1>2 DEF GiveUpLock
  <1>3. CASE CallDies(c)
    BY <1>3 DEF CallDies
  <1> QED
    BY <1>1, <1>2, <1>3

\* A directory turns old only while no pass is between its two readings.
LEMMA DirectoryAgesKeeps ==
  ASSUME CallsOK, NEW c \in Calls, DirectoryAges(c)
  PROVE  CallsOK'
  BY CallsAssumption DEF DirectoryAges, CallsOK, CallTypes, Steps, MadeIsYoung, BodyIsLocked,
     LookedIsDead, LiveCallKeepsDirectory

\* A lease nobody holds is no call's in progress, and of an old directory no
\* call's about to start.
LEMMA LookAtLeaseKeeps ==
  ASSUME CallsOK, NEW c \in Calls, NEW p \in Passes, LookAtLease(p, c)
  PROVE  CallsOK'
  BY DEF LookAtLease, Inactive, CallsOK, CallTypes, Steps, MadeIsYoung, BodyIsLocked,
     LookedIsDead, LiveCallKeepsDirectory

\* What a pass removes was dead when it looked, and is still.
LEMMA RemoveOrphanKeeps ==
  ASSUME CallsOK, NEW p \in Passes, RemoveOrphan(p)
  PROVE  CallsOK'
  <1> USE DEF CallsOK
  <1>1. CallTypes' /\ MadeIsYoung' /\ BodyIsLocked'
    BY DEF RemoveOrphan, CallTypes, MadeIsYoung, BodyIsLocked
  <1>2. LookedIsDead'
    BY CallsAssumption DEF RemoveOrphan, CallTypes, LookedIsDead
  <1>3. LiveCallKeepsDirectory'
    BY DEF RemoveOrphan, CallTypes, LookedIsDead, LiveCallKeepsDirectory
  <1> QED
    BY <1>1, <1>2, <1>3

\* The directory of a call in progress is never taken away, for any number
\* of calls and retention passes (prune_standalone,
\* prune_standalone_generation_executions).
THEOREM CallsKeepDirectories == CSpec => []LiveCallKeepsDirectory
  <1>1. CallsOK /\ [CNext]_cvars => CallsOK'
    <2> SUFFICES ASSUME CallsOK, [CNext]_cvars PROVE CallsOK'
      OBVIOUS
    <2>1. CASE \E c \in Calls : MakeDirectory(c)
      BY <2>1, MakeDirectoryKeeps
    <2>2. CASE \E c \in Calls : TakeLease(c)
      BY <2>2, TakeLeaseKeeps
    <2>3. CASE \E c \in Calls : RemoveTree(c) \/ GiveUpLock(c) \/ CallDies(c)
      BY <2>3, EndingKeeps
    <2>4. CASE \E c \in Calls : DirectoryAges(c)
      BY <2>4, DirectoryAgesKeeps
    <2>5. CASE \E c \in Calls, p \in Passes : LookAtLease(p, c)
      BY <2>5, LookAtLeaseKeeps
    <2>6. CASE \E p \in Passes : RemoveOrphan(p)
      BY <2>6, RemoveOrphanKeeps
    <2>7. CASE UNCHANGED cvars
      BY <2>7 DEF cvars, CallsOK, CallTypes, MadeIsYoung, BodyIsLocked, LookedIsDead,
         LiveCallKeepsDirectory
    <2> QED
      BY <2>1, <2>2, <2>3, <2>4, <2>5, <2>6, <2>7 DEF CNext
  <1>2. CallsOK => LiveCallKeepsDirectory
    BY DEF CallsOK
  <1> QED
    BY CallsStart, <1>1, <1>2, PTL DEF CSpec
-----------------------------------------------------------------------------
(* Lineages.                                                               *)

ClassRow(c) == [status |-> lrow[c].status, key |-> lrow[c].key]
LineageTypes ==
    /\ order \in Seq(ToSet(LClasses))
    /\ lrow = [c \in ToSet(LClasses) |-> ClassRow(c)]
    /\ kept = [s \in ToSet(Stores) |-> kept[s]]
    /\ \A t \in superseded : "units" \in DOMAIN t

Named == Keys \cup UNION {t.units : t \in superseded}

\* The unit a worker runs is one its classes name.
LineagesOK ==
    /\ LineageTypes
    /\ lwork # NoUnit => lwork.unit \in Keys
    /\ \A s \in ToSet(Stores) : kept[s] \subseteq Named

\* Every class that keeps its place and its key keeps the names it gives.
LEMMA KeysGrow ==
  ASSUME Members \subseteq Members', \A c \in Members : lrow'[c].key = lrow[c].key
  PROVE  Keys \subseteq Keys'
  BY DEF Keys

LEMMA LineagesStart == LInit => LineagesOK
  <1> SUFFICES ASSUME LInit PROVE LineagesOK
    OBVIOUS
  <1>1. PICK n \in {Len(LClasses) - 1, Len(LClasses)} : order = SubSeq(LClasses, 1, n)
    BY DEF LInit
  <1>2. order \in Seq(ToSet(LClasses))
    BY <1>1, LineagesAssumption
  <1>3. LineageTypes
    BY <1>2 DEF LInit, LineageTypes, ClassRow
  <1> QED
    BY <1>3 DEF LInit, LineagesOK

\* The unit handed out is the unit of a row.
LEMMA OpenUnitIsNamed ==
  ASSUME LineageTypes, Consistent, FirstOpen # 0
  PROVE  lrow[order[FirstOpen]].key \in Keys
  <1> DEFINE heads == {i \in DOMAIN order :
                         /\ i = 1 \/ lrow[order[i - 1]].key # lrow[order[i]].key
                         /\ \E c \in UnitFrom(i) : lrow[c].status = "QUEUED"}
  <1>1. FirstOpen = IF heads = {} THEN 0 ELSE CHOOSE i \in heads : \A j \in heads : i <= j
    BY DEF FirstOpen
  <1>2. heads \subseteq 1..Len(order) /\ heads \subseteq Nat /\ Len(order) \in Nat /\ heads # {}
    <2>1. heads \subseteq DOMAIN order
      OBVIOUS
    <2>2. heads # {}
      <3> HIDE DEF heads
      <3> QED
        BY <1>1
    <2>3. DOMAIN order = 1..Len(order) /\ Len(order) \in Nat
      BY DEF LineageTypes
    <2> HIDE DEF heads
    <2> QED
      BY <2>1, <2>2, <2>3
  <1>3. IsFiniteSet(heads)
    <2>1. 1 \in Int /\ Len(order) \in Int
      BY <1>2
    <2>2. IsFiniteSet(1..Len(order))
      BY ONLY <2>1, FS_Interval
    <2> QED
      BY <1>2, <2>2, FS_Subset
  <1>4. \E i \in heads : \A j \in heads : i <= j
    <2> HIDE DEF heads
    <2> QED
      BY <1>2, <1>3, LeastExists
  <1>5. FirstOpen \in heads
    <2> HIDE DEF heads
    <2> QED
      BY <1>1, <1>2, <1>4
  <1>6. order[FirstOpen] \in Members
    BY <1>5 DEF Members, ToSet
  <1> QED
    BY <1>6 DEF Keys, Consistent

LEMMA StartUnitKeeps ==
  ASSUME LineagesOK, StartUnit
  PROVE  LineagesOK'
  <1>0. UNCHANGED <<order, kept, superseded>>
    BY DEF StartUnit
  <1>1. CASE Keys = {}
    <2>1. lwork' = NoUnit /\ lrow' = [c \in DOMAIN lrow |->
                  IF c \in Members THEN [lrow[c] EXCEPT !.key = Partition(runs + 1)[c]]
                  ELSE lrow[c]]
      BY <1>1 DEF StartUnit
    <2>2. LineageTypes'
      BY <1>0, <2>1 DEF LineagesOK, LineageTypes, ClassRow
    <2> QED
      BY <1>0, <1>1, <2>1, <2>2 DEF LineagesOK, Named
  <1>2. CASE Keys # {} /\ lwork' = lwork
    <2>1. lrow' = lrow
      BY <1>2 DEF StartUnit
    <2> QED
      BY <1>0, <1>2, <2>1 DEF LineagesOK, LineageTypes, ClassRow, Named, Keys, Members
  <1>3. CASE Keys # {} /\ lwork' # lwork
    <2>1. lrow' = lrow /\ Consistent /\ FirstOpen # 0 /\ lwork'.unit = lrow[order[FirstOpen]].key
      BY <1>3 DEF StartUnit
    <2>2. lwork'.unit \in Keys
      BY <2>1, OpenUnitIsNamed DEF LineagesOK
    <2>3. LineageTypes' /\ Keys' = Keys /\ Named' = Named
      BY <1>0, <2>1 DEF LineagesOK, LineageTypes, ClassRow, Named, Keys, Members
    <2> QED
      BY <1>0, <2>2, <2>3 DEF LineagesOK
  <1> QED
    BY <1>1, <1>2, <1>3

\* A step that keeps the names, leaves nothing new and takes up no unit.
LEMMA LineagesFrame ==
  ASSUME LineagesOK, LineageTypes', Keys \subseteq Keys', superseded' = superseded,
         \A s \in ToSet(Stores) : kept'[s] \subseteq kept[s],
         lwork' = lwork \/ lwork' = NoUnit
  PROVE  LineagesOK'
  BY DEF LineagesOK, Named

LEMMA CleanRerunKeeps ==
  ASSUME LineagesOK, CleanRerun
  PROVE  LineagesOK'
  <1>1. PICK requeue \in Policies :
          /\ superseded' = superseded \cup Supersessions(requeue)
          /\ lrow' = [c \in DOMAIN lrow |->
                IF c \notin Members THEN lrow[c]
                ELSE [key    |-> Partition(runs + 1)[c],
                      status |-> IF lrow[c].status \in requeue THEN "QUEUED" ELSE lrow[c].status]]
    BY DEF CleanRerun
  <1>2. UNCHANGED <<order, kept, lwork>> /\ lwork = NoUnit
    BY DEF CleanRerun
  <1>3. LineageTypes'
    <2>1. lrow' = [c \in ToSet(LClasses) |-> ClassRow(c)']
      BY <1>1 DEF LineagesOK, LineageTypes, ClassRow
    <2>2. \A t \in superseded' : "units" \in DOMAIN t
      BY <1>1 DEF LineagesOK, LineageTypes, Supersessions
    <2> QED
      BY <1>2, <2>1, <2>2 DEF LineagesOK, LineageTypes, ClassRow
  <1>4. ASSUME NEW k \in Keys PROVE \E t \in Supersessions(requeue) : k \in t.units
    <2> DEFINE t == [run |-> k[1], units |-> {l \in Keys : l[1] = k[1]}, old |-> FALSE]
    <2>1. t \in Supersessions(requeue) /\ k \in t.units
      BY <1>4 DEF Supersessions
    <2> QED
      BY <2>1
  <1>5. Named \subseteq UNION {t.units : t \in superseded'}
    BY <1>1, <1>4 DEF Named
  <1> QED
    BY <1>2, <1>3, <1>5 DEF LineagesOK, Named

LEMMA TimePassesKeeps ==
  ASSUME LineagesOK, TimePasses
  PROVE  LineagesOK'
  <1>0. UNCHANGED <<order, lrow, kept, lwork>>
    BY DEF TimePasses
  <1>1. Keys' = Keys
    BY <1>0 DEF Keys, Members
  <1>2. CASE superseded' = superseded
    BY <1>0, <1>1, <1>2 DEF LineagesOK, LineageTypes, ClassRow, Named
  <1>3. ASSUME NEW s \in superseded, superseded' = (superseded \ {s}) \cup {[s EXCEPT !.old = TRUE]}
        PROVE  LineagesOK'
    <2> DEFINE older == [s EXCEPT !.old = TRUE]
    <2>1. older.units = s.units /\ "units" \in DOMAIN older
      <3>1. "units" \in DOMAIN s
        BY DEF LineagesOK, LineageTypes
      <3> QED
        BY ONLY <3>1, Zenon
    <2>2. \A t \in superseded' : "units" \in DOMAIN t
      <3> HIDE DEF older
      <3> QED
        BY <1>3, <2>1 DEF LineagesOK, LineageTypes, older
    <2>3. \A t \in superseded : \E u \in superseded' : u.units = t.units
      <3>1. superseded' = (superseded \ {s}) \cup {older}
        BY <1>3
      <3> HIDE DEF older
      <3> QED
        BY <2>1, <3>1
    <2>4. Named \subseteq Named'
      BY <1>1, <2>3 DEF Named
    <2> QED
      BY <1>0, <1>1, <2>2, <2>4 DEF LineagesOK, LineageTypes, ClassRow
  <1> QED
    BY <1>2, <1>3 DEF TimePasses

LEMMA LineagesKept == LineagesOK /\ [LNext]_lvars => LineagesOK'
  <1> SUFFICES ASSUME LineagesOK, [LNext]_lvars PROVE LineagesOK'
    OBVIOUS
  <1>1. CASE Leave
    <2>1. UNCHANGED <<order, lrow, superseded, lwork>> /\ lwork # NoUnit
      BY <1>1 DEF Leave
    <2>2. LineageTypes' /\ Keys' = Keys /\ Named' = Named
      BY <1>1, <2>1 DEF Leave, LineagesOK, LineageTypes, ClassRow, Keys, Members, Named
    <2>3. \A s \in ToSet(Stores) : kept'[s] \subseteq kept[s] \cup {lwork.unit}
      BY <1>1 DEF Leave, LineagesOK, LineageTypes
    <2>4. lwork.unit \in Named
      BY <2>1 DEF LineagesOK, Named
    <2> QED
      BY <2>1, <2>2, <2>3, <2>4 DEF LineagesOK
  <1>2. CASE FinishUnit
    <2>1. PICK done \in {"PASS", "FAIL"} : lrow' = [c \in DOMAIN lrow |->
             IF c \in lwork.members /\ lrow[c].status = "QUEUED"
             THEN [lrow[c] EXCEPT !.status = done] ELSE lrow[c]]
      BY <1>2 DEF FinishUnit
    <2>2. UNCHANGED <<order, kept, superseded>> /\ lwork' = NoUnit
      BY <1>2 DEF FinishUnit
    <2>3. \A c \in ToSet(LClasses) : lrow'[c].key = lrow[c].key
      BY <2>1 DEF LineagesOK, LineageTypes, ClassRow
    <2>4. LineageTypes'
      BY <2>1, <2>2 DEF LineagesOK, LineageTypes, ClassRow
    <2>5. Members' = Members /\ Members \subseteq ToSet(LClasses)
      BY <2>2 DEF LineagesOK, LineageTypes, Members, ToSet
    <2>6. Keys \subseteq Keys'
      BY <2>3, <2>5, KeysGrow
    <2> QED
      BY <2>2, <2>4, <2>6, LineagesFrame
  <1>3. CASE LeaveUnit \/ ResumeTask \/ StartPass \/ PassDies \/ UNCHANGED lvars
    <2>1. UNCHANGED <<order, lrow, kept, superseded>> /\ (lwork' = lwork \/ lwork' = NoUnit)
      BY <1>3 DEF LeaveUnit, ResumeTask, StartPass, PassDies, lvars
    <2> QED
      BY <2>1, LineagesFrame DEF LineagesOK, LineageTypes, ClassRow, Keys, Members
  <1>4. CASE Reprioritize
    <2>1. PICK i \in DOMAIN order, j \in DOMAIN order :
             order' = [order EXCEPT ![i] = order[j], ![j] = order[i]]
      BY <1>4 DEF Reprioritize
    <2>2. UNCHANGED <<lrow, kept, superseded, lwork>>
      BY <1>4 DEF Reprioritize
    <2>3. order' \in Seq(ToSet(LClasses))
      BY <2>1 DEF LineagesOK, LineageTypes
    <2>4. Members \subseteq Members'
      <3>1. ASSUME NEW k \in DOMAIN order PROVE \E l \in DOMAIN order' : order'[l] = order[k]
        <4>1. DOMAIN order' = DOMAIN order
          BY <2>1
        <4>2. CASE k = i
          <5>1. order'[j] = order[i]
            BY <2>1 DEF LineagesOK, LineageTypes
          <5> QED
            BY <4>1, <4>2, <5>1
        <4>3. CASE k = j /\ k # i
          <5>1. order'[i] = order[j]
            BY <2>1, <4>3 DEF LineagesOK, LineageTypes
          <5> QED
            BY <4>1, <4>3, <5>1
        <4>4. CASE k # i /\ k # j
          BY <2>1, <4>1, <4>4
        <4> QED
          BY <4>2, <4>3, <4>4
      <3> QED
        BY <3>1 DEF Members, ToSet
    <2>5. Keys \subseteq Keys'
      BY <2>2, <2>4, KeysGrow
    <2> QED
      BY <2>2, <2>3, <2>5, LineagesFrame DEF LineagesOK, LineageTypes, ClassRow
  <1>5. CASE AddClass
    <2>1. PICK c \in ToSet(LClasses) \ Members : order' = Append(order, c)
      BY <1>5 DEF AddClass
    <2>2. UNCHANGED <<lrow, kept, superseded, lwork>>
      BY <1>5 DEF AddClass
    <2>3. order' \in Seq(ToSet(LClasses))
      BY <2>1 DEF LineagesOK, LineageTypes
    <2>4. Members \subseteq Members'
      BY <2>1 DEF LineagesOK, LineageTypes, Members, ToSet
    <2>5. Keys \subseteq Keys'
      BY <2>2, <2>4, KeysGrow
    <2> QED
      BY <2>2, <2>3, <2>5, LineagesFrame DEF LineagesOK, LineageTypes, ClassRow
  <1>6. CASE PruneStep
    <2>1. UNCHANGED <<order, lrow, superseded, lwork>>
      BY <1>6 DEF PruneStep
    <2>2. \/ kept' = kept
          \/ kept' = [kept EXCEPT ![Stores[pruner.store]] = @ \ {pruner.unit}]
      BY <1>6 DEF PruneStep
    <2>3. kept' = [s \in ToSet(Stores) |-> kept'[s]]
          /\ \A s \in ToSet(Stores) : kept'[s] \subseteq kept[s]
      BY <2>2 DEF LineagesOK, LineageTypes
    <2> QED
      BY <2>1, <2>3, LineagesFrame DEF LineagesOK, LineageTypes, ClassRow, Keys, Members
  <1> QED
    BY <1>1, <1>2, <1>3, <1>4, <1>5, <1>6, StartUnitKeeps, CleanRerunKeeps, TimePassesKeeps DEF LNext

\* For any classes, batch sizes, stores, clean reruns and retention passes
\* that die half way: what a lineage has left behind is named by a row that
\* retention reads.
THEOREM NothingIsOrphaned == LSpec => []NothingOrphaned
  <1>1. LineagesOK => NothingOrphaned
    BY DEF LineagesOK, NothingOrphaned, Named
  <1> QED
    BY LineagesStart, LineagesKept, <1>1, PTL DEF LSpec
-----------------------------------------------------------------------------
(* The branches of the tasks.                                              *)

BranchNames == {b.name : b \in branches}
Ways == {"idle", "reused", "named", Fresh}
CreationTypes ==
    /\ IsFiniteSet(branches) /\ Cardinality(branches) <= MaxBranches
    /\ BranchNames \subseteq Nat
    /\ request \in [Creators -> [how : Ways, profile : Profiles \cup {""}, branch : Nat]]
    /\ tasks \in Seq([branch : Nat, how : Ways, of : {"classes", "targets"}])

\* Every branch handed out has its row, and of those that were handed out as
\* new, to a task or to a process still to make its task, no two are the same.
Handed == /\ \A j \in DOMAIN tasks : tasks[j].branch \in BranchNames
          /\ \A c \in Creators : request[c] # NoRequest => request[c].branch \in BranchNames
NewToOneProcess ==
    /\ \A c, d \in Creators : (c # d /\ request[c].how = Fresh /\ request[d].how = Fresh)
                                 => request[c].branch # request[d].branch
    /\ \A c \in Creators : \A j \in DOMAIN tasks : (request[c].how = Fresh /\ tasks[j].how = Fresh)
                                 => request[c].branch # tasks[j].branch
NewToOneTask ==
    \A i, j \in DOMAIN tasks : (i # j /\ tasks[i].how = Fresh /\ tasks[j].how = Fresh)
                                 => tasks[i].branch # tasks[j].branch
CreationOK == CreationTypes /\ Handed /\ NewToOneProcess /\ NewToOneTask

\* With at most MaxBranches rows, one of MaxBranches + 1 numbers is free.
LEMMA FirstFreeIsFree ==
  ASSUME CreationTypes, NEW profile
  PROVE  FirstFree(profile) \in Nat \ BranchNames
  <1> DEFINE numbers == 1..(MaxBranches + 1)
             free == {n \in numbers : ~Taken(n, profile)}
  <1>1. MaxBranches \in Nat
    BY CreationAssumption
  <1>2. IsFiniteSet(numbers) /\ Cardinality(numbers) = MaxBranches + 1
    <2>1. PICK top \in Int : top = MaxBranches + 1
      BY <1>1
    <2>2. 1 \in Int
      OBVIOUS
    <2>3. IsFiniteSet(1..top) /\ Cardinality(1..top) = IF 1 > top THEN 0 ELSE top - 1 + 1
      BY ONLY <2>1, <2>2, FS_Interval
    <2> QED
      BY <1>1, <2>1, <2>3
  <1>3. free # {}
    <2> SUFFICES ASSUME free = {} PROVE FALSE
      OBVIOUS
    <2> DEFINE row == [n \in numbers |-> CHOOSE b \in branches : b.name = n]
    <2>1. \A n \in numbers : Taken(n, profile)
      OBVIOUS
    <2>2. \A n \in numbers : row[n] \in branches /\ row[n].name = n
      BY <2>1 DEF Taken
    <2>3. row \in [numbers -> branches]
      BY <2>2
    <2>5. IsFiniteSet(branches) /\ Cardinality(branches) <= MaxBranches
      BY DEF CreationTypes
    <2>4. Cardinality(branches) \in Nat /\ Cardinality(branches) < Cardinality(numbers)
      <3>1. Cardinality(branches) \in Nat
        BY <2>5, FS_CardinalityType
      <3> QED
        BY <1>1, <1>2, <2>5, <3>1
    <2> HIDE DEF numbers, row
    <2>6. \E x, y \in numbers : x # y /\ row[x] = row[y]
      BY <1>2, <2>3, <2>4, <2>5, FS_PigeonHole
    <2> QED
      BY <2>2, <2>6
  <1>4. free \subseteq numbers /\ free \subseteq Nat
    BY <1>1
  <1>5. IsFiniteSet(free)
    BY <1>2, <1>4, FS_Subset
  <1>6. FirstFree(profile) = Min(free)
    BY DEF FirstFree
  <1>7. FirstFree(profile) \in free
    <2> HIDE DEF free
    <2>1. \E k \in free : \A d \in free : k <= d
      BY <1>3, <1>4, <1>5, LeastExists
    <2> QED
      BY <1>6, <2>1 DEF Min
  <1>8. ~Taken(FirstFree(profile), profile)
    BY <1>7
  <1> QED
    BY <1>4, <1>7, <1>8 DEF Taken, BranchNames

LEMMA CreationStart == KInit => CreationOK
  <1> SUFFICES ASSUME KInit PROVE CreationOK
    OBVIOUS
  <1>1. branches = {} /\ tasks = <<>> /\ request = [c \in Creators |-> NoRequest]
    BY DEF KInit
  <1>2. BranchNames = {} /\ DOMAIN tasks = {}
    BY <1>1 DEF BranchNames
  <1>3. IsFiniteSet(branches) /\ Cardinality(branches) <= MaxBranches
    BY <1>1, CreationAssumption, FS_EmptySet
  <1>4. NoRequest \in [how : Ways, profile : Profiles \cup {""}, branch : Nat] /\ NoRequest.how # Fresh
    BY DEF NoRequest, Ways, Fresh
  <1>5. tasks \in Seq([branch : Nat, how : Ways, of : {"classes", "targets"}])
    BY <1>1
  <1>6. CreationTypes
    BY <1>1, <1>2, <1>3, <1>4, <1>5 DEF CreationTypes
  <1>7. \A c \in Creators : request[c] = NoRequest
    BY <1>1
  <1> QED
    BY <1>2, <1>4, <1>6, <1>7 DEF CreationOK, Handed, NewToOneProcess, NewToOneTask

\* A process gets a branch: one that is new to everybody if it is said to be.
LEMMA GetKeeps ==
  ASSUME CreationOK, NEW c \in Creators, NEW how \in Ways \ {"idle"}, NEW profile \in Profiles,
         NEW name \in Nat, Get(c, how, profile, name), how = Fresh => name \notin BranchNames
  PROVE  CreationOK'
  <1>1. /\ branches' = branches \cup {[name |-> name, profile |-> profile]}
        /\ Cardinality(branches') <= MaxBranches
        /\ request' = [request EXCEPT ![c] = [how |-> how, profile |-> profile, branch |-> name]]
        /\ tasks' = tasks
    BY DEF Get
  <1> DEFINE new == [name |-> name, profile |-> profile]
  <1>a. new.name = name /\ branches' = branches \cup {new}
    BY <1>1
  <1>2. BranchNames' = BranchNames \cup {name}
    <2> HIDE DEF new
    <2> QED
      BY <1>a DEF BranchNames
  <1>3. CreationTypes'
    <2>1. IsFiniteSet(branches')
      BY <1>1, FS_AddElement DEF CreationOK, CreationTypes
    <2> QED
      BY <1>1, <1>2, <2>1 DEF CreationOK, CreationTypes
  <1>4. /\ request'[c].how = how /\ request'[c].branch = name
        /\ \A d \in Creators \ {c} : request'[d] = request[d]
    BY <1>1 DEF CreationOK, CreationTypes
  <1>5. \A d \in Creators : request[d].how = Fresh => request[d] # NoRequest
    <2>1. NoRequest.how # Fresh
      BY DEF NoRequest, Fresh
    <2> QED
      BY <2>1
  <1>6. Handed'
    BY <1>1, <1>2, <1>4 DEF CreationOK, Handed
  <1>7. NewToOneProcess'
    BY <1>1, <1>4, <1>5 DEF CreationOK, Handed, NewToOneProcess
  <1>8. NewToOneTask'
    BY <1>1 DEF CreationOK, NewToOneTask
  <1> QED
    BY <1>3, <1>6, <1>7, <1>8 DEF CreationOK

LEMMA CreateRowKeeps ==
  ASSUME CreationOK, NEW c \in Creators, NEW of \in {"classes", "targets"}, CreateRow(c, of)
  PROVE  CreationOK'
  <1> DEFINE row == [branch |-> request[c].branch, how |-> request[c].how, of |-> of]
  <1>1. /\ request[c] # NoRequest /\ branches' = branches
        /\ tasks' = Append(tasks, row)
        /\ request' = [request EXCEPT ![c] = NoRequest]
    BY DEF CreateRow
  <1>2. row \in [branch : Nat, how : Ways, of : {"classes", "targets"}]
    BY DEF CreationOK, CreationTypes
  <1>3. /\ tasks' \in Seq([branch : Nat, how : Ways, of : {"classes", "targets"}])
        /\ Len(tasks) \in Nat /\ DOMAIN tasks = 1..Len(tasks)
        /\ DOMAIN tasks' = 1..(Len(tasks) + 1) /\ tasks'[Len(tasks) + 1] = row
        /\ \A j \in DOMAIN tasks : tasks'[j] = tasks[j]
    <2>1. PICK r \in [branch : Nat, how : Ways, of : {"classes", "targets"}] : r = row
      BY <1>2
    <2>2. tasks' = Append(tasks, r)
      BY <1>1, <2>1
    <2>3. tasks \in Seq([branch : Nat, how : Ways, of : {"classes", "targets"}])
      BY DEF CreationOK, CreationTypes
    <2> HIDE DEF row
    <2> QED
      BY <2>1, <2>2, <2>3
  <1>4. NoRequest \in [how : Ways, profile : Profiles \cup {""}, branch : Nat]
    BY DEF NoRequest, Ways
  <1>5. /\ request'[c] = NoRequest /\ NoRequest.how # Fresh
        /\ \A d \in Creators \ {c} : request'[d] = request[d]
    BY <1>1 DEF CreationOK, CreationTypes, NoRequest, Fresh
  <1>6. BranchNames' = BranchNames
    BY <1>1 DEF BranchNames
  <1>7. CreationTypes'
    BY <1>1, <1>3, <1>4, <1>6 DEF CreationOK, CreationTypes
  <1>8. \A j \in DOMAIN tasks' : j \in DOMAIN tasks \/ (j = Len(tasks) + 1 /\ j \notin DOMAIN tasks)
    BY <1>3
  <1>9. row.branch = request[c].branch /\ row.how = request[c].how
    OBVIOUS
  <1> HIDE DEF row
  <1>10. Handed'
    BY <1>1, <1>3, <1>5, <1>6, <1>8, <1>9 DEF CreationOK, Handed
  <1>11. NewToOneProcess'
    BY <1>3, <1>5, <1>8, <1>9 DEF CreationOK, NewToOneProcess
  <1>12. NewToOneTask'
    BY <1>3, <1>8, <1>9 DEF CreationOK, NewToOneProcess, NewToOneTask
  <1> QED
    BY <1>7, <1>10, <1>11, <1>12 DEF CreationOK

LEMMA CreationKept == CreationOK /\ [KNext]_kvars => CreationOK'
  <1> SUFFICES ASSUME CreationOK, [KNext]_kvars PROVE CreationOK'
    OBVIOUS
  <1>0. Ways = {"idle", "reused", "named", "generated"}
    BY DEF Ways, Fresh
  <1>1. CASE UNCHANGED <<branches, request, tasks>>
    BY <1>1 DEF CreationOK, CreationTypes, BranchNames, Handed, NewToOneProcess, NewToOneTask
  <1>2. ASSUME NEW c \in Creators, NEW profile \in Profiles, ReuseBranch(c, profile)
        PROVE  CreationOK'
    <2>1. PICK name \in Reusable(profile) : Get(c, "reused", profile, name)
      BY <1>2 DEF ReuseBranch
    <2>2. name \in Nat
      BY DEF Reusable, CreationOK, CreationTypes, BranchNames
    <2>3. "reused" \in Ways \ {"idle"} /\ "reused" # Fresh
      BY <1>0 DEF Fresh
    <2> QED
      BY <2>1, <2>2, <2>3, GetKeeps
  <1>3. ASSUME NEW c \in Creators, NEW profile \in Profiles, NEW new \in BOOLEAN,
               GenerateBranch(c, profile, new)
        PROVE  CreationOK'
    <2>1. PICK name \in Nat \ BranchNames : name = FirstFree(profile)
      BY FirstFreeIsFree DEF CreationOK
    <2>2. Get(c, Fresh, profile, name)
      BY <1>3, <2>1 DEF GenerateBranch, Get
    <2>3. Fresh \in Ways \ {"idle"}
      BY <1>0 DEF Fresh
    <2> QED
      BY <2>1, <2>2, <2>3, GetKeeps
  <1>4. ASSUME NEW c \in Creators, NEW profile \in Profiles, NEW name \in GivenNames,
               NamedBranch(c, profile, name)
        PROVE  CreationOK'
    <2>1. "named" \in Ways \ {"idle"} /\ "named" # Fresh /\ name \in Nat
      BY <1>0, CreationAssumption DEF Fresh
    <2> QED
      BY <1>4, <2>1, GetKeeps DEF NamedBranch
  <1>5. ASSUME NEW c \in Creators, CreateTask(c) \/ CreateTaskTargets(c)
        PROVE  CreationOK'
    BY <1>5, CreateRowKeeps DEF CreateTask, CreateTaskTargets
  <1>6. ASSUME NEW c \in Creators, Die(c)
        PROVE  CreationOK'
    <2>1. request' = [request EXCEPT ![c] = NoRequest] /\ UNCHANGED <<branches, tasks>>
      BY <1>6 DEF Die
    <2>2. NoRequest \in [how : Ways, profile : Profiles \cup {""}, branch : Nat] /\ NoRequest.how # Fresh
      BY DEF NoRequest, Ways, Fresh
    <2>3. request'[c] = NoRequest /\ \A d \in Creators \ {c} : request'[d] = request[d]
      BY <2>1 DEF CreationOK, CreationTypes
    <2>4. CreationTypes'
      BY <2>1, <2>2 DEF CreationOK, CreationTypes, BranchNames
    <2>5. Handed' /\ NewToOneProcess' /\ NewToOneTask'
      <3>1. BranchNames' = BranchNames /\ tasks' = tasks
        BY <2>1 DEF BranchNames
      <3>2. Handed'
        BY <2>3, <3>1 DEF CreationOK, Handed
      <3>3. NewToOneProcess'
        <4>1. \A d \in Creators : request'[d].how = Fresh => d # c /\ request'[d] = request[d]
          BY <2>2, <2>3
        <4> QED
          BY <3>1, <4>1 DEF CreationOK, NewToOneProcess
      <3>4. NewToOneTask'
        BY <3>1 DEF CreationOK, NewToOneTask
      <3> QED
        BY <3>2, <3>3, <3>4
    <2> QED
      BY <2>4, <2>5 DEF CreationOK
  <1> QED
    BY <1>1, <1>2, <1>3, <1>4, <1>5, <1>6 DEF KNext, Creating, OpenDatabase, kvars

\* For any processes, profiles and names: a branch that was generated for a
\* task is no other task's generated branch, although a process may die, or
\* another take the name, between the branch row and the task row.
THEOREM GeneratedBranchIsFresh == KSpec => []GeneratedIsFresh
  <1>1. CreationOK => GeneratedIsFresh
    BY DEF CreationOK, NewToOneTask, GeneratedIsFresh
  <1> QED
    BY CreationStart, CreationKept, <1>1, PTL DEF KSpec
-----------------------------------------------------------------------------
(* The delivery to the branch.                                             *)

Commits == [id : Nat, holds : SUBSET DClasses]
Places == {"idle", "off", "commit", "record", "push", "verify", "retry", "again", "refused",
           "verified", "pushed", "sync", "publish", "pushfail", "latest", "existing", "esync",
           "skipped"}
\* Where the push at the end of a Java run can be.
LastPush == {"push", "verify", "retry", "again", "refused", "verified"}

WorkTypes ==
    work \in [pc : Places, cls : DClasses \cup {NoBatch}, res : Resolved \cup {"none"},
              sha : Nat, tip : Nat, final : BOOLEAN, check : BOOLEAN, batch : SUBSET DClasses,
              published : {work.published}, cleaned : {work.cleaned}]
DeliveryTypes ==
    /\ WorkTypes
    /\ remote \in Seq(Commits) /\ made \in Nat
    /\ clone \in [branch : Seq(Commits), rebasing : BOOLEAN, detached : Seq(Commits)]
    /\ crow \in [DClasses -> [status : Resolved \cup {"QUEUED"}, sha : Nat, pushed : BOOLEAN]]
    /\ trow \in [status : {"RUNNING", "COMPLETED", "FAILED"}, latest : Nat, ref : Nat]

\* A batch under way has its class and a result to write into its row; only
\* the push at the end of a run has none.
BatchOK ==
    IF work.final THEN work.pc \in LastPush
    ELSE work.pc \notin {"idle", "off"} => work.res \in Resolved /\ work.cls \in DClasses

\* Of the batches of the run, at most the one under way has a class left open.
BatchesResolved ==
    \A c \in work.batch \ lost :
       \/ crow[c].status \in Resolved
       \/ c = work.cls /\ work.pc \notin {"idle", "skipped"}

\* What a run was told is on the remote branch is there, and stays there.
CommitIds(commits) == {commits[i].id : i \in DOMAIN commits}
TipIsRemote == work.tip # NoSha => work.tip \in CommitIds(remote)
RefIsRemote == (trow.latest # NoSha /\ trow.latest = trow.ref) => trow.latest \in CommitIds(remote)

DeliveryOK == DeliveryTypes /\ BatchOK /\ BatchesResolved /\ TipIsRemote /\ RefIsRemote

LEMMA GotoOn ==
  ASSUME WorkTypes, NEW pc \in Places \ {"idle", "off"}, Goto(pc)
  PROVE  /\ WorkTypes' /\ work'.pc = pc
         /\ work'.cls = work.cls /\ work'.res = work.res /\ work'.sha = work.sha
         /\ work'.tip = work.tip /\ work'.final = work.final /\ work'.batch = work.batch
  <1>1. work' = [work EXCEPT !.pc = pc, !.published = {}, !.cleaned = {}]
    BY DEF Goto
  <1> QED
    BY <1>1 DEF WorkTypes

LEMMA GotoOff ==
  ASSUME WorkTypes, Goto("off")
  PROVE  /\ WorkTypes' /\ work'.pc = "off" /\ work'.tip = NoSha /\ work'.final = FALSE
         /\ work'.batch = {}
  BY DEF Goto, WorkTypes, Idle, NoSha, NoBatch, Places, Resolved

LEMMA GotoIdle ==
  ASSUME WorkTypes, Goto("idle")
  PROVE  /\ WorkTypes' /\ work'.pc = "idle" /\ work'.tip = NoSha /\ work'.final = FALSE
         /\ work'.batch = work.batch
  BY DEF Goto, WorkTypes, Idle, NoSha, NoBatch, Places, Resolved

\* Two sequences have a longest common prefix.
LEMMA SharedPrefix ==
  ASSUME NEW s \in Seq(Commits), NEW t \in Seq(Commits)
  PROVE  Len(LongestCommonPrefix({s, t})) \in Nat
  <1> DEFINE P == CommonPrefixes({s, t})
             short == {Len(s) - Len(p) : p \in P}
  <1>1. \A p \in P : p \in Seq(Commits) /\ Len(p) <= Len(s)
    <2>1. ASSUME NEW p \in P PROVE IsPrefix(p, s) /\ p \in Seq(Commits)
      <3>1. PICK r \in {s, t} : p \in {SubSeq(r, 1, i) : i \in 0..Len(r)}
        BY DEF CommonPrefixes, Prefixes
      <3>2. PICK i \in 0..Len(r) : p = SubSeq(r, 1, i)
        BY <3>1
      <3>3. p \in Seq(Commits)
        BY <3>2
      <3> QED
        BY <3>3 DEF CommonPrefixes
    <2> QED
      BY <2>1 DEF IsPrefix
  <1>2. <<>> \in P
    <2>1. <<>> = SubSeq(s, 1, 0) /\ 0 \in 0..Len(s) /\ <<>> = SubSeq(t, 1, 0)
      OBVIOUS
    <2>2. IsPrefix(<<>>, s) /\ IsPrefix(<<>>, t)
      BY <2>1 DEF IsPrefix
    <2>3. <<>> \in UNION {{SubSeq(r, 1, i) : i \in 0..Len(r)} : r \in {s, t}}
      BY <2>1
    <2> QED
      BY <2>2, <2>3 DEF CommonPrefixes, Prefixes
  <1>3. short \subseteq 0..Len(s) /\ short \subseteq Nat /\ short # {}
    <2> HIDE DEF P
    <2>1. \A p \in P : Len(s) - Len(p) \in 0..Len(s)
      BY <1>1
    <2> QED
      BY <1>2, <2>1
  <1>4. IsFiniteSet(short)
    <2>1. 0 \in Int /\ Len(s) \in Int
      OBVIOUS
    <2>2. IsFiniteSet(0..Len(s))
      BY ONLY <2>1, FS_Interval
    <2> HIDE DEF short
    <2> QED
      BY <1>3, <2>2, FS_Subset
  <1>5. PICK d \in short : \A e \in short : d <= e
    <2> HIDE DEF short
    <2> QED
      BY <1>3, <1>4, LeastExists
  <1>6. PICK p \in P : d = Len(s) - Len(p)
    BY <1>5
  <1>7. \A q \in P : Len(q) <= Len(p)
    <2> HIDE DEF P
    <2>1. ASSUME NEW q \in P PROVE Len(q) <= Len(p)
      <3>1. Len(s) - Len(q) \in short
        OBVIOUS
      <3>2. d <= Len(s) - Len(q)
        BY <1>5, <3>1
      <3> QED
        BY <1>1, <1>6, <3>2
    <2> QED
      BY <2>1
  <1>8. LongestCommonPrefix({s, t}) = CHOOSE longest \in P : \A other \in P : Len(other) <= Len(longest)
    BY DEF LongestCommonPrefix
  <1>9. LongestCommonPrefix({s, t}) \in P
    <2> HIDE DEF P
    <2> QED
      BY <1>7, <1>8
  <1> QED
    BY <1>1, <1>9

\* A fast-forward keeps every commit; an append adds one.
LEMMA FastForwardKeeps ==
  ASSUME DeliveryTypes, FastForward
  PROVE  CommitIds(remote) \subseteq CommitIds(clone.branch)
  <1>1. /\ Len(remote) \in Nat /\ Len(clone.branch) \in Nat /\ Len(remote) <= Len(clone.branch)
        /\ SubSeq(remote, 1, Len(remote)) = SubSeq(clone.branch, 1, Len(remote))
        /\ remote \in Seq(Commits) /\ clone.branch \in Seq(Commits)
    BY DEF DeliveryTypes, FastForward, IsPrefix
  <1>2. ASSUME NEW i \in DOMAIN remote PROVE i \in DOMAIN clone.branch /\ clone.branch[i] = remote[i]
    <2>1. i \in 1..Len(remote)
      BY <1>1
    <2>2. SubSeq(remote, 1, Len(remote))[i] = remote[i]
      BY <1>1, <2>1
    <2>3. SubSeq(clone.branch, 1, Len(remote))[i] = clone.branch[i]
      BY <1>1, <2>1
    <2> QED
      BY <1>1, <2>1, <2>2, <2>3
  <1> QED
    BY <1>2 DEF CommitIds

LEMMA AppendKeeps ==
  ASSUME NEW s \in Seq(Commits), NEW c \in Commits
  PROVE  /\ Append(s, c) \in Seq(Commits)
         /\ CommitIds(s) \subseteq CommitIds(Append(s, c)) /\ c.id \in CommitIds(Append(s, c))
  <1>1. /\ DOMAIN s = 1..Len(s) /\ Len(s) \in Nat
        /\ DOMAIN Append(s, c) = 1..(Len(s) + 1)
        /\ \A i \in 1..Len(s) : Append(s, c)[i] = s[i]
        /\ Append(s, c)[Len(s) + 1] = c
    OBVIOUS
  <1> QED
    BY <1>1 DEF CommitIds

LEMMA LastIsThere ==
  ASSUME NEW s \in Seq(Commits)
  PROVE  Sha(s) \in Nat /\ (Sha(s) # NoSha => Sha(s) \in CommitIds(s))
  <1>1. CASE s = <<>>
    BY <1>1 DEF Sha, NoSha
  <1>2. CASE s # <<>>
    <2>1. Len(s) \in DOMAIN s /\ s[Len(s)] \in Commits
      BY <1>2
    <2> QED
      BY <1>2, <2>1 DEF Sha, Last, CommitIds, Commits
  <1> QED
    BY <1>1, <1>2

\* Git moves, the rows stay.
LEMMA GitMoves ==
  ASSUME DeliveryOK, WorkTypes', BatchOK', UNCHANGED <<crow, trow, lost>>,
         remote' \in Seq(Commits), made' \in Nat, CommitIds(remote) \subseteq CommitIds(remote'),
         clone' \in [branch : Seq(Commits), rebasing : BOOLEAN, detached : Seq(Commits)],
         work'.tip # NoSha => work'.tip \in CommitIds(remote'),
         \/ work'.batch = {}
         \/ /\ work'.batch = work.batch /\ work'.cls = work.cls
            /\ work'.pc \notin {"idle", "skipped"} \/ work.pc \in {"idle", "skipped"}
  PROVE  DeliveryOK'
  <1>1. DeliveryTypes'
    BY DEF DeliveryOK, DeliveryTypes
  <1>2. BatchesResolved'
    BY DEF DeliveryOK, BatchesResolved
  <1>3. TipIsRemote' /\ RefIsRemote'
    BY DEF DeliveryOK, TipIsRemote, RefIsRemote
  <1> QED
    BY <1>1, <1>2, <1>3 DEF DeliveryOK

LEMMA CommitKeeps == DeliveryOK /\ Commit => DeliveryOK'
  <1> SUFFICES ASSUME DeliveryOK, Commit PROVE DeliveryOK'
    OBVIOUS
  <1>1. /\ WorkTypes /\ work.pc = "commit" /\ UNCHANGED <<kind, remote, crow, trow, refused, lost>>
        /\ remote \in Seq(Commits) /\ made \in Nat
        /\ clone \in [branch : Seq(Commits), rebasing : BOOLEAN, detached : Seq(Commits)]
    BY DEF DeliveryOK, DeliveryTypes, Commit, At, Rows
  <1>2. ~work.final /\ work.res \in Resolved /\ work.cls \in DClasses
    BY <1>1 DEF DeliveryOK, BatchOK, LastPush
  <1>3. CASE Goto("record") /\ UNCHANGED <<clone, made>>
    <2>1. "record" \in Places \ {"idle", "off"}
      BY DEF Places
    <2>2. WorkTypes' /\ BatchOK'
      BY <1>1, <1>2, <1>3, <2>1, GotoOn DEF BatchOK
    <2> QED
      BY <1>1, <1>3, <2>1, <2>2, GotoOn, GitMoves DEF DeliveryOK, TipIsRemote
  <1>4. ASSUME NEW new \in Commits, new = [id |-> made + 1, holds |-> {work.cls}],
               clone' = IF clone.rebasing
                        THEN [clone EXCEPT !.detached = Append(@, new)]
                        ELSE [clone EXCEPT !.branch = Append(@, new)],
               made' = made + 1, work' = [work EXCEPT !.pc = "record", !.sha = made + 1]
        PROVE  DeliveryOK'
    <2>1. /\ work'.pc = "record" /\ work'.tip = work.tip /\ work'.batch = work.batch
          /\ work'.cls = work.cls /\ ~work'.final /\ work'.res = work.res
          /\ work'.published = work.published /\ work'.cleaned = work.cleaned
      BY <1>1, <1>2, <1>4 DEF WorkTypes
    <2>4. WorkTypes'
      <3>1. made + 1 \in Nat /\ "record" \in Places
        BY <1>1 DEF Places
      <3>2. work' \in [pc : Places, cls : DClasses \cup {NoBatch}, res : Resolved \cup {"none"},
              sha : Nat, tip : Nat, final : BOOLEAN, check : BOOLEAN, batch : SUBSET DClasses,
              published : {work.published}, cleaned : {work.cleaned}]
        BY <1>1, <1>4, <3>1 DEF WorkTypes
      <3> QED
        BY <2>1, <3>2 DEF WorkTypes
    <2>2. clone' \in [branch : Seq(Commits), rebasing : BOOLEAN, detached : Seq(Commits)]
      <3>1. /\ Append(clone.detached, new) \in Seq(Commits)
            /\ Append(clone.branch, new) \in Seq(Commits)
        BY <1>1, AppendKeeps
      <3> QED
        BY <1>1, <1>4, <3>1
    <2>3. BatchOK' /\ made' \in Nat
      BY <1>1, <1>2, <1>4, <2>1 DEF BatchOK
    <2>5. work'.tip # NoSha => work'.tip \in CommitIds(remote')
      BY <1>1, <2>1 DEF DeliveryOK, TipIsRemote
    <2> QED
      BY <1>1, <2>1, <2>2, <2>3, <2>4, <2>5, GitMoves
  <1>5. PICK new \in Commits : new = [id |-> made + 1, holds |-> {work.cls}]
    <2>1. [id |-> made + 1, holds |-> {work.cls}] \in Commits
      BY <1>1, <1>2 DEF Commits
    <2> QED
      BY <2>1
  <1> QED
    BY <1>1, <1>3, <1>4, <1>5 DEF Commit, At

Clones == [branch : Seq(Commits), rebasing : BOOLEAN, detached : Seq(Commits)]

LEMMA GitGoesOn ==
  ASSUME DeliveryOK, NEW pc \in Places \ {"idle", "off", "skipped"}, Goto(pc),
         work.pc \notin {"idle", "off"}, work.final => pc \in LastPush,
         UNCHANGED <<crow, trow, lost>>, made' \in Nat, clone' \in Clones,
         remote' \in Seq(Commits), CommitIds(remote) \subseteq CommitIds(remote')
  PROVE  DeliveryOK'
  <1>1. /\ WorkTypes' /\ work'.pc = pc /\ work'.cls = work.cls /\ work'.res = work.res
        /\ work'.tip = work.tip /\ work'.final = work.final /\ work'.batch = work.batch
    BY GotoOn DEF DeliveryOK, DeliveryTypes
  <1>2. BatchOK'
    BY <1>1 DEF DeliveryOK, BatchOK
  <1>3. work'.tip # NoSha => work'.tip \in CommitIds(remote')
    BY <1>1 DEF DeliveryOK, TipIsRemote
  <1>4. work'.pc \notin {"idle", "skipped"}
    BY <1>1
  <1> QED
    BY <1>1, <1>2, <1>3, <1>4, GitMoves DEF Clones

LEMMA GitGoesOff ==
  ASSUME DeliveryOK, Goto("off"), UNCHANGED <<crow, trow, lost>>, made' \in Nat, clone' \in Clones,
         remote' \in Seq(Commits), CommitIds(remote) \subseteq CommitIds(remote')
  PROVE  DeliveryOK'
  <1>1. /\ WorkTypes' /\ work'.pc = "off" /\ work'.tip = NoSha /\ work'.final = FALSE
        /\ work'.batch = {}
    BY GotoOff DEF DeliveryOK, DeliveryTypes
  <1>2. BatchOK'
    BY <1>1 DEF BatchOK
  <1> QED
    BY <1>1, <1>2, GitMoves DEF Clones

LEMMA PushKeeps == DeliveryOK /\ (Push \/ PushAgain) => DeliveryOK'
  <1> SUFFICES ASSUME DeliveryOK, Push \/ PushAgain PROVE DeliveryOK'
    OBVIOUS
  <1>1. /\ work.pc \in {"push", "again"} /\ UNCHANGED <<crow, trow, lost>>
        /\ made' = made /\ clone' = clone
    BY DEF Push, PushAgain, At, Rows
  <1>2. /\ made \in Nat /\ clone \in Clones /\ remote \in Seq(Commits) /\ clone.branch \in Seq(Commits)
    BY DEF DeliveryOK, DeliveryTypes, Clones
  <1>3. {"verify", "retry", "refused"} \subseteq (Places \ {"idle", "off", "skipped"}) \cap LastPush
    BY DEF Places, LastPush
  <1>4. CASE FastForward /\ remote' = clone.branch /\ Goto("verify")
    <2>1. CommitIds(remote) \subseteq CommitIds(clone.branch)
      BY <1>4, FastForwardKeeps DEF DeliveryOK
    <2>2. CommitIds(remote) \subseteq CommitIds(remote') /\ remote' \in Seq(Commits)
      BY <1>2, <1>4, <2>1
    <2> QED
      BY <1>1, <1>2, <1>3, <1>4, <2>2, GitGoesOn
  <1>5. CASE (Goto("retry") \/ Goto("refused")) /\ UNCHANGED remote
    BY <1>1, <1>2, <1>3, <1>5, GitGoesOn
  <1> QED
    BY <1>4, <1>5 DEF Push, PushAgain

LEMMA RebaseKeeps == DeliveryOK /\ Rebase => DeliveryOK'
  <1> SUFFICES ASSUME DeliveryOK, Rebase PROVE DeliveryOK'
    OBVIOUS
  <1> DEFINE shared == LongestCommonPrefix({remote, clone.branch})
             mine == SubSeq(clone.branch, Len(shared) + 1, Len(clone.branch))
             renamed == [i \in DOMAIN mine |-> [mine[i] EXCEPT !.id = made + i]]
  <1>1. /\ work.pc = "retry" /\ UNCHANGED <<remote, crow, trow, lost>>
        /\ \/ clone' = Aborted /\ Goto("refused") /\ UNCHANGED made
           \/ clone' = Aborted /\ Goto("again") /\ UNCHANGED made
           \/ /\ clone' = [Aborted EXCEPT !.branch = remote \o renamed]
              /\ made' = made + Len(mine) /\ Goto("again")
           \/ /\ clone' = [Aborted EXCEPT !.rebasing = TRUE, !.detached = remote]
              /\ Goto("refused") /\ UNCHANGED made
    <2> HIDE DEF renamed
    <2>1. /\ work.pc = "retry" /\ UNCHANGED <<remote, crow, trow, lost>>
      BY DEF Rebase, At, Rows
    <2> QED
      BY <2>1, Zenon DEF Rebase, renamed
  <1>2. /\ made \in Nat /\ clone \in Clones /\ remote \in Seq(Commits) /\ clone.branch \in Seq(Commits)
    BY DEF DeliveryOK, DeliveryTypes, Clones
  <1>3. {"again", "refused"} \subseteq (Places \ {"idle", "off", "skipped"}) \cap LastPush
    BY DEF Places, LastPush
  <1>4. Aborted \in Clones /\ [Aborted EXCEPT !.rebasing = TRUE, !.detached = remote] \in Clones
    <2>1. <<>> \in Seq(Commits)
      OBVIOUS
    <2>2. Aborted \in Clones
      BY <1>2, <2>1 DEF Aborted, Clones
    <2>3. PICK plain \in Clones : plain = Aborted
      BY <2>2
    <2>4. [plain EXCEPT !.rebasing = TRUE, !.detached = remote] \in Clones
      BY <1>2 DEF Clones
    <2> QED
      BY <2>2, <2>3, <2>4
  <1>5. mine \in Seq(Commits) /\ Len(mine) \in Nat
    <2>1. Len(shared) \in Nat
      BY <1>2, SharedPrefix
    <2> HIDE DEF shared
    <2>2. Len(shared) + 1 \in Nat \ {0} /\ Len(clone.branch) \in Nat
      BY <1>2, <2>1
    <2>3. PICK first \in Nat \ {0} : first = Len(shared) + 1
      BY <2>2
    <2>4. SubSeq(clone.branch, first, Len(clone.branch)) \in Seq(Commits)
      BY <1>2
    <2>5. mine \in Seq(Commits)
      BY <2>3, <2>4
    <2> QED
      BY <2>5
  <1>6. remote \o renamed \in Seq(Commits)
    <2> HIDE DEF mine
    <2>1. \A i \in DOMAIN mine : mine[i] \in Commits /\ i \in Nat
      BY <1>5
    <2>2. ASSUME NEW i \in DOMAIN mine PROVE [mine[i] EXCEPT !.id = made + i] \in Commits
      <3>1. PICK c \in Commits : c = mine[i]
        BY <2>1
      <3>2. PICK n \in Nat : n = made + i
        BY <1>2, <2>1
      <3>3. [c EXCEPT !.id = n] \in Commits
        BY DEF Commits
      <3> QED
        BY <3>1, <3>2, <3>3
    <2>3. DOMAIN mine = 1..Len(mine)
      BY <1>5
    <2>4. renamed \in Seq(Commits)
      <3>1. renamed \in [1..Len(mine) -> Commits]
        BY <2>2, <2>3
      <3> HIDE DEF renamed
      <3> QED
        BY <1>5, <3>1
    <2> HIDE DEF renamed
    <2> QED
      BY <1>2, <2>4
  <1> HIDE DEF renamed, mine
  <1>7. [Aborted EXCEPT !.branch = remote \o renamed] \in Clones
    <2>1. PICK plain \in Clones : plain = Aborted
      BY <1>4
    <2>2. [plain EXCEPT !.branch = remote \o renamed] \in Clones
      BY <1>6 DEF Clones
    <2> QED
      BY <2>1, <2>2
  <1>8. clone' \in Clones /\ made' \in Nat /\ (Goto("refused") \/ Goto("again"))
    <2>1. CASE clone' = Aborted /\ (Goto("refused") \/ Goto("again")) /\ UNCHANGED made
      BY <1>2, <1>4, <2>1
    <2>2. CASE /\ clone' = [Aborted EXCEPT !.branch = remote \o renamed]
               /\ made' = made + Len(mine) /\ Goto("again")
      BY <1>2, <1>5, <1>7, <2>2
    <2>3. CASE /\ clone' = [Aborted EXCEPT !.rebasing = TRUE, !.detached = remote]
               /\ Goto("refused") /\ UNCHANGED made
      BY <1>2, <1>4, <2>3
    <2> QED
      BY <1>1, <2>1, <2>2, <2>3
  <1> QED
    BY <1>1, <1>2, <1>3, <1>8, GitGoesOn

LEMMA VerifyKeeps == DeliveryOK /\ Verify => DeliveryOK'
  <1> SUFFICES ASSUME DeliveryOK, Verify PROVE DeliveryOK'
    OBVIOUS
  <1>1. /\ work.pc = "verify" /\ UNCHANGED <<remote, clone, made, crow, trow, lost>>
        /\ remote \in Seq(Commits) /\ made \in Nat /\ WorkTypes
        /\ clone \in [branch : Seq(Commits), rebasing : BOOLEAN, detached : Seq(Commits)]
    BY DEF Verify, At, Git, Rows, DeliveryOK, DeliveryTypes
  <1>2. PICK tip \in {Sha(remote), NoSha} :
           work' = [work EXCEPT !.pc = "verified", !.tip = tip,
                      !.sha = IF work.final THEN Sha(CurrentHead) ELSE @]
    BY DEF Verify
  <1>3. tip \in Nat /\ (tip # NoSha => tip \in CommitIds(remote))
    BY <1>1, LastIsThere DEF NoSha
  <1>4. PICK head \in Nat : head = Sha(CurrentHead)
    <2>1. CurrentHead \in Seq(Commits)
      BY <1>1 DEF CurrentHead
    <2> QED
      BY <2>1, LastIsThere
  <1>5. work' = [work EXCEPT !.pc = "verified", !.tip = tip, !.sha = IF work.final THEN head ELSE @]
    BY <1>2, <1>4
  <1>6. /\ work'.pc = "verified" /\ work'.tip = tip /\ work'.batch = work.batch
        /\ work'.cls = work.cls /\ work'.final = work.final /\ work'.res = work.res
        /\ work'.published = work.published /\ work'.cleaned = work.cleaned
    BY <1>1, <1>5 DEF WorkTypes
  <1>7. WorkTypes'
    <2>1. work' \in [pc : Places, cls : DClasses \cup {NoBatch}, res : Resolved \cup {"none"},
              sha : Nat, tip : Nat, final : BOOLEAN, check : BOOLEAN, batch : SUBSET DClasses,
              published : {work.published}, cleaned : {work.cleaned}]
      BY <1>1, <1>3, <1>5 DEF WorkTypes, Places
    <2> QED
      BY <1>6, <2>1 DEF WorkTypes
  <1>8. BatchOK'
    BY <1>1, <1>6 DEF DeliveryOK, BatchOK, LastPush
  <1>9. work'.tip # NoSha => work'.tip \in CommitIds(remote')
    BY <1>1, <1>3, <1>6
  <1> QED
    BY <1>1, <1>6, <1>7, <1>8, <1>9, GitMoves

LEMMA QuietStepsKeep ==
  DeliveryOK /\ (RecordRefused \/ RunDies \/ DeveloperPushes) => DeliveryOK'
  <1> SUFFICES ASSUME DeliveryOK, RecordRefused \/ RunDies \/ DeveloperPushes PROVE DeliveryOK'
    OBVIOUS
  <1>1. WorkTypes /\ made \in Nat /\ clone \in Clones /\ remote \in Seq(Commits)
    BY DEF DeliveryOK, DeliveryTypes, Clones
  <1>2. CASE RunDies
    BY <1>1, <1>2, GitGoesOff DEF RunDies, Git, Rows
  <1>3. CASE RecordRefused
    <2>1. /\ work.pc = "refused" /\ (Goto("off") \/ (~work.final /\ Goto("sync")))
          /\ UNCHANGED <<remote, clone, made, crow, trow, lost>>
      BY <1>3 DEF RecordRefused, At, Git, Rows
    <2>2. "sync" \in Places \ {"idle", "off", "skipped"}
      BY DEF Places
    <2> QED
      BY <1>1, <2>1, <2>2, GitGoesOn, GitGoesOff
  <1>4. CASE DeveloperPushes
    <2> DEFINE pushed == [id |-> made + 1, holds |-> {}]
    <2>1. /\ UNCHANGED <<clone, crow, trow, work, lost>> /\ made' = made + 1
          /\ remote' = Append(remote, pushed)
      BY <1>4 DEF DeveloperPushes, Rows
    <2>2. pushed \in Commits
      BY <1>1 DEF Commits
    <2>3. Append(remote, pushed) \in Seq(Commits) /\ CommitIds(remote) \subseteq CommitIds(Append(remote, pushed))
      <3> HIDE DEF pushed
      <3> QED
        BY <1>1, <2>2, AppendKeeps
    <2> HIDE DEF pushed
    <2>4. remote' \in Seq(Commits) /\ CommitIds(remote) \subseteq CommitIds(remote')
      BY <2>1, <2>3
    <2>5. WorkTypes' /\ BatchOK' /\ (work'.tip # NoSha => work'.tip \in CommitIds(remote'))
      <3>1. WorkTypes' /\ BatchOK'
        BY <1>1, <2>1 DEF DeliveryOK, WorkTypes, BatchOK
      <3>2. work'.tip # NoSha => work'.tip \in CommitIds(remote')
        BY <2>1, <2>4 DEF DeliveryOK, TipIsRemote
      <3> QED
        BY <3>1, <3>2
    <2>6. made' \in Nat /\ clone' \in Clones
      BY <1>1, <2>1
    <2>7. work'.batch = work.batch /\ work'.cls = work.cls /\ work'.pc = work.pc
      BY <2>1
    <2> QED
      BY <2>1, <2>4, <2>5, <2>6, <2>7, GitMoves DEF Clones
  <1> QED
    BY <1>2, <1>3, <1>4

\* The last push starts when no batch has a class left open.
LEMMA StoreAndPushKeeps == DeliveryOK /\ StoreAndPush => DeliveryOK'
  <1> SUFFICES ASSUME DeliveryOK, StoreAndPush PROVE DeliveryOK'
    OBVIOUS
  <1>1. /\ UNCHANGED <<remote, clone, made, crow, trow, lost>> /\ work.pc = "idle"
        /\ work' = [work EXCEPT !.pc = "push", !.final = TRUE, !.cls = NoBatch]
    BY DEF StoreAndPush, At, Git, Rows
  <1>2. WorkTypes /\ made \in Nat /\ clone \in Clones /\ remote \in Seq(Commits)
    BY DEF DeliveryOK, DeliveryTypes, Clones
  <1>3. /\ work'.pc = "push" /\ work'.final /\ work'.batch = work.batch /\ work'.tip = work.tip
        /\ work'.published = work.published /\ work'.cleaned = work.cleaned
    BY <1>1, <1>2 DEF WorkTypes
  <1>4. WorkTypes'
    <2>1. work' \in [pc : Places, cls : DClasses \cup {NoBatch}, res : Resolved \cup {"none"},
              sha : Nat, tip : Nat, final : BOOLEAN, check : BOOLEAN, batch : SUBSET DClasses,
              published : {work.published}, cleaned : {work.cleaned}]
      BY <1>1, <1>2 DEF WorkTypes, Places
    <2> QED
      BY <1>3, <2>1 DEF WorkTypes
  <1>5. BatchOK'
    BY <1>3 DEF BatchOK, LastPush
  <1>6. BatchesResolved'
    BY <1>1, <1>3 DEF DeliveryOK, BatchesResolved
  <1>7. TipIsRemote' /\ RefIsRemote'
    BY <1>1, <1>3 DEF DeliveryOK, TipIsRemote, RefIsRemote, CommitIds
  <1>8. DeliveryTypes'
    BY <1>1, <1>4 DEF DeliveryOK, DeliveryTypes
  <1> QED
    BY <1>4, <1>5, <1>6, <1>7, <1>8 DEF DeliveryOK

LEMMA BeginKeeps ==
  ASSUME DeliveryOK, NEW c \in DClasses, Begin(c) \/ Checkpoint(c)
  PROVE  DeliveryOK'
  <1>1. WorkTypes /\ made \in Nat /\ clone \in Clones /\ remote \in Seq(Commits)
    BY DEF DeliveryOK, DeliveryTypes, Clones
  <1>2. work.pc = "idle" /\ UNCHANGED <<remote, clone, made, crow, trow>>
    BY DEF Begin, Checkpoint, At, Git, Rows
  <1>3. CASE Begin(c)
    <2>1. PICK res \in {"PASS", "FAIL"}, pc \in {"publish", "commit", "sync"} :
            work' = [work EXCEPT !.cls = c, !.res = res, !.sha = NoSha, !.tip = NoSha,
                        !.batch = @ \cup {c}, !.published = {}, !.cleaned = {}, !.pc = pc]
      BY <1>3 DEF Begin
    <2>2. /\ work'.pc = pc /\ work'.cls = c /\ work'.res = res /\ work'.tip = NoSha
          /\ work'.batch = work.batch \cup {c} /\ work'.final = work.final
          /\ work'.published = {} /\ work'.cleaned = {}
      BY <1>1, <2>1 DEF WorkTypes
    <2>3. work' \in [pc : Places, cls : DClasses \cup {NoBatch}, res : Resolved \cup {"none"},
              sha : Nat, tip : Nat, final : BOOLEAN, check : BOOLEAN, batch : SUBSET DClasses,
              published : {{}}, cleaned : {{}}]
      BY <1>1, <2>1 DEF WorkTypes, Places, Resolved, NoSha
    <2>4. WorkTypes'
      BY <2>2, <2>3 DEF WorkTypes
    <2>5. BatchOK'
      BY <1>2, <2>2 DEF DeliveryOK, BatchOK, LastPush, Resolved
    <2>6. lost' = lost \ {c}
      BY <1>3 DEF Begin
    <2>7. BatchesResolved'
      BY <1>2, <2>2, <2>6 DEF DeliveryOK, BatchesResolved
    <2>8. TipIsRemote' /\ RefIsRemote'
      BY <1>2, <2>2 DEF DeliveryOK, TipIsRemote, RefIsRemote, CommitIds
    <2>9. DeliveryTypes'
      BY <1>2, <2>4 DEF DeliveryOK, DeliveryTypes
    <2> QED
      BY <2>5, <2>7, <2>8, <2>9 DEF DeliveryOK
  <1>4. CASE Checkpoint(c)
    <2>1. /\ work' = [Idle EXCEPT !.pc = "publish", !.cls = c, !.res = crow[c].status, !.check = TRUE]
          /\ crow[c].status \in Resolved /\ lost' = lost
      BY <1>4 DEF Checkpoint, Unpushed
    <2>2. /\ work'.pc = "publish" /\ work'.cls = c /\ work'.res \in Resolved /\ work'.tip = NoSha
          /\ work'.batch = {} /\ work'.final = FALSE /\ work'.sha = NoSha /\ work'.check = TRUE
          /\ work'.published = {} /\ work'.cleaned = {}
      BY <2>1 DEF Idle
    <2>3. WorkTypes'
      <3>1. Idle \in [pc : Places, cls : DClasses \cup {NoBatch}, res : Resolved \cup {"none"},
              sha : Nat, tip : Nat, final : BOOLEAN, check : BOOLEAN, batch : SUBSET DClasses,
              published : {{}}, cleaned : {{}}]
        BY DEF Idle, Places, NoSha
      <3>2. PICK res \in Resolved : res = crow[c].status
        BY <2>1
      <3>3. work' = [Idle EXCEPT !.pc = "publish", !.cls = c, !.res = res, !.check = TRUE]
        BY <2>1, <3>2
      <3>4. work' \in [pc : Places, cls : DClasses \cup {NoBatch}, res : Resolved \cup {"none"},
              sha : Nat, tip : Nat, final : BOOLEAN, check : BOOLEAN, batch : SUBSET DClasses,
              published : {{}}, cleaned : {{}}]
        BY <3>1, <3>3 DEF Places
      <3> QED
        BY <2>2, <3>4 DEF WorkTypes
    <2>4. BatchOK'
      BY <2>2 DEF BatchOK
    <2> QED
      BY <1>1, <1>2, <2>1, <2>2, <2>3, <2>4, GitMoves DEF Clones
  <1> QED
    BY <1>3, <1>4

LEMMA PublishKeeps == DeliveryOK /\ Publish => DeliveryOK'
  <1> SUFFICES ASSUME DeliveryOK, Publish PROVE DeliveryOK'
    OBVIOUS
  <1> DEFINE new == [id |-> made + 1, holds |-> {work.cls}]
  <1>1. /\ WorkTypes /\ made \in Nat /\ clone \in Clones /\ remote \in Seq(Commits)
        /\ work.pc = "publish" /\ UNCHANGED <<crow, trow, lost>>
    BY DEF DeliveryOK, DeliveryTypes, Clones, Publish, At, Rows
  <1>2. work.res \in Resolved /\ work.cls \in DClasses /\ ~work.final
    BY <1>1 DEF DeliveryOK, BatchOK, LastPush
  <1>3. PICK pub \in IF work.check THEN Checkpoints ELSE Repairs :
           \/ Goto("pushfail") /\ UNCHANGED Git
           \/ Goto(IF work.check THEN "latest" ELSE "existing") /\ UNCHANGED Git
           \/ /\ made' = made + 1 /\ remote' = Append(remote, new)
              /\ clone' = [branch |-> remote', rebasing |-> FALSE, detached |-> <<>>]
              /\ work' = [work EXCEPT !.pc = "verified", !.sha = made + 1, !.tip = made + 1,
                             !.published = pub.paths, !.cleaned = pub.cleaned]
           \/ /\ work' = [work EXCEPT !.pc = "verified", !.sha = Sha(remote), !.tip = Sha(remote)]
              /\ UNCHANGED Git
    <2> HIDE DEF new
    <2> QED
      BY Zenon DEF Publish, new
  <1>4. {"pushfail", "latest", "existing"} \subseteq Places \ {"idle", "off", "skipped"}
    BY DEF Places
  <1>5. CASE /\ Goto("pushfail") \/ Goto(IF work.check THEN "latest" ELSE "existing")
             /\ UNCHANGED Git
    <2>1. Goto("pushfail") \/ Goto("latest") \/ Goto("existing")
      BY <1>5
    <2> QED
      BY <1>1, <1>2, <1>4, <1>5, <2>1, GitGoesOn DEF Git
  <1>6. CASE /\ made' = made + 1 /\ remote' = Append(remote, new)
             /\ clone' = [branch |-> remote', rebasing |-> FALSE, detached |-> <<>>]
             /\ work' = [work EXCEPT !.pc = "verified", !.sha = made + 1, !.tip = made + 1,
                            !.published = pub.paths, !.cleaned = pub.cleaned]
    <2>1. new \in Commits
      BY <1>1, <1>2 DEF Commits
    <2>2. PICK c \in Commits : c = new
      BY <2>1
    <2>3. c.id = made + 1 /\ remote' = Append(remote, c)
      BY <1>6, <2>2
    <2> HIDE DEF new
    <2>4. /\ remote' \in Seq(Commits) /\ CommitIds(remote) \subseteq CommitIds(remote')
          /\ made + 1 \in CommitIds(remote')
      BY <1>1, <2>3, AppendKeeps
    <2>5. clone' \in Clones /\ made' \in Nat
      BY <1>1, <1>6, <2>4 DEF Clones
    <2>6. /\ work'.pc = "verified" /\ work'.cls = work.cls /\ work'.res = work.res
          /\ work'.tip = made + 1 /\ work'.batch = work.batch /\ work'.final = work.final
          /\ work'.published = pub.paths /\ work'.cleaned = pub.cleaned
      BY <1>1, <1>6 DEF WorkTypes
    <2>7. WorkTypes'
      <3>1. work' \in [pc : Places, cls : DClasses \cup {NoBatch}, res : Resolved \cup {"none"},
              sha : Nat, tip : Nat, final : BOOLEAN, check : BOOLEAN, batch : SUBSET DClasses,
              published : {pub.paths}, cleaned : {pub.cleaned}]
        <4>1. PICK n \in Nat : n = made + 1
          BY <1>1
        <4>2. work' = [work EXCEPT !.pc = "verified", !.sha = n, !.tip = n,
                            !.published = pub.paths, !.cleaned = pub.cleaned]
          BY <1>6, <4>1
        <4> QED
          BY <1>1, <4>2 DEF WorkTypes, Places
      <3> QED
        BY <2>6, <3>1 DEF WorkTypes
    <2>8. BatchOK'
      BY <1>2, <2>6 DEF BatchOK
    <2> QED
      BY <1>1, <2>4, <2>5, <2>6, <2>7, <2>8, GitMoves DEF Clones
  <1>7. CASE /\ work' = [work EXCEPT !.pc = "verified", !.sha = Sha(remote), !.tip = Sha(remote)]
             /\ UNCHANGED Git
    <2>1. PICK tip \in Nat : tip = Sha(remote) /\ (tip # NoSha => tip \in CommitIds(remote))
      BY <1>1, LastIsThere
    <2>2. work' = [work EXCEPT !.pc = "verified", !.sha = tip, !.tip = tip]
      BY <1>7, <2>1
    <2>3. /\ work'.pc = "verified" /\ work'.cls = work.cls /\ work'.res = work.res
          /\ work'.tip = tip /\ work'.batch = work.batch /\ work'.final = work.final
          /\ work'.published = work.published /\ work'.cleaned = work.cleaned
      BY <1>1, <2>2 DEF WorkTypes
    <2>4. WorkTypes'
      <3>1. work' \in [pc : Places, cls : DClasses \cup {NoBatch}, res : Resolved \cup {"none"},
              sha : Nat, tip : Nat, final : BOOLEAN, check : BOOLEAN, batch : SUBSET DClasses,
              published : {work.published}, cleaned : {work.cleaned}]
        BY <1>1, <2>2 DEF WorkTypes, Places
      <3> QED
        BY <2>3, <3>1 DEF WorkTypes
    <2>5. BatchOK'
      BY <1>2, <2>3 DEF BatchOK
    <2>6. work'.tip # NoSha => work'.tip \in CommitIds(remote')
      BY <1>7, <2>1, <2>3 DEF Git
    <2> QED
      BY <1>1, <1>7, <2>3, <2>4, <2>5, <2>6, GitMoves DEF Clones, Git
  <1> HIDE DEF new
  <1> QED
    BY <1>3, <1>5, <1>6, <1>7

DeliveryRows == [DClasses -> [status : Resolved \cup {"QUEUED"}, sha : Nat, pushed : BOOLEAN]]
DeliveryTask == [status : {"RUNNING", "COMPLETED", "FAILED"}, latest : Nat, ref : Nat]

\* What a step may do to the rows: a resolved class stays resolved, and the
\* task row names a commit twice only if the run was told it is remote.
RowsAreKept ==
    /\ UNCHANGED <<remote, clone, made>> /\ lost \subseteq lost'
    /\ crow' \in DeliveryRows /\ trow' \in DeliveryTask
    /\ \A c \in DClasses : crow[c].status \in Resolved => crow'[c].status \in Resolved
    /\ \/ trow'.latest = NoSha \/ trow'.latest # trow'.ref
       \/ trow'.latest = trow.latest /\ trow'.ref = trow.ref
       \/ trow'.ref = work.tip

LEMMA RowsMove ==
  ASSUME DeliveryOK, WorkTypes', BatchOK', RowsAreKept,
         work'.tip # NoSha => work'.tip = work.tip,
         \/ work'.batch = {}
         \/ /\ work'.batch = work.batch
            /\ \/ work'.cls = work.cls /\ work'.pc \notin {"idle", "skipped"}
               \/ work.cls \in lost' \/ work.pc \in {"idle", "skipped"}
               \/ work.cls \in DClasses /\ crow'[work.cls].status \in Resolved
  PROVE  DeliveryOK'
  <1>1. DeliveryTypes'
    BY DEF DeliveryOK, DeliveryTypes, RowsAreKept, DeliveryRows, DeliveryTask
  <1>2. BatchesResolved'
    <2>1. work.batch \subseteq DClasses /\ lost \subseteq lost'
      BY DEF DeliveryOK, DeliveryTypes, WorkTypes, RowsAreKept
    <2>2. ASSUME NEW c \in work'.batch \ lost'
          PROVE  \/ crow'[c].status \in Resolved
                 \/ c = work'.cls /\ work'.pc \notin {"idle", "skipped"}
      <3>1. work'.batch = work.batch /\ c \in work.batch \ lost /\ c \in DClasses
        BY <2>1, <2>2
      <3>2. crow[c].status \in Resolved \/ (c = work.cls /\ work.pc \notin {"idle", "skipped"})
        BY <3>1 DEF DeliveryOK, BatchesResolved
      <3>3. crow[c].status \in Resolved => crow'[c].status \in Resolved
        BY <3>1 DEF RowsAreKept
      <3> QED
        BY <2>2, <3>1, <3>2, <3>3
    <2> QED
      BY <2>2 DEF BatchesResolved
  <1>3. TipIsRemote'
    BY DEF DeliveryOK, TipIsRemote, RowsAreKept, CommitIds
  <1>4. RefIsRemote'
    BY DEF DeliveryOK, TipIsRemote, RefIsRemote, RowsAreKept, CommitIds
  <1> QED
    BY <1>1, <1>2, <1>3, <1>4 DEF DeliveryOK

LEMMA RowsGoOn ==
  ASSUME DeliveryOK, RowsAreKept, NEW pc \in Places \ {"idle", "off"}, Goto(pc),
         work.pc \notin {"idle", "off"}, ~work.final,
         pc = "skipped" => crow'[work.cls].status \in Resolved
  PROVE  DeliveryOK'
  <1>1. /\ WorkTypes' /\ work'.pc = pc /\ work'.cls = work.cls /\ work'.res = work.res
        /\ work'.tip = work.tip /\ work'.final = work.final /\ work'.batch = work.batch
    BY GotoOn DEF DeliveryOK, DeliveryTypes
  <1>2. BatchOK' /\ work.cls \in DClasses
    BY <1>1 DEF DeliveryOK, BatchOK
  <1> QED
    BY <1>1, <1>2, RowsMove

LEMMA RowsGoOff ==
  ASSUME DeliveryOK, RowsAreKept, Goto("off")
  PROVE  DeliveryOK'
  <1>1. WorkTypes' /\ work'.pc = "off" /\ work'.tip = NoSha /\ work'.final = FALSE /\ work'.batch = {}
    BY GotoOff DEF DeliveryOK, DeliveryTypes
  <1>2. BatchOK'
    BY <1>1 DEF BatchOK
  <1> QED
    BY <1>1, <1>2, RowsMove

LEMMA RowsGoIdle ==
  ASSUME DeliveryOK, RowsAreKept, Goto("idle"),
         \/ work.cls \in lost' \/ work.pc = "skipped"
         \/ work.cls \in DClasses /\ crow'[work.cls].status \in Resolved
  PROVE  DeliveryOK'
  <1>1. /\ WorkTypes' /\ work'.pc = "idle" /\ work'.tip = NoSha /\ work'.final = FALSE
        /\ work'.batch = work.batch
    BY GotoIdle DEF DeliveryOK, DeliveryTypes
  <1>2. BatchOK'
    BY <1>1 DEF BatchOK
  <1> QED
    BY <1>1, <1>2, RowsMove

\* What recording a commit, leaving the rows alone and syncing them amount to.
LEMMA RecordedRows ==
  ASSUME DeliveryOK, NEW sha \in Nat, NEW ref \in Nat, NEW pushed \in BOOLEAN,
         CommitRecorded(work.cls, sha, pushed, ref), UNCHANGED Git, lost \subseteq lost',
         \/ sha = NoSha \/ sha # ref \/ ref = work.tip
         \/ sha = trow.latest /\ ref = trow.ref
  PROVE  RowsAreKept
  <1>1. /\ crow' = [crow EXCEPT ![work.cls].sha = sha, ![work.cls].pushed = pushed]
        /\ trow' = [trow EXCEPT !.latest = sha, !.ref = ref]
    BY DEF CommitRecorded
  <1>2. crow \in DeliveryRows /\ trow \in DeliveryTask
    BY DEF DeliveryOK, DeliveryTypes, DeliveryRows, DeliveryTask
  <1>3. trow' \in DeliveryTask /\ trow'.latest = sha /\ trow'.ref = ref
    BY <1>1, <1>2 DEF DeliveryTask
  <1>4. crow' \in DeliveryRows /\ \A c \in DClasses : crow'[c].status = crow[c].status
    BY <1>1, <1>2 DEF DeliveryRows
  <1> QED
    BY <1>3, <1>4 DEF RowsAreKept, Git

LEMMA SameRows ==
  ASSUME DeliveryOK, UNCHANGED Rows, UNCHANGED Git, lost \subseteq lost'
  PROVE  RowsAreKept
  <1>1. crow \in DeliveryRows /\ trow \in DeliveryTask /\ crow' = crow /\ trow' = trow
    BY DEF DeliveryOK, DeliveryTypes, DeliveryRows, DeliveryTask, Rows
  <1> QED
    BY <1>1 DEF RowsAreKept, Git

LEMMA SyncResolves ==
  ASSUME DeliveryOK, ~work.final, work.pc \notin {"idle", "off"}, SyncedRows, UNCHANGED Git,
         lost \subseteq lost'
  PROVE  RowsAreKept /\ work.cls \in DClasses /\ crow'[work.cls].status \in Resolved
  <1>1. work.cls \in DClasses /\ work.res \in Resolved
    BY DEF DeliveryOK, BatchOK
  <1>2. crow \in DeliveryRows /\ trow \in DeliveryTask
    BY DEF DeliveryOK, DeliveryTypes, DeliveryRows, DeliveryTask
  <1>3. PICK status \in Resolved :
           status = IF crow[work.cls].status = "PUSH_FAILED" THEN crow[work.cls].status ELSE work.res
    BY <1>1 DEF Resolved
  <1>4. crow' = [crow EXCEPT ![work.cls].status = status]
    BY <1>3 DEF SyncedRows
  <1>5. PICK ended \in {"COMPLETED", "FAILED", trow.status} : trow' = [trow EXCEPT !.status = ended]
    BY DEF SyncedRows
  <1>6. trow' \in DeliveryTask /\ trow'.latest = trow.latest /\ trow'.ref = trow.ref
    BY <1>2, <1>5 DEF DeliveryTask
  <1>7. /\ crow' \in DeliveryRows /\ crow'[work.cls].status \in Resolved
        /\ \A c \in DClasses : crow[c].status \in Resolved => crow'[c].status \in Resolved
    BY <1>1, <1>2, <1>4 DEF DeliveryRows
  <1> QED
    BY <1>1, <1>6, <1>7 DEF RowsAreKept, Git

LEMMA VerifiedRowsKeep ==
  ASSUME DeliveryOK, VerifiedRows, UNCHANGED Git, lost \subseteq lost'
  PROVE  RowsAreKept
  <1>1. crow \in DeliveryRows /\ trow \in DeliveryTask /\ work.sha \in Nat /\ work.tip \in Nat
    BY DEF DeliveryOK, DeliveryTypes, DeliveryRows, DeliveryTask, WorkTypes
  <1>2. PICK status \in {"RUNNING", "COMPLETED", "FAILED"} :
           trow' = [status |-> status, latest |-> work.sha, ref |-> work.tip]
    <2>1. trow.status \in {"RUNNING", "COMPLETED", "FAILED"}
      BY <1>1 DEF DeliveryTask
    <2> QED
      BY <2>1, Zenon DEF VerifiedRows
  <1>3. trow' \in DeliveryTask /\ trow'.ref = work.tip
    BY <1>1, <1>2 DEF DeliveryTask
  <1>4. PICK repaired \in SUBSET DClasses :
           crow' = [c \in DClasses |-> IF c \in repaired
                      THEN [status |-> "PASS", sha |-> work.sha, pushed |-> TRUE] ELSE crow[c]]
    <2> DEFINE ok == work.sha # NoSha /\ work.sha = work.tip
               repairs == {c \in DClasses : crow[c].status = "PUSH_FAILED"}
               repair == ok /\ trow.status = "FAILED" /\ repairs # {}
    <2>0. crow' = [c \in DClasses |-> IF repair /\ c \in repairs
                      THEN [status |-> "PASS", sha |-> work.sha, pushed |-> TRUE] ELSE crow[c]]
      BY Zenon DEF VerifiedRows
    <2>1. \A c \in DClasses : (repair /\ c \in repairs) <=> c \in {d \in repairs : repair}
      OBVIOUS
    <2> HIDE DEF repair, repairs
    <2>2. PICK repaired \in SUBSET DClasses : repaired = {d \in repairs : repair}
      BY DEF repairs
    <2>3. \A c \in DClasses : (IF repair /\ c \in repairs
                      THEN [status |-> "PASS", sha |-> work.sha, pushed |-> TRUE] ELSE crow[c])
                 = (IF c \in repaired
                      THEN [status |-> "PASS", sha |-> work.sha, pushed |-> TRUE] ELSE crow[c])
      BY <2>1, <2>2, Zenon
    <2> QED
      BY <2>0, <2>3, Zenon
  <1>5. [status |-> "PASS", sha |-> work.sha, pushed |-> TRUE] \in
            [status : Resolved \cup {"QUEUED"}, sha : Nat, pushed : BOOLEAN]
    BY <1>1 DEF Resolved
  <1>6. crow' \in DeliveryRows
    BY <1>1, <1>4, <1>5 DEF DeliveryRows
  <1>7. \A c \in DClasses : crow[c].status \in Resolved => crow'[c].status \in Resolved
    BY <1>4 DEF Resolved
  <1> QED
    BY <1>3, <1>6, <1>7 DEF RowsAreKept, Git

\* The steps that write the rows.
LEMMA RecordsKeep ==
  DeliveryOK /\ (RecordCommit \/ RecordVerified \/ RecordPushed \/ RecordLatest) => DeliveryOK'
  <1> SUFFICES ASSUME DeliveryOK, RecordCommit \/ RecordVerified \/ RecordPushed \/ RecordLatest
               PROVE  DeliveryOK'
    OBVIOUS
  <1>1. /\ UNCHANGED Git /\ lost \subseteq lost' /\ work.pc \notin {"idle", "off"}
        /\ work.pc \in {"record", "verified", "pushed", "latest"}
        /\ work.pc # "verified" => ~work.final
    BY DEF RecordCommit, RecordVerified, RecordPushed, RecordLatest, At, DeliveryOK, BatchOK, LastPush
  <1>2. work.sha \in Nat /\ work.tip \in Nat /\ trow.latest \in Nat /\ trow.ref \in Nat /\ NoSha \in Nat
    BY DEF DeliveryOK, DeliveryTypes, WorkTypes, NoSha
  <1>3. {"sync", "push", "pushed"} \subseteq Places \ {"idle", "off", "skipped"}
    BY DEF Places
  <1>4. UNCHANGED Rows => RowsAreKept
    BY <1>1, SameRows
  <1>5. CASE RecordCommit
    <2>1. ~work.final
      BY <1>1, <1>5 DEF RecordCommit, At
    <2>2. CASE CommitRecorded(work.cls, work.sha, FALSE, NoSha) /\ (Goto("sync") \/ Goto("push"))
      <3>1. work.sha = NoSha \/ work.sha # NoSha
        OBVIOUS
      <3>2. RowsAreKept
        BY <1>1, <1>2, <2>2, <3>1, RecordedRows
      <3> QED
        BY <1>1, <1>3, <2>1, <2>2, <3>2, RowsGoOn
    <2>3. CASE Goto("sync") /\ UNCHANGED Rows
      BY <1>1, <1>3, <1>4, <2>1, <2>3, RowsGoOn
    <2> QED
      BY <1>5, <2>2, <2>3 DEF RecordCommit
  <1>6. CASE RecordVerified
    <2>1. RowsAreKept
      BY <1>1, <1>4, <1>6, VerifiedRowsKeep DEF RecordVerified
    <2>2. Goto("off") \/ (~work.final /\ (Goto("pushed") \/ Goto("sync")))
      BY <1>6 DEF RecordVerified
    <2> QED
      BY <1>1, <1>3, <2>1, <2>2, RowsGoOff, RowsGoOn
  <1>7. CASE RecordPushed
    <2>1. /\ CommitRecorded(work.cls, work.sha, TRUE, work.tip) \/ UNCHANGED Rows
          /\ Goto("off") \/ Goto("sync")
      BY <1>7 DEF RecordPushed
    <2>2. work.tip = work.tip
      OBVIOUS
    <2>3. RowsAreKept
      BY <1>1, <1>2, <1>4, <2>1, <2>2, RecordedRows
    <2>4. ~work.final
      BY <1>1, <1>7 DEF RecordPushed, At
    <2> QED
      BY <1>1, <1>3, <2>1, <2>3, <2>4, RowsGoOff, RowsGoOn
  <1>8. CASE RecordLatest
    <2>1. CommitRecorded(work.cls, trow.latest, TRUE, trow.ref) /\ Goto("sync")
      BY <1>8 DEF RecordLatest
    <2>2. RowsAreKept
      BY <1>1, <1>2, <2>1, RecordedRows
    <2>3. ~work.final
      BY <1>1, <1>8 DEF RecordLatest, At
    <2> QED
      BY <1>1, <1>3, <2>1, <2>2, <2>3, RowsGoOn
  <1> QED
    BY <1>5, <1>6, <1>7, <1>8

LEMMA SyncKeeps ==
  DeliveryOK /\ (SyncBatch \/ RecordExisting \/ RecordPushFailed) => DeliveryOK'
  <1> SUFFICES ASSUME DeliveryOK, SyncBatch \/ RecordExisting \/ RecordPushFailed
               PROVE  DeliveryOK'
    OBVIOUS
  <1>1. /\ UNCHANGED Git /\ lost \subseteq lost' /\ work.pc \notin {"idle", "off"} /\ ~work.final
        /\ work.cls \in DClasses
    BY DEF SyncBatch, RecordExisting, RecordPushFailed, At, DeliveryOK, BatchOK, LastPush
  <1>2. {"esync", "skipped"} \subseteq Places \ {"idle", "off"}
    BY DEF Places
  <1>3. UNCHANGED Rows => RowsAreKept
    BY <1>1, SameRows
  <1>4. CASE SyncBatch
    <2>1. CASE SyncedRows /\ Goto("idle")
      BY <1>1, <2>1, SyncResolves, RowsGoIdle
    <2>2. CASE lost' = lost \cup {work.cls} /\ UNCHANGED Rows /\ (Goto("off") \/ Goto("idle"))
      <3>1. work.cls \in lost' /\ RowsAreKept
        BY <1>3, <2>2
      <3> QED
        BY <2>2, <3>1, RowsGoIdle, RowsGoOff
    <2> QED
      BY <1>4, <2>1, <2>2 DEF SyncBatch
  <1>5. CASE RecordExisting
    <2>1. NoSha \in Nat /\ NoSha = NoSha
      BY DEF NoSha
    <2>2. CASE CommitRecorded(work.cls, NoSha, TRUE, NoSha) /\ Goto("esync")
      <3>1. RowsAreKept
        BY <1>1, <2>1, <2>2, RecordedRows
      <3> QED
        BY <1>1, <1>2, <2>2, <3>1, RowsGoOn
    <2>3. CASE SyncedRows /\ Goto("skipped")
      <3>1. RowsAreKept /\ crow'[work.cls].status \in Resolved
        BY <1>1, <2>3, SyncResolves
      <3> QED
        BY <1>1, <1>2, <2>3, <3>1, RowsGoOn
    <2>4. CASE UNCHANGED Rows /\ Goto("off")
      BY <1>3, <2>4, RowsGoOff
    <2>5. CASE /\ At("skipped") /\ CommitRecorded(work.cls, NoSha, FALSE, NoSha) /\ Goto("idle")
      <3>1. RowsAreKept
        BY <1>1, <2>1, <2>5, RecordedRows
      <3> QED
        BY <2>5, <3>1, RowsGoIdle DEF At
    <2> QED
      BY <1>5, <2>2, <2>3, <2>4, <2>5 DEF RecordExisting
  <1>6. CASE RecordPushFailed
    <2>1. /\ crow' = [crow EXCEPT ![work.cls].status = "PUSH_FAILED"]
          /\ trow' = [trow EXCEPT !.status = "FAILED"] /\ Goto("off")
      BY <1>6 DEF RecordPushFailed
    <2>2. crow \in DeliveryRows /\ trow \in DeliveryTask
      BY DEF DeliveryOK, DeliveryTypes, DeliveryRows, DeliveryTask
    <2>3. trow' \in DeliveryTask /\ trow'.latest = trow.latest /\ trow'.ref = trow.ref
      BY <2>1, <2>2 DEF DeliveryTask
    <2>4. /\ crow' \in DeliveryRows
          /\ \A c \in DClasses : crow[c].status \in Resolved => crow'[c].status \in Resolved
      BY <1>1, <2>1, <2>2 DEF DeliveryRows, Resolved
    <2>5. RowsAreKept
      BY <1>1, <2>3, <2>4 DEF RowsAreKept, Git
    <2> QED
      BY <2>1, <2>5, RowsGoOff
  <1> QED
    BY <1>4, <1>5, <1>6

\* A resumed task starts over: no batch of this run has been delivered yet.
LEMMA ResumeKeeps == DeliveryOK /\ Resume => DeliveryOK'
  <1> SUFFICES ASSUME DeliveryOK, Resume PROVE DeliveryOK'
    OBVIOUS
  <1>1. /\ work' = Idle /\ trow' = [trow EXCEPT !.status = "RUNNING"]
        /\ UNCHANGED <<remote, clone, made>>
    BY DEF Resume, Git
  <1>2. PICK rerun \in BOOLEAN : crow' = [c \in DClasses |->
           IF rerun /\ crow[c].status \in {"FAIL", "PUSH_FAILED"}
           THEN [crow[c] EXCEPT !.status = "QUEUED"] ELSE crow[c]]
    BY DEF Resume
  <1>3. /\ work'.pc = "idle" /\ work'.tip = NoSha /\ work'.final = FALSE /\ work'.batch = {}
        /\ WorkTypes'
    BY <1>1 DEF Idle, WorkTypes, Places, NoSha
  <1>4. crow \in DeliveryRows /\ trow \in DeliveryTask
    BY DEF DeliveryOK, DeliveryTypes, DeliveryRows, DeliveryTask
  <1>5. crow' \in DeliveryRows
    BY <1>2, <1>4 DEF DeliveryRows
  <1>6. trow' \in DeliveryTask /\ trow'.latest = trow.latest /\ trow'.ref = trow.ref
    BY <1>1, <1>4 DEF DeliveryTask
  <1>7. DeliveryTypes'
    BY <1>1, <1>3, <1>5, <1>6 DEF DeliveryOK, DeliveryTypes, DeliveryRows, DeliveryTask
  <1>8. BatchOK' /\ BatchesResolved'
    BY <1>3 DEF BatchOK, BatchesResolved
  <1>9. TipIsRemote' /\ RefIsRemote'
    BY <1>1, <1>3, <1>6 DEF DeliveryOK, TipIsRemote, RefIsRemote, CommitIds
  <1> QED
    BY <1>7, <1>8, <1>9 DEF DeliveryOK

LEMMA DeliveryKept == DeliveryOK /\ [DNext]_dvars => DeliveryOK'
  <1>1. DeliveryOK /\ UNCHANGED dvars => DeliveryOK'
    BY DEF dvars, DeliveryOK, DeliveryTypes, WorkTypes, BatchOK, BatchesResolved, TipIsRemote,
           RefIsRemote, CommitIds
  <1>2. DeliveryOK /\ (\E c \in DClasses : Begin(c) \/ Checkpoint(c)) => DeliveryOK'
    BY BeginKeeps
  <1> QED
    BY <1>1, <1>2, CommitKeeps, PushKeeps, RebaseKeeps, VerifyKeeps, QuietStepsKeep,
       StoreAndPushKeeps, PublishKeeps, RecordsKeep, SyncKeeps, ResumeKeeps DEF DNext

LEMMA DeliveryStart == DInit => DeliveryOK
  <1> SUFFICES ASSUME DInit PROVE DeliveryOK
    OBVIOUS
  <1>1. <<>> \in Seq(Commits) /\ 0 \in Nat
    OBVIOUS
  <1>2. /\ work.pc = "idle" /\ work.tip = NoSha /\ work.final = FALSE /\ work.batch = {}
        /\ WorkTypes
    BY DEF DInit, Idle, WorkTypes, Places, NoSha
  <1>3. /\ clone \in [branch : Seq(Commits), rebasing : BOOLEAN, detached : Seq(Commits)]
        /\ remote \in Seq(Commits) /\ made \in Nat
    BY <1>1 DEF DInit
  <1>4. /\ crow \in [DClasses -> [status : Resolved \cup {"QUEUED"}, sha : Nat, pushed : BOOLEAN]]
        /\ trow \in [status : {"RUNNING", "COMPLETED", "FAILED"}, latest : Nat, ref : Nat]
        /\ trow.latest = NoSha
    BY <1>1 DEF DInit, NoSha
  <1> QED
    BY <1>2, <1>3, <1>4 DEF DeliveryOK, DeliveryTypes, BatchOK, BatchesResolved, TipIsRemote, RefIsRemote

\* For any classes and however pushes, rebases, recordings and the run itself
\* fail: a batch the run is done with has its class row resolved, unless
\* sync_results raised.
THEOREM BatchesAreNotStranded == DSpec => []DeliveredIsTerminal
  <1>1. DeliveryOK => DeliveredIsTerminal
    BY DEF DeliveryOK, BatchesResolved, DeliveredIsTerminal, At
  <1> QED
    BY DeliveryStart, DeliveryKept, <1>1, PTL DEF DSpec

\* For any number of commits, developers' pushes and rebases: the commit a task
\* row names as its latest and as the remote ref is on the remote branch.
THEOREM RecordedCommitIsRemote == DSpec => []VerifiedIsRemote
  <1>1. DeliveryOK => VerifiedIsRemote
    BY DEF DeliveryOK, RefIsRemote, CommitIds, VerifiedIsRemote
  <1> QED
    BY DeliveryStart, DeliveryKept, <1>1, PTL DEF DSpec
=============================================================================

------------------------ MODULE GenerationCycleProofs -------------------------
(***************************************************************************)
(* One generation unit, for any workspace contents, budgets, crashes and   *)
(* stops: what the ledger claims is there, a unit that returns PASS was    *)
(* judged on the files it returns, nothing is classified unsafe that was   *)
(* not interrupted, and the cycle as a whole implements DurableUnit.       *)
(***************************************************************************)
EXTENDS GenerationCycle, FiniteSetTheorems, TLAPS

-----------------------------------------------------------------------------
(* The last ordinal of a slot.                                             *)

\* A set of naturals with a bound has a greatest element, which the CHOOSE of
\* Classify finds: the sets of the elements from k on are finite, and a least
\* one of them belongs to the greatest k.
LEMMA GreatestExists ==
  ASSUME NEW m \in Nat, NEW S \in SUBSET (0..m), S # {}
  PROVE  \E k \in S : \A j \in S : j <= k
  <1> DEFINE From(k) == {j \in S : k <= j}
             Tails == {From(k) : k \in S}
  <1>1. S \subseteq Nat /\ IsFiniteSet(S)
    <2>1. IsFiniteSet(0..m)
      <3>1. 0 \in Int /\ m \in Int
        OBVIOUS
      <3> QED
        BY ONLY <3>1, FS_Interval
    <2>2. IsFiniteSet(S)
      BY <2>1, FS_Subset
    <2> QED
      BY <2>2
  <1>2. Tails \subseteq FiniteSubsetsOf(S) /\ Tails # {}
    <2>1. ASSUME NEW k \in S PROVE From(k) \in SUBSET S /\ IsFiniteSet(From(k))
      BY <1>1, FS_Subset
    <2> QED
      BY <2>1 DEF FiniteSubsetsOf
  <1>3. IsWellFoundedOn(StrictSubsetOrdering(S), FiniteSubsetsOf(S))
    BY FS_StrictSubsetOrderingWellFounded
  <1>4. PICK X \in Tails : \A Y \in Tails : <<Y, X>> \notin StrictSubsetOrdering(S)
    BY <1>2, <1>3, WFMin
  <1>5. PICK k \in S : X = From(k)
    BY <1>4
  <1>6. ASSUME NEW j \in S, ~(j <= k) PROVE FALSE
    <2>1. From(j) \in Tails /\ From(j) \subseteq S
      OBVIOUS
    <2>2. From(j) \subseteq X /\ From(j) # X
      <3>1. j \in Nat /\ k \in Nat
        BY <1>1
      <3>2. k \in X /\ k \notin From(j)
        BY <1>5, <1>6, <3>1
      <3>3. ASSUME NEW i \in From(j) PROVE i \in From(k)
        <4>1. i \in S /\ i \in Nat /\ j <= i
          BY <1>1, <3>3
        <4> QED
          BY <1>6, <3>1, <4>1
      <3>4. From(j) \subseteq X
        BY <1>5, <3>3
      <3> QED
        BY <3>2, <3>4
    <2>3. <<From(j), X>> \in StrictSubsetOrdering(S)
      BY <1>5, <2>1, <2>2 DEF StrictSubsetOrdering
    <2> QED
      BY <1>4, <2>1, <2>3
  <1> QED
    BY <1>6

-----------------------------------------------------------------------------
(* The ledger: what each of its updates keeps.                             *)

RowType == [status : {"STARTED", "COMPLETED", "FAILED", "CANCELLED"}, input : Contents]

RowsOK(r) == DOMAIN r \subseteq Ops /\ \A o \in DOMAIN r : r[o] \in RowType

\* LedgerConsistent, of any rows and artifacts.
Consistent(r, a) ==
    \A o \in DOMAIN r :
        /\ r[o].status = "COMPLETED" => o \in DOMAIN a
        /\ \A n \in 0..(o[4] - 1) :
             /\ Op(o[1], o[2], o[3], n) \in DOMAIN r
             /\ r[Op(o[1], o[2], o[3], n)].status \in {"FAILED", "CANCELLED"}

Ended(r, op, status) == [r EXCEPT ![op].status = status]

LEMMA OpsAreTuples ==
  ASSUME NEW o \in Ops
  PROVE  /\ o = Op(o[1], o[2], o[3], o[4])
         /\ o[1] \in Phases /\ o[2] \in Steps /\ o[3] \in Nat /\ o[4] \in Nat
  BY BoundsAssumption DEF Ops, Op

\* An operation that ends stays below its successors, unless it completes:
\* then it was open, and has none.
LEMMA EndKeeps ==
  ASSUME NEW r, NEW a, RowsOK(r), Consistent(r, a), NEW op \in Ops,
         NEW status \in {"COMPLETED", "FAILED", "CANCELLED"},
         status = "COMPLETED" => op \in DOMAIN a /\ op \in DOMAIN r
                                 /\ r[op].status \in {"STARTED", "COMPLETED"}
  PROVE  RowsOK(Ended(r, op, status)) /\ Consistent(Ended(r, op, status), a)
  <1> DEFINE new == Ended(r, op, status)
  <1>1. DOMAIN new = DOMAIN r
    BY DEF Ended
  <1>2. \A o \in DOMAIN r : o # op => new[o] = r[o]
    BY DEF Ended
  <1>3. op \in DOMAIN r => new[op] \in RowType /\ new[op].status = status
    BY DEF Ended, RowsOK, RowType
  <1>4. RowsOK(new)
    BY <1>1, <1>2, <1>3 DEF RowsOK
  <1>5. ASSUME NEW o \in DOMAIN new, new[o].status = "COMPLETED" PROVE o \in DOMAIN a
    BY <1>1, <1>2, <1>3, <1>5 DEF Consistent
  <1>6. ASSUME NEW o \in DOMAIN new, NEW n \in 0..(o[4] - 1)
        PROVE  /\ Op(o[1], o[2], o[3], n) \in DOMAIN new
               /\ new[Op(o[1], o[2], o[3], n)].status \in {"FAILED", "CANCELLED"}
    <2>1. /\ Op(o[1], o[2], o[3], n) \in DOMAIN r
          /\ r[Op(o[1], o[2], o[3], n)].status \in {"FAILED", "CANCELLED"}
      BY <1>1 DEF Consistent
    <2> QED
      BY <1>1, <1>2, <1>3, <2>1
  <1> QED
    BY <1>4, <1>5, <1>6 DEF Consistent

\* A slot that is opened, or an ended execution that is replayed.
LEMMA StartKeeps ==
  ASSUME NEW r, NEW a, RowsOK(r), Consistent(r, a), ws \in Contents, NEW op \in Ops,
         op \notin DOMAIN r,
         op[4] # 0 => /\ Op(op[1], op[2], op[3], op[4] - 1) \in DOMAIN r
                      /\ r[Op(op[1], op[2], op[3], op[4] - 1)].status \in {"FAILED", "CANCELLED"}
  PROVE  RowsOK(Put(r, op, Started)) /\ Consistent(Put(r, op, Started), a)
  <1> DEFINE new == Put(r, op, Started)
  <1>1. /\ DOMAIN new = DOMAIN r \cup {op}
        /\ new[op] = Started
        /\ \A o \in DOMAIN r : new[o] = r[o]
    BY DEF Put
  <1>2. Started \in RowType /\ Started.status = "STARTED"
    BY DEF RowType, Started
  <1> HIDE DEF new
  <1>3. RowsOK(new)
    BY <1>1, <1>2 DEF RowsOK
  <1>4. ASSUME NEW o \in DOMAIN new, new[o].status = "COMPLETED" PROVE o \in DOMAIN a
    BY <1>1, <1>2, <1>4 DEF Consistent
  <1>5. ASSUME NEW n \in 0..(op[4] - 1)
        PROVE  /\ Op(op[1], op[2], op[3], n) \in DOMAIN r
               /\ r[Op(op[1], op[2], op[3], n)].status \in {"FAILED", "CANCELLED"}
    <2> DEFINE before == Op(op[1], op[2], op[3], op[4] - 1)
    <2>1. op[4] \in Nat /\ op[4] # 0 /\ n \in Nat
      BY <1>5, OpsAreTuples
    <2>2. CASE n = op[4] - 1
      BY <2>1, <2>2
    <2>3. CASE n # op[4] - 1
      <3>1. /\ before \in DOMAIN r
            /\ before[1] = op[1] /\ before[2] = op[2] /\ before[3] = op[3]
            /\ before[4] = op[4] - 1
        BY <2>1 DEF Op
      <3>2. n \in 0..(before[4] - 1)
        BY <2>1, <2>3, <3>1
      <3> HIDE DEF before
      <3> QED
        BY <3>1, <3>2 DEF Consistent
    <2> QED
      BY <2>2, <2>3
  <1>6. ASSUME NEW o \in DOMAIN new, NEW n \in 0..(o[4] - 1)
        PROVE  /\ Op(o[1], o[2], o[3], n) \in DOMAIN new
               /\ new[Op(o[1], o[2], o[3], n)].status \in {"FAILED", "CANCELLED"}
    <2>1. /\ Op(o[1], o[2], o[3], n) \in DOMAIN r
          /\ r[Op(o[1], o[2], o[3], n)].status \in {"FAILED", "CANCELLED"}
      BY <1>1, <1>5 DEF Consistent
    <2> QED
      BY <1>1, <2>1
  <1> QED
    BY <1>3, <1>4, <1>6 DEF Consistent, new

\* The forgotten operations are whole slots.
LEMMA KeptKeeps ==
  ASSUME RowsOK(rows), Consistent(rows, arts)
  PROVE  RowsOK(Kept(rows)) /\ Consistent(Kept(rows), Kept(arts))
  <1>1. /\ DOMAIN Kept(rows) = {o \in DOMAIN rows : Consultable(o)}
        /\ \A o \in DOMAIN Kept(rows) : Kept(rows)[o] = rows[o]
        /\ DOMAIN Kept(arts) = {o \in DOMAIN arts : Consultable(o)}
    BY DEF Kept
  <1>2. RowsOK(Kept(rows))
    BY <1>1 DEF RowsOK
  <1>3. ASSUME NEW o \in DOMAIN Kept(rows), NEW n \in 0..(o[4] - 1)
        PROVE  /\ Op(o[1], o[2], o[3], n) \in DOMAIN Kept(rows)
               /\ Kept(rows)[Op(o[1], o[2], o[3], n)].status \in {"FAILED", "CANCELLED"}
    <2>1. /\ Op(o[1], o[2], o[3], n) \in DOMAIN rows
          /\ rows[Op(o[1], o[2], o[3], n)].status \in {"FAILED", "CANCELLED"}
      BY <1>1 DEF Consistent
    <2>2. Consultable(o) => Consultable(Op(o[1], o[2], o[3], n))
      BY DEF Consultable, Op
    <2> QED
      BY <1>1, <2>1, <2>2
  <1>4. ASSUME NEW o \in DOMAIN Kept(rows), Kept(rows)[o].status = "COMPLETED"
        PROVE  o \in DOMAIN Kept(arts)
    BY <1>1, <1>4 DEF Consistent
  <1> QED
    BY <1>2, <1>3, <1>4 DEF Consistent

-----------------------------------------------------------------------------
(* The reconciliation.                                                     *)

\* What the code after a reconciliation relies on.
Promised(d, p, step) ==
    /\ d.outcome \in {"run", "retry_no_effect", "reuse_result", "adopt_result",
                      "verify_existing_edit", "fail_unsafe", "fail_indeterminate"}
    /\ d.op \in Ops /\ d.op \in DOMAIN d.rows /\ d.op[1] = p /\ d.op[2] = step
    /\ RowsOK(d.rows)
    /\ IF d.outcome = "run"
       THEN Consistent(d.rows, Kept(arts)) /\ DOMAIN d.rows = DOMAIN Kept(rows) \cup {d.op}
       ELSE Consistent(d.rows, arts) /\ DOMAIN d.rows = DOMAIN rows \cup {d.op}
    /\ d.outcome \in {"reuse_result", "adopt_result"}
         => d.op \in DOMAIN arts /\ arts[d.op].fp = ws

LEMMA OpFields ==
  ASSUME NEW p \in Phases, NEW step \in Steps, NEW attempt \in Nat, NEW n \in 0..MaxCrashReplays,
         step = "deterministic" <=> p \in ToolPhases
  PROVE  LET op == Op(p, step, attempt, n)
         IN  op \in Ops /\ op[1] = p /\ op[2] = step /\ op[3] = attempt /\ op[4] = n
  BY DEF Op, Ops

LEMMA EffectPromised ==
  ASSUME NEW p \in Phases, NEW step \in Steps, step = "deterministic" <=> p \in ToolPhases,
         NEW attempt \in Nat, NEW n \in 0..MaxCrashReplays, ws \in Contents,
         NEW known, RowsOK(known), Consistent(known, arts), DOMAIN known = DOMAIN rows,
         Op(p, step, attempt, n) \in DOMAIN rows,
         Op(p, step, attempt, n + 1) \notin DOMAIN rows,
         known[Op(p, step, attempt, n)].status # "COMPLETED"
  PROVE  LET d == ClassifyEffect(p, step, attempt, n, known)
         IN  Promised(d, p, step) /\ d.outcome # "run" /\ d.op[3] = attempt
  <1> DEFINE op == Op(p, step, attempt, n)
             next == Op(p, step, attempt, n + 1)
             closed == IF known[op].status = "STARTED" THEN Ended(known, op, "FAILED") ELSE known
             d == ClassifyEffect(p, step, attempt, n, known)
  <1>1. /\ op \in Ops /\ op[1] = p /\ op[2] = step /\ op[3] = attempt
        /\ next[1] = p /\ next[2] = step /\ next[3] = attempt /\ next[4] = n + 1
        /\ ~(n >= MaxCrashReplays) => next \in Ops
        /\ Op(next[1], next[2], next[3], next[4] - 1) = op
    BY BoundsAssumption DEF Op, Ops
  <1>2. /\ RowsOK(closed) /\ Consistent(closed, arts) /\ DOMAIN closed = DOMAIN rows
        /\ closed[op].status \in {"FAILED", "CANCELLED"}
    <2>1. CASE known[op].status = "STARTED"
      <3>1. RowsOK(Ended(known, op, "FAILED")) /\ Consistent(Ended(known, op, "FAILED"), arts)
        BY <1>1, EndKeeps
      <3>2. /\ DOMAIN Ended(known, op, "FAILED") = DOMAIN rows
            /\ Ended(known, op, "FAILED")[op].status = "FAILED"
        BY DEF Ended, RowsOK, RowType
      <3> QED
        BY <2>1, <3>1, <3>2
    <2>2. CASE known[op].status # "STARTED"
      BY <2>2 DEF RowsOK, RowType
    <2> QED
      BY <2>1, <2>2
  <1>3. ASSUME ~(n >= MaxCrashReplays)
        PROVE  RowsOK(Put(closed, next, Started)) /\ Consistent(Put(closed, next, Started), arts)
    <2>1. next \notin DOMAIN closed /\ op \in DOMAIN closed
      BY <1>2
    <2> HIDE DEF closed, op, next
    <2> QED
      BY <1>1, <1>2, <1>3, <2>1, StartKeeps
  <1>4. DOMAIN Put(closed, next, Started) = DOMAIN rows \cup {next}
    BY <1>2 DEF Put
  <1>5. \/ d \in {Decision(o, op, known) : o \in {"verify_existing_edit", "fail_unsafe", "fail_indeterminate"}}
        \/ ~(n >= MaxCrashReplays) /\ d = Decision("retry_no_effect", next, Put(closed, next, Started))
    <2>1. CASE ws # known[op].input /\ ws \in Allowed
      BY <2>1 DEF ClassifyEffect
    <2>2. CASE ws # known[op].input /\ ws \notin Allowed
      BY <2>2 DEF ClassifyEffect
    <2>3. CASE ws = known[op].input /\ n >= MaxCrashReplays
      BY <2>3 DEF ClassifyEffect
    <2>4. CASE ws = known[op].input /\ ~(n >= MaxCrashReplays)
      BY <2>4 DEF ClassifyEffect, Ended
    <2> QED
      BY <2>1, <2>2, <2>3, <2>4
  <1> HIDE DEF d
  <1>6. ASSUME NEW o \in {"verify_existing_edit", "fail_unsafe", "fail_indeterminate"},
               d = Decision(o, op, known)
        PROVE  Promised(d, p, step) /\ d.outcome # "run" /\ d.op[3] = attempt
    <2>1. d.outcome = o /\ d.op = op /\ d.rows = known /\ op \in DOMAIN rows
      BY <1>6 DEF Decision
    <2> HIDE DEF op
    <2> QED
      BY <1>1, <2>1 DEF Promised, op
  <1>7. ASSUME ~(n >= MaxCrashReplays), d = Decision("retry_no_effect", next, Put(closed, next, Started))
        PROVE  Promised(d, p, step) /\ d.outcome # "run" /\ d.op[3] = attempt
    <2>1. d.outcome = "retry_no_effect" /\ d.op = next /\ d.rows = Put(closed, next, Started)
      BY <1>7 DEF Decision
    <2> HIDE DEF next, closed
    <2> QED
      BY <1>1, <1>3, <1>4, <1>7, <2>1 DEF Promised
  <1> QED
    BY <1>5, <1>6, <1>7 DEF d

LEMMA ClassifyPromised ==
  ASSUME NEW p \in Phases, NEW step \in Steps, step = "deterministic" <=> p \in ToolPhases,
         mem.att \in [Counters -> Nat], ws \in Contents,
         RowsOK(rows), Consistent(rows, arts)
  PROVE  /\ Promised(Classify(p, step), p, step)
         /\ Ordinals(p, step, mem.att[p]) = {} => Classify(p, step).outcome = "run"
         /\ Classify(p, step).op[3] = mem.att[p]
  <1> DEFINE attempt == mem.att[p]
             known == Ordinals(p, step, attempt)
             n == CHOOSE k \in known : \A j \in known : j <= k
             op == Op(p, step, attempt, n)
             first == Op(p, step, attempt, 0)
             d == Classify(p, step)
  <1>0. attempt \in Nat /\ MaxCrashReplays \in Nat
    BY BoundsAssumption DEF Counters
  <1>1. CASE known = {}
    <2>1. d = Decision("run", first, Put(Kept(rows), first, Started))
      BY <1>1 DEF Classify
    <2>2. first \in Ops /\ first[1] = p /\ first[2] = step /\ first[3] = attempt /\ first[4] = 0
      BY <1>0, OpFields
    <2>3. first \notin DOMAIN Kept(rows)
      BY <1>0, <1>1 DEF Kept, Ordinals
    <2>4. /\ RowsOK(Put(Kept(rows), first, Started))
          /\ Consistent(Put(Kept(rows), first, Started), Kept(arts))
      <3> HIDE DEF first
      <3> QED
        BY <2>2, <2>3, KeptKeeps, StartKeeps
    <2>5. DOMAIN Put(Kept(rows), first, Started) = DOMAIN Kept(rows) \cup {first}
      BY DEF Put
    <2>6. d.outcome = "run" /\ d.op = first /\ d.rows = Put(Kept(rows), first, Started)
      BY <2>1 DEF Decision
    <2> HIDE DEF first, d
    <2> QED
      BY <2>2, <2>4, <2>5, <2>6 DEF Promised, d
  <1>2. CASE known # {}
    <2> SUFFICES Promised(d, p, step) /\ d.outcome # "run" /\ d.op[3] = attempt
      BY <1>2
    <2>1. /\ n \in known /\ \A j \in known : j <= n
      BY <1>0, <1>2, GreatestExists DEF Ordinals
    <2>2. n \in 0..MaxCrashReplays /\ n \in Nat /\ op \in DOMAIN rows
      BY <1>0, <2>1 DEF Ordinals
    <2> HIDE DEF n
    <2>3. op \in Ops /\ op[1] = p /\ op[2] = step /\ op[3] = attempt /\ op[4] = n
      BY <1>0, <2>2, OpFields
    <2>4. Op(p, step, attempt, n + 1) \notin DOMAIN rows
      <3>1. SUFFICES ASSUME Op(p, step, attempt, n + 1) \in DOMAIN rows PROVE FALSE
        OBVIOUS
      <3>2. n + 1 \in 0..MaxCrashReplays
        BY <1>0, <3>1 DEF RowsOK, Ops, Op
      <3> QED
        BY <2>1, <2>2, <3>1, <3>2 DEF Ordinals
    <2>5. rows[op] \in RowType
      BY <2>2 DEF RowsOK
    <2>6. ASSUME \/ d = Decision("fail_indeterminate", op, rows)
                 \/ d = Decision("fail_unsafe", op, rows)
                 \/ d = Decision("reuse_result", op, rows) /\ op \in DOMAIN arts /\ arts[op].fp = ws
          PROVE  Promised(d, p, step) /\ d.outcome # "run" /\ d.op[3] = attempt
      <3>1. /\ d.op = op /\ d.rows = rows
            /\ d.outcome \in {"fail_indeterminate", "fail_unsafe", "reuse_result"}
            /\ d.outcome = "reuse_result" => op \in DOMAIN arts /\ arts[op].fp = ws
        BY <2>6 DEF Decision
      <3> HIDE DEF d, op
      <3> QED
        BY <2>2, <2>3, <3>1 DEF Promised
    <2>7. CASE rows[op].status = "COMPLETED"
      <3>1. d = ClassifyCompleted(op)
        BY <1>2, <2>7 DEF Classify, n
      <3>2. \/ ClassifyCompleted(op) = Decision("fail_indeterminate", op, rows)
            \/ ClassifyCompleted(op) = Decision("fail_unsafe", op, rows)
            \/ /\ ClassifyCompleted(op) = Decision("reuse_result", op, rows)
               /\ op \in DOMAIN arts /\ arts[op].fp = ws
        <4> HIDE DEF op
        <4> QED
          BY DEF ClassifyCompleted
      <3> HIDE DEF d, op
      <3> QED
        BY <2>6, <3>1, <3>2
    <2>8. CASE rows[op].status = "STARTED" /\ op \in DOMAIN arts
      <3>1. d = ClassifyStored(p, step, attempt, n)
        BY <1>2, <2>8 DEF Classify, n
      <3>2. CASE arts[op].fp # ws
        <4>1. d = Decision("fail_indeterminate", op, rows)
          BY <3>1, <3>2 DEF ClassifyStored
        <4> HIDE DEF d, op
        <4> QED
          BY <2>6, <4>1
      <3>3. CASE arts[op].fp = ws /\ arts[op].status = "cancelled"
        <4>1. d = ClassifyEffect(p, step, attempt, n, Ended(rows, op, "CANCELLED"))
          BY <3>1, <3>3 DEF ClassifyStored, Ended
        <4>2. /\ RowsOK(Ended(rows, op, "CANCELLED")) /\ Consistent(Ended(rows, op, "CANCELLED"), arts)
          BY <2>3, EndKeeps
        <4>3. /\ DOMAIN Ended(rows, op, "CANCELLED") = DOMAIN rows
              /\ Ended(rows, op, "CANCELLED")[op].status = "CANCELLED"
          BY <2>2, <2>5 DEF Ended, RowType
        <4> HIDE DEF d
        <4> QED
          BY <1>0, <2>1, <2>2, <2>4, <4>1, <4>2, <4>3, EffectPromised DEF Ordinals
      <3>4. CASE arts[op].fp = ws /\ arts[op].status # "cancelled"
        <4>1. d = Decision("adopt_result", op, Ended(rows, op, "COMPLETED"))
          BY <3>1, <3>4 DEF ClassifyStored, Ended
        <4>2. /\ RowsOK(Ended(rows, op, "COMPLETED")) /\ Consistent(Ended(rows, op, "COMPLETED"), arts)
          BY <2>2, <2>3, <2>8, EndKeeps
        <4>3. DOMAIN Ended(rows, op, "COMPLETED") = DOMAIN rows
          BY DEF Ended
        <4>4. d.op = op /\ d.rows = Ended(rows, op, "COMPLETED") /\ d.outcome = "adopt_result"
          BY <4>1 DEF Decision
        <4> HIDE DEF d, op
        <4> QED
          BY <2>2, <2>3, <2>8, <3>4, <4>2, <4>3, <4>4 DEF Promised
      <3> QED
        BY <2>8, <3>2, <3>3, <3>4
    <2>9. CASE rows[op].status # "COMPLETED" /\ ~(rows[op].status = "STARTED" /\ op \in DOMAIN arts)
      <3>1. d = ClassifyEffect(p, step, attempt, n, rows)
        BY <1>2, <2>9 DEF Classify, n
      <3> HIDE DEF d
      <3> QED
        BY <1>0, <2>2, <2>4, <2>9, <3>1, EffectPromised
    <2> HIDE DEF d, op, known
    <2> QED
      BY <2>7, <2>8, <2>9
  <1> QED
    BY <1>1, <1>2

-----------------------------------------------------------------------------
(* The phases and their answers.                                           *)

LEMMA PhaseSets ==
  /\ Phases = ModelPhases \cup ToolPhases /\ ModelPhases \cap ToolPhases = {}
  /\ Phases \subseteq Counters /\ Repairs \subseteq ModelPhases /\ Preparation \subseteq Phases
  BY DEF Phases, ModelPhases, ToolPhases, Repairs, Verifiers, Counters, Preparation

\* A phase leads along a route, or to the completion.
LEMMA SuccessorOnRoute ==
  ASSUME NEW p, NEW outcome
  PROVE  \/ /\ Successor(p, outcome) = "complete_generation"
            /\ \A r \in Routes : ~(r[1] = p /\ r[2] = outcome)
         \/ \E r \in Routes : r[1] = p /\ r[2] = outcome /\ r[3] = Successor(p, outcome)
  BY DEF Successor

LEMMA RoutesTyped ==
  ASSUME NEW r \in Routes
  PROVE  \/ r[1] \in Phases /\ r[3] \in Phases \ Preparation
         \/ r[1] \in Preparation /\ r[3] \in Phases
  BY DEF Routes, RepairRoutes, Phases, ModelPhases, ToolPhases, Repairs, Verifiers, Preparation

LEMMA SuccessorTyped ==
  ASSUME NEW p, NEW outcome
  PROVE  Successor(p, outcome) \in Phases
  BY SuccessorOnRoute, RoutesTyped DEF Phases, ToolPhases, Preparation

LEMMA EnterTyped ==
  ASSUME NEW p \in Phases
  PROVE  Enter(p) \in Nodes /\ Enter(p).phase = p /\ Enter(p).at = "reconcile" /\ Enter(p).step = FirstStep(p)
  BY PhaseSets DEF Enter, Node, FirstStep, Nodes, Steps

AnswerType ==
    [outcome : Outcomes, att : [Counters -> Nat], streak : [Histories -> Nat], seen : SUBSET Histories]

LEMMA AnswerTyped ==
  ASSUME GraphOK(mem), NEW o \in Outcomes
  PROVE  Answer(o) \in AnswerType /\ Answer(o).outcome = o /\ Answer(o).att = mem.att
  BY DEF GraphOK, Answer, AnswerType

\* An answer with the score history of h updated.
Scored(o, h, n, more) == [Answer(o) EXCEPT !.streak[h] = n, !.seen = more]

LEMMA HistoryTyped ==
  ASSUME GraphOK(mem), NEW o \in Outcomes, NEW h \in Histories, NEW n \in Nat,
         NEW more \in SUBSET Histories
  PROVE  LET a == Scored(o, h, n, more)
         IN  a \in AnswerType /\ a.outcome = o /\ a.att = mem.att
  BY DEF GraphOK, Answer, AnswerType, Scored

LEMMA MetTyped ==
  ASSUME GraphOK(mem), NEW h \in Histories
  PROVE  Met(h) \in AnswerType /\ Met(h).outcome = "passed" /\ Met(h).att = mem.att
  BY DEF GraphOK, Met, Answer, AnswerType, Outcomes

LEMMA ShortfallTyped ==
  ASSUME GraphOK(mem), NEW h \in Histories, NEW r \in Counters, NEW scored \in BOOLEAN,
         NEW better \in BOOLEAN, NEW a \in Shortfall(h, r, scored, better)
  PROVE  /\ a \in AnswerType /\ a.att = mem.att
         /\ a.outcome \in {"failed", "repair"}
              \cup IF h \in {"fix_mutation", "delegated:mutation"} THEN {"review_equivalence"} ELSE {}
  <1> DEFINE improved == scored /\ (better \/ h \notin mem.seen)
             streak == IF improved THEN 0
                       ELSE mem.streak[h] + IF scored /\ mem.att[r] > 0 THEN 1 ELSE 0
             more == IF scored THEN mem.seen \cup {h} ELSE mem.seen
             review == IF h \in {"fix_mutation", "delegated:mutation"}
                       THEN {"review_equivalence"} ELSE {}
  <1>1. streak \in Nat /\ more \in SUBSET Histories
    BY DEF GraphOK
  <1>2. \E o \in {"failed", "repair"} \cup review :
            a = Scored(o, h, streak, more)
    <2>1. \A o : Answer(o).seen = mem.seen
      BY DEF Answer
    <2>2. PICK o \in {"failed", "repair"} \cup review :
                a = [Answer(o) EXCEPT !.streak[h] = streak,
                                      !.seen = IF scored THEN @ \cup {h} ELSE @]
      BY DEF Shortfall
    <2> QED
      BY <2>1, <2>2 DEF Scored
  <1> HIDE DEF streak, more
  <1>3. PICK o \in {"failed", "repair"} \cup review :
            a = Scored(o, h, streak, more)
    BY <1>2
  <1>4. o \in Outcomes
    BY DEF Outcomes
  <1> QED
    BY <1>1, <1>3, <1>4, HistoryTyped

LEMMA PossibleAnswers ==
  /\ Possible("precheck_existing_tests") = Precheck
  /\ Possible("verify_compile") = {"passed", "repair", "failed"}
  /\ Possible("verify_tests")
       = {IF flow = "java_delegated" THEN "delegated" ELSE "passed", "repair", "failed"}
  /\ Possible("measure_coverage") = {"passed", "repair", "failed"}
  /\ Possible("measure_mutation")
       = {"passed", "skipped", "repair", "failed", "review_equivalence", "tests_failed"}
  /\ Possible("delegated_quality_gate_verify")
       = IF flow = "java_delegated" THEN {"passed", "repair", "failed", "review_equivalence"}
         ELSE {"skipped"}
  /\ Possible("complete_generation") = {"PASS", "FAIL"}
  /\ \A p \in Repairs : Possible(p) = {"passed"}
  /\ Possible("review_equivalent_mutants") = {"failed"}
  /\ \A p \in {"plan_tests", "generate_tests"} :
        Possible(p) = {"passed", "retry", "failed", "exhausted"}
  BY DEF Possible, Repairs

\* What a verification, a measurement or the completion answers.
LEMMA ToolAnswered ==
  ASSUME TypeOK, NEW p \in ToolPhases, NEW a \in ToolAnswers(p)
  PROVE  /\ a \in AnswerType /\ a.outcome \in Possible(p) /\ a.att = mem.att
         /\ p = "complete_generation" => a.outcome = CompleteGeneration(mem.evid)
  <1>0. GraphOK(mem) /\ flow \in {"java", "java_delegated", "python"}
    BY FlowsAssumption DEF TypeOK
  <1>1. CASE p = "precheck_existing_tests"
    <2>0. ToolAnswers(p) = {Answer(o) : o \in Precheck}
      BY <1>1 DEF ToolAnswers
    <2>1. PICK o \in Precheck : a = Answer(o)
      BY <2>0
    <2>2. o \in Outcomes
      BY <1>0 DEF Precheck, Outcomes
    <2> QED
      BY <1>0, <1>1, <2>1, <2>2, AnswerTyped, PossibleAnswers
  <1>2. CASE p = "verify_compile"
    <2>0. ToolAnswers(p) = {Answer(o) : o \in VerifyCompile}
      BY <1>2 DEF ToolAnswers
    <2>1. PICK o \in VerifyCompile : a = Answer(o)
      BY <2>0
    <2>2. o \in {"passed", "repair", "failed"} /\ o \in Outcomes
      BY <1>0 DEF VerifyCompile, RepairOrFail, Outcomes
    <2> QED
      BY <1>0, <1>2, <2>1, <2>2, AnswerTyped, PossibleAnswers
  <1>3. CASE p = "verify_tests"
    <2>0. ToolAnswers(p) = {Answer(o) : o \in VerifyTests}
      BY <1>3 DEF ToolAnswers
    <2>1. PICK o \in VerifyTests : a = Answer(o)
      BY <2>0
    <2>2. /\ o \in Outcomes
          /\ o \in {IF flow = "java_delegated" THEN "delegated" ELSE "passed", "repair", "failed"}
      BY <1>0 DEF VerifyTests, RepairOrFail, Outcomes
    <2> QED
      BY <1>0, <1>3, <2>1, <2>2, AnswerTyped, PossibleAnswers
  <1>4. CASE p = "measure_coverage"
    <2>0. ToolAnswers(p) = MeasureCoverage
      BY <1>4 DEF ToolAnswers
    <2>1. CASE a \in {Met("fix_coverage"), Answer("failed")}
      BY <1>0, <1>4, <2>1, AnswerTyped, MetTyped, PossibleAnswers DEF Outcomes, Histories
    <2>2. CASE \E b \in BOOLEAN : a \in Shortfall("fix_coverage", "fix_coverage", TRUE, b)
      <3>1. a \in AnswerType /\ a.att = mem.att /\ a.outcome \in {"failed", "repair"}
        BY <1>0, <2>2, ShortfallTyped, PhaseSets DEF Histories, Repairs
      <3> QED
        BY <1>4, <3>1, PossibleAnswers
    <2> QED
      BY <2>0, <2>1, <2>2 DEF MeasureCoverage
  <1>5. CASE p = "measure_mutation"
    <2>0. ToolAnswers(p) = MeasureMutation
      BY <1>5 DEF ToolAnswers
    <2>1. CASE a \in {Met("fix_mutation"), Answer("failed"), Answer("skipped"), Answer("tests_failed")}
      BY <1>0, <1>5, <2>1, AnswerTyped, MetTyped, PossibleAnswers DEF Outcomes, Histories
    <2>2. CASE \E s \in BOOLEAN, b \in BOOLEAN : a \in Shortfall("fix_mutation", "fix_mutation", s, b)
      <3>1. /\ a \in AnswerType /\ a.att = mem.att
            /\ a.outcome \in {"failed", "repair", "review_equivalence"}
        BY <1>0, <2>2, ShortfallTyped, PhaseSets DEF Histories, Repairs
      <3> QED
        BY <1>5, <3>1, PossibleAnswers
    <2>3. \/ a \in {Met("fix_mutation"), Answer("failed"), Answer("skipped"), Answer("tests_failed")}
          \/ \E s \in BOOLEAN, b \in BOOLEAN : a \in Shortfall("fix_mutation", "fix_mutation", s, b)
      <3>1. \/ a \in {Met("fix_mutation"), Answer("failed"), Answer("skipped"), Answer("tests_failed")}
            \/ \E s \in MutationScored, b \in BOOLEAN : a \in Shortfall("fix_mutation", "fix_mutation", s, b)
        BY <2>0 DEF MeasureMutation
      <3>2. MutationScored \subseteq BOOLEAN
        BY DEF MutationScored
      <3> QED
        BY <3>1, <3>2
    <2> QED
      BY <2>1, <2>2, <2>3
  <1>6. CASE p = "delegated_quality_gate_verify"
    <2>0. ToolAnswers(p) = DelegatedVerify
      BY <1>6 DEF ToolAnswers
    <2>1. CASE flow # "java_delegated"
      BY <1>0, <1>6, <2>0, <2>1, AnswerTyped, PossibleAnswers DEF DelegatedVerify, Possible, Outcomes
    <2>2. CASE flow = "java_delegated" /\ a \in {Answer("passed"), Answer("failed")}
      BY <1>0, <1>6, <2>2, AnswerTyped, PossibleAnswers DEF Outcomes
    <2>3. CASE /\ flow = "java_delegated"
               /\ \E h \in {"delegated:coverage", "delegated:mutation"},
                    s \in BOOLEAN, b \in BOOLEAN :
                      a \in Shortfall(h, "delegated_quality_gate", s, b)
      <3>1. /\ a \in AnswerType /\ a.att = mem.att
            /\ a.outcome \in {"failed", "repair", "review_equivalence"}
        BY <1>0, <2>3, ShortfallTyped, PhaseSets DEF Histories, Repairs
      <3> QED
        BY <1>6, <2>3, <3>1, PossibleAnswers
    <2> QED
      BY <2>0, <2>1, <2>2, <2>3 DEF DelegatedVerify
  <1>7. CASE p = "complete_generation"
    <2>1. a = Answer(CompleteGeneration(mem.evid))
      BY <1>7 DEF ToolAnswers
    <2>2. CompleteGeneration(mem.evid) \in {"PASS", "FAIL"}
      BY DEF CompleteGeneration
    <2>3. CompleteGeneration(mem.evid) \in Outcomes
      BY <2>2 DEF Outcomes
    <2> HIDE DEF CompleteGeneration
    <2> QED
      BY <1>0, <1>7, <2>1, <2>2, <2>3, AnswerTyped, PossibleAnswers
  <1> QED
    BY <1>1, <1>2, <1>3, <1>4, <1>5, <1>6, <1>7 DEF ToolPhases, Verifiers

\* What the interpretation of a turn answers.
LEMMA InterpretAnswered ==
  ASSUME TypeOK, NEW p \in ModelPhases, NEW a \in InterpretAnswers(p)
  PROVE  a \in AnswerType /\ a.outcome \in Possible(p) /\ a.att = AttAfter(p, a.outcome)
  <1>0. GraphOK(mem) /\ mem.att \in [Counters -> Nat] /\ p \in Counters /\ p \in Phases
    BY PhaseSets DEF TypeOK, GraphOK
  <1>1. CASE p \in Repairs
    <2>1. a = Repaired(p)
      BY <1>1 DEF InterpretAnswers, Repairs
    <2>2. Answer("passed") \in AnswerType /\ Answer("passed").outcome = "passed"
      BY <1>0, AnswerTyped DEF Outcomes
    <2> DEFINE advanced == AdvanceVerification(mem.att)
               after == [c \in Counters |->
                           advanced[c] +
                           IF c = p \/ (flow = "python" /\ p \in BudgetedRepairs
                                        /\ c = "python_repair_total")
                           THEN 1 ELSE 0]
    <2>3. after \in [Counters -> Nat]
      <3>1. \A c \in Counters : advanced[c] \in Nat
        <4>1. \A c \in Counters : mem.att[c] \in Nat
          BY <1>0
        <4> QED
          BY <4>1 DEF AdvanceVerification
      <3> HIDE DEF advanced
      <3> QED
        BY <3>1
    <2>4. a = [Answer("passed") EXCEPT !.att = after]
      BY <2>1 DEF Repaired
    <2> HIDE DEF after
    <2>5. a \in AnswerType /\ a.outcome = "passed"
      BY <2>2, <2>3, <2>4 DEF AnswerType
    <2> QED
      BY <1>1, <2>1, <2>5, PossibleAnswers DEF AttAfter
  <1>2. CASE p = "review_equivalent_mutants"
    <2>1. p \notin Repairs /\ a = Answer("failed")
      BY <1>2 DEF InterpretAnswers, Repairs
    <2>2. a \in AnswerType /\ a.outcome = "failed" /\ a.att = mem.att
      BY <1>0, <2>1, AnswerTyped DEF Outcomes
    <2> QED
      BY <1>2, <2>1, <2>2, PossibleAnswers DEF AttAfter
  <1>3. CASE p \in {"plan_tests", "generate_tests"}
    <2>0. p \notin Repairs
      BY <1>3 DEF Repairs
    <2>1. a \in {Answer("failed"), Answer("passed"), Ask(p)}
      BY <1>3, <2>0 DEF InterpretAnswers
    <2>2. CASE a \in {Answer("failed"), Answer("passed"), Answer("exhausted")}
      <3>1. PICK o \in {"failed", "passed", "exhausted"} : a = Answer(o)
        BY <2>2
      <3>2. a \in AnswerType /\ a.outcome = o /\ a.att = mem.att
        BY <1>0, <3>1, AnswerTyped DEF Outcomes
      <3> QED
        BY <1>3, <2>0, <3>2, PossibleAnswers DEF AttAfter
    <2>3. CASE a = [Answer("retry") EXCEPT !.att[p] = @ + 1]
      <3>1. a \in AnswerType /\ a.outcome = "retry" /\ a.att = [mem.att EXCEPT ![p] = @ + 1]
        BY <1>0, <2>3 DEF Answer, AnswerType, Outcomes, GraphOK
      <3> QED
        BY <1>3, <2>0, <3>1, PossibleAnswers DEF AttAfter
    <2> QED
      BY <2>1, <2>2, <2>3 DEF Ask
  <1> QED
    BY <1>1, <1>2, <1>3 DEF ModelPhases

-----------------------------------------------------------------------------
(* The graph states.                                                       *)

\* Where a recorded or a restored result leads.
LEMMA ProjectedGraph ==
  ASSUME GraphOK(mem), mem.node.at \in {"work", "rehydrate"}, mem.verdict = "none",
         NEW env \in Envelopes
  PROVE  LET p == Phase
             new == Projected(p, mem.node.step, env)
         IN  /\ GraphOK(new) /\ new.op = mem.op
             /\ mem.node.step = "turn" =>
                  /\ new.att = mem.att /\ new.evid = mem.evid /\ new.verdict = "none"
                  /\ new.node = IF env.status = "cancelled" THEN Node(p, "turn", "pause")
                                ELSE Node(p, "interpret", "reconcile")
             /\ mem.node.step # "turn" =>
                  /\ new.att = env.att
                  /\ new.evid = IF p \in Verifiers \cup {"precheck_existing_tests"}
                                THEN Put(mem.evid, p, [fp |-> env.fp, outcome |-> env.outcome])
                                ELSE mem.evid
                  /\ IF p = "complete_generation"
                     THEN new.node = Node(p, mem.node.step, "end") /\ new.verdict = env.outcome
                     ELSE new.node = Enter(Successor(p, env.outcome)) /\ new.verdict = "none"
  <1> DEFINE p == Phase
             step == mem.node.step
             new == Projected(p, step, env)
  <1>0. /\ mem = [node |-> mem.node, op |-> mem.op, att |-> mem.att, streak |-> mem.streak,
                  seen |-> mem.seen, turn |-> mem.turn, evid |-> mem.evid, verdict |-> mem.verdict]
        /\ mem.node \in Nodes /\ p \in Phases /\ step \in Steps
        /\ Evidence(mem.evid)
    BY DEF GraphOK, Nodes, Phase
  <1>1. CASE step = "turn"
    <2> DEFINE node == IF env.status = "cancelled" THEN Node(p, "turn", "pause")
                       ELSE Node(p, "interpret", "reconcile")
    <2>1. node \in Nodes
      BY <1>0, <1>1 DEF Nodes, Node, Steps, Phase
    <2> HIDE DEF node
    <2>2. new = [mem EXCEPT !.turn = env.status, !.node = node]
      BY <1>1 DEF Projected, node
    <2>3. /\ new = [node |-> new.node, op |-> new.op, att |-> new.att, streak |-> new.streak,
                    seen |-> new.seen, turn |-> new.turn, evid |-> new.evid, verdict |-> new.verdict]
          /\ new.node = node /\ new.op = mem.op /\ new.att = mem.att /\ new.streak = mem.streak
          /\ new.seen = mem.seen /\ new.evid = mem.evid /\ new.verdict = mem.verdict
      BY <1>0, <2>2
    <2> HIDE DEF new
    <2>4. GraphOK(new)
      BY <2>1, <2>3 DEF GraphOK
    <2> QED
      BY <1>1, <2>3, <2>4 DEF node, new
  <1>2. CASE step # "turn"
    <2> DEFINE evid == IF p \in Verifiers \cup {"precheck_existing_tests"}
                       THEN Put(mem.evid, p, [fp |-> env.fp, outcome |-> env.outcome])
                       ELSE mem.evid
               verdict == IF p = "complete_generation" THEN env.outcome ELSE mem.verdict
               node == IF p = "complete_generation" THEN Node(p, step, "end")
                       ELSE Enter(Successor(p, env.outcome))
    <2>1. node \in Nodes
      <3>1. Node(p, step, "end") \in Nodes
        BY <1>0 DEF Nodes, Node, Steps, Phase
      <3> QED
        BY <3>1, SuccessorTyped, EnterTyped
    <2>2. Evidence(evid)
      BY <1>0 DEF Evidence, Put, Envelopes
    <2> HIDE DEF node, evid, verdict
    <2>3. new = [mem EXCEPT !.turn = "none", !.att = env.att, !.streak = env.streak,
                            !.seen = env.seen, !.evid = evid, !.verdict = verdict, !.node = node]
      BY <1>0, <1>2 DEF Projected, node, evid, verdict
    <2>4. /\ new = [node |-> new.node, op |-> new.op, att |-> new.att, streak |-> new.streak,
                    seen |-> new.seen, turn |-> new.turn, evid |-> new.evid, verdict |-> new.verdict]
          /\ new.node = node /\ new.op = mem.op /\ new.att = env.att /\ new.streak = env.streak
          /\ new.seen = env.seen /\ new.evid = evid /\ new.verdict = verdict
      BY <1>0, <2>3
    <2> HIDE DEF new
    <2>5. GraphOK(new)
      BY <2>1, <2>2, <2>4 DEF GraphOK, Envelopes
    <2> QED
      BY <1>2, <2>4, <2>5 DEF node, evid, verdict, new
  <1> QED
    BY <1>1, <1>2

LEMMA ProjectedNode ==
  ASSUME GraphOK(mem), mem.node.at \in {"work", "rehydrate"}, mem.verdict = "none",
         NEW env \in Envelopes
  PROVE  LET new == Projected(Phase, mem.node.step, env)
         IN  /\ GraphOK(new) /\ new.op = mem.op
             /\ new.node.at \in {"reconcile", "pause", "end"}
             /\ new.verdict # "none" => new.node.at = "end"
  <1> DEFINE new == Projected(Phase, mem.node.step, env)
  <1>1. /\ Node(Phase, "turn", "pause").at = "pause"
        /\ Node(Phase, "interpret", "reconcile").at = "reconcile"
        /\ Node(Phase, mem.node.step, "end").at = "end"
    BY DEF Node
  <1>2. Enter(Successor(Phase, env.outcome)).at = "reconcile"
    BY SuccessorTyped, EnterTyped
  <1>3. CASE mem.node.step = "turn"
    <2>1. /\ GraphOK(new) /\ new.op = mem.op /\ new.verdict = "none"
          /\ new.node = IF env.status = "cancelled" THEN Node(Phase, "turn", "pause")
                        ELSE Node(Phase, "interpret", "reconcile")
      BY <1>3, ProjectedGraph
    <2> QED
      BY <1>1, <2>1
  <1>4. CASE mem.node.step # "turn"
    <2>1. /\ GraphOK(new) /\ new.op = mem.op
          /\ IF Phase = "complete_generation"
             THEN new.node = Node(Phase, mem.node.step, "end") /\ new.verdict = env.outcome
             ELSE new.node = Enter(Successor(Phase, env.outcome)) /\ new.verdict = "none"
      BY <1>4, ProjectedGraph
    <2> QED
      BY <1>1, <1>2, <2>1
  <1> QED
    BY <1>3, <1>4

\* Where a reconciliation leads.
LEMMA AfterDecisionNode ==
  ASSUME NEW p \in Phases, NEW step \in Steps, step = "deterministic" <=> p \in ToolPhases, NEW outcome
  PROVE  LET n == AfterDecision(p, step, outcome)
         IN  /\ n \in Nodes
             /\ \/ n = Node(p, step, "work") /\ outcome \in {"run", "retry_no_effect"}
                \/ n = Node(p, step, "rehydrate") /\ outcome \in {"reuse_result", "adopt_result"}
                \/ n = Node(p, step, "terminate") /\ outcome \notin {"run", "retry_no_effect"}
                \/ /\ outcome = "verify_existing_edit" /\ p \in Repairs \cup {"generate_tests"}
                   /\ n = Enter("verify_compile") \/ n = Enter("verify_tests")
  <1> DEFINE n == AfterDecision(p, step, outcome)
  <1>1. \A at \in {"work", "rehydrate", "terminate"} : Node(p, step, at) \in Nodes
    BY DEF Nodes, Node
  <1>2. Enter("verify_compile") \in Nodes /\ Enter("verify_tests") \in Nodes
    BY EnterTyped DEF Phases, ToolPhases, Verifiers
  <1>3. CASE outcome \in {"run", "retry_no_effect"}
    <2>1. n = Node(p, step, "work")
      BY <1>3 DEF AfterDecision
    <2> QED
      BY <1>1, <1>3, <2>1
  <1>4. CASE outcome \in {"reuse_result", "adopt_result"}
    <2>1. n = Node(p, step, "rehydrate")
      BY <1>4 DEF AfterDecision
    <2> QED
      BY <1>1, <1>4, <2>1
  <1>5. CASE outcome = "verify_existing_edit" /\ EditVerifier(p) # {}
    <2>1. \/ EditVerifier(p) = {"verify_compile"} \/ EditVerifier(p) = {"verify_tests"}
      BY <1>5 DEF EditVerifier
    <2>2. p \in Repairs \cup {"generate_tests"}
      BY <1>5 DEF EditVerifier, Repairs
    <2>3. n = Enter(CHOOSE v \in EditVerifier(p) : TRUE)
      BY <1>5 DEF AfterDecision
    <2>4. (CHOOSE v \in EditVerifier(p) : TRUE) \in EditVerifier(p)
      BY <1>5
    <2> QED
      BY <1>2, <1>5, <2>1, <2>2, <2>3, <2>4
  <1>6. CASE /\ outcome \notin {"run", "retry_no_effect", "reuse_result", "adopt_result"}
             /\ ~(outcome = "verify_existing_edit" /\ EditVerifier(p) # {})
    <2>1. n = Node(p, step, "terminate")
      BY <1>6 DEF AfterDecision
    <2> QED
      BY <1>1, <1>6, <2>1
  <1> QED
    BY <1>3, <1>4, <1>5, <1>6

-----------------------------------------------------------------------------
(* The ledger of any unit, through crashes, stops and replays.             *)

LedgerInv == TypeOK /\ WorkInv /\ LedgerConsistent

\* The operation, the rows and the artifacts after a reconciliation.
Reconciliation(d) ==
    /\ rows' = d.rows
    /\ arts' = IF d.outcome = "run" THEN Kept(arts) ELSE arts
    /\ mem' = [mem EXCEPT !.op = d.op, !.node = AfterDecision(Phase, @.step, d.outcome)]
    /\ prior' = mem

LEMMA ReconcileFacts ==
  ASSUME LedgerInv, Reconcile
  PROVE  /\ mem.node.at = "reconcile" /\ run = "running" /\ Phase \in Phases
         /\ LET d == Classify(Phase, mem.node.step)
            IN  /\ Promised(d, Phase, mem.node.step) /\ d.op[3] = mem.att[Phase]
                /\ Ordinals(Phase, mem.node.step, mem.att[Phase]) = {} => d.outcome = "run"
                /\ Reconciliation(d)
                /\ GraphOK(mem') /\ mem'.op = d.op
                /\ mem'.node = AfterDecision(Phase, mem.node.step, d.outcome)
                /\ mem'.att = mem.att /\ mem'.evid = mem.evid /\ mem'.verdict = mem.verdict
  <1> DEFINE step == mem.node.step
             d == Classify(Phase, step)
  <1>0. /\ GraphOK(mem) /\ ws \in Contents /\ mem.att \in [Counters -> Nat]
        /\ mem.node \in Nodes
        /\ mem = [node |-> mem.node, op |-> mem.op, att |-> mem.att, streak |-> mem.streak,
                  seen |-> mem.seen, turn |-> mem.turn, evid |-> mem.evid, verdict |-> mem.verdict]
    BY DEF LedgerInv, TypeOK, GraphOK
  <1>1. Phase \in Phases /\ step \in Steps /\ (step = "deterministic" <=> Phase \in ToolPhases)
    BY <1>0 DEF Nodes, Phase
  <1>2. RowsOK(rows) /\ Consistent(rows, arts)
    BY DEF LedgerInv, TypeOK, LedgerConsistent, RowsOK, Consistent, RowType
  <1>3. /\ Promised(d, Phase, step) /\ d.op[3] = mem.att[Phase]
        /\ Ordinals(Phase, step, mem.att[Phase]) = {} => d.outcome = "run"
    BY <1>0, <1>1, <1>2, ClassifyPromised
  <1>4. Reconciliation(d) /\ mem.node.at = "reconcile" /\ run = "running"
    BY DEF Reconcile, Return, Reconciliation
  <1>5. d.op \in Ops
    BY <1>3 DEF Promised
  <1> HIDE DEF d
  <1>6. AfterDecision(Phase, step, d.outcome) \in Nodes
    BY <1>1, AfterDecisionNode
  <1>7. /\ mem' = [mem EXCEPT !.op = d.op, !.node = AfterDecision(Phase, step, d.outcome)]
    BY <1>4 DEF Reconciliation
  <1>8. /\ mem' = [node |-> mem'.node, op |-> mem'.op, att |-> mem'.att, streak |-> mem'.streak,
                  seen |-> mem'.seen, turn |-> mem'.turn, evid |-> mem'.evid, verdict |-> mem'.verdict]
        /\ mem'.node = AfterDecision(Phase, step, d.outcome) /\ mem'.op = d.op
        /\ mem'.att = mem.att /\ mem'.streak = mem.streak /\ mem'.seen = mem.seen
        /\ mem'.evid = mem.evid /\ mem'.verdict = mem.verdict
    BY <1>0, <1>7
  <1>9. GraphOK(mem')
    BY <1>0, <1>5, <1>6, <1>8 DEF GraphOK
  <1> QED
    BY <1>1, <1>3, <1>4, <1>8, <1>9 DEF d

LEMMA ReconcileKeepsLedger ==
  ASSUME LedgerInv, Reconcile
  PROVE  LedgerInv'
  <1> DEFINE step == mem.node.step
             d == Classify(Phase, step)
  <1>1. /\ mem.node.at = "reconcile" /\ run = "running" /\ Phase \in Phases
        /\ Promised(d, Phase, step) /\ Reconciliation(d)
        /\ GraphOK(mem') /\ mem'.op = d.op
        /\ mem'.node = AfterDecision(Phase, step, d.outcome)
        /\ mem'.verdict = mem.verdict
    BY ReconcileFacts
  <1>2. /\ mem.node \in Nodes /\ step \in Steps /\ (step = "deterministic" <=> Phase \in ToolPhases)
        /\ mem.verdict = "none" /\ stage = "enter"
    BY <1>1 DEF LedgerInv, TypeOK, WorkInv, Reconciled, GraphOK, Nodes, Phase
  <1> HIDE DEF d
  <1>3. /\ mem'.node = Node(Phase, step, "work") \/ mem'.node = Node(Phase, step, "rehydrate")
           \/ mem'.node.at \in {"terminate", "reconcile"}
        /\ mem'.node.at = "rehydrate" => d.outcome \in {"reuse_result", "adopt_result"}
    BY <1>1, <1>2, AfterDecisionNode, EnterTyped, PhaseSets DEF Node, Phases, ToolPhases, Verifiers
  <1>4. /\ UNCHANGED <<flow, ws, stage, draft, run, stop, crashes, stops>>
        /\ rows' = d.rows /\ prior' = mem
        /\ arts' = IF d.outcome = "run" THEN Kept(arts) ELSE arts
    BY <1>1 DEF Reconcile, history, Reconciliation
  <1>5. /\ RowsOK(rows') /\ Consistent(rows', arts')
        /\ DOMAIN arts' \subseteq DOMAIN rows' /\ DOMAIN arts' \subseteq DOMAIN arts
        /\ \A o \in DOMAIN arts' : arts'[o] = arts[o]
    <2>1. CASE d.outcome = "run"
      <3>1. DOMAIN Kept(arts) \subseteq DOMAIN Kept(rows)
        BY DEF Kept, LedgerInv, WorkInv
      <3> QED
        BY <1>1, <1>4, <2>1, <3>1 DEF Promised, Kept
    <2>2. CASE d.outcome # "run"
      BY <1>1, <1>4, <2>2 DEF Promised, LedgerInv, WorkInv
    <2> QED
      BY <2>1, <2>2
  <1>6. TypeOK'
    <2>1. GraphOK(prior')
      BY <1>4 DEF LedgerInv, TypeOK
    <2>2. \A o \in DOMAIN arts' : arts'[o] \in Envelopes
      BY <1>5 DEF LedgerInv, TypeOK
    <2> QED
      BY <1>1, <1>4, <1>5, <2>1, <2>2 DEF LedgerInv, TypeOK, RowsOK, RowType
  <1>7. Reconciled(mem)' /\ Reconciled(prior)'
    <2>1. Reconciled(prior)'
      BY <1>1, <1>2, <1>4 DEF Reconciled
    <2>2. d.op \in DOMAIN rows' /\ d.op[1] = Phase /\ d.op[2] = step
      BY <1>1, <1>4 DEF Promised
    <2>3. d.outcome \in {"reuse_result", "adopt_result"} => d.op \in DOMAIN arts' /\ arts'[d.op].fp = ws
      BY <1>1, <1>4 DEF Promised
    <2> QED
      BY <1>1, <1>2, <1>3, <1>4, <2>1, <2>2, <2>3 DEF Reconciled, Node
  <1>8. WorkInv'
    BY <1>1, <1>2, <1>3, <1>4, <1>5, <1>7 DEF WorkInv, Node, Phase
  <1> QED
    BY <1>5, <1>6, <1>8 DEF LedgerInv, LedgerConsistent, Consistent

\* Steps that leave the workspace, the ledger and the graph alone.
LEMMA OutsideKeepsLedger ==
  ASSUME LedgerInv, UNCHANGED <<flow, ws, rows, arts, mem, prior>>,
         stage' \in {"enter", stage}, draft' \in {NoDraft, draft},
         stage' # "enter" => draft' = draft /\ run' = run,
         run' \in {"idle", "running", "reused", "returned", "blocked"},
         stop' \in BOOLEAN, crashes' \in Nat, stops' \in Nat
  PROVE  LedgerInv'
  <1>1. NoDraft \in Envelopes
    BY ContentsAssumption DEF NoDraft, Envelope, Envelopes, Zero, Outcomes
  <1>2. TypeOK'
    BY <1>1 DEF LedgerInv, TypeOK
  <1>3. WorkInv'
    BY DEF LedgerInv, WorkInv, Reconciled
  <1> QED
    BY <1>2, <1>3 DEF LedgerInv, LedgerConsistent

\* Steps that move the graph on without work.
LEMMA NodeKeepsLedger ==
  ASSUME LedgerInv, UNCHANGED <<flow, ws, rows, arts, stage, draft, run, stop, crashes, stops>>,
         stage = "enter", mem.node.at # "end",
         prior' = mem, GraphOK(mem'), mem'.op = mem.op,
         mem'.node.at \in {"reconcile", "pause", "end"},
         mem'.node.at # "reconcile" => mem.op \in DOMAIN rows,
         mem'.verdict # "none" => mem'.node.at = "end"
  PROVE  LedgerInv'
  <1>1. TypeOK'
    BY DEF LedgerInv, TypeOK
  <1>2. WorkInv'
    BY DEF LedgerInv, WorkInv, Reconciled
  <1> QED
    BY <1>1, <1>2 DEF LedgerInv, LedgerConsistent

\* The work of a node: its turn, its interpretation, its tool.
LEMMA WorkKeepsLedger ==
  ASSUME LedgerInv, mem.node.at = "work", run = "running",
         UNCHANGED <<flow, rows, arts, mem, prior, run, stop, crashes, stops>>,
         ws' \in Contents, draft' \in Envelopes,
         stage' \in {"turning", "edited", "worked"},
         stage' = "worked" => draft'.fp = ws'
  PROVE  LedgerInv'
  <1>1. TypeOK'
    BY DEF LedgerInv, TypeOK
  <1>2. WorkInv'
    BY DEF LedgerInv, WorkInv, Reconciled
  <1> QED
    BY <1>1, <1>2 DEF LedgerInv, LedgerConsistent

\* The draft a phase's answer becomes.
LEMMA ProducedEnvelope ==
  ASSUME NEW a \in AnswerType, ws' \in Contents
  PROVE  /\ Produced(a) \in Envelopes /\ Produced(a).fp = ws' /\ Produced(a).status = "phase"
         /\ Produced(a).outcome = a.outcome /\ Produced(a).att = a.att
  BY DEF Produced, Envelope, Envelopes, AnswerType

LEMMA NodeTyped ==
  ASSUME LedgerInv
  PROVE  /\ Phase \in Phases /\ mem.node.step \in Steps /\ mem.node \in Nodes
         /\ mem.node.step = "deterministic" <=> Phase \in ToolPhases
         /\ mem.node.step # "deterministic" <=> Phase \in ModelPhases
         /\ mem.att \in [Counters -> Nat] /\ Evidence(mem.evid)
  BY PhaseSets DEF LedgerInv, TypeOK, GraphOK, Nodes, Phase

LEMMA TurnKeepsLedger ==
  ASSUME LedgerInv, TurnBegin \/ TurnRefused \/ TurnEdit \/ TurnEnd
  PROVE  LedgerInv'
  <1>0. /\ stop \in BOOLEAN /\ crashes \in Nat /\ stops \in Nat /\ ws \in Contents
        /\ draft \in Envelopes
    BY DEF LedgerInv, TypeOK
  <1>1. CASE TurnBegin
    <2>1. CASE Raise
      BY <1>0, <1>1, <2>1, OutsideKeepsLedger DEF TurnBegin, Raise, graph, ledger, history
    <2>2. CASE stage' = "turning" /\ draft' = [NoDraft EXCEPT !.fp = ws] /\ UNCHANGED <<graph, run>>
      <3>1. draft' \in Envelopes
        BY <1>0, <2>2 DEF NoDraft, Envelope, Envelopes, Zero, Outcomes
      <3> QED
        BY <1>0, <1>1, <2>2, <3>1, WorkKeepsLedger DEF TurnBegin, At, graph, ledger, history
    <2> QED
      BY <1>1, <2>1, <2>2 DEF TurnBegin
  <1>2. CASE TurnRefused
    BY <1>0, <1>2, OutsideKeepsLedger DEF TurnRefused, Raise, graph, ledger, history
  <1>3. CASE TurnEdit
    BY <1>0, <1>3, WorkKeepsLedger DEF TurnEdit, At, graph, ledger, history
  <1>4. CASE TurnEnd
    <2>1. PICK status \in {"completed", "failed", "cancelled"} :
                 draft' = Envelope(ws, status, "none", mem.att, mem.streak, mem.seen)
      BY <1>4 DEF TurnEnd
    <2>2. draft' \in Envelopes /\ draft'.fp = ws
      BY <1>0, <2>1 DEF Envelope, Envelopes, Outcomes, LedgerInv, TypeOK, GraphOK
    <2> QED
      BY <1>0, <1>4, <2>2, WorkKeepsLedger DEF TurnEnd, At, graph, ledger, history
  <1> QED
    BY <1>1, <1>2, <1>3, <1>4

\* The guard's rejection ends the operation, if it is still open.
LEMMA RejectedKeepsLedger ==
  ASSUME LedgerInv, TurnRejected
  PROVE  LedgerInv'
  <1>1. mem.node.at = "work" /\ mem.op \in DOMAIN rows /\ mem.op \in Ops
    BY DEF TurnRejected, At, LedgerInv, WorkInv, Reconciled, TypeOK
  <1>2. RowsOK(rows) /\ Consistent(rows, arts)
    BY DEF LedgerInv, TypeOK, LedgerConsistent, RowsOK, Consistent, RowType
  <1>3. rows' = rows \/ rows' = Ended(rows, mem.op, "FAILED")
    BY DEF TurnRejected, Ended
  <1>4. RowsOK(rows') /\ Consistent(rows', arts) /\ DOMAIN rows' = DOMAIN rows
    <2>1. DOMAIN Ended(rows, mem.op, "FAILED") = DOMAIN rows
      BY DEF Ended
    <2> QED
      BY <1>1, <1>2, <1>3, <2>1, EndKeeps
  <1>5. /\ UNCHANGED <<flow, ws, arts, mem, prior, stop, crashes, stops>>
        /\ run' = "blocked" /\ stage' = "enter" /\ draft' = NoDraft
    BY DEF TurnRejected, Raise, graph, history
  <1>6. NoDraft \in Envelopes
    BY ContentsAssumption DEF NoDraft, Envelope, Envelopes, Zero, Outcomes
  <1>7. TypeOK'
    BY <1>4, <1>5, <1>6 DEF LedgerInv, TypeOK, RowsOK, RowType
  <1>8. WorkInv'
    BY <1>4, <1>5 DEF LedgerInv, WorkInv, Reconciled
  <1> QED
    BY <1>4, <1>5, <1>7, <1>8 DEF LedgerInv, LedgerConsistent, Consistent

LEMMA PhaseKeepsLedger ==
  ASSUME LedgerInv, Interpret \/ RunPhase
  PROVE  LedgerInv'
  <1>0. ws \in Contents /\ Allowed \subseteq Contents /\ TypeOK
    BY ContentsAssumption DEF LedgerInv, TypeOK
  <1>1. CASE Interpret
    <2>1. Phase \in ModelPhases
      BY <1>1, NodeTyped DEF Interpret, At
    <2>2. PICK a \in InterpretAnswers(Phase) : draft' = Produced(a) /\ ws' \in Contents
      BY <1>0, <1>1 DEF Interpret
    <2>3. a \in AnswerType
      BY <1>0, <2>1, InterpretAnswered
    <2>4. draft' \in Envelopes /\ draft'.fp = ws'
      BY <2>2, <2>3, ProducedEnvelope
    <2> QED
      BY <1>1, <2>2, <2>4, WorkKeepsLedger DEF Interpret, At, graph, ledger, history
  <1>2. CASE RunPhase
    <2>1. Phase \in ToolPhases
      BY <1>2, NodeTyped DEF RunPhase, At
    <2>2. PICK a \in ToolAnswers(Phase) : draft' = Produced(a)
      BY <1>2 DEF RunPhase
    <2>3. a \in AnswerType
      BY <1>0, <2>1, ToolAnswered
    <2>4. ws' \in Contents
      BY <1>0, <1>2 DEF RunPhase
    <2>5. draft' \in Envelopes /\ draft'.fp = ws'
      BY <2>2, <2>3, <2>4, ProducedEnvelope
    <2> QED
      BY <1>2, <2>4, <2>5, WorkKeepsLedger DEF RunPhase, At, graph, ledger, history
  <1> QED
    BY <1>1, <1>2

LEMMA StoreKeepsLedger ==
  ASSUME LedgerInv, Store
  PROVE  LedgerInv'
  <1>1. /\ run = "running" /\ stage = "worked" /\ mem.node.at = "work"
        /\ mem.op \in DOMAIN rows /\ mem.op \in Ops /\ draft \in Envelopes
        /\ stop \in BOOLEAN /\ crashes \in Nat /\ stops \in Nat
    BY DEF Store, LedgerInv, WorkInv, Reconciled, TypeOK
  <1>2. CASE /\ mem.op \in DOMAIN arts => arts[mem.op] = draft
             /\ arts' = Put(arts, mem.op, draft)
             /\ stage' = "stored"
             /\ UNCHANGED <<graph, run, draft>>
    <2>1. /\ UNCHANGED <<flow, ws, rows, mem, prior, draft, run, stop, crashes, stops>>
          /\ stage' = "stored"
      BY <1>2 DEF Store, graph, history
    <2>2. /\ DOMAIN arts' = DOMAIN arts \cup {mem.op}
          /\ arts'[mem.op] = draft
          /\ \A o \in DOMAIN arts : arts'[o] = arts[o]
      BY <1>2 DEF Put
    <2>3. TypeOK'
      BY <1>1, <2>1, <2>2 DEF LedgerInv, TypeOK
    <2>4. WorkInv'
      BY <1>1, <2>1, <2>2 DEF LedgerInv, WorkInv, Reconciled
    <2> QED
      BY <2>1, <2>2, <2>3, <2>4 DEF LedgerInv, LedgerConsistent
  <1>3. CASE arts' = arts /\ Raise
    BY <1>1, <1>3, OutsideKeepsLedger DEF Store, Raise, graph, history
  <1> QED
    BY <1>2, <1>3 DEF Store

\* Recording is where the order of the writes matters: the artifact is there
\* before the row completes.
LEMMA RecordKeepsLedger ==
  ASSUME LedgerInv, Record
  PROVE  LedgerInv'
  <1>1. /\ run = "running" /\ stage = "stored" /\ mem.node.at = "work"
        /\ mem.op \in DOMAIN rows /\ mem.op \in DOMAIN arts /\ mem.op \in Ops
        /\ draft \in Envelopes /\ GraphOK(mem) /\ mem.verdict = "none"
        /\ stop \in BOOLEAN /\ crashes \in Nat /\ stops \in Nat
    BY DEF Record, LedgerInv, WorkInv, Reconciled, TypeOK
  <1>2. CASE /\ rows[mem.op].status \in {"STARTED", FinalStatus(draft)}
             /\ rows' = [rows EXCEPT ![mem.op].status = FinalStatus(draft)]
             /\ Return(Projected(Phase, mem.node.step, draft))
             /\ stage' = "enter"
             /\ draft' = NoDraft
             /\ run' = run
    <2> DEFINE new == Projected(Phase, mem.node.step, draft)
    <2>1. UNCHANGED <<flow, ws, arts, run, stop, crashes, stops>>
      BY <1>2 DEF Record, history
    <2>2. FinalStatus(draft) \in {"COMPLETED", "CANCELLED"}
      BY DEF FinalStatus
    <2>3. RowsOK(rows) /\ Consistent(rows, arts)
      BY DEF LedgerInv, TypeOK, LedgerConsistent, RowsOK, Consistent, RowType
    <2>4. rows' = Ended(rows, mem.op, FinalStatus(draft))
      BY <1>2 DEF Ended
    <2>5. RowsOK(rows') /\ Consistent(rows', arts) /\ DOMAIN rows' = DOMAIN rows
      <3>1. DOMAIN rows' = DOMAIN rows
        BY <1>2
      <3> HIDE DEF new
      <3> QED
        <4>1. CASE FinalStatus(draft) = "COMPLETED"
          <5>1. /\ rows' = Ended(rows, mem.op, "COMPLETED")
                /\ rows[mem.op].status \in {"STARTED", "COMPLETED"}
            BY <1>2, <2>4, <4>1
          <5>2. /\ RowsOK(Ended(rows, mem.op, "COMPLETED"))
                /\ Consistent(Ended(rows, mem.op, "COMPLETED"), arts)
            BY <1>1, <2>3, <5>1, EndKeeps
          <5> QED
            BY <3>1, <5>1, <5>2
        <4>2. CASE FinalStatus(draft) = "CANCELLED"
          <5>1. rows' = Ended(rows, mem.op, "CANCELLED")
            BY <2>4, <4>2
          <5>2. /\ RowsOK(Ended(rows, mem.op, "CANCELLED"))
                /\ Consistent(Ended(rows, mem.op, "CANCELLED"), arts)
            BY <1>1, <2>3, EndKeeps
          <5> QED
            BY <3>1, <5>1, <5>2
        <4> QED
          BY <2>2, <4>1, <4>2
    <2>6. /\ GraphOK(new) /\ new.op = mem.op
          /\ new.node.at \in {"reconcile", "pause", "end"}
          /\ new.verdict # "none" => new.node.at = "end"
      BY <1>1, ProjectedNode
    <2>7. mem' = new /\ prior' = mem
      BY <1>2 DEF Return
    <2> HIDE DEF new
    <2>8. NoDraft \in Envelopes
      BY ContentsAssumption DEF NoDraft, Envelope, Envelopes, Zero, Outcomes
    <2>9. TypeOK'
      BY <1>1, <1>2, <2>1, <2>5, <2>6, <2>7, <2>8 DEF LedgerInv, TypeOK, RowsOK, RowType
    <2>10. WorkInv'
      BY <1>1, <1>2, <2>1, <2>5, <2>6, <2>7 DEF LedgerInv, WorkInv, Reconciled
    <2> QED
      BY <2>1, <2>5, <2>9, <2>10 DEF LedgerInv, LedgerConsistent, Consistent
  <1>3. CASE rows' = rows /\ Raise
    BY <1>1, <1>3, OutsideKeepsLedger DEF Record, Raise, graph, history
  <1> QED
    BY <1>2, <1>3 DEF Record

LEMMA RouteKeepsLedger ==
  ASSUME LedgerInv, Rehydrate \/ Pause \/ Terminate
  PROVE  LedgerInv'
  <1>0. /\ GraphOK(mem) /\ stop \in BOOLEAN /\ crashes \in Nat /\ stops \in Nat
        /\ mem.node.at # "work" => stage = "enter"
        /\ mem.verdict # "none" => mem.node.at = "end"
        /\ mem.node.at # "reconcile" => mem.op \in DOMAIN rows
        /\ mem.node.at = "rehydrate" => mem.op \in DOMAIN arts
        /\ \A o \in DOMAIN arts : arts[o] \in Envelopes
        /\ mem.node \in Nodes
        /\ mem = [node |-> mem.node, op |-> mem.op, att |-> mem.att, streak |-> mem.streak,
                  seen |-> mem.seen, turn |-> mem.turn, evid |-> mem.evid, verdict |-> mem.verdict]
    BY DEF LedgerInv, TypeOK, WorkInv, Reconciled, GraphOK
  <1>1. CASE Rehydrate
    <2> DEFINE new == Projected(Phase, mem.node.step, arts[mem.op])
    <2>1. mem.node.at = "rehydrate" /\ mem' = new /\ prior' = mem
      BY <1>0, <1>1 DEF Rehydrate, Return
    <2>2. /\ GraphOK(new) /\ new.op = mem.op
          /\ new.node.at \in {"reconcile", "pause", "end"}
          /\ new.verdict # "none" => new.node.at = "end"
      BY <1>0, <2>1, ProjectedNode
    <2> HIDE DEF new
    <2> QED
      BY <1>0, <1>1, <2>1, <2>2, NodeKeepsLedger DEF Rehydrate, ledger, history
  <1>2. CASE Pause
    <2>1. CASE Raise
      BY <1>0, <1>2, <2>1, OutsideKeepsLedger DEF Pause, Raise, graph, ledger, history
    <2>2. CASE Return([mem EXCEPT !.node = Enter(Phase)]) /\ UNCHANGED <<stage, draft, run>>
      <3>1. Enter(Phase) \in Nodes /\ Enter(Phase).at = "reconcile"
        BY NodeTyped, EnterTyped
      <3>2. mem' = [mem EXCEPT !.node = Enter(Phase)] /\ prior' = mem
        BY <2>2 DEF Return
      <3>3. /\ mem' = [node |-> mem'.node, op |-> mem'.op, att |-> mem'.att, streak |-> mem'.streak,
                      seen |-> mem'.seen, turn |-> mem'.turn, evid |-> mem'.evid, verdict |-> mem'.verdict]
            /\ mem'.node = Enter(Phase) /\ mem'.op = mem.op /\ mem'.att = mem.att
            /\ mem'.streak = mem.streak /\ mem'.seen = mem.seen
            /\ mem'.evid = mem.evid /\ mem'.verdict = mem.verdict
        BY <1>0, <3>2
      <3>4. GraphOK(mem')
        BY <1>0, <3>1, <3>3 DEF GraphOK
      <3>5. mem.node.at = "pause"
        BY <1>2 DEF Pause
      <3> QED
        BY <1>0, <1>2, <2>2, <3>1, <3>2, <3>3, <3>4, <3>5, NodeKeepsLedger DEF Pause, ledger, history
    <2> QED
      BY <1>2, <2>1, <2>2 DEF Pause
  <1>3. CASE Terminate
    <2>1. mem' = [mem EXCEPT !.verdict = "terminated", !.node.at = "end"] /\ prior' = mem
      BY <1>3 DEF Terminate, Return
    <2>2. /\ mem' = [node |-> mem'.node, op |-> mem'.op, att |-> mem'.att, streak |-> mem'.streak,
                    seen |-> mem'.seen, turn |-> mem'.turn, evid |-> mem'.evid, verdict |-> mem'.verdict]
          /\ mem'.node = [mem.node EXCEPT !.at = "end"] /\ mem'.op = mem.op /\ mem'.att = mem.att
          /\ mem'.streak = mem.streak /\ mem'.seen = mem.seen
          /\ mem'.evid = mem.evid /\ mem'.verdict = "terminated"
      BY <1>0, <2>1
    <2>3. [mem.node EXCEPT !.at = "end"] \in Nodes /\ [mem.node EXCEPT !.at = "end"].at = "end"
      BY <1>0 DEF Nodes
    <2>4. GraphOK(mem')
      BY <1>0, <2>2, <2>3 DEF GraphOK
    <2>5. mem.node.at = "terminate"
      BY <1>3 DEF Terminate
    <2> QED
      BY <1>0, <1>3, <2>1, <2>2, <2>3, <2>4, <2>5, NodeKeepsLedger DEF Terminate, ledger, history
  <1> QED
    BY <1>1, <1>2, <1>3

\* Around the graph, and a crash, which resumes from either of the two states.
LEMMA AroundKeepsLedger ==
  ASSUME LedgerInv, Begin \/ Finish \/ ReusedUnit \/ Deliver \/ RequestStop \/ Crash
  PROVE  LedgerInv'
  <1>0. /\ stop \in BOOLEAN /\ crashes \in Nat /\ stops \in Nat
        /\ run \in {"idle", "running", "reused", "returned", "blocked"}
        /\ run # "running" => stage = "enter"
        /\ mem.node.at # "work" => stage = "enter"
    BY DEF LedgerInv, TypeOK, WorkInv
  <1>1. CASE Begin \/ Finish \/ ReusedUnit \/ Deliver
    BY <1>0, <1>1, OutsideKeepsLedger
       DEF Begin, Finish, ReusedUnit, Deliver, ledger, graph, history
  <1>2. CASE RequestStop
    BY <1>0, <1>2, OutsideKeepsLedger DEF RequestStop, ledger, graph
  <1>3. CASE Crash
    <2>1. /\ UNCHANGED <<flow, ws, rows, arts, stop, stops>>
          /\ mem' \in {mem, prior} /\ prior' = mem' /\ stage' = "enter" /\ draft' = NoDraft
          /\ run' = "idle" /\ crashes' = crashes + 1
      BY <1>3 DEF Crash, ledger
    <2>2. NoDraft \in Envelopes
      BY ContentsAssumption DEF NoDraft, Envelope, Envelopes, Zero, Outcomes
    <2>3. TypeOK'
      <3>1. GraphOK(mem') /\ GraphOK(prior')
        BY <2>1 DEF LedgerInv, TypeOK
      <3> QED
        BY <1>0, <2>1, <2>2, <3>1 DEF LedgerInv, TypeOK
    <2>4. WorkInv'
      BY <2>1 DEF LedgerInv, WorkInv, Reconciled
    <2> QED
      BY <2>1, <2>3, <2>4 DEF LedgerInv, LedgerConsistent
  <1> QED
    BY <1>1, <1>2, <1>3

LEMMA InitLedger == Init => LedgerInv
  <1> SUFFICES ASSUME Init PROVE LedgerInv
    OBVIOUS
  <1>1. GraphOK(Start) /\ Start.node.at = "reconcile" /\ Start.verdict = "none"
    <2>1. Enter("precheck_existing_tests") \in Nodes /\ Enter("precheck_existing_tests").at = "reconcile"
      BY EnterTyped DEF Phases, ToolPhases
    <2>2. Evidence(NoEvidence)
      BY DEF Evidence, NoEvidence
    <2> QED
      BY <2>1, <2>2 DEF Start, GraphOK, Zero
  <1>2. NoDraft \in Envelopes
    BY ContentsAssumption DEF NoDraft, Envelope, Envelopes, Zero, Outcomes
  <1>3. TypeOK
    BY <1>1, <1>2, ContentsAssumption DEF Init, TypeOK
  <1>4. WorkInv
    BY <1>1 DEF Init, WorkInv, Reconciled
  <1> QED
    BY <1>3, <1>4 DEF Init, LedgerInv, LedgerConsistent

LEMMA NextLedger == LedgerInv /\ [Next]_vars => LedgerInv'
  <1> SUFFICES ASSUME LedgerInv, [Next]_vars PROVE LedgerInv'
    OBVIOUS
  <1>1. CASE UNCHANGED vars
    BY <1>1, OutsideKeepsLedger DEF vars, LedgerInv, TypeOK
  <1>2. CASE Next
    BY <1>2, ReconcileKeepsLedger, RouteKeepsLedger, TurnKeepsLedger, RejectedKeepsLedger,
       PhaseKeepsLedger, StoreKeepsLedger, RecordKeepsLedger, AroundKeepsLedger DEF Next, Step
  <1> QED
    BY <1>1, <1>2

\* The ledger never claims a result that is not stored, and never has two open
\* executions of one slot, for any workspace contents, replay and repair budgets
\* and any number of crashes and stops: the artifact is written before the row
\* completes, and a replay closes the execution it supersedes.
THEOREM LedgerIsConsistent == Spec => []LedgerConsistent
  <1>1. LedgerInv => LedgerConsistent
    BY DEF LedgerInv
  <1> QED
    BY InitLedger, NextLedger, <1>1, PTL DEF Spec

-----------------------------------------------------------------------------
(* Where each phase leads.                                                 *)

\* A phase and an outcome have one route at most.
LEMMA RoutesFunctional ==
  ASSUME NEW r \in Routes, NEW s \in Routes, r[1] = s[1], r[2] = s[2]
  PROVE  r[3] = s[3]
  BY DEF Routes, RepairRoutes, Repairs

LEMMA Routed ==
  ASSUME NEW p, NEW outcome, NEW q, <<p, outcome, q>> \in Routes
  PROVE  Successor(p, outcome) = q
  <1>1. <<p, outcome, q>>[1] = p /\ <<p, outcome, q>>[2] = outcome /\ <<p, outcome, q>>[3] = q
    OBVIOUS
  <1> QED
    BY <1>1, RoutesFunctional, SuccessorOnRoute

LEMMA Unrouted ==
  ASSUME NEW p, NEW outcome, \A r \in Routes : ~(r[1] = p /\ r[2] = outcome)
  PROVE  Successor(p, outcome) = "complete_generation"
  BY SuccessorOnRoute

LEMMA AfterPrecheck ==
  /\ Successor("precheck_existing_tests", "proceed") = "plan_tests"
  /\ Successor("precheck_existing_tests", "plan_skipped") = "generate_tests"
  /\ Successor("precheck_existing_tests", "existing_repair") = "verify_compile"
  /\ Successor("precheck_existing_tests", "delegated_repair") = "delegated_quality_gate_verify"
  /\ Successor("precheck_existing_tests", "skip_target") = "complete_generation"
  /\ Successor("precheck_existing_tests", "failed") = "complete_generation"
  <1>1. /\ <<"precheck_existing_tests", "proceed", "plan_tests">> \in Routes
        /\ <<"precheck_existing_tests", "plan_skipped", "generate_tests">> \in Routes
        /\ <<"precheck_existing_tests", "existing_repair", "verify_compile">> \in Routes
        /\ <<"precheck_existing_tests", "delegated_repair", "delegated_quality_gate_verify">> \in Routes
    BY DEF Routes
  <1>2. ASSUME NEW r \in Routes, r[1] = "precheck_existing_tests", r[2] \in {"skip_target", "failed"}
        PROVE  FALSE
    BY <1>2 DEF Routes, RepairRoutes, Repairs
  <1>3. /\ \A r \in Routes : ~(r[1] = "precheck_existing_tests" /\ r[2] = "skip_target")
        /\ \A r \in Routes : ~(r[1] = "precheck_existing_tests" /\ r[2] = "failed")
    BY <1>2
  <1> QED
    BY <1>1, <1>3, Routed, Unrouted

LEMMA AfterPreparation ==
  /\ Successor("plan_tests", "passed") = "generate_tests"
  /\ Successor("plan_tests", "retry") = "plan_tests"
  /\ Successor("generate_tests", "passed") = "verify_compile"
  /\ Successor("generate_tests", "retry") = "generate_tests"
  /\ \A p \in {"plan_tests", "generate_tests"}, o \in {"failed", "exhausted"} :
        Successor(p, o) = "complete_generation"
  <1>1. /\ <<"plan_tests", "passed", "generate_tests">> \in Routes
        /\ <<"plan_tests", "retry", "plan_tests">> \in Routes
        /\ <<"generate_tests", "passed", "verify_compile">> \in Routes
        /\ <<"generate_tests", "retry", "generate_tests">> \in Routes
    BY DEF Routes
  <1>2. ASSUME NEW r \in Routes, r[1] \in {"plan_tests", "generate_tests"},
               r[2] \in {"failed", "exhausted"}
        PROVE  FALSE
    BY <1>2 DEF Routes, RepairRoutes, Repairs
  <1>3. ASSUME NEW p \in {"plan_tests", "generate_tests"}, NEW o \in {"failed", "exhausted"}
        PROVE  Successor(p, o) = "complete_generation"
    <2>1. \A r \in Routes : ~(r[1] = p /\ r[2] = o)
      BY <1>2
    <2> QED
      BY <2>1, Unrouted
  <1> QED
    BY <1>1, <1>3, Routed

LEMMA AfterVerification ==
  /\ Successor("verify_compile", "passed") = "verify_tests"
  /\ Successor("verify_compile", "repair") = "fix_compile"
  /\ Successor("verify_tests", "passed") = "measure_coverage"
  /\ Successor("verify_tests", "delegated") = "delegated_quality_gate_verify"
  /\ Successor("verify_tests", "repair") = "fix_tests"
  /\ Successor("measure_coverage", "passed") = "measure_mutation"
  /\ Successor("measure_coverage", "repair") = "fix_coverage"
  /\ Successor("measure_mutation", "passed") = "delegated_quality_gate_verify"
  /\ Successor("measure_mutation", "skipped") = "delegated_quality_gate_verify"
  /\ Successor("measure_mutation", "review_equivalence") = "review_equivalent_mutants"
  /\ Successor("measure_mutation", "repair") = "fix_mutation"
  /\ Successor("measure_mutation", "tests_failed") = "fix_tests"
  /\ Successor("delegated_quality_gate_verify", "review_equivalence") = "review_equivalent_mutants"
  /\ Successor("delegated_quality_gate_verify", "repair") = "delegated_quality_gate"
  /\ Successor("delegated_quality_gate_verify", "passed") = "complete_generation"
  /\ Successor("delegated_quality_gate_verify", "skipped") = "complete_generation"
  /\ Successor("review_equivalent_mutants", "failed") = "complete_generation"
  /\ \A p \in Verifiers : Successor(p, "failed") = "complete_generation"
  <1>1. /\ <<"verify_compile", "passed", "verify_tests">> \in Routes
        /\ <<"verify_compile", "repair", "fix_compile">> \in Routes
        /\ <<"verify_tests", "passed", "measure_coverage">> \in Routes
        /\ <<"verify_tests", "delegated", "delegated_quality_gate_verify">> \in Routes
        /\ <<"verify_tests", "repair", "fix_tests">> \in Routes
        /\ <<"measure_coverage", "passed", "measure_mutation">> \in Routes
        /\ <<"measure_coverage", "repair", "fix_coverage">> \in Routes
        /\ <<"measure_mutation", "passed", "delegated_quality_gate_verify">> \in Routes
        /\ <<"measure_mutation", "skipped", "delegated_quality_gate_verify">> \in Routes
        /\ <<"measure_mutation", "review_equivalence", "review_equivalent_mutants">> \in Routes
        /\ <<"measure_mutation", "repair", "fix_mutation">> \in Routes
        /\ <<"measure_mutation", "tests_failed", "fix_tests">> \in Routes
        /\ <<"delegated_quality_gate_verify", "review_equivalence", "review_equivalent_mutants">> \in Routes
        /\ <<"delegated_quality_gate_verify", "repair", "delegated_quality_gate">> \in Routes
    BY DEF Routes
  <1>2. ASSUME NEW p, NEW o, p \in Verifiers \cup {"review_equivalent_mutants"},
               \/ o = "failed"
               \/ p = "delegated_quality_gate_verify" /\ o \in {"passed", "skipped"}
        PROVE  Successor(p, o) = "complete_generation"
    <2>1. ASSUME NEW r \in Routes, r[1] = p, r[2] = o PROVE FALSE
      BY <1>2, <2>1 DEF Routes, RepairRoutes, Repairs, Verifiers
    <2> QED
      BY <2>1, Unrouted
  <1>3. /\ Successor("delegated_quality_gate_verify", "passed") = "complete_generation"
        /\ Successor("delegated_quality_gate_verify", "skipped") = "complete_generation"
        /\ Successor("review_equivalent_mutants", "failed") = "complete_generation"
        /\ \A p \in Verifiers : Successor(p, "failed") = "complete_generation"
    BY <1>2 DEF Verifiers
  <1>4. /\ Successor("verify_compile", "passed") = "verify_tests"
        /\ Successor("verify_compile", "repair") = "fix_compile"
        /\ Successor("verify_tests", "passed") = "measure_coverage"
        /\ Successor("verify_tests", "delegated") = "delegated_quality_gate_verify"
        /\ Successor("verify_tests", "repair") = "fix_tests"
        /\ Successor("measure_coverage", "passed") = "measure_mutation"
        /\ Successor("measure_coverage", "repair") = "fix_coverage"
    BY <1>1, Routed
  <1>5. /\ Successor("measure_mutation", "passed") = "delegated_quality_gate_verify"
        /\ Successor("measure_mutation", "skipped") = "delegated_quality_gate_verify"
        /\ Successor("measure_mutation", "review_equivalence") = "review_equivalent_mutants"
        /\ Successor("measure_mutation", "repair") = "fix_mutation"
        /\ Successor("measure_mutation", "tests_failed") = "fix_tests"
        /\ Successor("delegated_quality_gate_verify", "review_equivalence") = "review_equivalent_mutants"
        /\ Successor("delegated_quality_gate_verify", "repair") = "delegated_quality_gate"
    BY <1>1, Routed
  <1> QED
    BY <1>3, <1>4, <1>5

LEMMA AfterRepair ==
  ASSUME NEW p \in Repairs
  PROVE  Successor(p, "passed") = IF p = "fix_compile" THEN "verify_compile" ELSE "verify_tests"
  <1>1. CASE p = "fix_compile"
    <2>1. <<p, "passed", "verify_compile">> \in Routes
      BY <1>1 DEF Routes
    <2> QED
      BY <1>1, <2>1, Routed
  <1>2. CASE p # "fix_compile"
    <2>1. <<p, "passed", "verify_tests">> \in RepairRoutes
      BY <1>2 DEF RepairRoutes
    <2>2. <<p, "passed", "verify_tests">> \in Routes
      BY <2>1 DEF Routes
    <2> QED
      BY <1>2, <2>2, Routed
  <1> QED
    BY <1>1, <1>2

-----------------------------------------------------------------------------
(* What the evidence says of a verdict.                                    *)

Measurements == {"verify_tests", "measure_coverage", "measure_mutation"}

\* One measurement that did not pass, or a compilation that failed, is enough
\* for FAIL.
LEMMA NotPassed ==
  ASSUME NEW evid, Undecided(evid),
         \/ Said(evid, "verify_tests") \notin {"passed", "skip_target"}
         \/ Said(evid, "measure_coverage") \notin {"passed", "skip_target"}
         \/ Said(evid, "measure_mutation") \notin {"passed", "skip_target", "skipped"}
         \/ Said(evid, "verify_compile") = "failed"
  PROVE  CompleteGeneration(evid) # "PASS"
  <1>1. CASE flow = "java_delegated" /\ Said(evid, "delegated_quality_gate_verify") # "none"
    <2>1. VerdictPhases(evid) = {"delegated_quality_gate_verify"}
      BY <1>1 DEF VerdictPhases, Undecided
    <2> QED
      BY <1>1, <2>1 DEF CompleteGeneration, Undecided
  <1>2. CASE ~(flow = "java_delegated" /\ Said(evid, "delegated_quality_gate_verify") # "none")
    <2>1. VerdictPhases(evid) = Measurements
      BY <1>2 DEF VerdictPhases, Undecided, Measurements
    <2> QED
      BY <2>1 DEF CompleteGeneration, Measurements
  <1> QED
    BY <1>1, <1>2

\* The evidence after a phase has answered.
LEMMA PutSays ==
  ASSUME NEW evid, NEW p, NEW fp, NEW outcome, NEW q
  PROVE  LET new == Put(evid, p, [fp |-> fp, outcome |-> outcome])
         IN  /\ Said(new, q) = IF q = p THEN outcome ELSE Said(evid, q)
             /\ q \in DOMAIN new <=> q = p \/ q \in DOMAIN evid
             /\ q \in DOMAIN new => new[q].fp = IF q = p THEN fp ELSE evid[q].fp
  BY DEF Put, Said

\* The invariant of a graph state without a verdict that is at a phase of the
\* edit loop, where nothing is asked of the measurements.
LEMMA LoopEvidence ==
  ASSUME NEW g, Undecided(g.evid), g.verdict = "none",
         g.node.phase \in Repairs \cup {"verify_compile", "verify_tests"},
         flow = "java_delegated" => "measure_coverage" \notin DOMAIN g.evid
  PROVE  EvidenceInv(g)
  BY DEF EvidenceInv, Repairs, Preparation

\* The invariant of a graph state that goes to completion with FAIL.
LEMMA FailEvidence ==
  ASSUME NEW g, g.node.phase = "complete_generation", CompleteGeneration(g.evid) # "PASS",
         g.verdict # "PASS",
         flow = "java_delegated" => "measure_coverage" \notin DOMAIN g.evid
  PROVE  EvidenceInv(g)
  BY DEF EvidenceInv, Repairs, Preparation

-----------------------------------------------------------------------------
(* The evidence after the answer of each phase.                            *)

\* The graph state after the phase has answered on the present workspace.
Answered(new, outcome) ==
    /\ new.node.phase = IF Phase = "complete_generation" THEN Phase ELSE Successor(Phase, outcome)
    /\ new.verdict = IF Phase = "complete_generation" THEN outcome ELSE "none"
    /\ new.evid = IF Phase \in Verifiers \cup {"precheck_existing_tests"}
                  THEN Put(mem.evid, Phase, [fp |-> ws, outcome |-> outcome])
                  ELSE mem.evid

LEMMA PrecheckEvidence ==
  ASSUME TypeOK, EvidenceInv(mem), NEW new, NEW o \in Possible(Phase), Answered(new, o),
         Phase = "precheck_existing_tests"
  PROVE  EvidenceInv(new)
  <1>0. flow \in {"java", "java_delegated", "python"}
    BY FlowsAssumption DEF TypeOK
  <1>1. /\ o \in {"proceed", "plan_skipped", "existing_repair", "delegated_repair",
                  "skip_target", "failed"}
        /\ o = "delegated_repair" => flow = "java_delegated"
    BY <1>0, PossibleAnswers DEF Precheck
  <1>2. /\ new.verdict = "none"
        /\ new.node.phase = Successor("precheck_existing_tests", o)
        /\ new.evid = Put(mem.evid, "precheck_existing_tests", [fp |-> ws, outcome |-> o])
    BY DEF Answered
  <1>3. /\ Said(new.evid, "precheck_existing_tests") = o
        /\ "precheck_existing_tests" \in DOMAIN new.evid
        /\ new.evid["precheck_existing_tests"].fp = ws
        /\ Said(new.evid, "verify_tests") = Said(mem.evid, "verify_tests")
        /\ Said(new.evid, "delegated_quality_gate_verify")
             = Said(mem.evid, "delegated_quality_gate_verify")
        /\ "measure_coverage" \in DOMAIN new.evid <=> "measure_coverage" \in DOMAIN mem.evid
    BY <1>2, PutSays
  <1>4. /\ Undecided(mem.evid)
        /\ flow = "java_delegated" => "measure_coverage" \notin DOMAIN mem.evid
        /\ Said(mem.evid, "verify_tests") = "none"
    BY DEF EvidenceInv, Preparation, Phase
  <1>5. CASE o \in {"proceed", "plan_skipped"}
    <2>1. new.node.phase \in {"plan_tests", "generate_tests"}
      BY <1>2, <1>5, AfterPrecheck
    <2>2. Undecided(new.evid)
      BY <1>3, <1>4, <1>5 DEF Undecided
    <2> QED
      BY <1>2, <1>3, <1>4, <2>1, <2>2 DEF EvidenceInv
  <1>6. CASE o = "existing_repair"
    <2>1. new.node.phase = "verify_compile"
      BY <1>2, <1>6, AfterPrecheck
    <2>2. Undecided(new.evid)
      BY <1>3, <1>4, <1>6 DEF Undecided
    <2> QED
      BY <1>2, <1>3, <1>4, <2>1, <2>2, LoopEvidence
  <1>7. CASE o = "delegated_repair"
    <2>1. new.node.phase = "delegated_quality_gate_verify" /\ flow = "java_delegated"
      BY <1>1, <1>2, <1>7, AfterPrecheck
    <2>2. Undecided(new.evid)
      BY <1>3, <1>4, <1>7 DEF Undecided
    <2> QED
      BY <1>2, <1>3, <1>4, <2>1, <2>2 DEF EvidenceInv, Preparation
  <1>8. CASE o = "skip_target"
    <2>1. new.node.phase = "complete_generation"
      BY <1>2, <1>8, AfterPrecheck
    <2>2. VerdictPhases(new.evid) = {"precheck_existing_tests"}
      BY <1>3, <1>8 DEF VerdictPhases
    <2>3. CurrentIn(new, "precheck_existing_tests")
      BY <1>3 DEF CurrentIn
    <2> QED
      BY <1>2, <1>3, <1>4, <2>1, <2>2, <2>3 DEF EvidenceInv, Preparation
  <1>9. CASE o = "failed"
    <2>1. new.node.phase = "complete_generation"
      BY <1>2, <1>9, AfterPrecheck
    <2>2. Undecided(new.evid)
      BY <1>3, <1>4, <1>9 DEF Undecided
    <2>3. CompleteGeneration(new.evid) # "PASS"
      BY <1>3, <1>4, <2>2, NotPassed
    <2> QED
      BY <1>2, <1>3, <1>4, <2>1, <2>3, FailEvidence
  <1> QED
    BY <1>1, <1>5, <1>6, <1>7, <1>8, <1>9

LEMMA PreparationEvidence ==
  ASSUME EvidenceInv(mem), NEW new, NEW o \in Possible(Phase), Answered(new, o),
         Phase \in {"plan_tests", "generate_tests"}
  PROVE  EvidenceInv(new)
  <1>1. o \in {"passed", "retry", "failed", "exhausted"}
    BY PossibleAnswers
  <1>2. new.verdict = "none" /\ new.node.phase = Successor(Phase, o) /\ new.evid = mem.evid
    BY DEF Answered, Verifiers
  <1>3. /\ Undecided(mem.evid)
        /\ flow = "java_delegated" => "measure_coverage" \notin DOMAIN mem.evid
        /\ Said(mem.evid, "verify_tests") = "none"
    BY DEF EvidenceInv, Preparation, Phase
  <1>4. CASE o \in {"passed", "retry"}
    <2>1. new.node.phase \in {"plan_tests", "generate_tests", "verify_compile"}
      BY <1>2, <1>4, AfterPreparation
    <2> QED
      BY <1>2, <1>3, <2>1 DEF EvidenceInv
  <1>5. CASE o \in {"failed", "exhausted"}
    <2>1. new.node.phase = "complete_generation"
      BY <1>2, <1>5, AfterPreparation
    <2>2. CompleteGeneration(new.evid) # "PASS"
      BY <1>2, <1>3, NotPassed
    <2> QED
      BY <1>2, <1>3, <2>1, <2>2, FailEvidence
  <1> QED
    BY <1>1, <1>4, <1>5

LEMMA CompileEvidence ==
  ASSUME EvidenceInv(mem), NEW new, NEW o \in Possible(Phase), Answered(new, o),
         Phase = "verify_compile"
  PROVE  EvidenceInv(new)
  <1>1. o \in {"passed", "repair", "failed"}
    BY PossibleAnswers
  <1>2. /\ new.verdict = "none" /\ new.node.phase = Successor("verify_compile", o)
        /\ new.evid = Put(mem.evid, "verify_compile", [fp |-> ws, outcome |-> o])
    BY DEF Answered, Verifiers
  <1>3. /\ Said(new.evid, "verify_compile") = o
        /\ Said(new.evid, "precheck_existing_tests") = Said(mem.evid, "precheck_existing_tests")
        /\ Said(new.evid, "delegated_quality_gate_verify")
             = Said(mem.evid, "delegated_quality_gate_verify")
        /\ "measure_coverage" \in DOMAIN new.evid <=> "measure_coverage" \in DOMAIN mem.evid
    BY <1>2, PutSays
  <1>4. Undecided(mem.evid) /\ (flow = "java_delegated" => "measure_coverage" \notin DOMAIN mem.evid)
    BY DEF EvidenceInv, Phase
  <1>5. Undecided(new.evid) /\ (flow = "java_delegated" => "measure_coverage" \notin DOMAIN new.evid)
    BY <1>3, <1>4 DEF Undecided
  <1>6. CASE o \in {"passed", "repair"}
    <2>1. new.node.phase \in {"verify_tests", "fix_compile"}
      BY <1>2, <1>6, AfterVerification
    <2> QED
      BY <1>2, <1>5, <2>1, LoopEvidence DEF Repairs
  <1>7. CASE o = "failed"
    <2>1. new.node.phase = "complete_generation"
      BY <1>2, <1>7, AfterVerification DEF Verifiers
    <2>2. CompleteGeneration(new.evid) # "PASS"
      BY <1>3, <1>5, <1>7, NotPassed
    <2> QED
      BY <1>2, <1>5, <2>1, <2>2, FailEvidence
  <1> QED
    BY <1>1, <1>6, <1>7

LEMMA TestsEvidence ==
  ASSUME EvidenceInv(mem), NEW new, NEW o \in Possible(Phase), Answered(new, o),
         Phase = "verify_tests"
  PROVE  EvidenceInv(new)
  <1>1. /\ o \in {"passed", "delegated", "repair", "failed"}
        /\ o = "passed" => flow # "java_delegated"
        /\ o = "delegated" => flow = "java_delegated"
    BY PossibleAnswers
  <1>2. /\ new.verdict = "none" /\ new.node.phase = Successor("verify_tests", o)
        /\ new.evid = Put(mem.evid, "verify_tests", [fp |-> ws, outcome |-> o])
    BY DEF Answered, Verifiers
  <1>3. /\ Said(new.evid, "verify_tests") = o
        /\ "verify_tests" \in DOMAIN new.evid /\ new.evid["verify_tests"].fp = ws
        /\ Said(new.evid, "precheck_existing_tests") = Said(mem.evid, "precheck_existing_tests")
        /\ Said(new.evid, "delegated_quality_gate_verify")
             = Said(mem.evid, "delegated_quality_gate_verify")
        /\ "measure_coverage" \in DOMAIN new.evid <=> "measure_coverage" \in DOMAIN mem.evid
    BY <1>2, PutSays
  <1>4. Undecided(mem.evid) /\ (flow = "java_delegated" => "measure_coverage" \notin DOMAIN mem.evid)
    BY DEF EvidenceInv, Phase
  <1>5. Undecided(new.evid) /\ (flow = "java_delegated" => "measure_coverage" \notin DOMAIN new.evid)
    BY <1>3, <1>4 DEF Undecided
  <1>6. CurrentIn(new, "verify_tests")
    BY <1>3 DEF CurrentIn
  <1>7. CASE o = "passed"
    <2>1. new.node.phase = "measure_coverage" /\ flow # "java_delegated"
      BY <1>1, <1>2, <1>7, AfterVerification
    <2> QED
      BY <1>2, <1>5, <1>6, <2>1 DEF EvidenceInv, Preparation
  <1>8. CASE o = "delegated"
    <2>1. new.node.phase = "delegated_quality_gate_verify" /\ flow = "java_delegated"
      BY <1>1, <1>2, <1>8, AfterVerification
    <2> QED
      BY <1>2, <1>5, <2>1 DEF EvidenceInv, Preparation
  <1>9. CASE o = "repair"
    <2>1. new.node.phase = "fix_tests"
      BY <1>2, <1>9, AfterVerification
    <2> QED
      BY <1>2, <1>5, <2>1, LoopEvidence DEF Repairs
  <1>10. CASE o = "failed"
    <2>1. new.node.phase = "complete_generation"
      BY <1>2, <1>10, AfterVerification DEF Verifiers
    <2>2. CompleteGeneration(new.evid) # "PASS"
      BY <1>3, <1>5, <1>10, NotPassed
    <2> QED
      BY <1>2, <1>5, <2>1, <2>2, FailEvidence
  <1> QED
    BY <1>1, <1>7, <1>8, <1>9, <1>10

LEMMA CoverageEvidence ==
  ASSUME EvidenceInv(mem), NEW new, NEW o \in Possible(Phase), Answered(new, o),
         Phase = "measure_coverage"
  PROVE  EvidenceInv(new)
  <1>1. o \in {"passed", "repair", "failed"}
    BY PossibleAnswers
  <1>2. /\ new.verdict = "none" /\ new.node.phase = Successor("measure_coverage", o)
        /\ new.evid = Put(mem.evid, "measure_coverage", [fp |-> ws, outcome |-> o])
    BY DEF Answered, Verifiers
  <1>3. /\ Said(new.evid, "measure_coverage") = o
        /\ "measure_coverage" \in DOMAIN new.evid /\ new.evid["measure_coverage"].fp = ws
        /\ Said(new.evid, "precheck_existing_tests") = Said(mem.evid, "precheck_existing_tests")
        /\ "verify_tests" \in DOMAIN new.evid <=> "verify_tests" \in DOMAIN mem.evid
        /\ "verify_tests" \in DOMAIN new.evid
             => new.evid["verify_tests"].fp = mem.evid["verify_tests"].fp
    BY <1>2, PutSays
  <1>4. Undecided(mem.evid) /\ flow # "java_delegated" /\ CurrentIn(mem, "verify_tests")
    BY DEF EvidenceInv, Phase
  <1>5. /\ Undecided(new.evid)
        /\ CurrentIn(new, "verify_tests") /\ CurrentIn(new, "measure_coverage")
    BY <1>3, <1>4 DEF Undecided, CurrentIn
  <1>6. CASE o = "passed"
    <2>1. new.node.phase = "measure_mutation"
      BY <1>2, <1>6, AfterVerification
    <2> QED
      BY <1>2, <1>4, <1>5, <2>1 DEF EvidenceInv, Preparation
  <1>7. CASE o = "repair"
    <2>1. new.node.phase = "fix_coverage"
      BY <1>2, <1>7, AfterVerification
    <2> QED
      BY <1>2, <1>4, <1>5, <2>1, LoopEvidence DEF Repairs
  <1>8. CASE o = "failed"
    <2>1. new.node.phase = "complete_generation"
      BY <1>2, <1>8, AfterVerification DEF Verifiers
    <2>2. CompleteGeneration(new.evid) # "PASS"
      BY <1>3, <1>5, <1>8, NotPassed
    <2> QED
      BY <1>2, <1>4, <2>1, <2>2, FailEvidence
  <1> QED
    BY <1>1, <1>6, <1>7, <1>8

LEMMA MutationEvidence ==
  ASSUME EvidenceInv(mem), NEW new, NEW o \in Possible(Phase), Answered(new, o),
         Phase = "measure_mutation"
  PROVE  EvidenceInv(new)
  <1>1. o \in {"passed", "skipped", "repair", "failed", "review_equivalence", "tests_failed"}
    BY PossibleAnswers
  <1>2. /\ new.verdict = "none" /\ new.node.phase = Successor("measure_mutation", o)
        /\ new.evid = Put(mem.evid, "measure_mutation", [fp |-> ws, outcome |-> o])
    BY DEF Answered, Verifiers
  <1>3. /\ Said(new.evid, "measure_mutation") = o
        /\ "measure_mutation" \in DOMAIN new.evid /\ new.evid["measure_mutation"].fp = ws
        /\ Said(new.evid, "precheck_existing_tests") = Said(mem.evid, "precheck_existing_tests")
        /\ \A q \in {"verify_tests", "measure_coverage"} :
             /\ q \in DOMAIN new.evid <=> q \in DOMAIN mem.evid
             /\ q \in DOMAIN new.evid => new.evid[q].fp = mem.evid[q].fp
    BY <1>2, PutSays
  <1>4. /\ Undecided(mem.evid) /\ flow # "java_delegated"
        /\ CurrentIn(mem, "verify_tests") /\ CurrentIn(mem, "measure_coverage")
    BY DEF EvidenceInv, Phase
  <1>5. /\ Undecided(new.evid)
        /\ \A q \in Measurements : CurrentIn(new, q)
    BY <1>3, <1>4 DEF Undecided, CurrentIn, Measurements
  <1>6. CASE o \in {"passed", "skipped"}
    <2>1. new.node.phase = "delegated_quality_gate_verify"
      BY <1>2, <1>6, AfterVerification
    <2> QED
      BY <1>2, <1>4, <1>5, <2>1 DEF EvidenceInv, Preparation, Measurements
  <1>7. CASE o \in {"repair", "tests_failed"}
    <2>1. new.node.phase \in {"fix_mutation", "fix_tests"}
      BY <1>2, <1>7, AfterVerification
    <2> QED
      BY <1>2, <1>4, <1>5, <2>1, LoopEvidence DEF Repairs
  <1>8. CASE o = "review_equivalence"
    <2>1. new.node.phase = "review_equivalent_mutants"
      BY <1>2, <1>8, AfterVerification
    <2> QED
      BY <1>2, <1>3, <1>4, <1>5, <1>8, <2>1 DEF EvidenceInv, Preparation
  <1>9. CASE o = "failed"
    <2>1. new.node.phase = "complete_generation"
      BY <1>2, <1>9, AfterVerification DEF Verifiers
    <2>2. CompleteGeneration(new.evid) # "PASS"
      BY <1>3, <1>5, <1>9, NotPassed
    <2> QED
      BY <1>2, <1>4, <2>1, <2>2, FailEvidence
  <1> QED
    BY <1>1, <1>6, <1>7, <1>8, <1>9

\* In the standard flow the delegated gate is skipped, and the verdict is taken
\* from the three measurements.
LEMMA SkippedGateEvidence ==
  ASSUME EvidenceInv(mem), NEW new, NEW o \in Possible(Phase), Answered(new, o),
         Phase = "delegated_quality_gate_verify", flow # "java_delegated"
  PROVE  EvidenceInv(new)
  <1>1. o = "skipped"
    BY PossibleAnswers
  <1>2. /\ new.verdict = "none" /\ new.node.phase = Successor("delegated_quality_gate_verify", o)
        /\ new.evid = Put(mem.evid, "delegated_quality_gate_verify", [fp |-> ws, outcome |-> o])
    BY DEF Answered, Verifiers
  <1>3. new.node.phase = "complete_generation"
    BY <1>1, <1>2, AfterVerification
  <1>4. /\ Said(new.evid, "precheck_existing_tests") = Said(mem.evid, "precheck_existing_tests")
        /\ \A q \in Measurements :
             /\ q \in DOMAIN new.evid <=> q \in DOMAIN mem.evid
             /\ q \in DOMAIN new.evid => new.evid[q].fp = mem.evid[q].fp
    BY <1>2, PutSays DEF Measurements
  <1>5. /\ Undecided(mem.evid)
        /\ \A q \in Measurements : CurrentIn(mem, q)
    BY DEF EvidenceInv, Phase, Measurements
  <1>6. VerdictPhases(new.evid) = Measurements
    BY <1>4, <1>5 DEF VerdictPhases, Measurements, Undecided
  <1>7. \A q \in VerdictPhases(new.evid) : CurrentIn(new, q)
    BY <1>4, <1>5, <1>6 DEF CurrentIn
  <1> QED
    BY <1>2, <1>3, <1>7 DEF EvidenceInv, Preparation

LEMMA DelegatedGateEvidence ==
  ASSUME EvidenceInv(mem), NEW new, NEW o \in Possible(Phase), Answered(new, o),
         Phase = "delegated_quality_gate_verify", flow = "java_delegated"
  PROVE  EvidenceInv(new)
  <1>1. o \in {"passed", "repair", "failed", "review_equivalence"}
    BY PossibleAnswers
  <1>2. /\ new.verdict = "none" /\ new.node.phase = Successor("delegated_quality_gate_verify", o)
        /\ new.evid = Put(mem.evid, "delegated_quality_gate_verify", [fp |-> ws, outcome |-> o])
    BY DEF Answered, Verifiers
  <1>3. /\ Said(new.evid, "delegated_quality_gate_verify") = o
        /\ "delegated_quality_gate_verify" \in DOMAIN new.evid
        /\ new.evid["delegated_quality_gate_verify"].fp = ws
        /\ Said(new.evid, "precheck_existing_tests") = Said(mem.evid, "precheck_existing_tests")
        /\ "measure_coverage" \in DOMAIN new.evid <=> "measure_coverage" \in DOMAIN mem.evid
    BY <1>2, PutSays
  <1>4. Undecided(mem.evid) /\ "measure_coverage" \notin DOMAIN new.evid
    BY <1>3 DEF EvidenceInv, Phase
  <1>5. Said(new.evid, "measure_coverage") = "none"
    BY <1>4 DEF Said
  <1>6. CASE o = "passed"
    <2>1. new.node.phase = "complete_generation"
      BY <1>2, <1>6, AfterVerification
    <2>2. VerdictPhases(new.evid) = {"delegated_quality_gate_verify"}
      BY <1>3, <1>4, <1>6 DEF VerdictPhases, Undecided
    <2>3. CurrentIn(new, "delegated_quality_gate_verify")
      BY <1>3 DEF CurrentIn
    <2> QED
      BY <1>2, <1>4, <2>1, <2>2, <2>3 DEF EvidenceInv, Preparation
  <1>7. CASE o # "passed"
    <2>1. Undecided(new.evid)
      BY <1>1, <1>3, <1>4, <1>7 DEF Undecided
    <2>2. CASE o = "repair"
      <3>1. new.node.phase = "delegated_quality_gate"
        BY <1>2, <2>2, AfterVerification
      <3> QED
        BY <1>2, <1>4, <2>1, <3>1, LoopEvidence DEF Repairs
    <2>3. CASE o = "review_equivalence"
      <3>1. new.node.phase = "review_equivalent_mutants"
        BY <1>2, <2>3, AfterVerification
      <3> QED
        BY <1>2, <1>4, <2>1, <3>1 DEF EvidenceInv, Preparation
    <2>4. CASE o = "failed"
      <3>1. new.node.phase = "complete_generation"
        BY <1>2, <2>4, AfterVerification DEF Verifiers
      <3>2. CompleteGeneration(new.evid) # "PASS"
        BY <1>5, <2>1, NotPassed
      <3> QED
        BY <1>2, <1>4, <3>1, <3>2, FailEvidence
    <2> QED
      BY <1>1, <1>7, <2>2, <2>3, <2>4
  <1> QED
    BY <1>6, <1>7

LEMMA RepairEvidence ==
  ASSUME EvidenceInv(mem), NEW new, NEW o \in Possible(Phase), Answered(new, o),
         Phase \in Repairs \cup {"review_equivalent_mutants"}
  PROVE  EvidenceInv(new)
  <1>1. Undecided(mem.evid) /\ (flow = "java_delegated" => "measure_coverage" \notin DOMAIN mem.evid)
    BY DEF EvidenceInv, Phase, Repairs
  <1>2. new.verdict = "none" /\ new.node.phase = Successor(Phase, o) /\ new.evid = mem.evid
    BY DEF Answered, Verifiers, Repairs
  <1>3. CASE Phase \in Repairs
    <2>1. o = "passed"
      BY <1>3, PossibleAnswers
    <2>2. new.node.phase \in {"verify_compile", "verify_tests"}
      BY <1>2, <1>3, <2>1, AfterRepair
    <2> QED
      BY <1>1, <1>2, <2>2, LoopEvidence
  <1>4. CASE Phase = "review_equivalent_mutants"
    <2>1. o = "failed"
      BY <1>4, PossibleAnswers
    <2>2. new.node.phase = "complete_generation"
      BY <1>2, <1>4, <2>1, AfterVerification
    <2>3. CASE flow = "java_delegated"
      <3>1. Said(mem.evid, "measure_coverage") = "none"
        BY <1>1, <2>3 DEF Said
      <3> QED
        BY <1>1, <1>2, <2>2, <3>1, NotPassed, FailEvidence
    <2>4. CASE flow # "java_delegated"
      <3>1. Said(mem.evid, "measure_mutation") = "review_equivalence"
        BY <1>4, <2>4 DEF EvidenceInv, Phase
      <3> QED
        BY <1>1, <1>2, <2>2, <2>4, <3>1, NotPassed, FailEvidence
    <2> QED
      BY <2>3, <2>4
  <1> QED
    BY <1>3, <1>4

\* A PASS is the one the evidence gives.
LEMMA CompletionEvidence ==
  ASSUME EvidenceInv(mem), NEW new, NEW o \in Possible(Phase), Answered(new, o),
         Phase = "complete_generation", o = "PASS" => CompleteGeneration(mem.evid) = "PASS"
  PROVE  EvidenceInv(new)
  <1>1. new.verdict = o /\ new.node.phase = "complete_generation" /\ new.evid = mem.evid
    BY DEF Answered, Verifiers
  <1>2. /\ flow = "java_delegated" => "measure_coverage" \notin DOMAIN mem.evid
        /\ CompleteGeneration(mem.evid) = "PASS"
             => \A q \in VerdictPhases(mem.evid) : CurrentIn(mem, q)
    BY DEF EvidenceInv, Phase
  <1>3. \A q : CurrentIn(mem, q) <=> CurrentIn(new, q)
    BY <1>1 DEF CurrentIn
  <1> QED
    BY <1>1, <1>2, <1>3 DEF EvidenceInv, Preparation, Repairs

LEMMA AnsweredEvidence ==
  ASSUME TypeOK, EvidenceInv(mem), Phase \in Phases, NEW new, NEW o \in Possible(Phase),
         Answered(new, o),
         Phase = "complete_generation" /\ o = "PASS" => CompleteGeneration(mem.evid) = "PASS"
  PROVE  EvidenceInv(new)
  <1>1. CASE Phase \in {"precheck_existing_tests", "plan_tests", "generate_tests"}
    BY <1>1, PrecheckEvidence, PreparationEvidence
  <1>2. CASE Phase \in {"verify_compile", "verify_tests", "measure_coverage", "measure_mutation"}
    BY <1>2, CompileEvidence, TestsEvidence, CoverageEvidence, MutationEvidence
  <1>3. CASE Phase = "delegated_quality_gate_verify"
    BY <1>3, SkippedGateEvidence, DelegatedGateEvidence
  <1>4. CASE Phase \in Repairs \cup {"review_equivalent_mutants"}
    BY <1>4, RepairEvidence
  <1>5. CASE Phase = "complete_generation"
    BY <1>5, CompletionEvidence
  <1> QED
    BY <1>1, <1>2, <1>3, <1>4, <1>5 DEF Phases, ModelPhases, ToolPhases, Verifiers

-----------------------------------------------------------------------------
(* A verdict and the files it was taken from.                              *)

PassInv == LedgerInv /\ AnswerInv /\ EvidenceInv(mem) /\ EvidenceInv(prior)

\* What the invariants say of a graph state depends on the unit's flow and on
\* the workspace only.
LEMMA PossibleFrame ==
  ASSUME flow' = flow
  PROVE  \A p : Possible(p)' = Possible(p)
  BY DEF Possible, Precheck

LEMMA VerdictFrame ==
  ASSUME flow' = flow, mem'.evid = mem.evid
  PROVE  CompleteGeneration(mem.evid)' = CompleteGeneration(mem.evid)
  BY DEF CompleteGeneration, VerdictPhases, Said

LEMMA MemFrame ==
  ASSUME UNCHANGED <<flow, ws>>, EvidenceInv(mem')
  PROVE  EvidenceInv(mem)'
  BY DEF EvidenceInv, CompleteGeneration, VerdictPhases, Said, Undecided, CurrentIn

LEMMA PriorFrame ==
  ASSUME UNCHANGED <<flow, ws>>, EvidenceInv(prior')
  PROVE  EvidenceInv(prior)'
  BY DEF EvidenceInv, CompleteGeneration, VerdictPhases, Said, Undecided, CurrentIn

\* Where a turn may edit, nothing is known of the workspace.
LEMMA EditFrame ==
  ASSUME UNCHANGED <<flow, mem, prior>>, EvidenceInv(mem), EvidenceInv(prior),
         Phase \in ModelPhases, prior.node.phase = Phase
  PROVE  EvidenceInv(mem)' /\ EvidenceInv(prior)'
  BY DEF EvidenceInv, CompleteGeneration, VerdictPhases, Said, Undecided, ModelPhases, Repairs, Phase

\* A graph state with the phase, the evidence and the verdict of another.
LEMMA SameEvidence ==
  ASSUME NEW g, NEW h, EvidenceInv(g), h.evid = g.evid, h.node.phase = g.node.phase,
         h.verdict \in {g.verdict, "terminated"}
  PROVE  EvidenceInv(h)
  BY DEF EvidenceInv, CurrentIn

LEMMA OutsideKeepsPass ==
  ASSUME PassInv, LedgerInv', UNCHANGED <<flow, ws, rows, arts, mem, prior>>,
         stage' \in {"enter", stage}, stage' # "enter" => draft' = draft
  PROVE  PassInv'
  <1>1. EvidenceInv(mem)' /\ EvidenceInv(prior)'
    BY MemFrame, PriorFrame DEF PassInv
  <1>2. /\ \A p : Possible(p)' = Possible(p)
        /\ CompleteGeneration(mem.evid)' = CompleteGeneration(mem.evid)
    BY PossibleFrame, VerdictFrame
  <1>3. AnswerInv'
    BY <1>2 DEF PassInv, AnswerInv, Phase
  <1> QED
    BY <1>1, <1>3 DEF PassInv

LEMMA WorkKeepsPass ==
  ASSUME PassInv, LedgerInv', mem.node.at = "work",
         UNCHANGED <<flow, rows, arts, mem, prior>>, ws' = ws \/ Phase \in ModelPhases,
         stage' \in {"turning", "edited", "worked"},
         stage' = "worked" /\ mem.node.step # "turn"
           => /\ draft'.outcome \in Possible(Phase)
              /\ Phase = "complete_generation" => draft'.outcome = CompleteGeneration(mem.evid)
  PROVE  PassInv'
  <1>1. EvidenceInv(mem)' /\ EvidenceInv(prior)'
    <2>1. CASE ws' = ws
      BY <2>1, MemFrame, PriorFrame DEF PassInv
    <2>2. CASE Phase \in ModelPhases
      <3>1. prior.node.phase = Phase
        BY DEF PassInv, LedgerInv, WorkInv, Phase
      <3> QED
        BY <2>2, <3>1, EditFrame DEF PassInv
    <2> QED
      BY <2>1, <2>2
  <1>2. /\ \A p : Possible(p)' = Possible(p)
        /\ CompleteGeneration(mem.evid)' = CompleteGeneration(mem.evid)
    BY PossibleFrame, VerdictFrame
  <1>3. mem.node.step = "turn" => Phase # "complete_generation"
    BY NodeTyped DEF PassInv, ToolPhases
  <1>4. AnswerInv'
    BY <1>2, <1>3 DEF PassInv, AnswerInv, Phase
  <1> QED
    BY <1>1, <1>4 DEF PassInv

\* Steps that move the graph on.
LEMMA MoveKeepsPass ==
  ASSUME PassInv, LedgerInv', UNCHANGED <<flow, ws, arts>>, DOMAIN rows' = DOMAIN rows,
         stage' = "enter", prior' = mem, EvidenceInv(mem'),
         Phase = "complete_generation" => mem'.node.phase = Phase /\ mem'.evid = mem.evid
  PROVE  PassInv'
  <1>1. EvidenceInv(mem)' /\ EvidenceInv(prior)'
    BY MemFrame, PriorFrame DEF PassInv
  <1>2. \A p : Possible(p)' = Possible(p)
    BY PossibleFrame
  <1>3. ASSUME NEW o \in DOMAIN rows', o[1] = "complete_generation"
        PROVE  /\ Phase' = "complete_generation" /\ prior'.node.phase = "complete_generation"
               /\ prior'.evid = mem'.evid
               /\ o \in DOMAIN arts' /\ arts'[o].outcome = "PASS" => CompleteGeneration(mem.evid)' = "PASS"
    <2>1. /\ Phase = "complete_generation"
          /\ o \in DOMAIN arts /\ arts[o].outcome = "PASS" => CompleteGeneration(mem.evid) = "PASS"
      BY <1>3 DEF PassInv, AnswerInv
    <2>2. CompleteGeneration(mem.evid)' = CompleteGeneration(mem.evid)
      BY <2>1, VerdictFrame
    <2> QED
      BY <2>1, <2>2 DEF Phase
  <1>4. AnswerInv'
    BY <1>2, <1>3 DEF PassInv, AnswerInv
  <1> QED
    BY <1>1, <1>4 DEF PassInv

\* A recorded or restored result.
LEMMA ProjectedEvidence ==
  ASSUME PassInv, mem.node.at \in {"work", "rehydrate"}, NEW env \in Envelopes, env.fp = ws,
         mem.node.step # "turn" => env.outcome \in Possible(Phase),
         Phase = "complete_generation" /\ env.outcome = "PASS" => CompleteGeneration(mem.evid) = "PASS"
  PROVE  LET new == Projected(Phase, mem.node.step, env)
         IN  /\ EvidenceInv(new)
             /\ Phase = "complete_generation" => new.node.phase = Phase /\ new.evid = mem.evid
  <1> DEFINE new == Projected(Phase, mem.node.step, env)
  <1>1. /\ GraphOK(mem) /\ TypeOK /\ mem.verdict = "none" /\ EvidenceInv(mem)
    BY DEF PassInv, LedgerInv, TypeOK, WorkInv, Reconciled
  <1>2. Phase \in Phases /\ (mem.node.step = "turn" => Phase # "complete_generation")
    BY NodeTyped DEF PassInv, ToolPhases
  <1>3. CASE mem.node.step = "turn"
    <2>1. /\ new.evid = mem.evid /\ new.verdict = "none"
          /\ new.node = IF env.status = "cancelled" THEN Node(Phase, "turn", "pause")
                        ELSE Node(Phase, "interpret", "reconcile")
      BY <1>1, <1>3, ProjectedGraph
    <2> HIDE DEF new
    <2>2. new.node.phase = mem.node.phase
      BY <2>1 DEF Node, Phase
    <2>3. EvidenceInv(new)
      BY <1>1, <2>1, <2>2, SameEvidence
    <2> QED
      BY <1>2, <1>3, <2>3 DEF new
  <1>4. CASE mem.node.step # "turn"
    <2>1. /\ new.evid = IF Phase \in Verifiers \cup {"precheck_existing_tests"}
                        THEN Put(mem.evid, Phase, [fp |-> env.fp, outcome |-> env.outcome])
                        ELSE mem.evid
          /\ IF Phase = "complete_generation"
             THEN new.node = Node(Phase, mem.node.step, "end") /\ new.verdict = env.outcome
             ELSE new.node = Enter(Successor(Phase, env.outcome)) /\ new.verdict = "none"
      BY <1>1, <1>4, ProjectedGraph
    <2> HIDE DEF new
    <2>2. Enter(Successor(Phase, env.outcome)).phase = Successor(Phase, env.outcome)
      BY SuccessorTyped, EnterTyped
    <2>3. Node(Phase, mem.node.step, "end").phase = Phase
      BY DEF Node
    <2>4. Answered(new, env.outcome)
      BY <2>1, <2>2, <2>3 DEF Answered
    <2>5. EvidenceInv(new)
      BY <1>1, <1>2, <1>4, <2>4, AnsweredEvidence
    <2>6. Phase = "complete_generation" => new.node.phase = Phase /\ new.evid = mem.evid
      BY <2>4 DEF Answered, Verifiers
    <2> QED
      BY <2>5, <2>6 DEF new
  <1> QED
    BY <1>3, <1>4

LEMMA TurnKeepsPass ==
  ASSUME PassInv, LedgerInv', TurnBegin \/ TurnRefused \/ TurnEdit \/ TurnEnd
  PROVE  PassInv'
  <1>0. mem.node.step = "turn" => Phase \in ModelPhases
    BY NodeTyped DEF PassInv
  <1>1. CASE TurnBegin
    <2>1. CASE Raise
      BY <1>1, <2>1, OutsideKeepsPass DEF TurnBegin, Raise, graph, ledger
    <2>2. CASE stage' = "turning" /\ UNCHANGED <<graph, run>>
      BY <1>0, <1>1, <2>2, WorkKeepsPass DEF TurnBegin, At, graph, ledger
    <2> QED
      BY <1>1, <2>1, <2>2 DEF TurnBegin
  <1>2. CASE TurnRefused
    BY <1>2, OutsideKeepsPass DEF TurnRefused, Raise, graph, ledger
  <1>3. CASE TurnEdit
    BY <1>0, <1>3, WorkKeepsPass DEF TurnEdit, At, graph, ledger
  <1>4. CASE TurnEnd
    BY <1>0, <1>4, WorkKeepsPass DEF TurnEnd, At, graph, ledger
  <1> QED
    BY <1>1, <1>2, <1>3, <1>4

LEMMA RejectedKeepsPass ==
  ASSUME PassInv, LedgerInv', TurnRejected
  PROVE  PassInv'
  <1>1. /\ UNCHANGED <<flow, ws, arts, mem, prior>> /\ stage' = "enter"
        /\ DOMAIN rows' = DOMAIN rows
    BY DEF TurnRejected, Raise, graph
  <1>2. EvidenceInv(mem)' /\ EvidenceInv(prior)'
    BY <1>1, MemFrame, PriorFrame DEF PassInv
  <1>3. /\ \A p : Possible(p)' = Possible(p)
        /\ CompleteGeneration(mem.evid)' = CompleteGeneration(mem.evid)
    BY <1>1, PossibleFrame, VerdictFrame
  <1>4. AnswerInv'
    BY <1>1, <1>3 DEF PassInv, AnswerInv, Phase
  <1> QED
    BY <1>2, <1>4 DEF PassInv

LEMMA PhaseKeepsPass ==
  ASSUME PassInv, LedgerInv', Interpret \/ RunPhase
  PROVE  PassInv'
  <1>0. TypeOK /\ ws \in Contents /\ Allowed \subseteq Contents
    BY ContentsAssumption DEF PassInv, LedgerInv, TypeOK
  <1>1. CASE Interpret
    <2>1. Phase \in ModelPhases
      BY <1>1, NodeTyped DEF Interpret, At, PassInv
    <2>2. PICK a \in InterpretAnswers(Phase) : draft' = Produced(a) /\ ws' \in Contents
      BY <1>0, <1>1 DEF Interpret
    <2>3. a \in AnswerType /\ a.outcome \in Possible(Phase)
      BY <1>0, <2>1, InterpretAnswered
    <2>4. draft'.outcome = a.outcome
      BY <2>2, <2>3, ProducedEnvelope
    <2>5. Phase # "complete_generation"
      BY <2>1 DEF ModelPhases, Repairs
    <2> QED
      BY <1>1, <2>1, <2>3, <2>4, <2>5, WorkKeepsPass DEF Interpret, At, graph, ledger
  <1>2. CASE RunPhase
    <2>1. Phase \in ToolPhases
      BY <1>2, NodeTyped DEF RunPhase, At, PassInv
    <2>2. PICK a \in ToolAnswers(Phase) : draft' = Produced(a)
      BY <1>2 DEF RunPhase
    <2>3. /\ a \in AnswerType /\ a.outcome \in Possible(Phase)
          /\ Phase = "complete_generation" => a.outcome = CompleteGeneration(mem.evid)
      BY <1>0, <2>1, <2>2, ToolAnswered
    <2>4. ws' \in Contents
      BY <1>0, <1>2 DEF RunPhase
    <2>5. draft'.outcome = a.outcome
      BY <2>2, <2>3, <2>4, ProducedEnvelope
    <2> QED
      BY <1>2, <2>3, <2>5, WorkKeepsPass DEF RunPhase, At, graph, ledger
  <1> QED
    BY <1>1, <1>2

LEMMA StoreKeepsPass ==
  ASSUME PassInv, LedgerInv', Store
  PROVE  PassInv'
  <1>1. /\ mem.node.at = "work" /\ stage = "worked"
        /\ mem.op[1] = Phase /\ mem.op[2] = mem.node.step
    BY DEF Store, PassInv, LedgerInv, WorkInv, Reconciled, Phase
  <1>2. CASE arts' = Put(arts, mem.op, draft) /\ stage' = "stored" /\ UNCHANGED <<graph, run, draft>>
    <2>1. UNCHANGED <<flow, ws, rows, mem, prior, draft>>
      BY <1>2 DEF Store, graph
    <2>2. EvidenceInv(mem)' /\ EvidenceInv(prior)'
      BY <2>1, MemFrame, PriorFrame DEF PassInv
    <2>3. /\ \A p : Possible(p)' = Possible(p)
          /\ CompleteGeneration(mem.evid)' = CompleteGeneration(mem.evid)
      BY <2>1, PossibleFrame, VerdictFrame
    <2>4. /\ DOMAIN arts' = DOMAIN arts \cup {mem.op}
          /\ \A o \in DOMAIN arts' : arts'[o] = IF o = mem.op THEN draft ELSE arts[o]
      BY <1>2 DEF Put
    <2>5. AnswerInv'
      <3>1. /\ mem.node.step # "turn" => draft.outcome \in Possible(Phase)
            /\ Phase = "complete_generation" /\ draft.outcome = "PASS"
                 => CompleteGeneration(mem.evid) = "PASS"
        BY <1>1 DEF PassInv, AnswerInv
      <3>2. ASSUME NEW o \in DOMAIN arts', o[2] # "turn" PROVE arts'[o].outcome \in Possible(o[1])
        BY <1>1, <2>4, <3>1, <3>2 DEF PassInv, AnswerInv
      <3>3. ASSUME NEW o \in DOMAIN rows, o[1] = "complete_generation"
            PROVE  /\ Phase = "complete_generation" /\ prior.node.phase = "complete_generation"
                   /\ prior.evid = mem.evid
                   /\ o \in DOMAIN arts' /\ arts'[o].outcome = "PASS"
                        => CompleteGeneration(mem.evid) = "PASS"
        BY <2>4, <3>1, <3>3 DEF PassInv, AnswerInv
      <3> QED
        BY <1>2, <2>1, <2>3, <3>1, <3>2, <3>3 DEF AnswerInv, Phase
    <2> QED
      BY <2>2, <2>5 DEF PassInv
  <1>3. CASE arts' = arts /\ Raise
    BY <1>3, OutsideKeepsPass DEF Store, Raise, graph
  <1> QED
    BY <1>2, <1>3 DEF Store

LEMMA RecordKeepsPass ==
  ASSUME PassInv, LedgerInv', Record
  PROVE  PassInv'
  <1>1. CASE /\ rows' = [rows EXCEPT ![mem.op].status = FinalStatus(draft)]
             /\ Return(Projected(Phase, mem.node.step, draft))
             /\ stage' = "enter"
    <2> DEFINE new == Projected(Phase, mem.node.step, draft)
    <2>1. mem.node.at = "work" /\ stage = "stored" /\ draft \in Envelopes /\ draft.fp = ws
      BY DEF Record, PassInv, LedgerInv, WorkInv, TypeOK
    <2>2. /\ mem.node.step # "turn" => draft.outcome \in Possible(Phase)
          /\ Phase = "complete_generation" /\ draft.outcome = "PASS"
               => CompleteGeneration(mem.evid) = "PASS"
      BY <2>1 DEF PassInv, AnswerInv
    <2>3. /\ EvidenceInv(new)
          /\ Phase = "complete_generation" => new.node.phase = Phase /\ new.evid = mem.evid
      BY <2>1, <2>2, ProjectedEvidence
    <2>4. mem' = new /\ prior' = mem /\ DOMAIN rows' = DOMAIN rows
      BY <1>1 DEF Return
    <2> HIDE DEF new
    <2> QED
      BY <1>1, <2>3, <2>4, MoveKeepsPass DEF Record
  <1>2. CASE rows' = rows /\ Raise
    BY <1>2, OutsideKeepsPass DEF Record, Raise, graph
  <1> QED
    BY <1>1, <1>2 DEF Record

LEMMA RouteKeepsPass ==
  ASSUME PassInv, LedgerInv', Rehydrate \/ Pause \/ Terminate
  PROVE  PassInv'
  <1>0. /\ mem.node.at # "work" => stage = "enter"
        /\ mem.node.at = "rehydrate"
             => /\ mem.op \in DOMAIN arts /\ arts[mem.op].fp = ws /\ mem.op \in DOMAIN rows
                /\ arts[mem.op] \in Envelopes
                /\ mem.op[1] = Phase /\ mem.op[2] = mem.node.step
        /\ mem = [node |-> mem.node, op |-> mem.op, att |-> mem.att, streak |-> mem.streak,
                  seen |-> mem.seen, turn |-> mem.turn, evid |-> mem.evid, verdict |-> mem.verdict]
    BY DEF PassInv, LedgerInv, WorkInv, Reconciled, TypeOK, GraphOK, Phase
  <1>1. CASE Rehydrate
    <2> DEFINE new == Projected(Phase, mem.node.step, arts[mem.op])
    <2>1. mem.node.at = "rehydrate" /\ mem' = new /\ prior' = mem
      BY <1>0, <1>1 DEF Rehydrate, Return
    <2>2. /\ mem.node.step # "turn" => arts[mem.op].outcome \in Possible(Phase)
          /\ Phase = "complete_generation" /\ arts[mem.op].outcome = "PASS"
               => CompleteGeneration(mem.evid) = "PASS"
      BY <1>0, <2>1 DEF PassInv, AnswerInv
    <2>3. /\ EvidenceInv(new)
          /\ Phase = "complete_generation" => new.node.phase = Phase /\ new.evid = mem.evid
      BY <1>0, <2>1, <2>2, ProjectedEvidence
    <2> HIDE DEF new
    <2> QED
      BY <1>0, <1>1, <2>1, <2>3, MoveKeepsPass DEF Rehydrate, ledger
  <1>2. CASE Pause
    <2>1. CASE Raise
      BY <1>2, <2>1, OutsideKeepsPass DEF Pause, Raise, graph, ledger
    <2>2. CASE Return([mem EXCEPT !.node = Enter(Phase)]) /\ UNCHANGED <<stage, draft, run>>
      <3>1. mem' = [mem EXCEPT !.node = Enter(Phase)] /\ prior' = mem /\ mem.node.at = "pause"
        BY <1>2, <2>2 DEF Return, Pause
      <3>2. Enter(Phase).phase = Phase
        BY NodeTyped, EnterTyped DEF PassInv
      <3>3. mem'.node = Enter(Phase) /\ mem'.evid = mem.evid /\ mem'.verdict = mem.verdict
        BY <1>0, <3>1
      <3>4. mem'.node.phase = mem.node.phase
        BY <3>2, <3>3 DEF Phase
      <3>5. EvidenceInv(mem')
        BY <3>3, <3>4, SameEvidence DEF PassInv
      <3> QED
        BY <1>0, <1>2, <2>2, <3>1, <3>3, <3>4, <3>5, MoveKeepsPass DEF Pause, ledger, Phase
    <2> QED
      BY <1>2, <2>1, <2>2 DEF Pause
  <1>3. CASE Terminate
    <2>1. /\ mem' = [mem EXCEPT !.verdict = "terminated", !.node.at = "end"] /\ prior' = mem
          /\ mem.node.at = "terminate"
      BY <1>3 DEF Terminate, Return
    <2>2. /\ mem'.node = [mem.node EXCEPT !.at = "end"]
          /\ mem'.evid = mem.evid /\ mem'.verdict = "terminated"
      BY <1>0, <2>1
    <2>3. mem'.node.phase = mem.node.phase
      BY <2>2, NodeTyped DEF PassInv, Nodes
    <2>4. EvidenceInv(mem')
      BY <2>2, <2>3, SameEvidence DEF PassInv
    <2> QED
      BY <1>0, <1>3, <2>1, <2>2, <2>3, <2>4, MoveKeepsPass DEF Terminate, ledger, Phase
  <1> QED
    BY <1>1, <1>2, <1>3

\* A reconciliation judges the edit an interruption left behind only in the
\* phases that edit, and never leaves the completion.
LEMMA ReconcileKeepsPass ==
  ASSUME PassInv, LedgerInv', Reconcile
  PROVE  PassInv'
  <1> DEFINE step == mem.node.step
             d == Classify(Phase, step)
  <1>1. /\ mem.node.at = "reconcile" /\ Phase \in Phases
        /\ Promised(d, Phase, step) /\ Reconciliation(d)
        /\ mem'.node = AfterDecision(Phase, step, d.outcome)
        /\ mem'.evid = mem.evid /\ mem'.verdict = mem.verdict
    BY ReconcileFacts DEF PassInv
  <1>2. /\ step \in Steps /\ (step = "deterministic" <=> Phase \in ToolPhases)
        /\ mem.verdict = "none" /\ stage = "enter"
    BY <1>1, NodeTyped DEF PassInv, LedgerInv, WorkInv, Reconciled
  <1> HIDE DEF d
  <1>3. /\ UNCHANGED <<flow, ws, stage>> /\ prior' = mem
        /\ DOMAIN rows' \subseteq DOMAIN rows \cup {d.op} /\ d.op[1] = Phase
        /\ DOMAIN arts' \subseteq DOMAIN arts
        /\ \A o \in DOMAIN arts' : arts'[o] = arts[o]
    <2>1. UNCHANGED <<flow, ws, stage>>
      BY DEF Reconcile
    <2>2. /\ DOMAIN d.rows \subseteq DOMAIN rows \cup {d.op} /\ d.op[1] = Phase
      BY <1>1 DEF Promised, Kept
    <2>3. DOMAIN Kept(arts) \subseteq DOMAIN arts /\ \A o \in DOMAIN Kept(arts) : Kept(arts)[o] = arts[o]
      BY DEF Kept
    <2> QED
      BY <1>1, <2>1, <2>2, <2>3 DEF Reconciliation
  <1>4. \/ mem'.node.phase = Phase
        \/ Phase \in Repairs \cup {"generate_tests"} /\ mem'.node.phase \in {"verify_compile", "verify_tests"}
    BY <1>1, <1>2, AfterDecisionNode, EnterTyped DEF Node, Phases, ToolPhases, Verifiers
  <1>5. EvidenceInv(mem')
    <2>1. CASE mem'.node.phase = Phase
      BY <1>1, <2>1, SameEvidence DEF PassInv, Phase
    <2>2. CASE /\ Phase \in Repairs \cup {"generate_tests"}
               /\ mem'.node.phase \in {"verify_compile", "verify_tests"}
      <3>1. Undecided(mem.evid) /\ (flow = "java_delegated" => "measure_coverage" \notin DOMAIN mem.evid)
        BY <2>2 DEF PassInv, EvidenceInv, Phase, Repairs
      <3> QED
        BY <1>1, <1>2, <2>2, <3>1, LoopEvidence
    <2> QED
      BY <1>4, <2>1, <2>2
  <1>6. EvidenceInv(mem)' /\ EvidenceInv(prior)'
    BY <1>3, <1>5, MemFrame, PriorFrame DEF PassInv
  <1>7. /\ \A p : Possible(p)' = Possible(p)
        /\ CompleteGeneration(mem.evid)' = CompleteGeneration(mem.evid)
    BY <1>1, <1>3, PossibleFrame, VerdictFrame
  <1>8. Phase = "complete_generation" => Phase' = "complete_generation"
    BY <1>4 DEF Phase, Repairs
  <1>9. ASSUME NEW o \in DOMAIN rows', o[1] = "complete_generation"
        PROVE  /\ Phase = "complete_generation"
               /\ o \in DOMAIN arts' /\ arts'[o].outcome = "PASS" => CompleteGeneration(mem.evid) = "PASS"
    <2>1. DOMAIN arts \subseteq DOMAIN rows
      BY DEF PassInv, LedgerInv, WorkInv
    <2>2. CASE o \in DOMAIN rows
      BY <1>3, <1>9, <2>2 DEF PassInv, AnswerInv
    <2>3. CASE o \notin DOMAIN rows
      BY <1>3, <1>9, <2>1, <2>3
    <2> QED
      BY <2>2, <2>3
  <1>10. AnswerInv'
    <2>1. ASSUME NEW o \in DOMAIN arts', o[2] # "turn" PROVE arts'[o].outcome \in Possible(o[1])
      BY <1>3, <2>1 DEF PassInv, AnswerInv
    <2>2. stage' = "enter" /\ prior' = mem /\ mem'.evid = mem.evid
      BY <1>1, <1>2, <1>3
    <2> QED
      BY <1>7, <1>8, <1>9, <2>1, <2>2 DEF AnswerInv, Phase
  <1> QED
    BY <1>6, <1>10 DEF PassInv

LEMMA AroundKeepsPass ==
  ASSUME PassInv, LedgerInv', Begin \/ Finish \/ ReusedUnit \/ Deliver \/ RequestStop \/ Crash
  PROVE  PassInv'
  <1>1. CASE Begin \/ Finish \/ ReusedUnit \/ Deliver \/ RequestStop
    BY <1>1, OutsideKeepsPass DEF Begin, Finish, ReusedUnit, Deliver, RequestStop, ledger, graph
  <1>2. CASE Crash
    <2>1. /\ UNCHANGED <<flow, ws, rows, arts>>
          /\ mem' \in {mem, prior} /\ prior' = mem' /\ stage' = "enter"
      BY <1>2 DEF Crash, ledger
    <2>2. EvidenceInv(mem)' /\ EvidenceInv(prior)'
      BY <2>1, MemFrame, PriorFrame DEF PassInv
    <2>3. \A p : Possible(p)' = Possible(p)
      BY <2>1, PossibleFrame
    <2>4. ASSUME NEW o \in DOMAIN rows, o[1] = "complete_generation"
          PROVE  /\ Phase' = "complete_generation" /\ mem'.evid = mem.evid
                 /\ o \in DOMAIN arts /\ arts[o].outcome = "PASS"
                      => CompleteGeneration(mem.evid)' = "PASS"
      <3>1. /\ Phase = "complete_generation" /\ prior.node.phase = "complete_generation"
            /\ prior.evid = mem.evid
            /\ o \in DOMAIN arts /\ arts[o].outcome = "PASS" => CompleteGeneration(mem.evid) = "PASS"
        BY <2>4 DEF PassInv, AnswerInv
      <3>2. mem'.evid = mem.evid
        BY <2>1, <3>1
      <3>3. CompleteGeneration(mem.evid)' = CompleteGeneration(mem.evid)
        BY <2>1, <3>2, VerdictFrame
      <3> QED
        BY <2>1, <3>1, <3>2, <3>3 DEF Phase
    <2>5. AnswerInv'
      BY <2>1, <2>3, <2>4 DEF PassInv, AnswerInv, Phase
    <2> QED
      BY <2>2, <2>5 DEF PassInv
  <1> QED
    BY <1>1, <1>2

LEMMA InitPass == Init => PassInv
  <1> SUFFICES ASSUME Init PROVE PassInv
    OBVIOUS
  <1>1. LedgerInv
    BY InitLedger
  <1>2. mem = Start /\ prior = Start /\ DOMAIN rows = {} /\ DOMAIN arts = {} /\ stage = "enter"
    BY DEF Init
  <1>3. /\ Start.node.phase = "precheck_existing_tests" /\ Start.verdict = "none"
        /\ DOMAIN Start.evid = {}
    <2>1. Enter("precheck_existing_tests").phase = "precheck_existing_tests"
      BY EnterTyped DEF Phases, ToolPhases
    <2> QED
      BY <2>1 DEF Start, NoEvidence
  <1>4. \A p : Said(Start.evid, p) = "none"
    BY <1>3 DEF Said
  <1>5. Undecided(Start.evid)
    BY <1>4 DEF Undecided
  <1>6. EvidenceInv(Start)
    BY <1>3, <1>4, <1>5 DEF EvidenceInv
  <1>7. AnswerInv
    BY <1>2 DEF AnswerInv
  <1> QED
    BY <1>1, <1>2, <1>6, <1>7 DEF PassInv

LEMMA NextPass == PassInv /\ [Next]_vars => PassInv'
  <1> SUFFICES ASSUME PassInv, [Next]_vars PROVE PassInv'
    OBVIOUS
  <1>1. LedgerInv'
    BY NextLedger DEF PassInv
  <1>2. CASE UNCHANGED vars
    BY <1>1, <1>2, OutsideKeepsPass DEF vars
  <1>3. CASE Next
    BY <1>1, <1>3, ReconcileKeepsPass, RouteKeepsPass, TurnKeepsPass, RejectedKeepsPass,
       PhaseKeepsPass, StoreKeepsPass, RecordKeepsPass, AroundKeepsPass DEF Next, Step
  <1> QED
    BY <1>2, <1>3

\* A unit that returns PASS was judged on the files it returns, for any
\* workspace contents, budgets, crashes, stops and replays: the evidence
\* complete_generation reads was measured after the last edit, and an edit
\* left by an interruption leads back to a verification.
THEOREM ThePassIsCurrent == Spec => []PassIsCurrent
  <1>1. PassInv => PassIsCurrent
    BY DEF PassInv, EvidenceInv, CurrentIn, PassIsCurrent
  <1> QED
    BY InitPass, NextPass, <1>1, PTL DEF Spec

-----------------------------------------------------------------------------
(* A unit that is neither interrupted nor stopped.                         *)

LEMMA PlaceOf ==
  /\ Place("precheck_existing_tests") = 0 /\ Place("plan_tests") = 1
  /\ Place("generate_tests") = 2 /\ Place("verify_compile") = 3
  /\ Place("verify_tests") = 4 /\ Place("measure_coverage") = 5
  /\ Place("measure_mutation") = 6 /\ Place("delegated_quality_gate_verify") = 7
  /\ Place("review_equivalent_mutants") = 8 /\ Place("complete_generation") = 9
  /\ \A p \in Repairs : Place(p) = 8
  BY DEF Place, Repairs

LEMMA PlaceTyped ==
  ASSUME NEW p \in Phases
  PROVE  Place(p) \in Nat /\ (Place(p) < 3 => p \notin Verifiers)
         /\ (Place(p) < 8 /\ p \notin Verifiers => Place(p) < 3)
  BY PlaceOf DEF Phases, ModelPhases, ToolPhases, Verifiers, Repairs

\* Outside the repairs a phase that does not ask again leads onward.
LEMMA Onward ==
  ASSUME TypeOK, NEW p \in Phases \ (Repairs \cup {"complete_generation"}), NEW o \in Possible(p),
         o # "retry"
  PROVE  Place(p) < Place(Successor(p, o))
  <1>0. flow \in {"java", "java_delegated", "python"}
    BY FlowsAssumption DEF TypeOK
  <1>1. CASE p = "precheck_existing_tests"
    <2>1. o \in {"proceed", "plan_skipped", "existing_repair", "delegated_repair",
                 "skip_target", "failed"}
      BY <1>0, <1>1, PossibleAnswers DEF Precheck
    <2> QED
      BY <1>1, <2>1, AfterPrecheck, PlaceOf
  <1>2. CASE p \in {"plan_tests", "generate_tests"}
    <2>1. o \in {"passed", "failed", "exhausted"}
      BY <1>2, PossibleAnswers
    <2> QED
      BY <1>2, <2>1, AfterPreparation, PlaceOf
  <1>3. CASE p = "verify_compile"
    <2>1. o \in {"passed", "repair", "failed"}
      BY <1>3, PossibleAnswers
    <2> QED
      BY <1>3, <2>1, AfterVerification, PlaceOf DEF Verifiers, Repairs
  <1>4. CASE p = "verify_tests"
    <2>1. o \in {"passed", "delegated", "repair", "failed"}
      BY <1>4, PossibleAnswers
    <2> QED
      BY <1>4, <2>1, AfterVerification, PlaceOf DEF Verifiers, Repairs
  <1>5. CASE p = "measure_coverage"
    <2>1. o \in {"passed", "repair", "failed"}
      BY <1>5, PossibleAnswers
    <2> QED
      BY <1>5, <2>1, AfterVerification, PlaceOf DEF Verifiers, Repairs
  <1>6. CASE p = "measure_mutation"
    <2>1. o \in {"passed", "skipped", "repair", "failed", "review_equivalence", "tests_failed"}
      BY <1>6, PossibleAnswers
    <2> QED
      BY <1>6, <2>1, AfterVerification, PlaceOf DEF Verifiers, Repairs
  <1>7. CASE p = "delegated_quality_gate_verify"
    <2>1. o \in {"passed", "repair", "failed", "review_equivalence", "skipped"}
      BY <1>7, PossibleAnswers
    <2> QED
      BY <1>7, <2>1, AfterVerification, PlaceOf DEF Verifiers, Repairs
  <1>8. CASE p = "review_equivalent_mutants"
    <2>1. o = "failed"
      BY <1>8, PossibleAnswers
    <2> QED
      BY <1>8, <2>1, AfterVerification, PlaceOf
  <1> QED
    BY <1>1, <1>2, <1>3, <1>4, <1>5, <1>6, <1>7, <1>8
       DEF Phases, ModelPhases, ToolPhases, Verifiers

\* The attempts after an answer: a retry is a new attempt of its phase, and a
\* repair is a new attempt of itself and of every verification.
LEMMA AttemptsAfter ==
  ASSUME mem.att \in [Counters -> Nat], NEW p \in Phases, NEW o
  PROVE  LET after == AttAfter(p, o)
         IN  /\ p \notin Repairs /\ o # "retry" => after = mem.att
             /\ p \notin Repairs /\ o = "retry"
                  => /\ after[p] = mem.att[p] + 1
                     /\ \A q \in Phases \ {p} : after[q] = mem.att[q]
             /\ p \in Repairs
                  => \A q \in Phases :
                       /\ after[q] >= mem.att[q]
                       /\ q \in Verifiers \cup {p} => after[q] > mem.att[q]
  <1>1. Phases \subseteq Counters /\ p \in Counters /\ \A c \in Counters : mem.att[c] \in Nat
    BY PhaseSets
  <1>2. CASE p \notin Repairs
    BY <1>1, <1>2 DEF AttAfter
  <1>3. CASE p \in Repairs
    <2> DEFINE advanced == AdvanceVerification(mem.att)
               after == [c \in Counters |->
                           advanced[c] +
                           IF c = p \/ (flow = "python" /\ p \in BudgetedRepairs
                                        /\ c = "python_repair_total")
                           THEN 1 ELSE 0]
    <2>1. AttAfter(p, o) = after
      BY <1>3 DEF AttAfter, Repaired, Answer
    <2>2. \A c \in Counters : advanced[c] = IF c \in Verifiers THEN mem.att[c] + 1 ELSE mem.att[c]
      BY DEF AdvanceVerification
    <2> HIDE DEF advanced
    <2>3. \A c \in Counters : /\ after[c] >= mem.att[c]
                              /\ c \in Verifiers \cup {p} => after[c] > mem.att[c]
      BY <1>1, <2>2
    <2> HIDE DEF after
    <2> QED
      BY <1>1, <1>3, <2>1, <2>3
  <1> QED
    BY <1>2, <1>3

\* Steps that leave the graph and the operations of the ledger alone.
LEMMA StillKeepsFresh ==
  ASSUME Fresh, UNCHANGED <<flow, mem>>, DOMAIN rows' = DOMAIN rows, ~stop',
         stage' \in {"worked", "stored"} =>
           IF mem.node.step = "turn" THEN draft'.status # "cancelled"
           ELSE draft'.att = AttAfter(Phase, draft'.outcome)
  PROVE  Fresh'
  <1>1. \A o : Behind(o)' <=> Behind(o)
    BY DEF Behind, Phase, Place
  <1>2. \A p, o : AttAfter(p, o)' = AttAfter(p, o)
    BY DEF AttAfter, Repaired, Answer, AdvanceVerification
  <1> QED
    BY <1>1, <1>2 DEF Fresh, Phase

LEMMA WorkKeepsFresh ==
  ASSUME PassInv, Fresh, TurnBegin \/ TurnEdit \/ TurnRefused \/ TurnEnd \/ TurnRejected
                         \/ Interpret \/ RunPhase \/ Store
  PROVE  Fresh'
  <1>0. ~stop /\ TypeOK /\ ws \in Contents /\ Allowed \subseteq Contents
    BY ContentsAssumption DEF Fresh, PassInv, LedgerInv, TypeOK
  <1>1. CASE TurnBegin \/ TurnEdit \/ TurnRefused
    BY <1>0, <1>1, StillKeepsFresh DEF TurnBegin, TurnEdit, TurnRefused, Raise, ledger, graph
  <1>2. CASE TurnEnd
    <2>1. PICK status \in {"completed", "failed"} :
                 draft' = Envelope(ws, status, "none", mem.att, mem.streak, mem.seen)
      BY <1>0, <1>2 DEF TurnEnd
    <2>2. draft'.status # "cancelled"
      BY <2>1 DEF Envelope
    <2> QED
      BY <1>0, <1>2, <2>2, StillKeepsFresh DEF TurnEnd, At, ledger, graph
  <1>3. CASE TurnRejected
    <2>1. /\ UNCHANGED <<flow, mem>> /\ stage' = "enter" /\ DOMAIN rows' = DOMAIN rows /\ ~stop'
      BY <1>0, <1>3 DEF TurnRejected, Raise, graph
    <2> QED
      BY <2>1, StillKeepsFresh
  <1>4. CASE Interpret
    <2>1. Phase \in ModelPhases
      BY <1>4, NodeTyped DEF Interpret, At, PassInv
    <2>2. PICK a \in InterpretAnswers(Phase) : draft' = Produced(a) /\ ws' \in Contents
      BY <1>0, <1>4 DEF Interpret
    <2>3. a \in AnswerType /\ a.att = AttAfter(Phase, a.outcome)
      BY <1>0, <2>1, InterpretAnswered
    <2>4. draft'.outcome = a.outcome /\ draft'.att = a.att
      BY <2>2, <2>3, ProducedEnvelope
    <2> QED
      BY <1>0, <1>4, <2>3, <2>4, StillKeepsFresh DEF Interpret, At, ledger, graph
  <1>5. CASE RunPhase
    <2>1. Phase \in ToolPhases
      BY <1>5, NodeTyped DEF RunPhase, At, PassInv
    <2>2. PICK a \in ToolAnswers(Phase) : draft' = Produced(a)
      BY <1>5 DEF RunPhase
    <2>3. a \in AnswerType /\ a.att = mem.att /\ a.outcome \in Possible(Phase)
      BY <1>0, <2>1, <2>2, ToolAnswered
    <2>4. ws' \in Contents
      BY <1>0, <1>5 DEF RunPhase
    <2>5. draft'.outcome = a.outcome /\ draft'.att = a.att
      BY <2>2, <2>3, <2>4, ProducedEnvelope
    <2>6. Phase \notin Repairs /\ a.outcome # "retry"
      <3>1. flow \in {"java", "java_delegated", "python"}
        BY <1>0, FlowsAssumption DEF TypeOK
      <3>2. Phase \notin Repairs
        BY <2>1, PhaseSets
      <3> QED
        BY <2>1, <2>3, <3>1, <3>2, PossibleAnswers DEF ToolPhases, Verifiers, Precheck
    <2>7. draft'.att = AttAfter(Phase, draft'.outcome)
      BY <2>3, <2>5, <2>6 DEF AttAfter
    <2> QED
      BY <1>0, <1>5, <2>7, StillKeepsFresh DEF RunPhase, At, ledger, graph
  <1>6. CASE Store
    <2>1. stage = "worked"
      BY <1>6 DEF Store
    <2>2. IF mem.node.step = "turn" THEN draft.status # "cancelled"
          ELSE draft.att = AttAfter(Phase, draft.outcome)
      BY <2>1 DEF Fresh
    <2>3. /\ UNCHANGED <<flow, rows, mem, stop>>
          /\ stage' = "enter" \/ draft' = draft
      BY <1>6 DEF Store, Raise, graph
    <2> QED
      BY <1>0, <2>2, <2>3, StillKeepsFresh
  <1> QED
    BY <1>1, <1>2, <1>3, <1>4, <1>5, <1>6

\* Every operation started so far is behind the node a recorded answer enters.
LEMMA RecordKeepsFresh ==
  ASSUME PassInv, Fresh, Record
  PROVE  Fresh'
  <1>0. /\ ~stop /\ stage = "stored" /\ mem.node.at = "work" /\ TypeOK /\ GraphOK(mem)
        /\ mem.verdict = "none" /\ draft \in Envelopes
        /\ DOMAIN rows \subseteq Ops /\ mem.att \in [Counters -> Nat]
    BY DEF Record, Fresh, PassInv, LedgerInv, WorkInv, Reconciled, TypeOK, GraphOK
  <1>1. Phase \in Phases /\ (mem.node.step = "deterministic" <=> Phase \in ToolPhases)
    BY NodeTyped DEF PassInv
  <1>2. CASE Raise
    BY <1>0, <1>2, StillKeepsFresh DEF Record, Raise, graph
  <1>3. CASE /\ rows' = [rows EXCEPT ![mem.op].status = FinalStatus(draft)]
             /\ Return(Projected(Phase, mem.node.step, draft))
             /\ stage' = "enter"
    <2>1. /\ DOMAIN rows' = DOMAIN rows /\ stage' = "enter" /\ ~stop'
          /\ mem' = Projected(Phase, mem.node.step, draft)
      BY <1>0, <1>3 DEF Record, Return
    <2>2. CASE mem.node.step = "turn"
      <3>1. /\ mem'.att = mem.att /\ mem'.verdict = "none"
            /\ mem'.node = IF draft.status = "cancelled" THEN Node(Phase, "turn", "pause")
                           ELSE Node(Phase, "interpret", "reconcile")
        BY <1>0, <2>1, <2>2, ProjectedGraph
      <3>2. draft.status # "cancelled"
        BY <1>0, <2>2 DEF Fresh
      <3>3. mem'.node.phase = Phase /\ mem'.node.step = "interpret" /\ mem'.node.at = "reconcile"
        BY <3>1, <3>2 DEF Node
      <3>4. \A o : Behind(o) => Behind(o)'
        BY <2>2, <3>3 DEF Behind, Phase, Place
      <3> QED
        BY <2>1, <3>1, <3>3, <3>4 DEF Fresh
    <2>3. CASE mem.node.step # "turn"
      <3> DEFINE next == Successor(Phase, draft.outcome)
      <3>1. /\ mem'.att = draft.att
            /\ IF Phase = "complete_generation"
               THEN mem'.node = Node(Phase, mem.node.step, "end") /\ mem'.verdict = draft.outcome
               ELSE mem'.node = Enter(next) /\ mem'.verdict = "none"
        BY <1>0, <2>1, <2>3, ProjectedGraph
      <3>2. mem'.att = AttAfter(Phase, draft.outcome)
        BY <1>0, <2>3, <3>1 DEF Fresh
      <3>3. draft.outcome \in Possible(Phase)
        BY <1>0, <2>3 DEF PassInv, AnswerInv
      <3>4. ASSUME NEW o \in DOMAIN rows
            PROVE  /\ o[1] \in Phases /\ o[3] \in Nat /\ mem.att[o[1]] \in Nat
                   /\ Place(o[1]) \in Nat /\ Place(Phase) \in Nat
                   /\ o[3] <= mem.att[o[1]]
                   /\ o[3] = mem.att[o[1]] => o[1] = Phase \/ Place(o[1]) < Place(Phase)
        <4>1. o \in Ops /\ Phases \subseteq Counters
          BY <1>0, PhaseSets
        <4>2. o[1] \in Phases /\ o[3] \in Nat
          BY <4>1, OpsAreTuples
        <4> QED
          BY <1>0, <1>1, <4>1, <4>2, PlaceTyped DEF Fresh, Behind
      <3>5. CASE Phase = "complete_generation"
        <4>1. mem'.node.phase = Phase /\ mem'.node.step = mem.node.step /\ mem'.node.at = "end"
          BY <3>1, <3>5 DEF Node
        <4>2. Phase \notin Repairs /\ draft.outcome \in {"PASS", "FAIL"}
          BY <3>3, <3>5, PossibleAnswers DEF Repairs
        <4>3. mem'.att = mem.att /\ mem'.verdict # "terminated"
          BY <1>0, <3>1, <3>2, <3>5, <4>2, <1>1, AttemptsAfter
        <4>4. \A o : Behind(o) => Behind(o)'
          BY <4>1 DEF Behind, Phase, Place
        <4> QED
          BY <2>1, <4>1, <4>3, <4>4 DEF Fresh
      <3>6. CASE Phase # "complete_generation"
        <4> HIDE DEF next
        <4>1. /\ mem'.node.at = "reconcile" /\ mem'.node.phase = next /\ mem'.verdict = "none"
              /\ next \in Phases
          BY <3>1, <3>6, SuccessorTyped, EnterTyped DEF next
        <4>2. ASSUME NEW o \in DOMAIN rows
              PROVE  /\ o[3] <= mem'.att[o[1]]
                     /\ o[3] = mem'.att[o[1]] => Place(o[1]) < Place(next)
          <5>0. Place(next) \in Nat
            BY <4>1, PlaceTyped
          <5>1. CASE Phase \in Repairs
            <6>1. draft.outcome = "passed" /\ next \in {"verify_compile", "verify_tests"}
              BY <3>3, <5>1, PossibleAnswers, AfterRepair DEF next
            <6>2. Place(next) >= 3 /\ Place(Phase) = 8
              BY <5>1, <6>1, PlaceOf
            <6>3. /\ mem'.att[o[1]] >= mem.att[o[1]]
                  /\ o[1] \in Verifiers \cup {Phase} => mem'.att[o[1]] > mem.att[o[1]]
              BY <1>0, <1>1, <3>2, <3>4, <5>1, AttemptsAfter
            <6>4. Place(o[1]) < 8 /\ o[1] \notin Verifiers => Place(o[1]) < 3
              BY <3>4, PlaceTyped
            <6>5. mem'.att[o[1]] \in Nat
              <7>1. mem'.att \in [Counters -> Nat] /\ o[1] \in Counters
                BY <1>0, <3>1, <3>4, PhaseSets DEF Envelopes
              <7> QED
                BY <7>1
            <6> QED
              BY <3>4, <5>0, <6>2, <6>3, <6>4, <6>5
          <5>2. CASE Phase \notin Repairs /\ draft.outcome = "retry"
            <6>1. Phase \in {"plan_tests", "generate_tests"}
              <7>1. flow \in {"java", "java_delegated", "python"}
                BY <1>0, FlowsAssumption DEF TypeOK
              <7> QED
                BY <1>1, <3>3, <5>2, <7>1, PossibleAnswers
                   DEF Phases, ModelPhases, ToolPhases, Verifiers, Precheck
            <6>2. next = Phase
              BY <5>2, <6>1, AfterPreparation DEF next
            <6>3. /\ mem'.att[Phase] = mem.att[Phase] + 1
                  /\ \A q \in Phases \ {Phase} : mem'.att[q] = mem.att[q]
              BY <1>0, <1>1, <3>2, <5>2, AttemptsAfter
            <6> QED
              BY <3>4, <6>2, <6>3
          <5>3. CASE Phase \notin Repairs /\ draft.outcome # "retry"
            <6>1. mem'.att = mem.att
              BY <1>0, <1>1, <3>2, <5>3, AttemptsAfter
            <6>2. Place(Phase) < Place(next)
              BY <1>0, <1>1, <3>3, <3>6, <5>3, Onward DEF next
            <6> QED
              BY <3>4, <5>0, <6>1, <6>2
          <5> QED
            BY <5>1, <5>2, <5>3
        <4>3. \A o : Place(o[1]) < Place(next) => Behind(o)'
          BY <4>1 DEF Behind, Phase, Place
        <4> QED
          BY <2>1, <4>1, <4>2, <4>3 DEF Fresh
      <3> QED
        BY <3>5, <3>6
    <2> QED
      BY <2>2, <2>3
  <1> QED
    BY <1>2, <1>3 DEF Record

\* The operation of a node that is reconciled was never started.
LEMMA ReconcileKeepsFresh ==
  ASSUME PassInv, Fresh, Reconcile
  PROVE  Fresh'
  <1> DEFINE step == mem.node.step
             d == Classify(Phase, step)
  <1>1. /\ mem.node.at = "reconcile" /\ Phase \in Phases
        /\ Promised(d, Phase, step) /\ d.op[3] = mem.att[Phase]
        /\ Ordinals(Phase, step, mem.att[Phase]) = {} => d.outcome = "run"
        /\ Reconciliation(d)
        /\ mem'.node = AfterDecision(Phase, step, d.outcome)
        /\ mem'.att = mem.att /\ mem'.verdict = mem.verdict
    BY ReconcileFacts DEF PassInv
  <1>2. /\ mem.verdict = "none" /\ stage = "enter" /\ ~stop
        /\ mem.att \in [Counters -> Nat] /\ mem.att[Phase] \in Nat
    BY <1>1, NodeTyped, PhaseSets DEF PassInv, LedgerInv, WorkInv, Reconciled, Fresh
  <1>3. Ordinals(Phase, step, mem.att[Phase]) = {}
    <2>1. SUFFICES ASSUME NEW n \in 0..MaxCrashReplays,
                          Op(Phase, step, mem.att[Phase], n) \in DOMAIN rows
                   PROVE  FALSE
      BY DEF Ordinals
    <2> DEFINE o == Op(Phase, step, mem.att[Phase], n)
    <2>2. o[1] = Phase /\ o[2] = step /\ o[3] = mem.att[Phase]
      BY DEF Op
    <2>3. Place(Phase) \in Nat
      BY <1>1, PlaceTyped
    <2>4. o \in DOMAIN rows
      BY <2>1
    <2> HIDE DEF o
    <2>5. Behind(o)
      BY <2>2, <2>4 DEF Fresh
    <2> QED
      BY <1>1, <2>2, <2>3, <2>5 DEF Behind
  <1> HIDE DEF d
  <1>4. PICK op : /\ mem'.node = Node(Phase, step, "work") /\ op[1] = Phase /\ op[2] = step
                  /\ op[3] = mem.att[Phase]
                  /\ DOMAIN rows' \subseteq DOMAIN rows \cup {op}
    BY <1>1, <1>3 DEF AfterDecision, Promised, Kept, Reconciliation
  <1>5. mem'.node.phase = Phase /\ mem'.node.step = step /\ mem'.node.at = "work"
    BY <1>4 DEF Node
  <1>6. \A o : Behind(o) => Behind(o)'
    BY <1>5 DEF Behind, Phase, Place
  <1>7. Behind(op)'
    BY <1>4, <1>5 DEF Behind, Phase, Place
  <1>8. /\ op[3] <= mem'.att[op[1]]
        /\ stage' = "enter" /\ ~stop' /\ mem'.verdict # "terminated"
    BY <1>1, <1>2, <1>4 DEF Reconcile
  <1> QED
    BY <1>1, <1>4, <1>5, <1>6, <1>7, <1>8 DEF Fresh

LEMMA NextFresh == PassInv /\ FreshInv /\ [Next]_vars => FreshInv'
  <1> SUFFICES ASSUME PassInv, FreshInv, [Next]_vars, crashes' = 0, stops' = 0 PROVE Fresh'
    BY DEF FreshInv
  <1>1. crashes \in Nat /\ stops \in Nat
    BY DEF PassInv, LedgerInv, TypeOK
  <1>2. ~Crash /\ ~RequestStop
    BY <1>1 DEF Crash, RequestStop
  <1>3. Fresh
    <2>1. UNCHANGED history
      BY <1>2 DEF Next, Step, vars, history, Reconcile, Rehydrate, Pause, Terminate, TurnBegin, TurnEnd,
            TurnRejected, Interpret, RunPhase, Store, Record, Finish, ReusedUnit, Deliver,
            TurnEdit, TurnRefused, Begin
    <2> QED
      BY <2>1 DEF history, FreshInv
  <1>4. CASE UNCHANGED vars
    BY <1>3, <1>4, StillKeepsFresh DEF vars, Fresh
  <1>5. CASE Reconcile
    BY <1>3, <1>5, ReconcileKeepsFresh
  <1>6. CASE Rehydrate \/ Pause \/ Terminate
    BY <1>3, <1>6 DEF Fresh, Rehydrate, Pause, Terminate
  <1>7. CASE TurnBegin \/ TurnEdit \/ TurnRefused \/ TurnEnd \/ TurnRejected \/ Interpret \/ RunPhase \/ Store
    BY <1>3, <1>7, WorkKeepsFresh
  <1>8. CASE Record
    BY <1>3, <1>8, RecordKeepsFresh
  <1>9. CASE Begin \/ Finish \/ ReusedUnit \/ Deliver
    <2>1. UNCHANGED <<flow, mem, rows, stage, draft>> /\ ~stop'
      BY <1>3, <1>9 DEF Begin, Finish, ReusedUnit, Deliver, ledger, graph, Fresh
    <2> QED
      BY <1>3, <2>1, StillKeepsFresh DEF Fresh
  <1> QED
    BY <1>2, <1>4, <1>5, <1>6, <1>7, <1>8, <1>9 DEF Next, Step

LEMMA InitFresh == Init => FreshInv
  <1> SUFFICES ASSUME Init PROVE Fresh
    BY DEF FreshInv
  <1>1. Enter("precheck_existing_tests").at = "reconcile"
    BY EnterTyped DEF Phases, ToolPhases
  <1> QED
    BY <1>1 DEF Init, Start, Fresh

\* A unit that was neither interrupted nor stopped is never classified unsafe
\* or indeterminate, for any workspace contents, budgets and answers: a retry
\* and a repair give every phase they lead back to a new logical attempt, and
\* every other answer leads onward.
THEOREM UnsafeOnlyAfterAnInterruption == Spec => []NoFalseUnsafe
  <1>1. FreshInv => NoFalseUnsafe
    BY DEF FreshInv, Fresh, NoFalseUnsafe, Terminated
  <1>2. Init => PassInv /\ FreshInv
    BY InitPass, InitFresh
  <1>3. PassInv /\ FreshInv /\ [Next]_vars => (PassInv /\ FreshInv)'
    BY NextPass, NextFresh
  <1> QED
    BY <1>1, <1>2, <1>3, PTL DEF Spec

-----------------------------------------------------------------------------
(* The unit an invocation promises: what a reconciliation does to the rows. *)

\* A row a reconciliation ends without a result: nothing was stored for it, or
\* what was stored is a cancelled turn.
GivenUp(r, o) ==
    /\ rows[o].status = "STARTED" /\ r[o].status \in {"FAILED", "CANCELLED"}
    /\ o \in DOMAIN arts => arts[o].status = "cancelled"

\* Only an adoption completes a row; an operation that is to be worked on is
\* new; one that ends the unit is not a completion of the present workspace.
Settled(d) ==
    /\ \A o \in DOMAIN rows \cap DOMAIN d.rows :
         \/ d.rows[o].status = rows[o].status
         \/ GivenUp(d.rows, o)
         \/ o = d.op /\ d.outcome = "adopt_result"
    /\ IF d.outcome \in {"run", "retry_no_effect"}
       THEN d.op \notin DOMAIN rows /\ d.rows[d.op].status = "STARTED"
       ELSE d.op \in DOMAIN rows
    /\ d.outcome = "adopt_result"
         => rows[d.op].status = "STARTED" /\ d.rows[d.op].status = "COMPLETED"
    /\ d.outcome \in {"verify_existing_edit", "fail_unsafe", "fail_indeterminate"}
       /\ d.rows[d.op].status = "COMPLETED" /\ d.op \in DOMAIN arts
         => arts[d.op].fp # ws

\* An edit is judged only where no result of the slot can be restored.
Unrestorable(p, step, attempt) ==
    \A o \in DOMAIN arts : o[1] = p /\ o[2] = step /\ o[3] = attempt =>
        rows[o].status \notin {"STARTED", "COMPLETED"} \/ arts[o].status = "cancelled"

LEMMA EffectSettles ==
  ASSUME NEW p, NEW step, NEW attempt, NEW n \in Nat, NEW known, RowsOK(rows),
         Op(p, step, attempt, n) \in DOMAIN rows,
         Op(p, step, attempt, n + 1) \notin DOMAIN rows,
         \/ /\ known = rows /\ rows[Op(p, step, attempt, n)].status # "COMPLETED"
            /\ rows[Op(p, step, attempt, n)].status = "STARTED"
                 => Op(p, step, attempt, n) \notin DOMAIN arts
         \/ /\ known = Ended(rows, Op(p, step, attempt, n), "CANCELLED")
            /\ rows[Op(p, step, attempt, n)].status = "STARTED"
            /\ arts[Op(p, step, attempt, n)].status = "cancelled"
  PROVE  LET d == ClassifyEffect(p, step, attempt, n, known)
         IN  Settled(d) /\ d.outcome # "run"
  <1> DEFINE op == Op(p, step, attempt, n)
             next == Op(p, step, attempt, n + 1)
             closed == IF known[op].status = "STARTED" THEN Ended(known, op, "FAILED") ELSE known
             d == ClassifyEffect(p, step, attempt, n, known)
  <1>0. /\ DOMAIN known = DOMAIN rows /\ op \in DOMAIN rows /\ next \notin DOMAIN rows
        /\ \A o \in DOMAIN rows : rows[o] \in RowType
    BY DEF Ended, RowsOK
  <1>1. \A o \in DOMAIN rows : known[o].status = rows[o].status \/ GivenUp(known, o)
    BY <1>0 DEF Ended, RowType, GivenUp
  <1>2. known[op].status # "COMPLETED"
    BY <1>0 DEF Ended, RowType
  <1>3. /\ DOMAIN closed = DOMAIN rows
        /\ \A o \in DOMAIN rows : closed[o].status = rows[o].status \/ GivenUp(closed, o)
    <2>1. CASE known[op].status = "STARTED"
      <3>1. known = rows /\ rows[op].status = "STARTED" /\ op \notin DOMAIN arts
        BY <1>0, <2>1 DEF Ended, RowType
      <3>2. closed = Ended(rows, op, "FAILED")
        BY <2>1, <3>1
      <3> HIDE DEF op, closed
      <3> QED
        BY <1>0, <3>1, <3>2 DEF Ended, RowType, GivenUp
    <2>2. CASE known[op].status # "STARTED"
      BY <1>0, <1>1, <2>2
    <2> QED
      BY <2>1, <2>2
  <1>4. \/ \E o \in {"verify_existing_edit", "fail_unsafe", "fail_indeterminate"} :
             d = Decision(o, op, known)
        \/ d = Decision("retry_no_effect", next, Put(closed, next, Started))
    <2>1. CASE ws # known[op].input /\ ws \in Allowed
      BY <2>1 DEF ClassifyEffect
    <2>2. CASE ws # known[op].input /\ ws \notin Allowed
      BY <2>2 DEF ClassifyEffect
    <2>3. CASE ws = known[op].input /\ n >= MaxCrashReplays
      BY <2>3 DEF ClassifyEffect
    <2>4. CASE ws = known[op].input /\ ~(n >= MaxCrashReplays)
      BY <2>4 DEF ClassifyEffect, Ended
    <2> QED
      BY <2>1, <2>2, <2>3, <2>4
  <1> HIDE DEF d, op, next, closed
  <1>5. ASSUME NEW o \in {"verify_existing_edit", "fail_unsafe", "fail_indeterminate"},
               d = Decision(o, op, known)
        PROVE  Settled(d) /\ d.outcome # "run"
    <2>1. d.outcome = o /\ d.op = op /\ d.rows = known
      BY <1>5 DEF Decision
    <2> QED
      BY <1>0, <1>1, <1>2, <2>1 DEF Settled
  <1>6. ASSUME d = Decision("retry_no_effect", next, Put(closed, next, Started))
        PROVE  Settled(d) /\ d.outcome # "run"
    <2>1. d.outcome = "retry_no_effect" /\ d.op = next /\ d.rows = Put(closed, next, Started)
      BY <1>6 DEF Decision
    <2>2. /\ d.rows[next] = Started
          /\ \A o \in DOMAIN rows : d.rows[o] = closed[o]
      BY <1>0, <1>3, <2>1 DEF Put
    <2>3. \A o \in DOMAIN rows : d.rows[o].status = rows[o].status \/ GivenUp(d.rows, o)
      BY <1>3, <2>2 DEF GivenUp
    <2> QED
      BY <1>0, <2>1, <2>2, <2>3 DEF Settled, Started
  <1> QED
    BY <1>4, <1>5, <1>6 DEF d

LEMMA ClassifySettles ==
  ASSUME NEW p \in Phases, NEW step \in Steps, step = "deterministic" <=> p \in ToolPhases,
         mem.att \in [Counters -> Nat], RowsOK(rows), Consistent(rows, arts),
         DOMAIN arts \subseteq DOMAIN rows
  PROVE  /\ Settled(Classify(p, step))
         /\ Classify(p, step).outcome = "verify_existing_edit"
              => Unrestorable(p, step, mem.att[p])
         /\ Classify(p, step).outcome = "run" =>
              \A o \in DOMAIN Classify(p, step).rows \cap DOMAIN rows :
                 Classify(p, step).rows[o] = rows[o] /\ Consultable(o)
  <1> DEFINE attempt == mem.att[p]
             known == Ordinals(p, step, attempt)
             n == CHOOSE k \in known : \A j \in known : j <= k
             op == Op(p, step, attempt, n)
             first == Op(p, step, attempt, 0)
             d == Classify(p, step)
  <1>0. attempt \in Nat /\ MaxCrashReplays \in Nat
    BY BoundsAssumption DEF Counters
  <1>1. CASE known = {}
    <2>1. d = Decision("run", first, Put(Kept(rows), first, Started))
      BY <1>1 DEF Classify
    <2>2. first \notin DOMAIN rows
      BY <1>0, <1>1 DEF Ordinals
    <2>3. d.outcome = "run" /\ d.op = first /\ d.rows = Put(Kept(rows), first, Started)
      BY <2>1 DEF Decision
    <2> HIDE DEF first, d
    <2>4. /\ \A o \in DOMAIN d.rows \cap DOMAIN rows : d.rows[o] = rows[o] /\ Consultable(o)
          /\ d.rows[first] = Started
      BY <2>2, <2>3 DEF Put, Kept
    <2> QED
      BY <2>2, <2>3, <2>4 DEF Settled, Started, d
  <1>2. CASE known # {}
    <2>1. /\ n \in known /\ \A j \in known : j <= n
      BY <1>0, <1>2, GreatestExists DEF Ordinals
    <2>2. n \in 0..MaxCrashReplays /\ n \in Nat /\ op \in DOMAIN rows
      BY <1>0, <2>1 DEF Ordinals
    <2> HIDE DEF n
    <2>3. op \in Ops /\ op[1] = p /\ op[2] = step /\ op[3] = attempt /\ op[4] = n
      BY <1>0, <2>2, OpFields
    <2>4. Op(p, step, attempt, n + 1) \notin DOMAIN rows
      <3>1. SUFFICES ASSUME Op(p, step, attempt, n + 1) \in DOMAIN rows PROVE FALSE
        OBVIOUS
      <3>2. n + 1 \in 0..MaxCrashReplays
        BY <1>0, <3>1 DEF RowsOK, Ops, Op
      <3> QED
        BY <2>1, <2>2, <3>1, <3>2 DEF Ordinals
    <2>5. rows[op] \in RowType
      BY <2>2 DEF RowsOK
    <2>6. ASSUME \/ rows[op].status \notin {"STARTED", "COMPLETED"}
                 \/ op \notin DOMAIN arts
                 \/ arts[op].status = "cancelled"
          PROVE  Unrestorable(p, step, attempt)
      <3>1. SUFFICES ASSUME NEW o \in DOMAIN arts, o[1] = p, o[2] = step, o[3] = attempt
                     PROVE  rows[o].status \notin {"STARTED", "COMPLETED"} \/ arts[o].status = "cancelled"
        BY DEF Unrestorable
      <3>2. o \in DOMAIN rows /\ o \in Ops
        BY <3>1 DEF RowsOK
      <3>3. o = Op(p, step, attempt, o[4]) /\ o[4] \in 0..MaxCrashReplays
        BY <3>1, <3>2, OpsAreTuples DEF Ops
      <3>4. o[4] \in known
        BY <3>2, <3>3 DEF Ordinals
      <3>5. o[4] <= n /\ o[4] \in Nat
        BY <1>0, <2>1, <3>3, <3>4
      <3>6. CASE o[4] = n
        BY <2>6, <3>1, <3>3, <3>6
      <3>7. CASE o[4] # n
        <4>1. o[4] \in 0..(op[4] - 1)
          BY <2>2, <2>3, <3>5, <3>7
        <4>2. rows[Op(op[1], op[2], op[3], o[4])].status \in {"FAILED", "CANCELLED"}
          BY <2>2, <4>1 DEF Consistent
        <4>3. Op(op[1], op[2], op[3], o[4]) = o
          BY <2>3, <3>3
        <4> HIDE DEF op
        <4> QED
          BY <4>2, <4>3
      <3> QED
        BY <3>6, <3>7
    <2> SUFFICES Settled(d) /\ d.outcome # "run"
                 /\ (d.outcome = "verify_existing_edit" => Unrestorable(p, step, attempt))
      OBVIOUS
    <2>7. ASSUME NEW o \in {"fail_indeterminate", "fail_unsafe", "reuse_result"},
                 d = Decision(o, op, rows),
                 o = "reuse_result" \/ rows[op].status # "COMPLETED" \/ op \notin DOMAIN arts
                   \/ arts[op].fp # ws
          PROVE  Settled(d) /\ d.outcome # "run" /\ d.outcome # "verify_existing_edit"
      <3>1. d.op = op /\ d.rows = rows /\ d.outcome = o
        BY <2>7 DEF Decision
      <3> HIDE DEF d, op
      <3> QED
        BY <2>2, <2>7, <3>1 DEF Settled
    <2>8. CASE rows[op].status = "COMPLETED"
      <3>1. d = ClassifyCompleted(op)
        BY <1>2, <2>8 DEF Classify, n
      <3>2. \/ ClassifyCompleted(op) = Decision("fail_indeterminate", op, rows) /\ op \notin DOMAIN arts
            \/ ClassifyCompleted(op) = Decision("fail_unsafe", op, rows) /\ arts[op].fp # ws
            \/ ClassifyCompleted(op) = Decision("reuse_result", op, rows)
        <4> HIDE DEF op
        <4> QED
          BY DEF ClassifyCompleted
      <3> HIDE DEF d, op
      <3> QED
        BY <2>7, <3>1, <3>2
    <2>9. CASE rows[op].status = "STARTED" /\ op \in DOMAIN arts
      <3>1. d = ClassifyStored(p, step, attempt, n)
        BY <1>2, <2>9 DEF Classify, n
      <3>2. CASE arts[op].fp # ws
        <4>1. d = Decision("fail_indeterminate", op, rows)
          BY <3>1, <3>2 DEF ClassifyStored
        <4> HIDE DEF d, op
        <4> QED
          BY <2>7, <3>2, <4>1
      <3>3. CASE arts[op].fp = ws /\ arts[op].status = "cancelled"
        <4>1. d = ClassifyEffect(p, step, attempt, n, Ended(rows, op, "CANCELLED"))
          BY <3>1, <3>3 DEF ClassifyStored, Ended
        <4> HIDE DEF d
        <4>2. Settled(d) /\ d.outcome # "run"
          BY <2>2, <2>4, <2>9, <3>3, <4>1, EffectSettles
        <4> HIDE DEF op
        <4> QED
          BY <2>6, <3>3, <4>2
      <3>4. CASE arts[op].fp = ws /\ arts[op].status # "cancelled"
        <4>1. d = Decision("adopt_result", op, Ended(rows, op, "COMPLETED"))
          BY <3>1, <3>4 DEF ClassifyStored, Ended
        <4>2. d.op = op /\ d.rows = Ended(rows, op, "COMPLETED") /\ d.outcome = "adopt_result"
          BY <4>1 DEF Decision
        <4> HIDE DEF d, op
        <4>3. /\ d.rows[op].status = "COMPLETED"
              /\ \A o \in DOMAIN rows : o # op => d.rows[o].status = rows[o].status
          BY <2>2, <2>5, <4>2 DEF Ended, RowType
        <4> QED
          BY <2>2, <2>9, <4>2, <4>3 DEF Settled
      <3> QED
        BY <2>9, <3>2, <3>3, <3>4
    <2>10. CASE rows[op].status # "COMPLETED" /\ ~(rows[op].status = "STARTED" /\ op \in DOMAIN arts)
      <3>1. d = ClassifyEffect(p, step, attempt, n, rows)
        BY <1>2, <2>10 DEF Classify, n
      <3> HIDE DEF d
      <3>2. Settled(d) /\ d.outcome # "run"
        BY <2>2, <2>4, <2>10, <3>1, EffectSettles
      <3> HIDE DEF op
      <3> QED
        BY <2>6, <2>10, <3>2
    <2> HIDE DEF d, op, known
    <2> QED
      BY <2>8, <2>9, <2>10
  <1> QED
    BY <1>1, <1>2

-----------------------------------------------------------------------------
(* The unit goes on: what a graph state owes the rows and the artifacts.   *)

\* The rows are of attempts and of phases the graph state has reached.
RowsReached(g, r) ==
    \A o \in DOMAIN r :
        /\ o[3] <= g.att[o[1]]
        /\ g.node.phase \in Preparation => Place(o[1]) <= Place(g.node.phase)
        /\ o[1] = "review_equivalent_mutants"
             => g.node.phase \in {"review_equivalent_mutants", "complete_generation"}

\* The results that may be restored continue from where the graph state is.
ResultsContinue(g, a) ==
    \A o \in DOMAIN a : o[2] # "turn" /\ Current(g, o) =>
        /\ LeadsTo(g.att, o[1], a[o].outcome, a[o].att)
        /\ o[1] \in Repairs => g.node.phase = o[1] /\ g.node.step = "interpret"

\* Closed, of any rows, artifacts and workspace.
ClosedIn(g, r, a, w) ==
    /\ g.op \in DOMAIN r /\ g.op \in DOMAIN a
    /\ g.op[1] = "complete_generation"
    /\ r[g.op].status = "COMPLETED"
    /\ a[g.op].fp = w

NodeContinues(g, r, a, w) ==
    /\ g.node.at = "pause" => g.node.step = "turn"
    /\ g.node.at \in {"work", "rehydrate"} => g.op[3] = g.att[g.node.phase]
    /\ g.node.at = "work" /\ g.node.step # "turn"
         => r[g.op].status \in {"STARTED", "COMPLETED"}
    /\ g.node.at = "terminate" => ~ClosedIn(g, r, a, w)
    /\ g.node.at = "end" /\ ClosedIn(g, r, a, w) => a[g.op].outcome = g.verdict

\* Continues, of any rows, artifacts and workspace.
ContinuesIn(g, r, a, w) ==
    RowsReached(g, r) /\ ResultsContinue(g, a) /\ NodeContinues(g, r, a, w)

LEMMA ContinuesParts ==
  /\ Continues(mem) <=> ContinuesIn(mem, rows, arts, ws)
  /\ Continues(prior) <=> ContinuesIn(prior, rows, arts, ws)
  /\ Closed(mem) <=> ClosedIn(mem, rows, arts, ws)
  /\ Continues(mem)' <=> ContinuesIn(mem', rows', arts', ws')
  /\ Continues(prior)' <=> ContinuesIn(prior', rows', arts', ws')
  /\ Closed(mem)' <=> ClosedIn(mem', rows', arts', ws')
  <1>1. \A g : Continues(g) <=> ContinuesIn(g, rows, arts, ws)
    BY DEF Continues, ContinuesIn, RowsReached, ResultsContinue, NodeContinues, Closed, ClosedIn
  <1>2. Closed(mem) <=> ClosedIn(mem, rows, arts, ws)
    BY DEF Closed, ClosedIn
  <1>3. /\ Continues(mem)' <=> ContinuesIn(mem', rows', arts', ws')
        /\ Continues(prior)' <=> ContinuesIn(prior', rows', arts', ws')
    BY DEF Continues, ContinuesIn, RowsReached, ResultsContinue, NodeContinues, Closed, ClosedIn,
           Current, LeadsTo, Place
  <1>4. Closed(mem)' <=> ClosedIn(mem', rows', arts', ws')
    BY DEF Closed, ClosedIn
  <1> QED
    BY <1>1, <1>2, <1>3, <1>4

\* What the ledger's domain decides does not change with the rows' states.
LEMMA ReachedFrame ==
  ASSUME NEW g, NEW r, NEW s, RowsReached(g, r), DOMAIN s \subseteq DOMAIN r
  PROVE  RowsReached(g, s)
  BY DEF RowsReached

LEMMA ResultsFrame ==
  ASSUME NEW g, NEW a, NEW b, ResultsContinue(g, a), DOMAIN b \subseteq DOMAIN a,
         \A o \in DOMAIN b : b[o] = a[o]
  PROVE  ResultsContinue(g, b)
  BY DEF ResultsContinue

\* A graph state of the same attempts, phase and step.
LEMMA SamePlace ==
  ASSUME NEW g, NEW h, NEW r, NEW a, RowsReached(g, r), ResultsContinue(g, a),
         h.att = g.att, h.node.phase = g.node.phase,
         h.node.step = g.node.step \/ g.node.step # "interpret"
  PROVE  RowsReached(h, r) /\ ResultsContinue(h, a)
  <1>1. RowsReached(h, r)
    BY DEF RowsReached
  <1>2. \A o : Current(h, o) <=> Current(g, o)
    BY DEF Current
  <1>3. ResultsContinue(h, a)
    BY <1>2 DEF ResultsContinue
  <1> QED
    BY <1>1, <1>3

\* A state the unit may leave the preparation for, or a repair with an edit
\* nobody interpreted: no result of the phase it leaves could be restored.
LEMMA JudgedEdit ==
  ASSUME NEW g, NEW h, NEW r, NEW a, RowsReached(g, r), ResultsContinue(g, a),
         h.att = g.att, g.node.phase \in Repairs \cup {"generate_tests"},
         h.node.phase \in {"verify_compile", "verify_tests"},
         g.node.step = "interpret" =>
           \A o \in DOMAIN a : o[1] = g.node.phase /\ o[2] = "interpret" => o[3] # g.att[o[1]],
         \A o \in DOMAIN a : o[1] \in Repairs => o[2] \in {"turn", "interpret"}
  PROVE  RowsReached(h, r) /\ ResultsContinue(h, a)
  <1>1. RowsReached(h, r)
    BY DEF RowsReached, Preparation, Repairs
  <1>2. ASSUME NEW o \in DOMAIN a, o[2] # "turn", Current(h, o)
        PROVE  LeadsTo(h.att, o[1], a[o].outcome, a[o].att) /\ o[1] \notin Repairs
    <2>1. o[1] \notin Preparation /\ o[3] = g.att[o[1]]
      BY <1>2 DEF Current, Preparation
    <2>2. LeadsTo(g.att, o[1], a[o].outcome, a[o].att)
          /\ (o[1] \in Repairs => g.node.phase = o[1] /\ g.node.step = "interpret")
      BY <1>2, <2>1 DEF ResultsContinue, Current
    <2> QED
      BY <1>2, <2>1, <2>2
  <1> QED
    BY <1>1, <1>2 DEF ResultsContinue

\* How an answer moves the attempts, as the invariant says it.
LEMMA AnswerLeads ==
  ASSUME mem.att \in [Counters -> Nat], NEW p \in Phases, NEW outcome
  PROVE  LeadsTo(mem.att, p, outcome, AttAfter(p, outcome))
  BY AttemptsAfter DEF LeadsTo

LEMMA LeadsOn ==
  ASSUME NEW att \in [Counters -> Nat], NEW next \in [Counters -> Nat], NEW p \in Phases,
         NEW outcome, LeadsTo(att, p, outcome, next)
  PROVE  /\ \A q \in Phases : next[q] >= att[q] /\ att[q] \in Nat /\ next[q] \in Nat
         /\ p \in Repairs => \A q \in Verifiers \cup {p} : next[q] > att[q]
         /\ p \notin Repairs /\ outcome = "retry" => next[p] = att[p] + 1
         /\ p \notin Repairs /\ outcome # "retry" => \A q \in Phases : next[q] = att[q]
  <1>1. \A q \in Phases : att[q] \in Nat /\ next[q] \in Nat
    BY PhaseSets
  <1>2. Verifiers \cup {p} \subseteq Phases
    BY PhaseSets DEF ToolPhases
  <1>3. CASE p \in Repairs
    BY <1>1, <1>2, <1>3 DEF LeadsTo
  <1>4. CASE p \notin Repairs /\ outcome = "retry"
    <2>1. next[p] = att[p] + 1 /\ \A q \in Phases \ {p} : next[q] = att[q]
      BY <1>4 DEF LeadsTo
    <2> QED
      BY <1>1, <1>4, <2>1
  <1>5. CASE p \notin Repairs /\ outcome # "retry"
    <2>1. \A q \in Phases : next[q] = att[q]
      BY <1>5 DEF LeadsTo
    <2> QED
      BY <1>1, <1>5, <2>1
  <1> QED
    BY <1>3, <1>4, <1>5

LEMMA PreparationPlaces ==
  ASSUME NEW p \in Phases
  PROVE  Place(p) \in Nat /\ (Place(p) < 3 <=> p \in Preparation)
  BY PlaceOf DEF Phases, ModelPhases, ToolPhases, Verifiers, Repairs, Preparation

LEMMA NeverBack ==
  ASSUME NEW p \in Phases, NEW outcome, Successor(p, outcome) \in Preparation
  PROVE  p \in Preparation
  <1>1. PICK r \in Routes : r[1] = p /\ r[3] = Successor(p, outcome)
    BY SuccessorOnRoute DEF Preparation
  <1> QED
    BY <1>1, RoutesTyped

\* The same attempts of every phase lead to the same.
LEMMA LeadsFrame ==
  ASSUME NEW att, NEW now, NEW p \in Phases, NEW outcome, NEW next,
         LeadsTo(att, p, outcome, next), \A q \in Phases : now[q] = att[q]
  PROVE  LeadsTo(now, p, outcome, next)
  BY DEF LeadsTo

\* What a recorded or restored answer leads to: a repair makes every result of
\* a verification a former one, a retry every one of its phase, and any other
\* answer enters a phase that nothing was done for, or whose results are those
\* of the same attempts.
LEMMA AnswerGoesOn ==
  ASSUME PassInv, RowsReached(mem, rows), ResultsContinue(mem, arts),
         mem.node.at \in {"work", "rehydrate"}, mem.node.step # "turn",
         NEW env \in Envelopes, env.outcome \in Possible(Phase),
         LeadsTo(mem.att, Phase, env.outcome, env.att)
  PROVE  LET new == Projected(Phase, mem.node.step, env)
         IN  /\ RowsReached(new, rows) /\ ResultsContinue(new, arts)
             /\ \A q \in Phases : mem.att[q] <= new.att[q]
             /\ new.node.phase \in Preparation => Phase \in Preparation
  <1> DEFINE new == Projected(Phase, mem.node.step, env)
             next == Successor(Phase, env.outcome)
  <1>0. /\ TypeOK /\ GraphOK(mem) /\ mem.verdict = "none" /\ Phase \in Phases
        /\ mem.att \in [Counters -> Nat] /\ env.att \in [Counters -> Nat]
        /\ DOMAIN rows \subseteq Ops /\ DOMAIN arts \subseteq DOMAIN rows
        /\ flow \in {"java", "java_delegated", "python"}
    <2>1. LedgerInv /\ TypeOK /\ GraphOK(mem) /\ DOMAIN rows \subseteq Ops
          /\ DOMAIN arts \subseteq DOMAIN rows
      BY DEF PassInv, LedgerInv, TypeOK, WorkInv
    <2>2. mem.verdict = "none"
      BY DEF PassInv, LedgerInv, WorkInv, Reconciled
    <2>3. env.att \in [Counters -> Nat]
      BY DEF Envelopes
    <2>4. flow \in {"java", "java_delegated", "python"}
      BY <2>1, FlowsAssumption DEF TypeOK
    <2> QED
      BY <2>1, <2>2, <2>3, <2>4, NodeTyped
  <1>1. /\ new.att = env.att
        /\ IF Phase = "complete_generation"
           THEN new.node = Node(Phase, mem.node.step, "end")
           ELSE new.node = Enter(next)
    BY <1>0, ProjectedGraph
  <1> HIDE DEF new
  <1>2. /\ \A q \in Phases : /\ new.att[q] >= mem.att[q]
                             /\ mem.att[q] \in Nat /\ new.att[q] \in Nat
        /\ Phase \in Repairs => \A q \in Verifiers \cup {Phase} : new.att[q] > mem.att[q]
        /\ Phase \notin Repairs /\ env.outcome = "retry" => new.att[Phase] = mem.att[Phase] + 1
        /\ Phase \notin Repairs /\ env.outcome # "retry" => \A q \in Phases : new.att[q] = mem.att[q]
    BY <1>0, <1>1, LeadsOn
  <1>3. ASSUME NEW o \in DOMAIN rows
        PROVE  /\ o[1] \in Phases /\ o[3] \in Nat /\ o[3] <= mem.att[o[1]]
               /\ Place(o[1]) \in Nat /\ (Place(o[1]) < 3 <=> o[1] \in Preparation)
               /\ Phase \in Preparation => Place(o[1]) <= Place(Phase)
               /\ o[1] = "review_equivalent_mutants"
                    => Phase \in {"review_equivalent_mutants", "complete_generation"}
               /\ o[1] = "complete_generation" => Phase = "complete_generation"
    <2>1. o[1] \in Phases /\ o[3] \in Nat
      BY <1>0, OpsAreTuples
    <2>2. o[1] = "complete_generation" => Phase = "complete_generation"
      BY DEF PassInv, AnswerInv
    <2> QED
      BY <2>1, <2>2, PreparationPlaces DEF RowsReached, Phase
  <1>4. /\ Place(Phase) \in Nat /\ (Place(Phase) < 3 <=> Phase \in Preparation)
        /\ next \in Phases /\ Place(next) \in Nat
        /\ next \in Preparation => Phase \in Preparation
    BY <1>0, PreparationPlaces, SuccessorTyped, NeverBack
  <1> HIDE DEF next
  <1>5. ASSUME NEW o \in DOMAIN arts, o[2] # "turn", Current(mem, o)
        PROVE  /\ LeadsTo(mem.att, o[1], arts[o].outcome, arts[o].att)
               /\ o[1] \in Repairs => Phase = o[1]
    BY <1>5 DEF ResultsContinue, Phase
  <1>6. CASE Phase = "complete_generation"
    <2>1. new.node.phase = Phase /\ new.node.step = mem.node.step
      BY <1>1, <1>6 DEF Node
    <2>2. Phase \notin Repairs /\ env.outcome \in {"PASS", "FAIL"}
      BY <1>6, PossibleAnswers DEF Repairs
    <2>3. \A q \in Phases : new.att[q] = mem.att[q]
      BY <1>2, <2>2
    <2>4. RowsReached(new, rows)
      BY <1>3, <2>1, <2>3 DEF RowsReached, Phase
    <2>5. ASSUME NEW o \in DOMAIN arts, o[2] # "turn", Current(new, o)
          PROVE  LeadsTo(new.att, o[1], arts[o].outcome, arts[o].att) /\ o[1] \notin Repairs
      <3>1. o[1] \in Phases
        BY <1>0, <1>3
      <3>2. Current(mem, o)
        BY <2>1, <2>3, <2>5, <3>1 DEF Current, Phase
      <3> QED
        BY <1>5, <2>2, <2>3, <2>5, <3>1, <3>2, LeadsFrame
    <2>6. ResultsContinue(new, arts)
      BY <2>5 DEF ResultsContinue
    <2>7. Phase \notin Preparation
      BY <1>6 DEF Preparation
    <2> QED
      BY <1>2, <2>1, <2>4, <2>6, <2>7 DEF new
  <1>7. CASE Phase # "complete_generation"
    <2>1. new.node.phase = next
      BY <1>1, <1>4, <1>7, EnterTyped
    <2>2. CASE Phase \in Repairs
      <3>1. next \in {"verify_compile", "verify_tests"} /\ next \notin Preparation
        <4>1. env.outcome = "passed"
          BY <2>2, PossibleAnswers
        <4> QED
          BY <2>2, <4>1, AfterRepair DEF next, Preparation
      <3>2. Phase \notin {"review_equivalent_mutants", "complete_generation"}
        BY <2>2 DEF Repairs
      <3>3. RowsReached(new, rows)
        <4>1. ASSUME NEW o \in DOMAIN rows
              PROVE  o[3] <= new.att[o[1]] /\ o[1] # "review_equivalent_mutants"
          BY <1>2, <1>3, <3>2
        <4> QED
          BY <2>1, <3>1, <4>1 DEF RowsReached
      <3>4. ASSUME NEW o \in DOMAIN arts, o[2] # "turn", Current(new, o) PROVE FALSE
        <4>1. /\ o[1] \in Phases /\ o[3] \in Nat /\ o[3] <= mem.att[o[1]]
              /\ o[1] \notin {"review_equivalent_mutants", "complete_generation"}
          BY <1>0, <1>3, <3>2
        <4>2. o[3] = new.att[o[1]] /\ o[1] \notin Preparation
          BY <2>1, <3>1, <3>4 DEF Current
        <4>3. o[1] \notin Verifiers \cup {Phase}
          BY <1>2, <2>2, <4>1, <4>2
        <4>4. o[1] \in Repairs
          BY <4>1, <4>2, <4>3 DEF Phases, ModelPhases, ToolPhases, Preparation
        <4>5. o[3] = mem.att[o[1]]
          BY <1>2, <4>1, <4>2
        <4>6. Current(mem, o)
          BY <4>2, <4>5 DEF Current
        <4> QED
          BY <1>5, <3>4, <4>3, <4>4, <4>6
      <3> QED
        BY <1>2, <2>1, <3>1, <3>3, <3>4 DEF ResultsContinue, new
    <2>3. CASE Phase \notin Repairs /\ env.outcome = "retry"
      <3>1. Phase \in {"plan_tests", "generate_tests"}
        BY <1>0, <2>3, PossibleAnswers DEF Phases, ModelPhases, ToolPhases, Verifiers, Precheck
      <3>2. next = Phase /\ Phase \in Preparation
        BY <2>3, <3>1, AfterPreparation DEF next, Preparation
      <3>3. ASSUME NEW o \in DOMAIN rows
            PROVE  /\ o[1] \in Preparation /\ o[3] <= new.att[o[1]]
                   /\ Place(o[1]) <= Place(Phase)
        BY <1>2, <1>3, <1>4, <3>2
      <3>4. RowsReached(new, rows)
        BY <2>1, <3>2, <3>3 DEF RowsReached, Preparation
      <3>5. ASSUME NEW o \in DOMAIN arts, o[2] # "turn", Current(new, o) PROVE FALSE
        <4>1. o[1] = Phase /\ o[3] = new.att[Phase]
          BY <1>0, <2>1, <3>2, <3>3, <3>5 DEF Current
        <4>2. o[3] \in Nat /\ o[3] <= mem.att[Phase] /\ mem.att[Phase] \in Nat
          BY <1>0, <1>2, <1>3, <4>1
        <4> QED
          BY <1>2, <2>3, <4>1, <4>2
      <3> QED
        BY <1>2, <2>1, <3>2, <3>4, <3>5 DEF ResultsContinue, new
    <2>4. CASE Phase \notin Repairs /\ env.outcome # "retry"
      <3>1. \A q \in Phases : new.att[q] = mem.att[q]
        BY <1>2, <2>4
      <3>2. Place(Phase) < Place(next)
        BY <1>0, <1>7, <2>4, Onward DEF next
      <3>3. Phase = "review_equivalent_mutants" => next = "complete_generation"
        <4>1. SUFFICES ASSUME Phase = "review_equivalent_mutants" PROVE next = "complete_generation"
          OBVIOUS
        <4>2. env.outcome = "failed"
          BY <4>1, PossibleAnswers
        <4> QED
          BY <4>1, <4>2, AfterVerification DEF next
      <3>4. RowsReached(new, rows)
        <4>1. ASSUME NEW o \in DOMAIN rows
              PROVE  /\ o[3] <= new.att[o[1]]
                     /\ next \in Preparation => Place(o[1]) <= Place(next)
                     /\ o[1] = "review_equivalent_mutants" => next = "complete_generation"
          BY <1>3, <1>4, <1>7, <3>1, <3>2, <3>3
        <4> QED
          BY <2>1, <4>1 DEF RowsReached
      <3>5. ASSUME NEW o \in DOMAIN arts, o[2] # "turn", Current(new, o)
            PROVE  LeadsTo(new.att, o[1], arts[o].outcome, arts[o].att) /\ o[1] \notin Repairs
        <4>1. o \in DOMAIN rows /\ o[1] \in Phases
          BY <1>0, <1>3
        <4>2. o[1] \notin Preparation
          <5>1. SUFFICES ASSUME o[1] \in Preparation PROVE FALSE
            OBVIOUS
          <5>2. o[1] = next /\ Place(o[1]) <= Place(Phase)
            BY <1>3, <1>4, <2>1, <3>5, <4>1, <5>1 DEF Current
          <5> QED
            BY <1>4, <3>2, <5>2
        <4>3. Current(mem, o)
          BY <3>1, <3>5, <4>1, <4>2 DEF Current
        <4> QED
          BY <1>5, <2>4, <3>1, <3>5, <4>1, <4>3, LeadsFrame
      <3> QED
        BY <1>2, <1>4, <2>1, <3>4, <3>5 DEF ResultsContinue, new
    <2> QED
      BY <2>2, <2>3, <2>4
  <1> QED
    BY <1>6, <1>7

-----------------------------------------------------------------------------
(* Every step keeps what a durable unit relies on.                         *)

CycleInv == PassInv /\ UnitInv

LEMMA OutsideKeepsUnit ==
  ASSUME UnitInv, UNCHANGED <<ws, rows, arts, mem, prior>>,
         stage' \in {"enter", stage}, stage' # "enter" => draft' = draft,
         run' \in {"running", "reused", "returned"} => product' = "open",
         run' = "returned" => mem.node.at = "end" /\ Closed(mem)
  PROVE  UnitInv'
  <1>1. Continues(mem)' /\ Continues(prior)' /\ (Closed(mem)' <=> Closed(mem))
    BY ContinuesParts DEF UnitInv
  <1>2. /\ \A p \in Phases : prior'.att[p] <= mem'.att[p]
        /\ Phase' \in Preparation => prior'.node.phase \in Preparation
        /\ mem'.node.at = "work" => prior'.att = mem'.att /\ prior'.node.step = mem'.node.step
        /\ stage' = "stored" => arts'[mem'.op] = draft'
        /\ \A o \in DOMAIN arts' : o[2] # "turn"
             => arts'[o].status = "phase" /\ rows'[o].status \in {"STARTED", "COMPLETED"}
    BY DEF UnitInv, Phase
  <1>3. stage' \in {"worked", "stored"} /\ mem'.node.step # "turn"
          => /\ LeadsTo(mem.att, Phase, draft.outcome, draft.att)'
             /\ draft'.status = "phase"
    <2>1. SUFFICES ASSUME stage' \in {"worked", "stored"}, mem'.node.step # "turn"
                   PROVE  LeadsTo(mem.att, Phase, draft.outcome, draft.att)' /\ draft'.status = "phase"
      OBVIOUS
    <2>2. stage = stage' /\ draft' = draft /\ mem.node.step # "turn"
      BY <2>1
    <2>3. LeadsTo(mem.att, Phase, draft.outcome, draft.att) /\ draft.status = "phase"
      BY <2>1, <2>2 DEF UnitInv
    <2> QED
      BY <2>2, <2>3 DEF LeadsTo, Phase
  <1> QED
    BY <1>1, <1>2, <1>3 DEF UnitInv

\* The work of a node changes no more than the workspace and the draft.
LEMMA WorkKeepsUnit ==
  ASSUME CycleInv, mem.node.at = "work", run = "running",
         UNCHANGED <<rows, arts, mem, prior, run, product>>,
         stage' \in {"turning", "edited", "worked"},
         stage' = "worked" /\ mem.node.step # "turn"
           => LeadsTo(mem.att, Phase, draft'.outcome, draft'.att) /\ draft'.status = "phase"
  PROVE  UnitInv'
  <1>1. prior.node.at \in {"reconcile", "work"}
    BY DEF CycleInv, PassInv, LedgerInv, WorkInv
  <1>2. Continues(mem)' /\ Continues(prior)'
    <2>1. ContinuesIn(mem, rows, arts, ws') /\ ContinuesIn(prior, rows, arts, ws')
      <3>1. ContinuesIn(mem, rows, arts, ws) /\ ContinuesIn(prior, rows, arts, ws)
        BY ContinuesParts DEF CycleInv, UnitInv
      <3> QED
        BY <1>1, <3>1 DEF ContinuesIn, NodeContinues
    <2> QED
      BY <2>1, ContinuesParts
  <1>3. stage' \in {"worked", "stored"} /\ mem'.node.step # "turn"
          => LeadsTo(mem.att, Phase, draft.outcome, draft.att)' /\ draft'.status = "phase"
    BY DEF LeadsTo, Phase
  <1> QED
    BY <1>2, <1>3 DEF CycleInv, UnitInv, Phase

LEMMA TurnKeepsUnit ==
  ASSUME CycleInv, TurnBegin \/ TurnRefused \/ TurnEdit \/ TurnEnd
  PROVE  UnitInv'
  <1>0. UnitInv
    BY DEF CycleInv
  <1>1. CASE TurnBegin
    <2>1. CASE Raise
      BY <1>0, <1>1, <2>1, OutsideKeepsUnit DEF TurnBegin, Raise, graph, ledger
    <2>2. CASE stage' = "turning" /\ UNCHANGED <<graph, run>>
      BY <1>1, <2>2, WorkKeepsUnit DEF TurnBegin, At, graph, ledger
    <2> QED
      BY <1>1, <2>1, <2>2 DEF TurnBegin
  <1>2. CASE TurnRefused
    BY <1>0, <1>2, OutsideKeepsUnit DEF TurnRefused, Raise, graph, ledger
  <1>3. CASE TurnEdit
    BY <1>3, WorkKeepsUnit DEF TurnEdit, At, graph, ledger
  <1>4. CASE TurnEnd
    BY <1>4, WorkKeepsUnit DEF TurnEnd, At, graph, ledger
  <1> QED
    BY <1>1, <1>2, <1>3, <1>4

LEMMA PhaseKeepsUnit ==
  ASSUME CycleInv, Interpret \/ RunPhase
  PROVE  UnitInv'
  <1>0. /\ TypeOK /\ ws \in Contents /\ Allowed \subseteq Contents
        /\ mem.att \in [Counters -> Nat] /\ LedgerInv /\ Phase \in Phases
    <2>1. LedgerInv
      BY DEF CycleInv, PassInv
    <2> QED
      BY <2>1, NodeTyped, ContentsAssumption DEF LedgerInv, TypeOK
  <1>1. CASE Interpret
    <2>1. Phase \in ModelPhases
      BY <1>0, <1>1, NodeTyped DEF Interpret, At
    <2>2. PICK a \in InterpretAnswers(Phase) : draft' = Produced(a) /\ ws' \in Contents
      BY <1>0, <1>1 DEF Interpret
    <2>3. a \in AnswerType /\ a.att = AttAfter(Phase, a.outcome)
      BY <1>0, <2>1, InterpretAnswered
    <2>4. draft'.outcome = a.outcome /\ draft'.att = a.att /\ draft'.status = "phase"
      BY <2>2, <2>3, ProducedEnvelope
    <2>5. LeadsTo(mem.att, Phase, draft'.outcome, draft'.att)
      BY <1>0, <2>3, <2>4, AnswerLeads
    <2> QED
      BY <1>1, <2>4, <2>5, WorkKeepsUnit DEF Interpret, At, graph, ledger
  <1>2. CASE RunPhase
    <2>1. Phase \in ToolPhases
      BY <1>0, <1>2, NodeTyped DEF RunPhase, At
    <2>2. PICK a \in ToolAnswers(Phase) : draft' = Produced(a)
      BY <1>2 DEF RunPhase
    <2>3. a \in AnswerType /\ a.outcome \in Possible(Phase) /\ a.att = mem.att
      BY <1>0, <2>1, <2>2, ToolAnswered
    <2>4. ws' \in Contents
      BY <1>0, <1>2 DEF RunPhase
    <2>5. draft'.outcome = a.outcome /\ draft'.att = a.att /\ draft'.status = "phase"
      BY <2>2, <2>3, <2>4, ProducedEnvelope
    <2>6. Phase \notin Repairs /\ a.outcome # "retry"
      <3>1. flow \in {"java", "java_delegated", "python"}
        BY <1>0, FlowsAssumption DEF TypeOK
      <3>2. Phase \notin Repairs
        BY <2>1, PhaseSets
      <3> QED
        BY <2>1, <2>3, <3>1, <3>2, PossibleAnswers DEF ToolPhases, Verifiers, Precheck
    <2>7. LeadsTo(mem.att, Phase, draft'.outcome, draft'.att)
      BY <2>3, <2>5, <2>6 DEF LeadsTo
    <2> QED
      BY <1>2, <2>5, <2>7, WorkKeepsUnit DEF RunPhase, At, graph, ledger
  <1> QED
    BY <1>1, <1>2

\* A rejected turn fails its own operation, which holds no restorable answer.
LEMMA RejectedKeepsUnit ==
  ASSUME CycleInv, TurnRejected
  PROVE  UnitInv'
  <1>1. /\ UNCHANGED <<ws, arts, mem, prior>> /\ stage' = "enter" /\ run' = "blocked"
        /\ mem.node.at = "work" /\ mem.node.step = "turn" /\ mem.op[2] = "turn"
        /\ DOMAIN rows' = DOMAIN rows
        /\ \A o \in DOMAIN rows : o # mem.op => rows'[o] = rows[o]
        /\ prior.node.at \in {"reconcile", "work"} /\ prior.node.step = "turn"
        /\ DOMAIN arts \subseteq DOMAIN rows
    <2>1. At("turn", "work")
      BY DEF TurnRejected
    <2>2. /\ UNCHANGED <<ws, arts, mem, prior>> /\ stage' = "enter" /\ run' = "blocked"
          /\ DOMAIN rows' = DOMAIN rows
          /\ \A o \in DOMAIN rows : o # mem.op => rows'[o] = rows[o]
      BY DEF TurnRejected, Raise, graph
    <2>3. /\ prior.node.at \in {"reconcile", "work"} /\ mem.op[2] = mem.node.step
          /\ DOMAIN arts \subseteq DOMAIN rows
      BY <2>1 DEF At, CycleInv, PassInv, LedgerInv, WorkInv, Reconciled
    <2>4. prior.node.step = mem.node.step
      BY <2>1 DEF At, CycleInv, UnitInv
    <2> QED
      BY <2>1, <2>2, <2>3, <2>4 DEF At
  <1>2. Continues(mem)' /\ Continues(prior)'
    <2>1. ContinuesIn(mem, rows, arts, ws) /\ ContinuesIn(prior, rows, arts, ws)
      BY ContinuesParts DEF CycleInv, UnitInv
    <2>2. ContinuesIn(mem, rows', arts, ws) /\ ContinuesIn(prior, rows', arts, ws)
      BY <1>1, <2>1 DEF ContinuesIn, RowsReached, NodeContinues
    <2> QED
      BY <1>1, <2>2, ContinuesParts
  <1>3. \A o \in DOMAIN arts' : o[2] # "turn"
          => arts'[o].status = "phase" /\ rows'[o].status \in {"STARTED", "COMPLETED"}
    BY <1>1 DEF CycleInv, UnitInv
  <1> QED
    BY <1>1, <1>2, <1>3 DEF CycleInv, UnitInv, Phase

\* The stored answer leads on from both graph states: they are of one node.
LEMMA StoreKeepsUnit ==
  ASSUME CycleInv, Store
  PROVE  UnitInv'
  <1>0. UnitInv
    BY DEF CycleInv
  <1>1. /\ run = "running" /\ stage = "worked" /\ mem.node.at = "work"
        /\ mem.op \in DOMAIN rows /\ mem.op[1] = Phase /\ mem.op[2] = mem.node.step
        /\ prior.node.phase = Phase /\ prior.node.at \in {"reconcile", "work"}
        /\ DOMAIN arts \subseteq DOMAIN rows
        /\ Phase \in Repairs => mem.node.step \in {"turn", "interpret"}
    <2>1. run = "running" /\ stage = "worked" /\ mem.node.at = "work"
      BY DEF Store, CycleInv, PassInv, LedgerInv, WorkInv
    <2>2. Phase \in Repairs => mem.node.step \in {"turn", "interpret"}
      BY NodeTyped, PhaseSets DEF CycleInv, PassInv, Steps
    <2> QED
      BY <2>1, <2>2 DEF CycleInv, PassInv, LedgerInv, WorkInv, Reconciled, Phase
  <1>2. CASE /\ arts' = Put(arts, mem.op, draft) /\ stage' = "stored"
             /\ UNCHANGED <<graph, run, draft>>
    <2>1. /\ UNCHANGED <<ws, rows, mem, prior, run, draft, product>>
          /\ DOMAIN arts' = DOMAIN arts \cup {mem.op}
          /\ \A o \in DOMAIN arts' : arts'[o] = IF o = mem.op THEN draft ELSE arts[o]
      BY <1>2 DEF Store, graph, Put
    <2>2. /\ mem.node.step # "turn" => /\ LeadsTo(mem.att, Phase, draft.outcome, draft.att)
                                       /\ draft.status = "phase"
                                       /\ rows[mem.op].status \in {"STARTED", "COMPLETED"}
          /\ prior.att = mem.att /\ prior.node.step = mem.node.step
          /\ Continues(mem) /\ Continues(prior)
      BY <1>1 DEF CycleInv, UnitInv, Continues
    <2>3. ASSUME NEW g \in {mem, prior} PROVE ContinuesIn(g, rows, arts', ws)
      <3>1. ContinuesIn(g, rows, arts, ws)
        BY <2>2, ContinuesParts
      <3>2. /\ g.att = mem.att /\ g.node.phase = Phase /\ g.node.step = mem.node.step
            /\ g.node.at \in {"reconcile", "work"}
        BY <1>1, <2>2 DEF Phase
      <3>3. ASSUME NEW o \in DOMAIN arts', o[2] # "turn", Current(g, o)
            PROVE  /\ LeadsTo(g.att, o[1], arts'[o].outcome, arts'[o].att)
                   /\ o[1] \in Repairs => g.node.phase = o[1] /\ g.node.step = "interpret"
        <4>1. CASE o = mem.op
          BY <1>1, <2>1, <2>2, <3>2, <3>3, <4>1
        <4>2. CASE o # mem.op
          BY <2>1, <3>1, <3>3, <4>2 DEF ContinuesIn, ResultsContinue
        <4> QED
          BY <4>1, <4>2
      <3> QED
        BY <3>1, <3>2, <3>3 DEF ContinuesIn, ResultsContinue, NodeContinues
    <2>4. Continues(mem)' /\ Continues(prior)'
      BY <2>1, <2>3, ContinuesParts
    <2>5. \A o \in DOMAIN arts' : o[2] # "turn"
            => arts'[o].status = "phase" /\ rows'[o].status \in {"STARTED", "COMPLETED"}
      BY <1>1, <2>1, <2>2 DEF CycleInv, UnitInv
    <2>6. mem'.node.step # "turn"
            => LeadsTo(mem.att, Phase, draft.outcome, draft.att)' /\ draft'.status = "phase"
      BY <2>1, <2>2 DEF LeadsTo, Phase
    <2> QED
      BY <1>0, <1>1, <1>2, <2>1, <2>4, <2>5, <2>6 DEF UnitInv, Phase
  <1>3. CASE arts' = arts /\ Raise
    BY <1>0, <1>3, OutsideKeepsUnit DEF Store, Raise, graph
  <1> QED
    BY <1>2, <1>3 DEF Store

\* A node returns: its update continues from where the unit was.
LEMMA MoveKeepsUnit ==
  ASSUME CycleInv, UNCHANGED <<ws, arts, run, product>>, DOMAIN rows' = DOMAIN rows,
         run = "running", stage' = "enter", prior' = mem, mem'.node.at # "work",
         RowsReached(mem', rows), ResultsContinue(mem', arts),
         NodeContinues(mem', rows', arts, ws), NodeContinues(mem, rows', arts, ws),
         \A q \in Phases : mem.att[q] <= mem'.att[q],
         mem'.node.phase \in Preparation => Phase \in Preparation,
         \A o \in DOMAIN arts : o[2] # "turn" => rows'[o].status \in {"STARTED", "COMPLETED"}
  PROVE  UnitInv'
  <1>1. RowsReached(mem, rows) /\ ResultsContinue(mem, arts)
    BY ContinuesParts DEF CycleInv, UnitInv, ContinuesIn
  <1>2. RowsReached(mem, rows') /\ RowsReached(mem', rows')
    BY <1>1, ReachedFrame
  <1>3. ContinuesIn(mem', rows', arts', ws') /\ ContinuesIn(prior', rows', arts', ws')
    BY <1>1, <1>2 DEF ContinuesIn
  <1>4. Continues(mem)' /\ Continues(prior)'
    BY <1>3, ContinuesParts
  <1> QED
    BY <1>4 DEF CycleInv, UnitInv, Phase

\* A recorded or restored result: where it leads is where the unit goes on.
LEMMA ProjectedKeepsUnit ==
  ASSUME CycleInv, UNCHANGED <<ws, arts, run, product>>, DOMAIN rows' = DOMAIN rows,
         run = "running", stage' = "enter", prior' = mem,
         mem.node.at \in {"work", "rehydrate"}, mem.op \in DOMAIN arts,
         mem' = Projected(Phase, mem.node.step, arts[mem.op]),
         NodeContinues(mem, rows', arts, ws),
         \A o \in DOMAIN arts : o[2] # "turn" => rows'[o].status \in {"STARTED", "COMPLETED"}
  PROVE  UnitInv'
  <1> DEFINE env == arts[mem.op]
  <1>0. /\ PassInv /\ LedgerInv /\ GraphOK(mem) /\ mem.verdict = "none" /\ env \in Envelopes
        /\ mem.op[1] = Phase /\ mem.op[2] = mem.node.step
        /\ Phase \in Phases
        /\ RowsReached(mem, rows) /\ ResultsContinue(mem, arts) /\ NodeContinues(mem, rows, arts, ws)
    <2>1. PassInv /\ LedgerInv /\ GraphOK(mem) /\ env \in Envelopes
      BY DEF CycleInv, PassInv, LedgerInv, TypeOK
    <2>2. mem.verdict = "none" /\ mem.op[1] = Phase /\ mem.op[2] = mem.node.step
      BY DEF CycleInv, PassInv, LedgerInv, WorkInv, Reconciled, Phase
    <2>3. ContinuesIn(mem, rows, arts, ws)
      BY ContinuesParts DEF CycleInv, UnitInv
    <2> QED
      BY <2>1, <2>2, <2>3, NodeTyped DEF ContinuesIn
  <1>1. CASE mem.node.step = "turn"
    <2>1. /\ mem'.att = mem.att /\ mem'.op = mem.op
          /\ \/ mem'.node = Node(Phase, "turn", "pause")
             \/ mem'.node = Node(Phase, "interpret", "reconcile")
      BY <1>0, <1>1, ProjectedGraph
    <2>2. /\ mem'.node.phase = Phase /\ mem'.node.at \in {"pause", "reconcile"}
          /\ mem'.node.at = "pause" => mem'.node.step = "turn"
      BY <2>1 DEF Node
    <2>3. RowsReached(mem', rows) /\ ResultsContinue(mem', arts)
      BY <1>0, <1>1, <2>1, <2>2, SamePlace DEF Phase
    <2>4. NodeContinues(mem', rows', arts, ws)
      BY <2>2 DEF NodeContinues
    <2>5. \A q \in Phases : mem.att[q] <= mem'.att[q]
      <3>1. \A q \in Phases : mem.att[q] \in Nat
        BY <1>0, PhaseSets DEF GraphOK
      <3> QED
        BY <2>1, <3>1
    <2> QED
      BY <2>2, <2>3, <2>4, <2>5, MoveKeepsUnit
  <1>2. CASE mem.node.step # "turn"
    <2>1. LeadsTo(mem.att, Phase, env.outcome, env.att)
      <3>1. mem.op[3] = mem.att[Phase]
        BY <1>0 DEF NodeContinues, Phase
      <3>2. Current(mem, mem.op)
        BY <1>0, <3>1 DEF Current, Phase
      <3> QED
        BY <1>0, <1>2, <3>2 DEF ResultsContinue
    <2>2. env.outcome \in Possible(Phase)
      BY <1>0, <1>2 DEF PassInv, AnswerInv
    <2>3. /\ RowsReached(mem', rows) /\ ResultsContinue(mem', arts)
          /\ \A q \in Phases : mem.att[q] <= mem'.att[q]
          /\ mem'.node.phase \in Preparation => Phase \in Preparation
      BY <1>0, <1>2, <2>1, <2>2, AnswerGoesOn
    <2>4. /\ mem'.op = mem.op
          /\ mem'.node.at = "reconcile" \/ (mem'.node.at = "end" /\ mem'.verdict = env.outcome)
      <3>1. /\ mem'.op = mem.op
            /\ IF Phase = "complete_generation"
               THEN mem'.node = Node(Phase, mem.node.step, "end") /\ mem'.verdict = env.outcome
               ELSE mem'.node = Enter(Successor(Phase, env.outcome)) /\ mem'.verdict = "none"
        BY <1>0, <1>2, ProjectedGraph
      <3>2. Enter(Successor(Phase, env.outcome)).at = "reconcile"
        BY SuccessorTyped, EnterTyped
      <3> QED
        BY <3>1, <3>2 DEF Node
    <2>5. NodeContinues(mem', rows', arts, ws)
      BY <2>4 DEF NodeContinues
    <2> QED
      BY <2>3, <2>4, <2>5, MoveKeepsUnit
  <1> QED
    BY <1>1, <1>2

LEMMA RecordKeepsUnit ==
  ASSUME CycleInv, Record
  PROVE  UnitInv'
  <1>0. UnitInv
    BY DEF CycleInv
  <1>1. CASE /\ rows[mem.op].status \in {"STARTED", FinalStatus(draft)}
             /\ rows' = [rows EXCEPT ![mem.op].status = FinalStatus(draft)]
             /\ Return(Projected(Phase, mem.node.step, draft))
             /\ stage' = "enter"
             /\ draft' = NoDraft
             /\ run' = run
    <2>1. /\ run = "running" /\ stage = "stored" /\ mem.node.at = "work"
          /\ mem.op \in DOMAIN rows /\ mem.op \in DOMAIN arts /\ arts[mem.op] = draft
          /\ mem.op[2] = mem.node.step /\ DOMAIN arts \subseteq DOMAIN rows
          /\ rows[mem.op] \in RowType
      <3>1. run = "running" /\ stage = "stored" /\ mem.node.at = "work" /\ mem.op \in DOMAIN rows
        BY DEF Record, CycleInv, PassInv, LedgerInv, WorkInv, Reconciled
      <3> QED
        BY <3>1 DEF CycleInv, PassInv, LedgerInv, WorkInv, Reconciled, TypeOK, RowType, UnitInv
    <2>2. UNCHANGED <<ws, arts, run, product>>
      BY <1>1 DEF Record
    <2>3. mem' = Projected(Phase, mem.node.step, arts[mem.op]) /\ prior' = mem
      BY <1>1, <2>1 DEF Return
    <2>4. /\ DOMAIN rows' = DOMAIN rows
          /\ rows'[mem.op].status = FinalStatus(draft)
          /\ \A o \in DOMAIN rows : o # mem.op => rows'[o] = rows[o]
      BY <1>1, <2>1 DEF RowType
    <2>5. mem.node.step # "turn" => FinalStatus(draft) = "COMPLETED"
      BY <2>1 DEF FinalStatus, CycleInv, UnitInv
    <2>6. \A o \in DOMAIN arts : o[2] # "turn" => rows'[o].status \in {"STARTED", "COMPLETED"}
      BY <2>1, <2>4, <2>5 DEF CycleInv, UnitInv
    <2>7. NodeContinues(mem, rows', arts, ws)
      <3>1. NodeContinues(mem, rows, arts, ws)
        BY ContinuesParts DEF CycleInv, UnitInv, ContinuesIn
      <3> QED
        BY <2>1, <2>4, <2>5, <3>1 DEF NodeContinues
    <2> QED
      BY <1>1, <2>1, <2>2, <2>3, <2>4, <2>6, <2>7, ProjectedKeepsUnit
  <1>2. CASE rows' = rows /\ Raise
    BY <1>0, <1>2, OutsideKeepsUnit DEF Record, Raise, graph
  <1> QED
    BY <1>1, <1>2 DEF Record

LEMMA RouteKeepsUnit ==
  ASSUME CycleInv, Rehydrate \/ Pause \/ Terminate
  PROVE  UnitInv'
  <1>0. /\ UnitInv /\ LedgerInv /\ run = "running" /\ Phase \in Phases
        /\ mem.node.at # "work" => stage = "enter"
        /\ mem.node.at = "rehydrate" => mem.op \in DOMAIN arts
        /\ RowsReached(mem, rows) /\ ResultsContinue(mem, arts) /\ NodeContinues(mem, rows, arts, ws)
        /\ \A o \in DOMAIN arts : o[2] # "turn" => rows[o].status \in {"STARTED", "COMPLETED"}
        /\ \A q \in Phases : mem.att[q] \in Nat
        /\ mem = [node |-> mem.node, op |-> mem.op, att |-> mem.att, streak |-> mem.streak,
                  seen |-> mem.seen, turn |-> mem.turn, evid |-> mem.evid, verdict |-> mem.verdict]
    <2>1. UnitInv /\ LedgerInv
      BY DEF CycleInv, PassInv
    <2>2. run = "running"
      BY DEF Rehydrate, Pause, Terminate
    <2>3. ContinuesIn(mem, rows, arts, ws)
      BY <2>1, ContinuesParts DEF UnitInv
    <2>4. \A q \in Phases : mem.att[q] \in Nat
      BY <2>1, NodeTyped, PhaseSets
    <2> QED
      BY <2>1, <2>2, <2>3, <2>4, NodeTyped
         DEF ContinuesIn, UnitInv, LedgerInv, WorkInv, Reconciled, TypeOK, GraphOK
  <1>1. CASE Rehydrate
    <2>1. /\ mem.node.at = "rehydrate" /\ prior' = mem
          /\ mem' = Projected(Phase, mem.node.step, arts[mem.op])
      BY <1>0, <1>1 DEF Rehydrate, Return
    <2>2. UNCHANGED <<ws, rows, arts, stage, run, product>>
      BY <1>1 DEF Rehydrate, ledger
    <2> QED
      BY <1>0, <2>1, <2>2, ProjectedKeepsUnit
  <1>2. CASE Pause
    <2>1. CASE Raise
      BY <1>0, <1>2, <2>1, OutsideKeepsUnit DEF Pause, Raise, graph, ledger
    <2>2. CASE Return([mem EXCEPT !.node = Enter(Phase)]) /\ UNCHANGED <<stage, draft, run>>
      <3>1. /\ mem' = [mem EXCEPT !.node = Enter(Phase)] /\ prior' = mem /\ mem.node.at = "pause"
            /\ UNCHANGED <<ws, rows, arts, stage, run, product>>
        BY <1>2, <2>2 DEF Return, Pause, ledger
      <3>2. mem'.node = Enter(Phase) /\ mem'.att = mem.att
        BY <1>0, <3>1
      <3>3. mem'.node.phase = mem.node.phase /\ mem'.node.at = "reconcile"
        BY <1>0, <3>2, EnterTyped DEF Phase
      <3>4. mem.node.step = "turn"
        BY <1>0, <3>1 DEF NodeContinues
      <3>5. RowsReached(mem', rows) /\ ResultsContinue(mem', arts)
        BY <1>0, <3>2, <3>3, <3>4, SamePlace
      <3>6. NodeContinues(mem', rows, arts, ws)
        BY <3>3 DEF NodeContinues
      <3>7. \A q \in Phases : mem.att[q] <= mem'.att[q]
        BY <1>0, <3>2
      <3> QED
        BY <1>0, <3>1, <3>3, <3>5, <3>6, <3>7, MoveKeepsUnit DEF Phase
    <2> QED
      BY <1>2, <2>1, <2>2 DEF Pause
  <1>3. CASE Terminate
    <2>1. /\ mem' = [mem EXCEPT !.verdict = "terminated", !.node.at = "end"] /\ prior' = mem
          /\ mem.node.at = "terminate"
          /\ UNCHANGED <<ws, rows, arts, stage, run, product>>
      BY <1>3 DEF Terminate, Return, ledger
    <2>2. mem'.node = [mem.node EXCEPT !.at = "end"] /\ mem'.att = mem.att /\ mem'.op = mem.op
      BY <1>0, <2>1
    <2>3. /\ mem'.node.phase = mem.node.phase /\ mem'.node.step = mem.node.step
          /\ mem'.node.at = "end"
      BY <1>0, <2>2, NodeTyped DEF Nodes
    <2>4. RowsReached(mem', rows) /\ ResultsContinue(mem', arts)
      BY <1>0, <2>2, <2>3, SamePlace
    <2>5. NodeContinues(mem', rows, arts, ws)
      BY <1>0, <2>1, <2>2, <2>3 DEF NodeContinues, ClosedIn
    <2>6. \A q \in Phases : mem.att[q] <= mem'.att[q]
      BY <1>0, <2>2
    <2> QED
      BY <1>0, <2>1, <2>3, <2>4, <2>5, <2>6, MoveKeepsUnit DEF Phase
  <1> QED
    BY <1>1, <1>2, <1>3

LEMMA AroundKeepsUnit ==
  ASSUME CycleInv, Begin \/ Finish \/ ReusedUnit \/ Deliver \/ RequestStop \/ Crash
  PROVE  UnitInv'
  <1>0. UnitInv
    BY DEF CycleInv
  <1>1. CASE Begin \/ ReusedUnit \/ Deliver \/ RequestStop
    BY <1>0, <1>1, OutsideKeepsUnit
       DEF Begin, ReusedUnit, Deliver, RequestStop, ledger, graph, UnitInv
  <1>2. CASE Finish
    <2>1. /\ mem.node.at = "end" /\ run = "running" /\ run' \in {"returned", "blocked"}
          /\ run' = "returned" => ValidTerminal
          /\ UNCHANGED <<ws, rows, arts, mem, prior, stage, draft, product>>
      BY <1>2 DEF Finish, ledger, graph
    <2>2. mem.op \in DOMAIN rows
      BY <2>1 DEF CycleInv, PassInv, LedgerInv, WorkInv, Reconciled
    <2>3. run' = "returned" => Closed(mem)
      BY <2>1, <2>2 DEF ValidTerminal, Closed
    <2> QED
      BY <1>0, <2>1, <2>3, OutsideKeepsUnit DEF UnitInv
  <1>3. CASE Crash
    <2>1. /\ UNCHANGED <<ws, rows, arts>>
          /\ mem' \in {mem, prior} /\ prior' = mem' /\ stage' = "enter" /\ run' = "idle"
      BY <1>3 DEF Crash, ledger
    <2>2. ContinuesIn(mem', rows', arts', ws')
      BY <1>0, <2>1, ContinuesParts DEF UnitInv
    <2>3. Continues(mem)' /\ Continues(prior)'
      BY <2>1, <2>2, ContinuesParts
    <2>4. \A q \in Phases : prior'.att[q] <= mem'.att[q]
      <3>1. \A q \in Phases : mem.att[q] \in Nat /\ prior.att[q] \in Nat
        BY PhaseSets DEF CycleInv, PassInv, LedgerInv, TypeOK, GraphOK
      <3> QED
        BY <2>1, <3>1
    <2> QED
      BY <1>0, <2>1, <2>3, <2>4 DEF UnitInv, Phase
  <1> QED
    BY <1>1, <1>2, <1>3

\* What a reconciliation leaves of the rows and the artifacts.
LEMMA ReconcileSettles ==
  ASSUME LedgerInv, Reconcile
  PROVE  LET d == Classify(Phase, mem.node.step)
         IN  /\ Settled(d) /\ d.op \in DOMAIN rows'
             /\ d.outcome = "verify_existing_edit"
                  => Unrestorable(Phase, mem.node.step, mem.att[Phase])
             /\ d.outcome = "run" => \A o \in DOMAIN rows' \cap DOMAIN rows : rows'[o] = rows[o]
             /\ DOMAIN rows' \subseteq DOMAIN rows \cup {d.op}
             /\ \A o \in DOMAIN rows \ DOMAIN rows' : ~Consultable(o)
             /\ DOMAIN arts' \subseteq DOMAIN arts \cap DOMAIN rows'
             /\ \A o \in DOMAIN arts' : arts'[o] = arts[o]
             /\ \A o \in DOMAIN arts \cap DOMAIN rows' : o \in DOMAIN arts'
  <1> DEFINE d == Classify(Phase, mem.node.step)
  <1>1. Promised(d, Phase, mem.node.step) /\ Reconciliation(d)
    BY ReconcileFacts
  <1>2. DOMAIN arts \subseteq DOMAIN rows
    BY DEF LedgerInv, WorkInv
  <1>3. /\ Settled(d)
        /\ d.outcome = "verify_existing_edit" => Unrestorable(Phase, mem.node.step, mem.att[Phase])
        /\ d.outcome = "run" =>
             \A o \in DOMAIN d.rows \cap DOMAIN rows : d.rows[o] = rows[o] /\ Consultable(o)
    <2>1. RowsOK(rows) /\ Consistent(rows, arts)
      BY DEF LedgerInv, TypeOK, LedgerConsistent, RowsOK, Consistent, RowType
    <2> QED
      BY <1>2, <2>1, NodeTyped, ClassifySettles
  <1> HIDE DEF d
  <1>4. rows' = d.rows /\ arts' = IF d.outcome = "run" THEN Kept(arts) ELSE arts
    BY <1>1 DEF Reconciliation
  <1>5. CASE d.outcome = "run"
    <2>1. DOMAIN rows' = {o \in DOMAIN rows : Consultable(o)} \cup {d.op}
      BY <1>1, <1>4, <1>5 DEF Promised, Kept
    <2>2. d.op \notin DOMAIN rows
      BY <1>3, <1>5 DEF Settled
    <2>3. /\ DOMAIN arts' = {o \in DOMAIN arts : Consultable(o)}
          /\ \A o \in DOMAIN arts' : arts'[o] = arts[o]
      BY <1>4, <1>5 DEF Kept
    <2> QED
      BY <1>2, <1>3, <1>4, <1>5, <2>1, <2>2, <2>3 DEF d
  <1>6. CASE d.outcome # "run"
    <2>1. DOMAIN rows' = DOMAIN rows \cup {d.op} /\ arts' = arts
      BY <1>1, <1>4, <1>6 DEF Promised
    <2> QED
      BY <1>2, <1>3, <1>4, <1>6, <2>1 DEF d
  <1> QED
    BY <1>5, <1>6

LEMMA ReconcileKeepsUnit ==
  ASSUME CycleInv, Reconcile
  PROVE  UnitInv'
  <1> DEFINE step == mem.node.step
             d == Classify(Phase, step)
  <1>0. LedgerInv /\ UnitInv
    BY DEF CycleInv, PassInv
  <1>1. /\ mem.node.at = "reconcile" /\ run = "running" /\ Phase \in Phases /\ prior' = mem
        /\ Promised(d, Phase, step) /\ d.op[3] = mem.att[Phase]
        /\ mem'.op = d.op /\ mem'.node = AfterDecision(Phase, step, d.outcome)
        /\ mem'.att = mem.att /\ mem'.verdict = mem.verdict
        /\ d.outcome # "run" => arts' = arts
        /\ rows' = d.rows
    BY <1>0, ReconcileFacts DEF Reconciliation
  <1>2. /\ Settled(d) /\ d.op \in DOMAIN rows'
        /\ d.outcome = "verify_existing_edit" => Unrestorable(Phase, step, mem.att[Phase])
        /\ DOMAIN rows' \subseteq DOMAIN rows \cup {d.op}
        /\ DOMAIN arts' \subseteq DOMAIN arts \cap DOMAIN rows'
        /\ \A o \in DOMAIN arts' : arts'[o] = arts[o]
    BY <1>0, ReconcileSettles
  <1>3. /\ step \in Steps /\ (step = "deterministic" <=> Phase \in ToolPhases)
        /\ stage = "enter" /\ DOMAIN arts \subseteq DOMAIN rows /\ DOMAIN rows \subseteq Ops
        /\ \A q \in Phases : mem.att[q] \in Nat
        /\ UNCHANGED <<ws, stage, draft, run, product>>
        /\ d.op[1] = Phase
    <2>1. /\ stage = "enter" /\ DOMAIN arts \subseteq DOMAIN rows /\ DOMAIN rows \subseteq Ops
      BY <1>0, <1>1 DEF LedgerInv, WorkInv, TypeOK
    <2>2. \A q \in Phases : mem.att[q] \in Nat
      BY <1>0, NodeTyped, PhaseSets
    <2>3. UNCHANGED <<ws, stage, draft, run, product>>
      BY DEF Reconcile
    <2>4. d.op[1] = Phase
      BY <1>1 DEF Promised
    <2> QED
      BY <1>0, <2>1, <2>2, <2>3, <2>4, NodeTyped
  <1> HIDE DEF d
  <1>4. \A o \in DOMAIN arts' : o[2] # "turn"
          => arts'[o].status = "phase" /\ rows'[o].status \in {"STARTED", "COMPLETED"}
    <2>1. SUFFICES ASSUME NEW o \in DOMAIN arts', o[2] # "turn"
                   PROVE  arts'[o].status = "phase" /\ rows'[o].status \in {"STARTED", "COMPLETED"}
      OBVIOUS
    <2>2. /\ arts[o].status = "phase" /\ rows[o].status \in {"STARTED", "COMPLETED"}
          /\ o \in DOMAIN rows \cap DOMAIN d.rows /\ o \in DOMAIN arts
      BY <1>0, <1>1, <1>2, <1>3, <2>1 DEF UnitInv
    <2>3. \/ d.rows[o].status = rows[o].status
          \/ GivenUp(d.rows, o)
          \/ o = d.op /\ d.outcome = "adopt_result"
      BY <1>2, <2>2 DEF Settled
    <2>4. ~GivenUp(d.rows, o)
      BY <2>2 DEF GivenUp
    <2>5. d.outcome = "adopt_result" => d.rows[d.op].status = "COMPLETED"
      BY <1>2 DEF Settled
    <2> QED
      BY <1>1, <1>2, <2>1, <2>2, <2>3, <2>4, <2>5
  <1>5. RowsReached(mem, rows') /\ ResultsContinue(mem, arts') /\ NodeContinues(mem, rows', arts', ws)
    <2>1. RowsReached(mem, rows) /\ ResultsContinue(mem, arts)
      BY <1>0, ContinuesParts DEF UnitInv, ContinuesIn
    <2>2. RowsReached(mem, rows')
      <3>1. ASSUME NEW o \in DOMAIN rows', o = d.op
            PROVE  /\ o[3] <= mem.att[o[1]]
                   /\ Place(o[1]) <= Place(mem.node.phase)
                   /\ o[1] = mem.node.phase
        <4>1. Place(Phase) \in Nat
          BY <1>1, PlaceTyped
        <4> QED
          BY <1>1, <1>3, <3>1, <4>1 DEF Phase
      <3> QED
        BY <1>2, <2>1, <3>1 DEF RowsReached
    <2>3. ResultsContinue(mem, arts')
      BY <1>2, <2>1, ResultsFrame
    <2>4. NodeContinues(mem, rows', arts', ws)
      BY <1>1 DEF NodeContinues
    <2> QED
      BY <2>2, <2>3, <2>4
  <1>6. \/ /\ mem'.node = Node(Phase, step, "work") \/ mem'.node = Node(Phase, step, "rehydrate")
              \/ mem'.node = Node(Phase, step, "terminate")
           /\ mem'.node = Node(Phase, step, "work") => d.outcome \in {"run", "retry_no_effect"}
           /\ mem'.node = Node(Phase, step, "terminate")
                => d.outcome \in {"verify_existing_edit", "fail_unsafe", "fail_indeterminate"}
        \/ /\ d.outcome = "verify_existing_edit" /\ Phase \in Repairs \cup {"generate_tests"}
           /\ mem'.node = Enter("verify_compile") \/ mem'.node = Enter("verify_tests")
    <2>1. d.outcome \in {"run", "retry_no_effect", "reuse_result", "adopt_result",
                         "verify_existing_edit", "fail_unsafe", "fail_indeterminate"}
      BY <1>1 DEF Promised
    <2>2. CASE d.outcome \in {"run", "retry_no_effect"}
      <3>1. mem'.node = Node(Phase, step, "work")
        BY <1>1, <2>2 DEF AfterDecision
      <3> QED
        BY <2>2, <3>1 DEF Node
    <2>3. CASE d.outcome \in {"reuse_result", "adopt_result"}
      <3>1. mem'.node = Node(Phase, step, "rehydrate")
        BY <1>1, <2>3 DEF AfterDecision
      <3> QED
        BY <2>3, <3>1 DEF Node
    <2>4. CASE d.outcome \in {"verify_existing_edit", "fail_unsafe", "fail_indeterminate"}
      <3>1. \/ mem'.node = Node(Phase, step, "terminate")
            \/ /\ d.outcome = "verify_existing_edit" /\ Phase \in Repairs \cup {"generate_tests"}
               /\ mem'.node = Enter("verify_compile") \/ mem'.node = Enter("verify_tests")
        BY <1>1, <1>3, <2>4, AfterDecisionNode
      <3> QED
        BY <2>4, <3>1 DEF Node
    <2> QED
      BY <2>1, <2>2, <2>3, <2>4
  <1>7. CASE \/ mem'.node = Node(Phase, step, "work") \/ mem'.node = Node(Phase, step, "rehydrate")
             \/ mem'.node = Node(Phase, step, "terminate")
    <2>1. mem'.node.phase = mem.node.phase /\ mem'.node.step = mem.node.step
      BY <1>7 DEF Node, Phase
    <2>2. RowsReached(mem', rows') /\ ResultsContinue(mem', arts')
      BY <1>1, <1>5, <2>1, SamePlace
    <2>3. NodeContinues(mem', rows', arts', ws)
      <3>1. CASE mem'.node = Node(Phase, step, "work")
        <4>1. mem'.node.at = "work" /\ d.outcome \in {"run", "retry_no_effect"}
          BY <1>6, <3>1, EnterTyped DEF Node, Phases, ToolPhases, Verifiers
        <4>2. rows'[mem'.op].status = "STARTED"
          BY <1>1, <1>2, <4>1 DEF Settled
        <4> QED
          BY <1>1, <2>1, <4>1, <4>2 DEF NodeContinues, Phase
      <3>2. CASE mem'.node = Node(Phase, step, "rehydrate")
        <4>1. mem'.node.at = "rehydrate"
          BY <3>2 DEF Node
        <4> QED
          BY <1>1, <2>1, <4>1 DEF NodeContinues, Phase
      <3>3. CASE mem'.node = Node(Phase, step, "terminate")
        <4>1. /\ mem'.node.at = "terminate"
              /\ d.outcome \in {"verify_existing_edit", "fail_unsafe", "fail_indeterminate"}
          BY <1>6, <3>3, EnterTyped DEF Node, Phases, ToolPhases, Verifiers
        <4>2. ~ClosedIn(mem', rows', arts', ws)
          BY <1>1, <1>2, <4>1 DEF ClosedIn, Settled
        <4> QED
          BY <4>1, <4>2 DEF NodeContinues
      <3> QED
        BY <1>7, <3>1, <3>2, <3>3
    <2>4. ContinuesIn(mem', rows', arts', ws') /\ ContinuesIn(prior', rows', arts', ws')
      BY <1>1, <1>3, <1>5, <2>2, <2>3 DEF ContinuesIn
    <2>5. Continues(mem)' /\ Continues(prior)'
      BY <2>4, ContinuesParts
    <2>6. \A q \in Phases : prior'.att[q] <= mem'.att[q]
      BY <1>1, <1>3
    <2> QED
      BY <1>0, <1>1, <1>3, <1>4, <2>1, <2>5, <2>6 DEF UnitInv, Phase
  <1>8. CASE /\ d.outcome = "verify_existing_edit" /\ Phase \in Repairs \cup {"generate_tests"}
             /\ mem'.node = Enter("verify_compile") \/ mem'.node = Enter("verify_tests")
    <2>1. mem'.node.phase \in {"verify_compile", "verify_tests"} /\ mem'.node.at = "reconcile"
      BY <1>8, EnterTyped DEF Phases, ToolPhases, Verifiers
    <2>2. ASSUME NEW o \in DOMAIN arts', o[1] = Phase, o[2] = "interpret", step = "interpret",
                 o[3] = mem.att[o[1]]
          PROVE  FALSE
      <3>1. /\ arts[o].status = "phase" /\ rows[o].status \in {"STARTED", "COMPLETED"}
            /\ o \in DOMAIN arts
        BY <1>0, <1>2, <2>2 DEF UnitInv
      <3> QED
        BY <1>2, <1>8, <2>2, <3>1 DEF Unrestorable
    <2>3. \A o \in DOMAIN arts' : o[1] \in Repairs => o[2] \in {"turn", "interpret"}
      <3>1. ASSUME NEW o \in DOMAIN arts', o[1] \in Repairs PROVE o[2] \in {"turn", "interpret"}
        <4>1. o \in Ops
          BY <1>2, <1>3
        <4>2. o[2] \in Steps /\ (o[2] = "deterministic" <=> o[1] \in ToolPhases)
          BY <4>1 DEF Ops
        <4> QED
          BY <3>1, <4>2, PhaseSets DEF Steps
      <3> QED
        BY <3>1
    <2>4. RowsReached(mem', rows') /\ ResultsContinue(mem', arts')
      BY <1>1, <1>5, <1>8, <2>1, <2>2, <2>3, JudgedEdit DEF Phase
    <2>5. NodeContinues(mem', rows', arts', ws)
      BY <2>1 DEF NodeContinues
    <2>6. ContinuesIn(mem', rows', arts', ws') /\ ContinuesIn(prior', rows', arts', ws')
      BY <1>1, <1>3, <1>5, <2>4, <2>5 DEF ContinuesIn
    <2>7. Continues(mem)' /\ Continues(prior)'
      BY <2>6, ContinuesParts
    <2>8. \A q \in Phases : prior'.att[q] <= mem'.att[q]
      BY <1>1, <1>3
    <2>9. Phase' \notin Preparation
      BY <2>1 DEF Phase, Preparation
    <2> QED
      BY <1>0, <1>1, <1>3, <1>4, <2>1, <2>7, <2>8, <2>9 DEF UnitInv
  <1> QED
    BY <1>6, <1>7, <1>8

LEMMA InitUnit == Init => CycleInv
  <1> SUFFICES ASSUME Init PROVE CycleInv
    OBVIOUS
  <1>1. /\ DOMAIN rows = {} /\ DOMAIN arts = {} /\ mem = Start /\ prior = Start
        /\ stage = "enter" /\ run = "idle"
    BY DEF Init
  <1>2. Start.node.at = "reconcile" /\ \A q \in Phases : Start.att[q] = 0
    BY EnterTyped, PhaseSets DEF Start, Zero, Phases, ToolPhases
  <1>3. Continues(mem) /\ Continues(prior)
    BY <1>1, <1>2 DEF Continues
  <1>4. UnitInv
    BY <1>1, <1>2, <1>3 DEF UnitInv, Phase
  <1> QED
    BY <1>4, InitPass DEF CycleInv

LEMMA NextUnit == CycleInv /\ [Next]_vars => CycleInv'
  <1> SUFFICES ASSUME CycleInv, [Next]_vars PROVE UnitInv'
    BY NextPass DEF CycleInv
  <1>1. CASE UNCHANGED vars
    BY <1>1, OutsideKeepsUnit DEF vars, CycleInv, UnitInv
  <1>2. CASE Next
    BY <1>2, ReconcileKeepsUnit, RouteKeepsUnit, TurnKeepsUnit, RejectedKeepsUnit,
       PhaseKeepsUnit, StoreKeepsUnit, RecordKeepsUnit, AroundKeepsUnit DEF Next, Step
  <1> QED
    BY <1>1, <1>2

-----------------------------------------------------------------------------
(* Every step of the cycle is one of a durable unit.                       *)

LEMMA RecordedTyped ==
  ASSUME LedgerInv, NEW o \in DOMAIN rows, rows[o].status = "COMPLETED"
  PROVE  ResultOf(o) \in Unit!Results
  <1>1. o \in Ops /\ o \in DOMAIN arts /\ arts[o] \in Envelopes
    BY DEF LedgerInv, TypeOK, LedgerConsistent
  <1>2. SlotOf(o) \in UnitSlots
    BY <1>1, OpsAreTuples DEF SlotOf, UnitSlots
  <1>3. arts[o].fp \in Contents /\ arts[o].outcome \in Outcomes
    BY <1>1 DEF Envelopes
  <1> QED
    BY <1>2, <1>3 DEF ResultOf, Unit!Results

\* Of the executions of one slot only the last can be open or completed.
LEMMA OneOfASlot ==
  ASSUME LedgerInv, NEW o \in DOMAIN rows, NEW q \in DOMAIN rows, SlotOf(o) = SlotOf(q),
         rows[o].status \in {"STARTED", "COMPLETED"}, rows[q].status \in {"STARTED", "COMPLETED"}
  PROVE  o = q
  <1>1. o \in Ops /\ q \in Ops
    BY DEF LedgerInv, TypeOK
  <1>2. o[1] = q[1] /\ o[2] = q[2] /\ o[3] = q[3]
    BY DEF SlotOf
  <1>3. o[4] \in Nat /\ q[4] \in Nat
    BY <1>1, OpsAreTuples
  <1>4. o = Op(o[1], o[2], o[3], o[4]) /\ q = Op(q[1], q[2], q[3], q[4])
    BY <1>1, OpsAreTuples
  <1>5. CASE o[4] < q[4]
    <2>1. o[4] \in 0..(q[4] - 1)
      BY <1>3, <1>5
    <2>2. rows[Op(q[1], q[2], q[3], o[4])].status \in {"FAILED", "CANCELLED"}
      BY <2>1 DEF LedgerInv, LedgerConsistent
    <2>3. Op(q[1], q[2], q[3], o[4]) = o
      BY <1>2, <1>4
    <2> QED
      BY <2>2, <2>3
  <1>6. CASE q[4] < o[4]
    <2>1. q[4] \in 0..(o[4] - 1)
      BY <1>3, <1>6
    <2>2. rows[Op(o[1], o[2], o[3], q[4])].status \in {"FAILED", "CANCELLED"}
      BY <2>1 DEF LedgerInv, LedgerConsistent
    <2>3. Op(o[1], o[2], o[3], q[4]) = q
      BY <1>2, <1>4
    <2> QED
      BY <2>2, <2>3
  <1>7. CASE o[4] = q[4]
    BY <1>2, <1>4, <1>7
  <1> QED
    BY <1>3, <1>5, <1>6, <1>7

\* The results are those of the completed rows.
LEMMA RecordedFrame ==
  ASSUME \A o \in DOMAIN rows : rows[o].status = "COMPLETED" =>
            o \in DOMAIN rows' /\ rows'[o].status = "COMPLETED" /\ arts'[o] = arts[o],
         \A o \in DOMAIN rows' : rows'[o].status = "COMPLETED" =>
            o \in DOMAIN rows /\ rows[o].status = "COMPLETED"
  PROVE  Recorded' = Recorded
  <1>1. {o \in DOMAIN rows : rows[o].status = "COMPLETED"}'
          = {o \in DOMAIN rows : rows[o].status = "COMPLETED"}
    OBVIOUS
  <1>2. \A o \in {o \in DOMAIN rows : rows[o].status = "COMPLETED"} : ResultOf(o)' = ResultOf(o)
    BY DEF ResultOf, SlotOf
  <1> QED
    BY <1>1, <1>2 DEF Recorded

\* The graph state that could be resumed moves on, and leaves slots behind.
LEMMA LeavesMore ==
  ASSUME LedgerInv, LedgerInv', \A p \in Phases : prior.att[p] <= prior'.att[p],
         prior'.node.phase \in Preparation => prior.node.phase \in Preparation
  PROVE  LeftBy(prior) \subseteq LeftBy(prior)' /\ LeftBy(prior)' \subseteq UnitSlots
  <1>1. \A p \in Phases : prior.att[p] \in Nat /\ prior'.att[p] \in Nat
    BY PhaseSets DEF LedgerInv, TypeOK, GraphOK
  <1>2. ASSUME NEW s \in UnitSlots, s[3] < prior.att[s[1]] PROVE s[3] < prior'.att[s[1]]
    <2>1. s[1] \in Phases /\ s[3] \in Nat
      BY DEF UnitSlots
    <2> QED
      BY <1>1, <1>2, <2>1
  <1> QED
    BY <1>2 DEF LeftBy, UnitSlots

LEMMA PriorMovesOn ==
  ASSUME CycleInv, LedgerInv', prior' \in {mem, prior}
  PROVE  LeftBy(prior) \subseteq LeftBy(prior)' /\ LeftBy(prior)' \subseteq UnitSlots
  <1>1. /\ \A p \in Phases : prior.att[p] <= prior'.att[p]
        /\ prior'.node.phase \in Preparation => prior.node.phase \in Preparation
    <2>1. \A p \in Phases : prior.att[p] \in Nat /\ prior.att[p] <= mem.att[p]
      BY PhaseSets DEF CycleInv, UnitInv, PassInv, LedgerInv, TypeOK, GraphOK
    <2> QED
      BY <2>1 DEF CycleInv, UnitInv, Phase
  <1> QED
    BY <1>1, LeavesMore DEF CycleInv, PassInv

\* Steps that record nothing and deliver nothing.
LEMMA UnitGoesOn ==
  ASSUME CycleInv, LedgerInv', product = "open", UNCHANGED <<ws, product>>,
         prior' \in {mem, prior}, Recorded' = Recorded
  PROVE  Unit!UNext
  <1>1. Unit!GoOn
    BY PriorMovesOn DEF Unit!GoOn
  <1> QED
    BY <1>1 DEF Unit!UNext

LEMMA UnitStands ==
  ASSUME UNCHANGED <<ws, prior, product>>, Recorded' = Recorded
  PROVE  [Unit!UNext]_(Unit!uvars)
  BY DEF Unit!uvars, LeftBy

LEMMA UnitIsEdited ==
  ASSUME CycleInv, product = "open", UNCHANGED <<rows, arts, prior, product>>, ws' \in Contents
  PROVE  [Unit!UNext]_(Unit!uvars)
  <1>1. Recorded' = Recorded /\ LeftBy(prior)' = LeftBy(prior)
    BY RecordedFrame DEF LeftBy
  <1>2. Unit!Edit
    BY <1>1 DEF Unit!Edit
  <1> QED
    BY <1>2 DEF Unit!UNext

LEMMA UnitIsBlocked ==
  ASSUME product = "open", UNCHANGED <<ws, prior>>, Recorded' = Recorded,
         product' \in {product, "blocked"}
  PROVE  [Unit!UNext]_(Unit!uvars)
  <1>1. CASE product' = product
    BY <1>1, UnitStands
  <1>2. CASE product' = "blocked"
    <2>1. Unit!Block
      BY <1>2 DEF Unit!Block, LeftBy
    <2> QED
      BY <2>1 DEF Unit!UNext
  <1> QED
    BY <1>1, <1>2

\* One open operation completes, about the workspace as it is.
LEMMA UnitCompletes ==
  ASSUME CycleInv, LedgerInv', product = "open", UNCHANGED <<ws, arts, product>>, prior' = mem,
         NEW op \in DOMAIN rows, rows[op].status = "STARTED", op \in DOMAIN arts,
         arts[op].fp = ws, op[1] = Phase, op[3] = mem.att[Phase],
         DOMAIN rows' = DOMAIN rows, rows'[op].status = "COMPLETED",
         \A o \in DOMAIN rows \ {op} :
            rows'[o].status = "COMPLETED" <=> rows[o].status = "COMPLETED"
  PROVE  Unit!UNext
  <1> DEFINE r == ResultOf(op)
             completed == {o \in DOMAIN rows : rows[o].status = "COMPLETED"}
  <1>1. LedgerInv
    BY DEF CycleInv, PassInv
  <1>2. ASSUME NEW q \in Recorded PROVE q.slot # r.slot
    <2>1. PICK o \in completed : q = ResultOf(o)
      BY DEF Recorded
    <2>2. o # op
      BY <2>1
    <2>3. SlotOf(o) # SlotOf(op)
      BY <1>1, <2>1, <2>2, OneOfASlot
    <2> QED
      BY <2>1, <2>3 DEF ResultOf
  <1>3. Recorded' = Recorded \cup {r}
    <2>1. completed' = completed \cup {op}
      OBVIOUS
    <2>2. \A o : ResultOf(o)' = ResultOf(o)
      BY DEF ResultOf, SlotOf
    <2>3. Recorded' = {ResultOf(o) : o \in completed'}
      BY <2>2 DEF Recorded
    <2> HIDE DEF completed
    <2>4. Recorded = {ResultOf(o) : o \in completed}
      BY DEF Recorded, completed
    <2> QED
      BY <2>1, <2>3, <2>4
  <1>4. LeftBy(prior) \subseteq LeftBy(prior)' /\ LeftBy(prior)' \subseteq UnitSlots
    BY PriorMovesOn
  <1>5. r.slot \notin LeftBy(prior)'
    <2>1. r.slot = <<op[1], op[2], op[3]>>
      BY DEF ResultOf, SlotOf
    <2>2. r.slot[1] = Phase /\ r.slot[3] = mem.att[Phase] /\ mem.att[Phase] \in Nat
      BY <1>1, <2>1, NodeTyped, PhaseSets
    <2> HIDE DEF r
    <2>3. ~(r.slot[3] < mem.att[r.slot[1]])
      BY <2>2
    <2>4. ~(r.slot[1] \in Preparation /\ mem.node.phase \notin Preparation)
      BY <2>2 DEF Phase
    <2> QED
      BY <2>3, <2>4 DEF LeftBy
  <1>6. r.fp = ws
    BY DEF ResultOf
  <1>7. r \in Unit!Results
    <2>1. /\ op \in Ops /\ arts[op] \in Envelopes
      BY <1>1 DEF LedgerInv, TypeOK
    <2>2. SlotOf(op) \in UnitSlots
      BY <2>1, OpsAreTuples DEF SlotOf, UnitSlots
    <2> QED
      BY <2>1, <2>2 DEF ResultOf, Unit!Results, Envelopes
  <1> HIDE DEF r
  <1>8. Unit!Complete(r)
    BY <1>2, <1>3, <1>4, <1>5, <1>6 DEF Unit!Complete
  <1> QED
    BY <1>7, <1>8 DEF Unit!UNext

\* Steps of a node that record nothing and leave the workspace alone.
LEMMA QuietStepsStand ==
  ASSUME CycleInv,
         TurnBegin \/ TurnEnd \/ RunPhase \/ Store \/ Begin \/ Finish \/ ReusedUnit \/ RequestStop
  PROVE  [Unit!UNext]_(Unit!uvars)
  <1>1. CASE Store
    <2>1. /\ UNCHANGED <<ws, rows, prior, product>>
          /\ arts' = arts \/ (arts' = Put(arts, mem.op, draft)
                               /\ (mem.op \in DOMAIN arts => arts[mem.op] = draft))
      BY <1>1 DEF Store, Raise, graph
    <2>2. \A o \in DOMAIN arts : arts'[o] = arts[o]
      BY <2>1 DEF Put
    <2>3. \A o \in DOMAIN rows : rows[o].status = "COMPLETED" => o \in DOMAIN arts
      BY DEF CycleInv, PassInv, LedgerInv, LedgerConsistent
    <2>4. Recorded' = Recorded
      BY <2>1, <2>2, <2>3, RecordedFrame
    <2> QED
      BY <2>1, <2>4, UnitStands
  <1>2. CASE TurnBegin \/ TurnEnd \/ RunPhase \/ Begin \/ Finish \/ ReusedUnit \/ RequestStop
    <2>1. UNCHANGED <<ws, rows, arts, prior, product>>
      BY <1>2 DEF TurnBegin, TurnEnd, RunPhase, Begin, Finish, ReusedUnit, RequestStop, Raise,
                  graph, ledger
    <2>2. Recorded' = Recorded
      BY <2>1, RecordedFrame
    <2> QED
      BY <2>1, <2>2, UnitStands
  <1> QED
    BY <1>1, <1>2

\* An agent or the salvage of its answer edits; a guard may end the unit.
LEMMA EditingSteps ==
  ASSUME CycleInv, LedgerInv', TurnEdit \/ Interpret \/ TurnRefused \/ TurnRejected
  PROVE  [Unit!UNext]_(Unit!uvars)
  <1>1. run = "running" /\ product = "open"
    BY DEF TurnEdit, Interpret, TurnRefused, TurnRejected, At, CycleInv, UnitInv
  <1>2. CASE TurnEdit \/ Interpret
    <2>1. UNCHANGED <<rows, arts, prior, product>>
      BY <1>2 DEF TurnEdit, Interpret, ledger, graph
    <2>2. ws' \in Contents
      BY DEF LedgerInv, TypeOK
    <2> QED
      BY <1>1, <2>1, <2>2, UnitIsEdited
  <1>3. CASE TurnRefused
    <2>1. UNCHANGED <<ws, rows, arts, prior>> /\ product' \in {product, "blocked"}
      BY <1>3 DEF TurnRefused, Raise, graph, ledger
    <2>2. Recorded' = Recorded
      BY <2>1, RecordedFrame
    <2> QED
      BY <1>1, <2>1, <2>2, UnitIsBlocked
  <1>4. CASE TurnRejected
    <2>1. UNCHANGED <<ws, arts, prior>> /\ product' \in {product, "blocked"}
      BY <1>4 DEF TurnRejected, Raise, graph
    <2>2. /\ DOMAIN rows' = DOMAIN rows
          /\ \A o \in DOMAIN rows : rows'[o].status = "COMPLETED" <=> rows[o].status = "COMPLETED"
      <3>1. \A o \in DOMAIN rows : rows[o] \in RowType
        BY DEF CycleInv, PassInv, LedgerInv, TypeOK, RowType
      <3>2. rows' = IF rows[mem.op].status = "STARTED"
                    THEN [rows EXCEPT ![mem.op].status = "FAILED"] ELSE rows
        BY <1>4 DEF TurnRejected
      <3> QED
        BY <3>1, <3>2 DEF RowType
    <2>3. Recorded' = Recorded
      BY <2>1, <2>2, RecordedFrame
    <2> QED
      BY <1>1, <2>1, <2>3, UnitIsBlocked
  <1> QED
    BY <1>2, <1>3, <1>4

\* A row is completed once, by the node that stored its artifact.
LEMMA RecordingCompletes ==
  ASSUME CycleInv, LedgerInv', Record
  PROVE  [Unit!UNext]_(Unit!uvars)
  <1>0. /\ run = "running" /\ stage = "stored" /\ mem.node.at = "work" /\ product = "open"
        /\ mem.op \in DOMAIN rows /\ mem.op \in DOMAIN arts /\ arts[mem.op] = draft
        /\ draft.fp = ws /\ mem.op[1] = Phase /\ mem.op[3] = mem.att[Phase]
        /\ \A o \in DOMAIN rows : rows[o] \in RowType
        /\ UNCHANGED <<ws, arts, product>>
    <2>1. run = "running" /\ stage = "stored" /\ mem.node.at = "work"
      BY DEF Record, CycleInv, PassInv, LedgerInv, WorkInv
    <2>2. UNCHANGED <<ws, arts, product>>
      BY DEF Record
    <2> QED
      BY <2>1, <2>2
         DEF CycleInv, PassInv, LedgerInv, WorkInv, Reconciled, UnitInv, Continues, TypeOK,
             RowType, Phase
  <1>1. CASE /\ rows[mem.op].status \in {"STARTED", FinalStatus(draft)}
             /\ rows' = [rows EXCEPT ![mem.op].status = FinalStatus(draft)]
             /\ Return(Projected(Phase, mem.node.step, draft))
    <2>1. /\ DOMAIN rows' = DOMAIN rows /\ rows'[mem.op].status = FinalStatus(draft)
          /\ \A o \in DOMAIN rows \ {mem.op} : rows'[o] = rows[o]
          /\ prior' = mem
      BY <1>0, <1>1 DEF RowType, Return
    <2>2. FinalStatus(draft) \in {"CANCELLED", "COMPLETED"}
      BY DEF FinalStatus
    <2>3. CASE rows[mem.op].status = "STARTED" /\ FinalStatus(draft) = "COMPLETED"
      <3>1. Unit!UNext
        BY <1>0, <2>1, <2>3, UnitCompletes
      <3> QED
        BY <3>1
    <2>4. CASE rows[mem.op].status = FinalStatus(draft) \/ FinalStatus(draft) = "CANCELLED"
      <3>1. \A o \in DOMAIN rows : rows'[o].status = "COMPLETED" <=> rows[o].status = "COMPLETED"
        BY <1>1, <2>1, <2>4
      <3>2. Recorded' = Recorded
        BY <1>0, <2>1, <3>1, RecordedFrame
      <3>3. Unit!UNext
        BY <1>0, <2>1, <3>2, UnitGoesOn
      <3> QED
        BY <3>3
    <2> QED
      BY <1>1, <2>2, <2>3, <2>4
  <1>2. CASE rows' = rows /\ Raise
    <2>1. prior' = prior
      BY <1>2 DEF Raise, graph
    <2>2. Recorded' = Recorded
      BY <1>0, <1>2, RecordedFrame
    <2> QED
      BY <1>0, <2>1, <2>2, UnitStands
  <1> QED
    BY <1>1, <1>2 DEF Record

\* The graph moves on, or a crash takes it one node back.
LEMMA MovesGoOn ==
  ASSUME CycleInv, LedgerInv', Rehydrate \/ Pause \/ Terminate \/ Crash
  PROVE  [Unit!UNext]_(Unit!uvars)
  <1>1. UNCHANGED <<ws, rows, arts, product>> /\ prior' \in {mem, prior}
    BY DEF Rehydrate, Pause, Terminate, Crash, Return, Raise, ledger, graph
  <1>2. run \in {"running", "reused", "returned"}
    BY DEF Rehydrate, Pause, Terminate, Crash
  <1>3. product = "open"
    BY <1>2 DEF CycleInv, UnitInv
  <1>4. Recorded' = Recorded
    BY <1>1, RecordedFrame
  <1>5. Unit!UNext
    BY <1>1, <1>3, <1>4, UnitGoesOn
  <1> QED
    BY <1>5

\* A reconciliation adopts a stored result, forgets the results the unit has
\* left behind, or changes no result.
LEMMA ReconcilingSettles ==
  ASSUME CycleInv, LedgerInv', Reconcile
  PROVE  Unit!UNext
  <1> DEFINE d == Classify(Phase, mem.node.step)
             completed == {o \in DOMAIN rows : rows[o].status = "COMPLETED"}
  <1>0. LedgerInv /\ UnitInv
    BY DEF CycleInv, PassInv
  <1>1. /\ run = "running" /\ prior' = mem /\ rows' = d.rows /\ UNCHANGED <<ws, product>>
        /\ Promised(d, Phase, mem.node.step) /\ d.op[3] = mem.att[Phase]
        /\ d.outcome # "run" => arts' = arts
    BY <1>0, ReconcileFacts DEF Reconciliation, Reconcile
  <1>2. /\ Settled(d) /\ d.op \in DOMAIN rows'
        /\ d.outcome = "run" => \A o \in DOMAIN rows' \cap DOMAIN rows : rows'[o] = rows[o]
        /\ DOMAIN rows' \subseteq DOMAIN rows \cup {d.op}
        /\ \A o \in DOMAIN rows \ DOMAIN rows' : ~Consultable(o)
        /\ \A o \in DOMAIN arts' : arts'[o] = arts[o]
        /\ \A o \in DOMAIN arts \cap DOMAIN rows' : o \in DOMAIN arts'
    BY <1>0, ReconcileSettles
  <1>3. product = "open"
    BY <1>0, <1>1 DEF UnitInv
  <1>4. \A o \in completed : o \in DOMAIN arts
    BY <1>0 DEF LedgerInv, LedgerConsistent
  <1> HIDE DEF d
  <1>5. d.outcome # "run" => DOMAIN rows \subseteq DOMAIN rows'
    BY <1>1 DEF Promised
  <1>6. CASE d.outcome = "run"
    <2>1. d.op \notin DOMAIN rows /\ rows'[d.op].status = "STARTED"
      BY <1>1, <1>2, <1>6 DEF Settled
    <2>2. completed' = {o \in completed : o \in DOMAIN rows'}
      BY <1>2, <1>6, <2>1
    <2>3. \A o \in completed : o \in DOMAIN rows' => ResultOf(o)' = ResultOf(o)
      BY <1>2, <1>4 DEF ResultOf, SlotOf
    <2>4. ASSUME NEW o \in completed, o \notin DOMAIN rows'
          PROVE  ResultOf(o).slot \in LeftBy(mem)
      <3>1. ~Consultable(o) /\ o \in Ops
        BY <1>0, <1>2, <2>4 DEF LedgerInv, TypeOK
      <3>2. ResultOf(o).slot \in UnitSlots
        BY <3>1, OpsAreTuples DEF ResultOf, SlotOf, UnitSlots
      <3>3. ResultOf(o).slot[1] = o[1] /\ ResultOf(o).slot[3] = o[3]
        BY DEF ResultOf, SlotOf
      <3>4. o[1] \in Phases /\ o[3] \in Nat /\ mem.att[o[1]] \in Nat
        <4>1. o[1] \in Phases /\ o[3] \in Nat
          BY <3>1, OpsAreTuples
        <4>2. mem.att \in [Counters -> Nat]
          BY <1>0, NodeTyped
        <4> QED
          BY <4>1, <4>2, PhaseSets
      <3>5. o[3] < mem.att[o[1]] \/ (o[1] \in Preparation /\ mem.node.phase \notin Preparation)
        BY <3>1, <3>4 DEF Consultable, Phase
      <3> QED
        BY <3>2, <3>3, <3>5 DEF LeftBy
    <2>5. LeftBy(prior)' = LeftBy(mem)
      BY <1>1 DEF LeftBy
    <2>6. Recorded = {ResultOf(o) : o \in completed}
      BY DEF Recorded
    <2>7. Recorded' = {ResultOf(o) : o \in completed'}
      <3>1. Recorded' = {ResultOf(o)' : o \in completed'}
        BY DEF Recorded
      <3> HIDE DEF completed
      <3> QED
        BY <2>2, <2>3, <3>1
    <2> HIDE DEF completed
    <2>8. Recorded' \subseteq Recorded
      BY <2>2, <2>6, <2>7
    <2>9. \A r \in Recorded \ Recorded' : r.slot \in LeftBy(prior)'
      BY <2>2, <2>4, <2>5, <2>6, <2>7
    <2>10. Unit!GoOn
      BY <1>1, <2>8, <2>9, PriorMovesOn DEF Unit!GoOn
    <2> QED
      BY <1>3, <2>10 DEF Unit!UNext
  <1>7. CASE d.outcome = "adopt_result"
    <2>1. /\ rows[d.op].status = "STARTED" /\ rows'[d.op].status = "COMPLETED"
          /\ d.op \in DOMAIN rows
      BY <1>1, <1>2, <1>7 DEF Settled
    <2>2. DOMAIN rows' = DOMAIN rows /\ arts' = arts
      BY <1>1, <1>2, <1>5, <1>7, <2>1
    <2>3. d.op \in DOMAIN arts /\ arts[d.op].fp = ws /\ d.op[1] = Phase
      BY <1>1, <1>7 DEF Promised
    <2>4. \A o \in DOMAIN rows \ {d.op} :
            rows'[o].status = "COMPLETED" <=> rows[o].status = "COMPLETED"
      BY <1>1, <1>2, <2>2 DEF Settled, GivenUp
    <2> QED
      BY <1>1, <1>3, <2>1, <2>2, <2>3, <2>4, UnitCompletes
  <1>8. CASE d.outcome \notin {"run", "adopt_result"}
    <2>1. \A o \in DOMAIN rows : rows'[o].status = "COMPLETED" <=> rows[o].status = "COMPLETED"
      BY <1>1, <1>2, <1>5, <1>8 DEF Settled, GivenUp
    <2>2. d.op \notin DOMAIN rows => rows'[d.op].status = "STARTED"
      BY <1>1, <1>2 DEF Settled
    <2>3. Recorded' = Recorded
      <3>1. arts' = arts /\ DOMAIN rows \subseteq DOMAIN rows'
        BY <1>1, <1>5, <1>8
      <3>2. \A o \in DOMAIN rows' : rows'[o].status = "COMPLETED" =>
              o \in DOMAIN rows /\ rows[o].status = "COMPLETED"
        BY <1>2, <2>1, <2>2
      <3> QED
        BY <2>1, <3>1, <3>2, RecordedFrame
    <2> QED
      BY <1>1, <1>3, <2>3, UnitGoesOn
  <1> QED
    BY <1>6, <1>7, <1>8

\* The command delivers the verdict of the completion recorded last.
LEMMA DeliveryIsRecorded ==
  ASSUME CycleInv, LedgerInv', Deliver
  PROVE  Unit!UNext
  <1>1. /\ run = "returned" /\ product' = mem.verdict
        /\ UNCHANGED <<ws, rows, arts, prior>>
    BY DEF Deliver, ledger, graph
  <1>2. product = "open" /\ mem.node.at = "end" /\ Closed(mem)
    BY <1>1 DEF CycleInv, UnitInv
  <1>3. arts[mem.op].outcome = mem.verdict
    BY <1>2 DEF CycleInv, UnitInv, Continues
  <1>4. /\ mem.op \in DOMAIN rows /\ rows[mem.op].status = "COMPLETED"
        /\ mem.op[1] = "complete_generation" /\ arts[mem.op].fp = ws
    BY <1>2 DEF Closed
  <1> DEFINE r == ResultOf(mem.op)
  <1>5. r \in Recorded
    BY <1>4 DEF Recorded
  <1>6. r.slot \in UnitSlots /\ r.slot[1] = "complete_generation"
    <2>1. mem.op \in Ops
      BY <1>4 DEF CycleInv, PassInv, LedgerInv, TypeOK
    <2> QED
      BY <1>4, <2>1, OpsAreTuples DEF ResultOf, SlotOf, UnitSlots
  <1>7. r.fp = ws /\ product' = r.outcome
    BY <1>1, <1>3, <1>4 DEF ResultOf
  <1>8. Recorded' = Recorded /\ LeftBy(prior)' = LeftBy(prior)
    BY <1>1, RecordedFrame DEF LeftBy
  <1> HIDE DEF r
  <1>9. Unit!Deliver
    BY <1>1, <1>5, <1>6, <1>7, <1>8 DEF Unit!Deliver
  <1> QED
    BY <1>2, <1>9 DEF Unit!UNext

LEMMA StepIsOfAUnit ==
  ASSUME CycleInv, [Next]_vars
  PROVE  CycleInv' /\ [Unit!UNext]_(Unit!uvars)
  <1>1. CycleInv' /\ LedgerInv'
    BY NextUnit DEF CycleInv, PassInv
  <1>2. CASE UNCHANGED vars
    <2>1. UNCHANGED <<ws, rows, arts, prior, product>>
      BY <1>2 DEF vars
    <2>2. Recorded' = Recorded
      BY <2>1, RecordedFrame
    <2> QED
      BY <1>1, <2>1, <2>2, UnitStands
  <1>3. CASE Reconcile \/ Deliver
    <2>1. Unit!UNext
      BY <1>1, <1>3, ReconcilingSettles, DeliveryIsRecorded
    <2> QED
      BY <1>1, <2>1
  <1>4. CASE Rehydrate \/ Pause \/ Terminate \/ Crash
    BY <1>1, <1>4, MovesGoOn
  <1>5. CASE TurnBegin \/ TurnEnd \/ RunPhase \/ Store \/ Begin \/ Finish \/ ReusedUnit \/ RequestStop
    BY <1>1, <1>5, QuietStepsStand
  <1>6. CASE TurnEdit \/ Interpret \/ TurnRefused \/ TurnRejected
    BY <1>1, <1>6, EditingSteps
  <1>7. CASE Record
    BY <1>1, <1>7, RecordingCompletes
  <1> QED
    BY <1>2, <1>3, <1>4, <1>5, <1>6, <1>7 DEF Next, Step

LEMMA UnitStarts == Init => Unit!UInit
  <1> SUFFICES ASSUME Init PROVE Unit!UInit
    OBVIOUS
  <1>1. ws \in Contents /\ product = "open"
    BY ContentsAssumption DEF Init
  <1>2. Recorded = {}
    <2>1. DOMAIN rows = {}
      BY DEF Init
    <2> QED
      BY <2>1 DEF Recorded
  <1>3. LeftBy(prior) = {}
    <2>1. prior = Start /\ Start.node.phase = "precheck_existing_tests"
          /\ \A q \in Phases : Start.att[q] = 0
      BY EnterTyped, PhaseSets DEF Init, Start, Zero, Phases, ToolPhases
    <2>2. ASSUME NEW s \in LeftBy(prior) PROVE FALSE
      <3>1. s \in UnitSlots
        BY <2>2 DEF LeftBy
      <3>2. s[1] \in Phases /\ s[3] \in Nat
        BY <3>1 DEF UnitSlots
      <3> QED
        BY <2>1, <2>2, <3>2 DEF LeftBy, Preparation
    <2> QED
      BY <2>2
  <1> QED
    BY <1>1, <1>2, <1>3 DEF Unit!UInit

\* Every behaviour of the cycle is that of a durable unit, for every number of
\* attempts, replays, crashes and stops: no slot of work is recorded twice, a
\* result is about the files as they were when it was recorded and is lost
\* only with an attempt the unit has left for good, and what the command
\* delivers is a recorded completion of the very files (reconciliation.py,
\* ledger.py, application.py).
THEOREM CycleImplementsUnit == Spec => ImplementsUnit
  <1>1. Init => CycleInv /\ Unit!UInit
    BY InitUnit, UnitStarts
  <1>2. CycleInv /\ [Next]_vars => CycleInv' /\ [Unit!UNext]_(Unit!uvars)
    BY StepIsOfAUnit
  <1> QED
    BY <1>1, <1>2, PTL DEF Spec, ImplementsUnit, Unit!USpec

-----------------------------------------------------------------------------
(* What a durable unit promises holds of the cycle.                        *)

LEMMA UnitKeepsItsPromises ==
  ASSUME Unit!OneResultEach, Unit!DeliveredIsRecorded, [Unit!UNext]_(Unit!uvars)
  PROVE  Unit!OneResultEach' /\ Unit!DeliveredIsRecorded'
  <1>1. CASE UNCHANGED Unit!uvars
    BY <1>1 DEF Unit!uvars, Unit!OneResultEach, Unit!DeliveredIsRecorded
  <1>2. CASE product = "open" /\ (Unit!Edit \/ Unit!GoOn)
    BY <1>2 DEF Unit!Edit, Unit!GoOn, Unit!OneResultEach, Unit!DeliveredIsRecorded
  <1>3. ASSUME product = "open", NEW r \in Unit!Results, Unit!Complete(r)
        PROVE  Unit!OneResultEach' /\ Unit!DeliveredIsRecorded'
    BY <1>3 DEF Unit!Complete, Unit!OneResultEach, Unit!DeliveredIsRecorded
  <1>4. CASE product = "open" /\ (Unit!Deliver \/ Unit!Block)
    BY <1>4 DEF Unit!Deliver, Unit!Block, Unit!OneResultEach, Unit!DeliveredIsRecorded
  <1> QED
    BY <1>1, <1>2, <1>3, <1>4 DEF Unit!UNext

\* No slot of work has two results, whatever crashed, was replayed or adopted,
\* and a delivered verdict is the recorded one of a completion that was
\* measured on the files that are there now (ledger.py, application.py).
THEOREM DeliveriesAreRecorded ==
  Spec => [](Unit!OneResultEach /\ Unit!DeliveredIsRecorded)
  <1>1. ImplementsUnit => [](Unit!OneResultEach /\ Unit!DeliveredIsRecorded)
    <2>1. Unit!UInit => Unit!OneResultEach /\ Unit!DeliveredIsRecorded
      BY DEF Unit!UInit, Unit!OneResultEach, Unit!DeliveredIsRecorded
    <2>2. Unit!OneResultEach /\ Unit!DeliveredIsRecorded /\ [Unit!UNext]_(Unit!uvars)
            => (Unit!OneResultEach /\ Unit!DeliveredIsRecorded)'
      BY UnitKeepsItsPromises
    <2> QED
      BY <2>1, <2>2, PTL DEF ImplementsUnit, Unit!USpec
  <1> QED
    BY <1>1, CycleImplementsUnit, PTL
=============================================================================

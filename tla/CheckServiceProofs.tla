-------------------------- MODULE CheckServiceProofs ---------------------------
(***************************************************************************)
(* The CI check service, for any number of checks and threads, any limit   *)
(* and any number of crashes, stops and releases: a release sticks, a stop *)
(* beats the results, and no waiting check is forgotten.                   *)
(***************************************************************************)
EXTENDS CheckService, FiniteSetTheorems, TLAPS

-----------------------------------------------------------------------------
(* Records.                                                                *)

RecordsOK == mem \in [Checks -> Records] /\ store \in [Checks -> Records]

LEMMA RecTyped ==
  ASSUME RecordsOK, NEW c \in Checks
  PROVE  /\ Rec(c) \in Records
         /\ mem[c] # NoRecord => Rec(c) = mem[c]
         /\ mem[c] = NoRecord => Rec(c) = store[c]
  BY DEF RecordsOK, Rec

LEMMA ToTyped ==
  ASSUME RecordsOK, NEW c \in Checks,
         NEW status \in {"queued", "pending", "running", "stopped", "success", "failed"}
  PROVE  /\ To(c, status) \in Records /\ To(c, status).status = status
         /\ To(c, status).override = Rec(c).override /\ To(c, status) # NoRecord
  BY RecTyped DEF To, Records, NoRecord

\* What a save and an unsaved assignment change.
LEMMA Saved ==
  ASSUME RecordsOK, NEW c \in Checks, NEW r \in Records, Save(c, r)
  PROVE  /\ RecordsOK' /\ mem'[c] = r /\ store'[c] = r
         /\ \A d \in Checks : Rec(d)' = IF d = c THEN r ELSE Rec(d)
         /\ \A d \in Checks \ {c} : mem'[d] = mem[d] /\ store'[d] = store[d]
  BY DEF RecordsOK, Save, Rec

LEMMA Assigned ==
  ASSUME RecordsOK, NEW c \in Checks, NEW r \in Records, r # NoRecord, Assign(c, r)
  PROVE  /\ RecordsOK' /\ mem'[c] = r /\ store' = store
         /\ \A d \in Checks : Rec(d)' = IF d = c THEN r ELSE Rec(d)
         /\ \A d \in Checks \ {c} : mem'[d] = mem[d]
  BY DEF RecordsOK, Assign, Rec

-----------------------------------------------------------------------------
(* The oldest waiting check, and the limit.                                *)

\* A set of checks has an oldest one, which the CHOOSE of Oldest finds: the
\* sets of the checks up to k are finite, and the least of them belongs to the
\* oldest k.
LEMMA OldestExists ==
  ASSUME NEW S \in SUBSET Checks, S # {}
  PROVE  Oldest(S) \in S /\ \A d \in S : Oldest(S) <= d
  <1> DEFINE UpTo(k) == {j \in S : j <= k}
             Heads == {UpTo(k) : k \in S}
  <1>1. S \subseteq Nat /\ IsFiniteSet(S)
    <2>1. 1 \in Int /\ N \in Int
      BY SizeAssumption
    <2>2. IsFiniteSet(1..N)
      BY ONLY <2>1, FS_Interval
    <2>3. S \subseteq 1..N /\ S \subseteq Nat
      BY SizeAssumption DEF Checks
    <2> QED
      BY <2>2, <2>3, FS_Subset
  <1>2. Heads \subseteq FiniteSubsetsOf(S) /\ Heads # {}
    <2>1. ASSUME NEW k \in S PROVE UpTo(k) \in SUBSET S /\ IsFiniteSet(UpTo(k))
      BY <1>1, FS_Subset
    <2> QED
      BY <2>1 DEF FiniteSubsetsOf
  <1>3. IsWellFoundedOn(StrictSubsetOrdering(S), FiniteSubsetsOf(S))
    BY FS_StrictSubsetOrderingWellFounded
  <1>4. PICK X \in Heads : \A Y \in Heads : <<Y, X>> \notin StrictSubsetOrdering(S)
    BY <1>2, <1>3, WFMin
  <1>5. PICK k \in S : X = UpTo(k)
    BY <1>4
  <1>6. ASSUME NEW j \in S, ~(k <= j) PROVE FALSE
    <2>1. j \in Nat /\ k \in Nat
      BY <1>1
    <2>2. UpTo(j) \in Heads /\ UpTo(j) \subseteq S /\ X \subseteq S
      BY <1>5
    <2>3. ASSUME NEW i \in UpTo(j) PROVE i \in UpTo(k)
      <3>1. i \in S /\ i \in Nat /\ i <= j
        BY <1>1
      <3> QED
        BY <1>6, <2>1, <3>1
    <2>4. k \in UpTo(k) /\ k \notin UpTo(j)
      BY <1>6, <2>1
    <2>5. <<UpTo(j), X>> \in StrictSubsetOrdering(S)
      BY <1>5, <2>2, <2>3, <2>4 DEF StrictSubsetOrdering
    <2> QED
      BY <1>4, <2>2, <2>5
  <1>7. k \in S /\ \A d \in S : k <= d
    BY <1>6
  <1> QED
    BY <1>7 DEF Oldest

\* The limit is only reached by a check that counts.
LEMMA ReachedByOne ==
  ASSUME NEW exclude, LimitReached(exclude)
  PROVE  \E c \in Submitted \ exclude : c \in active \cup marker
  <1>1. SUFFICES ASSUME CountedActive(exclude) = {} PROVE FALSE
    BY DEF CountedActive
  <1>2. Cardinality(CountedActive(exclude)) = 0
    BY <1>1, FS_EmptySet
  <1> QED
    BY <1>2, SizeAssumption DEF LimitReached

LEMMA ClaimableTyped ==
  /\ Claimable \subseteq Checks
  /\ \A c \in Checks : c \in Claimable <=> Rec(c).status \in Waiting
  BY DEF Claimable, Submitted, Waiting, NoRecord

-----------------------------------------------------------------------------
(* The types.                                                              *)

LEMMA TypeKept == TypeOK /\ [Next]_vars => TypeOK'
  <1> SUFFICES ASSUME TypeOK, [Next]_vars PROVE TypeOK'
    OBVIOUS
  <1>0. RecordsOK /\ Checks \subseteq 0..N /\ 0 \in 0..N
    BY SizeAssumption DEF TypeOK, RecordsOK, Checks
  <1>1. CASE Submit
    <2>1. PICK c \in Checks : /\ Save(c, [status |-> "queued", override |-> FALSE])
                              /\ UNCHANGED <<active, marker, thread, look, release, heard, freed>>
      BY <1>1 DEF Submit
    <2>2. [status |-> "queued", override |-> FALSE] \in Records
      BY DEF Records
    <2>3. RecordsOK'
      BY <1>0, <2>1, <2>2, Saved
    <2> QED
      BY <2>1, <2>3 DEF TypeOK, RecordsOK
  <1>2. CASE Recent
    BY <1>2 DEF Recent, TypeOK
  <1>3. CASE ReplaySave
    <2>1. release \in Checks
      BY <1>3 DEF ReplaySave, TypeOK, Checks
    <2>2. [Rec(release) EXCEPT !.override = TRUE] \in Records
      BY <1>0, <2>1, RecTyped DEF Records
    <2>3. RecordsOK'
      BY <1>0, <1>3, <2>1, <2>2, Saved DEF ReplaySave, RecordsOK
    <2> QED
      BY <1>0, <1>3, <2>1, <2>3 DEF ReplaySave, TypeOK, RecordsOK
  <1>4. CASE MarkInterrupted
    <2>1. look \in Checks
      BY <1>4 DEF MarkInterrupted, TypeOK, Checks
    <2>2. RecordsOK'
      BY <1>0, <1>4, <2>1, ToTyped, Saved DEF MarkInterrupted
    <2> QED
      BY <1>0, <1>4, <2>2 DEF MarkInterrupted, TypeOK, RecordsOK
  <1>5. CASE Crash
    <2>1. NoRecord \in Records
      BY DEF NoRecord, Records
    <2> QED
      BY <1>0, <1>5, <2>1 DEF Crash, TypeOK, Idle
  <1>6. ASSUME NEW c \in Checks, Operate(c) PROVE TypeOK'
    <2>1. CASE StopCheck(c)
      <3>1. RecordsOK'
        BY <1>0, <2>1, ToTyped, Saved DEF StopCheck
      <3> QED
        BY <2>1, <3>1 DEF StopCheck, TypeOK, RecordsOK
    <2>2. CASE ReplaySend(c)
      BY <1>0, <2>2 DEF ReplaySend, TypeOK
    <2>3. CASE Read(c)
      <3>1. RecordsOK'
        BY <1>0, <2>3, RecTyped DEF Read, RecordsOK
      <3> QED
        BY <1>0, <2>3, <3>1 DEF Read, TypeOK, RecordsOK
    <2> QED
      BY <1>6, <2>1, <2>2, <2>3 DEF Operate
  <1>7. ASSUME NEW t \in Threads, NEW c \in Checks, BeginClaim(t, c)
        PROVE  /\ RecordsOK'
               /\ thread' \in [Threads -> [at : {"idle", "drain", "register"} \cup Working,
                                          check : 0..N, passed : BOOLEAN]]
               /\ \A u \in Threads : thread'[u].at \notin {"idle", "drain"} => thread'[u].check \in Checks
    <2>1. RecordsOK'
      BY <1>0, <1>7, ToTyped, Assigned DEF BeginClaim
    <2> QED
      BY <1>0, <1>7, <2>1 DEF BeginClaim, TypeOK
  <1>8. ASSUME NEW t \in Threads, ClaimNext(t) PROVE TypeOK'
    <2>1. CASE LimitReached({}) \/ Claimable = {}
      <3>1. /\ thread' = [thread EXCEPT ![t] = Idle]
            /\ UNCHANGED <<mem, store, active, marker, look, release, heard, freed>>
        BY <1>8, <2>1 DEF ClaimNext
      <3>2. Idle \in [at : {"idle", "drain", "register"} \cup Working, check : 0..N, passed : BOOLEAN]
            /\ Idle.at = "idle"
        BY <1>0 DEF Idle
      <3> QED
        BY <3>1, <3>2 DEF TypeOK
    <2>2. CASE ~(LimitReached({}) \/ Claimable = {})
      <3>1. Oldest(Claimable) \in Checks /\ BeginClaim(t, Oldest(Claimable))
        BY <1>8, <2>2, OldestExists, ClaimableTyped DEF ClaimNext
      <3> QED
        BY <1>7, <1>8, <3>1 DEF ClaimNext, TypeOK, RecordsOK
    <2> QED
      BY <2>1, <2>2
  <1>9. ASSUME NEW t \in Threads, Begin(t) PROVE TypeOK'
    <2>1. CASE StartPending(t)
      <3>1. CASE Claimable # {} /\ Save(Oldest(Claimable), To(Oldest(Claimable), "pending"))
                 /\ UNCHANGED <<active, stopping, lock, marker, thread, look, release, heard, freed, events>>
        <4>1. Oldest(Claimable) \in Checks
          BY <3>1, OldestExists, ClaimableTyped
        <4>2. RecordsOK'
          BY <1>0, <3>1, <4>1, ToTyped, Saved
        <4> QED
          BY <3>1, <4>2 DEF TypeOK, RecordsOK
      <3> QED
        BY <1>8, <2>1, <3>1 DEF StartPending
    <2>2. ASSUME NEW c \in Checks, RunCheck(t, c) PROVE TypeOK'
      <3>1. UNCHANGED <<active, marker, look, release, heard, freed>>
        BY <2>2 DEF RunCheck
      <3>2. CASE UNCHANGED <<mem, store, lock, thread>>
        BY <3>1, <3>2 DEF TypeOK
      <3>3. CASE Save(c, To(c, "pending")) /\ UNCHANGED <<lock, thread>>
        <4>1. RecordsOK'
          BY <1>0, <3>3, ToTyped, Saved
        <4> QED
          BY <3>1, <3>3, <4>1 DEF TypeOK, RecordsOK
      <3>4. CASE BeginClaim(t, c)
        BY <1>7, <3>1, <3>4 DEF TypeOK, RecordsOK
      <3> QED
        BY <2>2, <3>2, <3>3, <3>4 DEF RunCheck, ClaimCheck
    <2> QED
      BY <1>9, <2>1, <2>2 DEF Begin
  <1>10. ASSUME NEW t \in Threads, ThreadStep(t) PROVE TypeOK'
    <2>0. /\ thread[t].at \notin {"idle", "drain"} => Mine(t) \in Checks
          /\ Mine(t) \in Checks => Rec(Mine(t)) \in Records
      BY <1>0, RecTyped DEF TypeOK, Mine
    <2>1. CASE Register(t)
      <3>1. RecordsOK'
        BY <1>0, <2>0, <2>1, Saved DEF Register, At
      <3> QED
        BY <2>0, <2>1, <3>1 DEF Register, At, Go, TypeOK, RecordsOK, Working
    <2>2. CASE Start(t)
      BY <2>0, <2>2 DEF Start, At, Go, UnlessStopped, WriteMarker, TypeOK, Working
    <2>3. CASE MarkRunning(t)
      <3>1. RecordsOK'
        BY <1>0, <2>0, <2>3, ToTyped, Saved DEF MarkRunning, At
      <3> QED
        BY <2>0, <2>3, <3>1 DEF MarkRunning, At, Go, TypeOK, RecordsOK, Working
    <2>4. CASE Prepare(t)
      <3>1. RecordsOK'
        BY <1>0, <2>0, <2>4, Saved DEF Prepare, At, RecordsOK
      <3> QED
        BY <2>0, <2>4, <3>1 DEF Prepare, At, Go, UnlessStopped, TypeOK, RecordsOK, Working
    <2>5. CASE RunGate(t)
      <3>1. UNCHANGED <<mem, store, active, marker, look, release, heard, freed>>
        BY <2>5 DEF RunGate
      <3>2. CASE Go(t, "except")
        BY <2>0, <2>5, <3>1, <3>2 DEF RunGate, At, Go, TypeOK, Working
      <3>3. ASSUME NEW passed \in BOOLEAN,
                   thread' = [thread EXCEPT ![t].at = "finish", ![t].passed = passed]
            PROVE  TypeOK'
        BY <2>0, <2>5, <3>1, <3>3 DEF RunGate, At, TypeOK, Working
      <3> QED
        BY <2>5, <3>2, <3>3 DEF RunGate
    <2>6. CASE Finish(t)
      <3>1. RecordsOK'
        BY <1>0, <2>0, <2>6, ToTyped, Assigned DEF Finish, At, RecordsOK
      <3> QED
        BY <2>0, <2>6, <3>1 DEF Finish, At, Go, UnlessStopped, TypeOK, RecordsOK, Working
    <2>7. CASE ChooseVerdict(t)
      <3>1. Rec(Mine(t)).override \in BOOLEAN
        BY <2>0, <2>7 DEF ChooseVerdict, At, Records
      <3>2. RdcVerdict(Mine(t), thread[t].passed \/ Rec(Mine(t)).override) \in BOOLEAN
        BY DEF RdcVerdict
      <3> QED
        BY <2>0, <2>7, <3>2 DEF ChooseVerdict, At, TypeOK, Working
    <2>8. CASE SendVerdict(t)
      <3>1. RecordsOK'
        BY <1>0, <2>0, <2>8, Saved DEF SendVerdict, At
      <3> QED
        BY <2>0, <2>8, <3>1 DEF SendVerdict, At, Go, Post, TypeOK, RecordsOK, Working
    <2>9. CASE Raised(t)
      <3>1. RecordsOK'
        BY <1>0, <2>0, <2>9, ToTyped, Saved DEF Raised, At, RecordsOK
      <3> QED
        BY <2>0, <2>9, <3>1 DEF Raised, At, Go, TypeOK, RecordsOK, Working
    <2>10. CASE End(t)
      BY <1>0, <2>0, <2>10 DEF End, At, Idle, TypeOK
    <2>11. CASE Drain(t)
      BY <1>8, <2>11 DEF Drain
    <2> QED
      BY <1>10, <2>1, <2>2, <2>3, <2>4, <2>5, <2>6, <2>7, <2>8, <2>9, <2>10, <2>11 DEF ThreadStep
  <1>11. CASE UNCHANGED vars
    BY <1>11 DEF vars, TypeOK
  <1> QED
    BY <1>1, <1>2, <1>3, <1>4, <1>5, <1>6, <1>9, <1>10, <1>11 DEF Next

-----------------------------------------------------------------------------
(* A release sticks.                                                       *)

\* The step leaves the override on every released record, and puts no thread
\* before the post of a verdict.
OverridesKept ==
  \A c \in freed : store'[c].override /\ (mem'[c] # NoRecord => mem'[c].override)
NoNewVerdict == \A t \in Threads : thread'[t].at = "send" => thread'[t] = thread[t]

LEMMA ReleaseFrame ==
  ASSUME ReleaseInv, OverridesKept, NoNewVerdict, UNCHANGED <<heard, freed>>
  PROVE  ReleaseInv'
  BY DEF ReleaseInv, OverridesKept, NoNewVerdict, FailureOnItsWay

LEMMA OverridesSaved ==
  ASSUME TypeOK, ReleaseInv, NEW c \in Checks, NEW r \in Records, Rec(c).override => r.override,
         Save(c, r) \/ (r # NoRecord /\ Assign(c, r))
  PROVE  OverridesKept
  BY DEF TypeOK, ReleaseInv, OverridesKept, Save, Assign, Rec

LEMMA StatusSaved ==
  ASSUME TypeOK, ReleaseInv, NEW c \in Checks,
         NEW status \in {"queued", "pending", "running", "stopped", "success", "failed"},
         Save(c, To(c, status)) \/ Assign(c, To(c, status))
  PROVE  OverridesKept
  <1>1. RecordsOK
    BY DEF TypeOK, RecordsOK
  <1>2. To(c, status) \in Records /\ To(c, status).override = Rec(c).override
        /\ To(c, status) # NoRecord
    BY <1>1, ToTyped
  <1>3. PICK r \in Records : r = To(c, status)
    BY <1>2
  <1>4. Save(c, r) \/ (r # NoRecord /\ Assign(c, r))
    BY <1>2, <1>3 DEF Save, Assign
  <1>5. Rec(c).override => r.override
    BY <1>2, <1>3
  <1> QED
    BY <1>4, <1>5, OverridesSaved

LEMMA RecordSaved ==
  ASSUME TypeOK, ReleaseInv, NEW c \in Checks, Save(c, Rec(c))
  PROVE  OverridesKept
  BY DEF TypeOK, ReleaseInv, OverridesKept, Save, Rec

LEMMA OverridesUnchanged ==
  ASSUME ReleaseInv, UNCHANGED <<mem, store>>
  PROVE  OverridesKept
  BY DEF ReleaseInv, OverridesKept

LEMMA ClaimKeepsOverrides ==
  ASSUME TypeOK, ReleaseInv, NEW t \in Threads, NEW c \in Checks, BeginClaim(t, c)
  PROVE  OverridesKept /\ NoNewVerdict
  <1>1. OverridesKept
    BY StatusSaved DEF BeginClaim
  <1> QED
    BY <1>1 DEF BeginClaim, NoNewVerdict, TypeOK

LEMMA ClaimNextKeepsOverrides ==
  ASSUME TypeOK, ReleaseInv, NEW t \in Threads, ClaimNext(t)
  PROVE  ReleaseInv'
  <1>1. CASE LimitReached({}) \/ Claimable = {}
    <2>1. OverridesKept
      BY <1>1, OverridesUnchanged DEF ClaimNext
    <2>2. NoNewVerdict
      BY <1>1 DEF ClaimNext, Idle, NoNewVerdict, TypeOK
    <2> QED
      BY <2>1, <2>2, ReleaseFrame DEF ClaimNext
  <1>2. CASE ~(LimitReached({}) \/ Claimable = {})
    <2>1. Oldest(Claimable) \in Checks /\ BeginClaim(t, Oldest(Claimable))
      BY <1>2, OldestExists, ClaimableTyped DEF ClaimNext
    <2> QED
      BY <2>1, ClaimKeepsOverrides, ReleaseFrame DEF ClaimNext
  <1> QED
    BY <1>1, <1>2

LEMMA ReleaseKept == TypeOK /\ ReleaseInv /\ [Next]_vars => ReleaseInv'
  <1> SUFFICES ASSUME TypeOK, ReleaseInv, [Next]_vars PROVE ReleaseInv'
    OBVIOUS
  <1>0. RecordsOK
    BY DEF TypeOK, RecordsOK
  <1>1. CASE Submit
    <2>1. PICK c \in Checks \ Submitted :
             /\ Save(c, [status |-> "queued", override |-> FALSE])
             /\ UNCHANGED <<thread, heard, freed>>
      BY <1>1 DEF Submit
    <2>2. [status |-> "queued", override |-> FALSE] \in Records
      BY DEF Records
    <2>3. Rec(c) = NoRecord /\ ~NoRecord.override
      BY <2>1 DEF Submitted, NoRecord
    <2>4. OverridesKept
      <3>1. PICK r \in Records : r = [status |-> "queued", override |-> FALSE]
        BY <2>2
      <3>2. Save(c, r) /\ (Rec(c).override => r.override)
        BY <2>1, <2>3, <3>1 DEF Save
      <3> QED
        BY <3>2, OverridesSaved
    <2>5. NoNewVerdict
      BY <2>1 DEF NoNewVerdict
    <2> QED
      BY <2>1, <2>4, <2>5, ReleaseFrame
  <1>2. CASE Recent
    BY <1>2, OverridesUnchanged, ReleaseFrame DEF Recent, NoNewVerdict
  <1>3. CASE ReplaySave
    <2>1. release \in Checks
      BY <1>3 DEF ReplaySave, TypeOK, Checks
    <2> DEFINE r == [Rec(release) EXCEPT !.override = TRUE]
    <2>2. r \in Records /\ r.override
      BY <1>0, <2>1, RecTyped DEF Records
    <2>3. \/ Save(release, r)
          \/ mem[release] = NoRecord /\ store' = [store EXCEPT ![release] = r] /\ UNCHANGED mem
      BY <1>3 DEF ReplaySave
    <2>4. /\ store'[release].override /\ (mem'[release] # NoRecord => mem'[release].override)
          /\ \A d \in Checks \ {release} : mem'[d] = mem[d] /\ store'[d] = store[d]
      <3> HIDE DEF r
      <3> QED
        BY <2>1, <2>2, <2>3 DEF Save, TypeOK
    <2>5. /\ UNCHANGED <<thread, heard>>
          /\ freed' = IF heard[release] = "pass" /\ ~FailureOnItsWay(release)
                      THEN freed \cup {release} ELSE freed
      BY <1>3 DEF ReplaySave
    <2>6. \A d \in Checks : FailureOnItsWay(d)' <=> FailureOnItsWay(d)
      BY <2>5 DEF FailureOnItsWay
    <2>7. ASSUME NEW c \in freed'
          PROVE  heard[c] = "pass" /\ ~FailureOnItsWay(c) /\ c \in Checks
      BY <2>1, <2>5 DEF ReleaseInv, TypeOK
    <2>8. ASSUME NEW c \in freed'
          PROVE  store'[c].override /\ (mem'[c] # NoRecord => mem'[c].override)
      <3> HIDE DEF r
      <3>1. CASE c = release
        BY <2>4, <3>1
      <3>2. CASE c # release
        BY <2>4, <2>5, <2>7, <3>2 DEF ReleaseInv
      <3> QED
        BY <3>1, <3>2
    <2> QED
      BY <2>5, <2>6, <2>7, <2>8 DEF ReleaseInv
  <1>4. CASE MarkInterrupted
    <2>1. look \in Checks
      BY <1>4 DEF MarkInterrupted, TypeOK, Checks
    <2>2. OverridesKept
      BY <1>4, <2>1, StatusSaved DEF MarkInterrupted
    <2> QED
      BY <1>4, <2>2, ReleaseFrame DEF MarkInterrupted, NoNewVerdict
  <1>5. CASE Crash
    <2>1. OverridesKept
      BY <1>5 DEF Crash, OverridesKept, ReleaseInv, TypeOK
    <2>2. NoNewVerdict
      BY <1>5 DEF Crash, Idle, NoNewVerdict
    <2> QED
      BY <1>5, <2>1, <2>2, ReleaseFrame DEF Crash
  <1>6. ASSUME NEW c \in Checks, Operate(c) PROVE ReleaseInv'
    <2>1. CASE StopCheck(c)
      <3>1. OverridesKept
        BY <2>1, StatusSaved DEF StopCheck
      <3> QED
        BY <2>1, <3>1, ReleaseFrame DEF StopCheck, NoNewVerdict
    <2>2. CASE ReplaySend(c)
      BY <2>2 DEF ReplaySend, ReleaseInv, TypeOK, FailureOnItsWay
    <2>3. CASE Read(c)
      <3>1. OverridesKept
        BY <2>3 DEF Read, Rec, OverridesKept, ReleaseInv, TypeOK
      <3> QED
        BY <2>3, <3>1, ReleaseFrame DEF Read, NoNewVerdict
    <2> QED
      BY <1>6, <2>1, <2>2, <2>3 DEF Operate
  <1>7. ASSUME NEW t \in Threads, Begin(t) PROVE ReleaseInv'
    <2>1. CASE StartPending(t)
      <3>1. CASE Claimable # {} /\ Save(Oldest(Claimable), To(Oldest(Claimable), "pending"))
                 /\ UNCHANGED <<active, stopping, lock, marker, thread, look, release, heard, freed, events>>
        <4>1. Oldest(Claimable) \in Checks
          BY <3>1, OldestExists, ClaimableTyped
        <4>2. OverridesKept
          BY <3>1, <4>1, StatusSaved
        <4> QED
          BY <3>1, <4>2, ReleaseFrame DEF NoNewVerdict
      <3> QED
        BY <2>1, <3>1, ClaimNextKeepsOverrides DEF StartPending
    <2>2. ASSUME NEW c \in Checks, RunCheck(t, c) PROVE ReleaseInv'
      <3>1. UNCHANGED <<heard, freed>>
        BY <2>2 DEF RunCheck
      <3>2. CASE UNCHANGED <<mem, store, lock, thread>>
        BY <3>1, <3>2, OverridesUnchanged, ReleaseFrame DEF NoNewVerdict
      <3>3. CASE Save(c, To(c, "pending")) /\ UNCHANGED <<lock, thread>>
        <4>1. OverridesKept
          BY <3>3, StatusSaved
        <4> QED
          BY <3>1, <3>3, <4>1, ReleaseFrame DEF NoNewVerdict
      <3>4. CASE BeginClaim(t, c)
        BY <3>1, <3>4, ClaimKeepsOverrides, ReleaseFrame
      <3> QED
        BY <2>2, <3>2, <3>3, <3>4 DEF RunCheck, ClaimCheck
    <2> QED
      BY <1>7, <2>1, <2>2 DEF Begin
  <1>8. ASSUME NEW t \in Threads, ThreadStep(t) PROVE ReleaseInv'
    <2>0. /\ thread[t].at \notin {"idle", "drain"} => Mine(t) \in Checks
          /\ Mine(t) \in Checks => Rec(Mine(t)) \in Records
      BY <1>0, RecTyped DEF TypeOK, Mine
    <2>1. CASE Register(t)
      <3>1. OverridesKept
        BY <2>0, <2>1, RecordSaved DEF Register, At
      <3>2. NoNewVerdict
        BY <2>1 DEF Register, Go, NoNewVerdict, TypeOK
      <3> QED
        BY <2>1, <3>1, <3>2, ReleaseFrame DEF Register
    <2>2. CASE Start(t)
      <3>1. NoNewVerdict
        BY <2>2 DEF Start, Go, UnlessStopped, NoNewVerdict, TypeOK
      <3> QED
        BY <2>2, <3>1, OverridesUnchanged, ReleaseFrame DEF Start
    <2>3. CASE MarkRunning(t)
      <3>1. Mine(t) \in Checks /\ Save(Mine(t), To(Mine(t), "running"))
        BY <2>0, <2>3 DEF MarkRunning, At
      <3>3. OverridesKept
        BY <3>1, StatusSaved
      <3>4. NoNewVerdict
        BY <2>3 DEF MarkRunning, Go, NoNewVerdict, TypeOK
      <3> QED
        BY <2>3, <3>3, <3>4, ReleaseFrame DEF MarkRunning
    <2>4. CASE Prepare(t)
      <3>1. OverridesKept
        BY <2>0, <2>4, RecordSaved, OverridesUnchanged DEF Prepare, At
      <3>2. NoNewVerdict
        BY <2>4 DEF Prepare, Go, UnlessStopped, NoNewVerdict, TypeOK
      <3> QED
        BY <2>4, <3>1, <3>2, ReleaseFrame DEF Prepare
    <2>5. CASE RunGate(t)
      <3>1. \A u \in Threads : u # t => thread'[u] = thread[u]
        BY <2>5 DEF RunGate, Go, TypeOK
      <3>2. thread'[t].at \in {"finish", "except"}
        BY <2>5 DEF RunGate, Go, TypeOK
      <3>3. NoNewVerdict
        BY <3>1, <3>2 DEF NoNewVerdict
      <3> QED
        BY <2>5, <3>3, OverridesUnchanged, ReleaseFrame DEF RunGate
    <2>6. CASE Finish(t)
      <3>1. Mine(t) \in Checks
        BY <2>0, <2>6 DEF Finish, At
      <3> DEFINE status == IF thread[t].passed THEN "success" ELSE "failed"
      <3>2. status \in {"success", "failed"}
        OBVIOUS
      <3>3. UNCHANGED <<mem, store>> \/ Assign(Mine(t), To(Mine(t), status))
        BY <2>6 DEF Finish
      <3>4. OverridesKept
        <4> HIDE DEF status
        <4> QED
          BY <3>1, <3>2, <3>3, StatusSaved, OverridesUnchanged
      <3>5. NoNewVerdict
        BY <2>6 DEF Finish, Go, UnlessStopped, NoNewVerdict, TypeOK
      <3> QED
        BY <2>6, <3>4, <3>5, ReleaseFrame DEF Finish
    <2>7. CASE ChooseVerdict(t)
      <3>1. Mine(t) \in Checks /\ UNCHANGED <<mem, store, heard, freed>>
        BY <2>0, <2>7 DEF ChooseVerdict, At
      <3>2. /\ thread'[t].check = Mine(t)
            /\ thread'[t].passed = RdcVerdict(Mine(t), thread[t].passed \/ Rec(Mine(t)).override)
            /\ \A u \in Threads : u # t => thread'[u] = thread[u]
        BY <2>7 DEF ChooseVerdict, Mine, TypeOK
      <3>3. Mine(t) \in freed => Rec(Mine(t)).override
        BY DEF ReleaseInv, Rec
      <3>4. Mine(t) \in freed => thread'[t].passed
        BY <3>2, <3>3 DEF RdcVerdict
      <3>5. ASSUME NEW c \in freed, FailureOnItsWay(c)' PROVE FALSE
        <4>1. ~FailureOnItsWay(c)
          BY DEF ReleaseInv
        <4>2. PICK u \in Threads : thread'[u].at = "send" /\ thread'[u].check = c /\ ~thread'[u].passed
          BY <3>5 DEF FailureOnItsWay
        <4> QED
          BY <3>2, <3>4, <4>1, <4>2 DEF FailureOnItsWay
      <3> QED
        BY <3>1, <3>5 DEF ReleaseInv
    <2>8. CASE SendVerdict(t)
      <3>1. Mine(t) \in Checks /\ Save(Mine(t), Rec(Mine(t))) /\ freed' = freed
        BY <2>0, <2>8 DEF SendVerdict, At
      <3>2. OverridesKept
        BY <2>0, <3>1, RecordSaved
      <3>3. NoNewVerdict
        BY <2>8 DEF SendVerdict, Go, NoNewVerdict, TypeOK
      <3>4. Mine(t) \in freed => thread[t].passed
        BY <2>8 DEF SendVerdict, At, Mine, ReleaseInv, FailureOnItsWay
      <3>5. ASSUME NEW c \in freed PROVE heard'[c] = "pass"
        <4>1. c \in Checks /\ heard[c] = "pass"
          BY DEF ReleaseInv, TypeOK
        <4> QED
          BY <2>8, <3>4, <4>1 DEF SendVerdict, Post, TypeOK
      <3>6. ASSUME NEW c \in freed PROVE ~FailureOnItsWay(c)'
        BY <3>3 DEF ReleaseInv, NoNewVerdict, FailureOnItsWay
      <3> QED
        BY <3>1, <3>2, <3>5, <3>6 DEF ReleaseInv, OverridesKept
    <2>9. CASE Raised(t)
      <3>1. Mine(t) \in Checks
        BY <2>0, <2>9 DEF Raised, At
      <3>3. OverridesKept
        BY <2>9, <3>1, StatusSaved, OverridesUnchanged DEF Raised
      <3>4. NoNewVerdict
        BY <2>9 DEF Raised, Go, NoNewVerdict, TypeOK
      <3> QED
        BY <2>9, <3>3, <3>4, ReleaseFrame DEF Raised
    <2>10. CASE End(t)
      <3>1. NoNewVerdict
        BY <2>10 DEF End, Idle, NoNewVerdict, TypeOK
      <3> QED
        BY <2>10, <3>1, OverridesUnchanged, ReleaseFrame DEF End
    <2>11. CASE Drain(t)
      BY <2>11, ClaimNextKeepsOverrides DEF Drain
    <2> QED
      BY <1>8, <2>1, <2>2, <2>3, <2>4, <2>5, <2>6, <2>7, <2>8, <2>9, <2>10, <2>11 DEF ThreadStep
  <1>9. CASE UNCHANGED vars
    BY <1>9, OverridesUnchanged, ReleaseFrame DEF vars, NoNewVerdict
  <1> QED
    BY <1>1, <1>2, <1>3, <1>4, <1>5, <1>6, <1>7, <1>8, <1>9 DEF Next

LEMMA InitType == Init => TypeOK /\ ReleaseInv
  <1> SUFFICES ASSUME Init PROVE TypeOK /\ ReleaseInv
    OBVIOUS
  <1>1. NoRecord \in Records /\ 0 \in 0..N
    BY SizeAssumption DEF NoRecord, Records
  <1>2. TypeOK
    BY <1>1 DEF Init, TypeOK, Idle
  <1> QED
    BY <1>2 DEF Init, ReleaseInv

\* Once an operator's release is on the record, with no failure on its way at
\* that moment, the CI system never hears a failure of that check again:
\* whatever the run, its retries and the restarts of the process do between
\* the choice of a verdict and its post.
THEOREM AReleaseSticks == Spec => []ReleaseSticks
  <1>1. TypeOK /\ ReleaseInv /\ [Next]_vars => (TypeOK /\ ReleaseInv)'
    BY TypeKept, ReleaseKept
  <1>2. TypeOK /\ ReleaseInv => ReleaseSticks
    BY DEF ReleaseInv, ReleaseSticks
  <1> QED
    BY InitType, <1>1, <1>2, PTL DEF Spec
-----------------------------------------------------------------------------
(* No wake-up is lost.                                                     *)

\* The step takes no record away and lets no check begin to wait; who works on
\* a check goes on with it.
NobodyJoins ==
  \A d \in Checks : /\ Rec(d) # NoRecord => Rec(d)' # NoRecord
                    /\ Rec(d)'.status \in Waiting => Rec(d).status \in Waiting
WorkersGoOn ==
  \A t \in Threads : thread[t].at \in Working =>
     thread'[t].at \in Working /\ thread'[t].check = thread[t].check

LEMMA WakeFrame ==
  ASSUME TypeOK, WakeInv, NobodyJoins, WorkersGoOn, look' = look,
         active' \cup marker' \subseteq active \cup marker
  PROVE  WakeInv'
  <1>1. look # 0 => look \in Checks
    BY SizeAssumption DEF TypeOK, Checks
  <1>2. \A c \in active' \cup marker' :
           \E t \in Threads : thread'[t].at \in Working /\ thread'[t].check = c
    BY DEF WakeInv, WorkersGoOn
  <1>3. look \in Unrunnable => look # 0
    BY SetsAssumption, SizeAssumption DEF Checks
  <1>4. /\ look # 0 => Rec(look)' # NoRecord
        /\ look \in Unrunnable => Rec(look)'.status \notin Waiting
    BY <1>1, <1>3 DEF WakeInv, NobodyJoins, Rec
  <1> QED
    BY <1>2, <1>4 DEF WakeInv, Rec

LEMMA SettledJoinsNobody ==
  ASSUME TypeOK, NEW c \in Checks, NEW status \in {"running", "stopped", "success", "failed"},
         Save(c, To(c, status)) \/ Assign(c, To(c, status))
  PROVE  NobodyJoins /\ \A d \in Checks \ {c} : Rec(d)' = Rec(d)
  <1>1. RecordsOK
    BY DEF TypeOK, RecordsOK
  <1>2. To(c, status) \in Records /\ To(c, status) # NoRecord /\ To(c, status).status = status
    BY <1>1, ToTyped
  <1>3. PICK r \in Records : r = To(c, status)
    BY <1>2
  <1>4. Save(c, r) \/ Assign(c, r)
    BY <1>3 DEF Save, Assign
  <1>5. \A d \in Checks : Rec(d)' = IF d = c THEN r ELSE Rec(d)
    BY <1>1, <1>2, <1>3, <1>4, Saved, Assigned
  <1> QED
    BY <1>2, <1>3, <1>5 DEF NobodyJoins, Waiting

LEMMA SameJoinsNobody ==
  ASSUME TypeOK, UNCHANGED <<mem, store>> \/ \E c \in Checks : Save(c, Rec(c))
  PROVE  NobodyJoins /\ \A d \in Checks : Rec(d)' = Rec(d)
  BY DEF TypeOK, NobodyJoins, Save, Rec

LEMMA ClaimWakes ==
  ASSUME TypeOK, WakeInv, NEW t \in Threads, thread[t].at \in {"idle", "drain"},
         NEW c \in Checks, BeginClaim(t, c), look' = look, active' = active, marker' = marker
  PROVE  WakeInv' /\ thread'[t].at # "idle"
  <1>1. NobodyJoins
    BY SettledJoinsNobody DEF BeginClaim
  <1>2. WorkersGoOn
    BY DEF BeginClaim, TypeOK, WorkersGoOn, Working
  <1>3. thread'[t].at # "idle"
    BY DEF BeginClaim, TypeOK
  <1> QED
    BY <1>1, <1>2, <1>3, WakeFrame

\* When the limit is reached, somebody works, and will drain the queue.
LEMMA LimitHasWorker ==
  ASSUME WakeInv, NEW exclude, LimitReached(exclude)
  PROVE  \E u \in Threads : thread[u].at \in Working
  BY ReachedByOne DEF WakeInv

LEMMA ClaimNextWakes ==
  ASSUME TypeOK, WakeInv, NEW t \in Threads, thread[t].at \in {"idle", "drain"}, ClaimNext(t)
  PROVE  WakeInv' /\ NoLostWakeup'
  <1>1. CASE LimitReached({}) \/ Claimable = {}
    <2>1. /\ thread' = [thread EXCEPT ![t] = Idle]
          /\ UNCHANGED <<mem, store, active, marker, look>>
      BY <1>1 DEF ClaimNext
    <2>2. NobodyJoins /\ \A d \in Checks : Rec(d)' = Rec(d)
      BY <2>1, SameJoinsNobody
    <2>3. WorkersGoOn
      BY <2>1 DEF TypeOK, WorkersGoOn, Working
    <2>4. WakeInv'
      BY <2>1, <2>2, <2>3, WakeFrame
    <2>5. CASE LimitReached({})
      <3>1. PICK u \in Threads : thread[u].at \in Working
        BY <2>5, LimitHasWorker
      <3>2. thread'[u].at # "idle"
        BY <3>1, <2>3 DEF WorkersGoOn, Working
      <3> QED
        BY <2>4, <3>2 DEF NoLostWakeup
    <2>6. CASE Claimable = {}
      <3>1. \A c \in Checks : Rec(c)'.status \notin Waiting
        BY <2>2, <2>6, ClaimableTyped
      <3> QED
        BY <2>4, <3>1 DEF NoLostWakeup
    <2> QED
      BY <1>1, <2>5, <2>6
  <1>2. CASE ~(LimitReached({}) \/ Claimable = {})
    <2>1. Oldest(Claimable) \in Checks /\ BeginClaim(t, Oldest(Claimable))
          /\ UNCHANGED <<active, marker, look>>
      BY <1>2, OldestExists, ClaimableTyped DEF ClaimNext
    <2> QED
      BY <2>1, ClaimWakes DEF NoLostWakeup
  <1> QED
    BY <1>1, <1>2

LEMMA WakeKept == TypeOK /\ WakeInv /\ NoLostWakeup /\ [Next]_vars => WakeInv' /\ NoLostWakeup'
  <1> SUFFICES ASSUME TypeOK, WakeInv, NoLostWakeup, [Next]_vars PROVE WakeInv' /\ NoLostWakeup'
    OBVIOUS
  <1>0. RecordsOK /\ Waiting \subseteq {"queued", "pending"} /\ Unrunnable \subseteq Checks
    BY SetsAssumption DEF TypeOK, RecordsOK, Waiting
  <1>a. ASSUME NEW d \in Checks
        PROVE  Rec(d) \in Records /\ (Rec(d).status \in Waiting => Rec(d) # NoRecord)
    BY <1>0, RecTyped DEF Waiting, NoRecord
  <1>b. ASSUME NEW u \in Threads, thread'[u].at # "idle"
        PROVE  NoLostWakeup'
    BY <1>b DEF NoLostWakeup
  <1>c. ASSUME poke'
        PROVE  NoLostWakeup'
    BY <1>c DEF NoLostWakeup
  \* Whoever waits now waited before, and the rest of the queue is as it was.
  <1>d. ASSUME NobodyJoins, UNCHANGED <<scheduled, thread>>, poke => poke',
               \A u \in Unrunnable : Rec(u).status \in Waiting => Rec(u)'.status \in Waiting
        PROVE  NoLostWakeup'
    <2>1. \A c \in Checks : Rec(c)'.status \in Waiting => Rec(c).status \in Waiting
      BY <1>d DEF NobodyJoins
    <2> QED
      BY <1>d, <2>1 DEF NoLostWakeup
  <1>1. CASE Submit
    <2>1. PICK c \in Checks \ Submitted :
             /\ Save(c, [status |-> "queued", override |-> FALSE])
             /\ scheduled' = scheduled \cup {c}
             /\ UNCHANGED <<active, marker, thread, poke, look>>
      BY <1>1 DEF Submit, Background
    <2>2. PICK r \in Records : r = [status |-> "queued", override |-> FALSE]
      BY DEF Records
    <2>3. \A d \in Checks : Rec(d)' = IF d = c THEN r ELSE Rec(d)
      <3>1. Save(c, r)
        BY <2>1, <2>2 DEF Save
      <3> QED
        BY <1>0, <3>1, Saved
    <2>4. Rec(c) = NoRecord
      BY <2>1 DEF Submitted
    <2>5. look # c
      BY <2>4, SizeAssumption DEF WakeInv, Rec, Checks
    <2>6. /\ look' # 0 => Rec(look)' # NoRecord
          /\ look' \in Unrunnable => Rec(look)'.status \notin Waiting
      <3>1. look # 0 => look \in Checks
        BY SizeAssumption DEF TypeOK, Checks
      <3>2. look # 0 => Rec(look)' = Rec(look)
        BY <2>1, <2>3, <2>5, <3>1 DEF Rec
      <3>3. 0 \notin Unrunnable
        BY <1>0, SizeAssumption DEF Checks
      <3> QED
        BY <2>1, <3>2, <3>3 DEF WakeInv
    <2>7. WakeInv'
      BY <2>1, <2>6 DEF WakeInv
    <2>8. ASSUME NEW d \in Checks \ Unrunnable, Rec(d)'.status \in Waiting
          PROVE  \/ d \in scheduled' \/ poke'
                 \/ \E u \in Threads : thread'[u].at # "idle"
                 \/ \E u \in Unrunnable : u < d /\ Rec(u)'.status \in Waiting
      <3>1. CASE d = c
        BY <2>1, <3>1
      <3>2. CASE d # c
        <4>1. Rec(d).status \in Waiting
          BY <2>3, <2>8, <3>2
        <4>2. ASSUME NEW u \in Unrunnable, Rec(u).status \in Waiting PROVE Rec(u)'.status \in Waiting
          BY <1>0, <1>a, <2>3, <2>4, <4>2
        <4> QED
          BY <2>1, <4>1, <4>2 DEF NoLostWakeup
      <3> QED
        BY <3>1, <3>2
    <2> QED
      BY <2>7, <2>8 DEF NoLostWakeup
  <1>2. CASE Recent
    <2>1. NobodyJoins
      BY <1>2, SameJoinsNobody DEF Recent
    <2>2. WakeInv'
      BY <1>2, <2>1, WakeFrame DEF Recent, WorkersGoOn
    <2> QED
      BY <1>2, <1>c, <2>2 DEF Recent
  <1>3. CASE ReplaySave
    <2>1. release \in Checks
      BY <1>3 DEF ReplaySave, TypeOK, Checks
    <2>2. PICK r \in Records : r = [Rec(release) EXCEPT !.override = TRUE]
      BY <1>a, <2>1 DEF Records
    <2>3. r.override = TRUE /\ r.status = Rec(release).status /\ r # NoRecord
      BY <1>a, <2>1, <2>2 DEF Records, NoRecord
    <2>4. \/ Save(release, r)
          \/ mem[release] = NoRecord /\ store' = [store EXCEPT ![release] = r] /\ UNCHANGED mem
      BY <1>3, <2>2 DEF ReplaySave, Save
    <2>5. \A d \in Checks : Rec(d)' = IF d = release THEN r ELSE Rec(d)
      BY <1>0, <2>1, <2>3, <2>4 DEF Save, Rec, RecordsOK
    <2>6. NobodyJoins /\ \A u \in Checks : Rec(u)'.status = Rec(u).status
      BY <2>3, <2>5 DEF NobodyJoins
    <2>7. WakeInv'
      BY <1>3, <2>6, WakeFrame DEF ReplaySave, WorkersGoOn
    <2> QED
      BY <1>0, <1>3, <1>d, <2>6, <2>7 DEF ReplaySave
  <1>4. CASE MarkInterrupted
    <2>1. look \in Checks
      BY <1>4 DEF MarkInterrupted, TypeOK, Checks
    <2>2. NobodyJoins /\ \A d \in Checks \ {look} : Rec(d)' = Rec(d)
      BY <1>4, <2>1, SettledJoinsNobody DEF MarkInterrupted
    <2>3. WakeInv'
      <3>1. 0 \notin Unrunnable
        BY <1>0, SizeAssumption DEF Checks
      <3> QED
        BY <1>4, <3>1 DEF MarkInterrupted, WakeInv
    <2>4. \A u \in Unrunnable : Rec(u).status \in Waiting => Rec(u)'.status \in Waiting
      BY <1>0, <2>2 DEF WakeInv
    <2> QED
      BY <1>4, <1>d, <2>2, <2>3, <2>4 DEF MarkInterrupted
  <1>5. CASE Crash
    <2>1. WakeInv'
      <3>1. 0 \notin Unrunnable
        BY <1>0, SizeAssumption DEF Checks
      <3> QED
        BY <1>5, <3>1 DEF Crash, WakeInv
    <2> QED
      BY <1>5, <1>c, <2>1 DEF Crash
  <1>6. ASSUME NEW c \in Checks, Operate(c) PROVE WakeInv' /\ NoLostWakeup'
    <2>1. CASE StopCheck(c)
      <3>1. NobodyJoins
        BY <2>1, SettledJoinsNobody DEF StopCheck
      <3>2. WakeInv'
        BY <2>1, <3>1, WakeFrame DEF StopCheck, WorkersGoOn
      <3> QED
        BY <1>c, <2>1, <3>2 DEF StopCheck
    <2>2. CASE ReplaySend(c)
      <3>1. NobodyJoins /\ \A d \in Checks : Rec(d)' = Rec(d)
        BY <2>2, SameJoinsNobody DEF ReplaySend
      <3>2. WakeInv'
        BY <2>2, <3>1, WakeFrame DEF ReplaySend, WorkersGoOn
      <3> QED
        BY <1>0, <1>d, <2>2, <3>1, <3>2 DEF ReplaySend
    <2>3. CASE Read(c)
      <3>1. \A d \in Checks : Rec(d)' = Rec(d)
        BY <2>3 DEF Read, Rec, TypeOK
      <3>2. NobodyJoins
        BY <3>1 DEF NobodyJoins
      <3>3. look' # 0 => look' = c /\ Rec(c) # NoRecord /\ Rec(c).status = "running"
        BY <2>3 DEF Read
      <3>4. /\ look' # 0 => Rec(look)' # NoRecord
            /\ look' \in Unrunnable => Rec(look)'.status \notin Waiting
        <4>1. look' # 0 => Rec(look)' = Rec(c)
          BY <3>1, <3>3 DEF Rec
        <4>2. 0 \notin Unrunnable
          BY <1>0, SizeAssumption DEF Checks
        <4> QED
          BY <3>3, <4>1, <4>2 DEF Waiting
      <3>5. WakeInv'
        BY <2>3, <3>4 DEF Read, WakeInv
      <3> QED
        BY <1>0, <1>d, <2>3, <3>1, <3>2, <3>5 DEF Read
    <2> QED
      BY <1>6, <2>1, <2>2, <2>3 DEF Operate
  <1>7. ASSUME NEW t \in Threads, Begin(t) PROVE WakeInv' /\ NoLostWakeup'
    <2>1. CASE StartPending(t)
      <3>1. CASE /\ Claimable # {} /\ Oldest(Claimable) \in Unrunnable
                 /\ Save(Oldest(Claimable), To(Oldest(Claimable), "pending"))
                 /\ UNCHANGED <<active, marker, thread, look>>
        <4>1. PICK u \in Unrunnable : u = Oldest(Claimable)
          BY <3>1
        <4>2. u \in Checks /\ Rec(u).status \in Waiting /\ \A d \in Claimable : u <= d
          BY <3>1, <4>1, OldestExists, ClaimableTyped
        <4>3. PICK r \in Records : r = To(u, "pending") /\ r.status = "pending" /\ r # NoRecord
          BY <1>0, <4>2, ToTyped
        <4>4. Save(u, r)
          BY <3>1, <4>1, <4>3 DEF Save
        <4>5. \A d \in Checks : Rec(d)' = IF d = u THEN r ELSE Rec(d)
          BY <1>0, <4>2, <4>4, Saved
        <4>6. NobodyJoins
          BY <4>2, <4>3, <4>5 DEF NobodyJoins
        <4>7. WakeInv'
          BY <3>1, <4>6, WakeFrame DEF WorkersGoOn
        <4>8. ASSUME NEW d \in Checks \ Unrunnable, Rec(d)'.status \in Waiting
              PROVE  u < d /\ Rec(u)'.status \in Waiting
          <5>1. Rec(d).status \in Waiting /\ d # u
            BY <4>1, <4>5, <4>8
          <5>2. u <= d /\ u \in Int /\ d \in Int
            BY <4>2, <5>1, ClaimableTyped DEF Checks
          <5> QED
            BY <4>2, <4>3, <4>5, <5>1, <5>2 DEF Waiting
        <4> QED
          BY <4>7, <4>8 DEF NoLostWakeup
      <3>2. CASE ClaimNext(t)
        BY <2>1, <3>2, ClaimNextWakes DEF StartPending, At
      <3> QED
        BY <2>1, <3>1, <3>2 DEF StartPending
    <2>2. ASSUME NEW c \in Checks, RunCheck(t, c) PROVE WakeInv' /\ NoLostWakeup'
      <3>1. thread[t].at = "idle" /\ scheduled' = scheduled \ {c} /\ UNCHANGED <<active, marker, poke, look>>
        BY <2>2 DEF RunCheck, At
      <3>2. CASE (c \in Unrunnable \/ Rec(c).status \notin Live) /\ UNCHANGED <<mem, store, lock, thread>>
        <4>1. NobodyJoins /\ \A d \in Checks : Rec(d)' = Rec(d)
          BY <3>2, SameJoinsNobody
        <4>2. WakeInv'
          BY <3>1, <3>2, <4>1, WakeFrame DEF WorkersGoOn
        <4>3. ASSUME NEW d \in Checks \ Unrunnable, Rec(d).status \in Waiting
              PROVE  d # c
          BY <3>2, <4>3 DEF Waiting, Live
        <4> QED
          BY <1>0, <3>1, <3>2, <4>1, <4>2, <4>3 DEF NoLostWakeup
      <3>3. CASE c \notin Unrunnable /\ LimitReached({c})
                 /\ Save(c, To(c, "pending")) /\ UNCHANGED <<lock, thread>>
        <4>1. PICK u \in Threads : thread[u].at \in Working
          BY <3>3, LimitHasWorker
        <4>2. NoLostWakeup'
          BY <1>b, <3>3, <4>1 DEF Working
        <4>3. PICK r \in Records : r = To(c, "pending") /\ r # NoRecord
          BY <1>0, ToTyped
        <4>4. Save(c, r)
          BY <3>3, <4>3 DEF Save
        <4>5. \A d \in Checks : Rec(d)' = IF d = c THEN r ELSE Rec(d)
          BY <1>0, <4>4, Saved
        <4>6. look # 0 => look \in Checks
          BY SizeAssumption DEF TypeOK, Checks
        <4>7. /\ look # 0 => Rec(look)' # NoRecord
              /\ look \in Unrunnable => Rec(look)'.status \notin Waiting
          <5>1. 0 \notin Unrunnable
            BY <1>0, SizeAssumption DEF Checks
          <5>2. look # 0 => Rec(look)' = IF look = c THEN r ELSE Rec(look)
            BY <3>1, <4>5, <4>6 DEF Rec
          <5> QED
            BY <3>3, <4>3, <5>1, <5>2 DEF WakeInv
        <4>8. WakeInv'
          BY <3>1, <3>3, <4>7 DEF WakeInv
        <4> QED
          BY <4>2, <4>8
      <3>4. CASE BeginClaim(t, c)
        BY <1>b, <3>1, <3>4, ClaimWakes
      <3> QED
        BY <2>2, <3>2, <3>3, <3>4 DEF RunCheck, ClaimCheck
    <2> QED
      BY <1>7, <2>1, <2>2 DEF Begin
  <1>8. ASSUME NEW t \in Threads, ThreadStep(t) PROVE WakeInv' /\ NoLostWakeup'
    <2>0. thread[t].at \notin {"idle", "drain"} => Mine(t) \in Checks
      BY DEF TypeOK, Mine
    \* The thread of a step within the run goes on with its check.
    <2>a. ASSUME thread[t].at \in Working, thread'[t].at \in Working, thread'[t].check = Mine(t),
                 \A u \in Threads : u # t => thread'[u] = thread[u]
          PROVE  WorkersGoOn /\ NoLostWakeup'
      BY <1>b, <2>a DEF WorkersGoOn, Working, Mine
    <2>1. CASE Register(t)
      <3>1. Mine(t) \in Checks /\ Save(Mine(t), Rec(Mine(t)))
        BY <2>0, <2>1 DEF Register, At
      <3>2. NobodyJoins /\ \A d \in Checks : Rec(d)' = Rec(d)
        BY <3>1, SameJoinsNobody
      <3>3. /\ thread'[t].at = "start" /\ thread'[t].check = Mine(t) /\ thread[t].at = "register"
            /\ \A u \in Threads : u # t => thread'[u] = thread[u]
            /\ active' = active \cup {Mine(t)} /\ marker' = marker /\ look' = look
        BY <2>1 DEF Register, Go, At, Mine, TypeOK
      <3>4. \A c \in active' \cup marker' :
               \E u \in Threads : thread'[u].at \in Working /\ thread'[u].check = c
        BY <3>3 DEF WakeInv, Working
      <3>5. look # 0 => look \in Checks
        BY SizeAssumption DEF TypeOK, Checks
      <3>6. 0 \notin Unrunnable
        BY <1>0, SizeAssumption DEF Checks
      <3>7. look # 0 => Rec(look)' = Rec(look)
        BY <3>2, <3>3, <3>5 DEF Rec
      <3> QED
        BY <1>b, <3>3, <3>4, <3>6, <3>7 DEF WakeInv
    <2>2. CASE Start(t)
      <3>1. /\ thread'[t].at \in Working /\ thread'[t].check = Mine(t) /\ thread[t].at = "start"
            /\ \A u \in Threads : u # t => thread'[u] = thread[u]
            /\ UNCHANGED <<mem, store, active, look>> /\ marker' = marker \cup {Mine(t)}
        BY <2>2 DEF Start, WriteMarker, UnlessStopped, Go, At, Mine, TypeOK, Working
      <3>2. NoLostWakeup'
        BY <2>a, <3>1 DEF Working
      <3>3. ASSUME NEW c \in active' \cup marker'
            PROVE  \E u \in Threads : thread'[u].at \in Working /\ thread'[u].check = c
        <4>1. CASE c = Mine(t)
          BY <3>1, <4>1
        <4>2. CASE c # Mine(t)
          <5>1. c \in active \cup marker
            BY <3>1, <4>2
          <5>2. PICK u \in Threads : thread[u].at \in Working /\ thread[u].check = c
            BY <5>1 DEF WakeInv
          <5>3. u # t
            BY <4>2, <5>2 DEF Mine
          <5> QED
            BY <3>1, <5>2, <5>3
        <4> QED
          BY <4>1, <4>2
      <3> QED
        BY <3>1, <3>2, <3>3 DEF WakeInv, Rec
    <2>3. CASE MarkRunning(t)
      <3>1. Mine(t) \in Checks /\ Save(Mine(t), To(Mine(t), "running"))
        BY <2>0, <2>3 DEF MarkRunning, At
      <3>2. NobodyJoins
        BY <3>1, SettledJoinsNobody
      <3>3. WorkersGoOn /\ NoLostWakeup'
        BY <2>3, <2>a DEF MarkRunning, Go, At, Mine, TypeOK, Working
      <3> QED
        BY <2>3, <3>2, <3>3, WakeFrame DEF MarkRunning
    <2>4. CASE Prepare(t)
      <3>1. NobodyJoins
        BY <2>0, <2>4, SameJoinsNobody DEF Prepare, At
      <3>2. WorkersGoOn /\ NoLostWakeup'
        BY <2>4, <2>a DEF Prepare, UnlessStopped, Go, At, Mine, TypeOK, Working
      <3> QED
        BY <2>4, <3>1, <3>2, WakeFrame DEF Prepare
    <2>5. CASE RunGate(t)
      <3>1. NobodyJoins
        BY <2>5, SameJoinsNobody DEF RunGate
      <3>2. /\ thread'[t].at \in Working /\ thread'[t].check = Mine(t) /\ thread[t].at = "run"
            /\ \A u \in Threads : u # t => thread'[u] = thread[u]
        BY <2>5 DEF RunGate, Go, At, Mine, TypeOK, Working
      <3>3. WorkersGoOn /\ NoLostWakeup'
        BY <2>a, <3>2 DEF Working
      <3> QED
        BY <2>5, <3>1, <3>3, WakeFrame DEF RunGate
    <2>6. CASE Finish(t)
      <3>1. Mine(t) \in Checks
        BY <2>0, <2>6 DEF Finish, At
      <3> DEFINE status == IF thread[t].passed THEN "success" ELSE "failed"
      <3>2. status \in {"success", "failed"}
        OBVIOUS
      <3>3. UNCHANGED <<mem, store>> \/ Assign(Mine(t), To(Mine(t), status))
        BY <2>6 DEF Finish
      <3>4. NobodyJoins
        <4> HIDE DEF status
        <4> QED
          BY <3>1, <3>2, <3>3, SettledJoinsNobody, SameJoinsNobody
      <3>5. WorkersGoOn /\ NoLostWakeup'
        BY <2>6, <2>a DEF Finish, UnlessStopped, Go, At, Mine, TypeOK, Working
      <3> QED
        BY <2>6, <3>4, <3>5, WakeFrame DEF Finish
    <2>7. CASE ChooseVerdict(t)
      <3>1. NobodyJoins
        BY <2>7, SameJoinsNobody DEF ChooseVerdict
      <3>2. WorkersGoOn /\ NoLostWakeup'
        BY <2>7, <2>a DEF ChooseVerdict, At, Mine, TypeOK, Working
      <3> QED
        BY <2>7, <3>1, <3>2, WakeFrame DEF ChooseVerdict
    <2>8. CASE SendVerdict(t)
      <3>1. Mine(t) \in Checks /\ Save(Mine(t), Rec(Mine(t)))
        BY <2>0, <2>8 DEF SendVerdict, At
      <3>2. NobodyJoins
        BY <3>1, SameJoinsNobody
      <3>3. WorkersGoOn /\ NoLostWakeup'
        BY <2>8, <2>a DEF SendVerdict, Go, At, Mine, TypeOK, Working
      <3> QED
        BY <2>8, <3>2, <3>3, WakeFrame DEF SendVerdict
    <2>9. CASE Raised(t)
      <3>1. Mine(t) \in Checks
        BY <2>0, <2>9 DEF Raised, At
      <3>2. NobodyJoins
        BY <2>9, <3>1, SettledJoinsNobody, SameJoinsNobody DEF Raised
      <3>3. WorkersGoOn /\ NoLostWakeup'
        BY <2>9, <2>a DEF Raised, Go, At, Mine, TypeOK, Working
      <3> QED
        BY <2>9, <3>2, <3>3, WakeFrame DEF Raised
    <2>10. CASE End(t)
      <3>1. /\ UNCHANGED <<mem, store, look>>
            /\ marker' = marker \ {Mine(t)} /\ active' = active \ {Mine(t)}
            /\ thread'[t].at = "drain"
            /\ \A u \in Threads : u # t => thread'[u] = thread[u]
        BY <2>10 DEF End, Idle, TypeOK
      <3>2. \A c \in active' \cup marker' :
               \E u \in Threads : thread'[u].at \in Working /\ thread'[u].check = c
        BY <3>1 DEF WakeInv, Mine
      <3>3. WakeInv'
        BY <3>1, <3>2 DEF WakeInv, Rec
      <3> QED
        BY <1>b, <3>1, <3>3
    <2>11. CASE Drain(t)
      BY <2>11, ClaimNextWakes DEF Drain, At
    <2> QED
      BY <1>8, <2>1, <2>2, <2>3, <2>4, <2>5, <2>6, <2>7, <2>8, <2>9, <2>10, <2>11 DEF ThreadStep
  <1>9. CASE UNCHANGED vars
    <2>1. NobodyJoins /\ \A d \in Checks : Rec(d)' = Rec(d)
      BY <1>9, SameJoinsNobody DEF vars
    <2>2. WakeInv'
      BY <1>9, <2>1, WakeFrame DEF vars, WorkersGoOn
    <2> QED
      BY <1>0, <1>9, <1>d, <2>1, <2>2 DEF vars
  <1> QED
    BY <1>1, <1>2, <1>3, <1>4, <1>5, <1>6, <1>7, <1>8, <1>9 DEF Next

\* A check that waits is never forgotten, whatever the order of triggers,
\* claims, stops, ends and restarts: at any moment its callback is still to
\* come, a claim is under way, or a thread is busy that drains the queue when
\* it ends.  The one exception is the older check nobody can run.
THEOREM WaitingIsNeverForgotten == Spec => []NoLostWakeup
  <1>1. Init => TypeOK /\ WakeInv /\ NoLostWakeup
    <2> SUFFICES ASSUME Init PROVE TypeOK /\ WakeInv /\ NoLostWakeup
      OBVIOUS
    <2>1. TypeOK
      BY InitType
    <2>2. 0 \notin Unrunnable
      BY SetsAssumption, SizeAssumption DEF Checks
    <2> QED
      BY <2>1, <2>2, SetsAssumption DEF Init, WakeInv, NoLostWakeup, Rec, NoRecord, Waiting
  <1>2. TypeOK /\ WakeInv /\ NoLostWakeup /\ [Next]_vars => (TypeOK /\ WakeInv /\ NoLostWakeup)'
    BY TypeKept, WakeKept
  <1> QED
    BY <1>1, <1>2, PTL DEF Spec
-----------------------------------------------------------------------------
(* A stop beats the results.                                               *)

StopWins ==
  \A c \in Checks :
     (c \in stopping /\ mem[c].status = "stopped" /\ mem'[c].status \in Verdicts) => look = c

\* A step that writes no verdict, or that writes to a check nobody stopped.
LEMMA StopFrame ==
  ASSUME TypeOK,
         \A c \in Checks : \/ mem'[c].status = mem[c].status
                           \/ mem'[c].status \notin Verdicts
                           \/ c \notin stopping \/ mem[c] = NoRecord \/ look = c
  PROVE  StopWins
  BY DEF StopWins, Verdicts, NoRecord

LEMMA StopFrameStatus ==
  ASSUME TypeOK, NEW c \in Checks,
         NEW status \in {"queued", "pending", "running", "stopped", "success", "failed"},
         Save(c, To(c, status)) \/ Assign(c, To(c, status)),
         status \notin Verdicts \/ c \notin stopping \/ look = c
  PROVE  StopWins
  <1>1. RecordsOK
    BY DEF TypeOK, RecordsOK
  <1>2. PICK r \in Records : r = To(c, status) /\ r.status = status
    BY <1>1, ToTyped
  <1>3. mem' = [mem EXCEPT ![c] = r]
    BY <1>2 DEF Save, Assign
  <1>4. mem'[c] = r /\ \A d \in Checks \ {c} : mem'[d] = mem[d]
    BY <1>3 DEF TypeOK
  <1> QED
    BY <1>2, <1>4, StopFrame

LEMMA StopFrameSame ==
  ASSUME TypeOK, mem' = mem \/ \E c \in Checks : Save(c, Rec(c))
  PROVE  StopWins
  <1>1. \A c \in Checks : mem'[c] = mem[c] \/ mem[c] = NoRecord
    BY DEF TypeOK, Save, Rec
  <1> QED
    BY <1>1, StopFrame

LEMMA StopFrameClaimNext ==
  ASSUME TypeOK, NEW t \in Threads, ClaimNext(t)
  PROVE  StopWins
  <1>1. CASE mem' = mem
    BY <1>1, StopFrameSame
  <1>2. CASE mem' # mem
    <2>1. Oldest(Claimable) \in Checks /\ BeginClaim(t, Oldest(Claimable))
      BY <1>2, OldestExists, ClaimableTyped DEF ClaimNext
    <2>2. Assign(Oldest(Claimable), To(Oldest(Claimable), "running"))
      BY <2>1 DEF BeginClaim
    <2> QED
      BY <2>1, <2>2, StopFrameStatus DEF Verdicts
  <1> QED
    BY <1>1, <1>2

LEMMA StopsWin == TypeOK /\ [Next]_vars => StopWins
  <1> SUFFICES ASSUME TypeOK, [Next]_vars PROVE StopWins
    OBVIOUS
  <1>0. RecordsOK
    BY DEF TypeOK, RecordsOK
  <1>1. CASE Submit
    <2>1. PICK c \in Checks \ Submitted : Save(c, [status |-> "queued", override |-> FALSE])
      BY <1>1 DEF Submit
    <2>2. mem'[c].status = "queued" /\ \A d \in Checks \ {c} : mem'[d] = mem[d]
      BY <2>1 DEF Save, TypeOK
    <2> QED
      BY <2>2, StopFrame DEF Verdicts
  <1>2. CASE Recent
    BY <1>2, StopFrameSame DEF Recent
  <1>3. CASE ReplaySave
    <2>1. release \in Checks
      BY <1>3 DEF ReplaySave, TypeOK, Checks
    <2>2. mem[release] # NoRecord => Rec(release) = mem[release]
      BY DEF Rec
    <2>3. \A d \in Checks : mem'[d].status = mem[d].status
      BY <1>3, <2>1, <2>2 DEF ReplaySave, Save, TypeOK, Records
    <2> QED
      BY <2>3, StopFrame
  <1>4. CASE MarkInterrupted
    <2>1. look \in Checks
      BY <1>4 DEF MarkInterrupted, TypeOK, Checks
    <2> QED
      BY <1>4, <2>1, StopFrameStatus DEF MarkInterrupted
  <1>5. CASE Crash
    BY <1>5, StopFrame DEF Crash, NoRecord, Verdicts
  <1>6. ASSUME NEW c \in Checks, Operate(c) PROVE StopWins
    <2>1. CASE StopCheck(c)
      BY <2>1, StopFrameStatus DEF StopCheck, Verdicts
    <2>2. CASE ReplaySend(c)
      BY <2>2, StopFrameSame DEF ReplaySend
    <2>3. CASE Read(c)
      <3>1. \A d \in Checks : mem'[d] = mem[d] \/ mem[d] = NoRecord
        BY <2>3 DEF Read, Rec, TypeOK
      <3> QED
        BY <3>1, StopFrame
    <2> QED
      BY <1>6, <2>1, <2>2, <2>3 DEF Operate
  <1>7. ASSUME NEW t \in Threads, Begin(t) PROVE StopWins
    <2>1. CASE StartPending(t)
      <3>1. CASE Claimable # {} /\ Save(Oldest(Claimable), To(Oldest(Claimable), "pending"))
        BY <3>1, OldestExists, ClaimableTyped, StopFrameStatus DEF Verdicts
      <3> QED
        BY <2>1, <3>1, StopFrameClaimNext DEF StartPending
    <2>2. ASSUME NEW c \in Checks, RunCheck(t, c) PROVE StopWins
      <3>1. CASE UNCHANGED <<mem, store, lock, thread>>
        BY <3>1, StopFrameSame
      <3>2. CASE Save(c, To(c, "pending"))
        BY <3>2, StopFrameStatus DEF Verdicts
      <3>3. CASE BeginClaim(t, c)
        BY <3>3, StopFrameStatus DEF BeginClaim, Verdicts
      <3> QED
        BY <2>2, <3>1, <3>2, <3>3 DEF RunCheck, ClaimCheck
    <2> QED
      BY <1>7, <2>1, <2>2 DEF Begin
  <1>8. ASSUME NEW t \in Threads, ThreadStep(t) PROVE StopWins
    <2>0. thread[t].at \notin {"idle", "drain"} => Mine(t) \in Checks
      BY DEF TypeOK, Mine
    <2>1. CASE Register(t)
      BY <2>0, <2>1, StopFrameSame DEF Register, At
    <2>2. CASE Start(t)
      BY <2>2, StopFrameSame DEF Start
    <2>3. CASE MarkRunning(t)
      BY <2>0, <2>3, StopFrameStatus DEF MarkRunning, At, Verdicts
    <2>4. CASE Prepare(t)
      BY <2>0, <2>4, StopFrameSame DEF Prepare, At
    <2>5. CASE RunGate(t)
      BY <2>5, StopFrameSame DEF RunGate
    <2>6. CASE Finish(t)
      <3>1. Mine(t) \in Checks
        BY <2>0, <2>6 DEF Finish, At
      <3> DEFINE status == IF thread[t].passed THEN "success" ELSE "failed"
      <3>2. status \in {"success", "failed"}
        OBVIOUS
      <3>3. \/ mem' = mem
            \/ Mine(t) \notin stopping /\ Assign(Mine(t), To(Mine(t), status))
        BY <2>6 DEF Finish
      <3> HIDE DEF status
      <3> QED
        BY <3>1, <3>2, <3>3, StopFrameStatus, StopFrameSame
    <2>7. CASE ChooseVerdict(t)
      BY <2>7, StopFrameSame DEF ChooseVerdict
    <2>8. CASE SendVerdict(t)
      BY <2>0, <2>8, StopFrameSame DEF SendVerdict, At
    <2>9. CASE Raised(t)
      BY <2>0, <2>9, StopFrameStatus, StopFrameSame DEF Raised, At
    <2>10. CASE End(t)
      BY <2>10, StopFrameSame DEF End
    <2>11. CASE Drain(t)
      BY <2>11, StopFrameClaimNext DEF Drain
    <2> QED
      BY <1>8, <2>1, <2>2, <2>3, <2>4, <2>5, <2>6, <2>7, <2>8, <2>9, <2>10, <2>11 DEF ThreadStep
  <1>9. CASE UNCHANGED vars
    BY <1>9, StopFrameSame DEF vars
  <1> QED
    BY <1>1, <1>2, <1>3, <1>4, <1>5, <1>6, <1>7, <1>8, <1>9 DEF Next

\* While the intent to stop a check is noted, no late result and no exception
\* of its run turns "stopped" into a verdict: only a reader can who decided,
\* before the stop, that the run was orphaned.
THEOREM AStopBeatsTheResults == Spec => StopBeatsResults
  <1>1. Init => TypeOK
    BY InitType
  <1>2. TypeOK /\ [Next]_vars => TypeOK'
    BY TypeKept
  <1>3. TypeOK /\ [Next]_vars => [StopWins]_vars
    BY StopsWin
  <1> QED
    BY <1>1, <1>2, <1>3, PTL DEF Spec, StopBeatsResults, StopWins
=============================================================================

--------------------------- MODULE FixSessionProofs ---------------------------
(***************************************************************************)
(* The fix sessions of a failed check, for any number of request threads,  *)
(* sessions, repair tasks, requests and crashes: the repairs of one check  *)
(* do not compete, and no callback is lost however stale copies of the     *)
(* record overwrite one another.                                           *)
(***************************************************************************)
EXTENDS FixSession, FiniteSetTheorems, WellFoundedInduction, TLAPS

-------------------------------------------------------------------------------
(* Copies of the record and what the handlers do to one session of a copy. *)

Statuses == Passed \cup FailedSession \cup
    {"creating_repair_task", "repair_task_created", "repairing",
     "repair_completed", "rerun_running"}
PassKeys == {"success", "passed_with_equivalent_mutants"}
Keys == PassKeys \cup {"none", "failure", "repair_failed"}
Sessions == [id : Sids, status : Statuses, task : Nat, key : Keys, already : BOOLEAN]
Copies == [status : {"success", "failed"}, excused : BOOLEAN, sessions : Seq(Sessions)]

\* The sessions of a copy are those of another one, in the same order; the
\* n-th may have another status or another key.
SameSessions(new, old) ==
    /\ new \in Copies /\ DOMAIN new.sessions = DOMAIN old.sessions
    /\ Len(new.sessions) = Len(old.sessions)
    /\ \A m \in DOMAIN old.sessions : new.sessions[m].id = old.sessions[m].id
OthersKept(new, old, n) ==
    \A m \in DOMAIN old.sessions \ {n} : new.sessions[m] = old.sessions[m]

LEMMA SessionOf ==
  ASSUME NEW copy \in Copies, NEW n \in DOMAIN copy.sessions
  PROVE  /\ copy.sessions[n] \in Sessions /\ n \in Nat \ {0}
         /\ copy.sessions[n].id \in Sids /\ copy.sessions[n].status \in Statuses
         /\ copy.sessions[n].task \in Nat /\ copy.sessions[n].key \in Keys
         /\ copy.sessions \in Seq(Sessions)
  <1>1. copy.sessions \in Seq(Sessions)
    BY DEF Copies
  <1>2. DOMAIN copy.sessions = 1..Len(copy.sessions) /\ Len(copy.sessions) \in Nat
    BY <1>1
  <1>3. copy.sessions[n] \in Sessions /\ n \in Nat \ {0}
    BY <1>1, <1>2
  <1> QED
    BY <1>1, <1>3 DEF Sessions

\* One session of a copy gives way to another form of itself.
LEMMA Replaced ==
  ASSUME NEW copy \in Copies, NEW n \in DOMAIN copy.sessions,
         NEW session \in Sessions, session.id = copy.sessions[n].id
  PROVE  LET new == [copy EXCEPT !.sessions[n] = session] IN
         /\ SameSessions(new, copy) /\ OthersKept(new, copy, n)
         /\ new.sessions[n] = session
  <1> DEFINE ss == [copy.sessions EXCEPT ![n] = session]
             new == [copy EXCEPT !.sessions = ss]
  <1>1. copy.sessions[n] \in Sessions /\ copy.sessions \in Seq(Sessions)
    BY SessionOf
  <1>2. ss \in Seq(Sessions) /\ Len(ss) = Len(copy.sessions) /\ DOMAIN ss = DOMAIN copy.sessions
    BY <1>1
  <1>3. new \in Copies /\ new.sessions = ss
    BY <1>2 DEF Copies
  <1>4. ss[n] = session /\ \A m \in DOMAIN copy.sessions \ {n} : ss[m] = copy.sessions[m]
    BY <1>1
  <1> QED
    BY <1>2, <1>3, <1>4 DEF SameSessions, OthersKept

LEMMA StatusSet ==
  ASSUME NEW copy \in Copies, NEW n \in DOMAIN copy.sessions, NEW value \in Statuses
  PROVE  LET new == Status(copy, n, value) IN
         /\ SameSessions(new, copy) /\ OthersKept(new, copy, n)
         /\ new.sessions[n].status = value /\ new.sessions[n].key = copy.sessions[n].key
  <1> DEFINE session == [copy.sessions[n] EXCEPT !.status = value]
  <1>1. copy.sessions[n] \in Sessions
    BY SessionOf
  <1>2. /\ session \in Sessions /\ session.status = value
        /\ session.id = copy.sessions[n].id /\ session.key = copy.sessions[n].key
    BY <1>1 DEF Sessions
  <1>3. PICK other \in Sessions : other = session
    BY <1>2
  <1>4. Status(copy, n, value) = [copy EXCEPT !.sessions[n] = other]
    BY <1>3 DEF Status, Set
  <1> HIDE DEF session
  <1>5. other.id = copy.sessions[n].id
    BY <1>2, <1>3
  <1> DEFINE new == [copy EXCEPT !.sessions[n] = other]
  <1>6. SameSessions(new, copy) /\ OthersKept(new, copy, n) /\ new.sessions[n] = other
    BY <1>5, Replaced
  <1> HIDE DEF new
  <1> QED
    BY <1>2, <1>3, <1>4, <1>6 DEF new

LEMMA KeySet ==
  ASSUME NEW copy \in Copies, NEW n \in DOMAIN copy.sessions, NEW value \in Keys
  PROVE  LET new == Set(copy, n, "key", value) IN
         /\ SameSessions(new, copy) /\ OthersKept(new, copy, n)
         /\ new.sessions[n].key = value /\ new.sessions[n].status = copy.sessions[n].status
  <1> DEFINE session == [copy.sessions[n] EXCEPT !.key = value]
  <1>1. copy.sessions[n] \in Sessions
    BY SessionOf
  <1>2. /\ session \in Sessions /\ session.key = value
        /\ session.id = copy.sessions[n].id /\ session.status = copy.sessions[n].status
    BY <1>1 DEF Sessions
  <1>3. PICK other \in Sessions : other = session
    BY <1>2
  <1>4. Set(copy, n, "key", value) = [copy EXCEPT !.sessions[n] = other]
    BY <1>3 DEF Status, Set
  <1> HIDE DEF session
  <1>5. other.id = copy.sessions[n].id
    BY <1>2, <1>3
  <1> DEFINE new == [copy EXCEPT !.sessions[n] = other]
  <1>6. SameSessions(new, copy) /\ OthersKept(new, copy, n) /\ new.sessions[n] = other
    BY <1>5, Replaced
  <1> HIDE DEF new
  <1> QED
    BY <1>2, <1>3, <1>4, <1>6 DEF new

LEMMA TaskSet ==
  ASSUME NEW copy \in Copies, NEW n \in DOMAIN copy.sessions, NEW value \in Nat
  PROVE  LET new == Set(copy, n, "task", value) IN
         /\ SameSessions(new, copy) /\ OthersKept(new, copy, n)
         /\ new.sessions[n].key = copy.sessions[n].key
         /\ new.sessions[n].status = copy.sessions[n].status
  <1> DEFINE session == [copy.sessions[n] EXCEPT !.task = value]
  <1>1. copy.sessions[n] \in Sessions
    BY SessionOf
  <1>2. /\ session \in Sessions /\ session.task = value
        /\ session.id = copy.sessions[n].id /\ session.status = copy.sessions[n].status /\ session.key = copy.sessions[n].key
    BY <1>1 DEF Sessions
  <1>3. PICK other \in Sessions : other = session
    BY <1>2
  <1>4. Set(copy, n, "task", value) = [copy EXCEPT !.sessions[n] = other]
    BY <1>3 DEF Status, Set
  <1> HIDE DEF session
  <1>5. other.id = copy.sessions[n].id
    BY <1>2, <1>3
  <1> DEFINE new == [copy EXCEPT !.sessions[n] = other]
  <1>6. SameSessions(new, copy) /\ OthersKept(new, copy, n) /\ new.sessions[n] = other
    BY <1>5, Replaced
  <1> HIDE DEF new
  <1> QED
    BY <1>2, <1>3, <1>4, <1>6 DEF new

LEMMA AlreadySet ==
  ASSUME NEW copy \in Copies, NEW n \in DOMAIN copy.sessions
  PROVE  LET new == Set(copy, n, "already", TRUE) IN
         /\ SameSessions(new, copy) /\ OthersKept(new, copy, n)
         /\ new.sessions[n].key = copy.sessions[n].key
         /\ new.sessions[n].status = copy.sessions[n].status
  <1> DEFINE session == [copy.sessions[n] EXCEPT !.already = TRUE]
  <1>1. copy.sessions[n] \in Sessions
    BY SessionOf
  <1>2. /\ session \in Sessions /\ session.already = TRUE
        /\ session.id = copy.sessions[n].id /\ session.status = copy.sessions[n].status /\ session.key = copy.sessions[n].key
    BY <1>1 DEF Sessions
  <1>3. PICK other \in Sessions : other = session
    BY <1>2
  <1>4. Set(copy, n, "already", TRUE) = [copy EXCEPT !.sessions[n] = other]
    BY <1>3 DEF Status, Set
  <1> HIDE DEF session
  <1>5. other.id = copy.sessions[n].id
    BY <1>2, <1>3
  <1> DEFINE new == [copy EXCEPT !.sessions[n] = other]
  <1>6. SameSessions(new, copy) /\ OthersKept(new, copy, n) /\ new.sessions[n] = other
    BY <1>5, Replaced
  <1> HIDE DEF new
  <1> QED
    BY <1>2, <1>3, <1>4, <1>6 DEF new

\* The outcome of a gate result: a passed session has a passing key.
AppliedFits(new, copy, n, key) ==
    /\ SameSessions(new, copy) /\ OthersKept(new, copy, n)
    /\ new.sessions[n].key = copy.sessions[n].key
    /\ new.sessions[n].status \in Passed => key \in PassKeys
    /\ key \in Keys \ {"none"}

LEMMA AppliedSet ==
  ASSUME NEW copy \in Copies, NEW n \in DOMAIN copy.sessions,
         NEW outcome \in {"passed", "failed", "excused"}
  PROVE  AppliedFits(Applied(copy, n, outcome), copy, n, OutcomeKey(outcome))
  <1>1. ASSUME NEW value \in Statuses, NEW st \in {"success", "failed"}, NEW ex \in BOOLEAN
        PROVE  LET new == [Status(copy, n, value) EXCEPT !.status = st, !.excused = ex] IN
               /\ SameSessions(new, copy) /\ OthersKept(new, copy, n)
               /\ new.sessions[n].key = copy.sessions[n].key
               /\ new.sessions[n].status = value
    <2>1. PICK mid \in Copies : mid = Status(copy, n, value)
      BY StatusSet DEF SameSessions
    <2>2. /\ SameSessions(mid, copy) /\ OthersKept(mid, copy, n)
          /\ mid.sessions[n].key = copy.sessions[n].key /\ mid.sessions[n].status = value
      BY <2>1, StatusSet
    <2>3. /\ [mid EXCEPT !.status = st, !.excused = ex] \in Copies
          /\ [mid EXCEPT !.status = st, !.excused = ex].sessions = mid.sessions
      BY <1>1 DEF Copies
    <2> QED
      BY <2>1, <2>2, <2>3 DEF SameSessions, OthersKept
  <1>2. CASE outcome = "excused"
    BY <1>1, <1>2 DEF AppliedFits, Applied, Granted, OutcomeKey, Statuses, Passed, PassKeys, Keys
  <1>3. CASE outcome = "passed"
    BY <1>1, <1>3 DEF AppliedFits, Applied, OutcomeKey, ResultKey, Statuses, Passed, PassKeys, Keys
  <1>4. CASE outcome = "failed"
    <2> DEFINE new == [Status(copy, n, "rerun_failed") EXCEPT !.status = "failed", !.excused = FALSE]
    <2>1. "rerun_failed" \in Statuses /\ "rerun_failed" \notin Passed
      BY DEF Statuses, FailedSession, Passed
    <2>2. /\ SameSessions(new, copy) /\ OthersKept(new, copy, n)
          /\ new.sessions[n].key = copy.sessions[n].key
          /\ new.sessions[n].status = "rerun_failed"
      BY <1>1, <2>1
    <2>3. Applied(copy, n, outcome) = new /\ OutcomeKey(outcome) = "failure"
      BY <1>4 DEF Applied, OutcomeKey, ResultKey
    <2> HIDE DEF new
    <2> QED
      BY <2>1, <2>2, <2>3 DEF AppliedFits, Keys, PassKeys
  <1> QED
    BY <1>2, <1>3, <1>4
-------------------------------------------------------------------------------
(* The invariant.  Copies: what each of them says was posted, was; a green  *)
(* session is posted or about to be, by a thread that carries a passing    *)
(* key.  Threads: their object is one that was loaded and still has the    *)
(* session they are at.                                                    *)

RequestSteps == {"idle", "refresh", "rerun", "failed", "report", "keep"}
AtSession == {"rerun", "failed", "report", "keep"}
CreatorSteps == {"none", "begin", "refresh", "preflight", "report", "find",
                 "create", "dedupe", "attach", "cancel"}
RequestRecords == [at : RequestSteps, obj : {0} \cup Objects, at_session : Nat \ {0},
                   op : {"none", "read", "create", "retry"}, key : Keys]
CreatorRecords == [at : CreatorSteps, obj : {0} \cup Objects, own : Nat, other : Nat]

SessionsTypeOK ==
    /\ heap \in [{0} \cup Objects -> Copies]
    /\ task \in [Tasks -> {"none", "live"} \cup Ended \cup Lost]
    /\ request \in [Requests -> RequestRecords]
    /\ creator \in [Sids -> CreatorRecords]
    /\ posted \in [Sids -> SUBSET Keys]
    /\ bounds \in [requests : 0..MaxRequests, opened : 0..MaxSessions, crashes : Nat]

PassPosted(id) == posted[id] \cap PassKeys # {}
CarriesPass(r) == Here(r, "report") /\ request[r].key \in PassKeys
Announced(id) ==
    \/ PassPosted(id)
    \/ creator[id].at = "report"
    \/ \E r \in Requests : CarriesPass(r) /\ Sid(r) = id

CopyOK(copy) ==
    \A n \in DOMAIN copy.sessions :
        LET session == copy.sessions[n] IN
        /\ session.key # "none" => session.key \in posted[session.id]
        /\ session.status \in Passed /\ bounds.crashes = 0 => Announced(session.id)
        /\ session.id <= bounds.opened

RequestOK(r) ==
    /\ Obj(r) <= bounds.requests
    /\ request[r].at # "idle" => Obj(r) # 0
    /\ request[r].at \in AtSession => N(r) \in DOMAIN Copy(r).sessions
    /\ request[r].op = "retry" => Obj(r) # 0 /\ 1 \in DOMAIN Copy(r).sessions
    /\ request[r].at = "keep" => request[r].key \in posted[Sid(r)]

CreatorOK(s) ==
    /\ CObj(s) <= bounds.requests
    /\ creator[s].at # "none" =>
          CObj(s) # 0 /\ \E n \in DOMAIN Cr(s).sessions : Cr(s).sessions[n].id = s

SessionsOK ==
    /\ SessionsTypeOK
    /\ \A o \in {0} \cup Objects : CopyOK(heap[o])
    /\ \A r \in Requests : RequestOK(r)
    /\ \A s \in Sids : CreatorOK(s)

\* A copy that still has every session of another one, at its place.
Extends(new, old) ==
    \A m \in DOMAIN old.sessions :
        m \in DOMAIN new.sessions /\ new.sessions[m].id = old.sessions[m].id

\* What every step but a crash does to the callbacks and the counters.
Grows ==
    /\ posted' \in [Sids -> SUBSET Keys] /\ \A id \in Sids : posted[id] \subseteq posted'[id]
    /\ bounds' \in [requests : 0..MaxRequests, opened : 0..MaxSessions, crashes : Nat]
    /\ bounds.requests <= bounds'.requests /\ bounds.opened <= bounds'.opened
    /\ bounds'.crashes = bounds.crashes

\* A thread that a step leaves alone still fits its object.
LEMMA RequestKept ==
  ASSUME SessionsTypeOK, Grows, NEW r \in Requests, RequestOK(r),
         request'[r] = request[r], heap'[Obj(r)] \in Copies,
         Obj(r) # 0 => Extends(heap'[Obj(r)], heap[Obj(r)])
  PROVE  RequestOK(r)' /\ (request[r].at \in AtSession => Sid(r)' = Sid(r))
  <1>1. request[r] \in RequestRecords /\ Obj(r) \in {0} \cup Objects
    BY DEF SessionsTypeOK, RequestRecords, Obj
  <1>2. heap[Obj(r)] \in Copies /\ Obj(r)' = Obj(r) /\ N(r)' = N(r)
    BY <1>1 DEF SessionsTypeOK, Obj, N
  <1>3. Copy(r)' = heap'[Obj(r)]
    BY <1>2 DEF Copy
  <1>4. ASSUME request[r].at \in AtSession
        PROVE  N(r) \in DOMAIN Copy(r)'.sessions /\ Sid(r)' = Sid(r) /\ Sid(r) \in Sids
    BY <1>2, <1>3, <1>4, SessionOf DEF RequestOK, AtSession, Extends, Sid, Session, Copy
  <1>5. Obj(r) <= bounds'.requests
    BY <1>1, SizesAssumption DEF RequestOK, Grows, SessionsTypeOK, Objects
  <1>6. request[r].op = "retry" => Obj(r) # 0 /\ 1 \in DOMAIN Copy(r)'.sessions
    BY <1>2, <1>3 DEF RequestOK, Extends, Copy
  <1>7. request[r].at = "keep" => request[r].key \in posted'[Sid(r)]
    BY <1>4 DEF RequestOK, Grows, AtSession
  <1> QED
    BY <1>2, <1>4, <1>5, <1>6, <1>7 DEF RequestOK, AtSession

LEMMA CreatorKept ==
  ASSUME SessionsTypeOK, Grows, NEW s \in Sids, CreatorOK(s),
         creator'[s].obj = creator[s].obj, creator[s].at # "none", creator'[s].at # "none",
         Extends(heap'[CObj(s)], heap[CObj(s)])
  PROVE  CreatorOK(s)'
  <1>1. CObj(s) \in {0} \cup Objects /\ CObj(s)' = CObj(s)
    BY DEF SessionsTypeOK, CreatorRecords, CObj
  <1>2. CObj(s) <= bounds'.requests
    BY <1>1, SizesAssumption DEF CreatorOK, Grows, SessionsTypeOK, Objects
  <1>3. \E n \in DOMAIN Cr(s)'.sessions : Cr(s)'.sessions[n].id = s
    BY <1>1 DEF CreatorOK, Extends, Cr
  <1> QED
    BY <1>1, <1>2, <1>3 DEF CreatorOK

\* A green session stays announced as long as those who carry its pass go on
\* or post it.
LEMMA AnnouncedKept ==
  ASSUME SessionsOK, Grows,
         \A s \in Sids : creator[s].at = "report" => creator'[s].at = "report" \/ PassPosted(s)',
         \A r \in Requests : CarriesPass(r) =>
             \/ posted'[Sid(r)] \cap PassKeys # {}
             \/ request'[r] = request[r] /\ Sid(r)' = Sid(r),
         NEW id \in Sids, Announced(id)
  PROVE  Announced(id)'
  <1>1. CASE PassPosted(id)
    BY <1>1 DEF PassPosted, Announced, Grows
  <1>2. CASE creator[id].at = "report"
    BY <1>2 DEF Announced
  <1>3. ASSUME NEW r \in Requests, CarriesPass(r), Sid(r) = id PROVE Announced(id)'
    <2>1. CASE posted'[Sid(r)] \cap PassKeys # {}
      BY <1>3, <2>1 DEF Announced, PassPosted
    <2>2. CASE request'[r] = request[r] /\ Sid(r)' = Sid(r)
      <3>1. CarriesPass(r)' /\ Sid(r)' = id
        BY <1>3, <2>2 DEF CarriesPass, Here
      <3> QED
        BY <3>1 DEF Announced
    <2> QED
      BY <1>3, <2>1, <2>2
  <1> QED
    BY <1>1, <1>2, <1>3 DEF Announced
\* A copy that a step leaves alone stays right, and so does one of which a
\* session is rewritten with what is posted or about to be.
LEMMA CopyKept ==
  ASSUME NEW copy \in Copies, CopyOK(copy), Grows, SessionsTypeOK,
         \A id \in Sids : Announced(id) => Announced(id)'
  PROVE  CopyOK(copy)'
  <1> SUFFICES ASSUME NEW n \in DOMAIN copy.sessions
               PROVE  LET session == copy.sessions[n] IN
                      /\ session.key # "none" => session.key \in posted'[session.id]
                      /\ session.status \in Passed /\ bounds'.crashes = 0 => Announced(session.id)'
                      /\ session.id <= bounds'.opened
    BY DEF CopyOK
  <1>1. PICK id \in Sids : id = copy.sessions[n].id
    BY SessionOf
  <1>2. bounds.opened <= bounds'.opened /\ bounds.opened \in Nat /\ bounds'.opened \in Nat
    BY SizesAssumption DEF Grows, SessionsTypeOK
  <1>3. id <= bounds'.opened
    BY <1>1, <1>2, SizesAssumption DEF CopyOK, Sids
  <1>4. copy.sessions[n].key # "none" => copy.sessions[n].key \in posted'[id]
    BY <1>1 DEF CopyOK, Grows
  <1>5. copy.sessions[n].status \in Passed /\ bounds'.crashes = 0 => Announced(id)'
    BY <1>1 DEF CopyOK, Grows
  <1> QED
    BY <1>1, <1>3, <1>4, <1>5

LEMMA CopyRewritten ==
  ASSUME NEW old \in Copies, NEW new \in Copies, NEW n \in DOMAIN old.sessions,
         SameSessions(new, old), OthersKept(new, old, n), CopyOK(old)', NEW id \in Sids,
         id = old.sessions[n].id,
         \/ new.sessions[n].key = old.sessions[n].key
         \/ new.sessions[n].key \in posted'[id],
         \/ new.sessions[n].status \notin Passed
         \/ new.sessions[n].status = old.sessions[n].status
         \/ Announced(id)'
  PROVE  CopyOK(new)'
  <1> SUFFICES ASSUME NEW m \in DOMAIN old.sessions
               PROVE  LET session == new.sessions[m] IN
                      /\ session.key # "none" => session.key \in posted'[session.id]
                      /\ session.status \in Passed /\ bounds'.crashes = 0 => Announced(session.id)'
                      /\ session.id <= bounds'.opened
    BY DEF CopyOK, SameSessions
  <1>1. CASE m # n
    BY <1>1 DEF CopyOK, OthersKept
  <1>2. CASE m = n
    <2>1. new.sessions[m].id = id
      BY <1>2 DEF SameSessions
    <2>2. id <= bounds'.opened
      BY <1>2 DEF CopyOK
    <2>3. new.sessions[m].key # "none" => new.sessions[m].key \in posted'[id]
      BY <1>2 DEF CopyOK
    <2>4. new.sessions[m].status \in Passed /\ bounds'.crashes = 0 => Announced(id)'
      BY <1>2 DEF CopyOK
    <2> QED
      BY <2>1, <2>2, <2>3, <2>4
  <1> QED
    BY <1>1, <1>2

\* What a save, an assignment or neither does to the copies.
LEMMA HeapWritten ==
  ASSUME SessionsOK, NEW o \in Objects, NEW new \in Copies, SameSessions(new, heap[o]),
         Save(o, new) \/ Assign(o, new) \/ (heap' = heap /\ new = heap[o])
  PROVE  /\ heap' \in [{0} \cup Objects -> Copies] /\ heap'[o] = new
         /\ heap'[0] \in {heap[0], new}
         /\ \A p \in Objects : p # o => heap'[p] = heap[p]
         /\ \A p \in Objects : Extends(heap'[p], heap[p])
  <1>1. 0 \notin Objects /\ heap \in [{0} \cup Objects -> Copies]
    BY DEF Objects, SessionsOK, SessionsTypeOK
  <1>2. /\ heap' \in [{0} \cup Objects -> Copies] /\ heap'[o] = new
        /\ heap'[0] \in {heap[0], new}
        /\ \A p \in Objects : p # o => heap'[p] = heap[p]
    BY <1>1 DEF Save, Assign
  <1>3. \A p \in Objects : Extends(heap'[p], heap[p])
    BY <1>2 DEF Extends, SameSessions
  <1> QED
    BY <1>2, <1>3
-------------------------------------------------------------------------------
(* Request threads.                                                        *)

\* A thread r at its session goes on as q, with its object as new, after a
\* callback or without one: the rewritten session says only what is posted,
\* or what r is about to post.
Rewrites(r, q, new) ==
    /\ SameSessions(new, Copy(r)) /\ OthersKept(new, Copy(r), N(r))
    /\ request' = [request EXCEPT ![r] = q]
    /\ Save(Obj(r), new) \/ Assign(Obj(r), new) \/ (heap' = heap /\ new = Copy(r))
    /\ UNCHANGED bounds
    /\ posted' \in [Sids -> SUBSET Keys] /\ \A id \in Sids : posted[id] \subseteq posted'[id]
    /\ task' = task
    /\ q.obj = Obj(r) /\ q.op = request[r].op /\ q.at # "idle"
    /\ q.at \in AtSession => q.at_session = N(r)
    /\ q.at = "keep" => q.key \in posted'[Sid(r)]
    /\ CarriesPass(r) => posted'[Sid(r)] \cap PassKeys # {}
    /\ \/ new.sessions[N(r)].key = Session(r).key
       \/ new.sessions[N(r)].key \in posted'[Sid(r)]
    /\ \/ new.sessions[N(r)].status \notin Passed
       \/ new.sessions[N(r)].status = Session(r).status
       \/ posted'[Sid(r)] \cap PassKeys # {}
       \/ q.at = "report" /\ q.key \in PassKeys

\* A creation thread starts for a session unless it has one.
LEMMA CreatorStarts ==
  ASSUME creator \in [Sids -> CreatorRecords], NEW id \in Sids, NEW o \in Objects
  PROVE  /\ Creators(id, o) \in [Sids -> CreatorRecords]
         /\ \A s \in Sids : \/ Creators(id, o)[s] = creator[s]
                            \/ /\ s = id /\ creator[s].at = "none"
                               /\ Creators(id, o)[s].at = "begin" /\ Creators(id, o)[s].obj = o
  <1> DEFINE begun == [NoCreator EXCEPT !.at = "begin", !.obj = o]
  <1>1. PICK none \in CreatorRecords : none = NoCreator
    BY DEF NoCreator, CreatorRecords, CreatorSteps
  <1>2. begun \in CreatorRecords /\ begun.at = "begin" /\ begun.obj = o
    BY <1>1 DEF CreatorRecords, CreatorSteps
  <1> HIDE DEF begun
  <1>3. Creators(id, o) = IF creator[id].at = "none" THEN [creator EXCEPT ![id] = begun]
                          ELSE creator
    BY DEF Creators, begun
  <1> QED
    BY <1>2, <1>3

LEMMA RequestRewrites ==
  ASSUME SessionsOK, NEW r \in Requests, request[r].at # "idle",
         NEW q \in RequestRecords, NEW new \in Copies, N(r) \in DOMAIN Copy(r).sessions,
         Rewrites(r, q, new),
         creator' = creator \/ creator' = Creators(Sid(r), Obj(r))
  PROVE  SessionsOK'
  <1>1. PICK o \in Objects : o = Obj(r)
    BY DEF SessionsOK, SessionsTypeOK, RequestRecords, RequestOK, Obj
  <1>2. PICK old \in Copies : old = heap[o]
    BY DEF SessionsOK, SessionsTypeOK
  <1>3. PICK n \in DOMAIN old.sessions : n = N(r)
    BY <1>1, <1>2 DEF Copy
  <1>4. PICK id \in Sids : id = old.sessions[n].id
    BY SessionOf
  <1>5. Copy(r) = old /\ Session(r) = old.sessions[n] /\ Sid(r) = id
    BY <1>1, <1>2, <1>3, <1>4 DEF Copy, Session, Sid
  <1>6. Grows
    BY SizesAssumption DEF Grows, Rewrites, SessionsOK, SessionsTypeOK
  <1>7. /\ heap' \in [{0} \cup Objects -> Copies] /\ heap'[o] = new
        /\ heap'[0] \in {heap[0], new}
        /\ \A p \in Objects : p # o => heap'[p] = heap[p]
        /\ \A p \in Objects : Extends(heap'[p], heap[p])
    BY <1>1, <1>2, <1>5, HeapWritten DEF Rewrites
  <1>8. request[r] \in RequestRecords /\ request'[r] = q
        /\ \A t \in Requests : t # r => request'[t] = request[t]
        /\ request' \in [Requests -> RequestRecords]
    BY DEF Rewrites, SessionsOK, SessionsTypeOK
  <1>9. /\ creator' \in [Sids -> CreatorRecords]
        /\ \A s \in Sids : \/ creator'[s] = creator[s]
                           \/ /\ s = id /\ creator[s].at = "none"
                              /\ creator'[s].at = "begin" /\ creator'[s].obj = o
    BY <1>1, <1>5, CreatorStarts DEF SessionsOK, SessionsTypeOK
  <1>10. SessionsTypeOK'
    BY <1>6, <1>7, <1>8, <1>9 DEF Grows, Rewrites, SessionsOK, SessionsTypeOK
  <1>11. ASSUME NEW t \in Requests, t # r
         PROVE  RequestOK(t)' /\ (request[t].at \in AtSession => Sid(t)' = Sid(t))
    <2>1. Obj(t) \in {0} \cup Objects
      BY DEF SessionsOK, SessionsTypeOK, RequestRecords, Obj
    <2>2. heap'[Obj(t)] \in Copies /\ (Obj(t) # 0 => Extends(heap'[Obj(t)], heap[Obj(t)]))
      BY <1>7, <2>1
    <2> QED
      BY <1>6, <1>8, <1>11, <2>2, RequestKept DEF SessionsOK
  <1>12. \A i \in Sids : Announced(i) => Announced(i)'
    <2>1. ASSUME NEW s \in Sids, creator[s].at = "report" PROVE creator'[s].at = "report"
      BY <1>9, <2>1
    <2>2. ASSUME NEW t \in Requests, CarriesPass(t)
          PROVE  \/ posted'[Sid(t)] \cap PassKeys # {}
                 \/ request'[t] = request[t] /\ Sid(t)' = Sid(t)
      BY <1>8, <1>11, <2>2 DEF Rewrites, CarriesPass, Here, AtSession
    <2> QED
      BY <1>6, <2>1, <2>2, AnnouncedKept
  <1>13. \A p \in {0} \cup Objects : CopyOK(heap[p])'
    <2>1. ASSUME NEW c \in Copies, CopyOK(c) PROVE CopyOK(c)'
      BY <1>6, <1>12, <2>1, CopyKept DEF SessionsOK
    <2>2. CopyOK(new)'
      <3>1. CopyOK(old)'
        BY <1>2, <2>1 DEF SessionsOK
      <3>2. /\ SameSessions(new, old) /\ OthersKept(new, old, n)
            /\ \/ new.sessions[n].key = old.sessions[n].key
               \/ new.sessions[n].key \in posted'[id]
        BY <1>3, <1>5 DEF Rewrites
      <3>3. \/ new.sessions[n].status \notin Passed
            \/ new.sessions[n].status = old.sessions[n].status
            \/ posted'[id] \cap PassKeys # {}
            \/ q.at = "report" /\ q.key \in PassKeys
        BY <1>3, <1>5 DEF Rewrites
      <3>4. ASSUME q.at = "report", q.key \in PassKeys PROVE Announced(id)'
        <4>1. Obj(r)' = o /\ N(r)' = n
          BY <1>1, <1>3, <1>8, <3>4 DEF Rewrites, Obj, N, AtSession
        <4>2. Sid(r)' = id
          BY <1>4, <1>7, <3>2, <4>1 DEF Sid, Session, Copy, SameSessions
        <4>3. CarriesPass(r)'
          BY <1>8, <3>4 DEF CarriesPass, Here
        <4> QED
          BY <4>2, <4>3 DEF Announced
      <3>5. posted'[id] \cap PassKeys # {} => Announced(id)'
        BY DEF Announced, PassPosted
      <3> QED
        BY <1>4, <3>1, <3>2, <3>3, <3>4, <3>5, CopyRewritten
    <2>3. ASSUME NEW p \in {0} \cup Objects PROVE CopyOK(heap[p])'
      <3>1. PICK c \in Copies : c = heap[p]
        BY DEF SessionsOK, SessionsTypeOK
      <3>2. CopyOK(c)'
        BY <2>1, <3>1 DEF SessionsOK
      <3>3. PICK d \in Copies : d = heap'[p]
        BY <1>7
      <3>4. d = c \/ d = old \/ d = new
        BY <1>1, <1>2, <1>7, <3>1, <3>3
      <3>5. CopyOK(d)'
        BY <1>2, <2>1, <2>2, <3>2, <3>4 DEF SessionsOK
      <3> QED
        BY <3>3, <3>5 DEF CopyOK
    <2> QED
      BY <2>3
  <1>14. RequestOK(r)'
    <2>1. Obj(r)' = o /\ q.op = request[r].op /\ Copy(r)' = new
      BY <1>1, <1>7, <1>8 DEF Rewrites, Obj, Copy
    <2>2. o <= bounds'.requests /\ o # 0
      BY <1>1 DEF Rewrites, SessionsOK, RequestOK, Objects
    <2>3. ASSUME q.at \in AtSession
          PROVE  N(r)' \in DOMAIN Copy(r)'.sessions /\ Sid(r)' = id
      BY <1>3, <1>4, <1>5, <1>8, <2>1, <2>3 DEF Rewrites, N, Sid, Session, SameSessions
    <2>4. q.at = "keep" => q.key \in posted'[id]
      BY <1>5 DEF Rewrites
    <2>5. q.op = "retry" => 1 \in DOMAIN new.sessions
      BY <1>5, <2>1 DEF Rewrites, SessionsOK, RequestOK, SameSessions
    <2> QED
      BY <1>8, <2>1, <2>2, <2>3, <2>4, <2>5 DEF RequestOK, AtSession
  <1>15. ASSUME NEW s \in Sids PROVE CreatorOK(s)'
    <2>1. CASE creator'[s] = creator[s]
      BY <1>6, <1>7, <2>1, CreatorKept
      DEF SessionsOK, SessionsTypeOK, CreatorRecords, CreatorOK, CObj, Rewrites
    <2>2. CASE s = id /\ creator[s].at = "none" /\ creator'[s].at = "begin" /\ creator'[s].obj = o
      <3>1. CObj(s)' = o /\ Cr(s)' = new
        BY <1>7, <2>2 DEF CObj, Cr
      <3>2. n \in DOMAIN new.sessions /\ new.sessions[n].id = s
        BY <1>4, <1>5, <2>2 DEF Rewrites, SameSessions
      <3>3. o # 0 /\ o <= bounds'.requests
        BY <1>1 DEF Rewrites, SessionsOK, RequestOK, Objects
      <3> QED
        BY <3>1, <3>2, <3>3 DEF CreatorOK
    <2> QED
      BY <1>9, <2>1, <2>2
  <1> QED
    BY <1>10, <1>11, <1>13, <1>14, <1>15 DEF SessionsOK
\* What a thread that is at one of its sessions can rely on.
LEMMA AtOne ==
  ASSUME SessionsOK, NEW r \in Requests, request[r].at # "idle",
         N(r) \in DOMAIN Copy(r).sessions
  PROVE  /\ request[r] \in RequestRecords /\ Obj(r) \in Objects
         /\ Copy(r) \in Copies /\ Session(r) \in Sessions /\ Sid(r) \in Sids
         /\ Session(r).key \in Keys /\ Session(r).status \in Statuses
         /\ Session(r).key # "none" => Session(r).key \in posted[Sid(r)]
         /\ SameSessions(Copy(r), Copy(r)) /\ OthersKept(Copy(r), Copy(r), N(r))
  <1>1. request[r] \in RequestRecords /\ Obj(r) \in Objects
    BY DEF SessionsOK, SessionsTypeOK, RequestRecords, RequestOK, Obj
  <1>2. PICK copy \in Copies : copy = Copy(r)
    BY <1>1 DEF SessionsOK, SessionsTypeOK, Copy
  <1>3. PICK n \in DOMAIN copy.sessions : n = N(r)
    BY <1>2
  <1>4. CopyOK(copy)
    BY <1>1, <1>2 DEF SessionsOK, Copy
  <1> QED
    BY <1>1, <1>2, <1>3, <1>4, SessionOf
    DEF CopyOK, SameSessions, OthersKept, Session, Sid, Sessions

\* The forms in which a thread goes on.
LEMMA NextSessionOn ==
  ASSUME SessionsOK, NEW r \in Requests,
         NextSession(r)
  PROVE  \E q \in RequestRecords :
            /\ request' = [request EXCEPT ![r] = q] /\ q.obj = Obj(r) /\ q.op = request[r].op
            /\ q.at = "refresh"
  <1>1. PICK p \in RequestRecords : p = request[r]
    BY DEF SessionsOK, SessionsTypeOK
  <1>2. PICK m \in Nat \ {0} : m = p.at_session + 1
    BY DEF RequestRecords
  <1> DEFINE q == [p EXCEPT !.at = "refresh", !.at_session = m]
  <1>3. /\ q \in RequestRecords /\ q.obj = Obj(r) /\ q.op = request[r].op
        /\ q.at = "refresh"
    BY <1>1 DEF RequestRecords, RequestSteps, Obj, N
  <1>4. request' = [request EXCEPT ![r] = q]
    BY <1>1, <1>2 DEF NextSession, SessionsOK, SessionsTypeOK
  <1> HIDE DEF q
  <1> QED
    BY <1>3, <1>4

LEMMA MoveOn ==
  ASSUME SessionsOK, NEW r \in Requests,
         NEW at \in RequestSteps, Move(r, at)
  PROVE  \E q \in RequestRecords :
            /\ request' = [request EXCEPT ![r] = q] /\ q.obj = Obj(r) /\ q.op = request[r].op
            /\ q.at = at /\ q.at_session = N(r) /\ q.key = request[r].key
  <1>1. PICK p \in RequestRecords : p = request[r]
    BY DEF SessionsOK, SessionsTypeOK
  <1> DEFINE q == [p EXCEPT !.at = at]
  <1>3. /\ q \in RequestRecords /\ q.obj = Obj(r) /\ q.op = request[r].op
        /\ q.at = at /\ q.at_session = N(r) /\ q.key = request[r].key
    BY <1>1 DEF RequestRecords, RequestSteps, Obj, N
  <1>4. request' = [request EXCEPT ![r] = q]
    BY <1>1 DEF Move, SessionsOK, SessionsTypeOK
  <1> HIDE DEF q
  <1> QED
    BY <1>3, <1>4

LEMMA ReportOn ==
  ASSUME SessionsOK, NEW r \in Requests,
         NEW key \in Keys, request' = [request EXCEPT ![r].at = "report", ![r].key = key]
  PROVE  \E q \in RequestRecords :
            /\ request' = [request EXCEPT ![r] = q] /\ q.obj = Obj(r) /\ q.op = request[r].op
            /\ q.at = "report" /\ q.at_session = N(r) /\ q.key = key
  <1>1. PICK p \in RequestRecords : p = request[r]
    BY DEF SessionsOK, SessionsTypeOK
  <1> DEFINE q == [p EXCEPT !.at = "report", !.key = key]
  <1>3. /\ q \in RequestRecords /\ q.obj = Obj(r) /\ q.op = request[r].op
        /\ q.at = "report" /\ q.at_session = N(r) /\ q.key = key
    BY <1>1 DEF RequestRecords, RequestSteps, Obj, N
  <1>4. request' = [request EXCEPT ![r] = q]
    BY <1>1 DEF SessionsOK, SessionsTypeOK
  <1> HIDE DEF q
  <1> QED
    BY <1>3, <1>4

\* A report is due, or was made: then what it would say was posted.
LEMMA ReportIsDue ==
  ASSUME SessionsOK, NEW r \in Requests, request[r].at \notin {"idle", "report"},
         N(r) \in DOMAIN Copy(r).sessions,
         NEW new \in Copies, NEW key \in Keys \ {"none"}, ReportDue(r, new, key),
         SameSessions(new, Copy(r)), OthersKept(new, Copy(r), N(r)),
         new.sessions[N(r)].key = Session(r).key,
         \/ new.sessions[N(r)].status = Session(r).status
         \/ new.sessions[N(r)].status \in Passed => key \in PassKeys,
         UNCHANGED <<task, creator, posted, bounds>>
  PROVE  SessionsOK'
  <1>1. /\ Session(r).key # "none" => Session(r).key \in posted[Sid(r)]
        /\ Sid(r) \in Sids /\ Obj(r) \in Objects
    BY AtOne
  <1>2. posted' \in [Sids -> SUBSET Keys] /\ ~CarriesPass(r)
    BY DEF SessionsOK, SessionsTypeOK, CarriesPass, Here
  <1>3. CASE Unreported(new.sessions[N(r)], key)
    <2>1. PICK q \in RequestRecords :
             /\ request' = [request EXCEPT ![r] = q] /\ q.at = "report"
             /\ q.at_session = N(r) /\ q.key = key
             /\ q.obj = Obj(r) /\ q.op = request[r].op
      BY <1>3, ReportOn DEF ReportDue
    <2>2. Rewrites(r, q, new)
      BY <1>2, <1>3, <2>1 DEF Rewrites, ReportDue
    <2> QED
      BY <2>2, RequestRewrites
  <1>4. CASE ~Unreported(new.sessions[N(r)], key)
    <2>1. NextSession(r) /\ Save(Obj(r), new)
      BY <1>4 DEF ReportDue
    <2>2. PICK q \in RequestRecords :
             /\ request' = [request EXCEPT ![r] = q] /\ q.at = "refresh"
             /\ q.obj = Obj(r) /\ q.op = request[r].op
      BY <2>1, NextSessionOn
    <2>3. key \in posted[Sid(r)]
      <3>1. Session(r).key = key
        BY <1>4 DEF Unreported
      <3> QED
        BY <1>1, <3>1
    <2>4. Rewrites(r, q, new)
      BY <1>2, <2>1, <2>2, <2>3 DEF Rewrites, AtSession
    <2> QED
      BY <2>4, RequestRewrites
  <1> QED
    BY <1>3, <1>4
\* A thread saves its session, with what is posted only, and goes on.
LEMMA SavesAndGoesOn ==
  ASSUME SessionsOK, NEW r \in Requests, request[r].at \notin {"idle", "report"},
         N(r) \in DOMAIN Copy(r).sessions, NEW new \in Copies,
         SameSessions(new, Copy(r)), OthersKept(new, Copy(r), N(r)),
         \/ new.sessions[N(r)].key = Session(r).key
         \/ new.sessions[N(r)].key \in posted[Sid(r)],
         \/ new.sessions[N(r)].status \notin Passed
         \/ new.sessions[N(r)].status = Session(r).status,
         \/ NextSession(r)
         \/ Move(r, "rerun") \/ Move(r, "failed")
         \/ request' = request /\ Here(r, "refresh"),
         Save(Obj(r), new) \/ (heap' = heap /\ new = Copy(r)),
         creator' = creator \/ creator' = Creators(Sid(r), Obj(r)),
         UNCHANGED <<task, posted, bounds>>
  PROVE  SessionsOK'
  <1>1. posted' \in [Sids -> SUBSET Keys] /\ ~CarriesPass(r)
    BY DEF SessionsOK, SessionsTypeOK, CarriesPass, Here
  <1>2. ASSUME NextSession(r) PROVE SessionsOK'
    <2>1. PICK q \in RequestRecords :
             /\ request' = [request EXCEPT ![r] = q] /\ q.at = "refresh"
             /\ q.obj = Obj(r) /\ q.op = request[r].op
      BY <1>2, NextSessionOn
    <2>2. Rewrites(r, q, new)
      BY <1>1, <2>1 DEF Rewrites, AtSession
    <2> QED
      BY <2>2, RequestRewrites
  <1>3. ASSUME NEW at \in {"rerun", "failed"}, Move(r, at) PROVE SessionsOK'
    <2>1. PICK q \in RequestRecords :
             /\ request' = [request EXCEPT ![r] = q] /\ q.at = at
             /\ q.at_session = N(r) /\ q.obj = Obj(r) /\ q.op = request[r].op
      <3>1. at \in RequestSteps
        BY <1>3 DEF RequestSteps
      <3> QED
        BY <1>3, <3>1, MoveOn
    <2>2. q.at # "idle" /\ q.at # "keep"
      BY <1>3, <2>1
    <2>3. Rewrites(r, q, new)
      BY <1>1, <2>1, <2>2 DEF Rewrites
    <2> QED
      BY <2>3, RequestRewrites
  <1>4. CASE request' = request /\ Here(r, "refresh")
    <2>1. PICK q \in RequestRecords : q = request[r]
      BY DEF SessionsOK, SessionsTypeOK
    <2>2. /\ request' = [request EXCEPT ![r] = q] /\ q.at = "refresh"
          /\ q.obj = Obj(r) /\ q.op = request[r].op
      BY <1>4, <2>1 DEF Here, Obj, SessionsOK, SessionsTypeOK
    <2>3. Rewrites(r, q, new)
      BY <1>1, <2>2 DEF Rewrites, AtSession
    <2> QED
      BY <2>3, RequestRewrites
  <1> QED
    BY <1>2, <1>3, <1>4

\* The n-th session gets another status, one that is not a passed one.
LEMMA NewStatus ==
  ASSUME SessionsOK, NEW r \in Requests, request[r].at # "idle",
         N(r) \in DOMAIN Copy(r).sessions, NEW value \in Statuses \ Passed
  PROVE  \E new \in Copies :
            /\ new = Status(Copy(r), N(r), value)
            /\ SameSessions(new, Copy(r)) /\ OthersKept(new, Copy(r), N(r))
            /\ new.sessions[N(r)].key = Session(r).key
            /\ new.sessions[N(r)].status \notin Passed
  <1>1. PICK copy \in Copies : copy = Copy(r)
    BY AtOne
  <1>2. PICK n \in DOMAIN copy.sessions : n = N(r)
    BY <1>1
  <1>3. Session(r) = copy.sessions[n]
    BY <1>1, <1>2 DEF Session
  <1> QED
    BY <1>1, <1>2, <1>3, StatusSet DEF SameSessions

\* The outcome of a gate result is applied, and its report is due.
LEMMA OutcomeIsDue ==
  ASSUME SessionsOK, NEW r \in Requests, request[r].at \notin {"idle", "report"},
         N(r) \in DOMAIN Copy(r).sessions, NEW outcome \in {"passed", "failed", "excused"},
         ReportDue(r, Applied(Copy(r), N(r), outcome), OutcomeKey(outcome)),
         UNCHANGED <<task, creator, posted, bounds>>
  PROVE  SessionsOK'
  <1>1. PICK copy \in Copies : copy = Copy(r)
    BY AtOne
  <1>2. PICK n \in DOMAIN copy.sessions : n = N(r)
    BY <1>1
  <1>3. AppliedFits(Applied(copy, n, outcome), copy, n, OutcomeKey(outcome))
    BY AppliedSet
  <1>4. PICK new \in Copies : new = Applied(copy, n, outcome)
    BY <1>3 DEF AppliedFits, SameSessions
  <1>5. PICK key \in Keys \ {"none"} : key = OutcomeKey(outcome)
    BY <1>3 DEF AppliedFits
  <1>6. /\ SameSessions(new, Copy(r)) /\ OthersKept(new, Copy(r), N(r))
        /\ new.sessions[N(r)].key = Session(r).key
        /\ new.sessions[N(r)].status \in Passed => key \in PassKeys
    BY <1>1, <1>2, <1>3, <1>4, <1>5 DEF AppliedFits, Session
  <1>7. ReportDue(r, new, key)
    BY <1>1, <1>2, <1>4, <1>5
  <1> QED
    BY <1>6, <1>7, ReportIsDue

LEMMA RefreshStep ==
  ASSUME SessionsOK, NEW r \in Requests, Refresh(r)
  PROVE  SessionsOK'
  <1>1. /\ request[r].at = "refresh" /\ Here(r, "refresh")
        /\ UNCHANGED <<task, posted, bounds>>
    BY DEF Refresh, Here
  <1>2. N(r) \in DOMAIN Copy(r).sessions
    <2>1. request[r] \in RequestRecords /\ Obj(r) \in {0} \cup Objects
      BY DEF SessionsOK, SessionsTypeOK, RequestRecords, Obj
    <2>2. PICK copy \in Copies : copy = Copy(r)
      BY <2>1 DEF SessionsOK, SessionsTypeOK, Copy
    <2>3. N(r) \in Nat \ {0} /\ N(r) <= Len(copy.sessions)
      BY <2>1, <2>2 DEF Refresh, RequestRecords, N
    <2> QED
      BY <2>2, <2>3 DEF Copies
  <1>3. PICK same \in Copies : same = Copy(r)
    BY <1>1, <1>2, AtOne
  <1>4. SameSessions(same, Copy(r)) /\ OthersKept(same, Copy(r), N(r))
        /\ same.sessions[N(r)].key = Session(r).key
        /\ same.sessions[N(r)].status = Session(r).status
    BY <1>1, <1>2, <1>3, AtOne DEF Session
  <1>5. ASSUME NextSession(r), heap' = heap,
               creator' = creator \/ creator' = Creators(Sid(r), Obj(r))
        PROVE  SessionsOK'
    BY <1>1, <1>2, <1>3, <1>4, <1>5, SavesAndGoesOn
  <1>6. ASSUME NEW value \in Statuses \ Passed, Save(Obj(r), Status(Copy(r), N(r), value)),
               \/ NextSession(r) \/ Move(r, "rerun") \/ Move(r, "failed") \/ request' = request,
               creator' = creator
        PROVE  SessionsOK'
    <2>1. PICK new \in Copies :
            /\ new = Status(Copy(r), N(r), value)
            /\ SameSessions(new, Copy(r)) /\ OthersKept(new, Copy(r), N(r))
            /\ new.sessions[N(r)].key = Session(r).key
            /\ new.sessions[N(r)].status \notin Passed
      BY <1>1, <1>2, NewStatus
    <2> QED
      BY <1>1, <1>2, <1>6, <2>1, SavesAndGoesOn
  <1>7. {"repairing", "repair_failed", "rerun_running", "repair_completed"} \subseteq Statuses \ Passed
    BY DEF Statuses, Passed, FailedSession
  <1>8. CASE RestartCreation(r)
    BY <1>5, <1>8 DEF RestartCreation
  <1>9. CASE FollowLive(r)
    BY <1>5, <1>6, <1>7, <1>9 DEF FollowLive
  <1>10. CASE FollowLost(r)
    BY <1>6, <1>7, <1>10 DEF FollowLost
  <1>11. CASE ApplyTaskResult(r)
    <2>1. PICK outcome \in {"passed", "failed", "excused"} :
             ReportDue(r, Applied(Copy(r), N(r), outcome), OutcomeKey(outcome))
      BY <1>11 DEF ApplyTaskResult
    <2>2. creator' = creator
      BY <1>11 DEF ApplyTaskResult
    <2> QED
      BY <1>1, <1>2, <2>1, <2>2, OutcomeIsDue
  <1>12. CASE Acquire(r)
    BY <1>5, <1>6, <1>7, <1>12 DEF Acquire
  <1>13. CASE Revive(r)
    BY <1>6, <1>7, <1>13 DEF Revive
  <1>14. CASE Skip(r)
    BY <1>5, <1>14 DEF Skip
  <1> QED
    BY <1>8, <1>9, <1>10, <1>11, <1>12, <1>13, <1>14 DEF Refresh

LEMMA ReportSteps ==
  ASSUME SessionsOK, NEW r \in Requests,
         Rerun(r) \/ ReportFailure(r) \/ Report(r) \/ KeepKey(r)
  PROVE  SessionsOK'
  <1>1. request[r].at \in AtSession /\ UNCHANGED <<task, creator, bounds>>
    BY DEF Rerun, ReportFailure, Report, KeepKey, AtSession, Here
  <1>2. N(r) \in DOMAIN Copy(r).sessions /\ request[r].at # "idle"
    BY <1>1 DEF SessionsOK, RequestOK, AtSession
  <1>3. PICK same \in Copies : same = Copy(r)
    BY <1>2, AtOne
  <1>4. SameSessions(same, Copy(r)) /\ OthersKept(same, Copy(r), N(r))
        /\ same.sessions[N(r)].key = Session(r).key
        /\ same.sessions[N(r)].status = Session(r).status
    BY <1>2, <1>3, AtOne DEF Session
  <1>5. Sid(r) \in Sids /\ request[r] \in RequestRecords
    BY <1>2, AtOne
  <1>6. CASE Rerun(r)
    BY <1>1, <1>2, <1>6, OutcomeIsDue DEF Rerun, Here
  <1>7. CASE ReportFailure(r)
    <2>1. "repair_failed" \in Keys \ {"none"} /\ request[r].at \notin {"idle", "report"}
      BY <1>7 DEF Keys, PassKeys, ReportFailure, Here
    <2> QED
      BY <1>1, <1>2, <1>3, <1>4, <1>7, <2>1, ReportIsDue DEF ReportFailure
  <1>8. CASE Report(r)
    <2>1. PICK q \in RequestRecords :
             /\ request' = [request EXCEPT ![r] = q] /\ q.at = "keep"
             /\ q.at_session = N(r) /\ q.key = request[r].key
             /\ q.obj = Obj(r) /\ q.op = request[r].op
      <3>1. Move(r, "keep") /\ "keep" \in RequestSteps
        BY <1>8 DEF Report, RequestSteps
      <3> QED
        BY <3>1, MoveOn
    <2>2. /\ posted' \in [Sids -> SUBSET Keys] /\ \A id \in Sids : posted[id] \subseteq posted'[id]
          /\ request[r].key \in posted'[Sid(r)]
      BY <1>5, <1>8 DEF Report, RequestRecords, SessionsOK, SessionsTypeOK
    <2>3. CarriesPass(r) => posted'[Sid(r)] \cap PassKeys # {}
      BY <2>2 DEF CarriesPass
    <2>4. Save(Obj(r), same)
      BY <1>3, <1>8 DEF Report
    <2>5. Rewrites(r, q, same)
      BY <1>1, <1>4, <2>1, <2>2, <2>3, <2>4 DEF Rewrites
    <2> QED
      BY <1>1, <1>2, <2>5, RequestRewrites
  <1>9. CASE KeepKey(r)
    <2>1. PICK key \in Keys : key = request[r].key
      BY <1>5 DEF RequestRecords
    <2>2. PICK n \in DOMAIN same.sessions : n = N(r)
      BY <1>2, <1>3
    <2>3. PICK new \in Copies : new = Set(same, n, "key", key)
      BY KeySet DEF SameSessions
    <2>4. /\ SameSessions(new, Copy(r)) /\ OthersKept(new, Copy(r), N(r))
          /\ new.sessions[N(r)].key = key /\ new.sessions[N(r)].status = Session(r).status
      BY <1>3, <1>4, <2>2, <2>3, KeySet
    <2>5. key \in posted[Sid(r)] /\ Here(r, "keep") /\ request[r].at = "keep"
      BY <1>9, <2>1 DEF KeepKey, Here, SessionsOK, RequestOK
    <2>6. Save(Obj(r), new) /\ NextSession(r) /\ UNCHANGED posted
      BY <1>3, <1>9, <2>1, <2>2, <2>3 DEF KeepKey
    <2> QED
      BY <1>1, <1>2, <2>4, <2>5, <2>6, SavesAndGoesOn
  <1> QED
    BY <1>6, <1>7, <1>8, <1>9
-------------------------------------------------------------------------------
(* Steps that give the store or an object another copy.                    *)

\* A thread of the process is left alone with what it works on, or is right
\* again after the step and drops no pass that it carries.
RequestGoesOn(r) ==
    \/ request'[r] = request[r] /\ (Obj(r) # 0 => Extends(heap'[Obj(r)], heap[Obj(r)]))
    \/ RequestOK(r)' /\ ~CarriesPass(r)
CreatorGoesOn(s) ==
    \/ /\ creator[s].at # "none" /\ creator'[s].at # "none"
       /\ creator'[s].obj = creator[s].obj
       /\ creator[s].at = "report" => creator'[s].at = "report"
       /\ Extends(heap'[CObj(s)], heap[CObj(s)])
    \/ CreatorOK(s)' /\ (creator[s].at = "report" => PassPosted(s)')

LEMMA NoCopyOK == NoCopy \in Copies /\ CopyOK(NoCopy)'
  <1>1. NoCopy.sessions = << >>
    BY DEF NoCopy
  <1> QED
    BY <1>1 DEF NoCopy, Copies, CopyOK

LEMMA StepKeeps ==
  ASSUME SessionsOK, Grows, SessionsTypeOK',
         \A r \in Requests : RequestGoesOn(r),
         \A s \in Sids : CreatorGoesOn(s),
         NEW new \in Copies,
         (\A id \in Sids : Announced(id) => Announced(id)') => CopyOK(new)',
         \A o \in {0} \cup Objects :
            heap'[o] \in {NoCopy, new} \/ \E p \in {0} \cup Objects : heap'[o] = heap[p]
  PROVE  SessionsOK'
  <1>1. ASSUME NEW r \in Requests
        PROVE  RequestOK(r)' /\ (CarriesPass(r) => request'[r] = request[r] /\ Sid(r)' = Sid(r))
    <2>1. CASE request'[r] = request[r] /\ (Obj(r) # 0 => Extends(heap'[Obj(r)], heap[Obj(r)]))
      <3>1. Obj(r) \in {0} \cup Objects
        BY DEF SessionsOK, SessionsTypeOK, RequestRecords, Obj
      <3>2. heap'[Obj(r)] \in Copies
        BY <3>1 DEF SessionsTypeOK
      <3>3. RequestOK(r)' /\ (request[r].at \in AtSession => Sid(r)' = Sid(r))
        BY <2>1, <3>2, RequestKept DEF SessionsOK
      <3> QED
        BY <2>1, <3>3 DEF CarriesPass, Here, AtSession
    <2> QED
      BY <2>1 DEF RequestGoesOn
  <1>2. ASSUME NEW s \in Sids PROVE CreatorOK(s)'
    BY CreatorKept DEF SessionsOK, CreatorGoesOn
  <1>3. \A id \in Sids : Announced(id) => Announced(id)'
    <2>1. ASSUME NEW s \in Sids, creator[s].at = "report"
          PROVE  creator'[s].at = "report" \/ PassPosted(s)'
      BY <2>1 DEF CreatorGoesOn
    <2> QED
      BY <1>1, <2>1, AnnouncedKept
  <1>4. ASSUME NEW o \in {0} \cup Objects PROVE CopyOK(heap[o])'
    <2>1. PICK c \in Copies : c = heap'[o]
      BY DEF SessionsTypeOK
    <2>2. CopyOK(c)'
      <3>1. CASE \E p \in {0} \cup Objects : c = heap[p]
        BY <1>3, <3>1, CopyKept DEF SessionsOK
      <3>2. CASE c \in {NoCopy, new}
        BY <1>3, <3>2, NoCopyOK
      <3> QED
        BY <2>1, <3>1, <3>2
    <2> QED
      BY <2>1, <2>2 DEF CopyOK
  <1> QED
    BY <1>1, <1>2, <1>4 DEF SessionsOK
LEMMA LoadStep ==
  ASSUME SessionsOK, NEW r \in Requests, NEW op \in {"read", "create", "retry"}, Load(r, op)
  PROVE  SessionsOK'
  <1>1. PICK o \in Objects : o = bounds.requests + 1
    BY SizesAssumption DEF Load, SessionsOK, SessionsTypeOK, Objects
  <1>2. PICK copy \in Copies : copy = heap[0]
    BY DEF SessionsOK, SessionsTypeOK
  <1>3. heap' = [heap EXCEPT ![o] = copy]
    BY <1>1, <1>2 DEF Load, Assign, record
  <1> DEFINE q == [NoRequest EXCEPT !.at = "refresh", !.obj = o, !.op = op]
  <1>4. q \in RequestRecords /\ q.at = "refresh" /\ q.obj = o /\ q.op = op
    <2>1. PICK none \in RequestRecords : none = NoRequest
      <3>1. NoRequest \in RequestRecords
        BY DEF NoRequest, RequestRecords, RequestSteps, Keys, PassKeys
      <3> QED
        BY <3>1
    <2>2. op \in {"none", "read", "create", "retry"} /\ o \in {0} \cup Objects
      OBVIOUS
    <2>3. [none EXCEPT !.at = "refresh", !.obj = o, !.op = op] \in RequestRecords
      BY <2>2 DEF RequestRecords, RequestSteps
    <2> QED
      BY <2>1, <2>3 DEF RequestRecords
  <1>5. request' = [request EXCEPT ![r] = q]
    BY <1>1 DEF Load
  <1> HIDE DEF q
  <1>6. Grows /\ UNCHANGED <<task, creator, lockfile, posted>>
        /\ o <= bounds'.requests
    BY <1>1, SizesAssumption DEF Grows, Load, SessionsOK, SessionsTypeOK, Objects
  <1>7. SessionsTypeOK'
    BY <1>3, <1>4, <1>5, <1>6 DEF Grows, SessionsOK, SessionsTypeOK
  <1>8. \A p \in {0} \cup Objects : p # o => heap'[p] = heap[p]
    BY <1>3 DEF SessionsOK, SessionsTypeOK
  <1>9. heap'[o] = heap[0] /\ o # 0
    BY <1>2, <1>3 DEF SessionsOK, SessionsTypeOK, Objects
  <1>10. ASSUME NEW t \in Requests PROVE RequestGoesOn(t)
    <2>1. CASE t # r
      <3>1. Obj(t) \in {0} \cup Objects /\ Obj(t) # o
        BY <1>1 DEF SessionsOK, SessionsTypeOK, RequestRecords, RequestOK, Obj, Objects
      <3>2. request'[t] = request[t] /\ heap'[Obj(t)] = heap[Obj(t)]
        BY <1>5, <1>8, <2>1, <3>1 DEF SessionsOK, SessionsTypeOK
      <3> QED
        BY <3>2 DEF RequestGoesOn, Extends
    <2>2. CASE t = r
      <3>1. request'[t] = q
        BY <1>5, <2>2 DEF SessionsOK, SessionsTypeOK
      <3>2. op = "retry" => copy.sessions # << >>
        BY <1>2 DEF Load, record
      <3>3. op = "retry" => 1 \in DOMAIN copy.sessions
        BY <3>2 DEF Copies
      <3>4. Obj(t)' = o /\ Copy(t)' = copy
        BY <1>2, <1>4, <1>9, <3>1 DEF Obj, Copy
      <3>5. RequestOK(t)'
        BY <1>4, <1>6, <1>9, <3>1, <3>3, <3>4 DEF RequestOK, AtSession
      <3> QED
        BY <2>2, <3>5 DEF RequestGoesOn, CarriesPass, Here, Load
    <2> QED
      BY <2>1, <2>2
  <1>11. ASSUME NEW s \in Sids PROVE CreatorGoesOn(s)
    <2>1. CObj(s) \in {0} \cup Objects /\ CObj(s) # o
      BY <1>1 DEF SessionsOK, SessionsTypeOK, CreatorRecords, CreatorOK, CObj, Objects
    <2>2. creator'[s] = creator[s] /\ heap'[CObj(s)] = heap[CObj(s)]
      BY <1>6, <1>8, <2>1
    <2>3. CASE creator[s].at # "none"
      BY <2>2, <2>3 DEF CreatorGoesOn, Extends
    <2>4. CASE creator[s].at = "none"
      <3>1. CObj(s)' <= bounds'.requests
        BY <1>1, <1>6, <2>1, <2>2, SizesAssumption
        DEF SessionsOK, SessionsTypeOK, CreatorOK, CObj, Grows, Objects
      <3> QED
        BY <2>2, <2>4, <3>1 DEF CreatorGoesOn, CreatorOK
    <2> QED
      BY <2>3, <2>4
  <1>12. (\A id \in Sids : Announced(id) => Announced(id)') => CopyOK(copy)'
    BY <1>2, <1>6, CopyKept DEF SessionsOK
  <1>13. ASSUME NEW p \in {0} \cup Objects
         PROVE  \E i \in {0} \cup Objects : heap'[p] = heap[i]
    BY <1>8, <1>9
  <1> QED
    BY <1>6, <1>7, <1>10, <1>11, <1>12, <1>13, StepKeeps

\* What is left of the objects when a thread ends.
LEMMA CollectedIs ==
  ASSUME NEW h \in [{0} \cup Objects -> Copies], NEW rs, NEW cs,
         NEW o \in {0} \cup Objects
  PROVE  /\ Collected(h, rs, cs) \in [{0} \cup Objects -> Copies]
         /\ Collected(h, rs, cs)[o] \in {h[o], NoCopy}
         /\ o = 0 => Collected(h, rs, cs)[o] = h[o]
         /\ (\E r \in Requests : rs[r].obj = o) => Collected(h, rs, cs)[o] = h[o]
         /\ (\E s \in Sids : cs[s].obj = o) => Collected(h, rs, cs)[o] = h[o]
  BY NoCopyOK DEF Collected
LEMMA NoRequestTyped == NoRequest \in RequestRecords
  BY DEF NoRequest, RequestRecords, RequestSteps, Keys, PassKeys

\* A request is answered: what it stores extends its own copy, and a creation
\* thread that it starts finds its session there.
LEMMA FinishedStep ==
  ASSUME SessionsOK, NEW r \in Requests, Here(r, "refresh"), Grows, posted' = posted,
         task' \in [Tasks -> {"none", "live"} \cup Ended \cup Lost],
         NEW stored \in Copies, NEW id,
         Finished(r, stored, creator) \/ Finished(r, stored, Creators(id, Obj(r))),
         stored = heap[0] \/ Extends(stored, Copy(r)),
         creator' = creator \/
            \E n \in DOMAIN stored.sessions :
               /\ id \in Sids
               /\ stored.sessions[n].id = id
               /\ stored = heap[0] => n \in DOMAIN Copy(r).sessions /\ Copy(r).sessions[n].id = id,
         (\A i \in Sids : Announced(i) => Announced(i)') => CopyOK(stored)'
  PROVE  SessionsOK'
  <1>1. PICK o \in Objects : o = Obj(r)
    BY DEF SessionsOK, SessionsTypeOK, RequestRecords, RequestOK, Obj, Here
  <1>2. PICK old \in Copies : old = heap[o]
    BY DEF SessionsOK, SessionsTypeOK
  <1> DEFINE h == [heap EXCEPT ![0] = stored, ![o] = IF stored = heap[0] THEN @ ELSE stored]
  <1>3. /\ h \in [{0} \cup Objects -> Copies] /\ h[0] = stored
        /\ h[o] = IF stored = heap[0] THEN old ELSE stored
        /\ \A p \in Objects : p # o => h[p] = heap[p]
    BY <1>2 DEF SessionsOK, SessionsTypeOK, Objects
  <1>4. /\ creator' = creator \/ creator' = Creators(id, o)
        /\ request' = [request EXCEPT ![r] = NoRequest]
        /\ heap' = Collected(h, request', creator')
    BY <1>1 DEF Finished
  <1> HIDE DEF h
  <1>5. /\ creator' \in [Sids -> CreatorRecords]
        /\ \A s \in Sids : \/ creator'[s] = creator[s]
                           \/ /\ s = id /\ creator[s].at = "none" /\ creator' # creator
                              /\ creator'[s].at = "begin" /\ creator'[s].obj = o
    <2>1. creator \in [Sids -> CreatorRecords]
      BY DEF SessionsOK, SessionsTypeOK
    <2>2. CASE creator' = creator
      BY <2>1, <2>2
    <2>3. CASE creator' # creator
      BY <1>4, <2>1, <2>3, CreatorStarts
    <2> QED
      BY <2>2, <2>3
  <1>6. /\ request' \in [Requests -> RequestRecords] /\ request'[r] = NoRequest
        /\ \A t \in Requests : t # r => request'[t] = request[t]
    BY <1>4, NoRequestTyped DEF SessionsOK, SessionsTypeOK
  <1>7. /\ heap' \in [{0} \cup Objects -> Copies]
        /\ \A p \in {0} \cup Objects : heap'[p] \in {h[p], NoCopy}
        /\ \A t \in Requests : request'[t].obj \in {0} \cup Objects =>
              heap'[request'[t].obj] = h[request'[t].obj]
        /\ \A s \in Sids : creator'[s].obj \in {0} \cup Objects =>
              heap'[creator'[s].obj] = h[creator'[s].obj]
    <2>1. PICK rs, cs : rs = request' /\ cs = creator'
      OBVIOUS
    <2>2. heap' = Collected(h, rs, cs)
      BY <1>4, <2>1
    <2>3. /\ heap' \in [{0} \cup Objects -> Copies]
          /\ \A p \in {0} \cup Objects :
                /\ heap'[p] \in {h[p], NoCopy}
                /\ (\E q \in Requests : rs[q].obj = p) => heap'[p] = h[p]
                /\ (\E s \in Sids : cs[s].obj = p) => heap'[p] = h[p]
      BY <1>3, <2>2, CollectedIs
    <2> QED
      BY <2>1, <2>3
  <1>8. SessionsTypeOK'
    BY <1>5, <1>6, <1>7 DEF Grows, SessionsTypeOK
  <1>9. \A p \in Objects : Extends(h[p], heap[p])
    BY <1>1, <1>2, <1>3 DEF Extends, Copy
  <1>10. ASSUME NEW t \in Requests PROVE RequestGoesOn(t)
    <2>1. CASE t # r
      <3>1. Obj(t) \in {0} \cup Objects /\ request'[t] = request[t]
        BY <1>6, <2>1 DEF SessionsOK, SessionsTypeOK, RequestRecords, Obj
      <3>2. Obj(t) # 0 => Extends(heap'[Obj(t)], heap[Obj(t)])
        BY <1>7, <1>9, <3>1 DEF Obj
      <3> QED
        BY <3>1, <3>2 DEF RequestGoesOn
    <2>2. CASE t = r
      <3>1. request'[t] = NoRequest /\ bounds'.requests \in Nat
        BY <1>6, <2>2, SizesAssumption DEF Grows
      <3>2. RequestOK(t)'
        BY <3>1 DEF RequestOK, NoRequest, AtSession, Obj
      <3> QED
        BY <2>2, <3>2 DEF RequestGoesOn, CarriesPass, Here
    <2> QED
      BY <2>1, <2>2
  <1>11. ASSUME NEW s \in Sids PROVE CreatorGoesOn(s)
    <2>0. o <= bounds'.requests /\ o # 0
      BY <1>1, SizesAssumption DEF Grows, SessionsOK, SessionsTypeOK, RequestOK, Objects
    <2>1. CASE creator'[s] = creator[s] /\ creator[s].at # "none"
      <3>1. CObj(s) \in Objects
        BY <2>1 DEF SessionsOK, SessionsTypeOK, CreatorRecords, CreatorOK, CObj
      <3>2. heap'[CObj(s)] = h[CObj(s)]
        BY <1>7, <2>1, <3>1 DEF CObj
      <3> QED
        BY <1>9, <2>1, <3>1, <3>2 DEF CreatorGoesOn
    <2>2. CASE creator'[s] = creator[s] /\ creator[s].at = "none"
      <3>1. CObj(s)' <= bounds'.requests
        BY <2>2, SizesAssumption
        DEF SessionsOK, SessionsTypeOK, CreatorRecords, CreatorOK, CObj, Grows, Objects
      <3> QED
        BY <2>2, <3>1 DEF CreatorGoesOn, CreatorOK
    <2>3. CASE /\ s = id /\ creator[s].at = "none" /\ creator' # creator
               /\ creator'[s].at = "begin" /\ creator'[s].obj = o
      <3>1. CObj(s)' = o /\ Cr(s)' = h[o]
        BY <1>7, <2>3 DEF CObj, Cr
      <3>2. \E n \in DOMAIN h[o].sessions : h[o].sessions[n].id = s
        BY <1>1, <1>2, <1>3, <2>3 DEF Copy
      <3>3. CreatorOK(s)'
        BY <2>0, <3>1, <3>2 DEF CreatorOK
      <3> QED
        BY <2>3, <3>3 DEF CreatorGoesOn
    <2> QED
      BY <1>5, <2>1, <2>2, <2>3
  <1>12. ASSUME NEW p \in {0} \cup Objects
         PROVE  heap'[p] \in {NoCopy, stored} \/ \E i \in {0} \cup Objects : heap'[p] = heap[i]
    BY <1>2, <1>3, <1>7
  <1> QED
    BY <1>8, <1>10, <1>11, <1>12, StepKeeps
\* A new session at the end of a copy.
LEMMA SessionOpened ==
  ASSUME SessionsTypeOK, NEW copy \in Copies, NEW id \in Sids,
         \A n \in DOMAIN copy.sessions : copy.sessions[n].id # id
  PROVE  LET opened == [copy EXCEPT !.sessions = Append(@, NewSession(id))] IN
         /\ opened \in Copies /\ Extends(opened, copy)
         /\ Len(copy.sessions) + 1 \in DOMAIN opened.sessions
         /\ opened.sessions[Len(copy.sessions) + 1].id = id
         /\ CopyOK(copy)' /\ id <= bounds'.opened => CopyOK(opened)'
  <1> DEFINE s == copy.sessions
             new == NewSession(id)
             more == Append(s, new)
             opened == [copy EXCEPT !.sessions = more]
  <1>1. /\ new \in Sessions /\ new.id = id /\ new.key = "none" /\ new.status \notin Passed
    BY DEF NewSession, Sessions, Statuses, Keys, Passed
  <1> HIDE DEF new
  <1>2. /\ more \in Seq(Sessions) /\ Len(s) \in Nat /\ DOMAIN more = 1..(Len(s) + 1)
        /\ DOMAIN s = 1..Len(s) /\ more[Len(s) + 1] = new /\ \A n \in DOMAIN s : more[n] = s[n]
    BY <1>1 DEF Copies
  <1>3. opened \in Copies /\ opened.sessions = more
    BY <1>2 DEF Copies
  <1> HIDE DEF more, opened
  <1>4. Extends(opened, copy)
    BY <1>2, <1>3 DEF Extends
  <1>5. ASSUME CopyOK(copy)', id <= bounds'.opened PROVE CopyOK(opened)'
    <2> SUFFICES ASSUME NEW n \in DOMAIN opened.sessions
                 PROVE  LET session == opened.sessions[n] IN
                        /\ session.key # "none" => session.key \in posted'[session.id]
                        /\ session.status \in Passed /\ bounds'.crashes = 0 => Announced(session.id)'
                        /\ session.id <= bounds'.opened
      BY DEF CopyOK
    <2>1. CASE n \in DOMAIN s
      BY <1>2, <1>3, <1>5, <2>1 DEF CopyOK
    <2>2. CASE n = Len(s) + 1
      BY <1>1, <1>2, <1>3, <1>5, <2>2
    <2> QED
      BY <1>2, <1>3, <2>1, <2>2
  <1> QED
    BY <1>1, <1>2, <1>3, <1>4, <1>5 DEF opened, more, new

LEMMA OpenStep ==
  ASSUME SessionsOK, NEW r \in Requests, Open(r)
  PROVE  SessionsOK'
  <1>1. PICK o \in Objects : o = Obj(r)
    BY DEF SessionsOK, SessionsTypeOK, RequestRecords, RequestOK, Obj, Here, Open, Refreshed
  <1>2. PICK old \in Copies : old = heap[o]
    BY DEF SessionsOK, SessionsTypeOK
  <1>3. Copy(r) = old /\ CopyOK(old) /\ Here(r, "refresh") /\ posted' = posted
    BY <1>1, <1>2 DEF Copy, SessionsOK, Open, Refreshed
  <1>4. task' \in [Tasks -> {"none", "live"} \cup Ended \cup Lost]
    BY DEF Open, SessionsOK, SessionsTypeOK, Lost
  <1>5. PICK stored \in Copies : stored = heap[0]
    BY DEF SessionsOK, SessionsTypeOK
  <1>6. CASE Finished(r, heap[0], creator) /\ UNCHANGED bounds
    <2>1. Grows
      BY <1>3, <1>6, SizesAssumption DEF Grows, SessionsOK, SessionsTypeOK
    <2>2. (\A i \in Sids : Announced(i) => Announced(i)') => CopyOK(stored)'
      BY <1>5, <2>1, CopyKept DEF SessionsOK
    <2>3. creator' = creator
      BY <1>6 DEF Finished
    <2> QED
      BY <1>3, <1>4, <1>5, <1>6, <2>1, <2>2, <2>3, FinishedStep
  <1>7. ASSUME NEW id \in Sids, id = bounds.opened + 1, bounds' = [bounds EXCEPT !.opened = id],
               Finished(r, [old EXCEPT !.sessions = Append(@, NewSession(id))],
                        Creators(id, Obj(r)))
        PROVE  SessionsOK'
    <2>1. Grows /\ id <= bounds'.opened
      <3>1. bounds \in [requests : 0..MaxRequests, opened : 0..MaxSessions, crashes : Nat]
            /\ id \in 0..MaxSessions /\ id \in Int
        BY SizesAssumption DEF SessionsOK, SessionsTypeOK, Sids
      <3>2. /\ bounds' \in [requests : 0..MaxRequests, opened : 0..MaxSessions, crashes : Nat]
            /\ bounds'.requests = bounds.requests /\ bounds'.crashes = bounds.crashes
            /\ bounds'.opened = id
        BY <1>7, <3>1
      <3>3. bounds.requests \in Int /\ bounds.opened \in Int /\ bounds.opened <= id
        BY <1>7, <3>1, SizesAssumption
      <3> QED
        BY <1>3, <3>2, <3>3 DEF Grows, SessionsOK, SessionsTypeOK
    <2>2. ASSUME NEW c \in Copies, CopyOK(c), NEW n \in DOMAIN c.sessions
          PROVE  c.sessions[n].id # id
      BY <1>7, <2>2, SessionOf, SizesAssumption DEF CopyOK, SessionsOK, SessionsTypeOK, Sids
    <2>3. PICK opened : opened = [old EXCEPT !.sessions = Append(@, NewSession(id))]
      OBVIOUS
    <2>4. PICK n : n = Len(old.sessions) + 1
      OBVIOUS
    <2>5. /\ opened \in Copies /\ Extends(opened, old)
          /\ n \in DOMAIN opened.sessions /\ opened.sessions[n].id = id
          /\ CopyOK(old)' => CopyOK(opened)'
      BY <1>3, <2>1, <2>2, <2>3, <2>4, SessionOpened DEF SessionsOK
    <2>6. opened # heap[0]
      BY <1>5, <2>2, <2>5 DEF SessionsOK
    <2>7. (\A i \in Sids : Announced(i) => Announced(i)') => CopyOK(opened)'
      BY <1>3, <2>1, <2>5, CopyKept DEF SessionsOK
    <2>8. Finished(r, opened, Creators(id, Obj(r)))
      BY <1>7, <2>3
    <2> QED
      BY <1>3, <1>4, <2>1, <2>5, <2>6, <2>7, <2>8, FinishedStep
  <1> QED
    BY <1>3, <1>6, <1>7 DEF Open

LEMMA RetryStep ==
  ASSUME SessionsOK, NEW r \in Requests, Retry(r)
  PROVE  SessionsOK'
  <1>1. PICK o \in Objects : o = Obj(r)
    BY DEF SessionsOK, SessionsTypeOK, RequestRecords, RequestOK, Obj, Here, Retry, Refreshed
  <1>2. PICK old \in Copies : old = heap[o]
    BY DEF SessionsOK, SessionsTypeOK
  <1>3. /\ Copy(r) = old /\ CopyOK(old) /\ Here(r, "refresh") /\ posted' = posted
        /\ UNCHANGED <<task, bounds>>
    BY <1>1, <1>2 DEF Copy, SessionsOK, Retry, Refreshed
  <1>4. Grows
    BY <1>3, SizesAssumption DEF Grows, SessionsOK, SessionsTypeOK
  <1>5. 1 \in DOMAIN old.sessions
    BY <1>3 DEF SessionsOK, RequestOK, Retry, Refreshed
  <1>6. PICK id \in Sids : id = old.sessions[1].id
    BY <1>5, SessionOf
  <1>7. \E new \in Copies : /\ new = Materialized(old, 1)
                            /\ SameSessions(new, old) /\ OthersKept(new, old, 1)
                            /\ new.sessions[1].key = old.sessions[1].key
                            /\ new.sessions[1].status \notin Passed
    <2>1. {"repair_task_created", "creating_repair_task"} \subseteq Statuses \ Passed
      BY DEF Statuses, Passed
    <2>2. CASE old.sessions[1].task \in Live
      <3>1. Materialized(old, 1) = Status(old, 1, "repair_task_created")
        BY <2>2 DEF Materialized
      <3> QED
        BY <1>5, <2>1, <3>1, StatusSet DEF SameSessions
    <2>3. CASE old.sessions[1].task \notin Live
      <3>1. PICK mid \in Copies : mid = Status(old, 1, "creating_repair_task")
        BY <1>5, <2>1, StatusSet DEF SameSessions
      <3>2. /\ SameSessions(mid, old) /\ OthersKept(mid, old, 1)
            /\ mid.sessions[1].key = old.sessions[1].key
            /\ mid.sessions[1].status = "creating_repair_task"
        BY <1>5, <2>1, <3>1, StatusSet
      <3>3. 1 \in DOMAIN mid.sessions
        BY <1>5, <3>2 DEF SameSessions
      <3>4. PICK new \in Copies : new = Set(mid, 1, "task", 0)
        BY <3>3, TaskSet DEF SameSessions
      <3>5. /\ SameSessions(new, mid) /\ OthersKept(new, mid, 1)
            /\ new.sessions[1].key = mid.sessions[1].key
            /\ new.sessions[1].status = mid.sessions[1].status
        BY <3>3, <3>4, TaskSet
      <3>6. SameSessions(new, old) /\ OthersKept(new, old, 1)
        BY <3>2, <3>5 DEF SameSessions, OthersKept
      <3>7. new = Materialized(old, 1)
        BY <2>3, <3>1, <3>4 DEF Materialized
      <3> QED
        BY <2>1, <3>2, <3>5, <3>6, <3>7
    <2> QED
      BY <2>2, <2>3
  <1>8. PICK new \in Copies : /\ new = Materialized(old, 1)
                              /\ SameSessions(new, old) /\ OthersKept(new, old, 1)
                              /\ new.sessions[1].key = old.sessions[1].key
                              /\ new.sessions[1].status \notin Passed
    BY <1>7
  <1>9. (\A i \in Sids : Announced(i) => Announced(i)') => CopyOK(new)'
    BY <1>3, <1>4, <1>5, <1>6, <1>8, CopyKept, CopyRewritten DEF SessionsOK
  <1>10. Extends(new, old) /\ 1 \in DOMAIN new.sessions /\ new.sessions[1].id = id
    BY <1>5, <1>6, <1>8 DEF SameSessions, Extends
  <1>11. Finished(r, new, creator) \/ Finished(r, new, Creators(id, Obj(r)))
    BY <1>3, <1>8, <1>10 DEF Retry
  <1> QED
    BY <1>3, <1>4, <1>5, <1>6, <1>9, <1>10, <1>11, FinishedStep
    DEF SessionsOK, SessionsTypeOK

LEMMA AnswerStep ==
  ASSUME SessionsOK, NEW r \in Requests, Answer(r)
  PROVE  SessionsOK'
  <1>1. Here(r, "refresh") /\ UNCHANGED <<task, posted, bounds, creator>>
    BY DEF Answer, Refreshed, Finished
  <1>2. PICK stored \in Copies : stored = heap[0]
    BY DEF SessionsOK, SessionsTypeOK
  <1>3. Grows
    BY <1>1, SizesAssumption DEF Grows, SessionsOK, SessionsTypeOK
  <1>4. (\A i \in Sids : Announced(i) => Announced(i)') => CopyOK(stored)'
    BY <1>2, <1>3, CopyKept DEF SessionsOK
  <1>5. Finished(r, stored, creator) /\ task' \in [Tasks -> {"none", "live"} \cup Ended \cup Lost]
    BY <1>1, <1>2 DEF Answer, SessionsOK, SessionsTypeOK
  <1> QED
    BY <1>1, <1>2, <1>3, <1>4, <1>5, FinishedStep
-------------------------------------------------------------------------------
(* Creation threads.                                                       *)

\* What a creation thread can rely on.
LEMMA Creating ==
  ASSUME SessionsOK, NEW s \in Sids, creator[s].at # "none"
  PROVE  /\ creator[s] \in CreatorRecords /\ CObj(s) \in Objects
         /\ Cr(s) \in Copies /\ CopyOK(Cr(s))
         /\ CN(s) \in DOMAIN Cr(s).sessions /\ Cr(s).sessions[CN(s)].id = s
  <1>1. creator[s] \in CreatorRecords /\ CObj(s) \in Objects
    BY DEF SessionsOK, SessionsTypeOK, CreatorRecords, CreatorOK, CObj
  <1>2. Cr(s) \in Copies /\ CopyOK(Cr(s))
    BY <1>1 DEF SessionsOK, SessionsTypeOK, Cr
  <1>3. \E n \in DOMAIN Cr(s).sessions : Cr(s).sessions[n].id = s
    BY DEF SessionsOK, CreatorOK
  <1>4. CN(s) \in DOMAIN Cr(s).sessions /\ Cr(s).sessions[CN(s)].id = s
    <2> DEFINE at == {n \in DOMAIN Cr(s).sessions : Cr(s).sessions[n].id = s}
    <2>1. at # {}
      BY <1>3
    <2>2. CN(s) = CHOOSE n \in at : TRUE
      BY <2>1 DEF CN, Find
    <2>3. CN(s) \in at
      BY <2>1, <2>2
    <2> QED
      BY <2>3
  <1> QED
    BY <1>1, <1>2, <1>4

\* The thread saves a copy that extends its own and ends.
LEMMA GoneStep ==
  ASSUME SessionsOK, NEW s \in Sids, creator[s].at # "none", Grows,
         UNCHANGED <<task, request>>, NEW stored \in Copies, Gone(s, stored),
         stored = heap[0] \/ Extends(stored, Cr(s)),
         creator[s].at = "report" => PassPosted(s)',
         (\A i \in Sids : Announced(i) => Announced(i)') => CopyOK(stored)'
  PROVE  SessionsOK'
  <1>1. PICK o \in Objects : o = CObj(s)
    BY Creating
  <1>2. PICK old \in Copies : old = heap[o]
    BY DEF SessionsOK, SessionsTypeOK
  <1> DEFINE h == [heap EXCEPT ![0] = stored, ![o] = IF stored = heap[0] THEN @ ELSE stored]
  <1>3. /\ h \in [{0} \cup Objects -> Copies] /\ h[0] = stored
        /\ h[o] = IF stored = heap[0] THEN old ELSE stored
        /\ \A p \in Objects : p # o => h[p] = heap[p]
    BY <1>2 DEF SessionsOK, SessionsTypeOK, Objects
  <1>4. creator' = [creator EXCEPT ![s] = NoCreator] /\ heap' = Collected(h, request, creator')
    BY <1>1 DEF Gone
  <1> HIDE DEF h
  <1>5. NoCreator \in CreatorRecords /\ NoCreator.at = "none" /\ NoCreator.obj = 0
    BY DEF NoCreator, CreatorRecords, CreatorSteps
  <1>6. /\ creator' \in [Sids -> CreatorRecords] /\ creator'[s] = NoCreator
        /\ \A i \in Sids : i # s => creator'[i] = creator[i]
    BY <1>4, <1>5 DEF SessionsOK, SessionsTypeOK
  <1>7. /\ heap' \in [{0} \cup Objects -> Copies]
        /\ \A p \in {0} \cup Objects : heap'[p] \in {h[p], NoCopy}
        /\ \A t \in Requests : request[t].obj \in {0} \cup Objects =>
              heap'[request[t].obj] = h[request[t].obj]
        /\ \A i \in Sids : creator'[i].obj \in {0} \cup Objects =>
              heap'[creator'[i].obj] = h[creator'[i].obj]
    <2>1. PICK rs, cs : rs = request /\ cs = creator'
      OBVIOUS
    <2>2. heap' = Collected(h, rs, cs)
      BY <1>4, <2>1
    <2>3. /\ heap' \in [{0} \cup Objects -> Copies]
          /\ \A p \in {0} \cup Objects :
                /\ heap'[p] \in {h[p], NoCopy}
                /\ (\E q \in Requests : rs[q].obj = p) => heap'[p] = h[p]
                /\ (\E i \in Sids : cs[i].obj = p) => heap'[p] = h[p]
      BY <1>3, <2>2, CollectedIs
    <2> QED
      BY <2>1, <2>3
  <1>8. SessionsTypeOK'
    BY <1>6, <1>7 DEF Grows, SessionsOK, SessionsTypeOK
  <1>9. \A p \in Objects : Extends(h[p], heap[p])
    BY <1>1, <1>2, <1>3 DEF Extends, Cr
  <1>10. ASSUME NEW t \in Requests PROVE RequestGoesOn(t)
    <2>1. Obj(t) \in {0} \cup Objects /\ request'[t] = request[t]
      BY DEF SessionsOK, SessionsTypeOK, RequestRecords, Obj
    <2>2. Obj(t) # 0 => Extends(heap'[Obj(t)], heap[Obj(t)])
      BY <1>7, <1>9, <2>1 DEF Obj
    <2> QED
      BY <2>1, <2>2 DEF RequestGoesOn
  <1>11. ASSUME NEW i \in Sids PROVE CreatorGoesOn(i)
    <2>1. CASE i # s /\ creator[i].at # "none"
      <3>1. CObj(i) \in Objects /\ creator'[i] = creator[i]
        BY <1>6, <2>1 DEF SessionsOK, SessionsTypeOK, CreatorRecords, CreatorOK, CObj
      <3>2. heap'[CObj(i)] = h[CObj(i)]
        BY <1>7, <3>1 DEF CObj
      <3> QED
        BY <1>9, <2>1, <3>1, <3>2 DEF CreatorGoesOn
    <2>2. CASE i # s /\ creator[i].at = "none"
      <3>1. CObj(i)' <= bounds'.requests /\ creator'[i] = creator[i]
        BY <1>6, <2>2, SizesAssumption
        DEF SessionsOK, SessionsTypeOK, CreatorRecords, CreatorOK, CObj, Grows, Objects
      <3> QED
        BY <2>2, <3>1 DEF CreatorGoesOn, CreatorOK
    <2>3. CASE i = s
      <3>1. CObj(i)' = 0 /\ 0 <= bounds'.requests
        BY <1>5, <1>6, <2>3, SizesAssumption DEF CObj, Grows
      <3> QED
        BY <1>5, <1>6, <2>3, <3>1 DEF CreatorGoesOn, CreatorOK
    <2> QED
      BY <2>1, <2>2, <2>3
  <1>12. ASSUME NEW p \in {0} \cup Objects
         PROVE  heap'[p] \in {NoCopy, stored} \/ \E i \in {0} \cup Objects : heap'[p] = heap[i]
    BY <1>2, <1>3, <1>7
  <1> QED
    BY <1>8, <1>10, <1>11, <1>12, StepKeeps

\* The thread goes to another stage, with its object as new.
LEMMA StageStep ==
  ASSUME SessionsOK, NEW s \in Sids, creator[s].at \notin {"none", "report"},
         UNCHANGED <<request, posted, bounds>>,
         task' \in [Tasks -> {"none", "live"} \cup Ended \cup Lost],
         NEW q \in CreatorRecords, q.obj = CObj(s), q.at # "none",
         creator' = [creator EXCEPT ![s] = q],
         NEW new \in Copies, SameSessions(new, Cr(s)),
         Save(CObj(s), new) \/ Assign(CObj(s), new) \/ (heap' = heap /\ new = Cr(s)),
         (\A i \in Sids : Announced(i) => Announced(i)') => CopyOK(new)'
  PROVE  SessionsOK'
  <1>1. PICK o \in Objects : o = CObj(s)
    BY Creating
  <1>2. Grows
    BY SizesAssumption DEF Grows, SessionsOK, SessionsTypeOK
  <1>3. /\ heap' \in [{0} \cup Objects -> Copies] /\ heap'[o] = new
        /\ heap'[0] \in {heap[0], new}
        /\ \A p \in Objects : p # o => heap'[p] = heap[p]
        /\ \A p \in Objects : Extends(heap'[p], heap[p])
    BY <1>1, HeapWritten DEF Cr
  <1>4. /\ creator' \in [Sids -> CreatorRecords] /\ creator'[s] = q
        /\ \A i \in Sids : i # s => creator'[i] = creator[i]
    BY DEF SessionsOK, SessionsTypeOK
  <1>5. SessionsTypeOK'
    BY <1>2, <1>3, <1>4 DEF Grows, SessionsOK, SessionsTypeOK
  <1>6. ASSUME NEW t \in Requests PROVE RequestGoesOn(t)
    <2>1. Obj(t) \in {0} \cup Objects
      BY DEF SessionsOK, SessionsTypeOK, RequestRecords, Obj
    <2> QED
      BY <1>3, <2>1 DEF RequestGoesOn
  <1>7. ASSUME NEW i \in Sids PROVE CreatorGoesOn(i)
    <2>1. creator'[i].obj = creator[i].obj
      BY <1>4 DEF CObj
    <2>2. CASE creator[i].at # "none"
      <3>1. CObj(i) \in Objects
        BY <2>2, Creating
      <3> QED
        BY <1>3, <1>4, <2>1, <2>2, <3>1 DEF CreatorGoesOn
    <2>3. CASE creator[i].at = "none"
      <3>1. creator'[i] = creator[i] /\ CObj(i)' <= bounds'.requests
        BY <1>4, <2>1, <2>3 DEF SessionsOK, CreatorOK, CObj
      <3> QED
        BY <2>3, <3>1 DEF CreatorGoesOn, CreatorOK
    <2> QED
      BY <2>2, <2>3
  <1>8. ASSUME NEW p \in {0} \cup Objects
        PROVE  heap'[p] \in {NoCopy, new} \/ \E i \in {0} \cup Objects : heap'[p] = heap[i]
    BY <1>3
  <1> QED
    BY <1>2, <1>5, <1>6, <1>7, <1>8, StepKeeps
\* A finite set of numbers has a least one.
LEMMA LeastExists ==
  ASSUME NEW S \in SUBSET Nat, IsFiniteSet(S), S # {}
  PROVE  \E k \in S : \A d \in S : k <= d
  <1> DEFINE UpTo(k) == {j \in S : j <= k}
             Heads == {UpTo(k) : k \in S}
  <1>1. Heads \subseteq FiniteSubsetsOf(S) /\ Heads # {}
    <2>1. ASSUME NEW k \in S PROVE UpTo(k) \in SUBSET S /\ IsFiniteSet(UpTo(k))
      BY FS_Subset
    <2> QED
      BY <2>1 DEF FiniteSubsetsOf
  <1>2. IsWellFoundedOn(StrictSubsetOrdering(S), FiniteSubsetsOf(S))
    BY FS_StrictSubsetOrderingWellFounded
  <1>3. PICK X \in Heads : \A Y \in Heads : <<Y, X>> \notin StrictSubsetOrdering(S)
    BY <1>1, <1>2, WFMin
  <1>4. PICK k \in S : X = UpTo(k)
    BY <1>3
  <1>5. ASSUME NEW j \in S, ~(k <= j) PROVE FALSE
    <2>1. UpTo(j) \in Heads /\ UpTo(j) \subseteq S /\ X \subseteq S
      BY <1>4
    <2>2. ASSUME NEW i \in UpTo(j) PROVE i \in UpTo(k)
      BY <1>5
    <2>3. k \in UpTo(k) /\ k \notin UpTo(j)
      BY <1>5
    <2>4. <<UpTo(j), X>> \in StrictSubsetOrdering(S)
      BY <1>4, <2>1, <2>2, <2>3 DEF StrictSubsetOrdering
    <2> QED
      BY <1>3, <2>1, <2>4
  <1> QED
    BY <1>5

LEMMA LeastLive ==
  ASSUME NEW S \in SUBSET Tasks, S # {}
  PROVE  (CHOOSE k \in S : \A j \in S : k <= j) \in S
  <1>1. IsFiniteSet(Tasks) /\ Tasks \subseteq Nat
    <2>1. 1 \in Int /\ MaxTasks \in Int
      BY SizesAssumption
    <2>2. IsFiniteSet(1..MaxTasks)
      BY ONLY <2>1, FS_Interval
    <2> QED
      BY <2>2, SizesAssumption DEF Tasks
  <1>2. S \in SUBSET Nat /\ IsFiniteSet(S)
    BY <1>1, FS_Subset
  <1>3. \E k \in S : \A j \in S : k <= j
    BY <1>2, LeastExists
  <1> QED
    BY <1>3

\* The session of a creation thread gets a status that is not a passed one.
LEMMA CreatorStatus ==
  ASSUME SessionsOK, NEW s \in Sids, creator[s].at # "none", Grows,
         NEW value \in Statuses \ Passed
  PROVE  \E new \in Copies :
            /\ new = Status(Cr(s), CN(s), value)
            /\ SameSessions(new, Cr(s)) /\ Extends(new, Cr(s))
            /\ (\A i \in Sids : Announced(i) => Announced(i)') => CopyOK(new)'
  <1>1. PICK old \in Copies : old = Cr(s) /\ CopyOK(old)
    BY Creating
  <1>2. PICK n \in DOMAIN old.sessions : n = CN(s) /\ old.sessions[n].id = s
    BY <1>1, Creating
  <1>3. PICK new \in Copies : new = Status(old, n, value)
    BY StatusSet DEF SameSessions
  <1>4. /\ SameSessions(new, old) /\ OthersKept(new, old, n)
        /\ new.sessions[n].key = old.sessions[n].key /\ new.sessions[n].status = value
    BY <1>3, StatusSet
  <1>5. (\A i \in Sids : Announced(i) => Announced(i)') => CopyOK(new)'
    BY <1>1, <1>2, <1>4, CopyKept, CopyRewritten DEF SessionsOK
  <1>6. Extends(new, old)
    BY <1>4 DEF SameSessions, Extends
  <1> QED
    BY <1>1, <1>2, <1>3, <1>4, <1>5, <1>6

\* The thread goes on without a word in the session.
LEMMA StageOnly ==
  ASSUME SessionsOK, NEW s \in Sids, creator[s].at \notin {"none", "report"},
         UNCHANGED <<heap, request, posted, bounds>>,
         task' \in [Tasks -> {"none", "live"} \cup Ended \cup Lost],
         NEW q \in CreatorRecords, q.obj = CObj(s), q.at # "none",
         creator' = [creator EXCEPT ![s] = q]
  PROVE  SessionsOK'
  <1>1. PICK old \in Copies : old = Cr(s) /\ CopyOK(old)
    BY Creating
  <1>2. Grows
    BY SizesAssumption DEF Grows, SessionsOK, SessionsTypeOK
  <1>3. SameSessions(old, Cr(s)) /\ ((\A i \in Sids : Announced(i) => Announced(i)') => CopyOK(old)')
    BY <1>1, <1>2, CopyKept DEF SameSessions, SessionsOK
  <1> QED
    BY <1>1, <1>3, StageStep

\* Stage(s, at) as an update of the thread's record.
LEMMA StageOn ==
  ASSUME SessionsOK, NEW s \in Sids, NEW at \in CreatorSteps, Stage(s, at)
  PROVE  \E q \in CreatorRecords :
            /\ creator' = [creator EXCEPT ![s] = q]
            /\ q.at = at /\ q.obj = CObj(s)
  <1>1. PICK p \in CreatorRecords : p = creator[s]
    BY DEF SessionsOK, SessionsTypeOK
  <1> DEFINE q == [p EXCEPT !.at = at]
  <1>2. q \in CreatorRecords /\ q.at = at /\ q.obj = CObj(s)
    BY <1>1 DEF CreatorRecords, CObj
  <1>3. creator' = [creator EXCEPT ![s] = q]
    BY <1>1 DEF Stage
  <1> HIDE DEF q
  <1> QED
    BY <1>2, <1>3
LEMMA CreatorSaves ==
  ASSUME SessionsOK, NEW s \in Sids,
         CreationBegins(s) \/ CreationFails(s) \/ WorkspaceRefreshed(s) \/ Preflight(s)
  PROVE  SessionsOK'
  <1>1. /\ creator[s].at \notin {"none", "report"}
        /\ UNCHANGED <<task, request, posted, bounds>>
        /\ task' \in [Tasks -> {"none", "live"} \cup Ended \cup Lost]
    BY DEF CreationBegins, CreationFails, WorkspaceRefreshed, Preflight, SessionsOK, SessionsTypeOK
  <1>2. Grows
    BY <1>1, SizesAssumption DEF Grows, SessionsOK, SessionsTypeOK
  <1>3. ASSUME NEW at \in CreatorSteps \ {"none"}, Stage(s, at),
               NEW value \in Statuses \ Passed, Save(CObj(s), Status(Cr(s), CN(s), value))
        PROVE  SessionsOK'
    <2>1. PICK q \in CreatorRecords :
             creator' = [creator EXCEPT ![s] = q] /\ q.at = at /\ q.obj = CObj(s)
      BY <1>3, StageOn
    <2>2. PICK new \in Copies :
            /\ new = Status(Cr(s), CN(s), value)
            /\ SameSessions(new, Cr(s)) /\ Extends(new, Cr(s))
            /\ (\A i \in Sids : Announced(i) => Announced(i)') => CopyOK(new)'
      BY <1>1, <1>2, CreatorStatus
    <2>3. q.at # "none" /\ Save(CObj(s), new)
      BY <1>3, <2>1, <2>2
    <2> QED
      BY <1>1, <2>1, <2>2, <2>3, StageStep
  <1>4. {"creating_repair_task", "repair_task_create_failed", "rerun_running", "repairing"}
            \subseteq Statuses \ Passed
        /\ {"refresh", "preflight", "find", "report"} \subseteq CreatorSteps \ {"none"}
    BY DEF Statuses, Passed, FailedSession, CreatorSteps
  <1>5. CASE CreationBegins(s)
    <2>1. CASE Gone(s, heap[0])
      <3>1. PICK stored \in Copies : stored = heap[0]
        BY DEF SessionsOK, SessionsTypeOK
      <3>2. (\A i \in Sids : Announced(i) => Announced(i)') => CopyOK(stored)'
        BY <1>2, <3>1, CopyKept DEF SessionsOK
      <3> QED
        BY <1>1, <1>2, <2>1, <3>1, <3>2, GoneStep
    <2>2. CASE /\ Save(CObj(s), Status(Cr(s), CN(s), "creating_repair_task"))
               /\ Stage(s, "refresh")
      BY <1>3, <1>4, <2>2
    <2> QED
      BY <1>5, <2>1, <2>2 DEF CreationBegins
  <1>6. CASE CreationFails(s)
    <2>1. PICK new \in Copies :
            /\ new = Status(Cr(s), CN(s), "repair_task_create_failed")
            /\ SameSessions(new, Cr(s)) /\ Extends(new, Cr(s))
            /\ (\A i \in Sids : Announced(i) => Announced(i)') => CopyOK(new)'
      BY <1>1, <1>2, <1>4, CreatorStatus
    <2>2. Gone(s, new)
      BY <1>6, <2>1 DEF CreationFails
    <2> QED
      BY <1>1, <1>2, <2>1, <2>2, GoneStep
  <1>7. ASSUME Stage(s, "find"), heap' = heap PROVE SessionsOK'
    <2>1. PICK q \in CreatorRecords :
             creator' = [creator EXCEPT ![s] = q] /\ q.at = "find" /\ q.obj = CObj(s)
      BY <1>4, <1>7, StageOn
    <2>2. q.at # "none"
      BY <2>1
    <2> QED
      BY <1>1, <1>7, <2>1, <2>2, StageOnly
  <1>8. CASE WorkspaceRefreshed(s)
    BY <1>3, <1>4, <1>7, <1>8 DEF WorkspaceRefreshed
  <1>9. ASSUME Assign(CObj(s), Applied(Cr(s), CN(s), "passed")), Stage(s, "report")
        PROVE  SessionsOK'
    <2>1. PICK q \in CreatorRecords :
             creator' = [creator EXCEPT ![s] = q] /\ q.at = "report" /\ q.obj = CObj(s)
      BY <1>4, <1>9, StageOn
    <2>2. PICK old \in Copies : old = Cr(s) /\ CopyOK(old)
      BY <1>1, Creating
    <2>3. PICK n \in DOMAIN old.sessions : n = CN(s) /\ old.sessions[n].id = s
      BY <1>1, <2>2, Creating
    <2>4. AppliedFits(Applied(old, n, "passed"), old, n, OutcomeKey("passed"))
      BY AppliedSet
    <2>5. PICK new \in Copies : new = Applied(old, n, "passed")
      BY <2>4 DEF AppliedFits, SameSessions
    <2>6. /\ SameSessions(new, old) /\ OthersKept(new, old, n)
          /\ new.sessions[n].key = old.sessions[n].key
      BY <2>4, <2>5 DEF AppliedFits
    <2>7. Announced(s)'
      BY <2>1 DEF Announced, SessionsOK, SessionsTypeOK
    <2>8. (\A i \in Sids : Announced(i) => Announced(i)') => CopyOK(new)'
      BY <1>2, <2>2, <2>3, <2>6, <2>7, CopyKept, CopyRewritten DEF SessionsOK
    <2>9. q.at # "none" /\ Assign(CObj(s), new) /\ SameSessions(new, Cr(s))
      BY <1>9, <2>1, <2>2, <2>3, <2>5, <2>6
    <2> QED
      BY <1>1, <2>1, <2>8, <2>9, StageStep
  <1>10. CASE Preflight(s)
    BY <1>3, <1>4, <1>9, <1>10 DEF Preflight
  <1> QED
    BY <1>5, <1>6, <1>8, <1>10

LEMMA PreflightReportStep ==
  ASSUME SessionsOK, NEW s \in Sids, PreflightReport(s)
  PROVE  SessionsOK'
  <1>1. /\ creator[s].at = "report" /\ creator[s].at # "none"
        /\ UNCHANGED <<task, request, bounds>>
    BY DEF PreflightReport
  <1>2. PICK old \in Copies : old = Cr(s) /\ CopyOK(old)
    BY <1>1, Creating
  <1>3. PICK n \in DOMAIN old.sessions : n = CN(s) /\ old.sessions[n].id = s
    BY <1>1, <1>2, Creating
  <1>4. "success" \in posted'[s] /\ "success" \in PassKeys /\ "success" \in Keys
    BY <1>2, <1>3
    DEF PreflightReport, Unreported, CopyOK, SessionsOK, SessionsTypeOK, PassKeys, Keys
  <1>5. Grows
    BY <1>1, <1>4, SizesAssumption DEF Grows, PreflightReport, SessionsOK, SessionsTypeOK
  <1>6. PICK mid \in Copies : mid = Set(old, n, "key", "success")
    BY <1>4, KeySet DEF SameSessions
  <1>7. /\ SameSessions(mid, old) /\ OthersKept(mid, old, n)
        /\ mid.sessions[n].key = "success"
    BY <1>4, <1>6, KeySet
  <1>8. n \in DOMAIN mid.sessions
    BY <1>7 DEF SameSessions
  <1>9. PICK new \in Copies : new = Set(mid, n, "already", TRUE)
    BY <1>8, AlreadySet DEF SameSessions
  <1>10. /\ SameSessions(new, mid) /\ OthersKept(new, mid, n)
         /\ new.sessions[n].key = "success"
    BY <1>7, <1>8, <1>9, AlreadySet
  <1>11. SameSessions(new, old) /\ OthersKept(new, old, n) /\ Extends(new, old)
    BY <1>7, <1>10 DEF SameSessions, OthersKept, Extends
  <1>12. PassPosted(s)' /\ Announced(s)'
    BY <1>4 DEF PassPosted, Announced
  <1>13. (\A i \in Sids : Announced(i) => Announced(i)') => CopyOK(new)'
    BY <1>2, <1>3, <1>4, <1>5, <1>10, <1>11, <1>12, CopyKept, CopyRewritten DEF SessionsOK
  <1>14. Gone(s, new)
    BY <1>2, <1>3, <1>6, <1>9 DEF PreflightReport
  <1> QED
    BY <1>1, <1>2, <1>5, <1>11, <1>12, <1>13, <1>14, GoneStep

LEMMA CreatorTasks ==
  ASSUME SessionsOK, NEW s \in Sids,
         FindActive(s) \/ CreateTask(s) \/ Dedupe(s) \/ CancelOwn(s)
  PROVE  SessionsOK'
  <1>1. /\ creator[s].at \notin {"none", "report"}
        /\ UNCHANGED <<heap, request, posted, bounds>>
    BY DEF FindActive, CreateTask, Dedupe, CancelOwn
  <1>2. task' \in [Tasks -> {"none", "live"} \cup Ended \cup Lost]
    BY DEF FindActive, CreateTask, Dedupe, CancelOwn, SessionsOK, SessionsTypeOK, Lost
  <1>3. PICK p \in CreatorRecords : p = creator[s]
    BY DEF SessionsOK, SessionsTypeOK
  <1>4. ASSUME NEW at \in {"create", "attach", "dedupe", "cancel"}, NEW own \in Nat, NEW other \in Nat,
               creator' = [creator EXCEPT ![s] = [p EXCEPT !.at = at, !.own = own, !.other = other]]
        PROVE  SessionsOK'
    <2> DEFINE q == [p EXCEPT !.at = at, !.own = own, !.other = other]
    <2>1. q \in CreatorRecords /\ q.at # "none" /\ q.obj = CObj(s)
      BY <1>3 DEF CreatorRecords, CreatorSteps, CObj
    <2>2. creator' = [creator EXCEPT ![s] = q]
      BY <1>4
    <2> HIDE DEF q
    <2> QED
      BY <1>1, <1>2, <2>1, <2>2, StageOnly
  <1>5. Live \subseteq Tasks /\ Tasks \subseteq Nat
    BY SizesAssumption DEF Live, Tasks
  <1>6. creator \in [Sids -> CreatorRecords] /\ p.own \in Nat /\ p.other \in Nat
    BY DEF SessionsOK, SessionsTypeOK, CreatorRecords
  <1>7. CASE FindActive(s)
    <2>1. CASE Live = {}
      <3>1. creator' = [creator EXCEPT ![s].at = "create"]
        BY <1>7, <2>1 DEF FindActive
      <3>2. creator' = [creator EXCEPT ![s] = [p EXCEPT !.at = "create", !.own = p.own, !.other = p.other]]
        BY <1>3, <1>6, <3>1 DEF CreatorRecords
      <3> QED
        BY <1>4, <1>6, <3>2
    <2>2. CASE Live # {}
      <3>1. PICK k \in Nat : k = CHOOSE j \in Live : \A i \in Live : j <= i
        BY <1>5, <2>2, LeastLive
      <3>2. creator' = [creator EXCEPT ![s].at = "attach", ![s].own = k]
        BY <1>7, <2>2, <3>1 DEF FindActive
      <3>3. creator' = [creator EXCEPT ![s] = [p EXCEPT !.at = "attach", !.own = k, !.other = p.other]]
        BY <1>3, <1>6, <3>2 DEF CreatorRecords
      <3> QED
        BY <1>4, <1>6, <3>3
    <2> QED
      BY <2>1, <2>2
  <1>8. CASE CreateTask(s)
    <2>1. PICK k \in Tasks : creator' = [creator EXCEPT ![s].at = "dedupe", ![s].own = k]
      BY <1>8 DEF CreateTask
    <2>2. creator' = [creator EXCEPT ![s] = [p EXCEPT !.at = "dedupe", !.own = k, !.other = p.other]]
      BY <1>3, <1>6, <2>1 DEF CreatorRecords
    <2> QED
      BY <1>4, <1>5, <1>6, <2>2
  <1>9. CASE Dedupe(s)
    <2> DEFINE others == Others(creator[s].own)
    <2>1. CASE others = {}
      <3>1. creator' = [creator EXCEPT ![s] = [p EXCEPT !.at = "attach", !.own = p.own, !.other = p.other]]
        BY <1>3, <1>6, <1>9, <2>1 DEF Dedupe, CreatorRecords
      <3> QED
        BY <1>4, <1>6, <3>1
    <2>2. CASE others # {}
      <3>1. others \in SUBSET Tasks
        BY <1>5 DEF Others
      <3>2. PICK k \in Nat : k = CHOOSE j \in others : \A i \in others : j <= i
        <4> HIDE DEF others
        <4> QED
          BY <1>5, <2>2, <3>1, LeastLive
      <3>3. creator' = [creator EXCEPT ![s].at = "cancel", ![s].other = k]
        BY <1>9, <2>2, <3>2 DEF Dedupe
      <3>4. creator' = [creator EXCEPT ![s] = [p EXCEPT !.at = "cancel", !.own = p.own, !.other = k]]
        BY <1>3, <1>6, <3>3 DEF CreatorRecords
      <3> QED
        BY <1>4, <1>6, <3>4
    <2> QED
      BY <2>1, <2>2
  <1>10. CASE CancelOwn(s)
    <2>1. creator' = [creator EXCEPT ![s] = [p EXCEPT !.at = "attach", !.own = p.other, !.other = 0]]
      BY <1>3, <1>6, <1>10 DEF CancelOwn, CreatorRecords
    <2> QED
      BY <1>4, <1>6, <2>1
  <1> QED
    BY <1>7, <1>8, <1>9, <1>10

LEMMA AttachStep ==
  ASSUME SessionsOK, NEW s \in Sids, Attach(s)
  PROVE  SessionsOK'
  <1>1. /\ creator[s].at \notin {"none", "report"}
        /\ UNCHANGED <<task, request, posted, bounds>>
    BY DEF Attach
  <1>2. Grows
    BY <1>1, SizesAssumption DEF Grows, SessionsOK, SessionsTypeOK
  <1>3. "repair_task_created" \in Statuses \ Passed
    BY DEF Statuses, Passed
  <1>4. PICK old \in Copies : old = Cr(s) /\ CopyOK(old)
    BY <1>1, Creating
  <1>5. PICK n \in DOMAIN old.sessions : n = CN(s) /\ old.sessions[n].id = s
    BY <1>1, <1>4, Creating
  <1>6. PICK own \in Nat : own = creator[s].own
    BY DEF SessionsOK, SessionsTypeOK, CreatorRecords
  <1>7. PICK mid \in Copies : mid = Status(old, n, "repair_task_created")
    BY <1>3, StatusSet DEF SameSessions
  <1>8. /\ SameSessions(mid, old) /\ OthersKept(mid, old, n)
        /\ mid.sessions[n].key = old.sessions[n].key
        /\ mid.sessions[n].status = "repair_task_created"
    BY <1>3, <1>7, StatusSet
  <1>9. n \in DOMAIN mid.sessions
    BY <1>8 DEF SameSessions
  <1>10. PICK new \in Copies : new = Set(mid, n, "task", own)
    BY <1>9, TaskSet DEF SameSessions
  <1>11. /\ SameSessions(new, mid) /\ OthersKept(new, mid, n)
         /\ new.sessions[n].key = mid.sessions[n].key
         /\ new.sessions[n].status = mid.sessions[n].status
    BY <1>9, <1>10, TaskSet
  <1>12. /\ SameSessions(new, old) /\ OthersKept(new, old, n) /\ Extends(new, old)
         /\ new.sessions[n].key = old.sessions[n].key
         /\ new.sessions[n].status \notin Passed
    BY <1>3, <1>8, <1>11 DEF SameSessions, OthersKept, Extends
  <1>13. (\A i \in Sids : Announced(i) => Announced(i)') => CopyOK(new)'
    BY <1>2, <1>4, <1>5, <1>12, CopyKept, CopyRewritten DEF SessionsOK
  <1>14. Gone(s, new)
    BY <1>4, <1>5, <1>6, <1>7, <1>10 DEF Attach
  <1> QED
    BY <1>1, <1>2, <1>4, <1>12, <1>13, <1>14, GoneStep
-------------------------------------------------------------------------------
(* The environment, and the whole.                                         *)

LEMMA TaskEndsStep ==
  ASSUME SessionsOK, NEW k \in Tasks, TaskEnds(k)
  PROVE  SessionsOK'
  <1>1. UNCHANGED <<heap, request, creator, posted, bounds>>
        /\ task' \in [Tasks -> {"none", "live"} \cup Ended \cup Lost]
    BY DEF TaskEnds, SessionsOK, SessionsTypeOK
  <1>2. SessionsTypeOK'
    BY <1>1 DEF SessionsOK, SessionsTypeOK
  <1>3. (\A r \in Requests : RequestOK(r))' /\ (\A s \in Sids : CreatorOK(s))'
    BY <1>1
    DEF SessionsOK, RequestOK, CreatorOK, Obj, N, Copy, Sid, Session, CObj, Cr
  <1>4. \A id \in Sids : Announced(id) => Announced(id)'
    BY <1>1 DEF Announced, PassPosted, CarriesPass, Here, Sid, Session, Copy, N, Obj
  <1>5. Grows
    BY <1>1, SizesAssumption DEF Grows, SessionsOK, SessionsTypeOK
  <1>6. ASSUME NEW o \in {0} \cup Objects PROVE CopyOK(heap[o])'
    <2>1. PICK c \in Copies : c = heap[o] /\ CopyOK(c)
      BY DEF SessionsOK, SessionsTypeOK
    <2>2. CopyOK(c)'
      BY <1>4, <1>5, <2>1, CopyKept DEF SessionsOK
    <2> QED
      BY <1>1, <2>1, <2>2 DEF CopyOK
  <1> QED
    BY <1>2, <1>3, <1>6 DEF SessionsOK

\* After a crash nothing is claimed of green sessions any more: their callback
\* may have died with the thread that carried it.
LEMMA CrashStep ==
  ASSUME SessionsOK, Crash
  PROVE  SessionsOK'
  <1>1. /\ request' = [r \in Requests |-> NoRequest] /\ creator' = [s \in Sids |-> NoCreator]
        /\ heap' = [o \in {0} \cup Objects |-> IF o = 0 THEN heap[0] ELSE NoCopy]
        /\ UNCHANGED <<task, posted>> /\ bounds' = [bounds EXCEPT !.crashes = @ + 1]
    BY DEF Crash, SessionsOK, SessionsTypeOK
  <1>2. /\ bounds' \in [requests : 0..MaxRequests, opened : 0..MaxSessions, crashes : Nat]
        /\ bounds'.requests = bounds.requests /\ bounds'.opened = bounds.opened
        /\ bounds'.crashes # 0 /\ bounds.requests \in Nat
    BY <1>1, SizesAssumption DEF SessionsOK, SessionsTypeOK
  <1>3. NoCreator \in CreatorRecords /\ NoCreator.at = "none" /\ NoCreator.obj = 0
    BY DEF NoCreator, CreatorRecords, CreatorSteps
  <1>4. SessionsTypeOK'
    BY <1>1, <1>2, <1>3, NoCopyOK, NoRequestTyped DEF SessionsOK, SessionsTypeOK
  <1>5. ASSUME NEW r \in Requests PROVE RequestOK(r)'
    BY <1>1, <1>2 DEF RequestOK, NoRequest, AtSession, Obj
  <1>6. ASSUME NEW s \in Sids PROVE CreatorOK(s)'
    BY <1>1, <1>2, <1>3 DEF CreatorOK, CObj
  <1>7. ASSUME NEW o \in {0} \cup Objects PROVE CopyOK(heap[o])'
    <2>1. CASE o = 0
      BY <1>1, <1>2, <2>1 DEF CopyOK, SessionsOK
    <2>2. CASE o # 0
      <3>1. heap'[o].sessions = << >>
        BY <1>1, <2>2 DEF NoCopy
      <3> QED
        BY <3>1 DEF CopyOK
    <2> QED
      BY <2>1, <2>2
  <1> QED
    BY <1>4, <1>5, <1>6, <1>7 DEF SessionsOK

LEMMA SessionsInit == Init => SessionsOK
  <1> SUFFICES ASSUME Init PROVE SessionsOK
    OBVIOUS
  <1>1. NoCreator \in CreatorRecords /\ NoCreator.at = "none" /\ NoCreator.obj = 0
    BY DEF NoCreator, CreatorRecords, CreatorSteps
  <1>2. NoCopy \in Copies /\ NoCopy.sessions = << >>
    BY NoCopyOK DEF NoCopy
  <1>3. /\ bounds \in [requests : 0..MaxRequests, opened : 0..MaxSessions, crashes : Nat]
        /\ bounds.requests = 0
    BY SizesAssumption DEF Init
  <1>4. SessionsTypeOK
    BY <1>1, <1>2, <1>3, NoRequestTyped DEF Init, SessionsTypeOK
  <1>5. \A o \in {0} \cup Objects : CopyOK(heap[o])
    BY <1>2 DEF Init, CopyOK
  <1>6. \A r \in Requests : RequestOK(r)
    BY <1>3 DEF Init, RequestOK, NoRequest, AtSession, Obj
  <1>7. \A s \in Sids : CreatorOK(s)
    BY <1>1, <1>3 DEF Init, CreatorOK, CObj
  <1> QED
    BY <1>4, <1>5, <1>6, <1>7 DEF SessionsOK

LEMMA SessionsNext == SessionsOK /\ [Next]_vars => SessionsOK'
  <1> SUFFICES ASSUME SessionsOK, [Next]_vars PROVE SessionsOK'
    OBVIOUS
  <1>1. CASE UNCHANGED vars
    BY <1>1 DEF vars, SessionsOK, SessionsTypeOK, CopyOK, Announced, PassPosted, CarriesPass,
                Here, RequestOK, CreatorOK, Obj, N, Copy, Sid, Session, CObj, Cr
  <1>2. ASSUME NEW r \in Requests, RequestStep(r) PROVE SessionsOK'
    BY <1>2, RefreshStep, ReportSteps, OpenStep, RetryStep, AnswerStep DEF RequestStep
  <1>3. ASSUME NEW r \in Requests, NEW op \in {"read", "create", "retry"}, Load(r, op)
        PROVE  SessionsOK'
    BY <1>3, LoadStep
  <1>4. ASSUME NEW s \in Sids, CreatorStep(s) PROVE SessionsOK'
    BY <1>4, CreatorSaves, PreflightReportStep, CreatorTasks, AttachStep DEF CreatorStep
  <1>5. ASSUME NEW k \in Tasks, TaskEnds(k) PROVE SessionsOK'
    BY <1>5, TaskEndsStep
  <1> QED
    BY <1>1, <1>2, <1>3, <1>4, <1>5, CrashStep DEF Next

LEMMA SessionsInvariant == Spec => []SessionsOK
  BY SessionsInit, SessionsNext, PTL DEF Spec

LEMMA ReportedWhenOK == SessionsOK => GreenWasReported
  <1> SUFFICES ASSUME SessionsOK PROVE GreenWasReported
    OBVIOUS
  <1>1. CopyOK(record)
    BY DEF SessionsOK, record
  <1>2. ASSUME NEW id, Announced(id)
        PROVE  \/ posted[id] \cap {"success", "passed_with_equivalent_mutants"} # {}
               \/ creator[id].at = "report"
               \/ \E r \in Requests : Here(r, "report") /\ Sid(r) = id
    BY <1>2 DEF Announced, PassPosted, CarriesPass, PassKeys
  <1> QED
    BY <1>1, <1>2 DEF CopyOK, GreenWasReported

\* A callback is never lost (GreenWasReported), for any number of requests,
\* sessions and creation threads that overwrite the record with the copies
\* they loaded: a key that the record keeps was posted, and a session that the
\* record calls green was posted or is in the hands of the thread that will
\* (_report_repair_result_once, _apply_repair_enforcement_result).
THEOREM CallbacksAreNotLost == Spec => []GreenWasReported
  BY SessionsInvariant, ReportedWhenOK, PTL
-------------------------------------------------------------------------------
(* Repairs do not compete.                                                 *)

Looking == {"dedupe", "cancel"}
Shadows == {creator[s].own : s \in {s \in Sids : creator[s].at \in Looking}}
Contenders == Live \ Shadows
Alone == \A j \in Contenders, k \in Contenders : j = k

\* What most steps do: no task comes to life, and the threads that have created
\* a task and not yet looked for a twin keep it.
LEMMA NoContender ==
  ASSUME Live' \subseteq Live,
         \A s \in Sids : creator[s].at \in Looking =>
             creator'[s].at \in Looking /\ creator'[s].own = creator[s].own,
         Alone
  PROVE  Alone'
  BY DEF Alone, Contenders, Shadows

\* The threads that look for twins are none of those that start.
LEMMA StartsNoShadow ==
  ASSUME SessionsOK, NEW id, NEW o,
         creator' = creator \/ creator' = Creators(id, o)
  PROVE  \A s \in Sids : creator[s].at \in Looking => creator'[s] = creator[s]
  <1>1. creator \in [Sids -> CreatorRecords]
    BY DEF SessionsOK, SessionsTypeOK
  <1>2. CASE creator' = creator
    BY <1>2
  <1>3. CASE creator' = [creator EXCEPT ![id] = [NoCreator EXCEPT !.at = "begin", !.obj = o]]
             /\ creator[id].at = "none"
    <2>1. ASSUME NEW s \in Sids, creator[s].at \in Looking PROVE s # id
      BY <1>3, <2>1 DEF Looking
    <2> QED
      BY <1>1, <1>3, <2>1
  <1> QED
    BY <1>2, <1>3 DEF Creators

LEMMA RequestsDoNotContend ==
  ASSUME SessionsOK, Alone, NEW r \in Requests,
         RequestStep(r) \/ \E op \in {"read", "create", "retry"} : Load(r, op)
  PROVE  Alone'
  <1>1. PICK id, o : creator' = creator \/ creator' = Creators(id, o)
    <2>1. ASSUME Refresh(r)
          PROVE  creator' = creator \/ creator' = Creators(Sid(r), Obj(r))
      BY <2>1 DEF Refresh, RestartCreation, FollowLive, FollowLost, ApplyTaskResult, Acquire,
                  Revive, Skip
    <2>2. ASSUME Open(r)
          PROVE  creator' = creator \/ creator' = Creators(bounds.opened + 1, Obj(r))
      BY <2>2 DEF Open, Finished
    <2>3. ASSUME Retry(r)
          PROVE  creator' = creator
                 \/ creator' = Creators(Materialized(Copy(r), 1).sessions[1].id, Obj(r))
      BY <2>3 DEF Retry, Finished
    <2>4. ASSUME \/ Rerun(r) \/ ReportFailure(r) \/ Report(r) \/ KeepKey(r) \/ Answer(r)
                 \/ \E op \in {"read", "create", "retry"} : Load(r, op)
          PROVE  creator' = creator
      BY <2>4 DEF Rerun, ReportFailure, Report, KeepKey, Answer, Finished, Load
    <2> QED
      BY <2>1, <2>2, <2>3, <2>4 DEF RequestStep
  <1>2. \A s \in Sids : creator[s].at \in Looking => creator'[s] = creator[s]
    BY <1>1, StartsNoShadow
  <1>3. Live' \subseteq Live
    <2>1. CASE Open(r)
      <3>1. task' = task \/ \E k : task' = [task EXCEPT ![k] = "CANCELLED"]
        BY <2>1 DEF Open
      <3> QED
        BY <3>1 DEF Live, SessionsOK, SessionsTypeOK
    <2>2. CASE ~Open(r)
      <3>1. task' = task
        BY <2>2 DEF RequestStep, Refresh, Rerun, ReportFailure, Report, KeepKey, Retry, Answer, Load
      <3> QED
        BY <3>1 DEF Live
    <2> QED
      BY <2>1, <2>2
  <1> QED
    BY <1>2, <1>3, NoContender

\* Creation: the second look comes after the task is there, so that of two
\* threads at least one sees the other's task.
LEMMA CreatorsDoNotContend ==
  ASSUME SessionsOK, Alone, NEW s \in Sids, CreatorStep(s)
  PROVE  Alone'
  <1>1. creator \in [Sids -> CreatorRecords] /\ task \in [Tasks -> {"none", "live"} \cup Ended \cup Lost]
    BY DEF SessionsOK, SessionsTypeOK
  <1>2. CASE CreateTask(s)
    <2>1. PICK k \in Tasks :
            /\ task' = [task EXCEPT ![k] = "live"]
            /\ creator' = [creator EXCEPT ![s].at = "dedupe", ![s].own = k]
      BY <1>2 DEF CreateTask
    <2>2. creator[s].at = "create" /\ creator[s].at \notin Looking
      BY <1>2 DEF CreateTask, Looking
    <2>3. creator'[s].at = "dedupe" /\ creator'[s].own = k
          /\ \A i \in Sids : i # s => creator'[i] = creator[i]
      BY <1>1, <2>1 DEF CreatorRecords
    <2>4. k \in Shadows' /\ Shadows \subseteq Shadows'
      BY <2>2, <2>3 DEF Shadows, Looking
    <2>5. Live' \subseteq Live \cup {k}
      BY <1>1, <2>1 DEF Live
    <2> QED
      BY <2>4, <2>5 DEF Alone, Contenders
  <1>3. CASE Dedupe(s)
    <2>1. CASE Others(creator[s].own) = {}
      <3>1. Live' \subseteq {creator[s].own}
        BY <1>3, <2>1 DEF Dedupe, Others, Live
      <3> QED
        BY <3>1 DEF Alone, Contenders
    <2>2. CASE Others(creator[s].own) # {}
      <3>1. PICK k : creator' = [creator EXCEPT ![s].at = "cancel", ![s].other = k]
        BY <1>3, <2>2 DEF Dedupe
      <3>2. creator'[s].at = "cancel" /\ creator'[s].own = creator[s].own
            /\ \A i \in Sids : i # s => creator'[i] = creator[i]
        BY <1>1, <3>1 DEF CreatorRecords
      <3>3. Live' \subseteq Live
        BY <1>3 DEF Dedupe, Live
      <3> QED
        BY <3>2, <3>3, NoContender DEF Looking
    <2> QED
      BY <2>1, <2>2
  <1>4. CASE CancelOwn(s)
    <2>1. \A i \in Sids : i # s => creator'[i] = creator[i]
      BY <1>1, <1>4 DEF CancelOwn
    <2>2. Live' \subseteq Live /\ creator[s].own \notin Live'
      BY <1>1, <1>4 DEF CancelOwn, Live
    <2>3. Shadows \subseteq Shadows' \cup {creator[s].own}
      BY <2>1 DEF Shadows
    <2> QED
      BY <2>2, <2>3 DEF Alone, Contenders
  <1>5. CASE /\ ~CreateTask(s) /\ ~Dedupe(s) /\ ~CancelOwn(s)
    <2>1. creator[s].at \notin Looking /\ task' = task
      BY <1>5 DEF CreatorStep, CreationBegins, CreationFails, WorkspaceRefreshed, Preflight,
                  PreflightReport, FindActive, Attach, Looking
    <2>2. \A i \in Sids : i # s => creator'[i] = creator[i]
      BY <1>1, <1>5 DEF CreatorStep, CreationBegins, CreationFails, WorkspaceRefreshed, Preflight,
                  PreflightReport, FindActive, Attach, Gone, Stage
    <2> QED
      BY <2>1, <2>2, NoContender DEF Live
  <1> QED
    BY <1>2, <1>3, <1>4, <1>5

LEMMA AloneNext ==
  ASSUME SessionsOK, bounds.crashes = 0 => Alone, [Next]_vars
  PROVE  bounds'.crashes = 0 => Alone'
  <1>1. CASE UNCHANGED vars
    BY <1>1 DEF vars, Alone, Contenders, Shadows, Live
  <1>2. CASE Crash
    BY <1>2 DEF Crash, SessionsOK, SessionsTypeOK
  <1>3. ASSUME NEW r \in Requests,
               RequestStep(r) \/ \E op \in {"read", "create", "retry"} : Load(r, op)
        PROVE  bounds'.crashes = 0 => Alone'
    <2>1. bounds'.crashes = bounds.crashes
      BY <1>3 DEF RequestStep, Refresh, Rerun, ReportFailure, Report, KeepKey, Open, Retry,
                  Answer, Load, SessionsOK, SessionsTypeOK
    <2> QED
      BY <1>3, <2>1, RequestsDoNotContend
  <1>4. ASSUME NEW s \in Sids, CreatorStep(s) PROVE bounds'.crashes = 0 => Alone'
    <2>1. bounds' = bounds
      BY <1>4 DEF CreatorStep, CreationBegins, CreationFails, WorkspaceRefreshed, Preflight,
                  PreflightReport, FindActive, CreateTask, Dedupe, CancelOwn, Attach
    <2> QED
      BY <1>4, <2>1, CreatorsDoNotContend
  <1>5. ASSUME NEW k \in Tasks, TaskEnds(k) PROVE bounds'.crashes = 0 => Alone'
    <2>1. Live' \subseteq Live
      BY <1>5 DEF TaskEnds, Live, SessionsOK, SessionsTypeOK, Ended, Lost
    <2> QED
      BY <1>5, <2>1, NoContender DEF TaskEnds
  <1> QED
    BY <1>1, <1>2, <1>3, <1>4, <1>5 DEF Next

LEMMA OneWhenAlone ==
  ASSUME bounds.crashes = 0 => Alone
  PROVE  OneLiveRepair
  <1> SUFFICES ASSUME bounds.crashes = 0 PROVE Cardinality(Contenders) <= 1
    BY DEF OneLiveRepair, Contenders, Shadows, Looking
  <1>1. CASE Contenders = {}
    <2>1. Cardinality(Contenders) = 0
      BY <1>1, FS_EmptySet
    <2> QED
      BY <2>1
  <1>2. ASSUME NEW k \in Contenders PROVE Cardinality(Contenders) <= 1
    <2>1. Contenders = {k}
      BY DEF Alone
    <2>2. Cardinality({k}) = 1
      BY FS_Singleton
    <2> QED
      BY <2>1, <2>2
  <1> QED
    BY <1>1, <1>2

\* The repairs of one check never compete (OneLiveRepair), however many
\* sessions, retries and creation threads restart them: the look for a twin
\* after the task was created leaves one live repair task, besides those whose
\* threads have yet to look or to cancel (_run_deferred_repair_task_creation,
\* find_active_duplicate_repair_task).  Stated for a process that has not died.
THEOREM RepairsDoNotCompete == Spec => []OneLiveRepair
  <1>1. Init => (bounds.crashes = 0 => Alone)
    BY DEF Init, Alone, Contenders, Live
  <1>2. SessionsOK /\ (bounds.crashes = 0 => Alone) /\ [Next]_vars
        => (bounds.crashes = 0 => Alone)'
    BY AloneNext
  <1>3. (bounds.crashes = 0 => Alone) => OneLiveRepair
    BY OneWhenAlone
  <1> QED
    BY <1>1, <1>2, <1>3, SessionsInvariant, PTL DEF Spec
===============================================================================

---------------------------- MODULE GenerationCycle ----------------------------
(***************************************************************************)
(* One generation unit run through the durable cycle: the checkpointed     *)
(* graph of phases, the operation ledger that decides what an interrupted  *)
(* operation may do next, and the workspace both talk about.               *)
(*                                                                         *)
(* The workspace is one value, its content; a fingerprint is that value.   *)
(* The graph state is mem; prior is the state one node earlier.  The       *)
(* checkpointer (LangGraph, external) has durably stored one of the two,   *)
(* so a crash resumes from either.  A crash falls between any two of the   *)
(* writes a node makes: the work itself, the immutable result artifact,    *)
(* the ledger row, the graph state.  A stop request may arrive at any      *)
(* moment of an invocation.                                                *)
(***************************************************************************)
EXTENDS CyclePhases

CONSTANTS
    Contents,         \* what the workspace may hold
    Clean,            \* the content without any change
    Allowed,          \* the contents whose every changed path is allowed
    Flows,            \* the units to consider: a language and its gate
    MutationGate,     \* is mutation measured at all?
    MaxAttempts,      \* max_attempts_by_phase
    MaxCrashReplays,  \* max_crash_replays_per_operation
    NoProgressLimit,  \* flat rounds after which a score-driven repair stops
    MaxCrashes,       \* bound: crashes of the process
    MaxStops,         \* bound: stop requests
    HeadMovers,       \* bound: the flows in which a turn may move HEAD
    MaxGreenFailures  \* bound: test repairs beyond their budget, see MeasureMutation

ASSUME ContentsAssumption ==
    /\ Clean \in Contents
    /\ Allowed \subseteq Contents \ {Clean}

ASSUME FlowsAssumption ==
    /\ Flows \subseteq {"java", "java_delegated", "python"}
    /\ HeadMovers \subseteq Flows

ASSUME BoundsAssumption ==
    /\ MaxAttempts \in [Counters -> Nat]
    /\ MaxCrashReplays \in Nat
    /\ NoProgressLimit \in Nat
    /\ MaxCrashes \in Nat
    /\ MaxStops \in Nat
    /\ MaxGreenFailures \in Nat
    /\ MutationGate \in BOOLEAN

VARIABLES
    flow,     \* the unit's language and gate
    ws,       \* the content of the workspace
    rows,     \* workflow_operations: operation -> status and input fingerprint
    arts,     \* result artifacts: operation -> envelope
    mem,      \* the graph state; when no process runs, the checkpoint
    prior,    \* the graph state at the start of the previous node
    stage,    \* how far the current node is
    draft,    \* what the current node has produced and not yet stored
    run,      \* the invocation: idle, running, reused, returned or blocked
    stop,     \* is a stop requested?
    product,  \* the unit's class rows: open, delivered with a verdict, blocked
    crashes,
    stops

vars == <<flow, ws, rows, arts, mem, prior, stage, draft, run, stop, product,
          crashes, stops>>

ledger == <<rows, arts>>
graph == <<mem, prior>>
history == <<crashes, stops>>

--------------------------------------------------------------------------------
(* Operations, envelopes and the graph state *)

\* An operation: phase, step, logical attempt and execution ordinal.
Op(p, step, attempt, n) == <<p, step, attempt, n>>

NoOp == <<"none", "none", 0, 0>>

\* A map with one entry written.
Put(f, key, value) == [k \in DOMAIN f \cup {key} |-> IF k = key THEN value ELSE f[k]]

NoEvidence == [p \in {} |-> [fp |-> Clean, outcome |-> "none"]]

\* What a node produces: the fingerprint it leaves, the turn's status or the
\* phase's outcome, and the counters projected onto the graph state.
Envelope(fp, status, outcome, att, streak, seen) ==
    [fp |-> fp, status |-> status, outcome |-> outcome, att |-> att,
     streak |-> streak, seen |-> seen]

Zero == [c \in Counters |-> 0]

NoDraft == Envelope(Clean, "none", "none", Zero, [h \in Histories |-> 0], {})

Start ==
    [node |-> Enter("precheck_existing_tests"), op |-> NoOp, att |-> Zero,
     streak |-> [h \in Histories |-> 0], seen |-> {}, turn |-> "none",
     evid |-> NoEvidence, verdict |-> "none"]

Init ==
    /\ flow \in Flows
    /\ ws = Clean
    /\ rows = [o \in {} |-> NoOp]
    /\ arts = [o \in {} |-> NoDraft]
    /\ mem = Start
    /\ prior = Start
    /\ stage = "enter"
    /\ draft = NoDraft
    /\ run = "idle"
    /\ stop = FALSE
    /\ product = "open"
    /\ crashes = 0
    /\ stops = 0

At(step, at) ==
    run = "running" /\ mem.node.step = step /\ mem.node.at = at

Phase == mem.node.phase

\* A node returns: its update is the new graph state.
Return(new) == mem' = new /\ prior' = mem

\* A node or the code after the graph raises: nothing of the node is kept.
Raise ==
    /\ run' = "blocked"
    /\ stage' = "enter"
    /\ draft' = NoDraft
    /\ UNCHANGED graph

--------------------------------------------------------------------------------
(* Reconciliation: one of seven outcomes for the operation of a node *)

Ordinals(p, step, attempt) ==
    {n \in 0..MaxCrashReplays : Op(p, step, attempt, n) \in DOMAIN rows}

Decision(outcome, op, newRows) ==
    [outcome |-> outcome, op |-> op, rows |-> newRows]

Started == [status |-> "STARTED", input |-> ws]

\* The ledger keeps every operation.  The model forgets, when a new one is
\* started, those no reconciliation can look up again: logical attempts never
\* go down, and the unit never goes back to the phases before verification.
Consultable(o) ==
    /\ o[3] >= mem.att[o[1]]
    /\ o[1] \in Preparation => Phase \in Preparation

Kept(f) == [o \in {o \in DOMAIN f : Consultable(o)} |-> f[o]]

\* Mutant: a replay leaves the execution it supersedes open.
ClassifyEffectUnclosed(p, step, attempt, n, known) ==
    LET op == Op(p, step, attempt, n)
        next == Op(p, step, attempt, n + 1)
    IN  CASE ws # known[op].input /\ ws \in Allowed
               -> Decision("verify_existing_edit", op, known)
          [] ws # known[op].input /\ ws \notin Allowed
               -> Decision("fail_unsafe", op, known)
          [] ws = known[op].input /\ n >= MaxCrashReplays
               -> Decision("fail_indeterminate", op, known)
          [] OTHER
               -> Decision("retry_no_effect", next, Put(known, next, Started))

\* An operation that left no result: judge the edit it left, or replay it as
\* a new ordinal while the replay budget lasts.
ClassifyEffect(p, step, attempt, n, known) ==
    LET op == Op(p, step, attempt, n)
        next == Op(p, step, attempt, n + 1)
        closed == IF known[op].status = "STARTED"
                  THEN [known EXCEPT ![op].status = "FAILED"]
                  ELSE known
    IN  CASE ws # known[op].input /\ ws \in Allowed
               -> Decision("verify_existing_edit", op, known)
          [] ws # known[op].input /\ ws \notin Allowed
               -> Decision("fail_unsafe", op, known)
          [] ws = known[op].input /\ n >= MaxCrashReplays
               -> Decision("fail_indeterminate", op, known)
          [] OTHER
               -> Decision("retry_no_effect", next, Put(closed, next, Started))

\* A COMPLETED operation is reused on the workspace it left, and nowhere else.
ClassifyCompleted(op) ==
    Decision(CASE op \notin DOMAIN arts -> "fail_indeterminate"
               [] op \in DOMAIN arts /\ arts[op].fp = ws -> "reuse_result"
               [] OTHER -> "fail_unsafe",
             op, rows)

\* A STARTED operation whose artifact was written before the row: complete it
\* from the artifact, unless the turn was cancelled.
ClassifyStored(p, step, attempt, n) ==
    LET op == Op(p, step, attempt, n)
    IN  CASE arts[op].fp # ws -> Decision("fail_indeterminate", op, rows)
          [] arts[op].fp = ws /\ arts[op].status = "cancelled"
               -> ClassifyEffect(p, step, attempt, n,
                                 [rows EXCEPT ![op].status = "CANCELLED"])
          [] OTHER
               -> Decision("adopt_result", op, [rows EXCEPT ![op].status = "COMPLETED"])

Classify(p, step) ==
    LET attempt == mem.att[p]
        known == Ordinals(p, step, attempt)
        n == CHOOSE k \in known : \A j \in known : j <= k
        op == Op(p, step, attempt, n)
        first == Op(p, step, attempt, 0)
    IN  CASE known = {} -> Decision("run", first, Put(Kept(rows), first, Started))
          [] known # {} /\ rows[op].status = "COMPLETED" -> ClassifyCompleted(op)
          [] known # {} /\ rows[op].status = "STARTED" /\ op \in DOMAIN arts
               -> ClassifyStored(p, step, attempt, n)
          [] OTHER -> ClassifyEffect(p, step, attempt, n, rows)

\* The branch of a reconcile node.
AfterDecision(p, step, outcome) ==
    CASE outcome \in {"run", "retry_no_effect"} -> Node(p, step, "work")
      [] outcome \in {"reuse_result", "adopt_result"} -> Node(p, step, "rehydrate")
      [] outcome = "verify_existing_edit" /\ EditVerifier(p) # {}
           -> Enter(CHOOSE v \in EditVerifier(p) : TRUE)
      [] OTHER -> Node(p, step, "terminate")

Reconcile ==
    /\ run = "running"
    /\ mem.node.at = "reconcile"
    /\ LET d == Classify(Phase, mem.node.step)
       IN  /\ rows' = d.rows
           /\ arts' = IF d.outcome = "run" THEN Kept(arts) ELSE arts
           /\ Return([mem EXCEPT !.op = d.op,
                                 !.node = AfterDecision(Phase, @.step, d.outcome)])
    /\ UNCHANGED <<flow, ws, stage, draft, run, stop, product, history>>

--------------------------------------------------------------------------------
(* What the phases of the two languages answer *)

Answer(outcome) ==
    [outcome |-> outcome, att |-> mem.att, streak |-> mem.streak, seen |-> mem.seen]

Under(counter) == mem.att[counter] < MaxAttempts[counter]

\* Python's compile and test verifications share one repair budget.
RepairOrFail == IF Under("python_repair_total") THEN "repair" ELSE "failed"

Precheck ==
    CASE flow = "python" -> {"plan_skipped", "skip_target", "failed", "existing_repair"}
      [] flow = "java"   -> {"proceed", "skip_target"}
      [] OTHER           -> {"proceed", "delegated_repair", "skip_target"}

\* Java also gives up when a repair left exactly the errors it was shown.
VerifyCompile ==
    {"passed"} \cup
    CASE flow = "python" -> {RepairOrFail}
      [] flow # "python" /\ Under("fix_compile")
           -> {"repair"} \cup (IF mem.att["fix_compile"] > 0 THEN {"failed"} ELSE {})
      [] OTHER -> {"failed"}

VerifyTests ==
    CASE flow = "python" -> {"passed", RepairOrFail}
      [] flow = "java"   -> {"passed", IF Under("fix_tests") THEN "repair" ELSE "failed"}
      [] OTHER           -> {"delegated", IF Under("fix_tests") THEN "repair" ELSE "failed"}

\* The repair-progress policy on a measurement below its gate: h is the score
\* history, r the repair whose attempts it spends, scored says that the tool
\* reported a score and better that it beat the best one so far (the first
\* score of a history always does).  A mutation score that stopped improving
\* may earn the equivalence review instead.
Shortfall(h, r, scored, better) ==
    LET improved == scored /\ (better \/ h \notin mem.seen)
        streak == IF improved THEN 0
                  ELSE mem.streak[h] + IF scored /\ mem.att[r] > 0 THEN 1 ELSE 0
        flat == ~improved /\ scored /\ streak >= NoProgressLimit
        review == IF h \in {"fix_mutation", "delegated:mutation"}
                  THEN {"review_equivalence"} ELSE {}
    IN  {[Answer(o) EXCEPT !.streak[h] = streak,
                           !.seen = IF scored THEN @ \cup {h} ELSE @] :
            o \in CASE ~Under(r)         -> {"failed"}
                    [] Under(r) /\ flat  -> {"failed"} \cup review
                    [] OTHER             -> {"repair"}}

\* A measurement that meets its gate ends the flat rounds.
Met(h) == [Answer("passed") EXCEPT !.streak[h] = 0,
                                   !.seen = IF flow = "python" THEN @ \cup {h} ELSE @]

MeasureCoverage ==
    {Met("fix_coverage"), Answer("failed")}
    \cup UNION {Shortfall("fix_coverage", "fix_coverage", TRUE, b) : b \in BOOLEAN}

\* Java's tool reports a mutation score with every answer, Python's may not.
MutationScored == IF flow = "python" THEN BOOLEAN ELSE {TRUE}

\* PIT refuses to run on a suite that is not green, which Java answers with a
\* test repair whose budget nobody asks for; the bound stands in for it.
MeasureMutation ==
    IF ~MutationGate THEN {Answer("skipped")}
    ELSE {Met("fix_mutation"), Answer("failed")}
         \cup (UNION {Shortfall("fix_mutation", "fix_mutation", s, b) :
                        s \in MutationScored, b \in BOOLEAN})
         \cup IF flow # "python"
                 /\ mem.att["fix_tests"] < MaxAttempts["fix_tests"] + MaxGreenFailures
              THEN {Answer("tests_failed")} ELSE {}

DelegatedVerify ==
    IF flow # "java_delegated" THEN {Answer("skipped")}
    ELSE {Answer("passed"), Answer("failed")}
         \cup UNION {Shortfall(h, "delegated_quality_gate", s, b) :
                       h \in {"delegated:coverage", "delegated:mutation"},
                       s \in BOOLEAN, b \in BOOLEAN}

Said(evid, p) == IF p \in DOMAIN evid THEN evid[p].outcome ELSE "none"

\* The evidence a verdict is taken from: a passing precheck, the delegated
\* gate, or the three measurements.
VerdictPhases(evid) ==
    CASE Said(evid, "precheck_existing_tests") = "skip_target" -> {"precheck_existing_tests"}
      [] Said(evid, "precheck_existing_tests") # "skip_target" /\ flow = "java_delegated"
           /\ Said(evid, "delegated_quality_gate_verify") # "none"
           -> {"delegated_quality_gate_verify"}
      [] OTHER -> {"verify_tests", "measure_coverage", "measure_mutation"}

CompleteGeneration(evid) ==
    IF /\ \A p \in VerdictPhases(evid) :
            Said(evid, p) \in {"skip_target", "passed"}
              \cup IF p = "measure_mutation" THEN {"skipped"} ELSE {}
       /\ \/ Said(evid, "verify_compile") # "failed"
          \/ VerdictPhases(evid) # {"verify_tests", "measure_coverage", "measure_mutation"}
    THEN "PASS" ELSE "FAIL"

ToolAnswers(p) ==
    CASE p = "precheck_existing_tests" -> {Answer(o) : o \in Precheck}
      [] p = "verify_compile"          -> {Answer(o) : o \in VerifyCompile}
      [] p = "verify_tests"            -> {Answer(o) : o \in VerifyTests}
      [] p = "measure_coverage"        -> MeasureCoverage
      [] p = "measure_mutation"        -> MeasureMutation
      [] p = "delegated_quality_gate_verify" -> DelegatedVerify
      [] p = "complete_generation"     -> {Answer(CompleteGeneration(mem.evid))}

\* Mutant: the retry keeps the logical attempt of the answer it rejects.
AskUncounted(p) == IF Under(p) THEN Answer("retry") ELSE Answer("exhausted")

\* A plan or a generated batch that is not good enough is asked for again,
\* under the next logical attempt, while attempts last.
Ask(p) ==
    IF Under(p) THEN [Answer("retry") EXCEPT !.att[p] = @ + 1]
    ELSE Answer("exhausted")

\* A repair spends an attempt and makes every verification new work.
Repaired(p) ==
    LET advanced == AdvanceVerification(mem.att)
    IN  [Answer("passed") EXCEPT
            !.att = [c \in Counters |->
                       advanced[c] +
                       IF c = p \/ (flow = "python" /\ p \in BudgetedRepairs
                                    /\ c = "python_repair_total")
                       THEN 1 ELSE 0]]

\* Python salvages a test from an answer whatever the turn's status.
InterpretAnswers(p) ==
    CASE p \in Repairs -> {Repaired(p)}
      [] p = "review_equivalent_mutants" -> {Answer("failed")}
      [] p = "generate_tests" /\ flow = "python" -> {Answer("failed"), Answer("passed")}
      [] OTHER -> IF mem.turn # "completed" THEN {Answer("failed")}
                  ELSE {Answer("passed"), Answer("failed"), Ask(p)}

--------------------------------------------------------------------------------
(* The work of a node: an agent turn, its interpretation, a tool *)

Safe(content) == content \in Allowed \cup {Clean}

\* The guard before a turn honours a stop request; the content it starts from
\* is remembered in the draft.
TurnBegin ==
    /\ At("turn", "work")
    /\ stage = "enter"
    /\ \/ /\ stop
          /\ Raise
       \/ /\ ~stop
          /\ stage' = "turning"
          /\ draft' = [NoDraft EXCEPT !.fp = ws]
          /\ UNCHANGED <<graph, run>>
    /\ UNCHANGED <<flow, ws, ledger, stop, product, history>>

\* The guard refuses a turn beyond the hard cap of a class and blocks its row;
\* the cost gate refuses one beyond the currency cap.  The caps are settings of
\* the task, so any turn may be the one they refuse.
TurnRefused ==
    /\ At("turn", "work")
    /\ stage = "enter"
    /\ ~stop
    /\ product' \in {product, "blocked"}
    /\ Raise
    /\ UNCHANGED <<flow, ws, ledger, stop, history>>

\* The agent edits the workspace.
TurnEdit ==
    /\ At("turn", "work")
    /\ stage = "turning"
    /\ ws' \in Contents \ {ws}
    /\ stage' = "edited"
    /\ UNCHANGED <<flow, ledger, graph, draft, run, stop, product, history>>

Unsafe == ws # draft.fp /\ (~Safe(ws) \/ ~Safe(draft.fp))

\* The turn ends and the guard accepts what it changed.  Only a stop request
\* cancels a turn.
TurnEnd ==
    /\ At("turn", "work")
    /\ stage \in {"turning", "edited"}
    /\ ~Unsafe
    /\ \E status \in {"completed", "failed"} \cup (IF stop THEN {"cancelled"} ELSE {}) :
         draft' = Envelope(ws, status, "none", mem.att, mem.streak, mem.seen)
    /\ stage' = "worked"
    /\ UNCHANGED <<flow, ws, ledger, graph, run, stop, product, history>>

\* The guard rejects the change: the operation fails and the error ends the
\* invocation.  A path that is not allowed also blocks the class rows; a moved
\* HEAD does not.
TurnRejected ==
    /\ At("turn", "work")
    /\ stage \in {"turning", "edited"}
    /\ Unsafe
    /\ rows' = IF rows[mem.op].status = "STARTED"
               THEN [rows EXCEPT ![mem.op].status = "FAILED"] ELSE rows
    /\ product' \in {"blocked"} \cup (IF flow \in HeadMovers THEN {product} ELSE {})
    /\ Raise
    /\ UNCHANGED <<flow, ws, arts, stop, history>>

Produced(a) == Envelope(ws', "phase", a.outcome, a.att, a.streak, a.seen)

\* Interpretation; Python writes the test file it salvaged.
Interpret ==
    /\ At("interpret", "work")
    /\ stage = "enter"
    /\ \E a \in InterpretAnswers(Phase) :
         /\ IF flow = "python" /\ Phase = "generate_tests" /\ a.outcome = "passed"
            THEN ws' \in Allowed \cup {ws}
            ELSE ws' = ws
         /\ draft' = Produced(a)
    /\ stage' = "worked"
    /\ UNCHANGED <<flow, ledger, graph, run, stop, product, history>>

RunPhase ==
    /\ At("deterministic", "work")
    /\ stage = "enter"
    /\ ws' = ws
    /\ \E a \in ToolAnswers(Phase) : draft' = Produced(a)
    /\ stage' = "worked"
    /\ UNCHANGED <<flow, ledger, graph, run, stop, product, history>>

--------------------------------------------------------------------------------
(* Recording: the artifact first, then the row, then the graph state *)

\* The artifact is immutable.  A second execution of one operation differs at
\* least in its timings, so whether its bytes are the stored ones is open.
Store ==
    /\ run = "running"
    /\ stage = "worked"
    /\ \/ /\ mem.op \in DOMAIN arts => arts[mem.op] = draft
          /\ arts' = Put(arts, mem.op, draft)
          /\ stage' = "stored"
          /\ UNCHANGED <<graph, run, draft>>
       \/ /\ mem.op \in DOMAIN arts
          /\ arts' = arts
          /\ Raise
    /\ UNCHANGED <<flow, ws, rows, stop, product, history>>

FinalStatus(env) == IF env.status = "cancelled" THEN "CANCELLED" ELSE "COMPLETED"

\* The graph state a recorded or restored result leads to.
Projected(p, step, env) ==
    IF step = "turn"
    THEN [mem EXCEPT
            !.turn = env.status,
            !.node = IF env.status = "cancelled" THEN Node(p, "turn", "pause")
                     ELSE Node(p, "interpret", "reconcile")]
    ELSE [mem EXCEPT
            !.turn = "none",
            !.att = env.att,
            !.streak = env.streak,
            !.seen = env.seen,
            !.evid = IF p \in Verifiers \cup {"precheck_existing_tests"}
                     THEN Put(@, p, [fp |-> env.fp, outcome |-> env.outcome])
                     ELSE @,
            !.verdict = IF p = "complete_generation" THEN env.outcome ELSE @,
            !.node = IF p = "complete_generation" THEN Node(p, step, "end")
                     ELSE Enter(Successor(p, env.outcome))]

\* A row ends from STARTED, and an identical repetition is accepted; anything
\* else is a conflict, as for the second run of a turn the guard rejected.
Record ==
    /\ run = "running"
    /\ stage = "stored"
    /\ \/ /\ rows[mem.op].status \in {"STARTED", FinalStatus(draft)}
          /\ rows' = [rows EXCEPT ![mem.op].status = FinalStatus(draft)]
          /\ Return(Projected(Phase, mem.node.step, draft))
          /\ stage' = "enter"
          /\ draft' = NoDraft
          /\ run' = run
       \/ /\ rows[mem.op].status \notin {"STARTED", FinalStatus(draft)}
          /\ rows' = rows
          /\ Raise
    /\ UNCHANGED <<flow, ws, arts, stop, product, history>>

\* A result that already exists is restored instead of produced again.
Rehydrate ==
    /\ run = "running"
    /\ mem.node.at = "rehydrate"
    /\ Return(IF mem.op \in DOMAIN arts
              THEN Projected(Phase, mem.node.step, arts[mem.op])
              ELSE [mem EXCEPT !.node = Enter("complete_generation")])
    /\ UNCHANGED <<flow, ws, ledger, stage, draft, run, stop, product, history>>

\* A cancelled turn waits here while the stop is set and then goes back to
\* the reconciliation of its phase.
Pause ==
    /\ run = "running"
    /\ mem.node.at = "pause"
    /\ \/ /\ stop
          /\ Raise
       \/ /\ ~stop
          /\ Return([mem EXCEPT !.node = Enter(Phase)])
          /\ UNCHANGED <<stage, draft, run>>
    /\ UNCHANGED <<flow, ws, ledger, stop, product, history>>

Terminate ==
    /\ run = "running"
    /\ mem.node.at = "terminate"
    /\ Return([mem EXCEPT !.verdict = "terminated", !.node.at = "end"])
    /\ UNCHANGED <<flow, ws, ledger, stage, draft, run, stop, product, history>>

--------------------------------------------------------------------------------
(* Around the graph *)

\* The product re-reads the ledger before it believes a terminal state.
ValidTerminal ==
    /\ mem.op[1] = "complete_generation"
    /\ rows[mem.op].status = "COMPLETED"
    /\ mem.op \in DOMAIN arts
    /\ arts[mem.op].fp = ws

\* An invocation of the unit: a new or pending checkpoint runs from its node,
\* a finished one is only returned.  A deliberate start clears the stop.
Begin ==
    /\ run \in {"idle", "blocked"}
    /\ product = "open"
    /\ run' = IF mem.node.at = "end" THEN "reused" ELSE "running"
    /\ stop' = FALSE
    /\ UNCHANGED <<flow, ws, ledger, graph, stage, draft, product, history>>

Finish ==
    /\ run = "running"
    /\ mem.node.at = "end"
    /\ run' = IF ValidTerminal THEN "returned" ELSE "blocked"
    /\ UNCHANGED <<flow, ws, ledger, graph, stage, draft, stop, product, history>>

\* A unit complete in its checkpoint and open in the product is refused.
ReusedUnit ==
    /\ run = "reused"
    /\ run' = "blocked"
    /\ UNCHANGED <<flow, ws, ledger, graph, stage, draft, stop, product, history>>

\* Delivery records the verdict in the class rows.
Deliver ==
    /\ run = "returned"
    /\ product' = mem.verdict
    /\ run' = "idle"
    /\ UNCHANGED <<flow, ws, ledger, graph, stage, draft, stop, history>>

RequestStop ==
    /\ run = "running"
    /\ ~stop
    /\ stops < MaxStops
    /\ stop' = TRUE
    /\ stops' = stops + 1
    /\ UNCHANGED <<flow, ws, ledger, graph, stage, draft, run, product, crashes>>

\* The process dies; the checkpointer had stored the state of this node or of
\* the one before it.
Crash ==
    /\ run \in {"running", "reused", "returned"}
    /\ crashes < MaxCrashes
    /\ crashes' = crashes + 1
    /\ mem' \in {mem, prior}
    /\ prior' = mem'
    /\ stage' = "enter"
    /\ draft' = NoDraft
    /\ run' = "idle"
    /\ UNCHANGED <<flow, ws, ledger, stop, product, stops>>

Step ==
    \/ Reconcile \/ Rehydrate \/ Pause \/ Terminate
    \/ TurnBegin \/ TurnEnd \/ TurnRejected
    \/ Interpret \/ RunPhase \/ Store \/ Record
    \/ Finish \/ ReusedUnit \/ Deliver

Next == Step \/ TurnEdit \/ TurnRefused \/ Begin \/ RequestStop \/ Crash

Spec == Init /\ [][Next]_vars

\* A live process runs its graph: every node returns or raises.
FairSpec == Spec /\ WF_vars(Step)

--------------------------------------------------------------------------------
(* Properties *)

Terminated == mem.node.at = "terminate" \/ mem.verdict = "terminated"

\* A unit that was neither interrupted nor stopped is never classified unsafe
\* or indeterminate: every verification that follows a repair is new work for
\* the reconciler, whichever loop leads back to it (the beta failures that
\* repair_attempts.py describes).
NoFalseUnsafe == crashes = 0 /\ stops = 0 => ~Terminated

\* A unit that returns PASS was judged on the files it returns: each piece of
\* evidence complete_generation took the verdict from was measured on the
\* current workspace, through any crash, stop, replay, reuse and adoption.
PassIsCurrent ==
    run = "returned" /\ mem.verdict = "PASS"
        => \A p \in VerdictPhases(mem.evid) : mem.evid[p].fp = ws

\* The ledger never claims more than the artifacts show: a COMPLETED operation
\* has its artifact, the executions of one slot follow each other without a
\* gap, and only the last of them is open or completed.
LedgerConsistent ==
    \A o \in DOMAIN rows :
        /\ rows[o].status = "COMPLETED" => o \in DOMAIN arts
        /\ \A n \in 0..(o[4] - 1) :
             /\ Op(o[1], o[2], o[3], n) \in DOMAIN rows
             /\ rows[Op(o[1], o[2], o[3], n)].status \in {"FAILED", "CANCELLED"}

\* Every invocation ends: it delivers, raises or waits for a resume; no
\* sequence of retries, reuses and repairs goes round for ever.
InvocationEnds == run = "running" ~> run # "running"
--------------------------------------------------------------------------------
(***************************************************************************)
(* The inductive strengthenings the proofs use.                            *)
(***************************************************************************)

Steps == {"turn", "interpret", "deterministic"}

Nodes ==
    {n \in [phase : Phases, step : Steps,
            at : {"reconcile", "work", "rehydrate", "pause", "terminate", "end"}] :
        n.step = "deterministic" <=> n.phase \in ToolPhases}

Ops ==
    {o \in Phases \X Steps \X Nat \X (0..MaxCrashReplays) :
        o[2] = "deterministic" <=> o[1] \in ToolPhases}

\* What an envelope may hold as an outcome.
Outcomes ==
    {"proceed", "plan_skipped", "existing_repair", "delegated_repair", "skip_target",
     "passed", "retry", "repair", "delegated", "skipped", "review_equivalence",
     "tests_failed", "failed", "exhausted", "PASS", "FAIL", "none"}

Envelopes ==
    [fp : Contents, status : {"none", "phase", "completed", "failed", "cancelled"},
     outcome : Outcomes, att : [Counters -> Nat], streak : [Histories -> Nat],
     seen : SUBSET Histories]

Evidence(evid) ==
    /\ DOMAIN evid \subseteq Phases
    /\ \A p \in DOMAIN evid : evid[p] \in [fp : Contents, outcome : Outcomes]

GraphOK(g) ==
    /\ g = [node |-> g.node, op |-> g.op, att |-> g.att, streak |-> g.streak,
            seen |-> g.seen, turn |-> g.turn, evid |-> g.evid, verdict |-> g.verdict]
    /\ g.node \in Nodes
    /\ g.op \in Ops \cup {NoOp}
    /\ g.att \in [Counters -> Nat]
    /\ g.streak \in [Histories -> Nat]
    /\ g.seen \subseteq Histories
    /\ Evidence(g.evid)

TypeOK ==
    /\ flow \in Flows
    /\ ws \in Contents
    /\ DOMAIN rows \subseteq Ops
    /\ \A o \in DOMAIN rows :
         rows[o] \in [status : {"STARTED", "COMPLETED", "FAILED", "CANCELLED"},
                      input : Contents]
    /\ DOMAIN arts \subseteq Ops
    /\ \A o \in DOMAIN arts : arts[o] \in Envelopes
    /\ GraphOK(mem)
    /\ GraphOK(prior)
    /\ stage \in {"enter", "turning", "edited", "worked", "stored"}
    /\ draft \in Envelopes
    /\ run \in {"idle", "running", "reused", "returned", "blocked"}
    /\ stop \in BOOLEAN
    /\ crashes \in Nat
    /\ stops \in Nat

\* A graph state past the reconciliation of its node works on an operation of
\* that node that the ledger knows; a result it restores is there, and was
\* found to be the one of the workspace.
Reconciled(g) ==
    /\ g.node.at # "reconcile" => g.op \in DOMAIN rows
    /\ g.node.at \in {"work", "rehydrate"} => g.op[1] = g.node.phase /\ g.op[2] = g.node.step
    /\ g.node.at = "rehydrate" => g.op \in DOMAIN arts /\ arts[g.op].fp = ws
    /\ g.verdict # "none" => g.node.at = "end"

\* A node works only while its invocation runs, and its work is about the
\* workspace: nobody else changes it meanwhile.
WorkInv ==
    /\ Reconciled(mem) /\ Reconciled(prior)
    /\ mem.node.at = "work"
         => prior.node.phase = mem.node.phase /\ prior.node.at \in {"reconcile", "work"}
    /\ DOMAIN arts \subseteq DOMAIN rows
    /\ stage # "enter" => run = "running" /\ mem.node.at = "work"
    /\ stage \in {"worked", "stored"} => draft.fp = ws
    /\ stage = "stored" => mem.op \in DOMAIN arts

\* What a phase can answer, in the flow of the unit.
Possible(p) ==
    CASE p = "precheck_existing_tests" -> Precheck
      [] p = "verify_compile"   -> {"passed", "repair", "failed"}
      [] p = "verify_tests"     -> {IF flow = "java_delegated" THEN "delegated" ELSE "passed",
                                    "repair", "failed"}
      [] p = "measure_coverage" -> {"passed", "repair", "failed"}
      [] p = "measure_mutation" -> {"passed", "skipped", "repair", "failed",
                                    "review_equivalence", "tests_failed"}
      [] p = "delegated_quality_gate_verify" ->
            IF flow = "java_delegated" THEN {"passed", "repair", "failed", "review_equivalence"}
            ELSE {"skipped"}
      [] p = "complete_generation" -> {"PASS", "FAIL"}
      [] p \in Repairs          -> {"passed"}
      [] p = "review_equivalent_mutants" -> {"failed"}
      [] p \in {"plan_tests", "generate_tests"} -> {"passed", "retry", "failed", "exhausted"}

\* An artifact holds an answer of its phase; the one of the completion was
\* taken from the evidence both graph states hold ever since.
AnswerInv ==
    /\ \A o \in DOMAIN arts : o[2] # "turn" => arts[o].outcome \in Possible(o[1])
    /\ stage \in {"worked", "stored"} /\ mem.node.step # "turn"
         => draft.outcome \in Possible(Phase)
    /\ stage \in {"worked", "stored"} /\ Phase = "complete_generation" /\ draft.outcome = "PASS"
         => CompleteGeneration(mem.evid) = "PASS"
    /\ \A o \in DOMAIN rows : o[1] = "complete_generation" =>
         /\ Phase = "complete_generation" /\ prior.node.phase = "complete_generation"
         /\ prior.evid = mem.evid
         /\ o \in DOMAIN arts /\ arts[o].outcome = "PASS" => CompleteGeneration(mem.evid) = "PASS"

CurrentIn(g, p) == p \in DOMAIN g.evid /\ g.evid[p].fp = ws

\* No verdict can be taken from the precheck or from the delegated gate.
Undecided(evid) ==
    /\ Said(evid, "precheck_existing_tests") # "skip_target"
    /\ flow = "java_delegated"
         => Said(evid, "delegated_quality_gate_verify") \notin {"passed", "skip_target"}

\* What is known of the evidence where the unit is: the measurements since the
\* last edit are current, and the older ones cannot be mistaken for a pass.
EvidenceInv(g) ==
    LET p == g.node.phase
        delegated == flow = "java_delegated"
    IN  /\ p # "complete_generation" => Undecided(g.evid)
        /\ delegated => /\ p \notin {"measure_coverage", "measure_mutation"}
                        /\ "measure_coverage" \notin DOMAIN g.evid
        /\ p \in Preparation => Said(g.evid, "verify_tests") = "none"
        /\ p \in {"measure_coverage", "measure_mutation"}
             \/ (p = "delegated_quality_gate_verify" /\ ~delegated)
             => CurrentIn(g, "verify_tests")
        /\ p = "measure_mutation" \/ (p = "delegated_quality_gate_verify" /\ ~delegated)
             => CurrentIn(g, "measure_coverage")
        /\ p = "delegated_quality_gate_verify" /\ ~delegated => CurrentIn(g, "measure_mutation")
        /\ p = "review_equivalent_mutants" /\ ~delegated
             => Said(g.evid, "measure_mutation") = "review_equivalence"
        /\ p = "complete_generation" /\ CompleteGeneration(g.evid) = "PASS"
             => \A q \in VerdictPhases(g.evid) : CurrentIn(g, q)
        /\ g.verdict = "PASS" => p = "complete_generation" /\ CompleteGeneration(g.evid) = "PASS"

\* The order in which a round of a unit visits its phases; a repair or the
\* review ends a round.
Place(p) ==
    CASE p = "precheck_existing_tests" -> 0
      [] p = "plan_tests" -> 1
      [] p = "generate_tests" -> 2
      [] p = "verify_compile" -> 3
      [] p = "verify_tests" -> 4
      [] p = "measure_coverage" -> 5
      [] p = "measure_mutation" -> 6
      [] p = "delegated_quality_gate_verify" -> 7
      [] p \in Repairs \cup {"review_equivalent_mutants"} -> 8
      [] p = "complete_generation" -> 9

\* The attempts after a phase has answered.
AttAfter(p, outcome) ==
    IF p \in Repairs THEN Repaired(p).att
    ELSE IF outcome = "retry" THEN [mem.att EXCEPT ![p] = @ + 1] ELSE mem.att

\* An operation of the present attempt lies behind the unit, or is the one the
\* node is working on.
Behind(o) ==
    \/ Place(o[1]) < Place(Phase)
    \/ /\ o[1] = Phase
       /\ \/ o[2] = "turn" /\ mem.node.step = "interpret"
          \/ o[2] = mem.node.step /\ mem.node.at # "reconcile"

\* Every operation of the ledger is of the present attempt of its phase or of
\* an earlier one, and the unit is past it; what a node has produced leads to
\* the next attempts.
Fresh ==
    /\ ~stop
    /\ mem.node.at \in {"reconcile", "work", "end"}
    /\ mem.verdict # "terminated"
    /\ \A o \in DOMAIN rows :
         /\ o[3] <= mem.att[o[1]]
         /\ o[3] = mem.att[o[1]] => Behind(o)
    /\ stage \in {"worked", "stored"} =>
         IF mem.node.step = "turn" THEN draft.status # "cancelled"
         ELSE draft.att = AttAfter(Phase, draft.outcome)

\* Without a crash or a stop every reconciliation is of an operation that was
\* never started.
FreshInv == crashes = 0 /\ stops = 0 => Fresh

\* How an answer of a phase moves the attempts: a retry is a new attempt of its
\* phase, a repair one of itself and of every verification.
LeadsTo(att, p, outcome, next) ==
    CASE p \in Repairs
           -> \A q \in Phases : /\ next[q] >= att[q]
                                /\ q \in Verifiers \cup {p} => next[q] > att[q]
      [] p \notin Repairs /\ outcome = "retry"
           -> next[p] = att[p] + 1 /\ \A q \in Phases \ {p} : next[q] = att[q]
      [] OTHER -> \A q \in Phases : next[q] = att[q]

\* An operation the unit may still look up again.
Current(g, o) ==
    o[3] = g.att[o[1]] /\ (o[1] \in Preparation => o[1] = g.node.phase)

\* The completion of the unit is recorded, about the workspace as it is.
Closed(g) ==
    /\ g.op \in DOMAIN rows /\ g.op \in DOMAIN arts
    /\ g.op[1] = "complete_generation"
    /\ rows[g.op].status = "COMPLETED"
    /\ arts[g.op].fp = ws

\* What the ledger holds is no later than the graph state, and a result that
\* may be restored continues where the graph state is; a unit that ended with
\* a recorded completion has its verdict from it.
Continues(g) ==
    /\ \A o \in DOMAIN rows :
         /\ o[3] <= g.att[o[1]]
         /\ g.node.phase \in Preparation => Place(o[1]) <= Place(g.node.phase)
         /\ o[1] = "review_equivalent_mutants"
              => g.node.phase \in {"review_equivalent_mutants", "complete_generation"}
    /\ \A o \in DOMAIN arts : o[2] # "turn" /\ Current(g, o) =>
         /\ LeadsTo(g.att, o[1], arts[o].outcome, arts[o].att)
         /\ o[1] \in Repairs => g.node.phase = o[1] /\ g.node.step = "interpret"
    /\ g.node.at = "pause" => g.node.step = "turn"
    /\ g.node.at \in {"work", "rehydrate"} => g.op[3] = g.att[g.node.phase]
    /\ g.node.at = "work" /\ g.node.step # "turn"
         => rows[g.op].status \in {"STARTED", "COMPLETED"}
    /\ g.node.at = "terminate" => ~Closed(g)
    /\ g.node.at = "end" /\ Closed(g) => arts[g.op].outcome = g.verdict

\* The unit never goes back, and an invocation works on an open product.
UnitInv ==
    /\ Continues(mem) /\ Continues(prior)
    /\ \A p \in Phases : prior.att[p] <= mem.att[p]
    /\ Phase \in Preparation => prior.node.phase \in Preparation
    /\ mem.node.at = "work" => prior.att = mem.att /\ prior.node.step = mem.node.step
    /\ stage \in {"worked", "stored"} /\ mem.node.step # "turn"
         => /\ LeadsTo(mem.att, Phase, draft.outcome, draft.att)
            /\ draft.status = "phase"
    /\ stage = "stored" => arts[mem.op] = draft
    /\ \A o \in DOMAIN arts : o[2] # "turn"
         => arts[o].status = "phase" /\ rows[o].status \in {"STARTED", "COMPLETED"}
    /\ run \in {"running", "reused", "returned"} => product = "open"
    /\ run = "returned" => mem.node.at = "end" /\ Closed(mem)
--------------------------------------------------------------------------------
(***************************************************************************)
(* The cycle as a durable unit: what is done are the COMPLETED rows with   *)
(* their artifacts; the slots left behind are those of former attempts     *)
(* and, past the preparation, its own, as the older of the two states a    *)
(* crash may resume from sees them.                                        *)
(***************************************************************************)

UnitSlots == Phases \X Steps \X Nat

SlotOf(o) == <<o[1], o[2], o[3]>>

LeftBy(g) ==
    {s \in UnitSlots :
        s[3] < g.att[s[1]] \/ (s[1] \in Preparation /\ g.node.phase \notin Preparation)}

ResultOf(o) == [slot |-> SlotOf(o), fp |-> arts[o].fp, outcome |-> arts[o].outcome]

Recorded == {ResultOf(o) : o \in {o \in DOMAIN rows : rows[o].status = "COMPLETED"}}

Unit == INSTANCE DurableUnit WITH
    Slots <- UnitSlots,
    Closing <- {s \in UnitSlots : s[1] = "complete_generation"},
    files <- ws, done <- Recorded, behind <- LeftBy(prior), delivered <- product

\* Every behaviour of the cycle is one of a durable unit.
ImplementsUnit == Unit!USpec
================================================================================

------------------------- MODULE EquivalenceReview --------------------------
(***************************************************************************)
(* A CI repair whose mutation score no longer improves asks the agent once *)
(* whether the surviving mutants are equivalent to the program. The review *)
(* never passes a unit; the fix session's rerun of the gate may use it, if *)
(* the gate counts exactly the reviewed mutants and nothing else           *)
(* (uta/enforcement/equivalent_mutants.py, uta/testgen/                    *)
(* equivalence_review.py, the equivalence modules of the two languages,    *)
(* _try_grant_equivalent_mutants of uta/app/repair/session.py).            *)
(* The gate demands 100%: every mutant it counts as undetected fails it.   *)
(***************************************************************************)
EXTENDS Naturals, FiniteSets

CONSTANTS
    Mutants, Sources,
    Units,          \* the targets of the repair task by number of their row, worked on one at a time
    ReviewCap,      \* ci_equivalent_mutant_review_max
    MaxTurns,       \* bound: turns a unit's review may take, interrupted ones included
    MaxChanges      \* bound: changes of source files

ASSUME ReviewAssumption ==
    /\ IsFiniteSet(Mutants)
    /\ Units \subseteq Nat /\ ReviewCap \in Nat /\ MaxTurns \in Nat \ {0} /\ MaxChanges \in Nat

VARIABLES
    scene,     \* the language, what the mutants are and how the gate counts
    content,   \* source -> version of its text in the workspace
    ustep,     \* unit -> where its cycle stands
    asked,     \* unit -> the evidence prepared for its review
    turns,     \* unit -> review turns begun
    said,      \* unit -> its verdicts file
    urow,      \* unit -> status of its class row
    saved,     \* unit -> the review saved in its row
    rtask,     \* status of the repair task
    outcome,   \* what the fix session made of the rerun
    judged,    \* history: <<mutant, version>> an accepted turn itself called equivalent
    against    \* history: mutants the rerun's gate counted as undetected

evars == <<scene, content, ustep, asked, turns, said, urow, saved, rtask, outcome,
           judged, against>>

Unproven == [unproven |-> TRUE]
NoFile == [turn |-> 0]
NoReview == [outcome |-> "none"]

Statuses ==
    IF scene.lang = "java"
    THEN {"KILLED", "SURVIVED", "NO_COVERAGE", "NON_VIABLE", "TIMED_OUT"}
    ELSE {"KILLED", "SURVIVED", "NO_COVERAGE", "TIMED_OUT"}

---------------------------------------------------------------------------
(* How the gate counts.                                                    *)

\* What PIT calls detected, and the stricter reading.
Detected(reading) ==
    IF reading.killedOnly THEN {"KILLED"} ELSE {"KILLED", "TIMED_OUT", "NON_VIABLE"}

CountedRows(reading, status) ==
    {x \in Mutants : /\ reading.whole \/ x \in scene.inDiff
                     /\ ~(reading.drop /\ status[x] = "NON_VIABLE")}
Missed(reading, status) ==
    {x \in CountedRows(reading, status) : status[x] \notin Detected(reading)}

\* The plugin prints two numbers; its rule is not visible to the caller.
Printed(reading, status) ==
    <<Cardinality(CountedRows(reading, status) \ Missed(reading, status)),
      Cardinality(CountedRows(reading, status))>>

Readings == [whole : BOOLEAN, killedOnly : BOOLEAN, drop : BOOLEAN]

\* Of mutmut's answers a survivor and a timeout count against the score.
MissedByPython(status, scope) ==
    {x \in scope : status[x] \in {"SURVIVED", "TIMED_OUT"}}

\* What really fails the gate: over the whole diff for Java, over the unit's
\* own mutants while a Python unit is measured.
FailsGate(status, scope) ==
    IF scene.lang = "java" THEN Missed(scene.rule, status) ELSE MissedByPython(status, scope)

Fingerprints(keys) == {<<scene.file[x], content[scene.file[x]]>> : x \in keys}

Failures(reading, status) ==
    LET missed == Missed(reading, status)
        survivors == {x \in missed : status[x] = "SURVIVED"}
    IN  [keys |-> survivors, others |-> Cardinality(missed \ survivors)]

Proven(failures) ==
    [keys |-> failures.keys, others |-> failures.others, prints |-> Fingerprints(failures.keys)]

\* Mutant: a reading of the whole report that fits is believed.
WholeReportFirst(m) ==
    LET fitting == {r \in Readings : Printed(r, m.status) = Printed(scene.rule, m.status)}
        r == CHOOSE q \in fitting : q.whole \/ \A o \in fitting : ~o.whole
    IN  IF m.legible THEN Proven(Failures(r, m.status)) ELSE Unproven

\* Every reading that reproduces both printed numbers must name the same
\* survivors. A gate without a diff score, reports that do not parse or a
\* source that is not one tracked file leave them unproven.
java_scoring_survivors(m) ==
    LET fitting == {r \in Readings : Printed(r, m.status) = Printed(scene.rule, m.status)}
        answers == {Failures(r, m.status) : r \in fitting}
    IN  IF m.legible /\ Cardinality(answers) = 1
        THEN Proven(CHOOSE a \in answers : TRUE)
        ELSE Unproven

ListIsWhole(m, scope) ==
    Cardinality(m.listed) = Cardinality({x \in scope : m.status[x] = "SURVIVED"})

python_scoring_survivors(m, scope) ==
    IF m.legible /\ ~m.sampled /\ ListIsWhole(m, scope)
    THEN Proven([keys |-> m.listed,
                 others |-> Cardinality({x \in scope : m.status[x] = "TIMED_OUT"})])
    ELSE Unproven

scoring_survivors(m, scope) ==
    IF scene.lang = "java" THEN java_scoring_survivors(m) ELSE python_scoring_survivors(m, scope)

\* A measurement of the mutants in scope.
Measurements(scope, sampled) ==
    {m \in [status : [Mutants -> Statuses], listed : SUBSET scope,
            legible : BOOLEAN, sampled : sampled] :
       /\ \A x \in m.listed : m.status[x] = "SURVIVED"
       /\ scene.lang = "java" => m.listed = {} /\ ~m.sampled
       /\ \A x \in Mutants \ scope : m.status[x] = "KILLED"}
UnitScope(u) == IF scene.lang = "java" THEN Mutants ELSE {x \in Mutants : scene.owner[x] = u}

---------------------------------------------------------------------------
(* The review, inside the repair task.                                     *)

assess_eligibility(s) ==
    s # Unproven /\ s.others = 0 /\ s.keys # {} /\ Cardinality(s.keys) <= ReviewCap

EInit ==
    /\ scene \in [lang : {"java", "python"}, rule : Readings, inDiff : SUBSET Mutants,
                  file : [Mutants -> Sources], owner : [Mutants -> Units]]
    /\ scene.lang = "java" => \A x \in Mutants : /\ scene.file[x] = CHOOSE f \in Sources : TRUE
                                                 /\ scene.owner[x] = CHOOSE u \in Units : TRUE
    /\ scene.lang = "python" => /\ scene.rule = CHOOSE r \in Readings : TRUE
                                /\ scene.inDiff = Mutants
    /\ content = [f \in Sources |-> 0]
    /\ ustep = [u \in Units |-> "todo"]
    /\ asked = [u \in Units |-> Unproven]
    /\ turns = [u \in Units |-> 0]
    /\ said = [u \in Units |-> NoFile]
    /\ urow = [u \in Units |-> "PENDING"]
    /\ saved = [u \in Units |-> NoReview]
    /\ rtask = "RUNNING" /\ outcome = "none"
    /\ judged = {} /\ against = {}

Busy == \E u \in Units : ustep[u] \notin {"todo", "done"}

\* complete_generation: a delegated Java gate knows PASS and FAIL only.
RowStatus == IF scene.lang = "java" THEN "FAIL" ELSE "MUTATION_FAIL"

Close(u, status, review) ==
    /\ ustep' = [ustep EXCEPT ![u] = "done"]
    /\ urow' = [urow EXCEPT ![u] = status]
    /\ saved' = [saved EXCEPT ![u] = review]

\* A measurement after which the repair stops: the gate is met, the suite or
\* the coverage is short, or the mutation score made no progress. Then the
\* survivors are prepared for review with the tracked tree they belong to, or
\* the unit fails as before and no review is saved.
prepare_review(u) ==
    /\ rtask = "RUNNING" /\ ~Busy /\ ustep[u] = "todo"
    /\ \/ Close(u, "PASS", NoReview) /\ UNCHANGED asked
       \/ Close(u, "FAIL", NoReview) /\ UNCHANGED asked
       \/ \E m \in Measurements(UnitScope(u), {FALSE}) :
            LET s == scoring_survivors(m, UnitScope(u)) IN
            /\ FailsGate(m.status, UnitScope(u)) # {}
            /\ IF assess_eligibility(s)
               THEN /\ ustep' = [ustep EXCEPT ![u] = "prompt"]
                    /\ asked' = [asked EXCEPT ![u] =
                          [survivors |-> s, tree |-> content,
                           fails |-> FailsGate(m.status, UnitScope(u))]]
                    /\ UNCHANGED <<urow, saved>>
               ELSE Close(u, RowStatus, NoReview) /\ UNCHANGED asked
    /\ UNCHANGED <<scene, content, turns, said, rtask, outcome, judged, against>>

CleanVerdicts(u) == [said EXCEPT ![u] = NoFile]
render_prompt(u) ==
    /\ ustep[u] = "prompt" /\ turns[u] < MaxTurns
    /\ said' = CleanVerdicts(u)
    /\ turns' = [turns EXCEPT ![u] = @ + 1]
    /\ ustep' = [ustep EXCEPT ![u] = "turn"]
    /\ UNCHANGED <<scene, content, asked, urow, saved, rtask, outcome, judged, against>>

\* The agent writes its verdicts, of which the last version counts: an
\* equivalence without a region or an argument is no more than uncertain.
Opinions == {"equivalent", "unargued", "absent"}
AgentWrites(u) ==
    /\ ustep[u] = "turn" /\ said[u] = NoFile
    /\ \E o \in [Mutants -> Opinions] : said' = [said EXCEPT ![u] = [turn |-> turns[u], of |-> o]]
    /\ UNCHANGED <<scene, content, ustep, asked, turns, urow, saved, rtask, outcome, judged, against>>

Edit(f) ==
    /\ content[f] < MaxChanges
    /\ content' = [content EXCEPT ![f] = @ + 1]

\* It may edit a tracked file although it is told not to.
AgentEdits(u) ==
    /\ ustep[u] = "turn" /\ \E f \in Sources : Edit(f)
    /\ UNCHANGED <<scene, ustep, asked, turns, said, urow, saved, rtask, outcome, judged, against>>

\* The worker dies: the turn is asked again.
WorkerDies(u) ==
    /\ ustep[u] = "turn" /\ turns[u] < MaxTurns
    /\ ustep' = [ustep EXCEPT ![u] = "prompt"]
    /\ UNCHANGED <<scene, content, asked, turns, said, urow, saved, rtask, outcome, judged, against>>

\* One opinion for every mutant asked about, none for another, all of them
\* equivalent with an argument.
parse_verdicts(file, keys) ==
    file # NoFile /\ \A x \in Mutants : file.of[x] = IF x \in keys THEN "equivalent" ELSE "absent"

Reviewed(evidence) ==
    [outcome |-> "all_equivalent", survivors |-> evidence.survivors, tree |-> evidence.tree,
     fails |-> evidence.fails]

TreeUnchanged(u) == content = asked[u].tree
interpret(u) ==
    /\ ustep[u] = "turn"
    /\ \E completed \in BOOLEAN :
         LET keys == asked[u].survivors.keys
             good == TreeUnchanged(u) /\ completed /\ parse_verdicts(said[u], keys)
         IN  /\ Close(u, RowStatus, IF good THEN Reviewed(asked[u])
                                    ELSE [outcome |-> "rejected"])
             /\ judged' = judged \cup
                  {<<x, content[scene.file[x]]>> : x \in
                     {y \in keys : good /\ said[u].turn = turns[u]
                                   /\ said[u].of[y] = "equivalent"}}
    /\ asked' = [asked EXCEPT ![u] = Unproven]
    /\ said' = [said EXCEPT ![u] = NoFile]
    /\ turns' = [turns EXCEPT ![u] = 0]
    /\ UNCHANGED <<scene, content, rtask, outcome, against>>

\* Publishing another unit may rebase the branch onto a developer's change.
Rebased ==
    /\ ~Busy /\ outcome = "none" /\ \E f \in Sources : Edit(f)
    /\ UNCHANGED <<scene, ustep, asked, turns, said, urow, saved, rtask, outcome, judged, against>>

---------------------------------------------------------------------------
(* The task's end and the session's rerun.                                 *)

Failing == {u \in Units : urow[u] # "PASS"}

\* Only mutation failures remain and each was reviewed.
AllFailuresReviewed ==
    \A u \in Failing : urow[u] = "MUTATION_FAIL" /\ saved[u].outcome = "all_equivalent"

TaskEnds ==
    /\ rtask = "RUNNING" /\ \A u \in Units : ustep[u] = "done"
    /\ rtask' = IF AllFailuresReviewed THEN "COMPLETED" ELSE "FAILED"
    /\ UNCHANGED <<scene, content, ustep, asked, turns, said, urow, saved, outcome, judged, against>>

\* dict.update over the rows: of two reviews of one file the later row's
\* print stands.
ReviewedPrints(us) ==
    {p \in UNION {saved[u].survivors.prints : u \in us} :
       LET f == p[1]
           of == {u \in us : \E q \in saved[u].survivors.prints : q[1] = f}
       IN  p \in saved[CHOOSE u \in of : \A v \in of : v <= u].survivors.prints}

\* Tests and coverage pass, and nothing but the reviewed mutants fails the gate.
SameSurvivors(fresh, us) == fresh.keys = UNION {saved[u].survivors.keys : u \in us}
SamePrints(fresh, us) == fresh.prints = ReviewedPrints(us)

decide_grant(us, fresh, flags) ==
    /\ us # {} /\ \A u \in us : saved[u].outcome = "all_equivalent"
    /\ flags.tests /\ flags.coverage
    /\ fresh # Unproven
    /\ fresh.others = 0 /\ \A u \in us : saved[u].survivors.others = 0
    /\ SameSurvivors(fresh, us)
    /\ SamePrints(fresh, us)

\* The gate over the whole diff. A pass is green; a failure is excused when
\* the saved reviews allow it and fails the session otherwise.
GateFailureFlags == [known : BOOLEAN, tests : BOOLEAN, coverage : BOOLEAN]
Rerun ==
    /\ rtask = "COMPLETED" /\ outcome = "none" /\ Failing # {}
    /\ \E m \in Measurements(Mutants, BOOLEAN) :
       \E flags \in GateFailureFlags :
         LET fails == FailsGate(m.status, Mutants)
             fresh == scoring_survivors(m, Mutants)
         IN  /\ against' = fails
             /\ outcome' = IF fails = {} /\ flags.tests /\ flags.coverage THEN "green"
                           ELSE IF flags.known /\ decide_grant(Failing, fresh, flags)
                           THEN "passed_with_equivalent_mutants" ELSE "rerun_failed"
    /\ UNCHANGED <<scene, content, ustep, asked, turns, said, urow, saved, rtask, judged>>

ENext ==
    \/ \E u \in Units : \/ prepare_review(u) \/ render_prompt(u) \/ AgentWrites(u)
                        \/ AgentEdits(u) \/ WorkerDies(u) \/ interpret(u)
    \/ Rebased \/ TaskEnds \/ Rerun

ESpec == EInit /\ [][ENext]_evars

---------------------------------------------------------------------------
(* Properties.                                                             *)

\* A review may only excuse what it saw: when a unit is saved as reviewed
\* all-equivalent, every mutant the gate counted against it had survived and
\* was called equivalent by a completed turn that was asked about it, on the
\* text of the file as it was measured.
ReviewIsWhole ==
    \A u \in Units : saved[u].outcome = "all_equivalent" =>
        \A x \in saved[u].fails : <<x, saved[u].tree[scene.file[x]]>> \in judged
=============================================================================

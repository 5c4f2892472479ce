--------------------------- MODULE MutationRounds ---------------------------
(***************************************************************************)
(* The brief of a Python mutation repair: a measurement leaves mutants     *)
(* that were not killed, they are grouped by the symbol they are in, large *)
(* groups are cut, the groups are ranked, the round's groups are chosen    *)
(* twice, once for the diffs that are fetched and once for the prompt, and *)
(* a turn of the agent leads to the next measurement                       *)
(* (uta/language/python/phases.py, uta/language/python/mutation_context.py,*)
(* uta/enforcement/mutation_repair.py, uta/enforcement/mutation_roi.py).   *)
(* A mutant is its place in the file, a symbol its place in name order.    *)
(***************************************************************************)
EXTENDS Naturals, Sequences, FiniteSets

CONSTANTS
    SymbolOf,        \* mutant -> the symbols around its line, innermost first
    Outcomes,        \* what a measurement makes of a mutant
    Efforts,         \* symbol -> its scored effort, for the scored ones
    GroupsPerRound,  \* mutation_repair_groups_per_round
    BatchMax,        \* python_mutation_repair_batch_max_survivors
    SplitThreshold,  \* python_mutation_repair_split_threshold
    DiffLimit,       \* python_mutation_repair_exact_diff_limit
    PerSymbol,       \* python_mutant_diff_limit_per_symbol
    HardCap          \* repair turns of the phase

ASSUME RoundsAssumption ==
    /\ {GroupsPerRound, BatchMax, DiffLimit} \subseteq Nat \ {0}
    /\ {SplitThreshold, PerSymbol, HardCap} \subseteq Nat
    /\ Outcomes \subseteq {"killed", "survived", "timeout", "suspicious"}
    /\ IsFiniteSet(DOMAIN SymbolOf) /\ DOMAIN SymbolOf \subseteq Nat
    /\ SymbolOf \in [DOMAIN SymbolOf -> Seq(Nat)] /\ Efforts \in [DOMAIN Efforts -> Nat]

VARIABLES
    mstep,     \* "measure", "turn" or "over"
    statuses,  \* mutant -> what the last measurement made of it
    known,     \* how the timed out ones are known: "exact", "order" or "none"
    scored,    \* whether the state has the efforts of its methods
    attempt,   \* repair turns taken
    brief      \* what the last measurement prepared, or NoBrief

uvars == <<mstep, statuses, known, scored, attempt, brief>>
MutantIds == DOMAIN SymbolOf
Module == 0
NoBrief == [groups |-> {}, named |-> {}, paths |-> {}, kind |-> "none", survived |-> 0,
            noProgress |-> FALSE]

UInit ==
    /\ mstep = "measure" /\ attempt = 0 /\ brief = NoBrief
    /\ statuses = [m \in MutantIds |-> "killed"]
    /\ known = "exact" /\ scored \in BOOLEAN

-----------------------------------------------------------------------------
\* The mutants to repair. Of the ones that timed out the summary has only the
\* number: the plan tells which, by status or, failing that, by order.
With(s, st) == {m \in MutantIds : st[m] = s}
\* The place of a mutant among others, from 0: lists are in the order of the file.
Place(m, set) == Cardinality({x \in set : x < m})
Firsts(n) == {m \in MutantIds : Place(m, MutantIds) < n}
TimeoutOrSuspicious(st, how) ==
    LET slow == With("timeout", st) \cup With("suspicious", st)
    IN CASE how = "none" -> {}
         [] how = "exact" -> slow
         [] how = "order" -> Firsts(Cardinality(slow))
ToRepair(st, how) == With("survived", st) \cup TimeoutOrSuspicious(st, how)
FailureCount(st) == Cardinality({m \in MutantIds : st[m] # "killed"})

SymbolForLine(m) == IF SymbolOf[m] = <<>> THEN Module ELSE Head(SymbolOf[m])
GroupedBySymbol(set, symbol) == {m \in set : SymbolForLine(m) = symbol}

\* Mutant: as many batches as are full.
FullBatches(items) == Cardinality(items) \div BatchMax
\* An oversized group is cut into batches, which have names of their own.
BatchCount(items) == (Cardinality(items) + BatchMax - 1) \div BatchMax
BatchesOf(symbol, items) ==
    IF Cardinality(items) <= BatchMax
    THEN {[symbol |-> symbol, part |-> 0, of |-> 0, items |-> items]}
    ELSE {[symbol |-> symbol, part |-> i, of |-> BatchCount(items),
           items |-> {m \in items : Place(m, items) \div BatchMax = i - 1}] : i \in 1..BatchCount(items)}
Batches(set) == UNION {BatchesOf(s, GroupedBySymbol(set, s)) : s \in {SymbolForLine(m) : m \in set}}

\* Kills per effort in hundredths. The family of a group is not known yet when
\* it is ranked, and the name of a batch is not one a method was scored under.
MethodEffort(b) == IF b.of = 0 /\ b.symbol \in DOMAIN Efforts THEN Efforts[b.symbol] ELSE 2
FamilyEffort(b) == MethodEffort(b) + 1
Size(b) == Cardinality(b.items)
MutationRoi(b) == (200 * Size(b) + FamilyEffort(b)) \div (2 * FamilyEffort(b))
Ranked(b) == IF scored THEN MutationRoi(b) ELSE 0

Before(b, c) ==
    \/ Ranked(b) > Ranked(c)
    \/ /\ Ranked(b) = Ranked(c)
       /\ \/ Size(b) > Size(c)
          \/ /\ Size(b) = Size(c)
             /\ b.symbol < c.symbol \/ (b.symbol = c.symbol /\ b.part < c.part)
\* The groups of the first n places.
OrderedGroups(groups, n) == {b \in groups : Cardinality({c \in groups : Before(c, b)}) < n}

\* The first round takes every group, a later one the best few.
Selected(groups, n) ==
    IF n <= 1 \/ Cardinality(groups) <= GroupsPerRound THEN groups ELSE OrderedGroups(groups, GroupsPerRound)

\* The groups whose diffs are fetched, from the plan of this attempt.
DraftSelected(groups, n) == Selected(groups, n)

\* Representatives of a group that is not selected move on with every visit.
VisitAttempt(n, groups, split) ==
    IF split THEN ((n - 1) \div Cardinality(groups)) + 1 ELSE n
Representatives(items, visit) ==
    LET all == Cardinality(items)
        size == IF PerSymbol < all THEN PerSymbol ELSE all
        start == ((visit - 1) * size) % all
    IN {m \in items : (Place(m, items) + all - start) % all < size}

\* Whether the last turn moved anything. What is left is counted with the ones
\* that timed out, what there was before without them.
NoProgress(latest) ==
    attempt > 0 /\ latest >= brief.survived

\* The groups of a measurement, each with what the agent is shown of it.
IsSplit(st) == FailureCount(st) > SplitThreshold
RepairGroups(st, how) ==
    LET n == attempt + 1
        batches == Batches(ToRepair(st, how))
        drafted == DraftSelected(batches, n)
        Diffed(b) == ~IsSplit(st) \/ b \in drafted
        Shown(b) == IF Diffed(b) THEN {m \in b.items : Place(m, b.items) < DiffLimit}
                    ELSE Representatives(b.items, VisitAttempt(n, batches, IsSplit(st)))
    IN {[batch |-> b, diffed |-> Diffed(b), shown |-> Shown(b)] : b \in batches}

\* A file for every group where there is too much for one.
GroupFiles(st, groups) == IF IsSplit(st) THEN {g.batch : g \in groups} ELSE {}

RoundPlan(st, groups) ==
    LET named == Selected({g.batch : g \in groups}, attempt + 1)
    IN [groups |-> groups, named |-> named,
        paths |-> GroupFiles(st, groups) \cap named,
        kind |-> IF attempt = 0 THEN "full_roi" ELSE "focused_roi",
        survived |-> Cardinality(With("survived", st)),
        noProgress |-> NoProgress(FailureCount(st))]

\* Where making the brief fails the turn sees the score only.
Briefs(st, how) ==
    {RoundPlan(st, RepairGroups(st, how)),
     [NoBrief EXCEPT !.survived = Cardinality(With("survived", st))]}

\* One measurement. It is briefed when a turn can still follow.
MeasureMutation(st, how) ==
    /\ mstep = "measure"
    /\ statuses' = st /\ known' = how
    /\ IF FailureCount(st) = 0 \/ attempt >= HardCap
       THEN mstep' = "over" /\ brief' = NoBrief
       ELSE mstep' = "turn" /\ brief' \in Briefs(st, how)
    /\ UNCHANGED <<scored, attempt>>

\* Of a measurement the next one asks how many survived, and no more.
FixMutation ==
    /\ mstep = "turn" /\ mstep' = "measure" /\ attempt' = attempt + 1
    /\ brief' = [NoBrief EXCEPT !.survived = brief.survived]
    /\ statuses' = [m \in MutantIds |-> "killed"] /\ known' = "exact"
    /\ UNCHANGED scored

UNext ==
    \/ \E st \in [MutantIds -> Outcomes],
          how \in {"exact", "order", "none"} : MeasureMutation(st, how)
    \/ FixMutation

USpec == UInit /\ [][UNext]_uvars

-----------------------------------------------------------------------------
\* The brief of a turn is about the measurement before it and accounts for it:
\* every mutant that has to be repaired is in one group and no group is larger
\* than a batch, in the first round as in later ones; the groups the prompt
\* names are there whenever something failed, and are the ones whose diffs
\* were fetched (build_python_mutation_repair_context, plan_mutation_repair).
TurnIsBriefed ==
    mstep = "turn" /\ brief.kind # "none" =>
        LET batches == {g.batch : g \in brief.groups}
        IN /\ \A m \in With("survived", statuses) :
                 Cardinality({b \in batches : m \in b.items}) = 1
           /\ known = "exact" =>
                 \A b \in batches : \A m \in b.items : statuses[m] # "killed"
           /\ \A b \in batches : Size(b) <= BatchMax
           /\ batches # {} => brief.named # {}
           /\ brief.named \subseteq {g.batch : g \in {h \in brief.groups : h.diffed}}
=============================================================================

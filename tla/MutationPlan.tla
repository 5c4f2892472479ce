----------------------------- MODULE MutationPlan -----------------------------
(***************************************************************************)
(* What the Python gate mutates: from the syntax tree of a changed file to *)
(* the lines mutmut is let loose on, and from those lines to the passes    *)
(* that generate them (tools/python-enforcement: mutation_candidates.py,   *)
(* mutation_policy.py, mutation_batching.py, mutation.py).                 *)
(*                                                                         *)
(* A file is a record                                                      *)
(*   tree  : its nodes in the order of ast.walk (outer nodes first),       *)
(*           each [kind, first, last, place, inUnit]                       *)
(*   unit  : the copy unit of each line that is in one: a top-level        *)
(*           function or a method of a top-level class                     *)
(*   bytes : the size of each unit's source                                *)
(*   order : the place of each unit in the order of names                  *)
(*                                                                         *)
(* A node's kind is the shape the planner tells apart; place is where the  *)
(* node stands when that excludes it ("code" when it does not), and inUnit *)
(* says that mutmut can name a mutant of it.                               *)
(***************************************************************************)
EXTENDS Integers, Sequences, FiniteSets, FiniteSetsExt, SequencesExt

CONSTANTS
    Budget,       \* UTA_PYTHON_MUTATION_GENERATION_MAX_GENERATED_BYTES
    MaxBatches,   \* UTA_PYTHON_MUTATION_GENERATION_MAX_BATCHES
    HardCap       \* GENERATION_HARD_CAP (0: none)

ASSUME PlanAssumption == Budget \in Nat /\ MaxBatches \in Int /\ HardCap \in Nat

-----------------------------------------------------------------------------
(* Which nodes are worth a mutant.                                         *)

\* Where a node of each kind cannot be mutated to any use.
ExcludedPlaces(kind) ==
    CASE kind = "binop" -> {"annotation"}
      [] kind = "call" -> {"decorator", "raise", "bare"}
      [] kind = "constant" -> {"annotation", "docstring", "decorator", "raise", "fstring"}
      [] kind = "assign" -> {"class_field"}
      [] OTHER -> {}

CandidateShapes == {"compare", "truthy", "boolop", "binop", "call", "constant", "assign"}

CandidateShape(node) ==
    node.kind \in CandidateShapes /\ node.place \notin ExcludedPlaces(node.kind)

\* Statements that wire a module together when it is loaded: assignments of
\* application objects, loggers and settings, module-level calls, registrations.
WiringReason(kind) ==
    CASE kind \in {"glue_assign", "registration"} -> "generated_framework_glue"
      [] kind = "logger_assign" -> "low_value_logging"
      [] kind \in {"config_assign", "init_call"} -> "pure_config_constant"
      [] OTHER -> ""

\* A bare call of a method that only logs or counts (_side_effect_reason).
SideEffectReason(kind) ==
    CASE kind = "log_call" -> "low_value_logging"
      [] kind = "metrics_call" -> "metrics_only"
      [] OTHER -> ""

\* The first rule of _suppression_reason_for_node that applies, "" if none:
\* the rules are about nodes of different kinds, but for the last.
SuppressionReason(node) ==
    CASE node.kind = "import" -> "import_wiring"
      [] node.kind \in {"nested_def", "empty_return", "guard", "pass", "default"}
            -> "mutation_tool_unsupported"
      [] node.kind = "decorated_def" -> "generated_framework_glue"
      [] node.kind = "scheduler_sleep" -> "async_scheduler_loop"
      [] WiringReason(node.kind) # "" -> WiringReason(node.kind)
      [] SideEffectReason(node.kind) # "" -> SideEffectReason(node.kind)
      [] CandidateShape(node) /\ ~node.inUnit -> "mutation_tool_unsupported"
      [] OTHER -> ""

\* The reason of a line is that of the first node, in walk order, whose span
\* holds the line: the span of a guard or of a decorated function is its body.
LineReason(file, line) ==
    LET covers(node) == line \in node.first .. node.last /\ SuppressionReason(node) # ""
        i == SelectInSeq(file.tree, covers)
    IN  IF i = 0 THEN "" ELSE SuppressionReason(file.tree[i])

Suppressed(file, changed) == {line \in changed : LineReason(file, line) # ""}

\* The mutmut operators a node offers.
Operators(kind) ==
    CASE kind = "compare" -> {"comparison_boundary", "comparison_negation"}
      [] kind \in {"truthy", "boolop"} -> {"boolean_operator"}
      [] kind = "binop" -> {"math_operator"}
      [] kind = "call" -> {"call_argument"}
      [] kind = "constant" -> {"constant_value"}
      [] OTHER -> {}

Priority(operator) ==
    CASE operator \in {"comparison_boundary", "comparison_negation", "boolean_operator"} -> 100
      [] operator \in {"math_operator", "call_argument"} -> 90
      [] operator = "constant_value" -> 80
      [] OTHER -> 20

\* _operator_hints_for_line: a statement counts only when nothing better does.
OperatorHints(file, line) ==
    LET here == {node \in Range(file.tree) : node.first = line /\ node.inUnit}
        good == UNION {Operators(node.kind) : node \in
                         {n \in here : n.place \notin ExcludedPlaces(n.kind)}}
        stmt == \E node \in here : node.kind = "assign" /\ CandidateShape(node)
    IN  IF good = {} /\ stmt THEN {"statement"} ELSE good

-----------------------------------------------------------------------------
(* Which lines are selected.                                               *)

\* An opportunity stands for its line: the best operator the line offers
\* (select_one_opportunity_per_line).
LinePriority(file, line) == Max({Priority(op) : op \in OperatorHints(file, line)})

Eligible(file, changed) ==
    {line \in changed \ Suppressed(file, changed) : OperatorHints(file, line) # {}}

\* Ties in priority are broken by a digest: any choice of HardCap lines that
\* leaves out no line better than one it keeps.
Capped(file, lines) ==
    IF HardCap = 0 \/ Cardinality(lines) <= HardCap THEN {lines}
    ELSE {kept \in kSubset(HardCap, lines) :
            \A k \in kept, o \in lines \ kept : LinePriority(file, k) >= LinePriority(file, o)}

\* A sampling policy may only narrow: as many lines back as given is no change.
Sampled(lines, sample) ==
    IF Cardinality(sample) >= Cardinality(lines) THEN lines ELSE lines \cap sample

-----------------------------------------------------------------------------
(* Which passes generate them.                                             *)

\* mutation_units_from_source: lines outside every unit are dropped.
MutationUnits(file, lines) ==
    LET inside == lines \cap DOMAIN file.unit
        of(u) == {line \in inside : file.unit[line] = u}
    IN  {[symbol |-> u, bytes |-> file.bytes[u], lines |-> of(u),
          priority |-> Max({LinePriority(file, line) : line \in of(u)})]
           : u \in {file.unit[line] : line \in inside}}

GeneratedBytes(bytes, n) == (n + 1) * bytes

Lowest(n, lines) == CHOOSE low \in kSubset(n, lines) : \A x \in low, y \in lines \ low : x < y

\* The lines of a unit that fit the budget, at least one of them.
FittingLines(unit) ==
    LET fit == Budget \div unit.bytes - 1
    IN  IF unit.bytes > 0 /\ Budget > 0 /\ fit < Cardinality(unit.lines)
        THEN Lowest(Max({1, fit}), unit.lines) ELSE unit.lines

\* Mutant of Place: a unit that is not placed goes unreported.
PlaceSilently(packing, unit) ==
    LET lines == FittingLines(unit)
        est == GeneratedBytes(unit.bytes, Cardinality(lines))
    IN  IF Len(packing.bins) < Max({1, MaxBatches})
        THEN [packing EXCEPT !.bins = Append(@, [used |-> est, lines |-> lines])]
        ELSE packing

\* First-fit of one unit into the bins packed so far.
Place(packing, unit) ==
    LET lines == FittingLines(unit)
        est == GeneratedBytes(unit.bytes, Cardinality(lines))
        roomy(bin) == est <= Budget /\ bin.used + est <= Budget
        i == SelectInSeq(packing.bins, roomy)
        cut == packing.capped \cup (unit.lines \ lines)
    IN  IF i # 0
        THEN [packing EXCEPT !.capped = cut,
                             !.bins[i] = [used |-> @.used + est, lines |-> @.lines \cup lines]]
        ELSE IF Len(packing.bins) < Max({1, MaxBatches})
        THEN [packing EXCEPT !.capped = cut,
                             !.bins = Append(@, [used |-> est, lines |-> lines])]
        ELSE [packing EXCEPT !.capped = cut, !.trimmed = @ \cup lines]

\* The elements of S in the order a relation ranks them.
InOrder(S, before) ==
    [i \in 1..Cardinality(S) |->
       CHOOSE x \in S : Cardinality({y \in S : <<y, x>> \in before}) = i - 1]

\* Units by priority, then by name.
Sooner(file, units) ==
    {pair \in units \X units :
       LET u == pair[1]
           v == pair[2]
       IN  \/ u.priority > v.priority
           \/ u.priority = v.priority /\ file.order[u.symbol] < file.order[v.symbol]}

\* Batches by their lowest line.
Lower(bins) == {pair \in bins \X bins : Min(pair[1].lines) < Min(pair[2].lines)}

NoPacking == [bins |-> <<>>, capped |-> {}, trimmed |-> {}]

\* The units of a sequence placed one after another.
Packed(order) ==
    LET packing[n \in 0..Len(order)] ==
          IF n = 0 THEN NoPacking ELSE Place(packing[n - 1], order[n])
    IN  packing[Len(order)]

\* partition_units_into_batches.
Partition(file, lines) ==
    LET units == MutationUnits(file, lines)
        packing == Packed(InOrder(units, Sooner(file, units)))
        bins == Range(packing.bins)
    IN  [packing EXCEPT !.bins = InOrder(bins, Lower(bins))]

\* _generation_passes: a partition of at most one batch runs the whole policy
\* in one pass; otherwise one pass per batch, on the batch's lines.
GenerationPasses(file, lines) ==
    LET bins == Partition(file, lines).bins
    IN  IF Len(bins) <= 1 THEN <<lines>> ELSE [i \in DOMAIN bins |-> bins[i].lines]

\* Lines the evidence names as left out: _partition_warnings and the
\* aggregated plan, which one pass does not have.
ReportedOmissions(file, lines) ==
    LET packing == Partition(file, lines)
    IN  IF Len(packing.bins) <= 1 THEN {} ELSE packing.capped \cup packing.trimmed
===============================================================================

--------------------------- MODULE MCVerification ---------------------------
(***************************************************************************)
(* Python verification and the repairs it leads to, in seven parts of      *)
(* which one runs while the others rest: the verification of a target, the *)
(* command it starts, the tree the mutants run in, the report made of it   *)
(* all, the rounds of a mutation repair, the review of its survivors, and  *)
(* the closing of the session that asked for the repair.                   *)
(***************************************************************************)
EXTENDS PythonVerification, ToolProcess, MutantWorkspace, PythonReport,
        MutationRounds, EquivalenceReview, RepairClosure

VARIABLE part    \* the part that runs

MCFallbacks == <<"service", "self">>

MCSource == <<"pkg", "t">>
MCFiles == {<<"pkg", "t">>, <<"pkg", "u">>, <<"tests", "u">>, <<"pkg", "conftest">>,
            <<"pkg", Init_>>, <<Init_>>, <<"pkg", "sub", Init_>>, <<"pkg", "sub", "h">>,
            <<"lib", "h">>, <<"data", "x.cfg">>}
MCTests == {{<<"pkg", "u">>}, {<<"tests", "u">>}}
MCImporters == {<<"pkg", "t">>, <<"pkg", "u">>, <<"pkg", "conftest">>, <<"pkg", Init_>>,
                <<"pkg", "sub", Init_>>}
MCNames == {<<"sub", "h">>, <<"lib", "h">>, <<"pkg">>}
MCOpened == {<<>>, <<"data", "x.cfg">>, <<"x.cfg">>, <<"pkg">>}
MCData == {<<"data", "x.cfg">>}
\* Three mutants in one function and one at module level.
MCSymbolOf == <<<<1>>, <<>>, <<1>>, <<1>>>>
MCEfforts == <<5, 1>>
MCModules == {<<"a">>, <<"a", "b">>}

\* Scenes and requests up to the names of mutants, sources and targets, and up
\* to readings that count the same rows; fixtures only where they are looked for.
\* Bound: what one of the files may import.
Named ==
    LET x == CHOOSE m \in Mutants : TRUE
        f == CHOOSE s \in Sources : TRUE
        g == CHOOSE s \in GateTargets : TRUE
    IN  /\ part = "review" => /\ scene.file[x] = f
                             /\ \A y \in Mutants : scene.owner[x] <= scene.owner[y]
                             /\ IF scene.inDiff \in {{}, Mutants} THEN scene.lang = "java" => scene.rule.whole
                                ELSE x \in scene.inDiff
        /\ part = "closure" => /\ named # {} => g \in named
                               /\ named \in {{}, GateTargets} /\ record.lines # {} => g \in record.lines
        /\ part = "tree" =>
              /\ <<"tests", "u">> \in tests => fixtures
              /\ imports[<<"pkg", "u">>] \in {<<>>, <<"lib", "h">>}

RestVerification ==
    /\ env = CHOOSE e \in Requests : TRUE
    /\ tools = NoTools /\ python = Configured /\ overlay = NoOverlay /\ pc = "setup"
    /\ disk = Clean /\ mut = NoMut /\ result = Open /\ crashed = FALSE
RestCommand == budget = (CHOOSE b \in CommandTimeouts : TRUE) /\ PInit
RestTree ==
    /\ step = "idle" /\ imports = NoImports /\ fixtures = TRUE
    /\ tests = CHOOSE t \in TestChoices : TRUE
    /\ WInit
RestReport ==
    /\ request = [base |-> TRUE, changed |-> TRUE, tests |-> TRUE, sampled |-> TRUE,
                  kind |-> [t \in Targets |-> "code"]]
    /\ RInit

RestRounds == scored = FALSE /\ UInit
RestReview ==
    /\ scene = [lang |-> "python", rule |-> CHOOSE r \in Readings : TRUE, inDiff |-> Mutants,
                file |-> [x \in Mutants |-> CHOOSE f \in Sources : TRUE],
                owner |-> [x \in Mutants |-> CHOOSE u \in Units : TRUE]]
    /\ EInit
RestClosure ==
    /\ record = FailedGate(FALSE, [t \in GateTargets |-> Item("failed", "none", "none", FALSE)], {})
    /\ named = {} /\ QInit

\* One part starts from any of its initial states, the others rest.
MCInit ==
    /\ part \in {"verification", "command", "tree", "report", "rounds", "review", "closure"}
    /\ IF part = "verification" THEN Init ELSE RestVerification
    /\ IF part = "command" THEN PInit ELSE RestCommand
    /\ IF part = "tree" THEN WInit ELSE RestTree
    /\ IF part = "report" THEN RInit ELSE RestReport
    /\ IF part = "rounds" THEN UInit ELSE RestRounds
    /\ IF part = "review" THEN EInit ELSE RestReview
    /\ IF part = "closure" THEN QInit ELSE RestClosure
    /\ Named

MCNext ==
    /\ \/ part = "verification" /\ Next /\ UNCHANGED <<pvars, wvars, rvars, uvars, evars, qvars>>
       \/ part = "command" /\ PNext /\ UNCHANGED <<vars, wvars, rvars, uvars, evars, qvars>>
       \/ part = "tree" /\ WNext /\ UNCHANGED <<vars, pvars, rvars, uvars, evars, qvars>>
       \/ part = "report" /\ RNext /\ UNCHANGED <<vars, pvars, wvars, uvars, evars, qvars>>
       \/ part = "rounds" /\ UNext /\ UNCHANGED <<vars, pvars, wvars, rvars, evars, qvars>>
       \/ part = "review" /\ ENext /\ UNCHANGED <<vars, pvars, wvars, rvars, uvars, qvars>>
       \/ part = "closure" /\ QNext /\ UNCHANGED <<vars, pvars, wvars, rvars, uvars, evars>>
    /\ UNCHANGED part

MCSpec == MCInit /\ [][MCNext]_<<vars, pvars, wvars, rvars, uvars, evars, qvars, part>>
=============================================================================

------------------------------ MODULE MCGates ------------------------------
(***************************************************************************)
(* The gates of both languages for TLC, in four parts of which one runs    *)
(* while the others rest: the Java gate, on three modules, six test        *)
(* classes, of which two are red and one hangs or two hang, and four       *)
(* diffs; the delegated gate of a Java repair, for six units; the setup of *)
(* a Java checkout, from five root build files and three others; and the   *)
(* Python gate, on seven lists of changed files.                           *)
(***************************************************************************)
EXTENDS JavaGate, DelegatedGate, JavaBaseline, PythonGate

VARIABLE side    \* the part that runs

-----------------------------------------------------------------------------
(* Java.                                                                   *)

Class(module, simple, names, target) ==
    [module |-> module, simple |-> simple, names |-> names, target |-> target,
     mentions |-> {target} \ {""}, standard |-> TRUE, argument |-> TRUE]

\* Module 1 is upstream of 2, 2 of 3.  P is in module 2, Q in module 3; both
\* have a class BTest; PTest names both, and A is about Q in a module that does
\* not change, under a name that cannot be said to Maven.
MCSuite ==
    [A |-> [Class(1, "AQTest", {"Q"}, "") EXCEPT !.mentions = {"Q"}, !.argument = FALSE],
     P |-> Class(2, "PTest", {"P", "Q"}, "P"),
     B2 |-> Class(2, "BTest", {}, ""),
     B3 |-> Class(3, "BTest", {"Q"}, ""),
     D |-> Class(3, "QTest", {"Q"}, "Q"),
     N |-> [Class(2, "NightlyPIT", {}, "") EXCEPT !.mentions = {"P"}, !.standard = FALSE]]

MCProduction == [P |-> 2, Q |-> 3]
MCUpstream == <<{}, {1}, {1, 2}>>

Diff(tests, production, obligated) ==
    [known |-> TRUE, tests |-> tests, production |-> production, obligated |-> obligated]

MCDiffs ==
    {Diff({"P"}, {"P", "Q"}, {"P"}), Diff({}, {"Q"}, {"Q"}), Diff({"D"}, {}, {}),
     [Diff({}, {}, {}) EXCEPT !.known = FALSE]}

\* Units: one changed class of two or both, under a command that selects nothing
\* or somebody else's test; a class that did not change; no changed class, and a
\* diff nobody knows.
Unit(change_, batch_, own_) == [change |-> change_, batch |-> batch_, own |-> own_]
Stale == [tests |-> {"A"}, sources |-> {"Q"}, modules |-> {3}]
MCUnits ==
    LET both == Diff({"P"}, {"P", "Q"}, {"P"})
    IN  {Unit(both, {"P"}, Stale), Unit(both, {"P", "Q"}, NoSelectors),
         Unit(Diff({}, {"Q"}, {"Q"}), {"Q"}, NoSelectors), Unit(Diff({}, {"Q"}, {"Q"}), {"P"}, NoSelectors),
         Unit(Diff({"P"}, {}, {}), {"P"}, Stale),
         Unit([Diff({}, {}, {}) EXCEPT !.known = FALSE], {"P"}, Stale)}

NoBuddy == [count |-> 0, version |-> "none"]
Bare == [mockito |-> "none", mprop |-> "none", bbprop |-> "none", inline |-> FALSE,
         bb |-> NoBuddy, managed |-> "none", props |-> TRUE, deps |-> TRUE, mgmt |-> FALSE,
         edited |-> FALSE, skips |-> FALSE]
MCRoots ==
    {Bare, [Bare EXCEPT !.mgmt = TRUE, !.mockito = "all", !.inline = TRUE],
     [Bare EXCEPT !.mprop = "all", !.mockito = "core", !.bb = [count |-> 1, version |-> "literal"]],
     [Bare EXCEPT !.mprop = "other", !.mockito = "core", !.mgmt = TRUE, !.managed = "literal"],
     [Bare EXCEPT !.props = FALSE, !.deps = FALSE]}
MCChildren ==
    {Bare,
     [Bare EXCEPT !.mockito = "one", !.props = FALSE, !.bb = [count |-> 1, version |-> "literal"]],
     [Bare EXCEPT !.skips = TRUE, !.mockito = "allInherited", !.inline = TRUE]}
MCTouched == {Child, OldTest, Shim, Source}

-----------------------------------------------------------------------------
(* Python.                                                                 *)

Node(kind, top, bottom) ==
    [kind |-> kind, first |-> top, last |-> bottom, place |-> "code", inUnit |-> TRUE]

Test(stem, length) ==
    [canonical |-> FALSE, configured |-> FALSE, home |-> "any", stem |-> stem, symbols |-> 0,
     overlap |-> 1, refs |-> {"module"}, length |-> length]

\* Two functions: a comparison and a call in f, a boolean and a logged call in g.
TwoFunctions ==
    [tree |-> <<Node("compare", 1, 1), Node("call", 2, 2), Node("log_call", 4, 4),
                Node("boolop", 3, 3), Node("call", 4, 4)>>,
     unit |-> <<"f", "f", "g", "g">>, bytes |-> [f |-> 2, g |-> 2],
     order |-> [f |-> 1, g |-> 2], keyed |-> TRUE]

\* Three functions, the last of them too large for the budget: with two batches
\* one function is trimmed, and h is cut to one line.
ThreeFunctions ==
    [tree |-> <<Node("constant", 1, 1), Node("binop", 2, 2), Node("compare", 3, 3), Node("call", 4, 4)>>,
     unit |-> <<"f", "g", "h", "h">>, bytes |-> [f |-> 3, g |-> 3, h |-> 3],
     order |-> [f |-> 1, g |-> 2, h |-> 3], keyed |-> TRUE]

\* One function over the budget, its second line inside a bare guard.
OneFunction ==
    [tree |-> <<Node("guard", 2, 3), Node("compare", 1, 1), Node("constant", 3, 3),
                Node("assign", 4, 4)>>,
     unit |-> <<"f", "f", "f", "f">>, bytes |-> [f |-> 3], order |-> [f |-> 1], keyed |-> TRUE]

\* A file whose mutants mutmut names unlike the planner.
Misnamed == [OneFunction EXCEPT !.keyed = FALSE]

Changed(file, touched) ==
    [file |-> file, changed |-> touched, executable |-> 1..4, parses |-> TRUE,
     sampled |-> FALSE, imports |-> {"d1"}, manifests |-> <<"empty", "root">>,
     tests |-> {Test("equal", 1)}]

TargetA == [Changed(TwoFunctions, {1, 3, 4}) EXCEPT
        !.tests = {Test("equal", 1), [Test("token", 2) EXCEPT !.symbols = 1],
                   [Test("none", 3) EXCEPT !.refs = {}]}]
TargetB == [Changed(OneFunction, {4}) EXCEPT !.imports = {"d2"}]
TargetC == [Changed(ThreeFunctions, 1..4) EXCEPT !.manifests = <<"service">>,
        !.tests = {[Test("none", 1) EXCEPT !.canonical = TRUE]}]
TargetD == [Changed(OneFunction, {1, 4}) EXCEPT !.sampled = TRUE, !.manifests = <<>>]
Broken == [Changed(OneFunction, {1}) EXCEPT !.parses = FALSE]
Untested == [Changed(OneFunction, {1}) EXCEPT
               !.tests = {[Test("equal", 1) EXCEPT !.home = "elsewhere"]}]
Comment == [Changed(OneFunction, {1}) EXCEPT !.executable = {2, 3, 4}]

MCTargets ==
    [A |-> TargetA, B |-> TargetB, C |-> TargetC, D |-> TargetD, broken |-> Broken, untested |-> Untested,
     comment |-> Comment, misnamed |-> Changed(Misnamed, {1})]

MCWorklists ==
    {<<>>, <<"A", "B">>, <<"B", "D">>, <<"C">>, <<"D", "untested">>, <<"comment", "misnamed">>, <<"B", "broken">>}

MCManifests ==
    [root |-> [requires |-> {"d1", "d2"}, includes |-> {}],
     empty |-> [requires |-> {}, includes |-> {}],
     service |-> [requires |-> {}, includes |-> {"shared"}],
     shared |-> [requires |-> {"d1", "d3"}, includes |-> {"service"}]]

-----------------------------------------------------------------------------
RestGate == red = {} /\ hangs = {} /\ modern = FALSE /\ Init
RestBaseline ==
    /\ head = [f \in Files |-> IF f \in Poms THEN Bare ELSE AsHead] /\ work = head
    /\ pairs = FALSE /\ ci = FALSE /\ preserve = FALSE
    /\ BInit
RestDelegated ==
    /\ change = Diff({"P"}, {}, {})
    /\ disk = Classes /\ health = [test \in Classes |-> "good"] /\ DInit
RestPython == worklist = <<>> /\ GInit

MCInit ==
    \/ /\ side = "gate" /\ Init /\ Cardinality(red) + 2 * Cardinality(hangs) <= 4
       /\ RestDelegated /\ RestBaseline /\ RestPython
    \/ side = "delegated" /\ DInit /\ RestGate /\ RestBaseline /\ RestPython
    \/ side = "baseline" /\ BInit /\ RestGate /\ RestDelegated /\ RestPython
    \/ side = "python" /\ GInit /\ RestGate /\ RestDelegated /\ RestBaseline

MCNext ==
    /\ \/ side = "gate" /\ Next /\ UNCHANGED <<dvars, bvars, gvars>>
       \/ side = "delegated" /\ DNext /\ UNCHANGED <<vars, bvars, gvars>>
       \/ side = "baseline" /\ BNext /\ UNCHANGED <<vars, dvars, gvars>>
       \/ side = "python" /\ GNext /\ UNCHANGED <<vars, dvars, bvars>>
    /\ UNCHANGED side

MCSpec == MCInit /\ [][MCNext]_<<vars, dvars, bvars, gvars, side>>
=============================================================================

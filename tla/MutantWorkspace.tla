--------------------------- MODULE MutantWorkspace ---------------------------
(***************************************************************************)
(* The tree mutmut runs in, and the interpreter it reuses.  Mutants live   *)
(* under <repo>/mutants; beside the mutated target the gate copies exactly *)
(* the files the selected tests need: the active conftests, the import     *)
(* closure with its package initializers, and the data the code names.     *)
(* Then one interpreter runs phase after phase in that tree: modules of a  *)
(* phase and stubs its tests installed are purged before the next one, and *)
(* file-based loads of the target are redirected to the mutant.            *)
(* A path is a sequence of names; ".py" is implied.                        *)
(***************************************************************************)
EXTENDS Integers, Sequences, FiniteSets, FiniteSetsExt, SequencesExt

CONSTANTS Files,        \* the repository's files
          Source,       \* the target
          TestChoices,  \* the selections of tests to consider
          Importers,    \* files that have imports
          Names,        \* dotted module names that may be imported
          Opened,       \* paths a file may name in a literal
          DataFiles,    \* files that are not Python sources
          ModuleNames   \* names in sys.modules

\* No file has the path of a directory.
ASSUME TreeAssumption ==
    /\ Source \in Files /\ Importers \subseteq Files /\ DataFiles \subseteq Files
    /\ \A t \in TestChoices : t \subseteq Files
    /\ IsFiniteSet(Files)
    /\ \A f \in Files : f \in Seq(STRING) /\ f /= <<>>
    /\ \A f, g \in Files : ~IsStrictPrefix(f, g)

VARIABLES
    tests,     \* the selected test files
    imports,   \* the module each file imports (<<>>: none)
    fixtures,  \* whether the tests use, or an autouse marks, a conftest fixture
    opens,     \* the path each file names in a literal (<<>>: none)
    pending,   \* _project_import_closure: the queue
    visited,
    deps,      \* its result, in order of discovery
    copies,    \* the files copied beside the mutant
    step,
    sys,       \* sys.modules: where each module came from
    before,    \* the names loaded when the phase began
    loaded     \* how the last file-based load of a phase was answered

wvars == <<tests, imports, fixtures, opens, pending, visited, deps, copies, step,
           sys, before, loaded>>

Init_ == "__init__"
Excluded == {"tests", "test", "mutants", "build"}
Dir(p) == Front(p)

-----------------------------------------------------------------------------
(* The copy                                                                *)

\* _package_initializers: of every package above, the root's own excepted.
Initializers(p) ==
    LET above == {SubSeq(p, 1, n) : n \in 1..(Len(p) - 1)}
    IN  {q \in {Append(d, Init_) : d \in above} : q \in Files}

\* _pytest_conftest_paths and _active_pytest_conftest_paths: those on a
\* test's ancestry, the root's included; package-local ones only when used.
Conftests ==
    LET above(t) == {SubSeq(t, 1, n) : n \in 0..(Len(t) - 1)}
        all == {c \in {Append(d, "conftest") : d \in UNION {above(t) : t \in tests}} : c \in Files}
    IN  IF (\E t \in tests : t[1] \in {"test", "tests"}) \/ fixtures THEN all ELSE {}

\* _resolve_project_module: at each ancestor of the importer, nearest first,
\* then at the root and under src; the module before the package.
Resolve(importer, name) ==
    LET dir == Dir(importer)
        roots == [n \in 1..Len(dir) |-> SubSeq(dir, 1, Len(dir) + 1 - n)] \o << <<>>, <<"src">> >>
        spelled(n) == <<roots[n] \o name, roots[n] \o name \o <<Init_>> >>
        hits == {n \in DOMAIN roots : ToSet(spelled(n)) \cap Files /= {}}
        first == spelled(Min(hits))
    IN  IF name = <<>> \/ hits = {} THEN <<>> ELSE IF first[1] \in Files THEN first[1] ELSE first[2]

\* Mutated: what a package's initializer imports is not followed.
NoInitializers(q) == <<>>

\* What is queued beside a module: the initializers of its packages.
Beside(q) == SetToSeq(Initializers(q))

Roots == <<Source>> \o SetToSeq(tests) \o SetToSeq(Conftests)

StartClosure ==
    /\ step = "start"
    /\ pending' = FlattenSeq([n \in 1..Len(Roots) |-> <<Roots[n]>> \o Beside(Roots[n])])
    /\ step' = "closure"
    /\ UNCHANGED <<tests, imports, fixtures, opens, visited, deps, copies, sys, before, loaded>>

\* One turn of the closure: the head of the queue is parsed once, what it
\* imports is resolved, recorded and queued with its initializers.
FollowImports ==
    /\ step = "closure" /\ pending /= <<>>
    /\ LET f == Head(pending)
           q == IF f \in Importers THEN Resolve(f, imports[f]) ELSE <<>>
           new == f \notin visited /\ q /= <<>> /\ q \notin visited \union {f}
       IN  /\ visited' = visited \union {f}
           /\ deps' = IF new /\ q \notin ToSet(deps) THEN Append(deps, q) ELSE deps
           /\ pending' = Tail(pending) \o (IF new THEN <<q>> \o Beside(q) ELSE <<>>)
    /\ UNCHANGED <<tests, imports, fixtures, opens, copies, step, sys, before, loaded>>

\* A literal names a directory that holds data only.
HoldsSources(d) == \E f \in Files \ DataFiles : IsStrictPrefix(d, f)
Exists(p) == p \in Files \/ \E f \in Files : IsStrictPrefix(p, f)

\* _project_literal_path_dependencies and _file_relative_path_dependencies: a
\* path relative to the repository, or to the file that names it.
Literals(f) ==
    LET p == opens[f]
        at == IF Exists(p) THEN p ELSE Dir(f) \o p
    IN  IF p = <<>> \/ ~Exists(at) \/ HoldsSources(at) THEN {} ELSE {at}

\* _referenced_project_resource_roots: a top-level data directory named.
ResourceRoots(f) ==
    {<<r>> : r \in {x \in {opens[f][n] : n \in 1..Min({1, Len(opens[f])})} :
                        x \notin Excluded /\ Exists(<<x>>) /\ <<x>> \notin Files /\ ~HoldsSources(<<x>>)}}

\* add: what may be copied at all.
MayCopy(p, nested) ==
    /\ p[1] \notin Excluded
    /\ p /= <<Init_>>
    /\ p /= Source
    /\ p \in tests => nested
    /\ ~IsPrefix(p, Source)

\* mutation_support_copy_paths, once the closure is known.
CopySupport ==
    /\ step = "closure" /\ pending = <<>>
    /\ \E at \in Opened, reader \in Importers :
         opens' = [f \in Files |-> IF f = reader THEN at ELSE <<>>]
    /\ LET code == {Source} \union tests \union ToSet(deps)
           named == UNION {Literals(f)' : f \in code} \union UNION {ResourceRoots(f)' : f \in code}
           plain == Conftests \union ToSet(deps) \union named
                    \union UNION {Initializers(f) : f \in code \union named}
           nested == {t \in tests : t[1] \notin {"test", "tests"}}
       IN  copies' = {p \in plain : MayCopy(p, FALSE)} \union {p \in nested : MayCopy(p, TRUE)}
    /\ step' = "copied"
    /\ UNCHANGED <<tests, imports, fixtures, pending, visited, deps, sys, before, loaded>>

-----------------------------------------------------------------------------
(* The phases                                                              *)

Origins == {"absent", "workspace", "stub", "library"}
Loaded(s) == {n \in ModuleNames : s[n] /= "absent"}

\* execute_pytest begins: the names loaded now are the program's own.
EnterPytest ==
    /\ step = "idle"
    /\ before' = Loaded(sys)
    /\ loaded' = "none"
    /\ step' = "phase"
    /\ UNCHANGED <<tests, imports, fixtures, opens, pending, visited, deps, copies, sys>>

\* The tests import: a module follows its parent, a stub is put in by name.
ImportModule(n, origin) ==
    /\ step = "phase"
    /\ \/ sys[n] = "absent" /\ (Len(n) > 1 => sys[Dir(n)] /= "absent" \/ origin = "stub")
       \/ origin = "stub"
    /\ sys' = [sys EXCEPT ![n] = origin]
    /\ UNCHANGED <<tests, imports, fixtures, opens, pending, visited, deps, copies, step, before, loaded>>

(***************************************************************************)
(* A file is loaded by path: the target by its repository-relative alias,  *)
(* its real path or the mutant's path, or another file of the same name.   *)
(***************************************************************************)
Spellings == {"alias", "real", "mutant", "namesake"}

\* _is_target_path: by the exact resolved path, never by its last name.
IsTargetPath(path) == path \in {"alias", "real", "mutant"}

\* _mutant_path_for: while a mutant is under test the copy in mutants/ is
\* loaded, wherever the phase was started from.
MutantPathFor(path, mutantUnderTest) ==
    IF mutantUnderTest /\ IsTargetPath(path) THEN "mutant" ELSE path

LoadByPath(path, mutantUnderTest) ==
    /\ step = "phase"
    /\ loaded' = <<path, mutantUnderTest, MutantPathFor(path, mutantUnderTest),
                   IF IsTargetPath(path) THEN "canonical" ELSE "own">>
    /\ UNCHANGED <<tests, imports, fixtures, opens, pending, visited, deps, copies, step, sys, before>>

\* A removed name takes every loaded name below it.
WithSubtrees(removed) == {n \in ModuleNames : \E r \in removed : IsPrefix(r, n)}

\* _purge_synthetic_modules: a module without a file, under a name the phase added.
Stubs(s) == {n \in Loaded(s) : s[n] = "stub" /\ n \notin before}

\* The finally block: modules loaded from the phase's roots, then the stubs
\* the phase added, each with what is cached below them.
ExitPytest ==
    /\ step = "phase"
    /\ LET roots == WithSubtrees({n \in ModuleNames : sys[n] = "workspace"})
           stubs == Stubs(sys) \ roots
       IN  sys' = [n \in ModuleNames |-> IF n \in roots \union WithSubtrees(stubs)
                                         THEN "absent" ELSE sys[n]]
    /\ step' = "idle"
    /\ UNCHANGED <<tests, imports, fixtures, opens, pending, visited, deps, copies, before, loaded>>

-----------------------------------------------------------------------------
NoImports == [f \in Importers |-> <<>>]

\* The phases use nothing of how the copy was chosen: they start on their own.
WInit ==
    /\ tests \in TestChoices
    /\ imports \in [Importers -> Names \union {<<>>}]
    /\ fixtures \in BOOLEAN
    /\ step \in {"start", "idle"}
    /\ step = "idle" => imports = NoImports /\ fixtures
    /\ opens = [f \in Files |-> <<>>]
    /\ pending = <<>> /\ visited = {} /\ deps = <<>> /\ copies = {}
    /\ sys = [n \in ModuleNames |-> "absent"]
    /\ before = {} /\ loaded = "none"

WNext ==
    \/ StartClosure \/ FollowImports \/ CopySupport \/ EnterPytest \/ ExitPytest
    \/ \E n \in ModuleNames, o \in Origins \ {"absent"} : ImportModule(n, o)
    \/ \E p \in Spellings, m \in BOOLEAN : LoadByPath(p, m)

\* What the closure found for the target, the tests and their conftests.
Code ==
    LET found == {Source} \union tests \union Conftests \union ToSet(deps)
    IN  found \union UNION {Initializers(f) : f \in found}

\* What the tests of the mutant can import: what was copied, the mutant, the
\* tests, and what mutmut brings itself (the tests directories).
There ==
    copies \union {Source} \union tests
    \union {f \in Files : f[1] \in {"test", "tests"}} \union {<<Init_>>}

\* Everything the target, the selected tests and their conftests import,
\* however deep and with the initializers on the way, is in the tree the mutants
\* run in, and the copy does not overwrite the mutant.  A missing module would
\* fail every mutant's collection.
CopyIsClosed ==
    step = "copied" =>
        /\ Code \subseteq There
        /\ \A f \in Code \cap Importers : Resolve(f, imports[f]) \in Code \union {<<>>}
        /\ Source \notin copies
=============================================================================

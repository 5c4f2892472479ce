---------------------------- MODULE JavaBaseline ----------------------------
(***************************************************************************)
(* What a Java run does to a checkout before an agent works in it, and the *)
(* guards around the agent: the branch is set up, the build files are      *)
(* rewritten, the changes are noted, the module is compiled; a class is    *)
(* only begun in a checkout whose changes are known, and a turn may only   *)
(* leave changes to tests and build files (uta/testgen/workspace_setup.py, *)
(* uta/language/java/baseline.py, uta/testgen/task_guard.py,               *)
(* uta/shared/workspace_policy.py, uta/language/java/workspace.py). A      *)
(* process may die between any two files it writes.                        *)
(***************************************************************************)
EXTENDS Naturals, FiniteSets

CONSTANTS
    RootPoms,    \* root build files to start from
    ChildPoms,   \* build files of the module to start from
    Touched,     \* files the model's agent writes
    MaxStarts    \* bound: times the task is started

\* A build file: its mockito and byte-buddy dependencies, the properties with
\* their versions, its blocks, whether an agent edited it or it skips tests.
Mockitos == {"none", "all", "allInherited", "one", "two", "core"}
Versions == {"none", "literal", "pinned"}
PomShape ==
    [mockito : Mockitos, mprop : {"none", "all", "core", "other"}, bbprop : {"none", "other", "pin"},
     inline : BOOLEAN, bb : [count : Nat, version : Versions], managed : Versions,
     props : BOOLEAN, deps : BOOLEAN, mgmt : BOOLEAN, edited : BOOLEAN, skips : BOOLEAN]

ASSUME StartsAssumption == MaxStarts \in Nat
ASSUME PomAssumption == RootPoms \cup ChildPoms \subseteq PomShape

VARIABLES
    head,     \* file -> its content on the branch
    work,     \* file -> its content in the checkout
    bstep,    \* where the run stands
    todo,     \* build files the upgrade has not come to yet
    changed,  \* whether the upgrade wrote anything
    before,   \* the dirty files at the start of the setup or of the turn
    audited,  \* deterministic_change_paths
    starts,   \* times the task was started
    pairs,    \* whether the sources use javafx.util.Pair
    ci,       \* whether the run repairs a CI change and keeps its dependencies
    preserve  \* whether the run keeps the checkout it finds

bvars == <<head, work, bstep, todo, changed, before, audited, starts, pairs, ci, preserve>>

Root == "pom.xml"
Child == "module/pom.xml"
Poms == {Root, Child}
OldTest == "src/test/OldTest.java"
Shim == "src/main/javafx/util/Pair.java"
Notes == "AGENTS.md"
Source == "src/main/A.java"
Files == Poms \cup {OldTest, Shim, Notes, Source}

\* Contents of the files that are not build files: as on the branch (for the
\* shim: absent), as the setup writes them, as an agent left them.
AsHead == "head"
BySetup == "setup"
ByAgent == "agent"

BInit ==
    /\ \E r \in RootPoms, c \in ChildPoms :
          head = [f \in Files |-> CASE f = Root -> r [] f = Child -> c [] OTHER -> AsHead]
    /\ work \in {head, [head EXCEPT ![OldTest] = ByAgent]}
    /\ bstep = "out" /\ todo = {} /\ changed = FALSE
    /\ before = <<>> /\ audited = {} /\ starts = 0
    /\ pairs \in BOOLEAN /\ ci \in BOOLEAN /\ preserve \in BOOLEAN

-----------------------------------------------------------------------------
\* The checkout as git reports it: every dirty file with its content.
Dirty == {f \in Files : work[f] # head[f]}
Snapshot == [f \in Dirty |-> work[f]]
NewlyDirty(old) == Dirty \ DOMAIN old
\* Files whose state differs from a snapshot: dirtied, changed again, reverted.
ChangedSince(old) ==
    {f \in DOMAIN old \cup Dirty : ~(f \in DOMAIN old /\ f \in Dirty /\ old[f] = work[f])}

At(s) == bstep' = s
LeaveTask == UNCHANGED <<head, starts, pairs, ci, preserve>>

\* A branch that is recreated is checked out over whatever was there, and
\* files git does not know are removed.
RemovesUntracked == head

\* Preserved, the checkout stays as the last run left it; otherwise it is
\* recreated.
SetupBranch ==
    /\ bstep = "out" /\ starts < MaxStarts
    /\ starts' = starts + 1
    /\ work' = IF preserve THEN work ELSE RemovesUntracked
    /\ audited' = {} /\ At("baseline")
    /\ UNCHANGED <<head, todo, changed, before, pairs, ci, preserve>>

BeginBaseline ==
    /\ bstep = "baseline"
    /\ before' = Snapshot /\ todo' = Poms /\ changed' = FALSE
    /\ bstep' = IF ci THEN "imports" ELSE "poms"
    /\ UNCHANGED <<work, audited>> /\ LeaveTask

-----------------------------------------------------------------------------
\* The upgrade. A build file is what the rewriting looks at: its mockito and
\* byte-buddy dependencies, their version properties, and its blocks.
NamesCore(p) == p.mockito \in {"one", "two", "core"} \/ p.mprop # "none"

\* One file: mockito-all becomes mockito-core, 1.x becomes 2.28.2, an inline
\* dependency goes, byte-buddy versions become the property.
UpgradedProperty(p) ==
    CASE p.bbprop # "none" -> "pin"
      [] p.mprop \in {"all", "core"} -> "pin"
      [] OTHER -> "none"
UpgradedMockito(dependency) ==
    CASE dependency \in {"all", "one"} -> "two"
      [] dependency = "allInherited" -> "core"
      [] OTHER -> dependency
PinnedVersion(version) == IF version = "literal" THEN "pinned" ELSE version
UpgradedPom(p) ==
    [p EXCEPT
        !.mockito = UpgradedMockito(p.mockito),
        !.mprop = IF p.mprop = "all" THEN "core" ELSE p.mprop,
        !.bbprop = UpgradedProperty(p),
        !.inline = FALSE,
        !.bb = [count |-> p.bb.count, version |-> PinnedVersion(p.bb.version)],
        !.managed = PinnedVersion(p.managed)]

\* The root file: mockito-core is added where the file names none and has a
\* block to add it to, then the property, then byte-buddy, managed and direct.
WithCore(p) == IF ~NamesCore(p) /\ p.deps THEN [p EXCEPT !.mockito = "two"] ELSE p
WithProperty(p) == IF p.bbprop = "none" /\ p.props THEN [p EXCEPT !.bbprop = "pin"] ELSE p
WithManaged(p) ==
    IF p.mgmt /\ p.managed = "none" /\ p.bb.count = 0 THEN [p EXCEPT !.managed = "pinned"] ELSE p
WithDirectAgain(p) == IF p.deps THEN [p EXCEPT !.bb.count = @ + 1] ELSE p
WithDirect(p) ==
    IF p.deps /\ p.bb.count = 0
    THEN [p EXCEPT !.bb = [count |-> 1, version |-> "none"]] ELSE p
UpgradedRoot(p) ==
    LET core == WithCore(p)
    IN IF NamesCore(core) THEN WithDirect(WithManaged(WithProperty(core))) ELSE core

Write(f, content) ==
    /\ work' = [work EXCEPT ![f] = content]
    /\ changed' = (changed \/ content # work[f])
    /\ UNCHANGED <<before, audited>> /\ LeaveTask

UpgradeFile(f) ==
    /\ bstep = "poms" /\ f \in todo
    /\ Write(f, UpgradedPom(work[f]))
    /\ todo' = todo \ {f} /\ UNCHANGED bstep

UpgradeRootFile ==
    /\ bstep = "poms" /\ todo = {}
    /\ Write(Root, UpgradedRoot(work[Root]))
    /\ At("imports") /\ UNCHANGED todo

\* Imports of existing tests are rewritten when the upgrade wrote a file, a
\* pinned skipTests is relaxed, the shim is made where the sources need one.
FixImports(content) == IF changed /\ content = AsHead THEN BySetup ELSE content
MakesPair(content) == IF pairs /\ content = AsHead THEN BySetup ELSE content
Relaxed(p) == [p EXCEPT !.skips = FALSE]
FixImportsAndPair ==
    /\ bstep = "imports"
    /\ work' = [f \in Files |->
                   CASE f \in Poms -> Relaxed(work[f])
                     [] f = OldTest -> FixImports(work[f])
                     [] f = Shim -> MakesPair(work[f])
                     [] OTHER -> work[f]]
    /\ At("audit") /\ UNCHANGED <<todo, changed, before, audited>> /\ LeaveTask

\* The change is noted where the checkout was dirty to begin with: an empty
\* snapshot reads as no snapshot.
Merged(old) == IF DOMAIN old = {} THEN audited ELSE audited \cup ChangedSince(old)
Audit ==
    /\ bstep = "audit"
    /\ audited' = Merged(before) /\ before' = Snapshot /\ At("compile")
    /\ UNCHANGED <<work, todo, changed>> /\ LeaveTask

\* The module compiles with its dependencies or, failing that, alone; then
\* the project's own initialisation may write its notes.
Compile(ok, notes) ==
    /\ bstep = "compile"
    /\ work' = IF ok /\ notes THEN [work EXCEPT ![Notes] = BySetup] ELSE work
    /\ bstep' = IF ok THEN "initialised" ELSE "failed"
    /\ UNCHANGED <<todo, changed, before, audited>> /\ LeaveTask

NoteInitialisation ==
    /\ bstep = "initialised"
    /\ audited' = Merged(before) /\ before' = <<>> /\ At("select")
    /\ UNCHANGED <<work, todo, changed>> /\ LeaveTask

-----------------------------------------------------------------------------
\* The guards.
IsMavenProjectFile(f) == f \in Poms
IsTestArtifact(f) == f = OldTest
AllowedLlmPath(f) == IsMavenProjectFile(f) \/ IsTestArtifact(f)
AllowedPreexisting(f) == AllowedLlmPath(f) \/ f \in audited \/ f = Notes

SelectBatch ==
    /\ bstep = "select"
    /\ bstep' = IF \A f \in Dirty : AllowedPreexisting(f) THEN "class" ELSE "failed"
    /\ UNCHANGED <<work, todo, changed, before, audited>> /\ LeaveTask

TurnBegin ==
    /\ bstep = "class"
    /\ before' = Snapshot /\ At("turn")
    /\ UNCHANGED <<work, todo, changed, audited>> /\ LeaveTask

\* The agent may write any file; a build file it edits keeps the parts the
\* upgrade looks at, or reverts to the branch's.
AgentWrites(f, revert) ==
    /\ bstep = "turn"
    /\ work' = [work EXCEPT ![f] = IF revert THEN head[f]
                                   ELSE IF f \in Poms THEN [@ EXCEPT !.edited = TRUE]
                                   ELSE ByAgent]
    /\ UNCHANGED <<bstep, todo, changed, before, audited>> /\ LeaveTask

TurnEnd ==
    /\ bstep = "turn"
    /\ bstep' = IF \A f \in ChangedSince(before) : AllowedLlmPath(f) THEN "verified" ELSE "failed"
    /\ before' = <<>> /\ UNCHANGED <<work, todo, changed, audited>> /\ LeaveTask

NextClass ==
    /\ bstep = "verified" /\ At("select")
    /\ UNCHANGED <<work, todo, changed, before, audited>> /\ LeaveTask

\* The process dies, or a failed task is resumed; what it noted is gone.
StartAgain ==
    /\ bstep \notin {"out", "verified"} /\ starts < MaxStarts
    /\ At("out") /\ todo' = {} /\ changed' = FALSE /\ before' = <<>> /\ audited' = {}
    /\ UNCHANGED work /\ LeaveTask

BNext ==
    \/ SetupBranch \/ BeginBaseline
    \/ \E f \in Poms : UpgradeFile(f)
    \/ UpgradeRootFile \/ FixImportsAndPair \/ Audit
    \/ \E ok, notes \in BOOLEAN : Compile(ok, notes)
    \/ NoteInitialisation \/ SelectBatch \/ TurnBegin
    \/ \E f \in Touched, revert \in BOOLEAN : AgentWrites(f, revert)
    \/ TurnEnd \/ NextClass \/ StartAgain

BSpec == BInit /\ [][BNext]_bvars

-----------------------------------------------------------------------------
\* A turn that is accepted leaves every file outside tests and build files as
\* the branch or the setup has it, also one the setup had made dirty before,
\* and also after a process that died in the middle of a turn.
OnlyTestsAuthored ==
    bstep = "verified" =>
        \A f \in Files : ~AllowedLlmPath(f) /\ f # Notes => work[f] # ByAgent

SameBuild(p, q) == [p EXCEPT !.edited = q.edited, !.skips = q.skips] = q

\* However often the upgrade was cut short between two files and begun again,
\* the build files end as one undisturbed pass would leave the branch's
\* (_upgrade_mockito).
UpgradeConverges ==
    bstep = "imports" /\ ~ci =>
        /\ SameBuild(work[Root], UpgradedRoot(UpgradedPom(head[Root])))
        /\ SameBuild(work[Child], UpgradedPom(head[Child]))
=============================================================================

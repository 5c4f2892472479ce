---------------------------- MODULE TaskCreation ----------------------------
(***************************************************************************)
(* How a task gets its branch and its rows, by several processes at once,  *)
(* and the migration every process runs over the rows when it opens the    *)
(* database (uta/tasks/creation.py, uta/tasks/storage/task_repository.py,  *)
(* uta/tasks/storage/schema.py). One repository, one day, one base ref; a  *)
(* branch name is its number, a generated one the first number not taken.  *)
(***************************************************************************)
EXTENDS Naturals, Sequences, FiniteSets, FiniteSetsExt

CONSTANTS
    Creators,    \* processes that create tasks
    Profiles,    \* branch profiles
    GivenNames,  \* branch names an operator may ask for
    MaxTasks,    \* bound: tasks created
    MaxBranches  \* bound: branch rows

ASSUME CreationAssumption == {MaxTasks, MaxBranches} \subseteq Nat /\ GivenNames \subseteq Nat \ {0}

VARIABLES
    branches,   \* rows of repo_branches: name and profile
    request,    \* creator -> what it was asked for and the branch it got
    tasks,      \* tasks in order of creation: the branch, how it was named,
                \* and whether the task has Java classes or targets
    classrow    \* one row of class_tasks, as some version of the program left it

kvars == <<branches, request, tasks, classrow>>
NoRequest == [how |-> "idle", profile |-> "", branch |-> 0]
Fresh == "generated"

Languages == {"", "java", "python"}
Granularities == {"", "class", "file", "symbol"}
\* "fqn" is the storage key, "own" a symbol of its own; "" is NULL or empty.
ClassRows == [language : Languages, granularity : Granularities,
              target : {"", "fqn", "own"}, symbol : {"", "fqn", "own"}, display : {"", "fqn"}]

KInit ==
    /\ branches = {} /\ tasks = <<>>
    /\ request = [c \in Creators |-> NoRequest]
    /\ classrow \in ClassRows

-----------------------------------------------------------------------------
\* create_or_reuse_branch, one transaction.
Reusable(profile) == {b.name : b \in {x \in branches : x.profile = profile}}

TakenInProfile(name, profile) == name \in Reusable(profile)
\* Whether a generated name is taken: by any branch of the repository.
Taken(name, profile) == \E b \in branches : b.name = name
FirstFree(profile) == Min({n \in 1..(MaxBranches + 1) : ~Taken(n, profile)})

Get(c, how, profile, name) ==
    /\ branches' = branches \cup {[name |-> name, profile |-> profile]}
    /\ Cardinality(branches') <= MaxBranches
    /\ request' = [request EXCEPT ![c] = [how |-> how, profile |-> profile, branch |-> name]]
    /\ UNCHANGED <<tasks, classrow>>

\* With no name asked for, the profile's active branch; which of several was
\* used last is left open.
ReuseBranch(c, profile) ==
    /\ request[c] = NoRequest
    /\ \E name \in Reusable(profile) : Get(c, "reused", profile, name)

GenerateBranch(c, profile, new) ==
    /\ request[c] = NoRequest
    /\ new \/ Reusable(profile) = {}
    /\ Get(c, Fresh, profile, FirstFree(profile))

NamedBranch(c, profile, name) ==
    /\ request[c] = NoRequest
    /\ Get(c, "named", profile, name)

\* The task row, its class rows and its events, in the state CREATED, which no
\* worker takes: the rows are complete before the task is queued.
CreateRow(c, of) ==
    /\ request[c] # NoRequest /\ Len(tasks) < MaxTasks
    /\ tasks' = Append(tasks, [branch |-> request[c].branch, how |-> request[c].how, of |-> of])
    /\ request' = [request EXCEPT ![c] = NoRequest]
    /\ UNCHANGED <<branches, classrow>>
CreateTask(c) == CreateRow(c, "classes")
CreateTaskTargets(c) == CreateRow(c, "targets")

\* A creator that dies in between leaves its branch row.
Die(c) ==
    /\ request[c] # NoRequest
    /\ request' = [request EXCEPT ![c] = NoRequest]
    /\ UNCHANGED <<branches, tasks, classrow>>

-----------------------------------------------------------------------------
\* The migration of target identities.
Or(value, default) == IF value = "" THEN default ELSE value
WholeFile(r) == Or(r.granularity, "class") = "file"
Needs(r) ==
    \/ "" \in {r.target, r.language, r.granularity, r.display}
    \/ Or(r.language, "java") = "java" /\ Or(r.granularity, "class") = "class" /\ r.symbol = ""
    \/ Or(r.language, "java") # "java" /\ ~WholeFile(r) /\ r.symbol = ""
HasIncomplete(r) ==
    \/ Needs(r)
    \/ r.language = "python" /\ r.granularity = "file" /\ r.symbol = r.target

\* The first UPDATE reads the old values in every column; the second clears
\* the symbol of a whole file, where older versions stored its identity.
Identified(r) ==
    [language |-> Or(r.language, "java"), granularity |-> Or(r.granularity, "class"),
     target |-> Or(r.target, "fqn"), display |-> Or(r.display, "fqn"),
     symbol |-> Or(r.symbol, IF Or(r.language, "java") = "java" \/ ~WholeFile(r)
                             THEN "fqn" ELSE "")]
ClearedFile(r) ==
    IF r.language # "java" /\ r.granularity = "file" /\ r.symbol = r.target
    THEN [r EXCEPT !.symbol = ""] ELSE r
Migrated(r) == ClearedFile(IF Needs(r) THEN Identified(r) ELSE r)

OpenDatabase ==
    /\ HasIncomplete(classrow)
    /\ classrow' = Migrated(classrow)
    /\ UNCHANGED <<branches, request, tasks>>

\* A process opens the database before it creates anything.
Creating ==
    /\ ~HasIncomplete(classrow)
    /\ \E c \in Creators :
          \/ \E profile \in Profiles :
                \/ ReuseBranch(c, profile)
                \/ \E new \in BOOLEAN : GenerateBranch(c, profile, new)
                \/ \E name \in GivenNames : NamedBranch(c, profile, name)
          \/ CreateTask(c) \/ CreateTaskTargets(c) \/ Die(c)

KNext == OpenDatabase \/ Creating

KSpec == KInit /\ [][KNext]_kvars

-----------------------------------------------------------------------------
\* A generated branch belongs to the task it was made for: whoever has it
\* later asked for it by name or took up the profile's branch, and no branch
\* made at the same time, under another profile or under a name an operator
\* chose, is handed out as new.
GeneratedIsFresh ==
    \A j \in DOMAIN tasks : tasks[j].how = Fresh =>
        \A i \in DOMAIN tasks : i # j /\ tasks[i].branch = tasks[j].branch => tasks[i].how # Fresh
=============================================================================

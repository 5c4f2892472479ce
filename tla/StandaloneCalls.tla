-------------------------- MODULE StandaloneCalls ---------------------------
(***************************************************************************)
(* The directories of generation calls that have no task: each call makes  *)
(* one, holds a lock on a file in it while it runs and removes it at the   *)
(* end; the retention pass removes what dead calls left behind             *)
(* (uta/testgen/prompts/artifacts.py, uta/testgen/standalone_execution.py).*)
(***************************************************************************)
EXTENDS Naturals, FiniteSets

CONSTANTS
    Calls,      \* the calls; one in flight per name
    Passes      \* the processes that run retention passes

VARIABLES
    cstep,    \* where a call stands
    lock,     \* calls whose lock is held
    dirs,     \* calls whose directory exists
    aged,     \* directories whose modification time is before the cutoff
    looked    \* pass -> the directory whose lease it found inactive

cvars == <<cstep, lock, dirs, aged, looked>>
Nobody == "nobody"

ASSUME CallsAssumption == Nobody \notin Calls

CInit ==
    /\ cstep = [c \in Calls |-> "out"]
    /\ lock = {} /\ dirs = {} /\ aged = {}
    /\ looked = [p \in Passes |-> Nobody]

\* mkdir under a fresh name: what a dead call left under its own stays.
MakeDirectory(c) ==
    /\ cstep[c] = "out" /\ c \notin dirs
    /\ cstep' = [cstep EXCEPT ![c] = "made"]
    /\ dirs' = dirs \cup {c} /\ aged' = aged \ {c}
    /\ UNCHANGED <<lock, looked>>

\* The lock file is created, which touches the directory, and locked. In a
\* directory that is gone the call fails.
TakeLease(c) ==
    /\ cstep[c] = "made"
    /\ IF c \in dirs
       THEN /\ cstep' = [cstep EXCEPT ![c] = "body"]
            /\ lock' = lock \cup {c} /\ aged' = aged \ {c}
       ELSE cstep' = [cstep EXCEPT ![c] = "out"] /\ UNCHANGED <<lock, aged>>
    /\ UNCHANGED <<dirs, looked>>

\* The two kinds of call end in opposite orders: a prompt scope removes its
\* tree and gives up the lock, an execution gives up the lock first.
RemoveTree(c) ==
    /\ cstep[c] \in {"body", "unlocked"}
    /\ dirs' = dirs \ {c}
    /\ cstep' = [cstep EXCEPT ![c] = IF @ = "body" THEN "removed" ELSE "out"]
    /\ UNCHANGED <<lock, aged, looked>>
GiveUpLock(c) ==
    /\ cstep[c] \in {"body", "removed"}
    /\ lock' = lock \ {c}
    /\ cstep' = [cstep EXCEPT ![c] = IF @ = "body" THEN "unlocked" ELSE "out"]
    /\ UNCHANGED <<dirs, aged, looked>>

\* The process dies: the kernel gives up its lock.
CallDies(c) ==
    /\ cstep[c] # "out"
    /\ cstep' = [cstep EXCEPT ![c] = "out"] /\ lock' = lock \ {c}
    /\ UNCHANGED <<dirs, aged, looked>>

\* Days pass; a pass and the making of a directory take seconds.
DirectoryAges(c) ==
    /\ c \in dirs /\ cstep[c] # "made" /\ \A p \in Passes : looked[p] = Nobody
    /\ aged' = aged \cup {c}
    /\ UNCHANGED <<cstep, lock, dirs, looked>>

\* Mutant: the lock file is there, so its call is taken to be over.
InactiveByAge(c) == c \in dirs
\* No lock file yet, or one nobody holds.
Inactive(c) == c \in dirs /\ c \notin lock

LookAtLease(p, c) ==
    /\ looked[p] = Nobody /\ Inactive(c)
    /\ looked' = [looked EXCEPT ![p] = c]
    /\ UNCHANGED <<cstep, lock, dirs, aged>>

\* The age is read after the lease, and an old tree is removed.
RemoveOrphan(p) ==
    /\ looked[p] # Nobody
    /\ dirs' = IF looked[p] \in aged THEN dirs \ {looked[p]} ELSE dirs
    /\ looked' = [looked EXCEPT ![p] = Nobody]
    /\ UNCHANGED <<cstep, lock, aged>>

CNext ==
    \/ \E c \in Calls : \/ MakeDirectory(c) \/ TakeLease(c) \/ RemoveTree(c)
                        \/ GiveUpLock(c) \/ CallDies(c) \/ DirectoryAges(c)
                        \/ \E p \in Passes : LookAtLease(p, c)
    \/ \E p \in Passes : RemoveOrphan(p)

CSpec == CInit /\ [][CNext]_cvars

-----------------------------------------------------------------------------
(* The directory of a call that is in progress is never taken away,        *)
(* although a pass may look for its lease before the lease exists and      *)
(* removes what it looked at later (prune_standalone,                      *)
(* prune_standalone_generation_executions).                                *)
LiveCallKeepsDirectory ==
    \A c \in Calls : cstep[c] = "body" => c \in dirs
=============================================================================

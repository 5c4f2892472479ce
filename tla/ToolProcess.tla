----------------------------- MODULE ToolProcess -----------------------------
(***************************************************************************)
(* One command of the verification lane and the three clocks that bound    *)
(* it.  _subprocess_run starts the mutmut adapter as the leader of its own *)
(* process group, reads its pipes until everyone who holds them is gone,   *)
(* and terminates the group at the command's timeout.  Inside, the adapter *)
(* registers an adapter-wide watchdog and one around every pytest phase on *)
(* faulthandler's single timer, forks mutants, and hands its exit code to  *)
(* finish_process, which bounds interpreter shutdown.  Any process may     *)
(* hang anywhere.  Time is in seconds and advances by at most Step; what   *)
(* is due is done before time advances.                                    *)
(***************************************************************************)
EXTENDS Integers, FiniteSets, FiniteSetsExt

CONSTANTS CommandTimeouts,  \* seconds after which a command is terminated
          PhaseTimeout,     \* UTA_PYTEST_PHASE_TIMEOUT_SECONDS
          Grace,            \* UTA_PYTEST_SHUTDOWN_GRACE_SECONDS, at most 30
          Step              \* granularity of time

ASSUME ProcessAssumption ==
    /\ CommandTimeouts \subseteq Nat \ {0}
    /\ PhaseTimeout \in Nat \ {0} /\ Grace \in 1..30 /\ Step \in Nat \ {0}

VARIABLES
    budget,    \* the command's timeout
    clock,     \* seconds since the command was started
    proc,      \* state of the leader and of the mutant it forks
    watchdogs, \* _WATCHDOGS of each process: <<level, deadline>>
    timer,     \* the deadline faulthandler's timer is armed at (Off: none)
    started,   \* when the adapter registered its own watchdog (Off: not yet)
    runner     \* the caller: waiting, terminating, or the exit code it returns

pvars == <<budget, clock, proc, watchdogs, timer, started, runner>>

Procs == {"leader", "mutant"}
Alive(p) == proc[p] \in {"running", "finishing"}
Off == -1

\* _adapter_self_abort_seconds: the margin, and the abort strictly inside the
\* command's timeout; disabled when there is no room for a margin.
Margin(b) == Min({Max({30, b \div 20}), 300})
SelfAbort(b) == IF b <= 60 THEN 0 ELSE Max({b - Margin(b), 30})

\* Mutated: leaving a watchdog cancels the timer the outer one needs.
CancelUnlessNested(ws) == IF Cardinality(ws) < 2 THEN Off ELSE Min({w[2] : w \in ws})

\* _arm_nearest_watchdog: the single timer at the earliest deadline.
Nearest(ws) == IF ws = {} THEN Off ELSE Min({w[2] : w \in ws})

Register(p, ws) ==
    /\ watchdogs' = [watchdogs EXCEPT ![p] = ws]
    /\ timer' = [timer EXCEPT ![p] = Nearest(ws)]

\* The process is gone, whatever ended it.
Gone(ps, how) ==
    /\ proc' = [p \in Procs |-> IF p \in ps THEN how ELSE proc[p]]
    /\ watchdogs' = [p \in Procs |-> IF p \in ps THEN {} ELSE watchdogs[p]]
    /\ timer' = [p \in Procs |-> IF p \in ps THEN Off ELSE timer[p]]

InPhase(p) == \E w \in watchdogs[p] : w[1] = "phase"

-----------------------------------------------------------------------------
\* The interpreter and mutmut are imported; the adapter's own watchdog is
\* registered when its timeout is set.
EnterAdapter ==
    /\ proc["leader"] = "running" /\ started = Off
    /\ started' = clock
    /\ Register("leader", IF SelfAbort(budget) = 0 THEN {}
                          ELSE {<<"adapter", clock + SelfAbort(budget)>>})
    /\ UNCHANGED <<budget, clock, proc, runner>>

\* execute_pytest: a phase, inside the adapter's own watchdog.
EnterPhase(p) ==
    /\ proc[p] = "running" /\ started /= Off /\ ~InPhase(p)
    /\ Register(p, watchdogs[p] \union {<<"phase", clock + PhaseTimeout>>})
    /\ UNCHANGED <<budget, clock, proc, started, runner>>

\* The phase returns or raises: its entry is removed and the timer rearmed.
ExitPhase(p) ==
    /\ proc[p] = "running" /\ InPhase(p)
    /\ Register(p, {w \in watchdogs[p] : w[1] /= "phase"})
    /\ UNCHANGED <<budget, clock, proc, started, runner>>

\* register_at_fork, after_in_child: the child keeps the absolute deadlines.
ArmChild(ws) == Nearest(ws)

\* mutmut forks a mutant between phases; the timer is cancelled before the
\* fork and armed again in both processes.
Fork ==
    /\ proc["leader"] = "running" /\ started /= Off
    /\ ~InPhase("leader") /\ ~Alive("mutant")
    /\ proc' = [proc EXCEPT !["mutant"] = "running"]
    /\ watchdogs' = [watchdogs EXCEPT !["mutant"] = watchdogs["leader"]]
    /\ timer' = [leader |-> Nearest(watchdogs["leader"]), mutant |-> ArmChild(watchdogs["leader"])]
    /\ UNCHANGED <<budget, clock, started, runner>>

\* The mutant's phase ended: mutmut ends the child without finalizers.
MutantExits ==
    /\ proc["mutant"] = "running" /\ ~InPhase("mutant")
    /\ Gone({"mutant"}, "exited")
    /\ UNCHANGED <<budget, clock, started, runner>>

\* main returned or raised SystemExit: the watchdog is unregistered on the way
\* out, and finish_process bounds the shutdown of the interpreter.
FinishProcess ==
    /\ proc["leader"] = "running" /\ started /= Off /\ ~InPhase("leader")
    /\ proc' = [proc EXCEPT !["leader"] = "finishing"]
    /\ watchdogs' = [watchdogs EXCEPT !["leader"] = {}]
    /\ timer' = [timer EXCEPT !["leader"] = clock + Grace]
    /\ UNCHANGED <<budget, clock, started, runner>>

LeaderExits ==
    /\ proc["leader"] = "finishing"
    /\ Gone({"leader"}, "exited")
    /\ UNCHANGED <<budget, clock, started, runner>>

\* A timer comes due: faulthandler dumps every thread and exits with status 1;
\* force_completed_exit keeps the exit code of a finished process.
Fire(p) ==
    /\ Alive(p) /\ timer[p] /= Off /\ timer[p] <= clock
    /\ Gone({p}, IF proc[p] = "finishing" THEN "exited" ELSE "aborted")
    /\ UNCHANGED <<budget, clock, started, runner>>

-----------------------------------------------------------------------------
Living == {p \in Procs : Alive(p)}

\* communicate returns once the leader is gone and nobody holds its pipes.
Collect ==
    /\ runner = "waiting" /\ Living = {}
    /\ runner' = IF proc["leader"] = "aborted" THEN "1" ELSE "0"
    /\ UNCHANGED <<budget, clock, proc, watchdogs, timer, started>>

\* process_tree_memory_guard kills the group over its memory limit.
MemoryKill ==
    /\ runner = "waiting" /\ Living /= {}
    /\ Gone(Living, "killed")
    /\ runner' = "137"
    /\ UNCHANGED <<budget, clock, started>>

\* The command's timeout: SIGTERM to the group, which a process may ignore.
Expire ==
    /\ runner = "waiting" /\ clock >= budget /\ Living /= {}
    /\ \E dying \in SUBSET Living : Gone(dying, "killed")
    /\ runner' = "terminating"
    /\ UNCHANGED <<budget, clock, started>>

\* _terminate_process_tree: if the leader is gone by the grace period nothing
\* else is done; otherwise the group is killed.
Terminate ==
    /\ runner = "terminating"
    /\ IF Alive("leader") THEN Gone(Living, "killed")
                          ELSE UNCHANGED <<proc, watchdogs, timer>>
    /\ runner' = "124"
    /\ UNCHANGED <<budget, clock, started>>

\* Time passes unless something is due now, and no further than to what is.
Armed == {timer[p] : p \in Living} \ {Off}
Tick ==
    /\ runner = "waiting" /\ clock < budget /\ Living /= {}
    /\ \A due \in Armed : due > clock
    /\ clock' = Min({clock + Step} \union Armed)
    /\ UNCHANGED <<budget, proc, watchdogs, timer, started, runner>>

-----------------------------------------------------------------------------
PInit ==
    /\ budget \in CommandTimeouts
    /\ clock = 0
    /\ proc = [leader |-> "running", mutant |-> "none"]
    /\ watchdogs = [p \in Procs |-> {}]
    /\ timer = [p \in Procs |-> Off]
    /\ started = Off
    /\ runner = "waiting"

PNext ==
    \/ EnterAdapter \/ FinishProcess \/ LeaderExits \/ Fork \/ MutantExits
    \/ \E p \in Procs : EnterPhase(p) \/ ExitPhase(p) \/ Fire(p)
    \/ Collect \/ MemoryKill \/ Expire \/ Terminate \/ Tick

PSpec == PInit /\ [][PNext]_pvars

\* Nested watchdogs on one timer: leaving a phase, forking or finishing never
\* disarms the budget around it, so no process is running past a deadline
\* registered in it or inherited by it ("neither process may extend the
\* adapter budget").
NobodyOutlivesADeadline ==
    \A p \in Living : \A w \in watchdogs[p] : clock <= w[2]
=============================================================================

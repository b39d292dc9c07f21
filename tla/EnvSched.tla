------------------------------ MODULE EnvSched ------------------------------
(***************************************************************************)
(* Environments (processes) and the SMP scheduler of the kernel:           *)
(* kern/env.c, kern/sched.c, kern/trap.c and the system calls of           *)
(* kern/syscall.c that change an environment's status.                     *)
(*                                                                         *)
(* A kernel section runs from lock_kernel() to unlock_kernel() and is one  *)
(* action: the big kernel lock (module Spinlock) serialises the sections.  *)
(* What the code does WITHOUT the lock is a step of its own: entering a    *)
(* trap and waiting for the lock, the env_pop_tf() that follows            *)
(* unlock_kernel(), user mode, and the halted CPU.                         *)
(***************************************************************************)
EXTENDS Integers, Sequences, FiniteSets

CONSTANTS
    CPUs,      \* the processors (cpus[] of kern/mpconfig.c)
    NENV,      \* number of slots in envs[]
    NBoot,     \* environments env_create()d by i386_init: slots 0..NBoot-1
    MaxGen,    \* bound on the generations of a slot: the code counts to 2^19 - 1,
               \* then begins again at 1 (env.c:245) and gives identifiers a
               \* second time; here the slot is not used any more
    MaxUses,   \* bound on the environments ever made, for model checking
    None       \* NULL, the boot page table, "no environment"

ASSUME ConstAssumption ==
    /\ NENV \in Nat \ {0}
    /\ NBoot \in 1..NENV
    /\ MaxGen \in Nat \ {0}
    /\ None \notin CPUs \cup (0..NENV-1)

Envs == 0..NENV-1

Statuses == {"FREE", "DYING", "RUNNABLE", "RUNNING", "NOT_RUNNABLE"}

(* Where a CPU is.  "sched", "timer" and "call" wait for the kernel lock:  *)
(* "sched" comes from boot or from a halt, "timer" and "call" from user    *)
(* mode by a timer interrupt or by any other trap.                         *)
Modes == {"sched", "timer", "call", "pop", "user", "halt", "monitor"}

FromUser == {"timer", "call"}

VARIABLES
    env_status,        \* [Envs -> Statuses]
    env_gen,           \* the generation part of env_id, 0 before first use
    env_parent,        \* env_parent_id: <<generation, slot>>, <<0, 0>> at boot
    started,           \* env_runs > 0
    env_ipc_recving,   \* blocked in sys_ipc_recv
    env_cpunum,        \* the CPU recorded by env_pop_tf for user space
    env_free_list,     \* the free slots, head first
    curenv,            \* thiscpu->cpu_env of every CPU
    cr3,               \* whose page table a CPU has loaded (None: boot_pml4e)
    mode               \* [CPUs -> Modes]

envVars == <<env_gen, env_parent, env_ipc_recving, env_free_list>>
vars == <<env_status, env_gen, env_parent, started, env_ipc_recving,
          env_cpunum, env_free_list, curenv, cr3, mode>>

(* How many environments there have been.                                  *)
Uses == Cardinality({u \in Envs \X (1..MaxGen) : u[2] <= env_gen[u[1]]})

EnvId(e) == <<env_gen[e], e>>

TypeOK ==
    /\ env_status \in [Envs -> Statuses]
    /\ env_gen \in [Envs -> 0..MaxGen]
    /\ env_parent \in [Envs -> (0..MaxGen) \X Envs]
    /\ started \in [Envs -> BOOLEAN]
    /\ env_ipc_recving \in [Envs -> BOOLEAN]
    /\ env_cpunum \in [Envs -> CPUs \cup {None}]
    /\ env_free_list \in Seq(Envs)
    /\ curenv \in [CPUs -> Envs \cup {None}]
    /\ cr3 \in [CPUs -> Envs \cup {None}]
    /\ mode \in [CPUs -> Modes]

(* After i386_init: NBoot environments created with parent 0, every CPU    *)
(* about to take (or, the boot CPU, holding) the lock and call sched_yield *)
Init ==
    /\ env_status = [e \in Envs |-> IF e < NBoot THEN "RUNNABLE" ELSE "FREE"]
    /\ env_gen = [e \in Envs |-> IF e < NBoot THEN 1 ELSE 0]
    /\ env_parent = [e \in Envs |-> <<0, 0>>]
    /\ started = [e \in Envs |-> FALSE]
    /\ env_ipc_recving = [e \in Envs |-> FALSE]
    /\ env_cpunum = [e \in Envs |-> None]
    /\ env_free_list = [i \in 1..(NENV - NBoot) |-> NBoot + i - 1]
    /\ curenv = [c \in CPUs |-> None]
    /\ cr3 = [c \in CPUs |-> None]
    /\ mode = [c \in CPUs |-> "sched"]

-----------------------------------------------------------------------------
(* Leaving the kernel.  st is env_status and cur the CPU's curenv at the   *)
(* moment of the call, runs the started flags.                             *)
(*                                                                         *)
(* Faulty_ operators are variants with a plausible bug: each one breaks a  *)
(* property of this module.                                                *)

env_run(c, st, cur, runs, e) ==
    /\ env_status' = [x \in Envs |->
                         IF x = e THEN "RUNNING"
                         ELSE IF x = cur /\ st[x] = "RUNNING" THEN "RUNNABLE"
                         ELSE st[x]]
    /\ started' = [runs EXCEPT ![e] = TRUE]
    /\ curenv' = [curenv EXCEPT ![c] = e]
    /\ cr3' = [cr3 EXCEPT ![c] = e]
    /\ mode' = [mode EXCEPT ![c] = "pop"]

(* Faulty: counts only RUNNABLE environments as work that is left.         *)
Faulty_halt_ignores_running(c, st, cur, runs) ==
    /\ env_status' = st
    /\ started' = runs
    /\ IF \E e \in Envs : st[e] = "RUNNABLE"
       THEN /\ curenv' = [curenv EXCEPT ![c] = None]
            /\ cr3' = [cr3 EXCEPT ![c] = None]
            /\ mode' = [mode EXCEPT ![c] = "halt"]
       ELSE /\ curenv' = [curenv EXCEPT ![c] = cur]
            /\ cr3' = [cr3 EXCEPT ![c] = IF cur = None THEN None ELSE @]
            /\ mode' = [mode EXCEPT ![c] = "monitor"]

(* Faulty: halts without the lcr3 of the boot page table.                  *)
Faulty_halt_keeps_cr3(c, st, cur, runs) ==
    /\ env_status' = st
    /\ started' = runs
    /\ IF \E e \in Envs : st[e] \in {"RUNNABLE", "RUNNING", "DYING"}
       THEN /\ curenv' = [curenv EXCEPT ![c] = None]
            /\ cr3' = cr3
            /\ mode' = [mode EXCEPT ![c] = "halt"]
       ELSE /\ curenv' = [curenv EXCEPT ![c] = cur]
            /\ cr3' = [cr3 EXCEPT ![c] = IF cur = None THEN None ELSE @]
            /\ mode' = [mode EXCEPT ![c] = "monitor"]

(* Faulty: halts without clearing curenv.                                  *)
Faulty_halt_keeps_curenv(c, st, cur, runs) ==
    /\ env_status' = st
    /\ started' = runs
    /\ curenv' = [curenv EXCEPT ![c] = cur]
    /\ cr3' = [cr3 EXCEPT ![c] = None]
    /\ mode' = [mode EXCEPT ![c] =
                   IF \E e \in Envs : st[e] \in {"RUNNABLE", "RUNNING", "DYING"}
                   THEN "halt" ELSE "monitor"]

(* The halting CPU keeps its curenv and its page table only when it drops  *)
(* into the kernel monitor, lock held.                                     *)
sched_halt(c, st, cur, runs) ==
    /\ env_status' = st
    /\ started' = runs
    /\ IF \E e \in Envs : st[e] \in {"RUNNABLE", "RUNNING", "DYING"}
       THEN /\ curenv' = [curenv EXCEPT ![c] = None]
            /\ cr3' = [cr3 EXCEPT ![c] = None]
            /\ mode' = [mode EXCEPT ![c] = "halt"]
       ELSE /\ curenv' = [curenv EXCEPT ![c] = cur]
            /\ cr3' = [cr3 EXCEPT ![c] = IF cur = None THEN None ELSE @]
            /\ mode' = [mode EXCEPT ![c] = "monitor"]

(* Faulty: every scan starts at the first slot.                            *)
Faulty_scan_from_zero(cur, k) == (k - 1) % NENV

(* The slots in the order the scan of sched_yield visits them.             *)
Scan(cur, k) == ((IF cur = None THEN 0 ELSE cur) + k) % NENV

(* Faulty: also takes an environment that runs on another CPU.             *)
Faulty_ready_running(st, cur) ==
    {k \in 1..NENV : /\ st[Scan(cur, k)] \in {"RUNNABLE", "RUNNING"}
                     /\ Scan(cur, k) # cur}

Ready(st, cur) == {k \in 1..NENV : st[Scan(cur, k)] = "RUNNABLE"}

sched_yield(c, st, cur, runs) ==
    \/ \E k \in Ready(st, cur) :
          /\ \A j \in Ready(st, cur) : k <= j
          /\ env_run(c, st, cur, runs, Scan(cur, k))
    \/ /\ Ready(st, cur) = {}
       /\ cur # None /\ st[cur] = "RUNNING"
       /\ env_run(c, st, cur, runs, cur)
    \/ /\ Ready(st, cur) = {}
       /\ ~(cur # None /\ st[cur] = "RUNNING")
       /\ sched_halt(c, st, cur, runs)

(* The end of trap(): back to curenv if it is still RUNNING.               *)
trap_return(c, st, runs) ==
    IF st[curenv[c]] = "RUNNING"
    THEN env_run(c, st, curenv[c], runs, curenv[c])
    ELSE sched_yield(c, st, curenv[c], runs)

Freed(e) == [env_status EXCEPT ![e] = "FREE"]

(* env_free and what its callers do next on the CPU that runs e.           *)
env_free(e) == env_free_list' = <<e>> \o env_free_list

FreeSelf(c) ==
    /\ env_free(curenv[c])
    /\ sched_yield(c, Freed(curenv[c]), None, started)
    /\ UNCHANGED <<env_gen, env_parent, env_ipc_recving, env_cpunum>>

-----------------------------------------------------------------------------
(* Trap entry, up to lock_kernel().                                        *)

TimerIrq(c) ==
    /\ \/ mode[c] = "user" /\ mode' = [mode EXCEPT ![c] = "timer"]
       \/ mode[c] = "halt" /\ mode' = [mode EXCEPT ![c] = "sched"]
    /\ UNCHANGED <<env_status, started, env_cpunum, curenv, cr3, envVars>>

UserTrap(c) ==
    /\ mode[c] = "user"
    /\ mode' = [mode EXCEPT ![c] = "call"]
    /\ UNCHANGED <<env_status, started, env_cpunum, curenv, cr3, envVars>>

(* env_pop_tf, after unlock_kernel().                                      *)
env_pop_tf(c) ==
    /\ mode[c] = "pop"
    /\ env_cpunum' = [env_cpunum EXCEPT ![curenv[c]] = c]
    /\ mode' = [mode EXCEPT ![c] = "user"]
    /\ UNCHANGED <<env_status, started, curenv, cr3, envVars>>

(* lock_kernel() succeeds: nobody sits in the monitor with the lock.       *)
LockFree == \A d \in CPUs : mode[d] # "monitor"

(* First kernel section of a booted CPU, and the one after a halt.         *)
Resched(c) ==
    /\ mode[c] = "sched" /\ LockFree
    /\ sched_yield(c, env_status, curenv[c], started)
    /\ UNCHANGED <<env_cpunum, envVars>>

ReapZombie(c) ==
    /\ mode[c] \in FromUser /\ LockFree
    /\ env_status[curenv[c]] = "DYING"
    /\ FreeSelf(c)

Timer(c) ==
    /\ mode[c] = "timer" /\ LockFree
    /\ env_status[curenv[c]] # "DYING"
    /\ sched_yield(c, env_status, curenv[c], started)
    /\ UNCHANGED <<env_cpunum, envVars>>

(* Faulty: a zombie's system call is served before it is collected.        *)
Faulty_zombie_not_checked(c) == mode[c] = "call" /\ LockFree

InSyscall(c) ==
    /\ mode[c] = "call" /\ LockFree
    /\ env_status[curenv[c]] # "DYING"

-----------------------------------------------------------------------------
(* System calls.                                                           *)

(* envid2env(id, &e, 1) for the current id of slot e; a stale id fails.    *)
MayControl(c, e) ==
    /\ env_status[e] # "FREE"
    /\ e = curenv[c] \/ env_parent[e] = EnvId(curenv[c])

(* A call that fails, only reads, or touches memory; a fault that the      *)
(* environment's own upcall handles; a device interrupt.                   *)
SysNoEffect(c) ==
    /\ InSyscall(c)
    /\ trap_return(c, env_status, started)
    /\ UNCHANGED <<env_cpunum, envVars>>

sys_yield(c) ==
    /\ InSyscall(c)
    /\ sched_yield(c, env_status, curenv[c], started)
    /\ UNCHANGED <<env_cpunum, envVars>>

(* Faulty variants of env_alloc: the generation is not advanced, the       *)
(* receiving flag of the last tenant stays, the slot is not taken off the  *)
(* free list.                                                              *)
Faulty_alloc_same_id(e, parent) ==
    /\ env_free_list # <<>> /\ e = Head(env_free_list)
    /\ env_gen' = [env_gen EXCEPT ![e] = 1]
    /\ env_parent' = [env_parent EXCEPT ![e] = parent]
    /\ env_ipc_recving' = [env_ipc_recving EXCEPT ![e] = FALSE]
    /\ env_free_list' = Tail(env_free_list)

Faulty_alloc_keeps_recving(e, parent) ==
    /\ env_free_list # <<>> /\ e = Head(env_free_list)
    /\ env_gen[e] < MaxGen /\ Uses < MaxUses
    /\ env_gen' = [env_gen EXCEPT ![e] = @ + 1]
    /\ env_parent' = [env_parent EXCEPT ![e] = parent]
    /\ env_ipc_recving' = env_ipc_recving
    /\ env_free_list' = Tail(env_free_list)

Faulty_alloc_keeps_slot(e, parent) ==
    /\ env_free_list # <<>> /\ e = Head(env_free_list)
    /\ env_gen[e] < MaxGen /\ Uses < MaxUses
    /\ env_gen' = [env_gen EXCEPT ![e] = @ + 1]
    /\ env_parent' = [env_parent EXCEPT ![e] = parent]
    /\ env_ipc_recving' = [env_ipc_recving EXCEPT ![e] = FALSE]
    /\ env_free_list' = env_free_list

env_alloc(e, parent) ==
    /\ env_free_list # <<>> /\ e = Head(env_free_list)
    /\ env_gen[e] < MaxGen /\ Uses < MaxUses
    /\ env_gen' = [env_gen EXCEPT ![e] = @ + 1]
    /\ env_parent' = [env_parent EXCEPT ![e] = parent]
    /\ env_ipc_recving' = [env_ipc_recving EXCEPT ![e] = FALSE]
    /\ env_free_list' = Tail(env_free_list)

(* Faulty: leaves the child RUNNABLE, as env_alloc made it.                *)
Faulty_exofork_runnable(c) ==
    /\ InSyscall(c)
    /\ \E e \in Envs :
          /\ env_alloc(e, EnvId(curenv[c]))
          /\ trap_return(c, [env_status EXCEPT ![e] = "RUNNABLE"],
                            [started EXCEPT ![e] = FALSE])
    /\ UNCHANGED env_cpunum

sys_exofork(c) ==
    /\ InSyscall(c)
    /\ \E e \in Envs :
          /\ env_alloc(e, EnvId(curenv[c]))
          /\ trap_return(c, [env_status EXCEPT ![e] = "NOT_RUNNABLE"],
                            [started EXCEPT ![e] = FALSE])
    /\ UNCHANGED env_cpunum

sys_env_set_status(c, e, s) ==
    /\ InSyscall(c)
    /\ MayControl(c, e)
    /\ trap_return(c, [env_status EXCEPT ![e] = s], started)
    /\ UNCHANGED <<env_cpunum, envVars>>

(* env_destroy of an environment that runs on another CPU only marks it.   *)
env_destroy(c, e) ==
    \/ /\ env_status[e] = "RUNNING" /\ curenv[c] # e
       /\ trap_return(c, [env_status EXCEPT ![e] = "DYING"], started)
       /\ UNCHANGED <<env_cpunum, envVars>>
    \/ /\ ~(env_status[e] = "RUNNING") /\ curenv[c] # e
       /\ env_free(e)
       /\ trap_return(c, Freed(e), started)
       /\ UNCHANGED <<env_gen, env_parent, env_ipc_recving, env_cpunum>>
    \/ /\ curenv[c] = e
       /\ FreeSelf(c)

sys_env_destroy(c, e) ==
    /\ InSyscall(c)
    /\ MayControl(c, e)
    /\ env_destroy(c, e)

(* The successful send: the receiver stops receiving and becomes runnable. *)
sys_ipc_try_send(c, e) ==
    /\ InSyscall(c)
    /\ env_status[e] # "FREE" /\ env_ipc_recving[e]
    /\ env_ipc_recving' = [env_ipc_recving EXCEPT ![e] = FALSE]
    /\ trap_return(c, [env_status EXCEPT ![e] = "RUNNABLE"], started)
    /\ UNCHANGED <<env_cpunum, env_gen, env_parent, env_free_list>>

sys_ipc_recv(c) ==
    /\ InSyscall(c)
    /\ env_ipc_recving' = [env_ipc_recving EXCEPT ![curenv[c]] = TRUE]
    /\ sched_yield(c, [env_status EXCEPT ![curenv[c]] = "NOT_RUNNABLE"],
                   curenv[c], started)
    /\ UNCHANGED <<env_cpunum, env_gen, env_parent, env_free_list>>

-----------------------------------------------------------------------------
(* What user programs call.  fork, spawn and dumbfork start a child once,  *)
(* right after sys_exofork, and destroy a child at most once.  The kernel  *)
(* does not enforce either rule.                                           *)

StartChild(c, e) ==
    /\ e # curenv[c] /\ env_status[e] = "NOT_RUNNABLE" /\ ~started[e]
    /\ sys_env_set_status(c, e, "RUNNABLE")

DestroyOnce(c, e) ==
    /\ env_status[e] # "DYING"
    /\ sys_env_destroy(c, e)

(* The steps every user program may cause, rules or not.                   *)
Common(c) ==
    \/ TimerIrq(c) \/ UserTrap(c) \/ env_pop_tf(c)
    \/ Resched(c) \/ ReapZombie(c) \/ Timer(c)
    \/ SysNoEffect(c) \/ sys_yield(c) \/ sys_exofork(c) \/ sys_ipc_recv(c)
    \/ \E e \in Envs : sys_ipc_try_send(c, e)

(* while (1) monitor(NULL): the loop goes on, the state does not change.   *)
MonitorLoop(c) == mode[c] = "monitor" /\ UNCHANGED vars

Next ==
    \E c \in CPUs :
       \/ Common(c)
       \/ MonitorLoop(c)
       \/ \E e \in Envs : StartChild(c, e) \/ DestroyOnce(c, e)

(* Programs that break one rule each, as the kernel lets them: destroying  *)
(* a zombie again, and setting the status of any child at any time.        *)
RekillNext ==
    \/ Next
    \/ \E c \in CPUs, e \in Envs : sys_env_destroy(c, e)

RestartNext ==
    \/ Next
    \/ \E c \in CPUs, e \in Envs, s \in {"RUNNABLE", "NOT_RUNNABLE"} :
          sys_env_set_status(c, e, s)

Spec == Init /\ [][Next]_vars
RekillSpec == Init /\ [][RekillNext]_vars
RestartSpec == Init /\ [][RestartNext]_vars

-----------------------------------------------------------------------------
(* Properties.                                                             *)

OnCpu == {"RUNNING", "DYING"}

(* The CPUs whose curenv is e.                                             *)
Holders(e) == {c \in CPUs : curenv[c] = e}

(* Two CPUs never run the same environment: sched_yield never chooses one  *)
(* that runs on another CPU (sched.c:26, user/stresssched.c:25).           *)
OneCpuPerEnv ==
    \A c, d \in CPUs : c # d /\ curenv[c] = curenv[d] => curenv[c] = None

(* An environment is RUNNING or a zombie exactly while it is the curenv of *)
(* a CPU.  A CPU in the monitor keeps a stale curenv.                      *)
CurenvIsOnCpu ==
    /\ \A c \in CPUs : mode[c] # "monitor" /\ curenv[c] # None
                          => env_status[curenv[c]] \in OnCpu
    /\ \A e \in Envs : env_status[e] \in OnCpu => Holders(e) # {}

(* No CPU has the page table of a freed environment loaded: env_free,      *)
(* env_run and sched_halt switch cr3 before the table can be reused.       *)
NoFreedAddressSpace ==
    \A c \in CPUs : cr3[c] # None => /\ env_status[cr3[c]] # "FREE"
                                    /\ cr3[c] = curenv[c]

(* The free list holds every free slot once and nothing else: env_alloc    *)
(* and env_free neither lose a slot nor hand one out twice.                *)
FreeListExact ==
    /\ \A i, j \in 1..Len(env_free_list) :
          env_free_list[i] = env_free_list[j] => i = j
    /\ \A e \in Envs : env_status[e] = "FREE" <=>
          \E i \in 1..Len(env_free_list) : env_free_list[i] = e

(* Once it has run, an environment is NOT_RUNNABLE exactly while it is     *)
(* blocked in sys_ipc_recv: no wakeup is lost between recv and try_send,   *)
(* and no running environment is taken for a receiver.                     *)
BlockedIffReceiving ==
    \A e \in Envs : env_status[e] # "FREE" =>
        (env_ipc_recving[e] <=> env_status[e] = "NOT_RUNNABLE" /\ started[e])

(* A parent id that still resolves names an environment that has run: the  *)
(* generation in env_id keeps the next tenant of a slot from inheriting    *)
(* the children of the last one.                                           *)
ParentHasRun ==
    \A e, p \in Envs :
        /\ env_status[e] # "FREE" /\ env_status[p] # "FREE"
        /\ env_parent[e] = EnvId(p)
        => started[p] /\ p # e

(* The kernel falls into the monitor only when every CPU has left its      *)
(* environment and nothing is left to run (sched.c:61).                    *)
MonitorOnlyWhenIdle ==
    \A c \in CPUs : mode[c] = "monitor" =>
        /\ \A e \in Envs : env_status[e] \in {"FREE", "NOT_RUNNABLE"}
        /\ \A d \in CPUs \ {c} : mode[d] \in {"halt", "sched"} /\ curenv[d] = None

(* In user mode thisenv->env_cpunum is the CPU the code runs on, although  *)
(* env_pop_tf writes it after the lock is released.                        *)
CpunumIsCurrent ==
    \A c \in CPUs : mode[c] = "user" => env_cpunum[curenv[c]] = c

(* A zombie leaves only by being freed, and by the CPU it runs on, at its  *)
(* next trap (env.c:508-510).                                              *)
ZombieFreedByItsCpu ==
    [][\A e \in Envs : env_status[e] = "DYING" /\ env_status'[e] # "DYING" =>
          /\ env_status'[e] = "FREE"
          /\ \E c \in CPUs : curenv[c] = e /\ mode[c] # "user" /\ curenv'[c] # e]_vars

(* The life of an environment as a reader of env.c understands it, and the *)
(* promise that every kernel section is a step of that life cycle.         *)
lifeOf == [e \in Envs |->
    CASE env_status[e] = "FREE" -> "absent"
      [] env_status[e] = "DYING" -> "zombie"
      [] env_status[e] = "RUNNABLE" -> "ready"
      [] env_status[e] = "RUNNING" -> "running"
      [] env_status[e] = "NOT_RUNNABLE" /\ ~started[e] -> "embryo"
      [] env_status[e] = "NOT_RUNNABLE" /\ started[e] -> "blocked"]

cpuOf == [e \in Envs |->
    IF env_status[e] \in OnCpu /\ Holders(e) # {}
    THEN CHOOSE c \in CPUs : curenv[c] = e ELSE None]

L == INSTANCE EnvLife WITH life <- lifeOf

(* EnvSched implements EnvLife.                                            *)
Life == L!LifeSpec

-----------------------------------------------------------------------------
(* Fairness: a CPU in the kernel goes on; some CPU gets a free lock (the   *)
(* xchg loop of spin_lock promises no more); the timer of every CPU fires, *)
(* and a pending timer interrupt is taken as soon as user mode opens       *)
(* interrupts again, whatever the program does in between.                 *)

Section(c) ==
    \/ Resched(c) \/ ReapZombie(c) \/ Timer(c)
    \/ SysNoEffect(c) \/ sys_yield(c) \/ sys_exofork(c) \/ sys_ipc_recv(c)
    \/ \E e \in Envs : sys_ipc_try_send(c, e) \/ StartChild(c, e) \/ DestroyOnce(c, e)

Fairness ==
    /\ \A c \in CPUs : WF_vars(env_pop_tf(c)) /\ SF_vars(TimerIrq(c))
    /\ WF_vars(\E c \in CPUs : Section(c))

FairSpec == Spec /\ Fairness

(* Every runnable environment gets a CPU (or is destroyed): the circular   *)
(* scan of sched_yield starves nobody.                                     *)
RunnableRuns ==
    \A e \in Envs : (env_status[e] = "RUNNABLE") ~> (env_status[e] # "RUNNABLE")
=============================================================================

--------------------------------- MODULE Tlb ---------------------------------
(***************************************************************************)
(* Page tables and the TLB of each CPU.  tlb_invalidate acts on the CPU    *)
(* that runs the system call only, and env_run loads cr3, which empties    *)
(* that CPU's TLB, on every return to user mode.  Kernel sections are      *)
(* atomic: they hold the big kernel lock.                                  *)
(***************************************************************************)
EXTENDS Naturals, FiniteSets

CONSTANTS
    CPUs, Envs, VAs, Pages,
    None

ASSUME TlbAssumption == None \notin Envs \cup Pages

VARIABLES
    curenv,    \* [CPUs -> Envs or None]
    user,      \* the CPUs in user mode
    pt,        \* [Envs -> [VAs -> Pages or None]], the page tables
    tlb        \* [CPUs -> [VAs -> Pages or None]], the translations cached

vars == <<curenv, user, pt, tlb>>

Empty == [va \in VAs |-> None]

TypeOK ==
    /\ curenv \in [CPUs -> Envs \cup {None}]
    /\ user \in SUBSET CPUs /\ \A c \in user : curenv[c] # None
    /\ pt \in [Envs -> [VAs -> Pages \cup {None}]]
    /\ tlb \in [CPUs -> [VAs -> Pages \cup {None}]]

Init ==
    /\ curenv = [c \in CPUs |-> None]
    /\ user = {}
    /\ pt = [e \in Envs |-> Empty]
    /\ tlb = [c \in CPUs |-> Empty]

OnCpu(e) == \E c \in CPUs : curenv[c] = e
InUse == {pt[x[1]][x[2]] : x \in Envs \X VAs}

(* Faulty: cr3 is left alone.                                              *)
Faulty_env_run(c, e) ==
    /\ c \notin user
    /\ curenv[c] = e \/ ~OnCpu(e)
    /\ curenv' = [curenv EXCEPT ![c] = e]
    /\ user' = user \cup {c}
    /\ UNCHANGED <<pt, tlb>>

env_run(c, e) ==
    /\ c \notin user
    /\ curenv[c] = e \/ ~OnCpu(e)
    /\ curenv' = [curenv EXCEPT ![c] = e]
    /\ user' = user \cup {c}
    /\ tlb' = [tlb EXCEPT ![c] = Empty]
    /\ UNCHANGED pt

(* sched_halt: no current environment, the kernel's own page tables.       *)
sched_halt(c) ==
    /\ c \notin user
    /\ curenv' = [curenv EXCEPT ![c] = None]
    /\ tlb' = [tlb EXCEPT ![c] = Empty]
    /\ UNCHANGED <<user, pt>>

Trap(c) ==
    /\ c \in user
    /\ user' = user \ {c}
    /\ UNCHANGED <<curenv, pt, tlb>>

(* The processor walks the page table at an access and may keep, or drop,  *)
(* what it finds.                                                          *)
Access(c, va) ==
    /\ c \in user /\ tlb[c][va] = None /\ pt[curenv[c]][va] # None
    /\ tlb' = [tlb EXCEPT ![c][va] = pt[curenv[c]][va]]
    /\ UNCHANGED <<curenv, user, pt>>

Evict(c, va) ==
    /\ tlb' = [tlb EXCEPT ![c][va] = None]
    /\ UNCHANGED <<curenv, user, pt>>

tlb_invalidate(c, e, va) ==
    tlb' = IF curenv[c] \in {None, e} THEN [tlb EXCEPT ![c][va] = None] ELSE tlb

(* The environment of CPU c makes a system call.  envid2env lets it change *)
(* its own mappings and those of a child, which may be running elsewhere;  *)
(* which environment is whose child is left open.                          *)
MayCall(c) == c \notin user /\ curenv[c] # None

(* page_insert of a new page: sys_page_alloc.                              *)
sys_page_alloc(c, e, va) ==
    /\ MayCall(c)
    /\ \E p \in Pages \ InUse : pt' = [pt EXCEPT ![e][va] = p]
    /\ tlb_invalidate(c, e, va)
    /\ UNCHANGED <<curenv, user>>

(* page_insert of a page mapped elsewhere: sys_page_map and the page       *)
(* transfer of sys_ipc_try_send.                                           *)
sys_page_map(c, src, dst, e, va) ==
    /\ MayCall(c) /\ pt[src][dst] # None
    /\ pt' = [pt EXCEPT ![e][va] = pt[src][dst]]
    /\ tlb_invalidate(c, e, va)
    /\ UNCHANGED <<curenv, user>>

sys_page_unmap(c, e, va) ==
    /\ MayCall(c) /\ pt[e][va] # None
    /\ pt' = [pt EXCEPT ![e][va] = None]
    /\ tlb_invalidate(c, e, va)
    /\ UNCHANGED <<curenv, user>>

(* An environment on a CPU is freed by that CPU, which leaves its page     *)
(* tables (lcr3(boot_cr3)) and halts or picks another.                     *)
env_free(c, e) ==
    /\ c \notin user
    /\ curenv[c] = e \/ ~OnCpu(e)
    /\ pt' = [pt EXCEPT ![e] = Empty]
    /\ curenv' = [curenv EXCEPT ![c] = IF @ = e THEN None ELSE @]
    /\ tlb' = IF curenv[c] = e THEN [tlb EXCEPT ![c] = Empty] ELSE tlb
    /\ UNCHANGED user

Next ==
    \E c \in CPUs :
       \/ sched_halt(c) \/ Trap(c)
       \/ \E va \in VAs : Access(c, va) \/ Evict(c, va)
       \/ \E e \in Envs :
             \/ env_run(c, e) \/ env_free(c, e)
             \/ \E va \in VAs :
                   \/ sys_page_alloc(c, e, va) \/ sys_page_unmap(c, e, va)
                   \/ \E src \in Envs, dst \in VAs : sys_page_map(c, src, dst, e, va)

Spec == Init /\ [][Next]_vars

-----------------------------------------------------------------------------
(* CPU c, in user mode, would use a translation for va that the page      *)
(* table of its environment no longer holds.                               *)
Stale(c, va) ==
    c \in user /\ tlb[c][va] # None /\ tlb[c][va] # pt[curenv[c]][va]

ChangesMapping(c, e, va) ==
    \/ sys_page_alloc(c, e, va) \/ sys_page_unmap(c, e, va)
    \/ \E src \in Envs, dst \in VAs : sys_page_map(c, src, dst, e, va)

(* A translation in use goes stale in one way only: another CPU changes    *)
(* that very mapping of the environment while it runs, which no shootdown  *)
(* tells (tlb_invalidate, pmap.c:785).  Neither the program's own system   *)
(* calls, nor a switch, nor the end of an environment, nor a change made   *)
(* while it was in the kernel or off the CPU leaves one: env_run reloads   *)
(* cr3, and env_free does not free what another CPU runs.                  *)
StaleOnlyByRemoteCall ==
    [][\A c \in CPUs, va \in VAs : Stale(c, va)' /\ ~Stale(c, va) =>
          \E d \in CPUs \ {c} : ChangesMapping(d, curenv[c], va)]_vars

(* What a shootdown would add: a program reaches no page, which may be     *)
(* free or another's by then, through a stale translation.                 *)
NoStaleAccess == \A c \in CPUs, va \in VAs : ~Stale(c, va)
=============================================================================

-------------------------------- MODULE Boot --------------------------------
(***************************************************************************)
(* The start of the other processors (kern/init.c, kern/mpentry.S) and the *)
(* state each CPU publishes about itself, over the big kernel lock.        *)
(*                                                                         *)
(* The boot processor takes the lock, then starts the others one by one:   *)
(* all read their first stack pointer from one variable, mpentry_kstack,   *)
(* and it goes on when cpu_status says CPU_STARTED.  A started CPU waits   *)
(* for the lock, then schedules; a CPU with nothing to run says CPU_HALTED *)
(* and gives the lock back (kern/sched.c), and its next interrupt says     *)
(* CPU_STARTED again (kern/trap.c).                                        *)
(***************************************************************************)
EXTENDS Spinlock

CONSTANT BSP    \* the boot processor

ASSUME BspIsCpu == BSP \in CPUs

VARIABLES
    boot,           \* i386_init: "lock", "tell", "wait", "done"
    target,         \* the CPU that boot_aps starts
    mpentry_kstack, \* the CPU whose stack it points to
    entry,          \* [CPUs -> "off" | "entry" | "setup" | "up"]
    rsp,            \* [CPUs -> the CPU on whose stack it runs]
    cpu_status      \* [CPUs -> "unused" | "started" | "halted"]

bootVars == <<boot, target, mpentry_kstack, entry, rsp, cpu_status>>

BootInit ==
    /\ Init
    /\ boot = "lock" /\ target = None /\ mpentry_kstack = None
    /\ entry = [c \in CPUs |-> IF c = BSP THEN "up" ELSE "off"]
    /\ rsp = [c \in CPUs |-> IF c = BSP THEN c ELSE None]
    /\ cpu_status = [c \in CPUs |-> IF c = BSP THEN "started" ELSE "unused"]

(* Faulty: the lock is taken after boot_aps.                               *)
Faulty_MayBoot == TRUE

(* i386_init has the lock before it calls boot_aps.                        *)
MayBoot == pc[BSP] = "crit"

(* boot_aps: the next CPU's stack is written down, then the CPU is woken.  *)
StartAp ==
    /\ MayBoot /\ boot \in {"lock", "tell"}
    /\ \E c \in CPUs :
          /\ entry[c] = "off"
          /\ target' = c /\ mpentry_kstack' = c
          /\ entry' = [entry EXCEPT ![c] = "entry"]
    /\ boot' = "wait"
    /\ UNCHANGED <<vars, rsp, cpu_status>>

(* Faulty: boot_aps does not wait.                                         *)
Faulty_SeenUp == TRUE

(* The loop on cpu_status ends.                                            *)
SeenUp == cpu_status[target] = "started"

ApIsUp ==
    /\ boot = "wait" /\ SeenUp
    /\ boot' = IF \E c \in CPUs : entry[c] = "off" THEN "tell" ELSE "done"
    /\ UNCHANGED <<vars, target, mpentry_kstack, entry, rsp, cpu_status>>

(* mpentry.S switches to the stack; mp_main sets the CPU up and says so.   *)
LoadStack(c) ==
    /\ entry[c] = "entry" /\ entry' = [entry EXCEPT ![c] = "setup"]
    /\ rsp' = [rsp EXCEPT ![c] = mpentry_kstack]
    /\ UNCHANGED <<vars, boot, target, mpentry_kstack, cpu_status>>

mp_main(c) ==
    /\ entry[c] = "setup" /\ entry' = [entry EXCEPT ![c] = "up"]
    /\ cpu_status' = [cpu_status EXCEPT ![c] = "started"]
    /\ UNCHANGED <<vars, boot, target, mpentry_kstack, rsp>>

(* The boot processor is in i386_init until the others are up.             *)
Booting(c) == c = BSP /\ boot # "done"

(* Into the kernel: by mp_main or i386_init, or by a trap, which marks the *)
(* CPU.                                                                    *)
trap(c) ==
    /\ Call(c)
    /\ cpu_status' = [cpu_status EXCEPT ![c] = "started"]
    /\ UNCHANGED <<boot, target, mpentry_kstack, entry, rsp>>

(* Out of the kernel, to an environment or, with none to run, to halt.     *)
LeaveKernel(c) ==
    /\ ~Booting(c) /\ Leave(c)
    /\ \/ UNCHANGED cpu_status
       \/ cpu_status' = [cpu_status EXCEPT ![c] = "halted"]
    /\ UNCHANGED <<boot, target, mpentry_kstack, entry, rsp>>

(* The steps of spin_lock and spin_unlock.                                 *)
InLock(c) ==
    /\ \/ TryLocked(c) \/ TryCpu(c) \/ Xchg(c) \/ Own(c)
       \/ ChkLocked(c) \/ ChkCpu(c) \/ Clear(c) \/ ReleaseXchg(c)
    /\ UNCHANGED bootVars

CpuStep(c) ==
    \/ LoadStack(c) \/ mp_main(c)
    \/ entry[c] = "up" /\ (LeaveKernel(c) \/ InLock(c))
    \/ c = BSP /\ (StartAp \/ ApIsUp)

BootNext ==
    \E c \in CPUs :
        \/ CpuStep(c)
        \/ entry[c] = "up" /\ trap(c)
        \/ Flush(c) /\ UNCHANGED bootVars

(* As for the lock alone: CPUs keep executing.  The boot processor enters  *)
(* i386_init; of the others none is bound to trap.                         *)
BootSpec ==
    /\ BootInit /\ [][BootNext]_<<vars, bootVars>>
    /\ \A c \in CPUs : WF_<<vars, bootVars>>(CpuStep(c))
    /\ WF_<<vars, bootVars>>(boot = "lock" /\ trap(BSP))

-----------------------------------------------------------------------------
(* Every CPU runs on its own kernel stack, though all read it from one     *)
(* variable (init.c:96).                                                   *)
OwnStack == \A c \in CPUs : rsp[c] \in {c, None}

(* Every CPU comes up, though the ones that are up may halt, and take back *)
(* the CPU_STARTED that boot_aps waits for: the lock keeps them from it.   *)
BootEnds == <>(boot = "done")
=============================================================================

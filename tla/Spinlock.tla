----------------------------- MODULE Spinlock -----------------------------
(***************************************************************************)
(* kern/spinlock.c with DEBUG_SPINLOCK, the big kernel lock, one memory    *)
(* access per step.  The debug fields are read by CPUs that do not hold    *)
(* the lock: holding() is evaluated before the xchg loop of spin_lock.     *)
(*                                                                         *)
(* Memory is x86-TSO: a plain store waits in the CPU's FIFO store buffer,  *)
(* the CPU reads its own buffered stores, and the locked xchg drains the   *)
(* buffer and acts at once on memory.                                      *)
(***************************************************************************)
EXTENDS Naturals, Sequences

CONSTANTS CPUs, None

ASSUME NoneIsNoCpu == None \notin CPUs

(* "out": elsewhere.  spin_lock: "tryLocked" and "tryCpu" evaluate         *)
(* holding(), "spin" is the xchg loop, "own" the store to lk->cpu.         *)
(* "crit": the section.  spin_unlock: "chkLocked" and "chkCpu" evaluate    *)
(* holding(), "clear" the store to lk->cpu, "release" the last xchg.       *)
Places == {"out", "tryLocked", "tryCpu", "spin", "own", "crit",
           "chkLocked", "chkCpu", "clear", "release", "panic"}

VARIABLES
    locked,    \* lk->locked
    cpu,       \* lk->cpu
    buf,       \* [CPUs -> Seq]: buffered stores to lk->cpu, oldest first
    pc         \* [CPUs -> Places]

vars == <<locked, cpu, buf, pc>>

TypeOK ==
    /\ locked \in {0, 1}
    /\ cpu \in CPUs \cup {None}
    /\ buf \in [CPUs -> Seq(CPUs \cup {None})]
    /\ pc \in [CPUs -> Places]

Init ==
    /\ locked = 0
    /\ cpu = None
    /\ buf = [c \in CPUs |-> <<>>]
    /\ pc = [c \in CPUs |-> "out"]

Go(c, from, to) == pc[c] = from /\ pc' = [pc EXCEPT ![c] = to]

(* lk->cpu as CPU c reads it, and as memory is left when c's buffer drains *)
ReadCpu(c) == IF buf[c] = <<>> THEN cpu ELSE buf[c][Len(buf[c])]

Drain(c) ==
    /\ cpu' = ReadCpu(c)
    /\ buf' = [buf EXCEPT ![c] = <<>>]

StoreCpu(c, v) == buf' = [buf EXCEPT ![c] = Append(@, v)] /\ cpu' = cpu

Flush(c) ==
    /\ buf[c] # <<>>
    /\ cpu' = Head(buf[c])
    /\ buf' = [buf EXCEPT ![c] = Tail(@)]
    /\ UNCHANGED <<locked, pc>>

-----------------------------------------------------------------------------
Call(c) == Go(c, "out", "tryLocked") /\ UNCHANGED <<locked, cpu, buf>>

TryLocked(c) ==
    /\ IF locked = 1 THEN Go(c, "tryLocked", "tryCpu") ELSE Go(c, "tryLocked", "spin")
    /\ UNCHANGED <<locked, cpu, buf>>

TryCpu(c) ==
    /\ IF ReadCpu(c) = c THEN Go(c, "tryCpu", "panic") ELSE Go(c, "tryCpu", "spin")
    /\ UNCHANGED <<locked, cpu, buf>>

(* Faulty: the xchg result is not looked at.                               *)
Faulty_no_spin(c) ==
    /\ Go(c, "spin", "own")
    /\ locked' = 1
    /\ Drain(c)

(* The xchg that finds the lock free; one that does not changes nothing    *)
(* but drains the buffer.                                                  *)
Xchg(c) ==
    /\ Drain(c)
    /\ locked' = 1
    /\ IF locked = 0 THEN Go(c, "spin", "own") ELSE pc[c] = "spin" /\ pc' = pc

Own(c) ==
    /\ Go(c, "own", "crit")
    /\ StoreCpu(c, c)
    /\ UNCHANGED locked

-----------------------------------------------------------------------------
Leave(c) == Go(c, "crit", "chkLocked") /\ UNCHANGED <<locked, cpu, buf>>

ChkLocked(c) ==
    /\ IF locked = 1 THEN Go(c, "chkLocked", "chkCpu") ELSE Go(c, "chkLocked", "panic")
    /\ UNCHANGED <<locked, cpu, buf>>

ChkCpu(c) ==
    /\ IF ReadCpu(c) = c THEN Go(c, "chkCpu", "clear") ELSE Go(c, "chkCpu", "panic")
    /\ UNCHANGED <<locked, cpu, buf>>

(* Faulty: lk->cpu keeps the last holder.                                  *)
Faulty_keep_cpu(c) == Go(c, "clear", "release") /\ UNCHANGED <<locked, cpu, buf>>

Clear(c) ==
    /\ Go(c, "clear", "release")
    /\ StoreCpu(c, None)
    /\ UNCHANGED locked

(* Faulty: the lock word is not reset.                                     *)
Faulty_stays_locked(c) ==
    /\ Go(c, "release", "out")
    /\ locked' = 1
    /\ Drain(c)

ReleaseXchg(c) ==
    /\ Go(c, "release", "out")
    /\ locked' = 0
    /\ Drain(c)

Next == \E c \in CPUs :
    \/ Flush(c)
    \/ Call(c) \/ TryLocked(c) \/ TryCpu(c) \/ Xchg(c) \/ Own(c)
    \/ Leave(c) \/ ChkLocked(c) \/ ChkCpu(c) \/ Clear(c) \/ ReleaseXchg(c)

Spec == Init /\ [][Next]_vars

-----------------------------------------------------------------------------
(* From the successful xchg to the releasing one.                          *)
Inside == {"own", "crit", "chkLocked", "chkCpu", "clear", "release"}

(* One CPU at a time between the two xchgs, whatever the store buffers     *)
(* still hold (spinlock.c:68-70).                                          *)
MutualExclusion ==
    \A c, d \in CPUs : pc[c] \in Inside /\ pc[d] \in Inside => c = d

(* No debug check fires for CPUs that pair lock and unlock: holding() may  *)
(* read locked from one holder and cpu from another, and never confuses    *)
(* this CPU with either (spinlock.c:64, :86).                              *)
NoSpuriousPanic == \A c \in CPUs : pc[c] # "panic"

holderOf == IF \E c \in CPUs : pc[c] \in Inside
            THEN CHOOSE c \in CPUs : pc[c] \in Inside ELSE None

A == INSTANCE LockSpec WITH holder <- holderOf

(* Spinlock implements LockSpec.                                           *)
ImplementsLock == A!LockAbstract

-----------------------------------------------------------------------------
(* The lock never stays with nobody in while somebody waits: if a CPU is   *)
(* in the xchg loop, some CPU gets in.                                     *)
SomeoneEnters ==
    (\E c \in CPUs : pc[c] = "spin") ~> (\E c \in CPUs : pc[c] = "crit")
=============================================================================

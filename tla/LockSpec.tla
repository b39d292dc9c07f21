----------------------------- MODULE LockSpec -----------------------------
(* What a kernel lock promises: one holder at a time, taken when free and  *)
(* given back by its holder.  Spinlock implements it.                      *)
CONSTANTS CPUs, None

VARIABLE holder

Acquire(c) == holder = None /\ holder' = c
Release(c) == holder = c /\ holder' = None

LockInit == holder = None
LockNext == \E c \in CPUs : Acquire(c) \/ Release(c)
LockAbstract == LockInit /\ [][LockNext]_holder
=============================================================================

---------------------------- MODULE PrivateMem ----------------------------
(* What fork promises to programs: every environment has a memory of its   *)
(* own, a child starts with a copy of its parent's, and only PTE_SHARE     *)
(* pages are common.  CowFork implements it.                               *)
CONSTANTS Envs, Private, Stack, Vals, Gone

VARIABLES
    priv,     \* [Envs -> [Private -> Vals] \cup {Gone}]
    shm       \* the contents of the shared page

WriteOwn(e, va, v) ==
    /\ priv[e] # Gone
    /\ priv' = [priv EXCEPT ![e][va] = v]
    /\ shm' = shm

WriteShared(e, v) ==
    /\ priv[e] # Gone
    /\ shm' = v
    /\ priv' = priv

(* The child's stack is the parent's at some moment of the fork.           *)
Forked(p, c) ==
    /\ priv[p] # Gone /\ priv[c] = Gone
    /\ \E v \in Vals : priv' = [priv EXCEPT ![c] = [priv[p] EXCEPT ![Stack] = v]]
    /\ shm' = shm

Exited(e) ==
    /\ priv[e] # Gone
    /\ priv' = [priv EXCEPT ![e] = Gone]
    /\ shm' = shm \/ \A x \in Envs : priv'[x] = Gone

PrivateInit ==
    \E first \in Envs : \A e \in Envs : priv[e] = Gone <=> e # first

PrivateNext ==
    \/ \E e \in Envs, v \in Vals : WriteShared(e, v) \/ \E va \in Private : WriteOwn(e, va, v)
    \/ \E p, c \in Envs : Forked(p, c)
    \/ \E e \in Envs : Exited(e)

PrivateSpec == PrivateInit /\ [][PrivateNext]_<<priv, shm>>
=============================================================================

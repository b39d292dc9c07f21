-------------------------- MODULE PageTables_proofs -------------------------
(***************************************************************************)
(* Proofs about the three models of code that reads page tables, each for  *)
(* every value of its constants.                                           *)
(*                                                                         *)
(* Tlb: type correctness, and that only a system call of another CPU makes *)
(* a translation in use stale, for any number of CPUs and environments.    *)
(*                                                                         *)
(* ForkWalk: for tables of any size, those of the code included (512       *)
(* entries each), in the layout of JOS, the walk has copied what is below  *)
(* the page it stands at.  The index into uvpt may be behind when a        *)
(* page-directory pointer was missing; it is back in step before it is     *)
(* used, because the next page-directory entry is missing, too.            *)
(*                                                                         *)
(* Heap: for any heap, any page size and any requests, blocks are apart    *)
(* and counts are exact.  The inductive invariant HeapInv is stated of a   *)
(* heap, the blocks a program has and the place where malloc goes on, so   *)
(* that it can be said of the heap between the page that malloc leaves and *)
(* the one it takes.                                                       *)
(***************************************************************************)
EXTENDS Tlb, ForkWalk, Heap, FiniteSetTheorems, TLAPS

-----------------------------------------------------------------------------
(* Translations.                                                          *)

LEMMA InitType == Init => TypeOK
  BY DEF Init, TypeOK, Empty

LEMMA NextType == TypeOK /\ [Next]_vars => TypeOK'
<1> SUFFICES ASSUME TypeOK, [Next]_vars PROVE TypeOK'
  OBVIOUS
<1> USE DEF TypeOK, Empty
<1>1. ASSUME UNCHANGED vars PROVE TypeOK'
  BY <1>1 DEF vars
<1>2. ASSUME NEW c \in CPUs, sched_halt(c) PROVE TypeOK'
  BY <1>2 DEF sched_halt
<1>3. ASSUME NEW c \in CPUs, Trap(c) PROVE TypeOK'
  BY <1>3 DEF Trap
<1>4. ASSUME NEW c \in CPUs, NEW va \in VAs, Access(c, va) PROVE TypeOK'
  <2>1. pt[curenv[c]][va] \in Pages \cup {None}
    BY <1>4 DEF Access
  <2> QED BY <1>4, <2>1 DEF Access
<1>5. ASSUME NEW c \in CPUs, NEW va \in VAs, Evict(c, va) PROVE TypeOK'
  BY <1>5 DEF Evict
<1>6. ASSUME NEW c \in CPUs, NEW e \in Envs, env_run(c, e) PROVE TypeOK'
  BY <1>6, TlbAssumption DEF env_run
<1>7. ASSUME NEW c \in CPUs, NEW e \in Envs, env_free(c, e) PROVE TypeOK'
  <2>1. curenv' \in [CPUs -> Envs \cup {None}]
    BY <1>7 DEF env_free
  <2>2. pt' \in [Envs -> [VAs -> Pages \cup {None}]]
    BY <1>7 DEF env_free
  <2>3. tlb' \in [CPUs -> [VAs -> Pages \cup {None}]]
    BY <1>7 DEF env_free
  <2>4. \A d \in user' : curenv'[d] # None
    BY <1>7 DEF env_free
  <2> QED BY <1>7, <2>1, <2>2, <2>3, <2>4 DEF env_free
<1>8. ASSUME NEW c \in CPUs, NEW e \in Envs, NEW va \in VAs, tlb_invalidate(c, e, va)
      PROVE tlb' \in [CPUs -> [VAs -> Pages \cup {None}]]
  BY <1>8 DEF tlb_invalidate
<1>9. ASSUME NEW c \in CPUs, NEW e \in Envs, NEW va \in VAs, sys_page_alloc(c, e, va)
      PROVE TypeOK'
  BY <1>8, <1>9 DEF sys_page_alloc
<1>10. ASSUME NEW c \in CPUs, NEW e \in Envs, NEW va \in VAs, sys_page_unmap(c, e, va)
       PROVE TypeOK'
  BY <1>8, <1>10 DEF sys_page_unmap
<1>11. ASSUME NEW c \in CPUs, NEW e \in Envs, NEW va \in VAs, NEW src \in Envs, NEW dst \in VAs,
              sys_page_map(c, src, dst, e, va)
       PROVE TypeOK'
  <2>1. pt[src][dst] \in Pages \cup {None}
    OBVIOUS
  <2> QED BY <1>8, <1>11, <2>1 DEF sys_page_map
<1> QED
  BY <1>1, <1>2, <1>3, <1>4, <1>5, <1>6, <1>7, <1>9, <1>10, <1>11 DEF Next

(* Tlb is type-correct.                                                    *)
THEOREM TypeCorrect == Spec => []TypeOK
<1>1. TypeOK /\ [Next]_vars => TypeOK'
  BY NextType
<1> QED BY InitType, <1>1, PTL DEF Spec

-----------------------------------------------------------------------------
(* An environment is on one CPU, so that the CPU which frees it is the     *)
(* only one that can hold translations for it.                             *)
OneCpu == \A c, d \in CPUs : curenv[c] # None /\ curenv[c] = curenv[d] => c = d

IInv == TypeOK /\ OneCpu

LEMMA InitInv == Init => IInv
  BY InitType DEF Init, IInv, OneCpu

LEMMA OneCpuNext == TypeOK /\ OneCpu /\ [Next]_vars => OneCpu'
<1> SUFFICES ASSUME TypeOK, OneCpu, [Next]_vars PROVE OneCpu'
  OBVIOUS
<1> USE DEF TypeOK, OneCpu
<1>1. ASSUME UNCHANGED curenv PROVE OneCpu'
  BY <1>1
<1>2. ASSUME NEW c \in CPUs, sched_halt(c) PROVE OneCpu'
  BY <1>2 DEF sched_halt
<1>3. ASSUME NEW c \in CPUs, NEW e \in Envs, env_run(c, e) PROVE OneCpu'
  BY <1>3 DEF env_run, OnCpu
<1>4. ASSUME NEW c \in CPUs, NEW e \in Envs, env_free(c, e) PROVE OneCpu'
  BY <1>4 DEF env_free
<1> QED
  BY <1>1, <1>2, <1>3, <1>4
     DEF Next, vars, Trap, Access, Evict, sys_page_alloc, sys_page_unmap, sys_page_map

(* A translation of a CPU goes stale: in a change of e's page table at y   *)
(* by CPU c, the CPU is another one, which runs e, and the address is y.   *)
LEMMA ChangeMakesStale ==
    ASSUME TypeOK, NEW c \in CPUs, NEW e \in Envs, NEW y \in VAs, NEW p,
           MayCall(c), pt' = [pt EXCEPT ![e][y] = p],
           tlb_invalidate(c, e, y), UNCHANGED <<curenv, user>>,
           NEW d \in CPUs, NEW va \in VAs, Stale(d, va)', ~Stale(d, va)
    PROVE  c # d /\ curenv[d] = e /\ va = y
<1> USE DEF TypeOK
<1>1. d \in user /\ tlb'[d][va] # None /\ tlb'[d][va] # pt'[curenv[d]][va]
  BY DEF Stale
<1>2. c # d
  BY <1>1 DEF MayCall
<1>3. tlb'[d] = tlb[d]
  BY <1>2 DEF tlb_invalidate
<1>4. tlb[d][va] = pt[curenv[d]][va]
  BY <1>1, <1>3 DEF Stale
<1>5. curenv[d] \in Envs
  BY <1>1
<1>6. pt'[curenv[d]][va] # pt[curenv[d]][va]
  BY <1>1, <1>3, <1>4
<1> QED BY <1>2, <1>5, <1>6

LEMMA StaleNext ==
    ASSUME IInv, [Next]_vars,
           NEW d \in CPUs, NEW va \in VAs, Stale(d, va)', ~Stale(d, va)
    PROVE  \E c \in CPUs \ {d} : ChangesMapping(c, curenv[d], va)
<1> USE DEF IInv, TypeOK
<1>0. d \in user' /\ tlb'[d][va] # None /\ tlb'[d][va] # pt'[curenv'[d]][va]
  BY DEF Stale
<1>1. ASSUME UNCHANGED vars PROVE FALSE
  BY <1>0, <1>1 DEF vars, Stale
<1>2. ASSUME NEW c \in CPUs, sched_halt(c) PROVE FALSE
  BY <1>0, <1>2 DEF sched_halt, Stale, Empty
<1>3. ASSUME NEW c \in CPUs, Trap(c) PROVE FALSE
  BY <1>0, <1>3 DEF Trap, Stale
<1>4. ASSUME NEW c \in CPUs, NEW y \in VAs, Access(c, y) PROVE FALSE
  BY <1>0, <1>4 DEF Access, Stale
<1>5. ASSUME NEW c \in CPUs, NEW y \in VAs, Evict(c, y) PROVE FALSE
  BY <1>0, <1>5 DEF Evict, Stale
<1>6. ASSUME NEW c \in CPUs, NEW e \in Envs, env_run(c, e) PROVE FALSE
  BY <1>0, <1>6 DEF env_run, Stale, Empty
<1>7. ASSUME NEW c \in CPUs, NEW e \in Envs, env_free(c, e) PROVE FALSE
  <2>1. d \in user /\ d # c /\ curenv[d] \in Envs
    BY <1>0, <1>7 DEF env_free
  <2>2. curenv'[d] = curenv[d] /\ tlb'[d] = tlb[d]
    BY <1>7, <2>1 DEF env_free
  <2>3. curenv[d] # e
    BY <1>7, <2>1, TlbAssumption DEF env_free, OnCpu, OneCpu
  <2>4. pt'[curenv[d]] = pt[curenv[d]]
    BY <1>7, <2>1, <2>3 DEF env_free
  <2> QED BY <1>0, <2>1, <2>2, <2>4 DEF Stale
<1>8. ASSUME NEW c \in CPUs, NEW e \in Envs, NEW y \in VAs,
             \/ sys_page_alloc(c, e, y) \/ sys_page_unmap(c, e, y)
             \/ \E src \in Envs, dst \in VAs : sys_page_map(c, src, dst, e, y)
      PROVE  \E x \in CPUs \ {d} : ChangesMapping(x, curenv[d], va)
  <2>1. c # d /\ curenv[d] = e /\ va = y
    <3>1. CASE sys_page_alloc(c, e, y)
      BY <3>1, ChangeMakesStale DEF sys_page_alloc
    <3>2. CASE sys_page_unmap(c, e, y)
      BY <3>2, ChangeMakesStale DEF sys_page_unmap
    <3>3. ASSUME NEW src \in Envs, NEW dst \in VAs, sys_page_map(c, src, dst, e, y)
          PROVE  c # d /\ curenv[d] = e /\ va = y
      BY <3>3, ChangeMakesStale DEF sys_page_map
    <3> QED BY <1>8, <3>1, <3>2, <3>3
  <2>2. ChangesMapping(c, e, y)
    BY <1>8 DEF ChangesMapping
  <2> QED BY <2>1, <2>2
<1> QED
  BY <1>1, <1>2, <1>3, <1>4, <1>5, <1>6, <1>7, <1>8 DEF Next

(* A program uses a stale translation only if another CPU has changed that *)
(* mapping of its environment since it last returned to user mode: the     *)
(* reload of cr3 in env_run does all but what a shootdown would do.        *)
THEOREM StaleOnlyByCall == Spec => StaleOnlyByRemoteCall
<1>1. IInv /\ [Next]_vars => IInv'
  BY NextType, OneCpuNext DEF IInv
<1>2. IInv /\ [Next]_vars =>
        [\A c \in CPUs, va \in VAs : Stale(c, va)' /\ ~Stale(c, va) =>
            \E d \in CPUs \ {c} : ChangesMapping(d, curenv[c], va)]_vars
  BY StaleNext
<1> QED BY InitInv, <1>1, <1>2, PTL DEF Spec, StaleOnlyByRemoteCall

-----------------------------------------------------------------------------
(* The walk of fork.                                                      *)

(* An entry has a parent.                                                  *)
Closed ==
    /\ tables.pdp \subseteq Pdpes /\ tables.pd \subseteq Pdes /\ tables.pt \subseteq Ptes
    /\ \A i \in tables.pd : i \div NPD \in tables.pdp
    /\ \A i \in tables.pt : i \div NPT \in tables.pd

Counters ==
    /\ pdpe \in 0..NPDP /\ pde \in 0..NPD /\ pte \in 0..NPT
    /\ each_pdpe \in Nat /\ each_pde \in Nat /\ each_pte \in Nat
    /\ pc \in {"pdpe", "pde", "pte", "done"}

(* Where the loops are, and what the running indices are there.            *)
Loops ==
    /\ each_pdpe = pdpe
    /\ pc \in {"pdpe", "done"} => each_pde = pdpe * NPD
    /\ pc \in {"pde", "pte"} => /\ pdpe < NPDP /\ pdpe \in tables.pdp
                                /\ each_pde = pdpe * NPD + pde
    /\ pc = "pte" => /\ pde < NPD /\ each_pde \in tables.pd
                     /\ each_pte = each_pde * NPT + pte
    /\ pc = "done" => pdpe = NPDP

(* The index into uvpt is in step, or the next entry will bring it back.   *)
InStep ==
    /\ pc = "pdpe" => \/ each_pte = each_pde * NPT
                      \/ pdpe \in tables.pdp => each_pde \notin tables.pd
    /\ pc = "pde" => \/ each_pte = each_pde * NPT
                     \/ pde = 0 /\ each_pde \notin tables.pd

Frontier == IF pc = "pte" THEN each_pte ELSE each_pde * NPT

Done(f) == {p \in tables.pt \ {UXStack} : p < f}

WalkInv ==
    /\ Closed /\ JosLayout(tables) /\ Counters /\ Loops /\ InStep
    /\ copied = Done(Frontier)

-----------------------------------------------------------------------------
LEMMA WalkSizes ==
    NPDP \in Nat \ {0} /\ NPD \in Nat \ {0} /\ NPT \in Nat \ {0} /\ UXStack \in Nat
BY ForkWalkAssumption

(* Products.                                                               *)
LEMMA Monotone ==
    ASSUME NEW n \in Nat, NEW a \in Nat, NEW b \in Nat, a <= b
    PROVE  a * n \in Nat /\ a * n <= b * n /\ (a + 1) * n = a * n + n
OBVIOUS

(* An entry of a table is in the range of its parent's.                    *)
LEMMA Quotient ==
    ASSUME NEW n \in Nat \ {0}, NEW x \in Nat, NEW a \in Nat, NEW b \in Nat,
           a * n <= x, x < b * n
    PROVE  x \div n \in Nat /\ a <= x \div n /\ x \div n < b
<1> DEFINE q == x \div n
<1>1. q \in Nat /\ q * n <= x /\ x < q * n + n
  OBVIOUS
<1> HIDE DEF q
<1>2. (q + 1) * n = q * n + n
  BY <1>1
<1>3. a <= q
  <2> SUFFICES ASSUME q + 1 <= a PROVE FALSE
    BY <1>1
  <2>1. (q + 1) * n <= a * n
    BY <1>1, Monotone
  <2>2. a * n \in Nat /\ q * n \in Nat
    BY <1>1
  <2>3. QED
    BY <1>1, <1>2, <2>1, <2>2
<1>4. q < b
  <2> SUFFICES ASSUME b <= q PROVE FALSE
    BY <1>1
  <2>1. b * n <= q * n
    BY <1>1, Monotone
  <2>2. b * n \in Nat /\ q * n \in Nat
    BY <1>1
  <2>3. QED
    BY <1>1, <2>1, <2>2
<1>5. QED
  BY <1>1, <1>3, <1>4 DEF q

(* A missing table has no pages, a missing directory none either.          *)
LEMMA NoPages ==
    ASSUME Closed, NEW d \in Nat, d \notin tables.pd
    PROVE  \A p \in tables.pt : p < d * NPT \/ p >= (d + 1) * NPT
<1> SUFFICES ASSUME NEW p \in tables.pt, ~(p < d * NPT), ~(p >= (d + 1) * NPT) PROVE FALSE
  OBVIOUS
<1>1. p \in Nat /\ d * NPT \in Nat /\ (d + 1) * NPT \in Nat
  BY WalkSizes DEF Closed, Ptes
<1>2. d * NPT <= p /\ p < (d + 1) * NPT
  BY <1>1
<1>3. p \div NPT \in Nat /\ d <= p \div NPT /\ p \div NPT < d + 1
  <2>1. NPT \in Nat \ {0} /\ p \in Nat /\ d \in Nat /\ d + 1 \in Nat
    BY <1>1, WalkSizes
  <2>2. QED
    BY <1>2, <2>1, Quotient
<1>4. PICK q \in Nat : q = p \div NPT
  BY <1>3
<1>5. q = d
  BY <1>3, <1>4
<1>6. p \div NPT \in tables.pd
  BY DEF Closed
<1>7. QED
  BY <1>4, <1>5, <1>6, Zenon

LEMMA NoDirectory ==
    ASSUME Closed, NEW i \in Nat, i \notin tables.pdp
    PROVE  \A p \in tables.pt : p < (i * NPD) * NPT \/ p >= ((i + 1) * NPD) * NPT
<1> SUFFICES ASSUME NEW p \in tables.pt,
                    ~(p < (i * NPD) * NPT), ~(p >= ((i + 1) * NPD) * NPT)
             PROVE  FALSE
  OBVIOUS
<1>1. p \in Nat /\ i * NPD \in Nat /\ (i + 1) * NPD \in Nat
  BY WalkSizes DEF Closed, Ptes
<1>2. (i * NPD) * NPT \in Nat /\ ((i + 1) * NPD) * NPT \in Nat
  BY <1>1, WalkSizes
<1>3. (i * NPD) * NPT <= p /\ p < ((i + 1) * NPD) * NPT
  BY <1>1, <1>2
<1>4. PICK d \in Nat : d = p \div NPT /\ i * NPD <= d /\ d < (i + 1) * NPD
  BY <1>1, <1>3, Quotient, WalkSizes
<1>5. d \div NPD \in Nat /\ i <= d \div NPD /\ d \div NPD < i + 1
  BY <1>4, Quotient, WalkSizes
<1>6. d \div NPD = i
  BY <1>5
<1>7. QED
  BY <1>4, <1>6 DEF Closed

-----------------------------------------------------------------------------
LEMMA WalkInitInv == WalkInit => WalkInv
<1> SUFFICES ASSUME WalkInit PROVE WalkInv
  OBVIOUS
<1>1. Closed
  BY DEF WalkInit, AnyTables, Closed
<1>2. Counters /\ Loops
  BY WalkSizes DEF WalkInit, WalkStart, Counters, Loops
<1>3. InStep
  BY WalkSizes DEF WalkInit, WalkStart, InStep
<1>4. \A p \in tables.pt : p \in Nat
  BY <1>1 DEF Closed, Ptes
<1>5. copied = Done(Frontier)
  BY <1>4, WalkSizes DEF WalkInit, WalkStart, Frontier, Done
<1>6. QED
  BY <1>1, <1>2, <1>3, <1>5 DEF WalkInit, WalkInv

(* The test of the outer loop.                                             *)
LEMMA PdpeInv == ASSUME WalkInv, PdpeLoop PROVE WalkInv'
<1>1. /\ pc = "pdpe" /\ each_pdpe = pdpe /\ each_pde = pdpe * NPD /\ pdpe \in 0..NPDP
      /\ UNCHANGED <<tables, pte, each_pte, copied>>
  BY DEF PdpeLoop, WalkInv, Loops, Counters
<1>2. Closed' /\ JosLayout(tables)'
  BY <1>1 DEF WalkInv, Closed, JosLayout
<1>3. CASE pdpe = NPDP
  <2>1. pc' = "done" /\ UNCHANGED <<pdpe, pde, each_pdpe, each_pde>>
    BY <1>3 DEF PdpeLoop
  <2>2. QED
    BY <1>1, <1>2, <1>3, <2>1 DEF WalkInv, Counters, Loops, InStep, Frontier, Done
<1>4. CASE pdpe # NPDP /\ pdpe \in tables.pdp
  <2>1. pc' = "pde" /\ pde' = 0 /\ UNCHANGED <<pdpe, each_pdpe, each_pde>>
    BY <1>1, <1>4 DEF PdpeLoop
  <2>2. Counters' /\ Loops'
    BY <1>1, <1>4, <2>1, WalkSizes DEF WalkInv, Counters, Loops
  <2>3. InStep'
    BY <1>1, <1>4, <2>1 DEF WalkInv, InStep
  <2>4. copied' = Done(Frontier)'
    BY <1>1, <2>1 DEF WalkInv, Frontier, Done
  <2>5. QED
    BY <1>2, <2>2, <2>3, <2>4 DEF WalkInv
<1>5. CASE pdpe # NPDP /\ pdpe \notin tables.pdp
  <2>1. /\ each_pde' = (pdpe + 1) * NPD /\ pdpe' = pdpe + 1 /\ each_pdpe' = pdpe + 1
        /\ UNCHANGED <<pde, pc>>
    BY <1>1, <1>5 DEF PdpeLoop
  <2>2. pdpe' \in 1..NPDP /\ each_pde' \in Nat
    BY <1>1, <1>5, <2>1, WalkSizes
  <2>3. Counters' /\ Loops'
    BY <1>1, <2>1, <2>2 DEF WalkInv, Counters, Loops
  <2>4. InStep'
    <3>1. pdpe' \in tables.pdp => pdpe' * NPD \notin tables.pd
      <4>1. pdpe' \in tables.pdp => pdpe' \in 1..NPDP - 1 /\ pdpe' - 1 = pdpe
        BY <1>1, <2>1, <2>2, WalkSizes DEF WalkInv, Closed, Pdpes
      <4>2. QED
        BY <1>5, <4>1 DEF WalkInv, JosLayout
    <3>2. QED
      BY <1>1, <2>1, <3>1 DEF InStep
  <2>5. copied' = Done(Frontier)'
    <3>1. Done(each_pde * NPT) = Done(each_pde' * NPT)
      <4>1. \A p \in tables.pt : p < (pdpe * NPD) * NPT \/ p >= ((pdpe + 1) * NPD) * NPT
        BY <1>1, <1>5, NoDirectory DEF WalkInv
      <4>2. (pdpe * NPD) * NPT <= ((pdpe + 1) * NPD) * NPT
        <5>1. pdpe * NPD \in Nat /\ (pdpe + 1) * NPD \in Nat /\ pdpe * NPD <= (pdpe + 1) * NPD
          BY <1>1, WalkSizes, Monotone
        <5>2. QED
          BY <5>1, WalkSizes, Monotone
      <4>3. \A p \in tables.pt : p \in Nat
        BY DEF WalkInv, Closed, Ptes
      <4>4. (pdpe * NPD) * NPT \in Nat /\ ((pdpe + 1) * NPD) * NPT \in Nat
        BY <1>1, WalkSizes
      <4>5. QED
        BY <1>1, <2>1, <4>1, <4>2, <4>3, <4>4 DEF Done
    <3>2. QED
      BY <1>1, <2>1, <3>1 DEF WalkInv, Frontier, Done
  <2>6. QED
    BY <1>2, <2>3, <2>4, <2>5 DEF WalkInv
<1>6. QED
  BY <1>3, <1>4, <1>5

(* The loop over a page directory.                                         *)
LEMMA PdeInv == ASSUME WalkInv, PdeLoop PROVE WalkInv'
<1>1. /\ pc = "pde" /\ each_pdpe = pdpe /\ pdpe \in 0..NPDP - 1 /\ pdpe \in tables.pdp
      /\ each_pde = pdpe * NPD + pde /\ pde \in 0..NPD /\ each_pde \in Nat
      /\ UNCHANGED <<tables, copied>> /\ copied = Done(each_pde * NPT)
  BY WalkSizes DEF PdeLoop, WalkInv, Loops, Counters, Frontier
<1>2. Closed' /\ JosLayout(tables)'
  BY <1>1 DEF WalkInv, Closed, JosLayout
<1>3. CASE pde = NPD
  <2>1. /\ pc' = "pdpe" /\ pdpe' = pdpe + 1 /\ each_pdpe' = pdpe + 1
        /\ UNCHANGED <<pde, pte, each_pde, each_pte>>
    BY <1>1, <1>3 DEF PdeLoop
  <2>2. each_pde = (pdpe + 1) * NPD
    BY <1>1, <1>3, WalkSizes, Monotone
  <2>3. Counters' /\ Loops'
    BY <1>1, <2>1, <2>2, WalkSizes DEF WalkInv, Counters, Loops
  <2>4. InStep'
    BY <1>1, <1>3, <2>1, WalkSizes DEF WalkInv, InStep
  <2>5. copied' = Done(Frontier)'
    BY <1>1, <2>1 DEF Frontier, Done
  <2>6. QED
    BY <1>2, <2>3, <2>4, <2>5 DEF WalkInv
<1>4. CASE pde # NPD /\ each_pde \in tables.pd
  <2>1. pc' = "pte" /\ pte' = 0 /\ UNCHANGED <<pdpe, pde, each_pdpe, each_pde, each_pte>>
    BY <1>4 DEF PdeLoop
  <2>2. each_pte = each_pde * NPT
    BY <1>1, <1>4 DEF WalkInv, InStep
  <2>3. each_pde * NPT \in Nat
    BY <1>1, WalkSizes
  <2>4. Counters' /\ Loops'
    BY <1>1, <1>4, <2>1, <2>2, <2>3, WalkSizes DEF WalkInv, Counters, Loops
  <2>5. InStep' /\ copied' = Done(Frontier)'
    BY <1>1, <2>1, <2>2 DEF InStep, Frontier, Done
  <2>6. QED
    BY <1>2, <2>4, <2>5 DEF WalkInv
<1>5. CASE pde # NPD /\ each_pde \notin tables.pd
  <2>1. /\ each_pte' = (each_pde + 1) * NPT
        /\ pde' = pde + 1 /\ each_pde' = each_pde + 1
        /\ UNCHANGED <<pdpe, pte, each_pdpe, pc>>
    BY <1>5 DEF PdeLoop
  <2>2. (each_pde + 1) * NPT \in Nat /\ each_pde * NPT \in Nat /\ pdpe * NPD \in Nat
        /\ each_pde * NPT <= (each_pde + 1) * NPT
    BY <1>1, WalkSizes, Monotone
  <2>3. Counters' /\ Loops'
    BY <1>1, <1>5, <2>1, <2>2, WalkSizes DEF WalkInv, Counters, Loops
  <2>4. InStep'
    BY <1>1, <2>1 DEF InStep
  <2>5. copied' = Done(Frontier)'
    <3>1. Done(each_pde * NPT) = Done((each_pde + 1) * NPT)
      <4>1. \A p \in tables.pt : p < each_pde * NPT \/ p >= (each_pde + 1) * NPT
        BY <1>1, <1>5, NoPages DEF WalkInv
      <4>2. \A p \in tables.pt : p \in Nat
        BY DEF WalkInv, Closed, Ptes
      <4>3. QED
        BY <2>2, <4>1, <4>2 DEF Done
    <3>2. QED
      BY <1>1, <2>1, <3>1 DEF Frontier, Done
  <2>6. QED
    BY <1>2, <2>3, <2>4, <2>5 DEF WalkInv
<1>6. QED
  BY <1>3, <1>4, <1>5

(* The loop over a page table, which is there.                             *)
LEMMA PteInv == ASSUME WalkInv, PteLoop PROVE WalkInv'
<1>1. /\ pc = "pte" /\ each_pdpe = pdpe /\ pdpe \in 0..NPDP - 1 /\ pdpe \in tables.pdp
      /\ each_pde = pdpe * NPD + pde /\ pde \in 0..NPD - 1 /\ each_pde \in Nat
      /\ each_pde \in tables.pd /\ each_pte = each_pde * NPT + pte
      /\ pte \in 0..NPT /\ each_pte \in Nat /\ each_pde * NPT \in Nat
      /\ UNCHANGED <<tables, pdpe, each_pdpe>> /\ copied = Done(each_pte)
  BY WalkSizes DEF PteLoop, WalkInv, Loops, Counters, Frontier
<1>2. Closed' /\ JosLayout(tables)'
  BY <1>1 DEF WalkInv, Closed, JosLayout
<1>3. (each_pde + 1) * NPT = each_pde * NPT + NPT
  BY <1>1, WalkSizes, Monotone
<1>4. CASE pte = NPT
  <2>1. /\ pc' = "pde" /\ pde' = pde + 1 /\ each_pde' = each_pde + 1
        /\ UNCHANGED <<pte, each_pte, copied>>
    BY <1>4 DEF PteLoop
  <2>2. Counters' /\ Loops'
    BY <1>1, <2>1, WalkSizes DEF WalkInv, Counters, Loops
  <2>3. each_pte' = each_pde' * NPT
    BY <1>1, <1>3, <1>4, <2>1
  <2>4. InStep' /\ copied' = Done(Frontier)'
    BY <1>1, <2>1, <2>3 DEF InStep, Frontier, Done
  <2>5. QED
    BY <1>2, <2>2, <2>4 DEF WalkInv
<1>5. CASE pte # NPT
  <2>1. each_pte \div NPT \in tables.pd
    <3>1. each_pde * NPT <= each_pte /\ each_pte < (each_pde + 1) * NPT
      BY <1>1, <1>3, <1>5, WalkSizes
    <3>2. each_pte \div NPT \in Nat /\ each_pde <= each_pte \div NPT
          /\ each_pte \div NPT < each_pde + 1
      <4>1. NPT \in Nat \ {0} /\ each_pte \in Nat /\ each_pde \in Nat /\ each_pde + 1 \in Nat
        BY <1>1, WalkSizes
      <4>2. QED
        BY <3>1, <4>1, Quotient
    <3>3. PICK q \in Nat : q = each_pte \div NPT
      BY <3>2
    <3>4. q = each_pde
      BY <1>1, <3>2, <3>3
    <3>5. QED
      BY <1>1, <3>3, <3>4, Zenon
  <2>2. /\ copied' = IF each_pte \in tables.pt \ {UXStack}
                     THEN copied \cup {each_pte} ELSE copied
        /\ pte' = pte + 1 /\ each_pte' = each_pte + 1
        /\ UNCHANGED <<pde, each_pde, pc>>
    BY <1>5, <2>1 DEF PteLoop
  <2>3. Counters' /\ Loops'
    BY <1>1, <1>5, <2>2, WalkSizes DEF WalkInv, Counters, Loops
  <2>4. InStep'
    BY <1>1, <2>2 DEF InStep
  <2>5. copied' = Done(Frontier)'
    <3>1. \A p \in tables.pt : p \in Nat
      BY DEF WalkInv, Closed, Ptes
    <3>2. copied' = Done(each_pte + 1)
      BY <1>1, <2>2, <3>1 DEF Done
    <3>3. QED
      BY <1>1, <2>2, <3>2 DEF Frontier, Done
  <2>6. QED
    BY <1>2, <2>3, <2>4, <2>5 DEF WalkInv
<1>6. QED
  BY <1>4, <1>5

LEMMA WalkStepInv == WalkInv /\ [WalkNext]_walkVars => WalkInv'
<1> SUFFICES ASSUME WalkInv, [WalkNext]_walkVars PROVE WalkInv'
  OBVIOUS
<1>1. CASE Returned \/ UNCHANGED walkVars
  <2>1. UNCHANGED walkVars
    BY <1>1 DEF Returned
  <2>2. QED
    BY <2>1 DEF walkVars, WalkInv, Closed, JosLayout, Counters, Loops, InStep, Frontier, Done
<1>2. QED
  BY <1>1, PdpeInv, PdeInv, PteInv DEF WalkNext

LEMMA WalkInvariance == WalkSpec => []WalkInv
BY WalkInitInv, WalkStepInv, PTL DEF WalkSpec

(* fork copies every mapped page below UTOP but the exception stack, and   *)
(* reads no page table that is not there, whatever tables are missing.     *)
THEOREM CopiesAll == WalkSpec => []CopiesAddressSpace
<1>1. WalkInv => CopiesAddressSpace
  <2> SUFFICES ASSUME WalkInv, pc = "done" PROVE copied = tables.pt \ {UXStack}
    BY DEF CopiesAddressSpace, WalkInv, Counters
  <2>1. copied = Done((NPDP * NPD) * NPT)
    BY DEF WalkInv, Loops, Frontier
  <2>2. \A p \in tables.pt : p < (NPDP * NPD) * NPT
    <3>1. (NPDP * NPD) * NPT \in Nat
      BY WalkSizes
    <3>2. QED
      BY <3>1 DEF WalkInv, Closed, Ptes
  <2>3. QED
    BY <2>1, <2>2 DEF Done
<1>2. QED
  BY <1>1, WalkInvariance, PTL

(* The indices into the flat windows are those of the nested counters.     *)
THEOREM Indices == WalkSpec => []IndicesAgree
<1>1. WalkInv => IndicesAgree
  BY DEF WalkInv, Loops, IndicesAgree
<1>2. QED
  BY <1>1, WalkInvariance, PTL

-----------------------------------------------------------------------------
(* The heap.                                                              *)

(* Pages and words.                                                        *)

LEMMA PageFacts ==
    ASSUME NEW v \in Nat
    PROVE  /\ Page(v) \in Nat /\ Page(v) * PGSIZE \in Nat
           /\ Page(v) * PGSIZE <= v /\ v < Page(v) * PGSIZE + PGSIZE
           /\ v % PGSIZE = v - Page(v) * PGSIZE
<1>1. PGSIZE \in Nat /\ PGSIZE > 1
  BY HeapAssumption
<1>2. /\ v \div PGSIZE \in Nat /\ (v \div PGSIZE) * PGSIZE <= v
      /\ v < (v \div PGSIZE) * PGSIZE + PGSIZE
      /\ v % PGSIZE = v - (v \div PGSIZE) * PGSIZE
  BY <1>1
<1> QED
  BY <1>1, <1>2 DEF Page

LEMMA OnPage ==
    ASSUME NEW v \in Nat, NEW p \in Nat, p * PGSIZE <= v, v < p * PGSIZE + PGSIZE
    PROVE  Page(v) = p
<1>1. PGSIZE \in Nat \ {0} /\ p + 1 \in Nat /\ (p + 1) * PGSIZE = p * PGSIZE + PGSIZE
  BY HeapAssumption
<1>2. v < (p + 1) * PGSIZE
  BY <1>1
<1>3. Page(v) \in Nat /\ p <= Page(v) /\ Page(v) < p + 1
  BY <1>1, <1>2, Quotient DEF Page
<1> QED
  BY <1>3

LEMMA PageMonotone ==
    ASSUME NEW u \in Nat, NEW v \in Nat, u <= v
    PROVE  Page(u) <= Page(v)
<1>1. PICK p, q \in Nat : p = Page(u) /\ q = Page(v)
  BY PageFacts
<1>2. /\ PGSIZE \in Nat /\ p * PGSIZE \in Nat /\ q * PGSIZE \in Nat
      /\ p * PGSIZE <= u /\ v < q * PGSIZE + PGSIZE
  BY <1>1, PageFacts, HeapAssumption
<1>3. ASSUME q < p PROVE FALSE
  <2>1. q + 1 <= p /\ q + 1 \in Nat
    BY <1>3
  <2>2. (q + 1) * PGSIZE <= p * PGSIZE /\ (q + 1) * PGSIZE = q * PGSIZE + PGSIZE
    BY <1>2, <2>1, Monotone
  <2> QED
    BY <1>2, <2>2
<1> QED
  BY <1>1, <1>3

LEMMA AlignedFacts ==
    ASSUME NEW v \in Nat
    PROVE  Aligned(v) <=> v = Page(v) * PGSIZE
<1>1. PICK k \in Nat : k = Page(v) * PGSIZE /\ v % PGSIZE = v - k
  BY PageFacts
<1>2. v - k = 0 <=> v = k
  OBVIOUS
<1> QED
  BY ONLY <1>1, <1>2 DEF Aligned

LEMMA PageStart ==
    ASSUME NEW p \in Nat
    PROVE  p * PGSIZE \in Nat /\ Page(p * PGSIZE) = p /\ Aligned(p * PGSIZE)
<1>1. PGSIZE \in Nat /\ PGSIZE > 1 /\ p * PGSIZE \in Nat
  BY HeapAssumption
<1>2. p * PGSIZE <= p * PGSIZE /\ p * PGSIZE < p * PGSIZE + PGSIZE
  BY <1>1
<1>3. Page(p * PGSIZE) = p
  BY <1>1, <1>2, OnPage
<1> QED
  BY <1>1, <1>3, AlignedFacts

(* n words from the start of page p.                                       *)
LEMMA PageOffset ==
    ASSUME NEW p \in Nat, NEW n \in Nat
    PROVE  /\ p * PGSIZE + n \in Nat
           /\ n \div PGSIZE \in Nat
           /\ Page(p * PGSIZE + n) = p + n \div PGSIZE
           /\ Aligned(p * PGSIZE + n) <=> Aligned(n)
<1> DEFINE d == n \div PGSIZE
           v == p * PGSIZE + n
<1>1. /\ d \in Nat /\ d * PGSIZE \in Nat /\ d * PGSIZE <= n /\ n < d * PGSIZE + PGSIZE
      /\ p * PGSIZE \in Nat /\ v \in Nat /\ PGSIZE \in Nat
  <2>1. d = Page(n)
    BY DEF Page
  <2>2. p * PGSIZE \in Nat /\ PGSIZE \in Nat
    BY PageStart, HeapAssumption
  <2>3. /\ Page(n) \in Nat /\ Page(n) * PGSIZE \in Nat
        /\ Page(n) * PGSIZE <= n /\ n < Page(n) * PGSIZE + PGSIZE
    BY PageFacts
  <2>4. d \in Nat /\ d * PGSIZE \in Nat /\ d * PGSIZE <= n /\ n < d * PGSIZE + PGSIZE
    BY <2>1, <2>3, Zenon
  <2> HIDE DEF d
  <2> QED
    BY <2>2, <2>4
<1>2. (p + d) * PGSIZE = p * PGSIZE + d * PGSIZE
  <2> HIDE DEF d
  <2> QED
    BY <1>1
<1>3. Page(n) = d
  BY DEF Page
<1> HIDE DEF d
<1>4. Page(v) = p + d
  <2>1. p + d \in Nat /\ (p + d) * PGSIZE <= v /\ v < (p + d) * PGSIZE + PGSIZE
    BY <1>1, <1>2
  <2> HIDE DEF v
  <2> QED
    BY <1>1, <2>1, OnPage
<1>5. Aligned(v) <=> v = (p + d) * PGSIZE
  <2> HIDE DEF v
  <2> QED
    BY <1>1, <1>4, AlignedFacts
<1>6. Aligned(n) <=> n = d * PGSIZE
  BY <1>3, AlignedFacts
<1> QED
  BY <1>1, <1>2, <1>4, <1>5, <1>6 DEF v, d

LEMMA NextWord ==
    ASSUME NEW w \in Nat, Aligned(w + 1)
    PROVE  Page(w + 1) = Page(w) + 1
<1> DEFINE q == Page(w + 1)
<1>1. /\ q \in Nat /\ w + 1 = q * PGSIZE /\ PGSIZE \in Nat /\ PGSIZE > 1
  BY PageFacts, AlignedFacts, HeapAssumption
<1> HIDE DEF q
<1>2. q > 0
  BY <1>1
<1>3. q - 1 \in Nat /\ (q - 1) * PGSIZE = q * PGSIZE - PGSIZE
  BY <1>1, <1>2
<1>4. (q - 1) * PGSIZE <= w /\ w < (q - 1) * PGSIZE + PGSIZE
  BY <1>1, <1>3
<1>5. Page(w) = q - 1
  BY <1>3, <1>4, OnPage
<1> QED
  BY <1>1, <1>5 DEF q

-----------------------------------------------------------------------------
(* What holds of the heap h when a program has the blocks B, malloc goes   *)
(* on at mp, and has forgotten its reference to the pages of st.           *)
Have(B) == {b \in Blocks : B[b] # NoBlock}
From(B, b) == Page(B[b][1])
To(B, b) == Page(B[b][1] + B[b][2])
Inner(B, b) == From(B, b)..To(B, b) - 1
Ending(B, p) == {b \in Have(B) : To(B, b) = p}
Extent(B, b) == B[b][1]..B[b][1] + B[b][2] - 1

Uses(B, mp, st, p) ==
    Cardinality(Ending(B, p))
    + (IF ~Aligned(mp) /\ Page(mp) = p THEN 1 ELSE 0)
    + (IF p \in st THEN 1 ELSE 0)

Typed(h, B, mp, st) ==
    /\ h.uvpt \in [HeapPages -> {"free", "last", "continued"}]
    /\ h.ref \in [HeapPages -> Int]
    /\ B \in [Blocks -> (Nat \X Nat) \cup {NoBlock}]
    /\ mp \in Nat /\ st \subseteq HeapPages
    /\ \A b \in Have(B) : To(B, b) \in HeapPages
    /\ ~Aligned(mp) => Page(mp) \in HeapPages

Counts(h, B, mp, st) ==
    \A p \in HeapPages :
        /\ h.uvpt[p] = "last" <=> Uses(B, mp, st, p) > 0
        /\ h.uvpt[p] = "last" => h.ref[p] = Uses(B, mp, st, p)

(* A page that is continued has one block, which goes on to the next page. *)
Runs(h, B) ==
    /\ \A p \in HeapPages : h.uvpt[p] = "continued" <=> \E b \in Have(B) : p \in Inner(B, b)
    /\ \A b, c \in Have(B) : \A p \in HeapPages : p \in Inner(B, b) /\ p \in Inner(B, c) => b = c

(* The free part of the page of mp begins at mp.                           *)
Tip(B, mp) ==
    ~Aligned(mp) => \A b \in Have(B) : To(B, b) = Page(mp) => B[b][1] + B[b][2] <= mp

Apart(B) == \A b, c \in Have(B) : b # c => Extent(B, b) \cap Extent(B, c) = {}

Ok(h, B, mp, st) ==
    Typed(h, B, mp, st) /\ Counts(h, B, mp, st) /\ Runs(h, B) /\ Tip(B, mp) /\ Apart(B)

HeapInv == Ok(heap, block, mptr, stale)

-----------------------------------------------------------------------------
LEMMA HeapFacts ==
    /\ IsFiniteSet(Blocks) /\ NPages \in Nat /\ NPages > 0 /\ PGSIZE \in Nat /\ PGSIZE > 1
    /\ HeapPages \subseteq Nat /\ NoBlock \notin Nat \X Nat
BY HeapAssumption DEF HeapPages

LEMMA UsesFacts ==
    ASSUME NEW B, NEW mp, NEW st, NEW p
    PROVE  /\ IsFiniteSet(Ending(B, p)) /\ Cardinality(Ending(B, p)) \in Nat
           /\ Uses(B, mp, st, p) \in Nat
           /\ Uses(B, mp, st, p) = 0 <=> /\ Ending(B, p) = {} /\ p \notin st
                                         /\ ~(~Aligned(mp) /\ Page(mp) = p)
<1>1. IsFiniteSet(Ending(B, p))
  <2>1. Ending(B, p) \in SUBSET Blocks
    BY DEF Ending, Have
  <2> QED
    BY <2>1, HeapFacts, FS_Subset
<1>2. Cardinality(Ending(B, p)) \in Nat
  BY <1>1, FS_CardinalityType
<1>3. Cardinality(Ending(B, p)) = 0 <=> Ending(B, p) = {}
  BY <1>1, FS_EmptySet
<1>4. PICK c, t, f \in Nat :
        /\ c = Cardinality(Ending(B, p))
        /\ t = (IF ~Aligned(mp) /\ Page(mp) = p THEN 1 ELSE 0)
        /\ f = (IF p \in st THEN 1 ELSE 0)
  BY <1>2
<1>5. Uses(B, mp, st, p) = c + t + f
  BY <1>4 DEF Uses
<1>6. c + t + f = 0 <=> c = 0 /\ t = 0 /\ f = 0
  OBVIOUS
<1> QED
  BY <1>1, <1>2, <1>3, <1>4, <1>5, <1>6

(* A block, the pages it lies on and its words.                            *)
LEMMA BlockFacts ==
    ASSUME NEW h, NEW B, NEW mp, NEW st, Typed(h, B, mp, st), NEW b \in Have(B)
    PROVE  /\ B[b][1] \in Nat /\ B[b][2] \in Nat
           /\ From(B, b) \in HeapPages /\ To(B, b) \in HeapPages /\ From(B, b) <= To(B, b)
           /\ Inner(B, b) \subseteq HeapPages
<1>1. B[b] \in Nat \X Nat
  BY DEF Have, Typed
<1>2. B[b][1] \in Nat /\ B[b][2] \in Nat /\ B[b][1] <= B[b][1] + B[b][2]
      /\ B[b][1] + B[b][2] \in Nat
  BY <1>1
<1>3. From(B, b) \in Nat /\ To(B, b) \in HeapPages /\ From(B, b) <= To(B, b)
  BY <1>2, PageFacts, PageMonotone DEF From, To, Typed
<1> QED
  BY <1>2, <1>3, HeapFacts DEF HeapPages, Inner

LEMMA WordFacts ==
    ASSUME NEW h, NEW B, NEW mp, NEW st, Typed(h, B, mp, st), NEW b \in Have(B),
           NEW w \in Extent(B, b)
    PROVE  /\ w \in Nat /\ Page(w) \in HeapPages
           /\ Page(w) \in Inner(B, b) \/ Page(w) = To(B, b)
           /\ Page(w) = To(B, b) => ~Aligned(w + 1)
<1>1. /\ B[b][1] \in Nat /\ B[b][2] \in Nat
      /\ From(B, b) \in HeapPages /\ To(B, b) \in HeapPages
  BY BlockFacts
<1>2. w \in Nat /\ B[b][1] <= w /\ w + 1 <= B[b][1] + B[b][2]
  BY <1>1 DEF Extent
<1>3. Page(w) \in Nat /\ From(B, b) <= Page(w)
  BY <1>1, <1>2, PageFacts, PageMonotone DEF From
<1>4. Page(w + 1) <= To(B, b) /\ Page(w) <= Page(w + 1) /\ Page(w + 1) \in Nat
  <2>1. w + 1 \in Nat /\ w <= w + 1 /\ B[b][1] + B[b][2] \in Nat
    BY <1>1, <1>2
  <2> QED
    BY <1>2, <2>1, PageFacts, PageMonotone DEF To
<1>5. Aligned(w + 1) => Page(w + 1) = Page(w) + 1
  BY <1>2, NextWord
<1> QED
  BY <1>1, <1>2, <1>3, <1>4, <1>5, HeapFacts DEF Inner, HeapPages

(* An aligned mptr has no page.                                            *)
LEMMA SameUses ==
    ASSUME NEW B, NEW mp, Aligned(mp), NEW mq, Aligned(mq), NEW st, NEW p
    PROVE  Uses(B, mp, st, p) = Uses(B, mq, st, p)
BY DEF Uses

LEMMA AnyAligned ==
    ASSUME NEW h, NEW B, NEW mp, Aligned(mp), NEW mq \in Nat, Aligned(mq), NEW st,
           Ok(h, B, mp, st)
    PROVE  Ok(h, B, mq, st)
<1>1. Typed(h, B, mq, st) /\ Tip(B, mq)
  BY DEF Ok, Typed, Tip
<1>2. Counts(h, B, mq, st)
  BY SameUses DEF Ok, Counts
<1> QED
  BY <1>1, <1>2 DEF Ok

-----------------------------------------------------------------------------
(* free.                                                                   *)

(* What free(v) does when e is the page that the continued ones lead to.   *)
Freed(h, g, v, e) ==
    /\ g.uvpt = [p \in HeapPages |-> IF p \in Page(v)..e - 1 \/ (p = e /\ h.ref[e] = 1)
                                     THEN "free" ELSE h.uvpt[p]]
    /\ g.ref = [h.ref EXCEPT ![e] = @ - 1]

LEMMA ReleaseIs ==
    ASSUME NEW h, NEW v \in Nat, NEW e \in HeapPages, Page(v) <= e,
           h.uvpt[e] # "continued", \A q \in Page(v)..e - 1 : h.uvpt[q] = "continued"
    PROVE  Freed(h, Release(h, v), v, e)
<1>1. Page(v) \in Nat
  BY PageFacts
<1>2. Last(h, v) = e
  <2> DEFINE P(p) == /\ Page(v) <= p /\ h.uvpt[p] # "continued"
                     /\ \A q \in Page(v)..p - 1 : h.uvpt[q] = "continued"
  <2>1. P(e)
    OBVIOUS
  <2>2. ASSUME NEW p \in HeapPages, P(p) PROVE p = e
    <3>1. p \in Nat /\ e \in Nat
      BY HeapFacts
    <3>2. ~(p < e) /\ ~(e < p)
      BY <1>1, <2>2, <3>1
    <3> QED
      BY <3>1, <3>2
  <2>3. Last(h, v) = CHOOSE p \in HeapPages : P(p)
    BY DEF Last
  <2> HIDE DEF P
  <2> QED
    BY <2>1, <2>2, <2>3
<1>3. Unmapped(h, v) = Page(v)..e - 1 \cup IF h.ref[e] = 1 THEN {e} ELSE {}
  BY <1>2 DEF Unmapped
<1>4. \A p : p \in Unmapped(h, v) <=> p \in Page(v)..e - 1 \/ (p = e /\ h.ref[e] = 1)
  BY <1>3
<1> QED
  BY <1>2, <1>4 DEF Release, Freed

(* malloc leaves the page it has filled.                                   *)
LEMMA LeaveOk ==
    ASSUME NEW h, NEW B, NEW mp, NEW st, Ok(h, B, mp, st), ~Aligned(mp),
           NEW mq \in Nat, Aligned(mq)
    PROVE  Ok(Release(h, mp), B, mq, st)
<1> DEFINE g == Release(h, mp)
           e == Page(mp)
<1>1. /\ Typed(h, B, mp, st) /\ Counts(h, B, mp, st) /\ Runs(h, B) /\ Apart(B)
      /\ mp \in Nat /\ e \in HeapPages /\ e \in Nat
  BY HeapFacts DEF Ok, Typed
<1>2. h.uvpt[e] = "last" /\ h.ref[e] = Uses(B, mp, st, e) /\ h.ref[e] \in Nat
  <2>1. Uses(B, mp, st, e) \in Nat /\ Uses(B, mp, st, e) # 0
    BY UsesFacts
  <2> QED
    BY <1>1, <2>1 DEF Counts
<1>3. Freed(h, g, mp, e)
  <2>1. e <= e /\ \A q \in e..e - 1 : h.uvpt[q] = "continued"
    BY <1>1
  <2> QED
    BY <1>1, <1>2, <2>1, ReleaseIs
<1> HIDE DEF g
<1>4. /\ g.uvpt = [p \in HeapPages |-> IF p = e /\ h.ref[e] = 1 THEN "free" ELSE h.uvpt[p]]
      /\ g.ref = [h.ref EXCEPT ![e] = @ - 1]
  <2>1. \A p \in HeapPages : p \notin e..e - 1
    BY <1>1, HeapFacts
  <2> QED
    BY <1>3, <2>1 DEF Freed
<1>5. \A p \in HeapPages :
         Uses(B, mq, st, p) = IF p = e THEN Uses(B, mp, st, p) - 1 ELSE Uses(B, mp, st, p)
  <2>1. ASSUME NEW p \in HeapPages
        PROVE  Uses(B, mq, st, p) = IF p = e THEN Uses(B, mp, st, p) - 1 ELSE Uses(B, mp, st, p)
    <3>1. Cardinality(Ending(B, p)) \in Nat
      BY UsesFacts
    <3>2. PICK f \in Nat : f = IF p \in st THEN 1 ELSE 0
      OBVIOUS
    <3>3. Uses(B, mq, st, p) = Cardinality(Ending(B, p)) + 0 + f
      BY <3>2 DEF Uses
    <3>4. Uses(B, mp, st, p) = Cardinality(Ending(B, p)) + (IF p = e THEN 1 ELSE 0) + f
      BY <3>2 DEF Uses
    <3> QED
      BY <3>1, <3>3, <3>4
  <2> QED
    BY <2>1
<1>6. Typed(g, B, mq, st)
  BY <1>1, <1>4 DEF Typed
<1>7. Counts(g, B, mq, st)
  <2> SUFFICES ASSUME NEW p \in HeapPages
               PROVE  /\ g.uvpt[p] = "last" <=> Uses(B, mq, st, p) > 0
                      /\ g.uvpt[p] = "last" => g.ref[p] = Uses(B, mq, st, p)
    BY DEF Counts
  <2>1. /\ h.uvpt[p] = "last" <=> Uses(B, mp, st, p) > 0
        /\ h.uvpt[p] = "last" => h.ref[p] = Uses(B, mp, st, p)
        /\ Uses(B, mp, st, p) \in Nat
    BY <1>1, UsesFacts DEF Counts
  <2>2. CASE p = e
    <3>1. g.ref[p] = h.ref[e] - 1 /\ g.uvpt[p] = IF h.ref[e] = 1 THEN "free" ELSE "last"
      BY <1>1, <1>2, <1>4, <2>2 DEF Typed
    <3> QED
      BY <1>2, <1>5, <2>1, <2>2, <3>1
  <2>3. CASE p # e
    <3>1. g.ref[p] = h.ref[p] /\ g.uvpt[p] = h.uvpt[p]
      BY <1>1, <1>4, <2>3 DEF Typed
    <3> QED
      BY <1>5, <2>1, <2>3, <3>1
  <2> QED
    BY <2>2, <2>3
<1>8. Runs(g, B)
  <2>1. \A p \in HeapPages : g.uvpt[p] = "continued" <=> h.uvpt[p] = "continued"
    BY <1>1, <1>2, <1>4
  <2> QED
    BY <1>1, <2>1 DEF Runs
<1> QED
  BY <1>1, <1>6, <1>7, <1>8 DEF Ok, Tip, g

(* A program gives a block back.                                           *)
LEMMA FreeOk ==
    ASSUME NEW h, NEW B, NEW mp, NEW st, Ok(h, B, mp, st), NEW b \in Have(B)
    PROVE  Ok(Release(h, B[b][1]), [B EXCEPT ![b] = NoBlock], mp, st)
<1> DEFINE g == Release(h, B[b][1])
           C == [B EXCEPT ![b] = NoBlock]
           f == From(B, b)
           e == To(B, b)
<1>1. /\ Typed(h, B, mp, st) /\ Counts(h, B, mp, st) /\ Runs(h, B) /\ Tip(B, mp) /\ Apart(B)
      /\ b \in Blocks
  BY DEF Ok, Have
<1>2. /\ B[b][1] \in Nat /\ f \in HeapPages /\ e \in HeapPages /\ f <= e
      /\ Inner(B, b) \subseteq HeapPages /\ f \in Nat /\ e \in Nat
  BY <1>1, BlockFacts, HeapFacts
<1>3. h.uvpt[e] = "last" /\ h.ref[e] = Uses(B, mp, st, e) /\ h.ref[e] \in Nat /\ h.ref[e] > 0
  <2>1. b \in Ending(B, e)
    BY DEF Ending
  <2>2. Uses(B, mp, st, e) \in Nat /\ Uses(B, mp, st, e) # 0
    BY <2>1, UsesFacts
  <2> QED
    BY <1>1, <1>2, <2>2 DEF Counts
<1>4. \A q \in f..e - 1 : q \in HeapPages /\ h.uvpt[q] = "continued"
  BY <1>1, <1>2 DEF Runs, Inner
<1>5. Freed(h, g, B[b][1], e)
  <2>1. \A q \in Page(B[b][1])..e - 1 : h.uvpt[q] = "continued"
    BY <1>4 DEF From
  <2>2. Page(B[b][1]) <= e /\ h.uvpt[e] # "continued"
    BY <1>2, <1>3 DEF From
  <2> HIDE DEF e
  <2> QED
    BY <1>2, <2>1, <2>2, ReleaseIs
<1> HIDE DEF g
<1>6. /\ g.uvpt = [p \in HeapPages |-> IF p \in Inner(B, b) \/ (p = e /\ h.ref[e] = 1)
                                       THEN "free" ELSE h.uvpt[p]]
      /\ g.ref = [h.ref EXCEPT ![e] = @ - 1]
  BY <1>5 DEF Freed, Inner, From
<1>7. /\ Have(C) = Have(B) \ {b}
      /\ \A c \in Have(C) : C[c] = B[c]
  <2>1. \A c \in Blocks : C[c] = IF c = b THEN NoBlock ELSE B[c]
    BY <1>1 DEF Typed
  <2> HIDE DEF C
  <2> QED
    BY <2>1 DEF Have
<1>8. C \in [Blocks -> (Nat \X Nat) \cup {NoBlock}]
  BY <1>1 DEF Typed
<1> HIDE DEF C, f, e
<1>9. \A c \in Have(C) : /\ From(C, c) = From(B, c) /\ To(C, c) = To(B, c)
                         /\ Inner(C, c) = Inner(B, c) /\ Extent(C, c) = Extent(B, c)
  BY <1>7 DEF From, To, Inner, Extent
<1>10. \A p \in HeapPages :
          Uses(C, mp, st, p) = IF p = e THEN Uses(B, mp, st, p) - 1 ELSE Uses(B, mp, st, p)
  <2>1. ASSUME NEW p \in HeapPages
        PROVE  Uses(C, mp, st, p) = IF p = e THEN Uses(B, mp, st, p) - 1 ELSE Uses(B, mp, st, p)
    <3>1. Ending(C, p) = Ending(B, p) \ {b}
      BY <1>7, <1>9 DEF Ending
    <3>2. b \in Ending(B, p) <=> p = e
      BY DEF Ending, e
    <3>3. IsFiniteSet(Ending(B, p)) /\ Cardinality(Ending(B, p)) \in Nat
      BY UsesFacts
    <3>4. Cardinality(Ending(C, p))
          = IF p = e THEN Cardinality(Ending(B, p)) - 1 ELSE Cardinality(Ending(B, p))
      BY <3>1, <3>2, <3>3, FS_RemoveElement
    <3>5. PICK t \in Nat : t = (IF ~Aligned(mp) /\ Page(mp) = p THEN 1 ELSE 0)
      OBVIOUS
    <3>6. PICK s \in Nat : s = (IF p \in st THEN 1 ELSE 0)
      OBVIOUS
    <3>7. /\ Uses(C, mp, st, p) = Cardinality(Ending(C, p)) + t + s
          /\ Uses(B, mp, st, p) = Cardinality(Ending(B, p)) + t + s
      BY <3>5, <3>6 DEF Uses
    <3> QED
      BY <3>3, <3>4, <3>7
  <2> QED
    BY <2>1
<1>11. Typed(g, C, mp, st)
  BY <1>1, <1>2, <1>6, <1>7, <1>8, <1>9 DEF Typed
<1>12. Counts(g, C, mp, st)
  <2> SUFFICES ASSUME NEW p \in HeapPages
               PROVE  /\ g.uvpt[p] = "last" <=> Uses(C, mp, st, p) > 0
                      /\ g.uvpt[p] = "last" => g.ref[p] = Uses(C, mp, st, p)
    BY DEF Counts
  <2>1. /\ h.uvpt[p] = "last" <=> Uses(B, mp, st, p) > 0
        /\ h.uvpt[p] = "last" => h.ref[p] = Uses(B, mp, st, p)
        /\ Uses(B, mp, st, p) \in Nat
    BY <1>1, UsesFacts DEF Counts
  <2>2. CASE p = e
    <3>1. p \notin Inner(B, b)
      BY <1>2, <2>2 DEF Inner, e
    <3>2. g.ref[p] = h.ref[e] - 1 /\ g.uvpt[p] = IF h.ref[e] = 1 THEN "free" ELSE "last"
      BY <1>1, <1>3, <1>6, <2>2, <3>1 DEF Typed
    <3> QED
      BY <1>3, <1>10, <2>1, <2>2, <3>2
  <2>3. CASE p \in Inner(B, b)
    <3>1. p # e /\ h.uvpt[p] = "continued"
      BY <1>2, <1>4, <2>3 DEF Inner, e, f
    <3>2. g.uvpt[p] = "free"
      BY <1>6, <2>3
    <3> QED
      BY <1>10, <2>1, <3>1, <3>2
  <2>4. CASE p # e /\ p \notin Inner(B, b)
    <3>1. g.ref[p] = h.ref[p] /\ g.uvpt[p] = h.uvpt[p]
      BY <1>1, <1>6, <2>4 DEF Typed
    <3> QED
      BY <1>10, <2>1, <2>4, <3>1
  <2> QED
    BY <2>2, <2>3, <2>4
<1>13. Runs(g, C)
  <2>1. ASSUME NEW p \in HeapPages
        PROVE  g.uvpt[p] = "continued" <=> \E c \in Have(C) : p \in Inner(C, c)
    <3>1. g.uvpt[p] = "continued" <=> h.uvpt[p] = "continued" /\ p \notin Inner(B, b)
      BY <1>3, <1>6
    <3>2. h.uvpt[p] = "continued" <=> \E c \in Have(B) : p \in Inner(B, c)
      BY <1>1 DEF Runs
    <3>3. \A c \in Have(B) : p \in Inner(B, b) /\ p \in Inner(B, c) => b = c
      BY <1>1 DEF Runs
    <3> QED
      BY <1>7, <1>9, <3>1, <3>2, <3>3
  <2>2. \A c, d \in Have(C) : \A p \in HeapPages : p \in Inner(C, c) /\ p \in Inner(C, d) => c = d
    BY <1>1, <1>7, <1>9 DEF Runs
  <2> QED
    BY <2>1, <2>2 DEF Runs
<1>14. Tip(C, mp)
  BY <1>1, <1>7, <1>9 DEF Tip
<1>15. Apart(C)
  BY <1>1, <1>7, <1>9 DEF Apart
<1> QED
  BY <1>11, <1>12, <1>13, <1>14, <1>15 DEF Ok, g, C

-----------------------------------------------------------------------------
(* malloc gives block b.                                                   *)
Grown(B, b, v, n) == [B EXCEPT ![b] = <<v, n>>]

SameBlock(C, B, c) ==
    /\ C[c] = B[c] /\ From(C, c) = From(B, c) /\ To(C, c) = To(B, c)
    /\ Inner(C, c) = Inner(B, c) /\ Extent(C, c) = Extent(B, c)

GrownBy(C, B, b, v, n, e) ==
    /\ C \in [Blocks -> (Nat \X Nat) \cup {NoBlock}]
    /\ Have(C) = Have(B) \cup {b} /\ b \notin Have(B)
    /\ \A c \in Have(B) : SameBlock(C, B, c)
    /\ C[b][1] = v /\ C[b][2] = n
    /\ To(C, b) = e /\ Inner(C, b) = Page(v)..e - 1 /\ Extent(C, b) = v..v + n - 1
    /\ \A p : Ending(C, p) = IF p = e THEN Ending(B, p) \cup {b} ELSE Ending(B, p)

LEMMA GrownFacts ==
    ASSUME NEW B \in [Blocks -> (Nat \X Nat) \cup {NoBlock}], NEW b \in Blocks,
           B[b] = NoBlock, NEW v \in Nat, NEW n \in Nat, NEW e, e = Page(v + n)
    PROVE  GrownBy(Grown(B, b, v, n), B, b, v, n, e)
<1> DEFINE C == Grown(B, b, v, n)
<1>1. <<v, n>> \in Nat \X Nat /\ <<v, n>> # NoBlock
  BY HeapFacts
<1>2. C \in [Blocks -> (Nat \X Nat) \cup {NoBlock}]
  BY <1>1 DEF Grown
<1>3. \A c \in Blocks : C[c] = IF c = b THEN <<v, n>> ELSE B[c]
  BY DEF Grown
<1> HIDE DEF C
<1>4. Have(C) = Have(B) \cup {b} /\ b \notin Have(B)
  BY <1>1, <1>3 DEF Have
<1>5. \A c \in Have(B) : C[c] = B[c]
  BY <1>3, <1>4 DEF Have
<1>6. \A c \in Have(B) : SameBlock(C, B, c)
  BY <1>5 DEF SameBlock, From, To, Inner, Extent
<1>7. C[b] = <<v, n>>
  BY <1>3
<1>8. C[b][1] = v /\ C[b][2] = n
  BY <1>7
<1>9. /\ From(C, b) = Page(v) /\ To(C, b) = e
      /\ Inner(C, b) = Page(v)..e - 1 /\ Extent(C, b) = v..v + n - 1
  BY <1>8 DEF From, To, Inner, Extent
<1>10. \A c \in Have(B) : To(C, c) = To(B, c)
  BY <1>6 DEF SameBlock
<1>11. \A p : Ending(C, p) = IF p = e THEN Ending(B, p) \cup {b} ELSE Ending(B, p)
  BY <1>4, <1>9, <1>10 DEF Ending
<1> QED
  BY <1>2, <1>4, <1>6, <1>8, <1>9, <1>11 DEF GrownBy, C

(* A block at mptr, on the page that is partly used.                       *)
LEMMA HereOk ==
    ASSUME NEW h, NEW B, NEW mp, NEW st, Ok(h, B, mp, st), NEW b \in Blocks, B[b] = NoBlock,
           NEW n \in Nat, ~Aligned(mp), Page(mp) = Page(mp + n),
           NEW g, g.uvpt = h.uvpt, g.ref = [h.ref EXCEPT ![Page(mp)] = @ + 1]
    PROVE  Ok(g, Grown(B, b, mp, n), mp + n, st)
<1> DEFINE C == Grown(B, b, mp, n)
           e == Page(mp)
           mq == mp + n
<1>1. /\ Typed(h, B, mp, st) /\ Counts(h, B, mp, st) /\ Runs(h, B) /\ Tip(B, mp) /\ Apart(B)
      /\ mp \in Nat /\ e \in HeapPages
  BY DEF Ok, Typed
<1>2. e \in Nat /\ mq \in Nat /\ B \in [Blocks -> (Nat \X Nat) \cup {NoBlock}]
  <2>1. mq \in Nat
    BY <1>1
  <2>2. e \in Nat
    BY <1>1, PageFacts
  <2> QED
    BY <1>1, <2>1, <2>2 DEF Typed
<1>3. GrownBy(C, B, b, mp, n, e)
  BY <1>1, <1>2, GrownFacts
<1> HIDE DEF C
<1>4. /\ C \in [Blocks -> (Nat \X Nat) \cup {NoBlock}]
      /\ Have(C) = Have(B) \cup {b} /\ b \notin Have(B)
      /\ \A c \in Have(B) : SameBlock(C, B, c)
      /\ C[b][1] = mp /\ C[b][2] = n
      /\ To(C, b) = e /\ Inner(C, b) = e..e - 1 /\ Extent(C, b) = mp..mq - 1
      /\ \A p : Ending(C, p) = IF p = e THEN Ending(B, p) \cup {b} ELSE Ending(B, p)
  <2>1. /\ C \in [Blocks -> (Nat \X Nat) \cup {NoBlock}]
        /\ Have(C) = Have(B) \cup {b} /\ b \notin Have(B)
    BY <1>3, Zenon DEF GrownBy
  <2>2. \A c \in Have(B) : SameBlock(C, B, c)
    BY <1>3, Zenon DEF GrownBy
  <2>3. C[b][1] = mp /\ C[b][2] = n /\ To(C, b) = e
    BY <1>3, Zenon DEF GrownBy
  <2>4. Inner(C, b) = e..e - 1
    BY <1>3, Zenon DEF GrownBy
  <2>5. Extent(C, b) = mp..mq - 1
    <3>1. Extent(C, b) = mp..mp + n - 1
      BY <1>3, Zenon DEF GrownBy
    <3>2. mp + n - 1 = mq - 1
      BY <1>1
    <3> QED
      BY <3>1, <3>2, Zenon
  <2>6. \A p : Ending(C, p) = IF p = e THEN Ending(B, p) \cup {b} ELSE Ending(B, p)
    BY <1>3, Zenon DEF GrownBy
  <2> QED
    BY <2>1, <2>2, <2>3, <2>4, <2>5, <2>6
<1>5. ~Aligned(mq)
  <2>1. e * PGSIZE \in Nat /\ e * PGSIZE <= mp
    BY <1>1, <1>2, PageFacts
  <2>2. mp # e * PGSIZE
    BY <1>1, <1>2, AlignedFacts
  <2>3. mq # Page(mq) * PGSIZE
    <3> HIDE DEF e
    <3>1. PICK k \in Nat : k = e * PGSIZE
      BY <2>1
    <3>2. k <= mp /\ mp # k
      BY <2>1, <2>2, <3>1
    <3>3. mq # k
      BY <1>1, <1>2, <3>2
    <3>4. Page(mq) = e
      BY DEF e
    <3> QED
      BY <3>1, <3>3, <3>4
  <2> QED
    BY <1>1, <1>2, <2>3, AlignedFacts
<1>6. Page(mq) = e
  OBVIOUS
<1> HIDE DEF C, e, mq
<1>7. h.uvpt[e] = "last"
  <2>1. Uses(B, mp, st, e) \in Nat /\ Uses(B, mp, st, e) # 0
    BY UsesFacts DEF e
  <2> QED
    BY <1>1, <1>2, <2>1 DEF Counts
<1>8. Inner(C, b) = {}
  BY <1>1, <1>2, <1>4
<1>9. \A p \in HeapPages :
         Uses(C, mq, st, p) = IF p = e THEN Uses(B, mp, st, p) + 1 ELSE Uses(B, mp, st, p)
  <2>1. ASSUME NEW p \in HeapPages
        PROVE  Uses(C, mq, st, p) = IF p = e THEN Uses(B, mp, st, p) + 1 ELSE Uses(B, mp, st, p)
    <3>1. b \notin Ending(B, p)
      BY <1>4 DEF Ending
    <3>2. IsFiniteSet(Ending(B, p)) /\ Cardinality(Ending(B, p)) \in Nat
      BY UsesFacts
    <3>3. Cardinality(Ending(C, p))
          = IF p = e THEN Cardinality(Ending(B, p)) + 1 ELSE Cardinality(Ending(B, p))
      BY <1>4, <3>1, <3>2, FS_AddElement
    <3>4. PICK t \in Nat : t = (IF p = e THEN 1 ELSE 0)
      OBVIOUS
    <3>5. PICK s \in Nat : s = (IF p \in st THEN 1 ELSE 0)
      OBVIOUS
    <3>6. Uses(C, mq, st, p) = Cardinality(Ending(C, p)) + t + s
      BY <1>5, <1>6, <3>4, <3>5 DEF Uses
    <3>7. Uses(B, mp, st, p) = Cardinality(Ending(B, p)) + t + s
      BY <3>4, <3>5 DEF Uses, e
    <3> QED
      BY <3>2, <3>3, <3>6, <3>7
  <2> QED
    BY <2>1
<1>10. Typed(g, C, mq, st)
  <2>1. \A c \in Have(C) : To(C, c) \in HeapPages
    BY <1>1, <1>2, <1>4 DEF Typed, SameBlock
  <2>2. g.ref \in [HeapPages -> Int]
    BY <1>1 DEF Typed, e
  <2> QED
    BY <1>1, <1>2, <1>4, <1>6, <2>1, <2>2 DEF Typed
<1>11. Counts(g, C, mq, st)
  <2> SUFFICES ASSUME NEW p \in HeapPages
               PROVE  /\ g.uvpt[p] = "last" <=> Uses(C, mq, st, p) > 0
                      /\ g.uvpt[p] = "last" => g.ref[p] = Uses(C, mq, st, p)
    BY DEF Counts
  <2>1. /\ h.uvpt[p] = "last" <=> Uses(B, mp, st, p) > 0
        /\ h.uvpt[p] = "last" => h.ref[p] = Uses(B, mp, st, p)
        /\ Uses(B, mp, st, p) \in Nat
    BY <1>1, <1>2, UsesFacts DEF Counts
  <2>2. g.ref[p] = IF p = e THEN h.ref[p] + 1 ELSE h.ref[p]
    BY <1>1 DEF Typed, e
  <2> QED
    BY <1>7, <1>9, <2>1, <2>2
<1>12. Runs(g, C)
  <2>1. \A c \in Have(C) : Inner(C, c) = IF c = b THEN {} ELSE Inner(B, c)
    BY <1>4, <1>8 DEF SameBlock
  <2> QED
    BY <1>1, <1>2, <1>4, <2>1 DEF Runs
<1>13. Tip(C, mq)
  <2> SUFFICES ASSUME NEW c \in Have(C), To(C, c) = e PROVE C[c][1] + C[c][2] <= mq
    BY <1>6 DEF Tip
  <2>1. CASE c = b
    BY <1>1, <1>2, <1>4, <2>1 DEF mq
  <2>2. CASE c # b
    <3>1. c \in Have(B) /\ C[c] = B[c] /\ To(B, c) = e
      BY <1>4, <2>2 DEF SameBlock
    <3>2. B[c][1] \in Nat /\ B[c][2] \in Nat
      BY <1>1, <1>2, <3>1, BlockFacts
    <3>3. B[c][1] + B[c][2] <= mp
      BY <1>1, <1>2, <3>1 DEF Tip, e
    <3> QED
      BY <1>1, <1>2, <3>1, <3>2, <3>3 DEF mq
  <2> QED
    BY <2>1, <2>2
<1>14. \A c \in Have(B) : Extent(B, c) \cap Extent(C, b) = {}
  <2> SUFFICES ASSUME NEW c \in Have(B), NEW w \in Extent(B, c), w \in Extent(C, b) PROVE FALSE
    OBVIOUS
  <2>1. w \in Nat /\ mp <= w /\ w <= mq
    BY <1>1, <1>2, <1>4
  <2>2. Page(w) = e
    <3>1. Page(mp) <= Page(w) /\ Page(w) <= Page(mq) /\ Page(w) \in Nat
      BY <1>1, <1>2, <2>1, PageMonotone, PageFacts
    <3> QED
      BY <1>1, <1>2, <1>6, <3>1 DEF e
  <2>3. e \in Inner(B, c) \/ e = To(B, c)
    BY <1>1, <1>2, <2>2, WordFacts
  <2>4. e \notin Inner(B, c)
    BY <1>1, <1>2, <1>7 DEF Runs
  <2>5. B[c][1] + B[c][2] <= mp
    BY <1>1, <1>2, <2>3, <2>4 DEF Tip, e
  <2>6. w < B[c][1] + B[c][2] /\ B[c][1] \in Nat /\ B[c][2] \in Nat
    BY <1>1, <1>2, <2>1, BlockFacts DEF Extent
  <2> QED
    BY <1>1, <1>2, <2>1, <2>5, <2>6
<1>15. Apart(C)
  <2>1. \A c \in Have(B) : Extent(C, c) = Extent(B, c)
    BY <1>4 DEF SameBlock
  <2> QED
    BY <1>1, <1>2, <1>4, <1>14, <2>1 DEF Apart
<1> QED
  BY <1>10, <1>11, <1>12, <1>13, <1>15 DEF Ok, C, mq

(* A block on free pages, at the start of the first of them.               *)
LEMMA FreshOk ==
    ASSUME NEW h, NEW B, NEW mp, NEW st, Ok(h, B, mp, st), Aligned(mp),
           NEW b \in Blocks, B[b] = NoBlock, NEW n \in Nat, NEW p \in HeapPages,
           NEW l, l = p + n \div PGSIZE,
           p..l \subseteq {q \in HeapPages : h.uvpt[q] = "free"},
           NEW g, g.uvpt = [q \in HeapPages |-> IF q \notin p..l THEN h.uvpt[q]
                                                ELSE IF q = l THEN "last" ELSE "continued"],
           g.ref = [h.ref EXCEPT ![l] = 2],
           NEW su, su = IF Aligned(n) THEN st \cup {l} ELSE st,
           NEW mq, mq = p * PGSIZE + n
    PROVE  Ok(g, Grown(B, b, p * PGSIZE, n), mq, su)
<1> DEFINE C == Grown(B, b, p * PGSIZE, n)
           v == p * PGSIZE
<1>1. /\ Typed(h, B, mp, st) /\ Counts(h, B, mp, st) /\ Runs(h, B) /\ Apart(B)
      /\ B \in [Blocks -> (Nat \X Nat) \cup {NoBlock}] /\ p \in Nat
  BY HeapFacts DEF Ok, Typed
<1>2. /\ v \in Nat /\ Page(v) = p /\ mq \in Nat /\ mq = v + n
      /\ Page(mq) = l
      /\ Aligned(mq) <=> Aligned(n)
  BY <1>1, PageStart, PageOffset
<1>3. l \in HeapPages /\ p <= l /\ l \in Nat /\ l \in p..l
  <2>1. n \div PGSIZE \in Nat
    BY <1>1, PageOffset
  <2>2. p <= l /\ l \in Nat
    BY <1>1, <2>1
  <2> QED
    BY <1>1, <2>2
<1>4. GrownBy(C, B, b, v, n, l)
  BY <1>1, <1>2, GrownFacts
<1> HIDE DEF C, v
<1>5. /\ C \in [Blocks -> (Nat \X Nat) \cup {NoBlock}]
      /\ Have(C) = Have(B) \cup {b} /\ b \notin Have(B)
      /\ \A c \in Have(B) : SameBlock(C, B, c)
      /\ C[b][1] = v /\ C[b][2] = n /\ To(C, b) = l
  BY <1>4, Zenon DEF GrownBy
<1>6. Inner(C, b) = p..l - 1 /\ Extent(C, b) = v..mq - 1
  <2>1. Inner(C, b) = Page(v)..l - 1 /\ Extent(C, b) = v..v + n - 1
    BY <1>4, Zenon DEF GrownBy
  <2>2. v + n - 1 = mq - 1
    BY <1>2
  <2> QED
    BY <1>2, <2>1, <2>2, Zenon
<1>7. \A q : Ending(C, q) = IF q = l THEN Ending(B, q) \cup {b} ELSE Ending(B, q)
  BY <1>4, Zenon DEF GrownBy
<1>8. \A q \in p..l : /\ q \in HeapPages /\ h.uvpt[q] = "free"
                      /\ Uses(B, mp, st, q) = 0 /\ Ending(B, q) = {} /\ q \notin st
  <2> SUFFICES ASSUME NEW q \in p..l
               PROVE  Uses(B, mp, st, q) = 0 /\ Ending(B, q) = {} /\ q \notin st
    OBVIOUS
  <2>1. q \in HeapPages /\ h.uvpt[q] = "free"
    OBVIOUS
  <2>2. Uses(B, mp, st, q) \in Nat /\ ~(Uses(B, mp, st, q) > 0)
    BY <1>1, <2>1, UsesFacts DEF Counts
  <2> QED
    BY <2>2, UsesFacts
<1>9. \A q \in HeapPages :
         Uses(C, mq, su, q) = IF q = l THEN 2 ELSE Uses(B, mp, st, q)
  <2> SUFFICES ASSUME NEW q \in HeapPages
               PROVE  Uses(C, mq, su, q) = IF q = l THEN 2 ELSE Uses(B, mp, st, q)
    OBVIOUS
  <2>1. CASE q = l
    <3>1. Ending(C, q) = {b} /\ Cardinality({b}) = 1
      BY <1>3, <1>7, <1>8, <2>1, FS_Singleton
    <3>2. q \in su <=> Aligned(n)
      BY <1>3, <1>8, <2>1
    <3>3. CASE Aligned(n)
      <4>1. (IF ~Aligned(mq) /\ Page(mq) = q THEN 1 ELSE 0) = 0 /\ (IF q \in su THEN 1 ELSE 0) = 1
        BY <1>2, <3>2, <3>3, Zenon
      <4>2. Uses(C, mq, su, q) = 1 + 0 + 1
        BY <3>1, <4>1, Zenon DEF Uses
      <4> QED
        BY <2>1, <4>2
    <3>4. CASE ~Aligned(n)
      <4>1. (IF ~Aligned(mq) /\ Page(mq) = q THEN 1 ELSE 0) = 1 /\ (IF q \in su THEN 1 ELSE 0) = 0
        BY <1>2, <2>1, <3>2, <3>4, Zenon
      <4>2. Uses(C, mq, su, q) = 1 + 1 + 0
        BY <3>1, <4>1, Zenon DEF Uses
      <4> QED
        BY <2>1, <4>2
    <3> QED
      BY <3>3, <3>4
  <2>2. CASE q # l
    <3>1. Ending(C, q) = Ending(B, q) /\ (q \in su <=> q \in st)
      BY <1>7, <2>2
    <3>2. /\ (IF ~Aligned(mq) /\ Page(mq) = q THEN 1 ELSE 0) = 0
          /\ (IF ~Aligned(mp) /\ Page(mp) = q THEN 1 ELSE 0) = 0
      BY <1>2, <2>2, Zenon
    <3>3. (IF q \in su THEN 1 ELSE 0) = (IF q \in st THEN 1 ELSE 0)
      BY <3>1, Zenon
    <3>4. Uses(C, mq, su, q) = Uses(B, mp, st, q)
      BY <3>1, <3>2, <3>3, Zenon DEF Uses
    <3> QED
      BY <2>2, <3>4
  <2> QED
    BY <2>1, <2>2
<1>10. Typed(g, C, mq, su)
  <2>1. \A c \in Have(C) : To(C, c) \in HeapPages
    BY <1>1, <1>3, <1>5 DEF Typed, SameBlock
  <2>2. g.ref \in [HeapPages -> Int]
    <3>1. h.ref \in [HeapPages -> Int] /\ 2 \in Int
      BY <1>1 DEF Typed
    <3> QED
      BY ONLY <3>1, g.ref = [h.ref EXCEPT ![l] = 2]
  <2>3. su \subseteq HeapPages
    BY <1>1, <1>3 DEF Typed
  <2>4. g.uvpt \in [HeapPages -> {"free", "last", "continued"}]
    BY <1>1 DEF Typed
  <2> QED
    BY <1>2, <1>3, <1>5, <2>1, <2>2, <2>3, <2>4 DEF Typed
<1>11. Counts(g, C, mq, su)
  <2> SUFFICES ASSUME NEW q \in HeapPages
               PROVE  /\ g.uvpt[q] = "last" <=> Uses(C, mq, su, q) > 0
                      /\ g.uvpt[q] = "last" => g.ref[q] = Uses(C, mq, su, q)
    BY DEF Counts
  <2>1. /\ h.uvpt[q] = "last" <=> Uses(B, mp, st, q) > 0
        /\ h.uvpt[q] = "last" => h.ref[q] = Uses(B, mp, st, q)
    BY <1>1 DEF Counts
  <2>2. g.ref[q] = IF q = l THEN 2 ELSE h.ref[q]
    BY <1>1 DEF Typed
  <2>3. CASE q = l
    <3>1. g.uvpt[q] = "last" /\ g.ref[q] = 2 /\ Uses(C, mq, su, q) = 2
      BY <1>3, <1>9, <2>2, <2>3
    <3> QED
      BY <3>1
  <2>4. CASE q # l /\ q \in p..l
    <3>1. g.uvpt[q] = "continued" /\ Uses(C, mq, su, q) = 0
      BY <1>8, <1>9, <2>4
    <3> QED
      BY <3>1
  <2>5. CASE q \notin p..l
    <3>1. q # l /\ g.uvpt[q] = h.uvpt[q]
      BY <1>3, <2>5
    <3> QED
      BY <1>9, <2>1, <2>2, <3>1
  <2> QED
    BY <2>3, <2>4, <2>5
<1>12. \A c \in Have(B) : \A q \in p..l : q \notin Inner(B, c)
  BY <1>1, <1>8 DEF Runs
<1>13. Runs(g, C)
  <2>1. \A c \in Have(B) : Inner(C, c) = Inner(B, c)
    BY <1>5 DEF SameBlock
  <2>2. \A q \in HeapPages : q \in p..l - 1 <=> q \in p..l /\ q # l
    BY <1>1, <1>3, HeapFacts
  <2>3. ASSUME NEW q \in HeapPages
        PROVE  g.uvpt[q] = "continued" <=> \E c \in Have(C) : q \in Inner(C, c)
    <3>1. CASE q \in p..l
      BY <1>5, <1>6, <1>12, <2>1, <2>2, <3>1
    <3>2. CASE q \notin p..l
      <4>1. g.uvpt[q] = h.uvpt[q] /\ q \notin Inner(C, b)
        BY <1>6, <2>2, <3>2
      <4>2. h.uvpt[q] = "continued" <=> \E c \in Have(B) : q \in Inner(B, c)
        BY <1>1 DEF Runs
      <4> QED
        BY <1>5, <2>1, <4>1, <4>2
    <3> QED
      BY <3>1, <3>2
  <2>4. ASSUME NEW c \in Have(C), NEW d \in Have(C), NEW q \in HeapPages,
               q \in Inner(C, c), q \in Inner(C, d)
        PROVE  c = d
    <3>1. CASE c \in Have(B) /\ d \in Have(B)
      BY <1>1, <2>1, <2>4, <3>1 DEF Runs
    <3>2. CASE c = b \/ d = b
      <4>1. q \in p..l
        BY <1>6, <2>2, <2>4, <3>2
      <4> QED
        BY <1>5, <1>12, <2>1, <2>4, <4>1
    <3> QED
      BY <1>5, <3>1, <3>2
  <2> QED
    BY <2>3, <2>4 DEF Runs
<1>14. Tip(C, mq)
  <2> SUFFICES ASSUME NEW c \in Have(C), To(C, c) = l PROVE C[c][1] + C[c][2] <= mq
    BY <1>2 DEF Tip
  <2>1. c = b
    <3>1. ASSUME c \in Have(B) PROVE FALSE
      <4>1. To(B, c) = l
        BY <1>5, <3>1 DEF SameBlock
      <4>2. c \in Ending(B, l)
        BY <3>1, <4>1 DEF Ending
      <4> QED
        BY <1>3, <1>8, <4>2
    <3> QED
      BY <1>5, <3>1
  <2> QED
    BY <1>2, <1>5, <2>1
<1>15. \A c \in Have(B) : Extent(B, c) \cap Extent(C, b) = {}
  <2> SUFFICES ASSUME NEW c \in Have(B), NEW w \in Extent(B, c), w \in Extent(C, b) PROVE FALSE
    OBVIOUS
  <2>1. w \in Nat /\ v <= w /\ w <= mq
    BY <1>2, <1>6
  <2>2. Page(w) \in p..l
    <3>1. Page(v) <= Page(w) /\ Page(w) <= Page(mq) /\ Page(w) \in Nat
      BY <1>2, <2>1, PageMonotone, PageFacts
    <3> QED
      BY <1>1, <1>2, <1>3, <3>1
  <2>3. Page(w) \in Inner(B, c) \/ Page(w) = To(B, c)
    BY <1>1, WordFacts
  <2>4. Page(w) # To(B, c)
    BY <1>8, <2>2 DEF Ending
  <2> QED
    BY <1>12, <2>2, <2>3, <2>4
<1>16. Apart(C)
  <2>1. \A c \in Have(B) : Extent(C, c) = Extent(B, c)
    BY <1>5 DEF SameBlock
  <2> QED
    BY <1>1, <1>5, <1>15, <2>1 DEF Apart
<1> QED
  BY <1>10, <1>11, <1>13, <1>14, <1>16 DEF Ok, C, v

-----------------------------------------------------------------------------
(* The steps.                                                              *)
LEMMA SameOk ==
    ASSUME NEW h, NEW g, g.uvpt = h.uvpt, g.ref = h.ref, NEW B, NEW mp, NEW st,
           Ok(h, B, mp, st)
    PROVE  Ok(g, B, mp, st)
BY DEF Ok, Typed, Counts, Runs

LEMMA HeapIs == heap.uvpt = uvpt /\ heap.ref = ref
BY DEF heap

LEMMA HeapBecomes ==
    /\ heap'.uvpt = uvpt' /\ heap'.ref = ref'
    /\ HeapInv' <=> Ok(heap', block', mptr', stale')
BY DEF heap, HeapInv

(* The heap that the search for a fresh page begins with.                  *)
LEMMA LeftOk ==
    ASSUME HeapInv, NEW mq \in Nat, Aligned(mq)
    PROVE  /\ Ok(Left, block, mq, stale)
           /\ Start \in Nat
<1>1. mptr \in Nat /\ Ok(heap, block, mptr, stale)
  BY DEF HeapInv, Ok, Typed
<1>2. Page(mptr) \in Nat
  BY <1>1, PageFacts
<1>3. CASE Aligned(mptr)
  BY <1>1, <1>2, <1>3, AnyAligned DEF Left, Start
<1>4. CASE ~Aligned(mptr)
  BY <1>1, <1>2, <1>4, LeaveOk DEF Left, Start
<1> QED
  BY <1>3, <1>4

LEMMA FreeStep ==
    ASSUME HeapInv, NEW b \in Blocks, free(b)
    PROVE  HeapInv'
<1> DEFINE g == Release(heap, block[b][1])
<1>1. b \in Have(block)
  BY DEF free, Have
<1>2. Ok(g, [block EXCEPT ![b] = NoBlock], mptr, stale)
  BY <1>1, FreeOk DEF HeapInv
<1>3. /\ uvpt' = g.uvpt /\ ref' = g.ref /\ block' = [block EXCEPT ![b] = NoBlock]
      /\ mptr' = mptr /\ stale' = stale
  BY DEF free, Becomes
<1> HIDE DEF g
<1>4. Ok(g, block', mptr', stale')
  BY <1>2, <1>3
<1> QED
  BY <1>3, <1>4, HeapBecomes, SameOk

LEMMA HereStep ==
    ASSUME HeapInv, NEW b \in Blocks, NEW n \in Nat, block[b] = NoBlock, MallocHere(b, n)
    PROVE  HeapInv'
<1> DEFINE g == [uvpt |-> uvpt, ref |-> [ref EXCEPT ![Page(mptr)] = @ + 1]]
<1>1. /\ g.uvpt = heap.uvpt /\ g.ref = [heap.ref EXCEPT ![Page(mptr)] = @ + 1]
      /\ uvpt' = g.uvpt /\ ref' = g.ref
  BY HeapIs DEF MallocHere
<1> HIDE DEF g
<1>2. /\ ~Aligned(mptr) /\ Page(mptr) = Page(mptr + n)
      /\ block' = Grown(block, b, mptr, n) /\ mptr' = mptr + n /\ stale' = stale
  BY DEF MallocHere, Fits, Grown
<1>3. Ok(g, Grown(block, b, mptr, n), mptr + n, stale)
  BY <1>1, <1>2, HereOk DEF HeapInv
<1>4. Ok(g, block', mptr', stale')
  BY <1>2, <1>3
<1> QED
  BY <1>1, <1>4, HeapBecomes, SameOk

LEMMA FreshStep ==
    ASSUME HeapInv, NEW b \in Blocks, NEW n \in Nat, block[b] = NoBlock, MallocFresh(b, n)
    PROVE  HeapInv'
<1>1. PICK p \in Found(n) :
        /\ uvpt' = [q \in HeapPages |-> IF q \notin Span(p, n) THEN Left.uvpt[q]
                                   ELSE IF q = p + n \div PGSIZE THEN "last" ELSE "continued"]
        /\ ref' = [Left.ref EXCEPT ![p + n \div PGSIZE] = 2]
        /\ mptr' = p * PGSIZE + n
        /\ block' = [block EXCEPT ![b] = <<p * PGSIZE, n>>]
        /\ stale' = IF Aligned(n) THEN stale \cup {p + n \div PGSIZE} ELSE stale
  BY DEF MallocFresh
<1>2. PICK l : l = p + n \div PGSIZE
  OBVIOUS
<1>3. /\ p \in HeapPages /\ Span(p, n) = p..l
      /\ p..l \subseteq {q \in HeapPages : Left.uvpt[q] = "free"}
  BY <1>2 DEF Found, isfree, Span
<1> DEFINE g == [uvpt |-> uvpt', ref |-> ref']
<1>4. g.uvpt = uvpt' /\ g.ref = ref'
  OBVIOUS
<1> HIDE DEF g
<1>5. /\ g.uvpt = [q \in HeapPages |-> IF q \notin p..l THEN Left.uvpt[q]
                                       ELSE IF q = l THEN "last" ELSE "continued"]
      /\ g.ref = [Left.ref EXCEPT ![l] = 2]
      /\ stale' = IF Aligned(n) THEN stale \cup {l} ELSE stale
      /\ mptr' = p * PGSIZE + n
      /\ block' = Grown(block, b, p * PGSIZE, n)
  BY <1>1, <1>2, <1>3, <1>4 DEF Grown
<1>6. Aligned(0) /\ 0 \in Nat
  BY HeapFacts DEF Aligned
<1>7. Ok(Left, block, 0, stale)
  BY <1>6, LeftOk
<1>8. Ok(g, Grown(block, b, p * PGSIZE, n), mptr', stale')
  BY <1>2, <1>3, <1>5, <1>6, <1>7, FreshOk
<1>9. Ok(g, block', mptr', stale')
  BY <1>5, <1>8
<1> QED
  BY <1>4, <1>9, HeapBecomes, SameOk

(* A malloc that finds no memory has left the page of mptr all the same.   *)
LEMMA FailStep ==
    ASSUME HeapInv, NEW n,
           MallocNoMemory(n) \/ MallocNoSpace(n) \/ MallocHangs(n)
    PROVE  HeapInv'
<1>1. uvpt' = Left.uvpt /\ ref' = Left.ref /\ block' = block /\ stale' = stale
  BY DEF MallocNoMemory, MallocNoSpace, MallocHangs, Becomes
<1>2. \E p \in Nat : mptr' = p * PGSIZE
  <2>1. CASE MallocNoMemory(n)
    BY <2>1, HeapFacts DEF MallocNoMemory, Found
  <2>2. CASE MallocNoSpace(n)
    <3>1. mptr' = 0 * PGSIZE
      BY <2>2, HeapFacts DEF MallocNoSpace
    <3> QED
      BY <3>1
  <2>3. CASE MallocHangs(n)
    <3>1. mptr' = (NPages + 1) * PGSIZE /\ NPages + 1 \in Nat
      BY <2>3, HeapFacts DEF MallocHangs
    <3> QED
      BY <3>1
  <2> QED
    BY <2>1, <2>2, <2>3
<1>3. mptr' \in Nat /\ Aligned(mptr')
  BY <1>2, PageStart
<1>4. Ok(Left, block', mptr', stale')
  BY <1>1, <1>3, LeftOk
<1> QED
  BY <1>1, <1>4, HeapBecomes, SameOk

LEMMA HeapInitInv ==
    ASSUME HeapInit
    PROVE  HeapInv
<1>1. /\ heap.uvpt = [p \in HeapPages |-> "free"] /\ heap.ref = [p \in HeapPages |-> 0]
      /\ mptr = 0 /\ stale = {} /\ block = [b \in Blocks |-> NoBlock]
  BY HeapIs DEF HeapInit
<1>2. Have(block) = {}
  BY <1>1 DEF Have
<1>3. Aligned(mptr) /\ mptr \in Nat
  BY <1>1, HeapFacts DEF Aligned
<1>4. Typed(heap, block, mptr, stale)
  BY <1>1, <1>2, <1>3 DEF Typed
<1>5. Counts(heap, block, mptr, stale)
  <2>1. \A p \in HeapPages : heap.uvpt[p] = "free"
    BY <1>1
  <2>2. \A p \in HeapPages : Ending(block, p) = {}
    BY <1>2 DEF Ending
  <2>3. \A p \in HeapPages : Uses(block, mptr, stale, p) = 0
    BY <1>1, <1>3, <2>2, UsesFacts
  <2> QED
    BY <2>1, <2>3 DEF Counts
<1>6. Runs(heap, block) /\ Tip(block, mptr) /\ Apart(block)
  <2>1. \A p \in HeapPages : heap.uvpt[p] = "free"
    BY <1>1
  <2> QED
    BY <1>2, <2>1 DEF Runs, Tip, Apart
<1> QED
  BY <1>4, <1>5, <1>6 DEF HeapInv, Ok

LEMMA HeapStepInv ==
    ASSUME HeapInv, [HeapNext]_heapVars
    PROVE  HeapInv'
<1>1. ASSUME NEW b \in Blocks, free(b) PROVE HeapInv'
  BY <1>1, FreeStep
<1>2. ASSUME NEW b \in Blocks, NEW n \in Sizes, malloc(b, n) PROVE HeapInv'
  <2>1. n \in Nat /\ block[b] = NoBlock
    BY <1>2, HeapAssumption DEF malloc
  <2>2. CASE MallocHere(b, n)
    BY <2>1, <2>2, HereStep
  <2>3. CASE MallocFresh(b, n)
    BY <2>1, <2>3, FreshStep
  <2>4. CASE MallocNoMemory(n) \/ MallocNoSpace(n) \/ MallocHangs(n)
    BY <2>4, FailStep
  <2> QED
    BY <1>2, <2>2, <2>3, <2>4 DEF malloc
<1>3. ASSUME UNCHANGED heapVars PROVE HeapInv'
  <2>1. heap' = heap /\ block' = block /\ mptr' = mptr /\ stale' = stale
    BY <1>3 DEF heapVars, heap
  <2> QED
    BY <2>1 DEF HeapInv
<1> QED
  BY <1>1, <1>2, <1>3 DEF HeapNext

(* Blocks, counts, continued pages and mptr fit together after every call  *)
(* of malloc and free.                                                     *)
THEOREM HeapInvariance == HeapSpec => []HeapInv
<1>1. HeapInit => HeapInv
  BY HeapInitInv
<1>2. HeapInv /\ [HeapNext]_heapVars => HeapInv'
  BY HeapStepInv
<1> QED
  BY <1>1, <1>2, PTL DEF HeapSpec

-----------------------------------------------------------------------------
(* Two blocks that a program has at a time share no word, and no word of a *)
(* block is the count of the page it lies on: what malloc.c gives out is   *)
(* the program's alone.                                                    *)
THEOREM MallocApart == HeapSpec => []BlocksApart
<1>1. HeapInv => BlocksApart
  <2> SUFFICES ASSUME HeapInv, NEW b \in Live
               PROVE  /\ \A c \in Live \ {b} : Words(b) \cap Words(c) = {}
                      /\ \A w \in Words(b) : /\ uvpt[Page(w)] # "free"
                                             /\ uvpt[Page(w)] = "last" => ~Aligned(w + 1)
    BY DEF BlocksApart
  <2>1. /\ Typed(heap, block, mptr, stale) /\ Counts(heap, block, mptr, stale)
        /\ Runs(heap, block) /\ Apart(block)
    BY DEF HeapInv, Ok
  <2>2. Live = Have(block) /\ \A c : Words(c) = Extent(block, c)
    BY DEF Live, Have, Words, Extent
  <2>3. ASSUME NEW w \in Words(b)
        PROVE  /\ uvpt[Page(w)] # "free"
               /\ uvpt[Page(w)] = "last" => ~Aligned(w + 1)
    <3>1. /\ Page(w) \in HeapPages
          /\ Page(w) \in Inner(block, b) \/ Page(w) = To(block, b)
          /\ Page(w) = To(block, b) => ~Aligned(w + 1)
      BY <2>1, <2>2, <2>3, WordFacts
    <3>2. CASE Page(w) \in Inner(block, b)
      <4>1. uvpt[Page(w)] = "continued"
        BY <2>1, <2>2, <3>1, <3>2, HeapIs DEF Runs
      <4> QED
        BY <4>1
    <3>3. CASE Page(w) = To(block, b)
      <4>1. b \in Ending(block, Page(w))
        BY <2>2, <3>3 DEF Ending
      <4>2. /\ Uses(block, mptr, stale, Page(w)) \in Nat
            /\ Uses(block, mptr, stale, Page(w)) # 0
        BY <4>1, UsesFacts
      <4>3. uvpt[Page(w)] = "last"
        BY <2>1, <3>1, <4>2, HeapIs DEF Counts
      <4> QED
        BY <3>1, <3>3, <4>3
    <3> QED
      BY <3>1, <3>2, <3>3
  <2>4. \A c \in Live \ {b} : Words(b) \cap Words(c) = {}
    BY <2>1, <2>2 DEF Apart
  <2> QED
    BY <2>3, <2>4
<1> QED
  BY <1>1, HeapInvariance, PTL

(* A page is mapped exactly while somebody has a part of it, its count is  *)
(* that of those who have, and a page that is continued belongs to a block *)
(* that goes on: what free takes away nobody needs.                        *)
THEOREM MallocExact == HeapSpec => []PagesExact
<1>1. HeapInv => PagesExact
  <2> SUFFICES ASSUME HeapInv, NEW p \in HeapPages
               PROVE  /\ uvpt[p] = "last" <=> Users(p) > 0
                      /\ uvpt[p] = "last" => ref[p] = Users(p)
                      /\ uvpt[p] = "continued" <=>
                           \E b \in Live : p \in Page(block[b][1])..Page(block[b][1] + block[b][2]) - 1
    BY DEF PagesExact
  <2>1. Counts(heap, block, mptr, stale) /\ Runs(heap, block)
    BY DEF HeapInv, Ok
  <2>2. Live = Have(block)
    BY DEF Live, Have
  <2>3. Users(p) = Uses(block, mptr, stale, p)
    BY <2>2 DEF Users, Uses, Ending, To
  <2>4. \A b : Inner(block, b) = Page(block[b][1])..Page(block[b][1] + block[b][2]) - 1
    BY DEF Inner, From, To
  <2>5. /\ uvpt[p] = "last" <=> Users(p) > 0
        /\ uvpt[p] = "last" => ref[p] = Users(p)
    BY <2>1, <2>3, HeapIs DEF Counts
  <2>6. uvpt[p] = "continued" <=> \E b \in Live : p \in Inner(block, b)
    BY <2>1, <2>2, HeapIs DEF Runs
  <2> QED
    BY <2>4, <2>5, <2>6
<1> QED
  BY <1>1, HeapInvariance, PTL
=============================================================================

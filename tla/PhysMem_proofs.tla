-------------------------- MODULE PhysMem_proofs --------------------------
(***************************************************************************)
(* Proofs about the allocator and the address spaces of PhysMem, for any   *)
(* number of environments, pages and addresses.                            *)
(*                                                                         *)
(* An operation of pmap.c works on a record that is not a state of the     *)
(* system: a page that page_alloc has handed out, or whose last reference  *)
(* is gone, is on no list and has no reference.  Such pages are "in hand". *)
(* Alloc(m, H) is the invariant of the allocator when the pages of H are.  *)
(***************************************************************************)
EXTENDS PhysMem, FiniteSetTheorems, TLAPS

InUse == ToSet(Usable)

(* The n pages q are on the free list, in this order, and no other page    *)
(* has a link.                                                             *)
Chain(m, q, n) ==
    /\ n \in Nat /\ q \in [1..n -> Pages]
    /\ \A i, j \in 1..n : q[i] = q[j] => i = j
    /\ m.head = IF n = 0 THEN NULL ELSE q[1]
    /\ \A i \in 1..n-1 : m.link[q[i]] = q[i+1]
    /\ n > 0 => m.link[q[n]] \in {NULL, q[n]}
    /\ \A p \in Pages : m.link[p] # NULL => \E i \in 1..n : p = q[i]

FreePgs(m, H) == {p \in InUse : m.ref[p] = 0} \ (m.dropped \cup H)

Alloc(m, H) ==
    /\ m \in Memory /\ ~m.panicked
    /\ m.dropped \cup H \subseteq InUse
    /\ \A p \in m.dropped \cup H : m.ref[p] = 0
    /\ m.dropped \cap H = {}
    /\ \E n, q : Chain(m, q, n) /\ {q[i] : i \in 1..n} = FreePgs(m, H)

(* What the allocator does not touch.                                      *)
SameSpaces(m, n) ==
    /\ n.root = m.root /\ n.tab = m.tab /\ n.pte = m.pte
    /\ n.lost = m.lost /\ n.dropped = m.dropped

-----------------------------------------------------------------------------
LEMMA InUsePages == InUse \subseteq Pages \ {Page0}
BY FreePagesAssumption, PhysMemAssumption DEF InUse, ToSet

(* page_alloc takes the first page of the list in hand.                    *)
LEMMA AllocTakes ==
    ASSUME NEW m, NEW H, Alloc(m, H), CanAlloc(m)
    PROVE  /\ Alloc(page_alloc(m), H \cup {m.head})
           /\ m.head \in FreePgs(m, H)
           /\ page_alloc(m).ref = m.ref
           /\ SameSpaces(m, page_alloc(m))
<1> DEFINE p == m.head
           t == page_alloc(m)
<1>1. m \in Memory /\ ~m.panicked /\ NULL \notin Pages
  BY FreePagesAssumption DEF Alloc
<1>2. PICK n, q : Chain(m, q, n) /\ {q[i] : i \in 1..n} = FreePgs(m, H)
  BY DEF Alloc
<1>3. n > 0 /\ p = q[1] /\ p \in Pages /\ n \in Nat /\ 1 \in 1..n
  BY <1>1, <1>2, SMT DEF Chain, CanAlloc
<1>4. /\ t \in Memory /\ t.panicked = FALSE
      /\ t.ref = m.ref /\ SameSpaces(m, t)
      /\ t.head = IF m.link[p] = p THEN NULL ELSE m.link[p]
      /\ t.link = [m.link EXCEPT ![p] = NULL]
  BY <1>1, <1>3 DEF page_alloc, Memory, SameSpaces
<1>5. p \in FreePgs(m, H)
  BY <1>2, <1>3
<1> HIDE DEF t
<1> DEFINE r == [i \in 1..n-1 |-> q[i+1]]
<1>6. Chain(t, r, n-1)
  <2>1. n-1 \in Nat /\ r \in [1..n-1 -> Pages]
    BY <1>2, <1>3 DEF Chain
  <2>2. \A i, j \in 1..n-1 : r[i] = r[j] => i = j
    BY <1>2, <1>3 DEF Chain
  <2>3. t.head = IF n-1 = 0 THEN NULL ELSE r[1]
    <3>1. CASE n = 1
      BY <1>2, <1>3, <1>4, <3>1 DEF Chain
    <3>2. CASE n # 1
      <4>1. m.link[q[1]] = q[2] /\ q[2] # q[1] /\ r[1] = q[2]
        BY <1>2, <1>3, <3>2 DEF Chain
      <4> QED
        BY <1>3, <1>4, <3>2, <4>1
    <3> QED
      BY <3>1, <3>2
  <2>4. \A i \in 1..n-1 : t.link[r[i]] = m.link[q[i+1]]
    BY <1>1, <1>2, <1>3, <1>4 DEF Chain, Memory
  <2>5. \A i \in 1..(n-1)-1 : t.link[r[i]] = r[i+1]
    BY <1>2, <1>3, <2>4 DEF Chain
  <2>6. n-1 > 0 => t.link[r[n-1]] \in {NULL, r[n-1]}
    BY <1>2, <1>3, <2>4 DEF Chain
  <2>7. ASSUME NEW x \in Pages, t.link[x] # NULL PROVE \E i \in 1..n-1 : x = r[i]
    <3>1. m.link[x] # NULL /\ x # p
      BY <1>1, <1>3, <1>4, <2>7 DEF Memory
    <3>2. PICK k \in 1..n : x = q[k]
      BY <1>2, <3>1 DEF Chain
    <3>3. k # 1
      BY <1>3, <3>1, <3>2
    <3>4. k-1 \in 1..n-1 /\ x = r[k-1]
      BY <1>3, <3>2, <3>3
    <3> QED
      BY <3>4
  <2> QED
    BY <2>1, <2>2, <2>3, <2>5, <2>6, <2>7 DEF Chain
<1>7. {r[i] : i \in 1..n-1} = FreePgs(t, H \cup {p})
  <2>1. FreePgs(t, H \cup {p}) = FreePgs(m, H) \ {p}
    BY <1>4 DEF FreePgs, SameSpaces
  <2>2. ASSUME NEW i \in 1..n-1 PROVE r[i] \in FreePgs(m, H) \ {p}
    BY <1>2, <1>3 DEF Chain
  <2>3. ASSUME NEW x \in FreePgs(m, H) \ {p} PROVE \E i \in 1..n-1 : x = r[i]
    <3>1. PICK k \in 1..n : x = q[k]
      BY <1>2
    <3>2. k-1 \in 1..n-1 /\ x = r[k-1]
      BY <1>3, <3>1
    <3> QED
      BY <3>2
  <2> HIDE DEF r
  <2> QED
    BY <2>1, <2>2, <2>3
<1>8. \E k, s : Chain(t, s, k) /\ {s[i] : i \in 1..k} = FreePgs(t, H \cup {p})
  <2> HIDE DEF r
  <2> QED
    BY <1>6, <1>7
<1> QED
  BY <1>4, <1>5, <1>8 DEF Alloc, SameSpaces, FreePgs, t

(* The list stays as it is when links, head and the set of free pages do.  *)
LEMMA SameList ==
    ASSUME NEW m, NEW H, Alloc(m, H), NEW n \in Memory, NEW G,
           n.link = m.link, n.head = m.head, ~n.panicked,
           n.dropped \cup G \subseteq InUse, \A p \in n.dropped \cup G : n.ref[p] = 0,
           n.dropped \cap G = {},
           FreePgs(n, G) = FreePgs(m, H)
    PROVE  Alloc(n, G)
<1>1. PICK k, q : Chain(m, q, k) /\ {q[i] : i \in 1..k} = FreePgs(m, H)
  BY DEF Alloc
<1>2. Chain(n, q, k)
  BY <1>1 DEF Chain
<1> QED
  BY <1>1, <1>2 DEF Alloc

(* pp_ref++ on a page in hand or in use.                                   *)
LEMMA IncrefKeeps ==
    ASSUME NEW m, NEW H, Alloc(m, H), NEW p \in InUse,
           p \in H \/ m.ref[p] > 0, m.ref[p] + 1 < RefMod
    PROVE  /\ Alloc(Incref(m, p), H \ {p})
           /\ Incref(m, p).ref = [m.ref EXCEPT ![p] = @ + 1]
           /\ SameSpaces(m, Incref(m, p))
<1> DEFINE n == Incref(m, p)
<1>1. m \in Memory /\ ~m.panicked /\ p \in Pages /\ RefMod \in Nat \ {0} /\ m.ref[p] \in Nat
  BY InUsePages, FreePagesAssumption DEF Alloc, Memory
<1>2. (m.ref[p] + 1) % RefMod = m.ref[p] + 1
  BY <1>1
<1>3. m.ref[p] + 1 \in 0..RefMod-1
  BY <1>1
<1>4. /\ n \in Memory /\ n.link = m.link /\ n.head = m.head /\ n.panicked = m.panicked
      /\ n.ref = [m.ref EXCEPT ![p] = m.ref[p] + 1] /\ SameSpaces(m, n)
  BY <1>1, <1>2, <1>3 DEF Incref, Memory, SameSpaces
<1> HIDE DEF n
<1>5. \A x \in Pages : n.ref[x] = IF x = p THEN m.ref[p] + 1 ELSE m.ref[x]
  BY <1>1, <1>4 DEF Memory
<1>6. p \notin m.dropped
  BY <1>1 DEF Alloc
<1>7. FreePgs(n, H \ {p}) = FreePgs(m, H)
  BY <1>1, <1>4, <1>5, <1>6, InUsePages DEF FreePgs, SameSpaces
<1>8. /\ n.dropped \cup (H \ {p}) \subseteq InUse
      /\ \A x \in n.dropped \cup (H \ {p}) : n.ref[x] = 0
      /\ n.dropped \cap (H \ {p}) = {}
  BY <1>1, <1>4, <1>5, <1>6, InUsePages DEF Alloc, SameSpaces
<1>9. Alloc(n, H \ {p})
  BY <1>1, <1>4, <1>7, <1>8, SameList
<1> QED
  BY <1>4, <1>9 DEF n

(* page_free puts a page in hand at the head of the list.                  *)
LEMMA FreePuts ==
    ASSUME NEW m, NEW H, Alloc(m, H), NEW p \in H
    PROVE  /\ Alloc(page_free(m, p), H \ {p})
           /\ page_free(m, p).ref = m.ref
           /\ SameSpaces(m, page_free(m, p))
<1> DEFINE t == page_free(m, p)
<1>1. /\ m \in Memory /\ ~m.panicked /\ NULL \notin Pages /\ p \in Pages /\ p \in InUse
      /\ m.ref[p] = 0 /\ p \notin m.dropped
  BY FreePagesAssumption, InUsePages DEF Alloc
<1>2. PICK n, q : Chain(m, q, n) /\ {q[i] : i \in 1..n} = FreePgs(m, H)
  BY DEF Alloc
<1>3. p \notin FreePgs(m, H)
  BY DEF FreePgs
<1>4. \A i \in 1..n : q[i] # p
  BY <1>2, <1>3
<1>5. m.link[p] = NULL
  BY <1>1, <1>2, <1>4 DEF Chain
<1>6. n \in Nat /\ (n = 0 <=> m.head = NULL) /\ q \in [1..n -> Pages]
  <2>1. n > 0 => 1 \in 1..n
    BY <1>2 DEF Chain
  <2> QED
    BY <1>1, <1>2, <2>1 DEF Chain
<1>7. /\ t \in Memory /\ t.panicked = FALSE
      /\ t.ref = m.ref /\ SameSpaces(m, t) /\ t.head = p
      /\ t.link = [m.link EXCEPT ![p] = IF m.head = NULL THEN p ELSE m.head]
  BY <1>1, <1>5 DEF page_free, Memory, SameSpaces
<1> HIDE DEF t
<1> DEFINE r == [i \in 1..n+1 |-> IF i = 1 THEN p ELSE q[i-1]]
<1>8. Chain(t, r, n+1)
  <2>1. n+1 \in Nat /\ r \in [1..n+1 -> Pages]
    BY <1>1, <1>6
  <2>2. \A i, j \in 1..n+1 : r[i] = r[j] => i = j
    BY <1>2, <1>4, <1>6 DEF Chain
  <2>3. t.head = r[1]
    BY <1>6, <1>7
  <2>4. \A x \in Pages : t.link[x] = IF x = p THEN (IF n = 0 THEN p ELSE q[1]) ELSE m.link[x]
    BY <1>1, <1>2, <1>6, <1>7 DEF Memory, Chain
  <2>5. \A i \in 1..n+1 : t.link[r[i]] = IF i = 1 THEN (IF n = 0 THEN p ELSE q[1]) ELSE m.link[q[i-1]]
    BY <1>1, <1>4, <1>6, <2>4
  <2>6. ASSUME NEW i \in 1..n PROVE t.link[r[i]] = r[i+1]
    <3>1. r[i+1] = q[i] /\ i \in 1..n+1
      BY <1>6
    <3>2. CASE i = 1
      BY <1>6, <2>5, <3>1, <3>2
    <3>3. CASE i # 1
      <4>1. i-1 \in 1..n-1 /\ (i-1)+1 = i
        BY <1>6, <3>3
      <4>2. m.link[q[i-1]] = q[i]
        BY <1>2, <4>1 DEF Chain
      <4> QED
        BY <2>5, <3>1, <3>3, <4>2
    <3> QED
      BY <3>2, <3>3
  <2>7. t.link[r[n+1]] \in {NULL, r[n+1]}
    BY <1>2, <1>6, <2>5 DEF Chain
  <2>8. ASSUME NEW x \in Pages, t.link[x] # NULL PROVE \E i \in 1..n+1 : x = r[i]
    <3>1. CASE x = p
      BY <1>6, <3>1
    <3>2. CASE x # p
      <4>1. PICK k \in 1..n : x = q[k]
        BY <1>2, <2>4, <2>8, <3>2 DEF Chain
      <4>2. k+1 \in 1..n+1 /\ x = r[k+1]
        BY <1>6, <4>1
      <4> QED
        BY <4>2
    <3> QED
      BY <3>1, <3>2
  <2> HIDE DEF r
  <2> QED
    BY <1>6, <2>1, <2>2, <2>3, <2>6, <2>7, <2>8 DEF Chain
<1>9. {r[i] : i \in 1..n+1} = FreePgs(t, H \ {p})
  <2>1. FreePgs(t, H \ {p}) = FreePgs(m, H) \cup {p}
    BY <1>1, <1>7 DEF FreePgs, SameSpaces
  <2>2. ASSUME NEW i \in 1..n+1 PROVE r[i] \in FreePgs(m, H) \cup {p}
    BY <1>2, <1>6
  <2>3. ASSUME NEW x \in FreePgs(m, H) \cup {p} PROVE \E i \in 1..n+1 : x = r[i]
    <3>1. CASE x = p
      BY <1>6, <3>1
    <3>2. CASE x # p
      <4>1. PICK k \in 1..n : x = q[k]
        BY <1>2, <3>2
      <4>2. k+1 \in 1..n+1 /\ x = r[k+1]
        BY <1>6, <4>1
      <4> QED
        BY <4>2
    <3> QED
      BY <3>1, <3>2
  <2> HIDE DEF r
  <2> QED
    BY <2>1, <2>2, <2>3
<1>10. \E k, s : Chain(t, s, k) /\ {s[i] : i \in 1..k} = FreePgs(t, H \ {p})
  <2> HIDE DEF r
  <2> QED
    BY <1>8, <1>9
<1>11. Alloc(t, H \ {p})
  BY <1>7, <1>10 DEF Alloc, SameSpaces
<1> QED
  BY <1>7, <1>11 DEF t

(* page_decref of a page in use: page_free finds no link and does not stop *)
(* the kernel.                                                             *)
LEMMA DecrefKeeps ==
    ASSUME NEW m, NEW H, Alloc(m, H), NEW p \in InUse, m.ref[p] > 0
    PROVE  /\ Alloc(page_decref(m, p), H)
           /\ page_decref(m, p).ref = [m.ref EXCEPT ![p] = @ - 1]
           /\ SameSpaces(m, page_decref(m, p))
<1> DEFINE n == [m EXCEPT !.ref[p] = (@ - 1) % RefMod]
<1>1. /\ m \in Memory /\ ~m.panicked /\ p \in Pages /\ RefMod \in Nat \ {0}
      /\ m.ref[p] \in 0..RefMod-1
  BY InUsePages, FreePagesAssumption DEF Alloc, Memory
<1>2. (m.ref[p] - 1) % RefMod = m.ref[p] - 1
  BY <1>1
<1>3. m.ref[p] - 1 \in 0..RefMod-1
  BY <1>1
<1>4. /\ n \in Memory /\ n.link = m.link /\ n.head = m.head /\ n.panicked = m.panicked
      /\ n.ref = [m.ref EXCEPT ![p] = m.ref[p] - 1] /\ SameSpaces(m, n)
  BY <1>1, <1>2, <1>3 DEF Memory, SameSpaces
<1>5. page_decref(m, p) = IF n.ref[p] = 0 THEN page_free(n, p) ELSE n
  BY DEF page_decref
<1> HIDE DEF n
<1>6. \A x \in Pages : n.ref[x] = IF x = p THEN m.ref[p] - 1 ELSE m.ref[x]
  BY <1>1, <1>4 DEF Memory
<1>7. p \notin m.dropped /\ p \notin H
  BY <1>1 DEF Alloc
<1> DEFINE G == IF n.ref[p] = 0 THEN H \cup {p} ELSE H
<1>8. FreePgs(n, G) = FreePgs(m, H)
  BY <1>1, <1>4, <1>6, <1>7, InUsePages DEF FreePgs, SameSpaces
<1>9. /\ n.dropped \cup G \subseteq InUse
      /\ \A x \in n.dropped \cup G : n.ref[x] = 0
      /\ n.dropped \cap G = {}
  BY <1>1, <1>4, <1>6, <1>7, InUsePages DEF Alloc, SameSpaces
<1>10. Alloc(n, G)
  <2> HIDE DEF G
  <2> QED
    BY <1>1, <1>4, <1>8, <1>9, SameList
<1>11. CASE n.ref[p] = 0
  <2>1. Alloc(n, H \cup {p})
    BY <1>10, <1>11
  <2>2. (H \cup {p}) \ {p} = H
    BY <1>7
  <2>3. p \in H \cup {p}
    OBVIOUS
  <2>4. /\ Alloc(page_free(n, p), (H \cup {p}) \ {p})
        /\ page_free(n, p).ref = n.ref /\ SameSpaces(n, page_free(n, p))
    BY <2>1, <2>3, FreePuts
  <2> QED
    BY <1>4, <1>5, <1>11, <2>2, <2>4 DEF SameSpaces
<1>12. CASE n.ref[p] # 0
  BY <1>4, <1>5, <1>10, <1>12
<1> QED
  BY <1>11, <1>12

(* Page 0 is no page of the list; its count does not come to zero.         *)
LEMMA DecrefPage0 ==
    ASSUME NEW m, NEW H, Alloc(m, H), m.ref[Page0] # 1
    PROVE  /\ Alloc(page_decref(m, Page0), H)
           /\ \A x \in Pages \ {Page0} : page_decref(m, Page0).ref[x] = m.ref[x]
           /\ SameSpaces(m, page_decref(m, Page0))
<1> DEFINE n == [m EXCEPT !.ref[Page0] = (@ - 1) % RefMod]
<1>1. /\ m \in Memory /\ ~m.panicked /\ Page0 \in Pages /\ RefMod \in Nat /\ RefMod > 1
      /\ m.ref[Page0] \in 0..RefMod-1
  BY PhysMemAssumption, FreePagesAssumption DEF Alloc, Memory
<1>2. /\ (m.ref[Page0] - 1) % RefMod \in 0..RefMod-1
      /\ (m.ref[Page0] - 1) % RefMod # 0
  <2>1. CASE m.ref[Page0] = 0
    <3>1. (0 - 1) % RefMod = RefMod - 1
      BY <1>1
    <3> QED
      BY <1>1, <2>1, <3>1
  <2>2. CASE m.ref[Page0] > 1
    <3>1. (m.ref[Page0] - 1) % RefMod = m.ref[Page0] - 1
      BY <1>1, <2>2
    <3> QED
      BY <1>1, <2>2, <3>1
  <2> QED
    BY <1>1, <2>1, <2>2
<1>3. /\ n \in Memory /\ n.link = m.link /\ n.head = m.head /\ n.panicked = m.panicked
      /\ n.ref = [m.ref EXCEPT ![Page0] = (m.ref[Page0] - 1) % RefMod] /\ SameSpaces(m, n)
  BY <1>1, <1>2 DEF Memory, SameSpaces
<1>4. n.ref[Page0] # 0 /\ \A x \in Pages \ {Page0} : n.ref[x] = m.ref[x]
  BY <1>1, <1>2, <1>3 DEF Memory
<1>5. page_decref(m, Page0) = n
  BY <1>4 DEF page_decref
<1> HIDE DEF n
<1>6. FreePgs(n, H) = FreePgs(m, H)
  BY <1>3, <1>4, InUsePages DEF FreePgs, SameSpaces
<1>7. /\ n.dropped \cup H \subseteq InUse /\ n.dropped \cap H = {}
      /\ \A x \in n.dropped \cup H : n.ref[x] = 0
  BY <1>3, <1>4, InUsePages DEF Alloc, SameSpaces
<1>8. Alloc(n, H)
  BY <1>1, <1>3, <1>6, <1>7, SameList
<1> QED
  BY <1>3, <1>4, <1>5, <1>8

-----------------------------------------------------------------------------
(* What FreeSeq computes.                                                  *)

LEMMA LeastNat ==
    ASSUME NEW T, T \subseteq Nat, T # {}
    PROVE  \E x \in T : \A y \in T : x <= y
<1> DEFINE TT == {1..x : x \in T}
<1>1. IsWellFoundedOn(StrictSubsetOrdering(Nat), FiniteSubsetsOf(Nat))
  BY FS_StrictSubsetOrderingWellFounded
<1>2. TT \subseteq FiniteSubsetsOf(Nat)
  <2>1. ASSUME NEW x \in T PROVE 1..x \in SUBSET Nat /\ IsFiniteSet(1..x)
    <3>1. x \in Int /\ 1 \in Int
      OBVIOUS
    <3>2. IsFiniteSet(1..x)
      BY <3>1, FS_Interval
    <3> QED
      BY <3>2
  <2> QED
    BY <2>1 DEF FiniteSubsetsOf
<1>3. TT # {}
  OBVIOUS
<1>4. \E s \in TT : \A t \in TT : ~ (<<t, s>> \in StrictSubsetOrdering(Nat))
  <2> HIDE DEF TT
  <2> QED
    BY <1>1, <1>2, <1>3, WFMin
<1>5. PICK x \in T : \A t \in TT : ~ (<<t, 1..x>> \in StrictSubsetOrdering(Nat))
  BY <1>4
<1>6. ASSUME NEW y \in T, ~(x <= y) PROVE FALSE
  <2>1. x \in Nat /\ y \in Nat /\ y < x
    BY <1>6
  <2>2. 1..y \subseteq 1..x /\ x \in 1..x /\ x \notin 1..y
    BY <2>1
  <2>3. <<1..y, 1..x>> \in StrictSubsetOrdering(Nat)
    BY <2>1, <2>2 DEF StrictSubsetOrdering
  <2> QED
    BY <1>5, <2>3
<1> QED
  BY <1>6

LEMMA FreeSeqIsList ==
    ASSUME NEW m, m.link \in [Pages -> Pages \cup {NULL}],
           NEW n, NEW q, Chain(m, q, n)
    PROVE  FreeSeq(m) = q
<1> DEFINE N == Cardinality(Pages)
           Step(g, k) == IF k = 1 THEN m.head
                         ELSE IF g[k-1] = NULL \/ m.link[g[k-1]] = g[k-1] THEN NULL
                         ELSE m.link[g[k-1]]
           h == [k \in 1..N+1 |-> IF k <= n THEN q[k] ELSE NULL]
           g == CHOOSE f : f = [k \in 1..N+1 |-> Step(f, k)]
<1>1. n \in Nat /\ q \in [1..n -> Pages] /\ NULL \notin Pages /\ N \in Nat
  BY FS_CardinalityType, PhysMemAssumption, FreePagesAssumption DEF Chain
<1>2. n <= N
  <2>1. q \in Injection(1..n, Pages)
    BY <1>1 DEF Chain, Injection, IsInjective
  <2>2. IsFiniteSet(Pages)
    BY PhysMemAssumption
  <2>3. Cardinality(1..n) <= Cardinality(Pages)
    BY <2>1, <2>2, FS_Injection
  <2>4. Cardinality(1..n) = n
    BY <1>1, FS_Interval
  <2> QED
    BY <2>3, <2>4
<1>3. h = [k \in 1..N+1 |-> Step(h, k)]
  <2>1. ASSUME NEW k \in 1..N+1 PROVE h[k] = Step(h, k)
    <3>1. CASE k = 1
      BY <1>1, <3>1 DEF Chain
    <3>2. CASE k # 1 /\ k <= n
      <4>1. k-1 \in 1..n-1 /\ (k-1)+1 = k /\ k-1 \in 1..N+1 /\ k-1 \in 1..n /\ k \in 1..n
        BY <1>1, <1>2, <3>2
      <4>2. h[k-1] = q[k-1] /\ h[k] = q[k]
        BY <4>1
      <4>3. m.link[q[k-1]] = q[k] /\ q[k-1] # q[k] /\ q[k-1] # NULL
        BY <1>1, <4>1 DEF Chain
      <4> QED
        BY <3>2, <4>2, <4>3
    <3>3. CASE k = n+1 /\ k # 1
      <4>1. n > 0 /\ n \in 1..N+1 /\ k-1 = n /\ n \in 1..n
        BY <1>1, <1>2, <3>3
      <4>2. h[k-1] = q[n] /\ h[k] = NULL
        BY <4>1
      <4>3. m.link[q[n]] \in {NULL, q[n]}
        BY <4>1 DEF Chain
      <4> QED
        BY <3>3, <4>2, <4>3
    <3>4. CASE k > n+1
      <4>1. h[k-1] = NULL /\ h[k] = NULL /\ k # 1
        BY <1>1, <3>4
      <4> QED
        BY <4>1
    <3> QED
      BY <1>1, <3>1, <3>2, <3>3, <3>4
  <2> HIDE DEF Step
  <2> QED
    BY <2>1
<1>4. g = [k \in 1..N+1 |-> Step(g, k)]
  <2> HIDE DEF Step, h
  <2> QED
    BY <1>3
<1>5. \A k \in 1..N+1 : g[k] = h[k]
  <2> DEFINE T == {k \in 1..N+1 : g[k] # h[k]}
  <2>1. ASSUME T # {} PROVE FALSE
    <3>1. T \subseteq Nat
      BY <1>1
    <3>2. PICK k \in T : \A y \in T : k <= y
      BY <2>1, <3>1, LeastNat
    <3>3. k \in 1..N+1 /\ g[k] = Step(g, k) /\ h[k] = Step(h, k)
      <4> HIDE DEF Step, g, h
      <4> QED
        BY <1>3, <1>4
    <3>4. k # 1 => k-1 \in 1..N+1 /\ k-1 \notin T
      <4> HIDE DEF T, N, g, h
      <4>1. k \in Nat /\ ~(k <= k-1) /\ (k # 1 => k-1 \in 1..N+1)
        BY <1>1, <3>3
      <4> QED
        BY <3>2, <4>1
    <3>5. k # 1 => g[k-1] = h[k-1]
      <4> HIDE DEF g, h
      <4> QED
        BY <3>4
    <3> HIDE DEF g, h
    <3> QED
      BY <3>2, <3>3, <3>5
  <2> QED
    BY <2>1
<1>6. FreeSeq(m) = [k \in 1..Cardinality({k \in DOMAIN g : g[k] # NULL}) |-> g[k]]
  BY DEF FreeSeq
<1>7. DOMAIN g = 1..N+1
  <2> HIDE DEF Step, g
  <2> QED
    BY <1>4
<1> HIDE DEF g
<1>8. {k \in DOMAIN g : g[k] # NULL} = 1..n
  BY <1>1, <1>2, <1>5, <1>7
<1>9. Cardinality(1..n) = n
  BY <1>1, FS_Interval
<1>10. \A k \in 1..n : g[k] = q[k]
  BY <1>1, <1>2, <1>5
<1> QED
  BY <1>1, <1>6, <1>8, <1>9, <1>10

(* The free list holds what FreeExact says it holds.                       *)
LEMMA AllocFreeExact ==
    ASSUME Alloc(mem, {})
    PROVE  FreeExact
<1>1. PICK n, q : Chain(mem, q, n) /\ {q[i] : i \in 1..n} = FreePgs(mem, {})
  BY DEF Alloc
<1>2. FreeSeq(mem) = q
  <2>1. mem.link \in [Pages -> Pages \cup {NULL}]
    BY DEF Alloc, Memory
  <2> QED
    BY <1>1, <2>1, FreeSeqIsList
<1>3. IsInjective(q) /\ ToSet(q) = {q[i] : i \in 1..n}
  BY <1>1 DEF Chain, IsInjective, ToSet
<1> QED
  BY <1>1, <1>2, <1>3 DEF FreeExact, FreeSet, FreePgs, InUse

-----------------------------------------------------------------------------
(* References.                                                             *)

LEMMA OneChanged ==
    ASSUME NEW A, NEW B, NEW x, IsFiniteSet(A), A \ {x} = B \ {x}
    PROVE  Cardinality(B) = Cardinality(A) + (IF x \in B THEN 1 ELSE 0) - (IF x \in A THEN 1 ELSE 0)
<1> DEFINE C == A \ {x}
<1>1. IsFiniteSet(C) /\ Cardinality(C) = IF x \in A THEN Cardinality(A) - 1 ELSE Cardinality(A)
  BY FS_RemoveElement
<1>2. Cardinality(C) \in Nat /\ Cardinality(A) \in Nat
  BY <1>1, FS_CardinalityType
<1>3. Cardinality(C \cup {x}) = IF x \in C THEN Cardinality(C) ELSE Cardinality(C) + 1
  BY <1>1, FS_AddElement
<1>4. B = IF x \in B THEN C \cup {x} ELSE C
  OBVIOUS
<1>5. x \notin C
  OBVIOUS
<1> HIDE DEF C
<1> QED
  BY <1>1, <1>2, <1>3, <1>4, <1>5

LEMMA Finite ==
    /\ IsFiniteSet(Envs) /\ IsFiniteSet(VAs) /\ IsFiniteSet(Regions)
    /\ IsFiniteSet(Envs \X VAs) /\ IsFiniteSet(Envs \X Regions)
<1>1. IsFiniteSet(Envs) /\ IsFiniteSet(VAs)
  BY PhysMemAssumption
<1>2. IsFiniteSet(Regions)
  <2> DEFINE f == [va \in VAs |-> Region[va]]
  <2>1. f \in Surjection(VAs, Regions)
    BY DEF Surjection, Regions
  <2> QED
    BY <1>1, <2>1, FS_Surjection
<1> QED
  BY <1>1, <1>2, FS_Product

LEMMA RefsFinite ==
    ASSUME NEW m, NEW p
    PROVE  /\ IsFiniteSet(Mappings(m, p)) /\ Cardinality(Mappings(m, p)) \in Nat
           /\ IsFiniteSet(Tables(m, p)) /\ Cardinality(Tables(m, p)) \in Nat
           /\ IsFiniteSet(Roots(m, p)) /\ Cardinality(Roots(m, p)) \in Nat
           /\ Refs(m, p) \in Nat
<1>1. /\ Mappings(m, p) \in SUBSET (Envs \X VAs)
      /\ Tables(m, p) \in SUBSET (Envs \X Regions)
      /\ Roots(m, p) \in SUBSET Envs
  BY DEF Mappings, Tables, Roots
<1>2. IsFiniteSet(Mappings(m, p)) /\ IsFiniteSet(Tables(m, p)) /\ IsFiniteSet(Roots(m, p))
  BY <1>1, Finite, FS_Subset
<1>3. /\ Cardinality(Mappings(m, p)) \in Nat /\ Cardinality(Tables(m, p)) \in Nat
      /\ Cardinality(Roots(m, p)) \in Nat
  BY <1>2, FS_CardinalityType
<1> QED
  BY <1>2, <1>3 DEF Refs

Holds(pt, p) == pt.p /\ pt.page = p

(* One entry, table or root changes to v.                                  *)
EntrySet(m, n, e, va, v) ==
    /\ \A f \in Envs, w \in VAs : n.pte[f][w] = IF f = e /\ w = va THEN v ELSE m.pte[f][w]
    /\ n.tab = m.tab /\ n.root = m.root

TableSet(m, n, e, r, v) ==
    /\ \A f \in Envs, w \in Regions : n.tab[f][w] = IF f = e /\ w = r THEN v ELSE m.tab[f][w]
    /\ n.pte = m.pte /\ n.root = m.root

RootSet(m, n, e, v) ==
    /\ \A f \in Envs : n.root[f] = IF f = e THEN v ELSE m.root[f]
    /\ n.pte = m.pte /\ n.tab = m.tab

LEMMA RefsPte ==
    ASSUME NEW m, NEW n, NEW e \in Envs, NEW va \in VAs, NEW v, NEW p,
           EntrySet(m, n, e, va, v)
    PROVE  Refs(n, p) = Refs(m, p) + (IF Holds(v, p) THEN 1 ELSE 0) - (IF Holds(m.pte[e][va], p) THEN 1 ELSE 0)
<1> DEFINE x == <<e, va>>
<1>1. /\ \A f \in Envs, w \in VAs :
            n.pte[f][w] = IF f = e /\ w = va THEN v ELSE m.pte[f][w]
      /\ n.tab = m.tab /\ n.root = m.root
  BY DEF EntrySet
<1>2. Mappings(m, p) \ {x} = Mappings(n, p) \ {x}
  <2>1. \A y \in Envs \X VAs : y # x => n.pte[y[1]][y[2]] = m.pte[y[1]][y[2]]
    BY <1>1
  <2> QED
    BY <2>1 DEF Mappings
<1>3. /\ (x \in Mappings(n, p)) = Holds(v, p)
      /\ (x \in Mappings(m, p)) = Holds(m.pte[e][va], p)
  BY <1>1 DEF Mappings, Holds
<1>4. Cardinality(Mappings(n, p))
      = Cardinality(Mappings(m, p)) + (IF x \in Mappings(n, p) THEN 1 ELSE 0) - (IF x \in Mappings(m, p) THEN 1 ELSE 0)
  BY <1>2, RefsFinite, OneChanged
<1>5. Tables(n, p) = Tables(m, p) /\ Roots(n, p) = Roots(m, p)
  BY <1>1 DEF Tables, Roots
<1>6. (IF Holds(v, p) THEN 1 ELSE 0) \in Nat /\ (IF Holds(m.pte[e][va], p) THEN 1 ELSE 0) \in Nat
  OBVIOUS
<1>7. Cardinality(Mappings(n, p))
      = Cardinality(Mappings(m, p)) + (IF Holds(v, p) THEN 1 ELSE 0) - (IF Holds(m.pte[e][va], p) THEN 1 ELSE 0)
  BY <1>3, <1>4
<1> QED
  BY <1>5, <1>6, <1>7, RefsFinite DEF Refs

LEMMA RefsTab ==
    ASSUME NEW m, NEW n, NEW e \in Envs, NEW r \in Regions, NEW v, NEW p,
           TableSet(m, n, e, r, v)
    PROVE  Refs(n, p) = Refs(m, p) + (IF v = p THEN 1 ELSE 0) - (IF m.tab[e][r] = p THEN 1 ELSE 0)
<1> DEFINE x == <<e, r>>
<1>1. /\ \A f \in Envs, w \in Regions :
            n.tab[f][w] = IF f = e /\ w = r THEN v ELSE m.tab[f][w]
      /\ n.pte = m.pte /\ n.root = m.root
  BY DEF TableSet
<1>2. Tables(m, p) \ {x} = Tables(n, p) \ {x}
  <2>1. \A y \in Envs \X Regions : y # x => n.tab[y[1]][y[2]] = m.tab[y[1]][y[2]]
    BY <1>1
  <2> QED
    BY <2>1 DEF Tables
<1>3. /\ (x \in Tables(n, p)) = (v = p)
      /\ (x \in Tables(m, p)) = (m.tab[e][r] = p)
  BY <1>1 DEF Tables
<1>4. Cardinality(Tables(n, p))
      = Cardinality(Tables(m, p)) + (IF x \in Tables(n, p) THEN 1 ELSE 0) - (IF x \in Tables(m, p) THEN 1 ELSE 0)
  BY <1>2, RefsFinite, OneChanged
<1>5. Mappings(n, p) = Mappings(m, p) /\ Roots(n, p) = Roots(m, p)
  BY <1>1 DEF Mappings, Roots
<1>6. (IF v = p THEN 1 ELSE 0) \in Nat /\ (IF m.tab[e][r] = p THEN 1 ELSE 0) \in Nat
  OBVIOUS
<1>7. Cardinality(Tables(n, p)) = Cardinality(Tables(m, p)) + (IF v = p THEN 1 ELSE 0) - (IF m.tab[e][r] = p THEN 1 ELSE 0)
  BY <1>3, <1>4
<1> QED
  BY <1>5, <1>6, <1>7, RefsFinite DEF Refs

LEMMA RefsRoot ==
    ASSUME NEW m, NEW n, NEW e \in Envs, NEW v, NEW p,
           RootSet(m, n, e, v)
    PROVE  Refs(n, p) = Refs(m, p) + (IF v = p THEN 1 ELSE 0) - (IF m.root[e] = p THEN 1 ELSE 0)
<1>1. /\ \A f \in Envs : n.root[f] = IF f = e THEN v ELSE m.root[f]
      /\ n.pte = m.pte /\ n.tab = m.tab
  BY DEF RootSet
<1>2. Roots(m, p) \ {e} = Roots(n, p) \ {e}
  BY <1>1 DEF Roots
<1>3. (e \in Roots(n, p)) = (v = p) /\ (e \in Roots(m, p)) = (m.root[e] = p)
  BY <1>1 DEF Roots
<1>4. Cardinality(Roots(n, p))
      = Cardinality(Roots(m, p)) + (IF e \in Roots(n, p) THEN 1 ELSE 0) - (IF e \in Roots(m, p) THEN 1 ELSE 0)
  BY <1>2, RefsFinite, OneChanged
<1>5. Mappings(n, p) = Mappings(m, p) /\ Tables(n, p) = Tables(m, p)
  BY <1>1 DEF Mappings, Tables
<1>6. (IF v = p THEN 1 ELSE 0) \in Nat /\ (IF m.root[e] = p THEN 1 ELSE 0) \in Nat
  OBVIOUS
<1>7. Cardinality(Roots(n, p)) = Cardinality(Roots(m, p)) + (IF v = p THEN 1 ELSE 0) - (IF m.root[e] = p THEN 1 ELSE 0)
  BY <1>3, <1>4
<1> QED
  BY <1>5, <1>6, <1>7, RefsFinite DEF Refs

(* Who refers to a page is counted.                                        *)
LEMMA RefsPositive ==
    ASSUME NEW m, NEW p
    PROVE  /\ \A e \in Envs, va \in VAs : Holds(m.pte[e][va], p) => Refs(m, p) > 0
           /\ \A e \in Envs, r \in Regions : m.tab[e][r] = p => Refs(m, p) > 0
           /\ \A e \in Envs : m.root[e] = p => Refs(m, p) > 0
<1>1. \A S : IsFiniteSet(S) /\ S # {} => Cardinality(S) # 0
  BY FS_EmptySet
<1>2. ASSUME NEW e \in Envs, NEW va \in VAs, Holds(m.pte[e][va], p) PROVE Refs(m, p) > 0
  <2>1. <<e, va>> \in Mappings(m, p)
    BY <1>2 DEF Mappings, Holds
  <2> QED
    BY <1>1, <2>1, RefsFinite DEF Refs
<1>3. ASSUME NEW e \in Envs, NEW r \in Regions, m.tab[e][r] = p PROVE Refs(m, p) > 0
  <2>1. <<e, r>> \in Tables(m, p)
    BY <1>3 DEF Tables
  <2> QED
    BY <1>1, <2>1, RefsFinite DEF Refs
<1>4. ASSUME NEW e \in Envs, m.root[e] = p PROVE Refs(m, p) > 0
  <2>1. e \in Roots(m, p)
    BY <1>4 DEF Roots
  <2> QED
    BY <1>1, <2>1, RefsFinite DEF Refs
<1> QED
  BY <1>2, <1>3, <1>4

-----------------------------------------------------------------------------
(* The operations of pmap.c.                                               *)

Counted(m) == \A p \in InUse : m.ref[p] = Refs(m, p) + m.lost[p]

OutOfUse(m) == \A p \in Pages \ (InUse \cup {Page0}) : m.ref[p] = 0 /\ m.lost[p] = 0

(* Only pages that were on the first list are used.                        *)
Spaces(m) ==
    /\ \A e \in Envs : m.root[e] \in InUse \cup {None}
    /\ \A e \in Envs, r \in Regions : m.tab[e][r] \in InUse \cup {None}
    /\ \A e \in Envs, va \in VAs :
          m.pte[e][va] = Empty \/ (m.pte[e][va].p /\ m.pte[e][va].page \in InUse)

(* What is mapped has a page table.                                        *)
Tabled(m) == \A e \in Envs, va \in VAs : m.pte[e][va].p => HasTable(m, e, va)

Good(m, H) == Alloc(m, H) /\ Counted(m) /\ OutOfUse(m) /\ Spaces(m)

LEMMA Facts ==
    /\ NULL \notin Pages /\ None \notin Pages /\ Page0 \in Pages /\ Page0 \notin InUse
    /\ RefMod \in Nat /\ RefMod > 2
    /\ InUse \subseteq Pages
    /\ \A va \in VAs : Region[va] \in Regions
BY FreePagesAssumption, PhysMemAssumption, InUsePages DEF Regions

(* m counts one reference more or less to p in t, and that is what there is. *)
CountSet(m, t, p, c) == \A x \in Pages : t.ref[x] = IF x = p THEN c ELSE m.ref[x]

OneRefMore(m, t, p) ==
    Refs(t, p) = Refs(m, p) + 1 /\ \A x \in InUse \ {p} : Refs(t, x) = Refs(m, x)

OneRefLess(m, t, p) ==
    Refs(t, p) = Refs(m, p) - 1 /\ \A x \in InUse \ {p} : Refs(t, x) = Refs(m, x)

(* A page in hand or in use whose count has room for one more.             *)
Room(m, H, p) == p \in H \/ (m.ref[p] > 0 /\ m.ref[p] < RefMod - 1)

(* One reference more, to a page in hand or in use.                        *)
LEMMA OneMore ==
    ASSUME NEW m, NEW H, Good(m, H), NEW p \in InUse, Room(m, H, p),
           NEW t \in Memory, t.link = m.link, t.head = m.head, t.panicked = m.panicked,
           CountSet(m, t, p, (m.ref[p] + 1) % RefMod),
           t.lost = m.lost, t.dropped = m.dropped, Spaces(t), OneRefMore(m, t, p)
    PROVE  Good(t, H \ {p}) /\ t.ref[p] > 0 /\ CountSet(m, t, p, t.ref[p])
<1>1. m \in Memory /\ ~m.panicked
  BY DEF Good, Alloc
<1>2. m.ref[p] \in Nat /\ (p \in H => m.ref[p] = 0)
  BY <1>1, Facts DEF Good, Alloc, Memory
<1>3. m.ref[p] + 1 < RefMod /\ (p \in H \/ m.ref[p] > 0)
  BY <1>2, Facts DEF Room
<1>4. /\ Alloc(Incref(m, p), H \ {p})
      /\ Incref(m, p).ref = [m.ref EXCEPT ![p] = m.ref[p] + 1]
      /\ SameSpaces(m, Incref(m, p))
  BY <1>3, IncrefKeeps DEF Good
<1>5. /\ Incref(m, p).link = m.link /\ Incref(m, p).head = m.head
      /\ Incref(m, p).ref = t.ref
  <2>1. t.ref = [m.ref EXCEPT ![p] = (m.ref[p] + 1) % RefMod]
    BY <1>1 DEF Memory, CountSet
  <2> QED
    BY <1>1, <2>1 DEF Incref, Memory
<1> DEFINE i == Incref(m, p)
<1> HIDE DEF i
<1>6. FreePgs(t, H \ {p}) = FreePgs(i, H \ {p})
  BY <1>4, <1>5 DEF FreePgs, SameSpaces, i
<1>7. Alloc(t, H \ {p})
  <2>1. /\ Alloc(i, H \ {p}) /\ t.link = i.link /\ t.head = i.head /\ t.ref = i.ref
        /\ t.dropped = i.dropped
    BY <1>4, <1>5 DEF i, SameSpaces
  <2>2. ~t.panicked
    BY <1>1
  <2>3. /\ t.dropped \cup (H \ {p}) \subseteq InUse /\ t.dropped \cap (H \ {p}) = {}
        /\ \A x \in t.dropped \cup (H \ {p}) : t.ref[x] = 0
    BY <2>1 DEF Alloc
  <2> QED
    BY ONLY <1>6, <2>1, <2>2, <2>3, SameList, ZenonT(60)
<1>8. \A x \in Pages : t.ref[x] = IF x = p THEN m.ref[p] + 1 ELSE m.ref[x]
  BY <1>1, <1>4, <1>5, Facts DEF Memory
<1>9. Counted(t)
  <2>1. ASSUME NEW x \in InUse PROVE t.ref[x] = Refs(t, x) + t.lost[x]
    <3>1. /\ m.ref[x] = Refs(m, x) + m.lost[x] /\ m.lost[x] \in Nat /\ Refs(m, x) \in Nat
          /\ Refs(t, x) = IF x = p THEN Refs(m, x) + 1 ELSE Refs(m, x)
      BY <1>1, Facts, RefsFinite DEF Good, Counted, Memory, OneRefMore
    <3> QED
      BY <1>8, <3>1, Facts
  <2> QED
    BY <2>1 DEF Counted
<1>10. OutOfUse(t)
  BY <1>8 DEF Good, OutOfUse
<1> QED
  BY <1>2, <1>7, <1>8, <1>9, <1>10, Facts DEF Good, CountSet

(* One reference less, to a page in use: page_decref of u, in which the    *)
(* reference is still there (m) or is gone already.                        *)
LEMMA OneLess ==
    ASSUME NEW m, NEW H, Good(m, H), NEW p \in InUse, m.ref[p] > 0,
           NEW t \in Memory, t.link = page_decref(m, p).link, t.head = page_decref(m, p).head,
           t.panicked = page_decref(m, p).panicked, t.ref = page_decref(m, p).ref,
           t.lost = m.lost, t.dropped = m.dropped, Spaces(t), OneRefLess(m, t, p)
    PROVE  Good(t, H) /\ CountSet(m, t, p, t.ref[p])
<1> DEFINE d == page_decref(m, p)
<1>1. /\ Alloc(d, H) /\ d.ref = [m.ref EXCEPT ![p] = m.ref[p] - 1] /\ SameSpaces(m, d)
  BY DecrefKeeps DEF Good
<1>2. t.link = d.link /\ t.head = d.head /\ t.panicked = d.panicked /\ t.ref = d.ref
  OBVIOUS
<1> HIDE DEF d
<1>3. Alloc(t, H)
  <2>1. t \in Memory /\ t.dropped = d.dropped /\ ~t.panicked
    BY <1>1, <1>2 DEF SameSpaces, Alloc
  <2>2. FreePgs(t, H) = FreePgs(d, H)
    BY <1>2, <2>1 DEF FreePgs
  <2>3. /\ t.dropped \cup H \subseteq InUse /\ t.dropped \cap H = {}
        /\ \A x \in t.dropped \cup H : t.ref[x] = 0
    BY <1>1, <1>2, <2>1 DEF Alloc
  <2> QED
    BY ONLY <1>1, <1>2, <2>1, <2>2, <2>3, SameList, ZenonT(60)
<1>4. m \in Memory
  BY DEF Good, Alloc
<1>5. \A x \in Pages : t.ref[x] = IF x = p THEN m.ref[p] - 1 ELSE m.ref[x]
  BY <1>1, <1>2, <1>4, Facts DEF Memory
<1>6. Counted(t)
  <2>1. ASSUME NEW x \in InUse PROVE t.ref[x] = Refs(t, x) + t.lost[x]
    <3>1. /\ m.ref[x] = Refs(m, x) + m.lost[x] /\ m.lost[x] \in Nat /\ Refs(m, x) \in Nat
          /\ Refs(t, x) = IF x = p THEN Refs(m, x) - 1 ELSE Refs(m, x)
      BY <1>4, Facts, RefsFinite DEF Good, Counted, Memory, OneRefLess
    <3> QED
      BY <1>5, <3>1, Facts
  <2> QED
    BY <2>1 DEF Counted
<1>7. OutOfUse(t)
  BY <1>5 DEF Good, OutOfUse
<1> QED
  BY <1>3, <1>5, <1>6, <1>7, Facts DEF Good, CountSet

LEMMA SameRefs ==
    ASSUME NEW m, NEW n, n.root = m.root, n.tab = m.tab, n.pte = m.pte, NEW p
    PROVE  Refs(n, p) = Refs(m, p)
BY DEF Refs, Mappings, Tables, Roots

LEMMA PageAllocGood ==
    ASSUME NEW m, NEW H, Good(m, H), CanAlloc(m)
    PROVE  /\ Good(page_alloc(m), H \cup {m.head})
           /\ m.head \in InUse /\ m.ref[m.head] = 0
           /\ m.head \notin H /\ m.head \notin m.dropped
           /\ page_alloc(m).ref = m.ref
           /\ SameSpaces(m, page_alloc(m))
<1>1. /\ Alloc(page_alloc(m), H \cup {m.head}) /\ m.head \in FreePgs(m, H)
      /\ page_alloc(m).ref = m.ref /\ SameSpaces(m, page_alloc(m))
  BY AllocTakes DEF Good
<1> DEFINE t == page_alloc(m)
<1>2. \A p : Refs(t, p) = Refs(m, p)
  BY <1>1, SameRefs DEF SameSpaces
<1>3. t.ref = m.ref /\ t.root = m.root /\ t.tab = m.tab /\ t.pte = m.pte /\ t.lost = m.lost
  BY <1>1 DEF SameSpaces
<1> HIDE DEF t
<1>4. Counted(t) /\ OutOfUse(t) /\ Spaces(t)
  BY <1>2, <1>3 DEF Good, Counted, OutOfUse, Spaces
<1> QED
  BY <1>1, <1>4 DEF Good, FreePgs, t

(* What an operation on one address space leaves alone.                    *)
Frame(m, n) ==
    /\ n.lost = m.lost /\ n.dropped = m.dropped /\ n.ref[Page0] = m.ref[Page0]

(* The walk adds the table that is missing.                                *)
LEMMA WalkGood ==
    ASSUME NEW m, NEW H, Good(m, H), Tabled(m), NEW e \in Envs, NEW va \in VAs,
           CanWalk(m, e, va)
    PROVE  LET n == pml4e_walk(m, e, va) IN
           /\ Good(n, H) /\ Tabled(n) /\ HasTable(n, e, va) /\ Frame(m, n)
           /\ n.pte = m.pte /\ n.root = m.root
           /\ \A x \in InUse : m.ref[x] > 0 => n.ref[x] = m.ref[x]
<1> DEFINE r == Region[va]
           n == pml4e_walk(m, e, va)
<1>1. CASE m.tab[e][r] # None
  <2>1. n = m
    BY <1>1 DEF pml4e_walk, AddTab
  <2> QED
    BY <1>1, <2>1 DEF HasTable, Frame
<1>2. CASE m.tab[e][r] = None
  <2> DEFINE p == m.head
             a == page_alloc(m)
  <2>1. /\ Good(a, H \cup {p}) /\ p \in InUse /\ m.ref[p] = 0 /\ p \notin H
        /\ a.ref = m.ref /\ SameSpaces(m, a)
    BY <1>2, PageAllocGood DEF CanWalk
  <2>2. n = [Incref(a, p) EXCEPT !.tab[e][r] = p]
    BY <1>2 DEF pml4e_walk, AddTab, Take
  <2> HIDE DEF a, p
  <2>3. a \in Memory /\ r \in Regions /\ p \in Pages /\ a.ref[p] \in Nat /\ RefMod \in Nat \ {0}
    BY <2>1, Facts DEF Good, Alloc, Memory
  <2>4. (a.ref[p] + 1) % RefMod \in 0..RefMod-1
    BY <2>3
  <2>5. /\ n \in Memory /\ n.link = a.link /\ n.head = a.head /\ n.panicked = a.panicked
        /\ n.ref = [a.ref EXCEPT ![p] = (a.ref[p] + 1) % RefMod]
        /\ n.lost = a.lost /\ n.dropped = a.dropped /\ n.root = a.root /\ n.pte = a.pte
        /\ n.tab = [a.tab EXCEPT ![e][r] = p]
    <3> DEFINE i == Incref(a, p)
    <3>1. /\ i \in Memory /\ i.link = a.link /\ i.head = a.head /\ i.panicked = a.panicked
          /\ i.ref = [a.ref EXCEPT ![p] = (a.ref[p] + 1) % RefMod] /\ SameSpaces(a, i)
      BY <2>3, <2>4 DEF Incref, Memory, SameSpaces
    <3>2. n = [i EXCEPT !.tab[e][r] = p]
      BY <2>2
    <3> HIDE DEF i, n
    <3> QED
      BY <2>3, <3>1, <3>2 DEF Memory, SameSpaces
  <2> HIDE DEF n
  <2>6. \A f \in Envs, w \in Regions : n.tab[f][w] = IF f = e /\ w = r THEN p ELSE a.tab[f][w]
    BY <2>3, <2>5 DEF Memory
  <2>7. Spaces(n)
    BY <2>1, <2>5, <2>6 DEF Good, Spaces
  <2>8. OneRefMore(a, n, p)
    <3>1. ASSUME NEW x \in InUse
          PROVE  Refs(n, x) = IF x = p THEN Refs(a, x) + 1 ELSE Refs(a, x)
      <4>0. TableSet(a, n, e, r, p)
        BY <2>5, <2>6 DEF TableSet
      <4>1. Refs(n, x) = Refs(a, x) + (IF p = x THEN 1 ELSE 0) - (IF a.tab[e][r] = x THEN 1 ELSE 0)
        BY <2>3, <4>0, RefsTab
      <4>2. a.tab[e][r] # x
        BY <1>2, <2>1, Facts DEF SameSpaces
      <4> QED
        BY <4>1, <4>2, RefsFinite
    <3> QED
      BY <2>1, <3>1 DEF OneRefMore
  <2>9. /\ Good(n, (H \cup {p}) \ {p}) /\ n.ref[p] > 0 /\ CountSet(a, n, p, n.ref[p])
    <3>1. Room(a, H \cup {p}, p)
      BY DEF Room
    <3>2. CountSet(a, n, p, (a.ref[p] + 1) % RefMod)
      BY <2>3, <2>5 DEF Memory, CountSet
    <3> QED
      BY <2>1, <2>5, <2>7, <2>8, <3>1, <3>2, OneMore
  <2>10. (H \cup {p}) \ {p} = H
    BY <2>1
  <2>11. Tabled(n) /\ HasTable(n, e, va)
    <3>1. p # None
      BY <2>1, Facts
    <3>2. \A f \in Envs, w \in VAs : m.pte[f][w].p => m.tab[f][Region[w]] # None
      BY DEF Tabled, HasTable
    <3>3. \A f \in Envs, w \in VAs : n.tab[f][Region[w]] = None => m.tab[f][Region[w]] = None
      BY <2>1, <2>6, <3>1, Facts DEF SameSpaces
    <3>4. \A f \in Envs, w \in VAs : n.pte[f][w].p => n.tab[f][Region[w]] # None
      BY <2>1, <2>5, <3>2, <3>3 DEF SameSpaces
    <3>5. n.tab[e][Region[va]] # None
      BY <2>3, <2>6, <3>1
    <3> QED
      BY <3>4, <3>5 DEF Tabled, HasTable
  <2>12. Frame(m, n)
    BY <2>1, <2>5, <2>9, Facts DEF Frame, SameSpaces, CountSet
  <2>13. ASSUME NEW x \in InUse, m.ref[x] > 0 PROVE n.ref[x] = m.ref[x]
    <3>1. x # p /\ x \in Pages
      BY <2>1, <2>13, Facts
    <3> QED
      BY <2>1, <2>9, <3>1 DEF CountSet
  <2> QED
    BY <2>1, <2>5, <2>9, <2>10, <2>11, <2>12, <2>13 DEF SameSpaces, n
<1> QED
  BY <1>1, <1>2

(* Taking an entry out: the page that was mapped has one reference less.   *)
LEMMA RemoveGood ==
    ASSUME NEW m, NEW H, Good(m, H), NEW e \in Envs, NEW va \in VAs,
           HasTable(m, e, va), m.pte[e][va].p
    PROVE  LET n == page_remove(m, e, va) IN
           /\ Good(n, H) /\ Frame(m, n)
           /\ n.pte = [m.pte EXCEPT ![e][va] = Empty]
           /\ n.root = m.root /\ n.tab = m.tab
           /\ \A x \in Pages : x # m.pte[e][va].page => n.ref[x] = m.ref[x]
<1> DEFINE p == m.pte[e][va].page
           d == page_decref(m, p)
           n == page_remove(m, e, va)
<1>1. m \in Memory /\ p \in InUse /\ Holds(m.pte[e][va], p)
  <2>1. m.pte[e][va] # Empty
    BY DEF Empty
  <2> QED
    BY <2>1 DEF Good, Alloc, Spaces, Holds
<1>2. m.ref[p] > 0
  BY <1>1, RefsPositive, RefsFinite, Facts DEF Good, Counted, Alloc, Memory
<1>3. n = [d EXCEPT !.pte[e][va] = Empty]
  BY DEF page_remove, page_lookup
<1> HIDE DEF p
<1>4. Alloc(d, H) /\ d \in Memory /\ SameSpaces(m, d)
  <2>1. Alloc(d, H) /\ SameSpaces(m, d)
    BY <1>1, <1>2, DecrefKeeps DEF Good
  <2> QED
    BY <2>1 DEF Alloc
<1>5. /\ n \in Memory /\ n.link = d.link /\ n.head = d.head /\ n.panicked = d.panicked
      /\ n.ref = d.ref /\ n.lost = d.lost /\ n.dropped = d.dropped
      /\ n.root = d.root /\ n.tab = d.tab /\ n.pte = [d.pte EXCEPT ![e][va] = Empty]
  <2> HIDE DEF d
  <2>1. Empty \in Entry
    BY Facts DEF Empty, Entry
  <2> HIDE DEF n
  <2> QED
    BY <1>3, <1>4, <2>1 DEF Memory
<1> HIDE DEF n, d
<1>6. \A f \in Envs, w \in VAs : n.pte[f][w] = IF f = e /\ w = va THEN Empty ELSE m.pte[f][w]
  BY <1>1, <1>4, <1>5 DEF Memory, SameSpaces
<1>7. Spaces(n)
  BY <1>4, <1>5, <1>6 DEF Good, Spaces, SameSpaces
<1>8. OneRefLess(m, n, p)
  <2>1. ASSUME NEW x \in InUse
        PROVE  Refs(n, x) = IF x = p THEN Refs(m, x) - 1 ELSE Refs(m, x)
    <3>0. EntrySet(m, n, e, va, Empty)
      BY <1>4, <1>5, <1>6 DEF SameSpaces, EntrySet
    <3>1. Refs(n, x) = Refs(m, x) + (IF Holds(Empty, x) THEN 1 ELSE 0) - (IF Holds(m.pte[e][va], x) THEN 1 ELSE 0)
      BY <3>0, RefsPte
    <3>2. ~Holds(Empty, x) /\ (Holds(m.pte[e][va], x) <=> x = p)
      BY <1>1 DEF Holds, Empty, p
    <3> QED
      BY <3>1, <3>2, RefsFinite
  <2> QED
    BY <1>1, <2>1 DEF OneRefLess
<1>9. Good(n, H) /\ CountSet(m, n, p, n.ref[p])
  BY <1>1, <1>2, <1>4, <1>5, <1>7, <1>8, OneLess DEF SameSpaces, d
<1>10. Frame(m, n)
  BY <1>1, <1>4, <1>5, <1>9, Facts DEF Frame, SameSpaces, CountSet
<1> QED
  BY <1>4, <1>5, <1>9, <1>10 DEF SameSpaces, CountSet, n, p

(* Unmapping what is not mapped decrements the count of page 0.            *)
LEMMA RemoveEmptyGood ==
    ASSUME NEW m, NEW H, Good(m, H), NEW e \in Envs, NEW va \in VAs,
           HasTable(m, e, va), ~m.pte[e][va].p, m.ref[Page0] # 1
    PROVE  LET n == page_remove(m, e, va) IN
           /\ Good(n, H) /\ n.pte = m.pte /\ n.root = m.root /\ n.tab = m.tab
<1> DEFINE d == page_decref(m, Page0)
           n == page_remove(m, e, va)
<1>1. m \in Memory /\ m.pte[e][va] = Empty
  BY DEF Good, Alloc, Spaces
<1>2. n = [d EXCEPT !.pte[e][va] = Empty]
  BY <1>1 DEF page_remove, page_lookup, Empty
<1>3. /\ Alloc(d, H) /\ d \in Memory /\ SameSpaces(m, d)
      /\ \A x \in Pages \ {Page0} : d.ref[x] = m.ref[x]
  BY DecrefPage0 DEF Good, Alloc
<1> HIDE DEF d
<1>4. n = d
  <2> HIDE DEF n
  <2>1. d.pte = [d.pte EXCEPT ![e][va] = Empty]
    BY <1>1, <1>3 DEF Memory, SameSpaces
  <2> QED
    BY <1>2, <1>3, <2>1 DEF Memory
<1> HIDE DEF n
<1>5. Counted(d) /\ OutOfUse(d) /\ Spaces(d)
  <2>1. \A x : Refs(d, x) = Refs(m, x)
    BY <1>3, SameRefs DEF SameSpaces
  <2> QED
    BY <1>3, <2>1, Facts DEF Good, Counted, OutOfUse, Spaces, SameSpaces
<1> QED
  BY <1>3, <1>4, <1>5 DEF Good, SameSpaces, n

(* Filling an empty entry.                                                 *)
Install(m, e, va, p) == [Incref(m, p) EXCEPT !.pte[e][va] = Pte(p)]

LEMMA InstallGood ==
    ASSUME NEW m, NEW H, Good(m, H), NEW e \in Envs, NEW va \in VAs,
           m.pte[e][va] = Empty, NEW p \in InUse, Room(m, H, p)
    PROVE  LET n == Install(m, e, va, p) IN
           /\ Good(n, H \ {p}) /\ Frame(m, n)
           /\ n.pte = [m.pte EXCEPT ![e][va] = Pte(p)] /\ n.root = m.root /\ n.tab = m.tab
<1> DEFINE i == Incref(m, p)
           n == [i EXCEPT !.pte[e][va] = Pte(p)]
<1>1. m \in Memory /\ p \in Pages /\ m.ref[p] \in Nat /\ RefMod \in Nat \ {0}
  BY Facts DEF Good, Alloc, Memory
<1>2. (m.ref[p] + 1) % RefMod \in 0..RefMod-1
  BY <1>1
<1>3. /\ i \in Memory /\ i.link = m.link /\ i.head = m.head /\ i.panicked = m.panicked
      /\ i.ref = [m.ref EXCEPT ![p] = (m.ref[p] + 1) % RefMod] /\ SameSpaces(m, i)
  BY <1>1, <1>2 DEF Incref, Memory, SameSpaces
<1> HIDE DEF i
<1>4. /\ n \in Memory /\ n.link = m.link /\ n.head = m.head /\ n.panicked = m.panicked
      /\ n.ref = [m.ref EXCEPT ![p] = (m.ref[p] + 1) % RefMod]
      /\ n.lost = m.lost /\ n.dropped = m.dropped /\ n.root = m.root /\ n.tab = m.tab
      /\ n.pte = [m.pte EXCEPT ![e][va] = Pte(p)]
  <2>1. Pte(p) \in Entry
    BY <1>1 DEF Pte, Entry
  <2> QED
    BY <1>3, <2>1 DEF Memory, SameSpaces
<1> HIDE DEF n
<1>5. \A f \in Envs, w \in VAs : n.pte[f][w] = IF f = e /\ w = va THEN Pte(p) ELSE m.pte[f][w]
  BY <1>1, <1>4 DEF Memory
<1>6. Pte(p).p /\ Pte(p).page = p /\ ~Empty.p
  BY DEF Pte, Empty
<1>7. Spaces(n)
  BY <1>4, <1>5, <1>6 DEF Good, Spaces
<1>8. OneRefMore(m, n, p)
  <2>1. ASSUME NEW x \in InUse
        PROVE  Refs(n, x) = IF x = p THEN Refs(m, x) + 1 ELSE Refs(m, x)
    <3>1. EntrySet(m, n, e, va, Pte(p))
      BY <1>4, <1>5 DEF EntrySet
    <3>2. Refs(n, x) = Refs(m, x) + (IF Holds(Pte(p), x) THEN 1 ELSE 0)
                       - (IF Holds(m.pte[e][va], x) THEN 1 ELSE 0)
      BY <3>1, RefsPte
    <3>3. ~Holds(m.pte[e][va], x) /\ (Holds(Pte(p), x) <=> x = p)
      BY <1>6 DEF Holds
    <3> QED
      BY <3>2, <3>3, RefsFinite
  <2> QED
    BY <2>1 DEF OneRefMore
<1>9. CountSet(m, n, p, (m.ref[p] + 1) % RefMod)
  BY <1>1, <1>4 DEF Memory, CountSet
<1>10. Good(n, H \ {p}) /\ CountSet(m, n, p, n.ref[p])
  BY <1>4, <1>7, <1>8, <1>9, OneMore
<1>11. Frame(m, n)
  BY <1>4, <1>10, Facts DEF Frame, CountSet
<1> QED
  BY <1>4, <1>10, <1>11 DEF n, i, Install

(* page_insert of a page in hand or in use.                                *)
LEMMA InsertGood ==
    ASSUME NEW m, NEW H, Good(m, H), Tabled(m), NEW e \in Envs, NEW va \in VAs,
           CanWalk(m, e, va), NEW p \in InUse, Room(m, H, p)
    PROVE  LET n == page_insert(m, e, va, p) IN
           /\ Good(n, H \ {p}) /\ Tabled(n) /\ Frame(m, n)
<1> DEFINE t == pml4e_walk(m, e, va)
           old == t.pte[e][va]
           u == IF old = Empty THEN t ELSE page_remove(t, e, va)
           n == page_insert(m, e, va, p)
<1>1. /\ Good(t, H) /\ Tabled(t) /\ HasTable(t, e, va) /\ Frame(m, t)
      /\ t.pte = m.pte /\ t.root = m.root
      /\ \A x \in InUse : m.ref[x] > 0 => t.ref[x] = m.ref[x]
  BY WalkGood
<1>2. n = IF old.page = p THEN [t EXCEPT !.pte[e][va] = Pte(p)]
          ELSE [Incref(u, p) EXCEPT !.pte[e][va] = Pte(p)]
  BY DEF page_insert
<1> HIDE DEF t
<1>3. t \in Memory /\ (old = Empty \/ (old.p /\ old.page \in InUse)) /\ ~Empty.p
  BY <1>1 DEF Good, Alloc, Spaces, Empty
<1>4. Room(t, H, p)
  BY <1>1 DEF Room
<1> HIDE DEF n
<1>5. CASE old.page = p
  <2>1. old.p
    <3>1. Empty.page = Page0
      BY DEF Empty
    <3> QED
      BY <1>3, <1>5, <3>1, Facts
  <2>2. old \in Entry
    BY <1>3 DEF Memory
  <2>3. Pte(p) = old
    BY <1>5, <2>1, <2>2 DEF Pte, Entry
  <2>4. n = t
    <3>1. t.pte = [t.pte EXCEPT ![e][va] = Pte(p)]
      BY <1>3, <2>3 DEF Memory
    <3> HIDE DEF old
    <3> QED
      BY <1>2, <1>3, <1>5, <3>1 DEF Memory
  <2>5. t.ref[p] > 0
    <3>1. Refs(t, p) > 0
      BY <1>5, <2>1, RefsPositive DEF Holds
    <3>2. t.ref[p] = Refs(t, p) + t.lost[p] /\ t.lost[p] \in Nat /\ Refs(t, p) \in Nat
      BY <1>1, <1>3, RefsFinite, Facts DEF Good, Counted, Memory
    <3> QED
      BY <3>1, <3>2
  <2>6. H \ {p} = H
    <3>1. p \in H => t.ref[p] = 0
      BY <1>1 DEF Good, Alloc
    <3> QED
      BY <2>5, <3>1
  <2> QED
    BY <1>1, <2>4, <2>6 DEF n
<1>6. CASE old.page # p
  <2>1. n = [Incref(u, p) EXCEPT !.pte[e][va] = Pte(p)]
    BY <1>2, <1>6
  <2>2. /\ Good(u, H) /\ Frame(t, u) /\ u.pte[e][va] = Empty
        /\ u.tab = t.tab /\ Room(u, H, p)
        /\ \A f \in Envs, w \in VAs : (f # e \/ w # va) => u.pte[f][w] = t.pte[f][w]
    <3>1. CASE old = Empty
      BY <1>1, <1>4, <3>1 DEF Frame
    <3>2. CASE old # Empty
      <4>1. old.p
        BY <1>3, <3>2
      <4>2. /\ Good(u, H) /\ Frame(t, u)
            /\ u.pte = [t.pte EXCEPT ![e][va] = Empty] /\ u.tab = t.tab
            /\ \A x \in Pages : x # old.page => u.ref[x] = t.ref[x]
        BY <1>1, <3>2, <4>1, RemoveGood
      <4>3. u.pte[e][va] = Empty
            /\ \A f \in Envs, w \in VAs : (f # e \/ w # va) => u.pte[f][w] = t.pte[f][w]
        <5> HIDE DEF u, old
        <5> QED
          BY <1>3, <4>2 DEF Memory
      <4>4. Room(u, H, p)
        BY <1>4, <1>6, <4>2, Facts DEF Room
      <4> QED
        BY <4>2, <4>3, <4>4
    <3> QED
      BY <3>1, <3>2
  <2> HIDE DEF u, old
  <2>3. /\ Good(n, H \ {p}) /\ Frame(u, n)
        /\ n.pte = [u.pte EXCEPT ![e][va] = Pte(p)] /\ n.tab = u.tab
    <3>1. n = Install(u, e, va, p)
      BY <2>1 DEF Install
    <3> QED
      BY <2>2, <3>1, InstallGood
  <2>4. Tabled(n)
    <3>1. u \in Memory
      BY <2>2 DEF Good, Alloc
    <3>2. \A f \in Envs, w \in VAs : (f # e \/ w # va) => n.pte[f][w] = t.pte[f][w]
      BY <2>2, <2>3, <3>1 DEF Memory
    <3> QED
      BY <1>1, <2>2, <2>3, <3>2 DEF Tabled, HasTable
  <2>5. Frame(m, n)
    BY <1>1, <2>2, <2>3 DEF Frame
  <2> QED
    BY <2>3, <2>4, <2>5 DEF n
<1> QED
  BY <1>5, <1>6

-----------------------------------------------------------------------------
(* env_free.                                                               *)

LEMMA SmallestSet ==
    ASSUME NEW S, IsFiniteSet(S), NEW T, T \subseteq SUBSET S, T # {}
    PROVE  \E s \in T : \A t \in T : t \subseteq s => t = s
<1>1. IsWellFoundedOn(StrictSubsetOrdering(S), FiniteSubsetsOf(S))
  BY FS_StrictSubsetOrderingWellFounded
<1>2. T \subseteq FiniteSubsetsOf(S)
  BY FS_FiniteSubsetsOfFinite
<1>3. PICK s \in T : \A t \in T : ~ (<<t, s>> \in StrictSubsetOrdering(S))
  BY <1>1, <1>2, WFMin
<1> QED
  BY <1>3 DEF StrictSubsetOrdering

UnmapRec(g, m, e, S) ==
    \A s \in SUBSET S :
        g[s] = IF s = {} THEN m
               ELSE LET va == CHOOSE x \in s : TRUE
                    IN  page_remove(g[s \ {va}], e, va)

(* What the loop over the entries leaves: the value of the fold.           *)
LEMMA UnmapEquation ==
    ASSUME NEW S, IsFiniteSet(S), NEW m, NEW e
    PROVE  \E g : UnmapRec(g, m, e, S) /\ UnmapAll(m, e, S) = g[S]
<1> DEFINE c(s) == CHOOSE x \in s : TRUE
           Step(g, s) == IF s = {} THEN m ELSE page_remove(g[s \ {c(s)}], e, c(s))
           Upto(k) == {s \in SUBSET S : Cardinality(s) <= k}
           P(k) == \E g : g = [s \in Upto(k) |-> Step(g, s)]
<1>1. \A s \in SUBSET S : IsFiniteSet(s) /\ Cardinality(s) \in Nat
  BY FS_Subset, FS_CardinalityType
<1>2. \A s \in SUBSET S : s # {} =>
          s \ {c(s)} \in SUBSET S /\ Cardinality(s \ {c(s)}) = Cardinality(s) - 1
  <2>1. ASSUME NEW s \in SUBSET S, s # {}
        PROVE  s \ {c(s)} \in SUBSET S /\ Cardinality(s \ {c(s)}) = Cardinality(s) - 1
    <3>1. c(s) \in s
      BY <2>1
    <3> HIDE DEF c
    <3>2. Cardinality(s \ {c(s)}) = Cardinality(s) - 1
      BY <1>1, <3>1, FS_RemoveElement
    <3> QED
      BY <3>2
  <2> QED
    BY <2>1
<1>3. \A k \in Nat : P(k)
  <2> DEFINE T == {k \in Nat : ~P(k)}
  <2>1. ASSUME T # {} PROVE FALSE
    <3> HIDE DEF P
    <3>1. PICK k \in T : \A j \in T : k <= j
      <4>1. T \subseteq Nat
        OBVIOUS
      <4> QED
        BY <2>1, <4>1, LeastNat
    <3>2. k \in Nat /\ ~P(k)
      OBVIOUS
    <3>3. CASE k = 0
      <4> DEFINE h == [s \in Upto(0) |-> m]
      <4>1. \A s \in Upto(0) : s = {}
        BY <1>1, FS_EmptySet
      <4>2. h = [s \in Upto(0) |-> Step(h, s)]
        BY <4>1
      <4> HIDE DEF h, Upto, Step
      <4> QED
        BY <3>2, <3>3, <4>2 DEF P
    <3>4. CASE k # 0
      <4>1. k-1 \in Nat /\ P(k-1)
        BY <3>1, <3>2, <3>4
      <4>2. PICK g : g = [s \in Upto(k-1) |-> Step(g, s)]
        BY <4>1 DEF P
      <4> DEFINE h == [s \in Upto(k) |-> Step(g, s)]
      <4>3. ASSUME NEW s \in Upto(k) PROVE Step(g, s) = Step(h, s)
        <5>1. CASE s = {}
          BY <5>1
        <5>2. CASE s # {}
          <6>1. s \ {c(s)} \in Upto(k-1) /\ s \ {c(s)} \in Upto(k)
            <7> HIDE DEF c
            <7> QED
              BY <1>1, <1>2, <3>2, <5>2
          <6>2. g[s \ {c(s)}] = h[s \ {c(s)}]
            <7> HIDE DEF c, Upto, Step
            <7>1. g[s \ {c(s)}] = Step(g, s \ {c(s)})
              BY <4>2, <6>1
            <7> QED
              BY <6>1, <7>1
          <6> QED
            BY <5>2, <6>2
        <5> QED
          BY <5>1, <5>2
      <4>4. h = [s \in Upto(k) |-> Step(h, s)]
        <5> HIDE DEF Step, Upto
        <5>1. \A s \in Upto(k) : Step(g, s) = Step(h, s)
          BY <4>3
        <5> QED
          BY <5>1, Zenon
      <4> HIDE DEF h, Upto, Step
      <4> QED
        BY <3>2, <4>4 DEF P
    <3> QED
      BY <3>3, <3>4
  <2> QED
    BY <2>1
<1>4. Upto(Cardinality(S)) = SUBSET S
  BY FS_Subset
<1>5. \E g : g = [s \in SUBSET S |-> Step(g, s)]
  <2> HIDE DEF Upto, Step
  <2>1. P(Cardinality(S))
    BY <1>1, <1>3
  <2> QED
    BY <1>4, <2>1
<1> DEFINE iter == CHOOSE g : g = [s \in SUBSET S |-> Step(g, s)]
<1>6. iter = [s \in SUBSET S |-> Step(iter, s)]
  <2> HIDE DEF Step
  <2> QED
    BY <1>5
<1>7. UnmapAll(m, e, S) = iter[S]
  BY DEF UnmapAll, FoldSet, MapThenFoldSet
<1>8. \A s \in SUBSET S : iter[s] = Step(iter, s)
  <2> HIDE DEF iter, Step
  <2> QED
    BY <1>6
<1> HIDE DEF iter
<1> QED
  BY <1>7, <1>8 DEF UnmapRec

FreeTable(m, e, r) == page_decref([m EXCEPT !.tab[e][r] = None], m.tab[e][r])

FreeTableRec(g, m, e, S) ==
    \A s \in SUBSET S :
        g[s] = IF s = {} THEN m
               ELSE LET r == CHOOSE x \in s : TRUE
                    IN  FreeTable(g[s \ {r}], e, r)

(* The same for the loop over the page tables.                             *)
LEMMA FreeTabEquation ==
    ASSUME NEW S, IsFiniteSet(S), NEW m, NEW e
    PROVE  \E g : FreeTableRec(g, m, e, S) /\ FreeTables(m, e, S) = g[S]
<1> DEFINE c(s) == CHOOSE x \in s : TRUE
           Step(g, s) == IF s = {} THEN m ELSE FreeTable(g[s \ {c(s)}], e, c(s))
           Upto(k) == {s \in SUBSET S : Cardinality(s) <= k}
           P(k) == \E g : g = [s \in Upto(k) |-> Step(g, s)]
<1>1. \A s \in SUBSET S : IsFiniteSet(s) /\ Cardinality(s) \in Nat
  BY FS_Subset, FS_CardinalityType
<1>2. \A s \in SUBSET S : s # {} =>
          s \ {c(s)} \in SUBSET S /\ Cardinality(s \ {c(s)}) = Cardinality(s) - 1
  <2>1. ASSUME NEW s \in SUBSET S, s # {}
        PROVE  s \ {c(s)} \in SUBSET S /\ Cardinality(s \ {c(s)}) = Cardinality(s) - 1
    <3>1. c(s) \in s
      BY <2>1
    <3> HIDE DEF c
    <3>2. Cardinality(s \ {c(s)}) = Cardinality(s) - 1
      BY <1>1, <3>1, FS_RemoveElement
    <3> QED
      BY <3>2
  <2> QED
    BY <2>1
<1>3. \A k \in Nat : P(k)
  <2> DEFINE T == {k \in Nat : ~P(k)}
  <2>1. ASSUME T # {} PROVE FALSE
    <3> HIDE DEF P
    <3>1. PICK k \in T : \A j \in T : k <= j
      <4>1. T \subseteq Nat
        OBVIOUS
      <4> QED
        BY <2>1, <4>1, LeastNat
    <3>2. k \in Nat /\ ~P(k)
      OBVIOUS
    <3>3. CASE k = 0
      <4> DEFINE h == [s \in Upto(0) |-> m]
      <4>1. \A s \in Upto(0) : s = {}
        BY <1>1, FS_EmptySet
      <4>2. h = [s \in Upto(0) |-> Step(h, s)]
        BY <4>1
      <4> HIDE DEF h, Upto, Step
      <4> QED
        BY <3>2, <3>3, <4>2 DEF P
    <3>4. CASE k # 0
      <4>1. k-1 \in Nat /\ P(k-1)
        BY <3>1, <3>2, <3>4
      <4>2. PICK g : g = [s \in Upto(k-1) |-> Step(g, s)]
        BY <4>1 DEF P
      <4> DEFINE h == [s \in Upto(k) |-> Step(g, s)]
      <4>3. ASSUME NEW s \in Upto(k) PROVE Step(g, s) = Step(h, s)
        <5>1. CASE s = {}
          BY <5>1
        <5>2. CASE s # {}
          <6>1. s \ {c(s)} \in Upto(k-1) /\ s \ {c(s)} \in Upto(k)
            <7> HIDE DEF c
            <7> QED
              BY <1>1, <1>2, <3>2, <5>2
          <6>2. g[s \ {c(s)}] = h[s \ {c(s)}]
            <7> HIDE DEF c, Upto, Step
            <7>1. g[s \ {c(s)}] = Step(g, s \ {c(s)})
              BY <4>2, <6>1
            <7> QED
              BY <6>1, <7>1
          <6> QED
            BY <5>2, <6>2
        <5> QED
          BY <5>1, <5>2
      <4>4. h = [s \in Upto(k) |-> Step(h, s)]
        <5> HIDE DEF Step, Upto
        <5>1. \A s \in Upto(k) : Step(g, s) = Step(h, s)
          BY <4>3
        <5> QED
          BY <5>1, Zenon
      <4> HIDE DEF h, Upto, Step
      <4> QED
        BY <3>2, <4>4 DEF P
    <3> QED
      BY <3>3, <3>4
  <2> QED
    BY <2>1
<1>4. Upto(Cardinality(S)) = SUBSET S
  BY FS_Subset
<1>5. \E g : g = [s \in SUBSET S |-> Step(g, s)]
  <2> HIDE DEF Upto, Step
  <2>1. P(Cardinality(S))
    BY <1>1, <1>3
  <2> QED
    BY <1>4, <2>1
<1> DEFINE iter == CHOOSE g : g = [s \in SUBSET S |-> Step(g, s)]
<1>6. iter = [s \in SUBSET S |-> Step(iter, s)]
  <2> HIDE DEF Step
  <2> QED
    BY <1>5
<1>7. FreeTables(m, e, S) = iter[S]
  BY DEF FreeTables, FoldSet, MapThenFoldSet, FreeTable
<1>8. \A s \in SUBSET S : iter[s] = Step(iter, s)
  <2> HIDE DEF iter, Step
  <2> QED
    BY <1>6
<1> HIDE DEF iter
<1> QED
  BY <1>7, <1>8 DEF FreeTableRec

(* Every page that is mapped and swept is unmapped, and none twice.        *)
Unmapped(m, n, e, S) ==
    \A f \in Envs, w \in VAs : n.pte[f][w] = IF f = e /\ w \in S THEN Empty ELSE m.pte[f][w]

LEMMA UnmapAllGood ==
    ASSUME NEW m, NEW H, Good(m, H), Tabled(m), NEW e \in Envs, NEW S \in SUBSET VAs,
           \A va \in S : m.pte[e][va].p
    PROVE  LET n == UnmapAll(m, e, S) IN
           /\ Good(n, H) /\ Frame(m, n) /\ n.root = m.root /\ n.tab = m.tab
           /\ Unmapped(m, n, e, S)
<1>1. IsFiniteSet(S)
  BY Finite, FS_Subset
<1>2. PICK g :
        UnmapRec(g, m, e, S) /\ UnmapAll(m, e, S) = g[S]
  BY <1>1, UnmapEquation
<1> DEFINE Q(s) == /\ Good(g[s], H) /\ Frame(m, g[s]) /\ g[s].root = m.root /\ g[s].tab = m.tab
                   /\ Unmapped(m, g[s], e, s)
<1>3. \A s \in SUBSET S : Q(s)
  <2> DEFINE T == {s \in SUBSET S : ~Q(s)}
  <2>1. ASSUME T # {} PROVE FALSE
    <3>1. PICK s \in T : \A t \in T : t \subseteq s => t = s
      <4>1. T \subseteq SUBSET S
        OBVIOUS
      <4> HIDE DEF T
      <4> QED
        BY <1>1, <2>1, <4>1, SmallestSet
    <3>2. s \in SUBSET S /\ ~Q(s)
      OBVIOUS
    <3>3. CASE s = {}
      <4>1. g[s] = m
        BY <1>2, <3>2, <3>3 DEF UnmapRec
      <4> QED
        BY <3>2, <3>3, <4>1 DEF Frame, Unmapped
    <3>4. CASE s # {}
      <4>1. PICK va : va = CHOOSE x \in s : TRUE
        OBVIOUS
      <4>2. va \in s /\ g[s] = page_remove(g[s \ {va}], e, va)
        BY <1>2, <3>2, <3>4, <4>1 DEF UnmapRec
      <4> DEFINE u == g[s \ {va}]
      <4>3. Q(s \ {va})
        <5> HIDE DEF Q
        <5>1. s \ {va} \in SUBSET S /\ s \ {va} \subseteq s /\ s \ {va} # s
          BY <3>2, <4>2
        <5> QED
          BY <3>1, <5>1
      <4>4. /\ Good(u, H) /\ Frame(m, u) /\ u.root = m.root /\ u.tab = m.tab
            /\ Unmapped(m, u, e, s \ {va})
        BY <4>3
      <4> HIDE DEF u
      <4>5. va \in VAs /\ u.pte[e][va] = m.pte[e][va] /\ m.pte[e][va].p
        BY <3>2, <4>2, <4>4 DEF Unmapped
      <4>6. HasTable(u, e, va)
        BY <4>4, <4>5 DEF Tabled, HasTable
      <4>7. u \in Memory
        BY <4>4 DEF Good, Alloc
      <4> DEFINE n == page_remove(u, e, va)
      <4>8. /\ Good(n, H) /\ Frame(u, n) /\ n.pte = [u.pte EXCEPT ![e][va] = Empty]
            /\ n.root = u.root /\ n.tab = u.tab
        BY <4>4, <4>5, <4>6, RemoveGood
      <4>9. n = g[s]
        BY <4>2 DEF u
      <4> HIDE DEF n
      <4>10. \A f \in Envs, w \in VAs :
               n.pte[f][w] = IF f = e /\ w = va THEN Empty ELSE u.pte[f][w]
        BY <4>5, <4>7, <4>8 DEF Memory
      <4>11. Unmapped(m, n, e, s)
        BY <4>2, <4>4, <4>10 DEF Unmapped
      <4>12. Frame(m, n)
        BY <4>4, <4>8 DEF Frame
      <4>13. Q(s)
        BY <4>4, <4>8, <4>9, <4>11, <4>12
      <4> QED
        BY <3>2, <4>13
    <3> QED
      BY <3>3, <3>4
  <2> QED
    BY <2>1
<1>4. Q(S)
  <2> HIDE DEF Q
  <2> QED
    BY <1>3
<1> QED
  BY <1>2, <1>4

(* The same for the tables.                                                *)
Untabled(m, n, e, S) ==
    \A f \in Envs, w \in Regions : n.tab[f][w] = IF f = e /\ w \in S THEN None ELSE m.tab[f][w]

LEMMA FreeTableGood ==
    ASSUME NEW m, NEW H, Good(m, H), NEW e \in Envs, NEW r \in Regions, m.tab[e][r] # None
    PROVE  LET n == FreeTable(m, e, r) IN
           /\ Good(n, H) /\ Frame(m, n) /\ n.root = m.root /\ n.pte = m.pte
           /\ TableSet(m, n, e, r, None)
<1> DEFINE p == m.tab[e][r]
           c == [m EXCEPT !.tab[e][r] = None]
           d == page_decref(m, p)
           n == FreeTable(m, e, r)
<1>1. m \in Memory /\ p \in InUse
  BY DEF Good, Alloc, Spaces
<1>2. m.ref[p] > 0
  BY <1>1, RefsPositive, RefsFinite, Facts DEF Good, Counted, Alloc, Memory
<1>3. Alloc(d, H) /\ SameSpaces(m, d) /\ d.ref = [m.ref EXCEPT ![p] = @ - 1]
  BY <1>1, <1>2, DecrefKeeps DEF Good
<1>4. d \in Memory
  BY <1>3 DEF Alloc
<1>5. n = [d EXCEPT !.tab[e][r] = None]
  <2> HIDE DEF p
  <2> DEFINE x == [m EXCEPT !.ref[p] = (@ - 1) % RefMod]
             y == [c EXCEPT !.ref[p] = (@ - 1) % RefMod]
  <2>1. m.ref[p] - 1 \in 0..RefMod-1 /\ (m.ref[p] - 1) % RefMod = m.ref[p] - 1
    <3>1. m.ref[p] \in 0..RefMod-1 /\ RefMod \in Nat
      BY <1>1, Facts DEF Memory
    <3> QED
      BY <1>2, <3>1
  <2>2. c \in Memory /\ x \in Memory /\ y = [x EXCEPT !.tab[e][r] = None] /\ y \in Memory
    BY <1>1, <2>1, Facts DEF Memory
  <2>3. n = page_decref(c, p)
    BY DEF FreeTable, p
  <2>4. d = IF x.ref[p] = 0 THEN page_free(x, p) ELSE x
    BY DEF page_decref
  <2>5. page_decref(c, p) = IF y.ref[p] = 0 THEN page_free(y, p) ELSE y
    BY DEF page_decref
  <2> HIDE DEF c, x, y, d, n
  <2>6. page_free(y, p) = [page_free(x, p) EXCEPT !.tab[e][r] = None]
    <3>1. y.link = x.link /\ y.ref = x.ref /\ y.head = x.head
      BY <2>2 DEF Memory
    <3>2. CASE x.link[p] # NULL \/ x.ref[p] # 0
      BY <2>2, <3>1, <3>2 DEF page_free, Memory
    <3>3. CASE ~(x.link[p] # NULL \/ x.ref[p] # 0)
      BY <2>2, <3>1, <3>3 DEF page_free, Memory
    <3> QED
      BY <3>2, <3>3
  <2>7. y.ref[p] = x.ref[p]
    BY <2>2 DEF Memory
  <2> QED
    BY <2>2, <2>3, <2>4, <2>5, <2>6, <2>7
<1> HIDE DEF p, d, n
<1>6. /\ n \in Memory /\ n.link = d.link /\ n.head = d.head /\ n.panicked = d.panicked
      /\ n.ref = d.ref /\ n.lost = m.lost /\ n.dropped = m.dropped
      /\ n.root = m.root /\ n.pte = m.pte
      /\ \A f \in Envs, w \in Regions : n.tab[f][w] = IF f = e /\ w = r THEN None ELSE m.tab[f][w]
  BY <1>3, <1>4, <1>5 DEF Memory, SameSpaces
<1>7. Spaces(n)
  BY <1>6 DEF Good, Spaces
<1>8. TableSet(m, n, e, r, None)
  BY <1>6 DEF TableSet
<1>9. OneRefLess(m, n, p)
  <2>1. ASSUME NEW x \in InUse
        PROVE  Refs(n, x) = IF x = p THEN Refs(m, x) - 1 ELSE Refs(m, x)
    <3>1. Refs(n, x) = Refs(m, x) + (IF None = x THEN 1 ELSE 0)
                       - (IF m.tab[e][r] = x THEN 1 ELSE 0)
      BY <1>8, RefsTab
    <3>2. x # None
      BY Facts
    <3> QED
      BY <3>1, <3>2, RefsFinite DEF p
  <2> QED
    BY <1>1, <2>1 DEF OneRefLess
<1>10. Good(n, H) /\ CountSet(m, n, p, n.ref[p])
  BY <1>1, <1>2, <1>6, <1>7, <1>9, OneLess DEF d
<1>11. Frame(m, n)
  BY <1>1, <1>6, <1>10, Facts DEF Frame, CountSet
<1> QED
  BY <1>6, <1>8, <1>10, <1>11 DEF n

LEMMA FreeTablesGood ==
    ASSUME NEW m, NEW H, Good(m, H), NEW e \in Envs, NEW S \in SUBSET Regions,
           \A r \in S : m.tab[e][r] # None
    PROVE  LET n == FreeTables(m, e, S) IN
           /\ Good(n, H) /\ Frame(m, n) /\ n.root = m.root /\ n.pte = m.pte
           /\ Untabled(m, n, e, S)
<1>1. IsFiniteSet(S)
  BY Finite, FS_Subset
<1>2. PICK g :
        FreeTableRec(g, m, e, S) /\ FreeTables(m, e, S) = g[S]
  BY <1>1, FreeTabEquation
<1> DEFINE Q(s) == /\ Good(g[s], H) /\ Frame(m, g[s]) /\ g[s].root = m.root /\ g[s].pte = m.pte
                   /\ Untabled(m, g[s], e, s)
<1>3. \A s \in SUBSET S : Q(s)
  <2> DEFINE T == {s \in SUBSET S : ~Q(s)}
  <2>1. ASSUME T # {} PROVE FALSE
    <3>1. PICK s \in T : \A t \in T : t \subseteq s => t = s
      <4>1. T \subseteq SUBSET S
        OBVIOUS
      <4> HIDE DEF T
      <4> QED
        BY <1>1, <2>1, <4>1, SmallestSet
    <3>2. s \in SUBSET S /\ ~Q(s)
      OBVIOUS
    <3>3. CASE s = {}
      <4>1. g[s] = m
        BY <1>2, <3>2, <3>3 DEF FreeTableRec
      <4> QED
        BY <3>2, <3>3, <4>1 DEF Frame, Untabled
    <3>4. CASE s # {}
      <4>1. PICK r : r = CHOOSE x \in s : TRUE
        OBVIOUS
      <4>2. r \in s /\ g[s] = FreeTable(g[s \ {r}], e, r)
        BY <1>2, <3>2, <3>4, <4>1 DEF FreeTableRec
      <4> DEFINE u == g[s \ {r}]
      <4>3. Q(s \ {r})
        <5> HIDE DEF Q
        <5>1. s \ {r} \in SUBSET S /\ s \ {r} \subseteq s /\ s \ {r} # s
          BY <3>2, <4>2
        <5> QED
          BY <3>1, <5>1
      <4>4. /\ Good(u, H) /\ Frame(m, u) /\ u.root = m.root /\ u.pte = m.pte
            /\ Untabled(m, u, e, s \ {r})
        BY <4>3
      <4> HIDE DEF u
      <4>5. r \in Regions /\ u.tab[e][r] = m.tab[e][r] /\ m.tab[e][r] # None
        BY <3>2, <4>2, <4>4 DEF Untabled
      <4> DEFINE n == FreeTable(u, e, r)
      <4>6. /\ Good(n, H) /\ Frame(u, n) /\ n.root = u.root /\ n.pte = u.pte
            /\ TableSet(u, n, e, r, None)
        BY <4>4, <4>5, FreeTableGood
      <4>7. n = g[s]
        BY <4>2 DEF u
      <4> HIDE DEF n
      <4>8. Untabled(m, n, e, s)
        BY <4>2, <4>4, <4>6 DEF Untabled, TableSet
      <4>9. Frame(m, n)
        BY <4>4, <4>6 DEF Frame
      <4>10. Q(s)
        BY <4>4, <4>6, <4>7, <4>8, <4>9
      <4> QED
        BY <3>2, <4>10
    <3> QED
      BY <3>3, <3>4
  <2> QED
    BY <2>1
<1>4. Q(S)
  <2> HIDE DEF Q
  <2> QED
    BY <1>3
<1> QED
  BY <1>2, <1>4

(* Forgetting what is left of an address space: those references are lost. *)
Row(e, B) == {e} \X B

LEMMA Subtract ==
    ASSUME NEW A, IsFiniteSet(A), NEW e, NEW B, IsFiniteSet(B), Row(e, B) \subseteq A,
           NEW C, C = A \ Row(e, B)
    PROVE  Cardinality(C) = Cardinality(A) - Cardinality(B) /\ Cardinality(B) \in Nat
<1>1. IsFiniteSet({e}) /\ Cardinality({e}) = 1
  BY FS_Singleton
<1>2. Cardinality(Row(e, B)) = 1 * Cardinality(B)
  BY <1>1, FS_Product DEF Row
<1>3. Cardinality(B) \in Nat
  BY FS_CardinalityType
<1>4. Cardinality(A \ Row(e, B)) = Cardinality(A) - Cardinality(A \cap Row(e, B))
  BY FS_Difference
<1>5. A \cap Row(e, B) = Row(e, B)
  OBVIOUS
<1>6. Cardinality(A) \in Nat /\ Cardinality(Row(e, B)) = Cardinality(B) /\ C = A \ Row(e, B)
  BY <1>2, <1>3, FS_CardinalityType
<1> QED
  BY ONLY <1>3, <1>4, <1>5, <1>6

(* The entries and tables of e that are left when env_free has done.       *)
LeftEntries(m, e, p) == {va \in VAs \ SweptVAs(m, e) : m.pte[e][va] = Pte(p)}
LeftTables(m, e, p) == {r \in Regions \ Swept : m.tab[e][r] = p}

(* Nothing of the address space of e is left.                              *)
Cleared(m, n, e) ==
    /\ \A f \in Envs, w \in VAs : n.pte[f][w] = IF f = e THEN Empty ELSE m.pte[f][w]
    /\ \A f \in Envs, w \in Regions : n.tab[f][w] = IF f = e THEN None ELSE m.tab[f][w]

LEMMA RefsForgotten ==
    ASSUME NEW m \in Memory, NEW y \in Memory, NEW n, NEW e \in Envs, NEW p \in Pages,
           y.root = n.root,
           Unmapped(m, y, e, SweptVAs(m, e)), Untabled(m, y, e, SweptTabs(m, e)),
           Cleared(m, n, e)
    PROVE  Refs(n, p) = Refs(y, p) - Leaves(m, e, p) /\ Leaves(m, e, p) \in Nat
<1> DEFINE A == LeftEntries(m, e, p)
           B == LeftTables(m, e, p)
<1>1. IsFiniteSet(A) /\ IsFiniteSet(B)
  <2>1. A \in SUBSET VAs /\ B \in SUBSET Regions
    BY DEF LeftEntries, LeftTables
  <2> QED
    BY <2>1, Finite, FS_Subset
<1>2. p # None /\ ~Empty.p
  BY Facts DEF Empty
<1>3. \A w \in VAs : Holds(y.pte[e][w], p) <=> w \in A
  <2>1. \A w \in VAs : m.pte[e][w] = Pte(p) <=> Holds(m.pte[e][w], p)
    <3>1. \A w \in VAs : m.pte[e][w] \in Entry
      BY DEF Memory
    <3>2. \A x \in Entry : x = Pte(p) <=> Holds(x, p)
      BY DEF Entry, Pte, Holds
    <3> QED
      BY <3>1, <3>2
  <2> QED
    BY <1>2, <2>1 DEF Unmapped, LeftEntries, SweptVAs, Holds
<1>4. \A r \in Regions : y.tab[e][r] = p <=> r \in B
  BY <1>2 DEF Untabled, LeftTables, SweptTabs
<1>5. Row(e, A) \subseteq Mappings(y, p) /\ Mappings(n, p) = Mappings(y, p) \ Row(e, A)
  <2>1. A \subseteq VAs
    BY DEF LeftEntries
  <2>2. \A z \in Envs \X VAs : z \in Mappings(y, p) <=> Holds(y.pte[z[1]][z[2]], p)
    BY DEF Mappings, Holds
  <2>3. \A z \in Envs \X VAs : z \in Mappings(n, p) <=> Holds(n.pte[z[1]][z[2]], p)
    BY DEF Mappings, Holds
  <2>4. \A f \in Envs, w \in VAs :
           Holds(n.pte[f][w], p) <=> Holds(y.pte[f][w], p) /\ ~(f = e /\ w \in A)
    BY <1>2, <1>3 DEF Unmapped, Cleared, Holds
  <2>5. Mappings(y, p) \subseteq Envs \X VAs /\ Mappings(n, p) \subseteq Envs \X VAs
    BY DEF Mappings
  <2> HIDE DEF A
  <2>6. \A z \in Row(e, A) : z \in Envs \X VAs /\ z[1] = e /\ z[2] \in A
    BY <2>1 DEF Row
  <2>7. Row(e, A) \subseteq Mappings(y, p)
    BY <1>3, <2>1, <2>2, <2>6
  <2>8. \A z \in Envs \X VAs : z \in Row(e, A) <=> z[1] = e /\ z[2] \in A
    BY DEF Row
  <2>9. \A z \in Envs \X VAs : z \in Mappings(n, p) <=> z \in Mappings(y, p) /\ z \notin Row(e, A)
    BY <2>2, <2>3, <2>4, <2>8
  <2> QED
    BY <2>5, <2>7, <2>9
<1>6. Row(e, B) \subseteq Tables(y, p) /\ Tables(n, p) = Tables(y, p) \ Row(e, B)
  <2>1. B \subseteq Regions
    BY DEF LeftTables
  <2>2. \A z \in Envs \X Regions : z \in Tables(y, p) <=> y.tab[z[1]][z[2]] = p
    BY DEF Tables
  <2>3. \A z \in Envs \X Regions : z \in Tables(n, p) <=> n.tab[z[1]][z[2]] = p
    BY DEF Tables
  <2>4. \A f \in Envs, w \in Regions :
           n.tab[f][w] = p <=> y.tab[f][w] = p /\ ~(f = e /\ w \in B)
    BY <1>2, <1>4 DEF Untabled, Cleared
  <2>5. Tables(y, p) \subseteq Envs \X Regions /\ Tables(n, p) \subseteq Envs \X Regions
    BY DEF Tables
  <2> HIDE DEF B
  <2>6. \A z \in Row(e, B) : z \in Envs \X Regions /\ z[1] = e /\ z[2] \in B
    BY <2>1 DEF Row
  <2>7. Row(e, B) \subseteq Tables(y, p)
    BY <1>4, <2>1, <2>2, <2>6
  <2>8. \A z \in Envs \X Regions : z \in Row(e, B) <=> z[1] = e /\ z[2] \in B
    BY DEF Row
  <2>9. \A z \in Envs \X Regions : z \in Tables(n, p) <=> z \in Tables(y, p) /\ z \notin Row(e, B)
    BY <2>2, <2>3, <2>4, <2>8
  <2> QED
    BY <2>5, <2>7, <2>9
<1>7. Roots(n, p) = Roots(y, p)
  BY DEF Roots
<1>8. Leaves(m, e, p) = Cardinality(A) + Cardinality(B)
  BY DEF Leaves, LeftEntries, LeftTables
<1> HIDE DEF A, B
<1>9. /\ Cardinality(Mappings(n, p)) = Cardinality(Mappings(y, p)) - Cardinality(A)
      /\ Cardinality(A) \in Nat
  <2>1. IsFiniteSet(Mappings(y, p))
    BY RefsFinite
  <2>2. PICK D, C : D = Mappings(y, p) /\ C = Mappings(n, p)
    OBVIOUS
  <2>3. IsFiniteSet(D) /\ Row(e, A) \subseteq D /\ C = D \ Row(e, A)
    BY <1>5, <2>1, <2>2
  <2>4. Cardinality(C) = Cardinality(D) - Cardinality(A) /\ Cardinality(A) \in Nat
    BY <1>1, <2>3, Subtract
  <2> QED
    BY <2>2, <2>4
<1>10. /\ Cardinality(Tables(n, p)) = Cardinality(Tables(y, p)) - Cardinality(B)
       /\ Cardinality(B) \in Nat
  <2>1. IsFiniteSet(Tables(y, p))
    BY RefsFinite
  <2>2. PICK D, C : D = Tables(y, p) /\ C = Tables(n, p)
    OBVIOUS
  <2>3. IsFiniteSet(D) /\ Row(e, B) \subseteq D /\ C = D \ Row(e, B)
    BY <1>6, <2>1, <2>2
  <2>4. Cardinality(C) = Cardinality(D) - Cardinality(B) /\ Cardinality(B) \in Nat
    BY <1>1, <2>3, Subtract
  <2> QED
    BY <2>2, <2>4
<1> QED
  BY <1>7, <1>8, <1>9, <1>10, RefsFinite DEF Refs

(* env_free: what it does not take down is lost, nothing else.             *)
LEMMA EnvFreeGood ==
    ASSUME NEW m, Good(m, {}), Tabled(m), NEW e \in Envs, m.root[e] # None
    PROVE  LET n == env_free(m, e) IN
           Good(n, {}) /\ Tabled(n) /\ n.ref[Page0] = m.ref[Page0]
<1> DEFINE u == UnmapAll(m, e, SweptVAs(m, e))
           w == FreeTables(u, e, SweptTabs(m, e))
           p == m.root[e]
           d == page_decref(w, p)
           y == [d EXCEPT !.root[e] = None]
           n == env_free(m, e)
<1>1. m \in Memory
  BY DEF Good, Alloc
<1>2. /\ Good(u, {}) /\ Frame(m, u) /\ u.root = m.root /\ u.tab = m.tab
      /\ Unmapped(m, u, e, SweptVAs(m, e))
  <2>1. SweptVAs(m, e) \in SUBSET VAs /\ \A va \in SweptVAs(m, e) : m.pte[e][va].p
    BY DEF SweptVAs
  <2> QED
    BY <2>1, UnmapAllGood
<1> HIDE DEF u
<1>3. /\ Good(w, {}) /\ Frame(u, w) /\ w.root = u.root /\ w.pte = u.pte
      /\ Untabled(u, w, e, SweptTabs(m, e))
  <2>1. SweptTabs(m, e) \in SUBSET Regions /\ \A r \in SweptTabs(m, e) : u.tab[e][r] # None
    BY <1>2 DEF SweptTabs
  <2> QED
    BY <1>2, <2>1, FreeTablesGood
<1> HIDE DEF w
<1>4. /\ w \in Memory /\ p \in InUse /\ p \in Pages /\ w.root[e] = p /\ w.ref[p] > 0
  <2>1. w \in Memory /\ p \in InUse /\ w.root[e] = p
    BY <1>1, <1>2, <1>3 DEF Good, Alloc, Spaces
  <2>2. Refs(w, p) > 0
    BY <2>1, RefsPositive
  <2>3. w.ref[p] = Refs(w, p) + w.lost[p] /\ w.lost[p] \in Nat /\ Refs(w, p) \in Nat
    BY <1>3, <2>1, RefsFinite, Facts DEF Good, Counted, Memory
  <2> QED
    BY <2>1, <2>2, <2>3, Facts
<1>5. Alloc(d, {}) /\ SameSpaces(w, d) /\ d \in Memory /\ d.ref = [w.ref EXCEPT ![p] = @ - 1]
  <2>1. Alloc(d, {}) /\ SameSpaces(w, d) /\ d.ref = [w.ref EXCEPT ![p] = @ - 1]
    BY <1>3, <1>4, DecrefKeeps DEF Good
  <2> QED
    BY <2>1 DEF Alloc
<1> HIDE DEF d, p
<1>6. /\ y \in Memory /\ y.link = d.link /\ y.head = d.head /\ y.panicked = d.panicked
      /\ y.ref = d.ref /\ y.lost = d.lost /\ y.dropped = d.dropped
      /\ y.tab = d.tab /\ y.pte = d.pte
      /\ y.root = [d.root EXCEPT ![e] = None]
  BY <1>5 DEF Memory
<1>7. n = [y EXCEPT !.tab[e] = NoTables, !.pte[e] = NoEntries,
              !.lost = [x \in Pages |-> IF x = Page0 THEN 0 ELSE y.lost[x] + Leaves(m, e, x)]]
  <2>1. n = [d EXCEPT !.root[e] = None, !.tab[e] = NoTables, !.pte[e] = NoEntries,
              !.lost = [x \in Pages |-> IF x = Page0 THEN 0 ELSE d.lost[x] + Leaves(m, e, x)]]
    BY DEF env_free, u, w, d, p
  <2> HIDE DEF n
  <2> QED
    BY <1>5, <1>6, <2>1 DEF Memory
<1> HIDE DEF y
<1>8. RootSet(w, y, e, None)
  BY <1>4, <1>5, <1>6 DEF RootSet, SameSpaces, Memory
<1>9. Good(y, {}) /\ CountSet(w, y, p, y.ref[p])
  <2>1. Spaces(y)
    BY <1>3, <1>4, <1>8 DEF Good, Spaces, RootSet
  <2>2. OneRefLess(w, y, p)
    <3>1. ASSUME NEW x \in InUse
          PROVE  Refs(y, x) = IF x = p THEN Refs(w, x) - 1 ELSE Refs(w, x)
      <4>1. Refs(y, x) = Refs(w, x) + (IF None = x THEN 1 ELSE 0) - (IF w.root[e] = x THEN 1 ELSE 0)
        BY <1>8, RefsRoot
      <4>2. x # None
        BY Facts
      <4> QED
        BY <1>4, <4>1, <4>2, RefsFinite
    <3> QED
      BY <1>4, <3>1 DEF OneRefLess
  <2> QED
    BY <1>3, <1>4, <1>5, <1>6, <2>1, <2>2, OneLess DEF d, SameSpaces
<1>10. Unmapped(m, y, e, SweptVAs(m, e)) /\ Untabled(m, y, e, SweptTabs(m, e))
  BY <1>2, <1>3, <1>5, <1>6 DEF Unmapped, Untabled, SameSpaces
<1>11. /\ NoTables \in [Regions -> Pages \cup {None}] /\ NoEntries \in [VAs -> Entry]
  BY Facts DEF NoTables, NoEntries, Empty, Entry
<1>12. \A x \in Pages : Leaves(m, e, x) \in Nat
  <2>1. IsFiniteSet(VAs) /\ IsFiniteSet(Regions)
    BY Finite
  <2>2. ASSUME NEW x \in Pages PROVE Leaves(m, e, x) \in Nat
    <3>1. /\ LeftEntries(m, e, x) \in SUBSET VAs /\ LeftTables(m, e, x) \in SUBSET Regions
          /\ Leaves(m, e, x) = Cardinality(LeftEntries(m, e, x)) + Cardinality(LeftTables(m, e, x))
      BY DEF LeftEntries, LeftTables, Leaves
    <3>2. /\ Cardinality(LeftEntries(m, e, x)) \in Nat /\ Cardinality(LeftTables(m, e, x)) \in Nat
      BY <2>1, <3>1, FS_Subset, FS_CardinalityType
    <3> QED
      BY <3>1, <3>2
  <2> QED
    BY <2>2
<1>13. /\ n \in Memory /\ n.link = y.link /\ n.head = y.head /\ n.panicked = y.panicked
       /\ n.ref = y.ref /\ n.dropped = y.dropped /\ n.root = y.root
       /\ n.tab = [y.tab EXCEPT ![e] = NoTables] /\ n.pte = [y.pte EXCEPT ![e] = NoEntries]
       /\ n.lost = [x \in Pages |-> IF x = Page0 THEN 0 ELSE y.lost[x] + Leaves(m, e, x)]
  <2> DEFINE L == [x \in Pages |-> IF x = Page0 THEN 0 ELSE y.lost[x] + Leaves(m, e, x)]
  <2>1. L \in [Pages -> Nat]
    BY <1>6, <1>12 DEF Memory
  <2>2. n = [y EXCEPT !.tab[e] = NoTables, !.pte[e] = NoEntries, !.lost = L]
    BY <1>7
  <2> HIDE DEF n, L
  <2>3. /\ n \in Memory /\ n.link = y.link /\ n.head = y.head /\ n.panicked = y.panicked
        /\ n.ref = y.ref /\ n.dropped = y.dropped /\ n.root = y.root
        /\ n.tab = [y.tab EXCEPT ![e] = NoTables] /\ n.pte = [y.pte EXCEPT ![e] = NoEntries]
        /\ n.lost = L
    BY <1>6, <1>11, <2>1, <2>2 DEF Memory
  <2> QED
    BY <2>3 DEF L
<1> HIDE DEF n
<1>14. Cleared(m, n, e)
  BY <1>6, <1>10, <1>13 DEF NoTables, NoEntries, Unmapped, Untabled, Memory, Cleared
<1>15. \A x \in Pages : Refs(n, x) = Refs(y, x) - Leaves(m, e, x)
  <2>1. y.root = n.root
    BY <1>13
  <2> QED
    BY <1>1, <1>6, <1>10, <1>14, <2>1, RefsForgotten
<1>16. Counted(n)
  <2>1. ASSUME NEW x \in InUse PROVE n.ref[x] = Refs(n, x) + n.lost[x]
    <3>1. y.ref[x] = Refs(y, x) + y.lost[x] /\ y.lost[x] \in Nat /\ Refs(y, x) \in Nat
          /\ x \in Pages /\ x # Page0
      BY <1>6, <1>9, RefsFinite, Facts DEF Good, Counted, Memory
    <3>2. Refs(n, x) = Refs(y, x) - Leaves(m, e, x) /\ Leaves(m, e, x) \in Nat
      BY <1>12, <1>15, <3>1
    <3> QED
      BY <1>13, <3>1, <3>2
  <2> QED
    BY <2>1 DEF Counted
<1>17. OutOfUse(n)
  <2>1. ASSUME NEW x \in Pages \ (InUse \cup {Page0}) PROVE Leaves(m, e, x) = 0
    <3>1. LeftEntries(m, e, x) = {}
      <4>1. Empty # Pte(x) /\ Pte(x).page = x
        BY DEF Empty, Pte
      <4> QED
        BY <4>1 DEF LeftEntries, Good, Spaces
    <3>2. LeftTables(m, e, x) = {}
      BY Facts DEF LeftTables, Good, Spaces
    <3>3. Leaves(m, e, x) = Cardinality(LeftEntries(m, e, x)) + Cardinality(LeftTables(m, e, x))
      BY DEF LeftEntries, LeftTables, Leaves
    <3>4. Cardinality({}) = 0
      BY FS_EmptySet
    <3> QED
      BY <3>1, <3>2, <3>3, <3>4
  <2> QED
    BY <1>9, <1>13, <2>1 DEF Good, OutOfUse
<1>18. Spaces(n)
  BY <1>8, <1>13, <1>14, <1>9 DEF Good, Spaces, Cleared
<1>19. Tabled(n)
  <2>1. ~Empty.p
    BY DEF Empty
  <2>2. ASSUME NEW f \in Envs, NEW va \in VAs, n.pte[f][va].p PROVE n.tab[f][Region[va]] # None
    <3>1. f # e /\ m.pte[f][va].p
      BY <1>14, <2>1, <2>2 DEF Cleared
    <3>2. m.tab[f][Region[va]] # None /\ Region[va] \in Regions
      BY <3>1, Facts DEF Tabled, HasTable
    <3> QED
      BY <1>14, <3>1, <3>2 DEF Cleared
  <2> QED
    BY <2>2 DEF Tabled, HasTable
<1>20. Alloc(n, {})
  <2>1. FreePgs(n, {}) = FreePgs(y, {})
    BY <1>13 DEF FreePgs
  <2>2. Alloc(y, {})
    BY <1>9 DEF Good
  <2>3. /\ n \in Memory /\ n.link = y.link /\ n.head = y.head /\ ~n.panicked
        /\ n.dropped \cup {} \subseteq InUse /\ n.dropped \cap {} = {}
        /\ \A x \in n.dropped \cup {} : n.ref[x] = 0
    BY <1>13, <2>2 DEF Alloc
  <2> QED
    BY ONLY <2>1, <2>2, <2>3, SameList, ZenonT(60)
<1>21. n.ref[Page0] = m.ref[Page0]
  BY <1>2, <1>3, <1>4, <1>9, <1>13, Facts DEF Frame, CountSet
<1> QED
  BY <1>16, <1>17, <1>18, <1>19, <1>20, <1>21 DEF Good, n

-----------------------------------------------------------------------------
(* The other steps.                                                        *)

(* There is a page to allocate when there is a free one.                   *)
LEMMA FreeCanAlloc ==
    ASSUME NEW m, NEW H, Alloc(m, H), FreePgs(m, H) # {}
    PROVE  CanAlloc(m)
<1>1. PICK n, q : Chain(m, q, n) /\ {q[i] : i \in 1..n} = FreePgs(m, H)
  BY DEF Alloc
<1>2. n \in Nat /\ n > 0
  BY <1>1 DEF Chain
<1>3. 1 \in 1..n
  BY <1>2
<1>4. m.head = q[1] /\ q[1] \in Pages
  BY <1>1, <1>2, <1>3 DEF Chain
<1> QED
  BY <1>4, Facts DEF CanAlloc

(* A new environment: its root.                                            *)
LEMMA SetupGood ==
    ASSUME NEW m, NEW H, Good(m, H), Tabled(m), NEW e \in Envs, m.root[e] = None,
           CanAlloc(m)
    PROVE  LET n == env_setup_vm(m, e) IN
           /\ Good(n, H) /\ Tabled(n) /\ Frame(m, n)
           /\ CountSet(m, n, m.head, n.ref[m.head]) /\ m.head \in InUse
<1> DEFINE p == m.head
           a == page_alloc(m)
           n == env_setup_vm(m, e)
<1>1. /\ Good(a, H \cup {p}) /\ p \in InUse /\ m.ref[p] = 0 /\ p \notin H
      /\ a.ref = m.ref /\ SameSpaces(m, a)
  BY PageAllocGood
<1>2. n = [Incref(a, p) EXCEPT !.root[e] = p]
  BY DEF env_setup_vm, Take
<1> HIDE DEF a, p
<1>3. a \in Memory /\ p \in Pages /\ a.ref[p] \in Nat /\ RefMod \in Nat \ {0}
  BY <1>1, Facts DEF Good, Alloc, Memory
<1>4. (a.ref[p] + 1) % RefMod \in 0..RefMod-1
  BY <1>3
<1>5. /\ n \in Memory /\ n.link = a.link /\ n.head = a.head /\ n.panicked = a.panicked
      /\ n.ref = [a.ref EXCEPT ![p] = (a.ref[p] + 1) % RefMod]
      /\ n.lost = a.lost /\ n.dropped = a.dropped /\ n.tab = a.tab /\ n.pte = a.pte
      /\ n.root = [a.root EXCEPT ![e] = p]
  <2> DEFINE i == Incref(a, p)
  <2>1. /\ i \in Memory /\ i.link = a.link /\ i.head = a.head /\ i.panicked = a.panicked
        /\ i.ref = [a.ref EXCEPT ![p] = (a.ref[p] + 1) % RefMod] /\ SameSpaces(a, i)
    BY <1>3, <1>4 DEF Incref, Memory, SameSpaces
  <2>2. n = [i EXCEPT !.root[e] = p]
    BY <1>2
  <2> HIDE DEF i, n
  <2> QED
    BY <1>3, <2>1, <2>2 DEF Memory, SameSpaces
<1> HIDE DEF n
<1>6. RootSet(a, n, e, p)
  BY <1>3, <1>5 DEF RootSet, Memory
<1>7. Spaces(n)
  BY <1>1, <1>6 DEF Good, Spaces, RootSet
<1>8. OneRefMore(a, n, p)
  <2>1. ASSUME NEW x \in InUse
        PROVE  Refs(n, x) = IF x = p THEN Refs(a, x) + 1 ELSE Refs(a, x)
    <3>1. Refs(n, x) = Refs(a, x) + (IF p = x THEN 1 ELSE 0) - (IF a.root[e] = x THEN 1 ELSE 0)
      BY <1>6, RefsRoot
    <3>2. a.root[e] # x
      BY <1>1, Facts DEF SameSpaces
    <3> QED
      BY <3>1, <3>2, RefsFinite
  <2> QED
    BY <1>1, <2>1 DEF OneRefMore
<1>9. /\ Good(n, (H \cup {p}) \ {p}) /\ CountSet(a, n, p, n.ref[p])
  <2>1. Room(a, H \cup {p}, p)
    BY DEF Room
  <2>2. CountSet(a, n, p, (a.ref[p] + 1) % RefMod)
    BY <1>3, <1>5 DEF Memory, CountSet
  <2> QED
    BY <1>1, <1>5, <1>7, <1>8, <2>1, <2>2, OneMore
<1>10. (H \cup {p}) \ {p} = H
  BY <1>1
<1>11. Tabled(n)
  BY <1>1, <1>5 DEF Tabled, HasTable, SameSpaces
<1>12. Frame(m, n)
  BY <1>1, <1>5, <1>9, Facts DEF Frame, SameSpaces, CountSet
<1>13. CountSet(m, n, p, n.ref[p])
  BY <1>1, <1>9 DEF CountSet
<1> QED
  BY <1>1, <1>9, <1>10, <1>11, <1>12, <1>13 DEF n, p

(* page_alloc, then page_insert of the new page.                           *)
LEMMA LoadGood ==
    ASSUME NEW m, Good(m, {}), Tabled(m), NEW e \in Envs, NEW va \in VAs, CanAlloc(m),
           CanWalk(page_alloc(m), e, va)
    PROVE  Good(Load(m, e, va), {}) /\ Tabled(Load(m, e, va))
<1> DEFINE a == page_alloc(m)
           p == m.head
<1>1. Good(a, {} \cup {p}) /\ p \in InUse /\ SameSpaces(m, a)
  BY PageAllocGood
<1>2. Tabled(a)
  BY <1>1 DEF Tabled, HasTable, SameSpaces
<1>3. Good(a, {p}) /\ Room(a, {p}, p) /\ {p} \ {p} = {}
  BY <1>1 DEF Room
<1>4. CanWalk(a, e, va)
  OBVIOUS
<1>5. Load(m, e, va) = page_insert(a, e, va, p)
  BY DEF Load
<1> HIDE DEF a, p
<1>6. Good(page_insert(a, e, va, p), {p} \ {p}) /\ Tabled(page_insert(a, e, va, p))
  BY <1>1, <1>2, <1>3, <1>4, InsertGood
<1> QED
  BY <1>3, <1>5, <1>6

(* Giving another address a page that is mapped.                           *)
LEMMA TransferGood ==
    ASSUME NEW m, Good(m, {}), Tabled(m), NEW s \in Envs, NEW va \in VAs, m.pte[s][va].p,
           NEW e \in Envs, NEW dst \in VAs, CanWalk(m, e, dst),
           m.ref[page_lookup(m, s, va)] < RefMod - 1
    PROVE  LET n == page_insert(m, e, dst, page_lookup(m, s, va)) IN
           Good(n, {}) /\ Tabled(n)
<1> DEFINE p == m.pte[s][va].page
<1>1. m \in Memory /\ p \in InUse /\ Holds(m.pte[s][va], p)
  <2>1. m.pte[s][va] # Empty
    BY DEF Empty
  <2> QED
    BY <2>1 DEF Good, Alloc, Spaces, Holds
<1>2. m.ref[p] > 0
  BY <1>1, RefsPositive, RefsFinite, Facts DEF Good, Counted, Memory
<1>3. page_lookup(m, s, va) = p
  BY DEF page_lookup
<1> HIDE DEF p
<1>4. Room(m, {}, p)
  BY <1>2, <1>3 DEF Room
<1>5. Good(page_insert(m, e, dst, p), {} \ {p}) /\ Tabled(page_insert(m, e, dst, p))
  BY <1>1, <1>4, InsertGood
<1>6. {} \ {p} = {}
  OBVIOUS
<1> QED
  BY <1>3, <1>5, <1>6

(* page_remove, whether the address is mapped or not.                      *)
LEMMA UnmapGood ==
    ASSUME NEW m, Good(m, {}), Tabled(m), m.ref[Page0] # 1, NEW e \in Envs, NEW va \in VAs
    PROVE  Good(page_remove(m, e, va), {}) /\ Tabled(page_remove(m, e, va))
<1> DEFINE n == page_remove(m, e, va)
<1>1. CASE ~HasTable(m, e, va)
  BY <1>1 DEF page_remove
<1>2. CASE HasTable(m, e, va) /\ m.pte[e][va].p
  <2>1. Good(n, {}) /\ n.pte = [m.pte EXCEPT ![e][va] = Empty] /\ n.tab = m.tab
    BY <1>2, RemoveGood
  <2>2. m \in Memory /\ ~Empty.p
    BY DEF Good, Alloc, Empty
  <2> HIDE DEF n
  <2>3. ASSUME NEW f \in Envs, NEW w \in VAs, n.pte[f][w].p PROVE m.pte[f][w].p
    BY <2>1, <2>2, <2>3 DEF Memory
  <2>4. Tabled(n)
    BY <2>1, <2>3 DEF Tabled, HasTable
  <2> QED
    BY <2>1, <2>4 DEF n
<1>3. CASE HasTable(m, e, va) /\ ~m.pte[e][va].p
  <2>1. Good(n, {}) /\ n.pte = m.pte /\ n.tab = m.tab
    BY <1>3, RemoveEmptyGood
  <2> HIDE DEF n
  <2>2. Tabled(n)
    BY <2>1 DEF Tabled, HasTable
  <2> QED
    BY <2>1, <2>2 DEF n
<1> QED
  BY <1>1, <1>2, <1>3

(* sys_page_alloc gives the new page back: page_insert has failed.         *)
LEMMA GiveBackGood ==
    ASSUME NEW m, Good(m, {}), Tabled(m), CanAlloc(m)
    PROVE  LET n == page_free(page_alloc(m), m.head) IN
           Good(n, {}) /\ Tabled(n)
<1> DEFINE a == page_alloc(m)
           p == m.head
           n == page_free(a, p)
<1>1. /\ Good(a, {} \cup {p}) /\ SameSpaces(m, a)
  BY PageAllocGood
<1>2. Good(a, {p})
  BY <1>1
<1> HIDE DEF a, p
<1>3. /\ Alloc(n, {p} \ {p}) /\ n.ref = a.ref /\ SameSpaces(a, n)
  BY <1>2, FreePuts DEF Good
<1> HIDE DEF n
<1>4. \A x : Refs(n, x) = Refs(a, x)
  BY <1>3, SameRefs DEF SameSpaces
<1>5. /\ n.ref = a.ref /\ n.root = a.root /\ n.tab = a.tab /\ n.pte = a.pte
      /\ n.lost = a.lost
  BY <1>3 DEF SameSpaces
<1>6. Counted(n) /\ OutOfUse(n) /\ Spaces(n)
  BY <1>2, <1>4, <1>5 DEF Good, Counted, OutOfUse, Spaces
<1>7. {p} \ {p} = {}
  OBVIOUS
<1>8. Good(n, {})
  BY <1>3, <1>6, <1>7 DEF Good
<1>9. Tabled(n)
  BY <1>1, <1>5 DEF Tabled, HasTable, SameSpaces
<1> QED
  BY <1>8, <1>9 DEF n, a, p

(* sys_page_alloc returns with the new page in hand: it is dropped.        *)
LEMMA DropGood ==
    ASSUME NEW m, Good(m, {}), Tabled(m), CanAlloc(m)
    PROVE  LET n == [page_alloc(m) EXCEPT !.dropped = @ \cup {m.head}] IN
           Good(n, {}) /\ Tabled(n)
<1> DEFINE a == page_alloc(m)
           p == m.head
           n == [a EXCEPT !.dropped = @ \cup {p}]
<1>1. /\ Good(a, {} \cup {p}) /\ p \in InUse /\ p \in Pages /\ SameSpaces(m, a)
  BY PageAllocGood, Facts
<1>2. Good(a, {p}) /\ a \in Memory
  BY <1>1 DEF Good, Alloc
<1>3. Tabled(a)
  BY <1>1 DEF Tabled, HasTable, SameSpaces
<1> HIDE DEF a, p
<1>4. /\ n \in Memory /\ n.link = a.link /\ n.head = a.head /\ n.panicked = a.panicked
      /\ n.ref = a.ref /\ n.lost = a.lost /\ n.dropped = a.dropped \cup {p}
      /\ n.root = a.root /\ n.tab = a.tab /\ n.pte = a.pte
  BY <1>1, <1>2 DEF Memory
<1> HIDE DEF n
<1>5. Alloc(n, {})
  <2>1. FreePgs(n, {}) = FreePgs(a, {p})
    BY <1>4 DEF FreePgs
  <2>2. Alloc(a, {p})
    BY <1>2 DEF Good
  <2>3. /\ n \in Memory /\ n.link = a.link /\ n.head = a.head /\ ~n.panicked
        /\ n.dropped \cup {} \subseteq InUse /\ n.dropped \cap {} = {}
        /\ \A x \in n.dropped \cup {} : n.ref[x] = 0
    BY <1>4, <2>2 DEF Alloc
  <2> QED
    BY ONLY <2>1, <2>2, <2>3, SameList, ZenonT(60)
<1>6. Counted(n) /\ OutOfUse(n) /\ Spaces(n)
  <2>1. \A x : Refs(n, x) = Refs(a, x)
    BY <1>4, SameRefs
  <2> QED
    BY <1>2, <1>4, <2>1 DEF Good, Counted, OutOfUse, Spaces
<1>7. Tabled(n)
  BY <1>3, <1>4 DEF Tabled, HasTable
<1> QED
  BY <1>5, <1>6, <1>7 DEF Good, n, a, p

-----------------------------------------------------------------------------
(* The first state.                                                        *)

LEMMA UsableFacts ==
    /\ Len(Usable) \in Nat /\ Len(Usable) > 2
    /\ Usable \in [1..Len(Usable) -> Pages]
    /\ \A i, j \in 1..Len(Usable) : Usable[i] = Usable[j] => i = j
    /\ InUse = {Usable[i] : i \in 1..Len(Usable)}
    /\ Head(Usable) = Usable[1]
    /\ ToSet(Front(Usable)) = {Usable[i] : i \in 1..Len(Usable)-1}
<1>1. /\ Usable \in Seq(Pages) /\ IsInjective(Usable) /\ Len(Usable) > 2 /\ Usable # <<>>
  BY FreePagesAssumption, BootAssumption
<1>2. Len(Usable) \in Nat /\ DOMAIN Usable = 1..Len(Usable) /\ Usable \in [1..Len(Usable) -> Pages]
  BY <1>1
<1>3. /\ DOMAIN Front(Usable) = 1..Len(Usable)-1
      /\ \A i \in 1..Len(Usable)-1 : Front(Usable)[i] = Usable[i]
  BY <1>1, <1>2 DEF Front
<1> QED
  BY <1>1, <1>2, <1>3 DEF InUse, ToSet, IsInjective

LEMMA BareList == Chain(Bare, Usable, Len(Usable))
<1> DEFINE n == Len(Usable)
           at == [p \in InUse |-> CHOOSE k \in DOMAIN Usable : Usable[k] = p]
<1>1. DOMAIN Usable = 1..n /\ n \in Nat /\ n > 2
  BY UsableFacts
<1>2. \A i \in 1..n : Usable[i] \in InUse /\ Usable[i] \in Pages /\ at[Usable[i]] = i
  BY <1>1, UsableFacts
<1>3. /\ Bare.head = Usable[1]
      /\ Bare.link = [p \in Pages |-> IF p \in ToSet(Front(Usable)) THEN Usable[at[p] + 1] ELSE NULL]
  BY UsableFacts DEF Bare, page_init, InUse
<1> HIDE DEF at
<1>4. ASSUME NEW i \in 1..n-1 PROVE Bare.link[Usable[i]] = Usable[i+1]
  <2>1. i \in 1..n /\ Usable[i] \in ToSet(Front(Usable))
    BY <1>1, UsableFacts
  <2> QED
    BY <1>2, <1>3, <2>1
<1>5. Bare.link[Usable[n]] = NULL
  <2>1. n \in 1..n /\ Usable[n] \notin ToSet(Front(Usable))
    BY <1>1, UsableFacts
  <2> QED
    BY <1>2, <1>3, <2>1
<1>6. ASSUME NEW p \in Pages, Bare.link[p] # NULL PROVE \E i \in 1..n : p = Usable[i]
  <2>1. p \in ToSet(Front(Usable))
    BY <1>3, <1>6
  <2> QED
    BY <1>1, <2>1, UsableFacts
<1>7. Bare.head = IF n = 0 THEN NULL ELSE Usable[1]
  BY <1>1, <1>3
<1>8. n \in Nat /\ Usable \in [1..n -> Pages] /\ \A i, j \in 1..n : Usable[i] = Usable[j] => i = j
  BY UsableFacts
<1>9. Chain(Bare, Usable, n)
  <2> HIDE DEF n
  <2> QED
    BY ONLY <1>4, <1>5, <1>6, <1>7, <1>8 DEF Chain
<1> QED
  BY <1>9

LEMMA BareGood == Good(Bare, {}) /\ Tabled(Bare) /\ FreePgs(Bare, {}) = InUse
<1>1. /\ Bare.ref = [p \in Pages |-> 0] /\ Bare.root = [e \in Envs |-> None]
      /\ Bare.tab = [e \in Envs |-> NoTables] /\ Bare.pte = [e \in Envs |-> NoEntries]
      /\ Bare.lost = [p \in Pages |-> 0] /\ Bare.dropped = {} /\ Bare.panicked = FALSE
  BY DEF Bare
<1>2. Chain(Bare, Usable, Len(Usable))
  BY BareList
<1>3. Bare \in Memory
  <2>1. NoTables \in [Regions -> Pages \cup {None}] /\ NoEntries \in [VAs -> Entry]
    BY Facts DEF NoTables, NoEntries, Empty, Entry
  <2>2. 0 \in 0..RefMod-1
    BY Facts
  <2>3. page_init.head \in Pages \cup {NULL} /\ page_init.link \in [Pages -> Pages \cup {NULL}]
    <3>1. Bare.head \in Pages
      <4>1. 1 \in 1..Len(Usable)
        BY UsableFacts
      <4> QED
        BY <1>2, <4>1, UsableFacts DEF Chain
    <3>2. \A i \in 1..Len(Usable)-1 : Bare.link[Usable[i]] \in Pages
      BY <1>2, UsableFacts DEF Chain
    <3>3. \A p \in ToSet(Front(Usable)) : Bare.link[p] \in Pages
      BY <3>2, UsableFacts
    <3>4. Bare.head = page_init.head /\ Bare.link = page_init.link
      BY DEF Bare
    <3> DEFINE at == [p \in ToSet(Usable) |-> CHOOSE k \in DOMAIN Usable : Usable[k] = p]
    <3>5. page_init.link
            = [p \in Pages |-> IF p \in ToSet(Front(Usable)) THEN Usable[at[p] + 1] ELSE NULL]
      BY DEF page_init
    <3> HIDE DEF at
    <3>6. \A p \in Pages : page_init.link[p] \in Pages \cup {NULL}
      BY <3>3, <3>4, <3>5
    <3> QED
      BY <3>1, <3>4, <3>5, <3>6
  <2> QED
    BY <2>1, <2>2, <2>3 DEF Bare, Memory
<1>4. FreePgs(Bare, {}) = InUse
  BY <1>1, Facts DEF FreePgs
<1>5. Alloc(Bare, {})
  <2>1. {Usable[i] : i \in 1..Len(Usable)} = FreePgs(Bare, {})
    BY <1>4, UsableFacts
  <2> QED
    BY <1>1, <1>2, <1>3, <2>1 DEF Alloc
<1>6. ASSUME NEW p \in Pages PROVE Refs(Bare, p) = 0
  <2>1. Mappings(Bare, p) = {}
    BY <1>1 DEF Mappings, NoEntries, Empty
  <2>2. Tables(Bare, p) = {} /\ Roots(Bare, p) = {}
    BY <1>1, Facts DEF Tables, Roots, NoTables
  <2>3. Cardinality({}) = 0
    BY FS_EmptySet
  <2> QED
    BY <2>1, <2>2, <2>3 DEF Refs
<1>7. Counted(Bare) /\ OutOfUse(Bare)
  BY <1>1, <1>6, Facts DEF Counted, OutOfUse
<1>8. Spaces(Bare) /\ Tabled(Bare)
  <2>1. ~Empty.p
    BY DEF Empty
  <2> QED
    BY <1>1, <2>1, Facts DEF Spaces, Tabled, NoTables, NoEntries
<1> QED
  BY <1>4, <1>5, <1>7, <1>8 DEF Good

-----------------------------------------------------------------------------
(* The inductive invariant: no page is in hand between two calls, what is  *)
(* mapped has a table, and one more unmapping of nothing does not bring    *)
(* the count of page 0 to zero.                                            *)
Inv == Good(mem, {}) /\ Tabled(mem) /\ mem.ref[Page0] # 1

LEMMA InvInit == Init => Inv
<1> SUFFICES ASSUME Init PROVE Inv
  OBVIOUS
<1> DEFINE b == Bare
           s == env_setup_vm(b, Boot)
           a == page_alloc(s)
<1>1. PICK image \in VAs : mem = Load(s, Boot, image)
  BY DEF Init
<1>2. /\ Good(b, {}) /\ Tabled(b) /\ FreePgs(b, {}) = InUse /\ b.root[Boot] = None
      /\ Boot \in Envs /\ b.dropped = {} /\ b.ref = [p \in Pages |-> 0]
  BY BareGood, PhysMemAssumption DEF Bare
<1>3. PICK x, y, z \in InUse : x # y /\ y # z /\ x # z
  <2>1. 1 \in 1..Len(Usable) /\ 2 \in 1..Len(Usable) /\ 3 \in 1..Len(Usable)
    BY UsableFacts
  <2>2. Usable[1] \in InUse /\ Usable[2] \in InUse /\ Usable[3] \in InUse
    BY <2>1, UsableFacts
  <2>3. Usable[1] # Usable[2] /\ Usable[2] # Usable[3] /\ Usable[1] # Usable[3]
    BY <2>1, UsableFacts
  <2> QED
    BY <2>2, <2>3
<1> HIDE DEF b
<1>4. CanAlloc(b)
  BY <1>2, <1>3, FreeCanAlloc DEF Good
<1>5. /\ Good(s, {}) /\ Tabled(s) /\ Frame(b, s)
      /\ CountSet(b, s, b.head, s.ref[b.head]) /\ b.head \in InUse
  BY <1>2, <1>4, SetupGood
<1> HIDE DEF s
<1>6. s.dropped = {} /\ \A p \in Pages : p # b.head => s.ref[p] = 0
  BY <1>2, <1>5 DEF Frame, CountSet
<1>7. InUse \ {b.head} \subseteq FreePgs(s, {})
  BY <1>6, Facts DEF FreePgs
<1>8. CanAlloc(s)
  <2>1. FreePgs(s, {}) # {}
    BY <1>3, <1>7
  <2> QED
    BY <1>5, <2>1, FreeCanAlloc DEF Good
<1>9. Good(a, {} \cup {s.head}) /\ a.ref = s.ref /\ SameSpaces(s, a)
  BY <1>5, <1>8, PageAllocGood
<1> HIDE DEF a
<1>10. InUse \ {b.head, s.head} \subseteq FreePgs(a, {} \cup {s.head})
  BY <1>6, <1>9, Facts DEF FreePgs, SameSpaces
<1>11. CanAlloc(a)
  <2>1. FreePgs(a, {} \cup {s.head}) # {}
    BY <1>3, <1>10
  <2> QED
    BY <1>9, <2>1, FreeCanAlloc DEF Good
<1>12. CanWalk(page_alloc(s), Boot, image)
  BY <1>11 DEF CanWalk, a
<1>13. Good(mem, {}) /\ Tabled(mem)
  BY <1>1, <1>2, <1>5, <1>8, <1>12, LoadGood
<1>14. mem.ref[Page0] # 1
  <2>1. a.ref[Page0] = 0
    BY <1>2, <1>5, <1>6, <1>9, Facts
  <2>2. Good(a, {s.head}) /\ Room(a, {s.head}, s.head) /\ s.head \in InUse
    <3>1. {} \cup {s.head} = {s.head}
      OBVIOUS
    <3> QED
      BY <1>5, <1>8, <1>9, <3>1, PageAllocGood DEF Room
  <2>3. Tabled(a)
    BY <1>5, <1>9 DEF Tabled, HasTable, SameSpaces
  <2>4. mem = page_insert(a, Boot, image, s.head)
    BY <1>1 DEF Load, a
  <2>5. CanWalk(a, Boot, image)
    BY <1>11 DEF CanWalk
  <2>6. Frame(a, mem)
    BY <1>2, <2>2, <2>3, <2>4, <2>5, InsertGood
  <2> QED
    BY <2>1, <2>6 DEF Frame
<1> QED
  BY <1>13, <1>14 DEF Inv

(* What Becomes adds: the count of page 0 stays away from 1.               *)
LEMMA BecomesInv ==
    ASSUME NEW m, Becomes(m), m \in Memory
    PROVE  mem' = m /\ m.ref[Page0] # 1
<1>1. mem' = m /\ (-m.ref[Page0]) % RefMod <= MaxNull
  BY DEF Becomes
<1>2. RefMod \in Nat /\ RefMod > 2 /\ MaxNull \in Nat /\ MaxNull <= RefMod - 2
  BY PhysMemAssumption, Facts
<1>3. (-1) % RefMod = RefMod - 1
  BY <1>2
<1>4. m.ref[Page0] # 1
  BY <1>1, <1>2, <1>3
<1> QED
  BY <1>1, <1>4

LEMMA InvNext == Inv /\ [Next]_mem => Inv'
<1> SUFFICES ASSUME Inv, [Next]_mem PROVE Inv'
  OBVIOUS
<1>1. Good(mem, {}) /\ Tabled(mem) /\ mem.ref[Page0] # 1 /\ mem \in Memory
  BY DEF Inv, Good, Alloc
<1>2. ASSUME NEW m, Becomes(m), Good(m, {}), Tabled(m) PROVE Inv'
  <2>1. m \in Memory
    BY <1>2 DEF Good, Alloc
  <2>2. mem' = m /\ m.ref[Page0] # 1
    BY <1>2, <2>1, BecomesInv
  <2> QED
    BY <1>2, <2>2 DEF Inv
<1>3. CASE UNCHANGED mem
  BY <1>3 DEF Inv
<1>4. ASSUME NEW c \in Envs, NEW e \in Envs, sys_exofork(c, e) PROVE Inv'
  <2>1. mem.root[e] = None /\ CanAlloc(mem) /\ Becomes(env_setup_vm(mem, e))
    BY <1>4 DEF sys_exofork, Exists
  <2>2. Good(env_setup_vm(mem, e), {}) /\ Tabled(env_setup_vm(mem, e))
    BY <1>1, <2>1, SetupGood
  <2> QED
    BY <1>2, <2>1, <2>2
<1>5. ASSUME NEW c \in Envs, NEW e \in Envs, PageAllocInvalid(c, e) PROVE Inv'
  <2> DEFINE m == [page_alloc(mem) EXCEPT !.dropped = @ \cup {mem.head}]
  <2>1. CanAlloc(mem) /\ Becomes(m)
    BY <1>5 DEF PageAllocInvalid
  <2>2. Good(m, {}) /\ Tabled(m)
    BY <1>1, <2>1, DropGood
  <2> HIDE DEF m
  <2> QED
    BY <1>2, <2>1, <2>2
<1>6. ASSUME NEW c \in Envs, NEW e \in Envs, env_destroy(c, e) PROVE Inv'
  <2> DEFINE m == env_free(mem, e)
  <2>1. mem.root[e] # None /\ Becomes(m)
    BY <1>6 DEF env_destroy, MayControl, Exists
  <2>3. Good(m, {}) /\ Tabled(m)
    BY <1>1, <2>1, EnvFreeGood
  <2> HIDE DEF m
  <2> QED
    BY <1>2, <2>1, <2>3
<1>7. ASSUME NEW c \in Envs, NEW e \in Envs, NEW va \in VAs, sys_page_unmap(c, e, va) PROVE Inv'
  <2>1. Becomes(page_remove(mem, e, va))
    BY <1>7 DEF sys_page_unmap
  <2>2. Good(page_remove(mem, e, va), {}) /\ Tabled(page_remove(mem, e, va))
    BY <1>1, UnmapGood
  <2> QED
    BY <1>2, <2>1, <2>2
<1>8. ASSUME NEW c \in Envs, NEW e \in Envs, NEW va \in VAs, sys_page_alloc(c, e, va) PROVE Inv'
  <2>1. CASE CanWalk(page_alloc(mem), e, va)
    <3>1. CanAlloc(mem) /\ Becomes(Load(mem, e, va))
      BY <1>8, <2>1 DEF sys_page_alloc, Load
    <3>2. Good(Load(mem, e, va), {}) /\ Tabled(Load(mem, e, va))
      BY <1>1, <2>1, <3>1, LoadGood
    <3> QED
      BY <1>2, <3>1, <3>2
  <2>2. CASE ~CanWalk(page_alloc(mem), e, va)
    <3> DEFINE m == page_free(page_alloc(mem), mem.head)
    <3>1. CanAlloc(mem) /\ Becomes(m)
      BY <1>8, <2>2 DEF sys_page_alloc
    <3>2. Good(m, {}) /\ Tabled(m)
      BY <1>1, <3>1, GiveBackGood
    <3> HIDE DEF m
    <3> QED
      BY <1>2, <3>1, <3>2
  <2> QED
    BY <2>1, <2>2
<1>9. ASSUME NEW s \in Envs, NEW e \in Envs, NEW va \in VAs, NEW dst \in VAs,
             Mapped(s, va), Transfer(s, va, e, dst), NoneFull
      PROVE  Inv'
  <2> DEFINE m == page_insert(mem, e, dst, page_lookup(mem, s, va))
  <2>1. mem.pte[s][va].p /\ CanWalk(mem, e, dst) /\ Becomes(m)
    BY <1>9 DEF Mapped, Transfer
  <2>2. mem.ref[page_lookup(mem, s, va)] < RefMod - 1
    <3>1. mem.pte[s][va] # Empty
      BY <2>1 DEF Empty
    <3>2. mem.pte[s][va].page \in Pages \ {Page0}
      BY <1>1, <3>1, Facts DEF Good, Spaces
    <3> QED
      BY <1>9, <3>2 DEF NoneFull, page_lookup
  <2>3. Good(m, {}) /\ Tabled(m)
    BY <1>1, <2>1, <2>2, TransferGood
  <2> HIDE DEF m
  <2> QED
    BY <1>2, <2>1, <2>3
<1>10. ASSUME NEW c \in Envs, NEW e \in Envs, Calls(c, e), NoneFull PROVE Inv'
  <2>1. CASE \E va, dst \in VAs : Mapped(c, va) /\ sys_ipc_try_send(c, e, va, dst)
    BY <1>9, <1>10, <2>1 DEF sys_ipc_try_send
  <2>2. CASE \E d \in Envs, va, dst \in VAs : Mapped(e, va) /\ sys_page_map(c, e, va, d, dst)
    BY <1>9, <1>10, <2>2 DEF sys_page_map
  <2>3. CASE \E va \in VAs : sys_page_unmap(c, e, va) \/ sys_page_alloc(c, e, va)
    BY <1>7, <1>8, <2>3
  <2> QED
    BY <1>4, <1>5, <1>6, <1>10, <2>1, <2>2, <2>3 DEF Calls
<1> QED
  BY <1>3, <1>10 DEF Next, Other

(* The pages in use, those on the free list and those the code has lost    *)
(* are apart after every system call, and each is counted exactly.         *)
THEOREM Invariance == Spec => []Inv
<1> QED
  BY InvInit, InvNext, PTL DEF Spec

-----------------------------------------------------------------------------
(* What the system calls leave in memory is always well formed: every      *)
(* link, count, table and entry is of its type.                            *)
THEOREM TypeCorrect == Spec => []TypeOK
<1>1. Inv => TypeOK
  BY DEF Inv, Good, Alloc, TypeOK
<1> QED
  BY <1>1, Invariance, PTL

(* The reference count of every page but page 0 is the number of page      *)
(* tables, roots and entries that refer to it, and of those env_free left  *)
(* behind, after any sequence of system calls of programs that map what    *)
(* they have.                                                              *)
THEOREM CountsExact == Spec => []RefsExact
<1>1. Inv => RefsExact
  <2> SUFFICES ASSUME Inv, NEW p \in Pages \ {Page0}
               PROVE  mem.ref[p] = Refs(mem, p) + mem.lost[p]
    BY DEF RefsExact
  <2>1. Good(mem, {})
    BY DEF Inv
  <2>2. CASE p \in InUse
    BY <2>1, <2>2 DEF Good, Counted
  <2>3. CASE p \notin InUse
    <3>1. mem.ref[p] = 0 /\ mem.lost[p] = 0
      BY <2>1, <2>3 DEF Good, OutOfUse
    <3>2. Mappings(mem, p) = {}
      <4>1. \A e \in Envs, va \in VAs : mem.pte[e][va].p => mem.pte[e][va].page # p
        <5>1. ~Empty.p
          BY DEF Empty
        <5> QED
          BY <2>1, <2>3, <5>1 DEF Good, Spaces
      <4> QED
        BY <4>1 DEF Mappings
    <3>3. Tables(mem, p) = {} /\ Roots(mem, p) = {}
      BY <2>1, <2>3, Facts DEF Good, Spaces, Tables, Roots
    <3>4. Cardinality({}) = 0
      BY FS_EmptySet
    <3> QED
      BY <3>1, <3>2, <3>3, <3>4 DEF Refs
  <2> QED
    BY <2>2, <2>3
<1> QED
  BY <1>1, Invariance, PTL

(* The links of the free list lead to every page that is not referred to   *)
(* and was not dropped, and to each of them once.                          *)
THEOREM ListExact == Spec => []FreeExact
<1>1. Inv => FreeExact
  BY AllocFreeExact DEF Inv, Good
<1> QED
  BY <1>1, Invariance, PTL

(* page_free never finds a page that is linked or referred to.             *)
THEOREM NoDoubleFree == Spec => []NeverPanics
<1>1. Inv => NeverPanics
  BY DEF Inv, Good, Alloc, NeverPanics
<1> QED
  BY <1>1, Invariance, PTL

(* As long as programs map and send only what they have, no address ever   *)
(* shows physical page 0.                                                  *)
THEOREM Page0Private == Spec => []Page0Unmapped
<1>1. Inv => Page0Unmapped
  <2> SUFFICES ASSUME Inv PROVE Mappings(mem, Page0) = {}
    BY DEF Page0Unmapped
  <2>1. \A e \in Envs, va \in VAs : mem.pte[e][va].p => mem.pte[e][va].page # Page0
    <3>1. ~Empty.p
      BY DEF Empty
    <3> QED
      BY <3>1, Facts DEF Inv, Good, Spaces
  <2> QED
    BY <2>1 DEF Mappings
<1> QED
  BY <1>1, Invariance, PTL
=============================================================================

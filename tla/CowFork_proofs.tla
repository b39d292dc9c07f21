-------------------------- MODULE CowFork_proofs --------------------------
(***************************************************************************)
(* Proofs about CowFork for any number of environments, addresses and      *)
(* pages.                                                                  *)
(***************************************************************************)
EXTENDS CowFork, TLAPS

(* The child that fork makes is an embryo, and its parent is the only one  *)
(* that makes it.                                                          *)
Kids ==
    /\ \A e \in Envs : pc[e] \in Forking => kid[e] \in Envs /\ pc[kid[e]] = "embryo"
    /\ \A e, f \in Envs :
          pc[e] \in Forking /\ pc[f] \in Forking /\ kid[e] = kid[f] => e = f

(* Environments that run have all their memory, others cannot write any.   *)
Table(e, va) ==
    /\ pc[e] \in Alive => pte[e][va] # None
    /\ pc[e] = "none" => pte[e][va] = None
    /\ pte[e][va] # None =>
          /\ pte[e][va].perm = "SHARE" <=> va = Shared
          /\ pc[e] = "embryo" => pte[e][va].perm # "W"

Tables == \A e \in Envs, va \in VAs : Table(e, va)

(* How far fork has come: what the child has, and which kind of page is    *)
(* being duplicated.                                                       *)
Turn(e) ==
    /\ \A i \in 1..Len(Order) :
          i < at[e] \/ (i = at[e] /\ pc[e] \in {"self", "start"})
          => pte[kid[e]][Order[i]] # None
    /\ pc[e] = "start" => at[e] = Len(Order)
    /\ pc[e] = "child" => (entry[e] = "SHARE" <=> Order[at[e]] = Shared)
    /\ pc[e] = "self" => Order[at[e]] # Shared

Progress == \A e \in Envs : pc[e] \in Forking => Turn(e)

(* The page of the handler is its own until it is mapped in place.         *)
TempOf(e) ==
    /\ fault[e] # None => pc[e] \in Alive /\ fault[e].va # Shared
    /\ tmp[e] # None <=> fault[e] # None /\ fault[e].step # "alloc"
    /\ \A f \in Envs : f # e /\ tmp[e] # None => tmp[f] # tmp[e]
    /\ \A f \in Envs, va \in VAs :
          tmp[e] # None /\ pte[f][va] # None /\ pte[f][va].page = tmp[e]
          => f = e /\ va = fault[e].va /\ fault[e].step = "unmap"

Temp == \A e \in Envs : TempOf(e)

(* A page that can be written is mapped once, but for the window.          *)
Once(e, va, f, vb) ==
    /\ pte[e][va] # None /\ pte[e][va].perm = "W"
    /\ pte[f][vb] # None /\ pte[f][vb].page = pte[e][va].page
    => \/ e = f /\ va = vb
       \/ Window(e, va) /\ f = kid[e] /\ pc[f] = "embryo" /\ vb = va

Alone == \A e, f \in Envs : \A va, vb \in VAs : Once(e, va, f, vb)

IInv == TypeOK /\ Kids /\ Tables /\ Progress /\ Temp /\ Alone

(* The loop has at least one address, and all its addresses are mapped.    *)
LEMMA OrderFacts ==
    /\ Len(Order) \in Nat /\ 1 \in 1..Len(Order)
    /\ \A i \in 1..Len(Order) : Order[i] \in VAs
    /\ \A va \in VAs : \E i \in 1..Len(Order) : va = Order[i]
BY CowForkAssumption DEF VAs, Private

(* What the actions need of the values: absent is not an entry or a fault. *)
LEMMA NotNone ==
    /\ None \notin Pages
    /\ \A p \in Pages, perm \in Perms : [page |-> p, perm |-> perm] # None
    /\ \A va \in VAs, step \in Handling : [va |-> va, step |-> step] # None
BY CowForkAssumption

(* The invariant holds at the start.                                       *)
LEMMA InitInv == Init => IInv
<1> SUFFICES ASSUME Init PROVE IInv
  OBVIOUS
<1>1. TypeOK
  BY CowForkAssumption, OrderFacts DEF Init, Unmapped, TypeOK, Perms, Alive
<1>2. Kids
  BY DEF Init, Kids, Forking
<1>3. Tables
  BY CowForkAssumption DEF Init, Unmapped, Tables, Table, Perms, Alive, Forking
<1>4. Progress
  BY DEF Init, Progress, Turn
<1>5. Temp
  BY DEF Init, Temp, TempOf
<1>6. Alone
  BY DEF Init, Unmapped, Alone, Once
<1>7. QED
  BY <1>1, <1>2, <1>3, <1>4, <1>5, <1>6 DEF IInv

(* What a mapped entry is.                                                 *)
LEMMA EntryFacts ==
    ASSUME TypeOK, NEW e \in Envs, NEW va \in VAs, pte[e][va] # None
    PROVE  /\ pte[e][va] = [page |-> pte[e][va].page, perm |-> pte[e][va].perm]
           /\ pte[e][va].page \in Pages /\ pte[e][va].perm \in Perms
BY DEF TypeOK

(* A step changes one entry, to a mapping of page p.                       *)
Sets(e, va, p, perm) ==
    /\ pte' \in [Envs -> [VAs -> [page : Pages, perm : Perms] \cup {None}]]
    /\ pte'[e][va] # None /\ pte'[e][va].page = p /\ pte'[e][va].perm = perm
    /\ \A f \in Envs, vb \in VAs : f # e \/ vb # va => pte'[f][vb] = pte[f][vb]

(* So does an assignment to it.                                            *)
LEMMA OneEntry ==
    ASSUME TypeOK, NEW e \in Envs, NEW va \in VAs, NEW p \in Pages, NEW perm \in Perms,
           pte' = [pte EXCEPT ![e] = [pte[e] EXCEPT ![va] = [page |-> p, perm |-> perm]]]
    PROVE  Sets(e, va, p, perm)
<1>1. [page |-> p, perm |-> perm] \in [page : Pages, perm : Perms]
  OBVIOUS
<1>2. pte' \in [Envs -> [VAs -> [page : Pages, perm : Perms] \cup {None}]]
  BY <1>1 DEF TypeOK
<1>3. pte'[e][va] = [page |-> p, perm |-> perm]
  BY DEF TypeOK
<1>4. \A f \in Envs, vb \in VAs : f # e \/ vb # va => pte'[f][vb] = pte[f][vb]
  BY DEF TypeOK
<1>5. QED
  BY <1>2, <1>3, <1>4, NotNone DEF Sets

(* The environment in a loop of fork is at an address that it has mapped.  *)
LEMMA AtFacts ==
    ASSUME IInv, NEW e \in Envs, pc[e] \in Forking
    PROVE  /\ at[e] \in 1..Len(Order) /\ Order[at[e]] \in VAs
           /\ pte[e][Order[at[e]]] # None
           /\ at[e] < Len(Order) => at[e] + 1 \in 1..Len(Order)
           /\ kid[e] \in Envs /\ kid[e] # e
<1>1. at[e] \in 1..Len(Order) /\ pc[e] \in Alive
  BY DEF IInv, TypeOK, Alive
<1>2. QED
  BY <1>1, OrderFacts DEF IInv, Tables, Table, Kids, Forking

(* The new child has nothing mapped and is nobody else's.                  *)
LEMMA ExoforkInv == ASSUME IInv, NEW e \in Envs, sys_exofork(e) PROVE IInv'
<1>1. PICK c \in Envs : /\ pc[c] = "none" /\ c # e
                        /\ pc' = [pc EXCEPT ![e] = "read", ![c] = "embryo"]
                        /\ kid' = [kid EXCEPT ![e] = c]
  BY DEF sys_exofork
<1>2. /\ at' = [at EXCEPT ![e] = 1] /\ pc[e] = "run" /\ fault[e] = None
      /\ UNCHANGED <<pte, tmp, frame, entry, fault>>
  BY DEF sys_exofork, Running
<1>3. \A f \in Envs : fault[f] # None => f # e /\ f # c
  BY <1>1, <1>2 DEF IInv, Temp, TempOf, Alive, Forking
<1>4. TypeOK'
  BY <1>1, <1>2, <1>3 DEF IInv, TypeOK, Alive, Forking
<1>5. Kids'
  BY <1>1, <1>2, <1>3 DEF IInv, TypeOK, Kids, Forking
<1>6. Tables'
  BY <1>1, <1>2, <1>3 DEF IInv, TypeOK, Tables, Table, Alive, Forking
<1>7. Progress'
  BY <1>1, <1>2, <1>3 DEF IInv, TypeOK, Progress, Turn, Forking
<1>8. Temp'
  BY <1>1, <1>2, <1>3 DEF IInv, TypeOK, Temp, TempOf
<1>9. Alone'
  BY <1>1, <1>2, <1>3 DEF IInv, TypeOK, Alone, Once, Window
<1>10. QED
  BY <1>4, <1>5, <1>6, <1>7, <1>8, <1>9 DEF IInv

(* What is read is the permission of a mapped page.                        *)
LEMMA ReadEntryInv == ASSUME IInv, NEW e \in Envs, ReadEntry(e) PROVE IInv'
<1>1. pc[e] = "read" /\ pc[e] \in Forking /\ fault[e] = None
  BY DEF ReadEntry, Running, Forking
<1>2. at[e] \in 1..Len(Order) /\ Order[at[e]] \in VAs /\ pte[e][Order[at[e]]] # None
  BY <1>1, AtFacts
<1>3. pte[e][Order[at[e]]].perm \in Perms
  BY <1>2, EntryFacts DEF IInv
<1>4. TypeOK'
  BY <1>2, <1>3 DEF IInv, ReadEntry, TypeOK, Alive, Forking
<1>5. Kids'
  BY <1>1, <1>2, <1>3 DEF IInv, ReadEntry, TypeOK, Kids
<1>6. Tables'
  BY <1>2, <1>3 DEF IInv, ReadEntry, TypeOK, Tables, Table
<1>7. Progress'
  BY <1>1, <1>2, <1>3 DEF IInv, ReadEntry, TypeOK, Tables, Table, Progress, Turn
<1>8. Temp'
  BY <1>1, <1>2, <1>3 DEF IInv, ReadEntry, TypeOK, Temp, TempOf
<1>9. Alone'
  BY <1>2, <1>3 DEF IInv, ReadEntry, TypeOK, Alone, Once, Window
<1>10. QED
  BY <1>4, <1>5, <1>6, <1>7, <1>8, <1>9 DEF IInv

(* The child has no page that it can write, and its parent is in the       *)
(* window when the page is one that the parent can write.                  *)
LEMMA MapChildInv == ASSUME IInv, NEW e \in Envs, MapChild(e) PROVE IInv'
<1>1. pc[e] = "child" /\ pc[e] \in Forking /\ fault[e] = None
  BY DEF MapChild, Running, Forking
<1>2. PICK va \in VAs, k \in Envs :
         /\ va = Order[at[e]] /\ pte[e][va] # None
         /\ k = kid[e] /\ k # e /\ pc[k] = "embryo"
  BY <1>1, AtFacts DEF IInv, Kids
<1>0. PICK p \in Pages : p = pte[e][va].page
  BY <1>2, EntryFacts DEF IInv
<1>3. NewPerm(entry[e]) \in Perms \ {"W"} /\ (NewPerm(entry[e]) = "SHARE" <=> va = Shared)
  BY <1>1, <1>2 DEF IInv, Progress, Turn, NewPerm, Perms
<1>4. Sets(k, va, p, NewPerm(entry[e]))
  <2>1. pte' = [pte EXCEPT ![k] = [pte[k] EXCEPT ![va] =
                   [page |-> p, perm |-> NewPerm(entry[e])]]]
    BY <1>0, <1>2 DEF MapChild
  <2>2. NewPerm(entry[e]) \in Perms
    BY <1>3
  <2>3. TypeOK
    BY DEF IInv
  <2>4. QED
    BY <2>1, <2>2, <2>3, OneEntry
<1>5. PICK j \in 1..Len(Order), here \in {"self", "read", "start"} :
         /\ at' = [at EXCEPT ![e] = j] /\ pc' = [pc EXCEPT ![e] = here]
         /\ here = "self" => j = at[e]
         /\ here = "self" <=> va # Shared
         /\ here = "read" => j = at[e] + 1
         /\ here = "start" => j = at[e] /\ j = Len(Order)
  <2>1. at[e] \in 1..Len(Order) /\ (at[e] < Len(Order) => at[e] + 1 \in 1..Len(Order))
    BY <1>1, AtFacts
  <2>2. at = [at EXCEPT ![e] = at[e]]
    BY DEF IInv, TypeOK
  <2>3. CASE va = Shared /\ at[e] < Len(Order)
    BY <1>3, <2>1, <2>3 DEF MapChild, NextPage
  <2>4. CASE va = Shared /\ at[e] = Len(Order)
    BY <1>3, <2>1, <2>2, <2>4 DEF MapChild, NextPage
  <2>5. CASE va # Shared
    BY <1>3, <2>1, <2>2, <2>5 DEF MapChild, NextPage, Perms
  <2>6. QED
    BY <2>1, <2>3, <2>4, <2>5
<1>6. UNCHANGED <<tmp, frame, entry, kid, fault>>
  BY DEF MapChild
<1>7. TypeOK'
  BY <1>0, <1>2, <1>3, <1>4, <1>5, <1>6 DEF IInv, Sets, TypeOK, Alive, Forking
<1>8. Kids'
  BY <1>0, <1>1, <1>2, <1>3, <1>4, <1>5, <1>6 DEF IInv, Sets, TypeOK, Kids
<1>9. Tables'
  BY <1>0, <1>1, <1>2, <1>3, <1>4, <1>5, <1>6 DEF IInv, Sets, TypeOK, Tables, Table
<1>10. Progress'
  BY <1>0, <1>1, <1>2, <1>3, <1>4, <1>5, <1>6, OrderFacts DEF IInv, Sets, TypeOK,
     Kids, Progress, Turn
<1>11. Temp'
  <2> SUFFICES ASSUME NEW f \in Envs PROVE TempOf(f)'
    BY DEF Temp, TempOf
  <2>1. TempOf(f) /\ TempOf(e)
    BY DEF IInv, Temp, TempOf
  <2>2. fault'[f] # None => pc'[f] \in Alive /\ fault'[f].va # Shared
    BY <1>1, <1>5, <1>6, <2>1 DEF TempOf, IInv, TypeOK
  <2>3. ASSUME NEW g \in Envs, NEW vb \in VAs,
               tmp'[f] # None, pte'[g][vb] # None, pte'[g][vb].page = tmp'[f]
        PROVE  g = f /\ vb = fault'[f].va /\ fault'[f].step = "unmap"
    <3>1. CASE g = k /\ vb = va
      <4>1. pte[e][va].page = tmp[f] /\ tmp[f] # None
        BY <1>0, <1>4, <1>6, <2>3, <3>1 DEF Sets
      <4>2. f = e
        BY <1>2, <2>1, <4>1 DEF TempOf
      <4>3. QED
        BY <1>1, <2>1, <4>1, <4>2 DEF TempOf
    <3>2. CASE g # k \/ vb # va
      <4>1. pte'[g][vb] = pte[g][vb]
        BY <1>4, <3>2 DEF Sets
      <4>2. QED
        BY <1>6, <2>1, <2>3, <4>1 DEF TempOf
    <3>3. QED
      BY <3>1, <3>2
  <2>4. QED
    BY <1>6, <2>1, <2>2, <2>3 DEF TempOf
<1>12. Alone'
  <2> SUFFICES ASSUME NEW x \in Envs, NEW vx \in VAs, NEW y \in Envs, NEW vy \in VAs,
                      pte'[x][vx] # None, pte'[x][vx].perm = "W",
                      pte'[y][vy] # None, pte'[y][vy].page = pte'[x][vx].page
               PROVE  \/ x = y /\ vx = vy
                      \/ Window(x, vx)' /\ y = kid'[x] /\ pc'[y] = "embryo" /\ vy = vx
    BY DEF Alone, Once
  <2>1. pte'[x][vx] = pte[x][vx]
    BY <1>3, <1>4 DEF Sets
  <2>2. CASE y = k /\ vy = va
    <3>1. Once(x, vx, e, va) /\ pte[e][va].page = pte[x][vx].page
      BY <1>0, <1>4, <2>1, <2>2 DEF Sets, IInv, Alone, Once
    <3>2. pc[e] # "embryo"
      BY <1>1
    <3>3. x = e /\ vx = va
      BY <1>2, <2>1, <3>1, <3>2 DEF Once
    <3>4. va # Shared
      BY <1>2, <2>1, <3>3 DEF IInv, Tables, Table
    <3>5. pc'[e] = "self" /\ at'[e] = at[e] /\ pc'[k] = "embryo"
      BY <1>2, <1>5, <3>4 DEF IInv, TypeOK
    <3>6. QED
      BY <1>2, <1>6, <2>2, <3>3, <3>5 DEF Window
  <2>3. CASE y # k \/ vy # va
    <3>1. Once(x, vx, y, vy) /\ pte'[y][vy] = pte[y][vy]
      BY <1>4, <2>3 DEF Sets, IInv, Alone, Once
    <3>2. CASE Window(x, vx) /\ y = kid[x] /\ pc[y] = "embryo" /\ vy = vx
      <4>1. x # e /\ y # e
        BY <1>1, <3>2 DEF Window
      <4>2. QED
        BY <1>5, <1>6, <3>2, <4>1 DEF Window, IInv, TypeOK
    <3>3. QED
      BY <2>1, <3>1, <3>2 DEF Once
  <2>4. QED
    BY <2>2, <2>3
<1>13. QED
  BY <1>7, <1>8, <1>9, <1>10, <1>11, <1>12 DEF IInv

(* Both mappings are copy-on-write at the end of the window.               *)
LEMMA MapSelfInv == ASSUME IInv, NEW e \in Envs, MapSelf(e) PROVE IInv'
<1>1. pc[e] = "self" /\ pc[e] \in Forking /\ fault[e] = None
  BY DEF MapSelf, Running, Forking
<1>2. PICK va \in VAs, k \in Envs :
         /\ va = Order[at[e]] /\ pte[e][va] # None
         /\ k = kid[e] /\ k # e /\ pc[k] = "embryo"
  BY <1>1, AtFacts DEF IInv, Kids
<1>0. PICK p \in Pages : p = pte[e][va].page
  BY <1>2, EntryFacts DEF IInv
<1>3. va # Shared
  BY <1>1, <1>2 DEF IInv, Progress, Turn
<1>4. Sets(e, va, p, "COW")
  <2>1. pte[e][va] = [page |-> p, perm |-> pte[e][va].perm]
    BY <1>0, <1>2, EntryFacts DEF IInv
  <2>2. [pte[e][va] EXCEPT !.perm = "COW"] = [page |-> p, perm |-> "COW"]
    BY <2>1
  <2>3. pte' = [pte EXCEPT ![e] = [pte[e] EXCEPT ![va] = [page |-> p, perm |-> "COW"]]]
    BY <1>2, <2>2 DEF MapSelf
  <2>4. "COW" \in Perms
    BY DEF Perms
  <2>5. TypeOK
    BY DEF IInv
  <2>6. QED
    BY <2>3, <2>4, <2>5, OneEntry
<1>5. PICK j \in 1..Len(Order), here \in {"read", "start"} :
         /\ at' = [at EXCEPT ![e] = j] /\ pc' = [pc EXCEPT ![e] = here]
         /\ here = "read" => j = at[e] + 1
         /\ here = "start" => j = at[e] /\ j = Len(Order)
  <2>1. at[e] \in 1..Len(Order) /\ (at[e] < Len(Order) => at[e] + 1 \in 1..Len(Order))
    BY <1>1, AtFacts
  <2>2. at = [at EXCEPT ![e] = at[e]]
    BY DEF IInv, TypeOK
  <2>3. CASE at[e] < Len(Order)
    BY <2>1, <2>3 DEF MapSelf, NextPage
  <2>4. CASE at[e] = Len(Order)
    BY <2>1, <2>2, <2>4 DEF MapSelf, NextPage
  <2>5. QED
    BY <2>1, <2>3, <2>4, OrderFacts
<1>6. UNCHANGED <<tmp, frame, entry, kid, fault>>
  BY DEF MapSelf
<1>7. TypeOK'
  BY <1>0, <1>2, <1>3, <1>4, <1>5, <1>6 DEF IInv, Sets, TypeOK, Alive, Forking
<1>8. Kids'
  BY <1>0, <1>1, <1>2, <1>3, <1>4, <1>5, <1>6 DEF IInv, Sets, TypeOK, Kids
<1>9. Tables'
  BY <1>0, <1>1, <1>2, <1>3, <1>4, <1>5, <1>6 DEF IInv, Sets, TypeOK, Tables, Table
<1>10. Progress'
  <2> SUFFICES ASSUME NEW f \in Envs, pc'[f] \in Forking PROVE Turn(f)'
    BY DEF Progress, Turn
  <2>1. /\ pc[f] \in Forking /\ Turn(f) /\ f # k
        /\ kid[f] \in Envs /\ pc[kid[f]] = "embryo" /\ kid[f] # e
    BY <1>1, <1>2, <1>5 DEF IInv, TypeOK, Progress, Turn, Kids, Forking
  <2>2. \A vb \in VAs : pte'[kid[f]][vb] = pte[kid[f]][vb]
    BY <1>4, <2>1 DEF Sets
  <2>3. CASE f = e
    <3>1. \A i \in 1..Len(Order) : i < j => pte[kid[e]][Order[i]] # None
      BY <1>1, <1>5, <2>1, <2>3 DEF Turn, IInv, TypeOK
    <3>2. here = "start" => \A i \in 1..Len(Order) : pte[kid[e]][Order[i]] # None
      BY <1>1, <1>5, <2>1, <2>3 DEF Turn, IInv, TypeOK
    <3>3. pc'[e] = here /\ at'[e] = j /\ kid'[e] = kid[e]
      BY <1>5, <1>6 DEF IInv, TypeOK
    <3>4. QED
      BY <1>5, <2>2, <2>3, <3>1, <3>2, <3>3, OrderFacts DEF Turn
  <2>4. CASE f # e
    <3>1. pc'[f] = pc[f] /\ at'[f] = at[f] /\ entry'[f] = entry[f] /\ kid'[f] = kid[f]
      BY <1>5, <1>6, <2>4 DEF IInv, TypeOK
    <3>2. QED
      BY <2>1, <2>2, <3>1, OrderFacts DEF Turn
  <2>5. QED
    BY <2>3, <2>4
<1>11. Temp'
  <2> SUFFICES ASSUME NEW f \in Envs PROVE TempOf(f)'
    BY DEF Temp, TempOf
  <2>1. TempOf(f) /\ TempOf(e)
    BY DEF IInv, Temp, TempOf
  <2>2. fault'[f] # None => pc'[f] \in Alive /\ fault'[f].va # Shared
    BY <1>1, <1>5, <1>6, <2>1 DEF TempOf, IInv, TypeOK
  <2>3. ASSUME NEW g \in Envs, NEW vb \in VAs,
               tmp'[f] # None, pte'[g][vb] # None, pte'[g][vb].page = tmp'[f]
        PROVE  g = f /\ vb = fault'[f].va /\ fault'[f].step = "unmap"
    <3>1. CASE g = e /\ vb = va
      <4>1. pte[e][va].page = tmp[f] /\ tmp[f] # None
        BY <1>0, <1>4, <1>6, <2>3, <3>1 DEF Sets
      <4>2. f = e
        BY <1>2, <2>1, <4>1 DEF TempOf
      <4>3. QED
        BY <1>1, <2>1, <4>1, <4>2 DEF TempOf
    <3>2. CASE g # e \/ vb # va
      <4>1. pte'[g][vb] = pte[g][vb]
        BY <1>4, <3>2 DEF Sets
      <4>2. QED
        BY <1>6, <2>1, <2>3, <4>1 DEF TempOf
    <3>3. QED
      BY <3>1, <3>2
  <2>4. QED
    BY <1>6, <2>1, <2>2, <2>3 DEF TempOf
<1>12. Alone'
  BY <1>0, <1>1, <1>2, <1>3, <1>4, <1>5, <1>6 DEF IInv, Sets, TypeOK, Alone, Once,
     Window
<1>13. QED
  BY <1>7, <1>8, <1>9, <1>10, <1>11, <1>12 DEF IInv

(* A child that is started has everything mapped.                          *)
LEMMA StartInv == ASSUME IInv, NEW e \in Envs, Start(e) PROVE IInv'
<1>1. pc[e] = "start" /\ pc[e] \in Forking /\ fault[e] = None
  BY DEF Start, Running, Forking
<1>2. kid[e] \in Envs /\ kid[e] # e /\ pc[kid[e]] = "embryo"
  BY <1>1, AtFacts DEF IInv, Kids
<1>3. pc' = [pc EXCEPT ![e] = "run", ![kid[e]] = "run"] /\ kid' = [kid EXCEPT ![e] = None]
      /\ UNCHANGED <<pte, tmp, frame, at, entry, fault>>
  BY DEF Start
<1>4. \A va \in VAs : pte[kid[e]][va] # None
  BY <1>1, <1>2, OrderFacts DEF IInv, Progress, Turn
<1>5. \A f \in Envs : /\ pc[f] \in Forking /\ f # e => kid[f] # kid[e]
                      /\ fault[f] # None => f # kid[e]
  BY <1>1, <1>2 DEF IInv, Kids, Temp, TempOf, Alive, Forking
<1>6. TypeOK'
  BY <1>2, <1>3, <1>4, <1>5 DEF IInv, TypeOK, Alive
<1>7. Kids'
  BY <1>1, <1>2, <1>3, <1>4, <1>5 DEF IInv, TypeOK, Kids, Forking
<1>8. Tables'
  BY <1>1, <1>2, <1>3, <1>4, <1>5 DEF IInv, TypeOK, Tables, Table
<1>9. Progress'
  BY <1>2, <1>3, <1>4, <1>5 DEF IInv, TypeOK, Progress, Turn, Forking
<1>10. Temp'
  <2>1. ASSUME NEW f \in Envs, pc[f] \in Alive PROVE pc'[f] \in Alive
    BY <1>2, <1>3, <2>1 DEF IInv, TypeOK, Alive
  <2>2. ASSUME NEW f \in Envs PROVE TempOf(f)'
    <3>1. TempOf(f)
      BY DEF IInv, Temp
    <3>2. QED
      BY <1>3, <2>1, <3>1 DEF TempOf
  <2>3. QED
    BY <2>2 DEF Temp
<1>11. Alone'
  BY <1>1, <1>2, <1>3, <1>4, <1>5 DEF IInv, TypeOK, Alone, Once, Window, Forking
<1>12. QED
  BY <1>6, <1>7, <1>8, <1>9, <1>10, <1>11 DEF IInv

(* The handler goes from one of its steps to the next.                     *)
LEMMA HandlerStep ==
    ASSUME TypeOK, NEW e \in Envs, NEW from, NEW to \in Handling, InHandler(e, from, to)
    PROVE  /\ fault' = [fault EXCEPT ![e] = [va |-> fault[e].va, step |-> to]]
           /\ fault'[e] # None /\ fault'[e].va = fault[e].va /\ fault'[e].step = to
           /\ fault' \in [Envs -> [va : VAs, step : Handling] \cup {None}]
           /\ \A f \in Envs : f # e => fault'[f] = fault[f]
<1>1. fault[e] \in [va : VAs, step : Handling] /\ to # "done"
  BY DEF InHandler, TypeOK, Handling
<1>2. [fault[e] EXCEPT !.step = to] = [va |-> fault[e].va, step |-> to]
  BY <1>1
<1>3. fault' = [fault EXCEPT ![e] = [va |-> fault[e].va, step |-> to]]
  BY <1>1, <1>2 DEF InHandler
<1>4. [va |-> fault[e].va, step |-> to] \in [va : VAs, step : Handling]
  BY <1>1
<1>5. [va |-> fault[e].va, step |-> to] # None
  BY <1>1, NotNone
<1>6. QED
  BY <1>3, <1>4, <1>5 DEF TypeOK

(* A new page is not in use.                                               *)
LEMMA AllocTempInv == ASSUME IInv, NEW e \in Envs, AllocTemp(e) PROVE IInv'
<1>1. /\ fault[e] # None /\ fault[e].step = "alloc" /\ pc[e] \in Alive
      /\ fault[e].va \in VAs \ {Shared}
  BY DEF AllocTemp, InHandler, IInv, Temp, TempOf, TypeOK
<1>2. /\ fault' = [fault EXCEPT ![e] = [va |-> fault[e].va, step |-> "copy"]]
      /\ fault'[e] # None /\ fault'[e].va = fault[e].va /\ fault'[e].step = "copy"
      /\ fault' \in [Envs -> [va : VAs, step : Handling] \cup {None}]
      /\ \A f \in Envs : f # e => fault'[f] = fault[f]
  BY HandlerStep DEF AllocTemp, IInv, Handling
<1>3. PICK p \in Pages : /\ p \notin InUse /\ tmp' = [tmp EXCEPT ![e] = p]
                         /\ frame' = [frame EXCEPT ![p] = Zero]
  BY DEF AllocTemp
<1>4. UNCHANGED <<pte, pc, at, entry, kid>> /\ p # None /\ Zero \in Vals
  BY NotNone, CowForkAssumption DEF AllocTemp
<1>5. /\ \A f \in Envs : tmp[f] # p
      /\ \A f \in Envs, va \in VAs : pte[f][va] # None => pte[f][va].page # p
  <2>1. \A f \in Envs : tmp[f] \in InUse
    BY DEF InUse
  <2>2. \A x \in Envs \X VAs : pte[x[1]][x[2]] # None => pte[x[1]][x[2]].page \in InUse
    BY DEF InUse
  <2>3. \A f \in Envs, va \in VAs : pte[f][va] # None => pte[f][va].page \in InUse
    <3>1. ASSUME NEW f \in Envs, NEW va \in VAs, pte[f][va] # None
          PROVE  pte[f][va].page \in InUse
      <4>1. <<f, va>> \in Envs \X VAs /\ <<f, va>>[1] = f /\ <<f, va>>[2] = va
        OBVIOUS
      <4>2. QED
        BY <2>2, <3>1, <4>1
    <3>2. QED
      BY <3>1
  <2>4. QED
    BY <1>3, <2>1, <2>3
<1>6. TypeOK'
  BY <1>2, <1>3, <1>4, <1>5 DEF IInv, TypeOK
<1>7. Kids'
  BY <1>2, <1>3, <1>4, <1>5 DEF IInv, TypeOK, Kids
<1>8. Tables'
  BY <1>2, <1>3, <1>4, <1>5 DEF IInv, TypeOK, Tables, Table
<1>9. Progress'
  BY <1>2, <1>3, <1>4, <1>5 DEF IInv, TypeOK, Progress, Turn
<1>10. Temp'
  BY <1>1, <1>2, <1>3, <1>4, <1>5 DEF IInv, TypeOK, Temp, TempOf
<1>11. Alone'
  BY <1>2, <1>3, <1>4, <1>5 DEF IInv, TypeOK, Alone, Once, Window
<1>12. QED
  BY <1>6, <1>7, <1>8, <1>9, <1>10, <1>11 DEF IInv

(* Nothing but a frame changes.                                            *)
LEMMA CopyPageInv == ASSUME IInv, NEW e \in Envs, CopyPage(e) PROVE IInv'
<1>1. /\ fault[e] # None /\ fault[e].step = "copy" /\ pc[e] \in Alive
      /\ fault[e].va \in VAs \ {Shared}
  BY DEF CopyPage, InHandler, IInv, Temp, TempOf, TypeOK
<1>2. /\ fault' = [fault EXCEPT ![e] = [va |-> fault[e].va, step |-> "map"]]
      /\ fault'[e] # None /\ fault'[e].va = fault[e].va /\ fault'[e].step = "map"
      /\ fault' \in [Envs -> [va : VAs, step : Handling] \cup {None}]
      /\ \A f \in Envs : f # e => fault'[f] = fault[f]
  BY HandlerStep DEF CopyPage, IInv, Handling
<1>3. /\ UNCHANGED <<pte, tmp, pc, at, entry, kid>>
      /\ frame' = [frame EXCEPT ![tmp[e]] = frame[pte[e][fault[e].va].page]]
  BY DEF CopyPage
<1>4. pte[e][fault[e].va].page \in Pages
  BY <1>1, EntryFacts DEF IInv, Tables, Table
<1>5. frame' \in [Pages -> Vals]
  BY <1>3, <1>4 DEF IInv, TypeOK
<1>6. TypeOK'
  BY <1>2, <1>3, <1>5 DEF IInv, TypeOK
<1>7. Kids'
  BY <1>2, <1>3, <1>5 DEF IInv, TypeOK, Kids
<1>8. Tables'
  BY <1>2, <1>3, <1>5 DEF IInv, TypeOK, Tables, Table
<1>9. Progress'
  BY <1>2, <1>3, <1>5 DEF IInv, TypeOK, Progress, Turn
<1>10. Temp'
  BY <1>1, <1>2, <1>3, <1>5 DEF IInv, TypeOK, Temp, TempOf
<1>11. Alone'
  BY <1>2, <1>3, <1>5 DEF IInv, TypeOK, Alone, Once, Window
<1>12. QED
  BY <1>6, <1>7, <1>8, <1>9, <1>10, <1>11 DEF IInv

(* The page of the handler is mapped nowhere else.                         *)
LEMMA MapCopyInv == ASSUME IInv, NEW e \in Envs, MapCopy(e) PROVE IInv'
<1>1. /\ fault[e] # None /\ fault[e].step = "map" /\ pc[e] \in Alive
      /\ fault[e].va \in VAs \ {Shared}
  BY DEF MapCopy, InHandler, IInv, Temp, TempOf, TypeOK
<1>2. /\ fault' = [fault EXCEPT ![e] = [va |-> fault[e].va, step |-> "unmap"]]
      /\ fault'[e] # None /\ fault'[e].va = fault[e].va /\ fault'[e].step = "unmap"
      /\ fault' \in [Envs -> [va : VAs, step : Handling] \cup {None}]
      /\ \A f \in Envs : f # e => fault'[f] = fault[f]
  BY HandlerStep DEF MapCopy, IInv, Handling
<1>0. PICK va \in VAs \ {Shared} : va = fault[e].va
  BY <1>1
<1>3. UNCHANGED <<tmp, frame, pc, at, entry, kid>>
  BY DEF MapCopy
<1>4. /\ tmp[e] \in Pages /\ tmp[e] # None
      /\ \A f \in Envs : f # e => tmp[f] # tmp[e]
      /\ \A f \in Envs, vb \in VAs : pte[f][vb] # None => pte[f][vb].page # tmp[e]
  BY <1>1 DEF IInv, Temp, TempOf, TypeOK
<1>5. Sets(e, va, tmp[e], "W")
  <2>1. pte' = [pte EXCEPT ![e] = [pte[e] EXCEPT ![va] = [page |-> tmp[e], perm |-> "W"]]]
    BY <1>0 DEF MapCopy
  <2>2. QED
    BY <1>4, <2>1, OneEntry DEF IInv, Perms
<1>6. TypeOK'
  BY <1>0, <1>2, <1>3, <1>4, <1>5 DEF IInv, Sets, TypeOK
<1>7. Kids'
  BY <1>0, <1>2, <1>3, <1>4, <1>5 DEF IInv, Sets, TypeOK, Kids
<1>8. Tables'
  <2> SUFFICES ASSUME NEW f \in Envs, NEW vb \in VAs PROVE Table(f, vb)'
    BY DEF Tables, Table
  <2>1. CASE f = e /\ vb = va
    BY <1>0, <1>1, <1>3, <1>5, <2>1 DEF Table, Sets, Alive, Forking
  <2>2. CASE f # e \/ vb # va
    <3>1. Table(f, vb) /\ pte'[f][vb] = pte[f][vb]
      BY <1>5, <2>2 DEF Sets, IInv, Tables, Table
    <3>2. QED
      BY <1>3, <3>1 DEF Table
  <2>3. QED
    BY <2>1, <2>2
<1>9. Progress'
  <2> SUFFICES ASSUME NEW f \in Envs, pc'[f] \in Forking PROVE Turn(f)'
    BY DEF Progress, Turn
  <2>1. Turn(f) /\ kid[f] \in Envs /\ pc[kid[f]] = "embryo"
    BY <1>3 DEF IInv, Progress, Turn, Kids
  <2>2. kid[f] # e
    BY <1>1, <2>1 DEF Alive, Forking
  <2>3. \A vb \in VAs : pte'[kid[f]][vb] = pte[kid[f]][vb]
    BY <1>5, <2>1, <2>2 DEF Sets
  <2>4. QED
    BY <1>3, <2>1, <2>3, OrderFacts DEF Turn
<1>10. Temp'
  BY <1>0, <1>2, <1>3, <1>4, <1>5 DEF IInv, Sets, TypeOK, Temp, TempOf
<1>11. Alone'
  <2> SUFFICES ASSUME NEW x \in Envs, NEW vx \in VAs, NEW y \in Envs, NEW vy \in VAs,
                      pte'[x][vx] # None, pte'[x][vx].perm = "W",
                      pte'[y][vy] # None, pte'[y][vy].page = pte'[x][vx].page
               PROVE  \/ x = y /\ vx = vy
                      \/ Window(x, vx)' /\ y = kid'[x] /\ pc'[y] = "embryo" /\ vy = vx
    BY DEF Alone, Once
  <2>1. CASE x = e /\ vx = va
    BY <1>4, <1>5, <2>1 DEF Sets
  <2>2. CASE y = e /\ vy = va
    BY <1>4, <1>5, <2>2 DEF Sets
  <2>3. CASE (x # e \/ vx # va) /\ (y # e \/ vy # va)
    <3>1. Once(x, vx, y, vy) /\ pte'[x][vx] = pte[x][vx] /\ pte'[y][vy] = pte[y][vy]
      BY <1>5, <2>3 DEF Sets, IInv, Alone, Once
    <3>2. QED
      BY <1>3, <3>1 DEF Once, Window
  <2>4. QED
    BY <2>1, <2>2, <2>3
<1>12. QED
  BY <1>6, <1>7, <1>8, <1>9, <1>10, <1>11 DEF IInv

(* At the end the handler has no page of its own.                          *)
LEMMA UnmapTempInv == ASSUME IInv, NEW e \in Envs, UnmapTemp(e) PROVE IInv'
<1>1. /\ tmp' = [tmp EXCEPT ![e] = None] /\ fault' = [fault EXCEPT ![e] = None]
      /\ UNCHANGED <<pte, frame, pc, at, entry, kid>>
  BY DEF UnmapTemp, InHandler
<1>2. TypeOK'
  BY <1>1 DEF IInv, TypeOK
<1>3. Kids'
  BY <1>1 DEF IInv, TypeOK, Kids
<1>4. Tables'
  BY <1>1 DEF IInv, TypeOK, Tables, Table
<1>5. Progress'
  BY <1>1 DEF IInv, TypeOK, Progress, Turn
<1>6. Temp'
  BY <1>1 DEF IInv, TypeOK, Temp, TempOf
<1>7. Alone'
  BY <1>1 DEF IInv, TypeOK, Alone, Once, Window
<1>8. QED
  BY <1>2, <1>3, <1>4, <1>5, <1>6, <1>7 DEF IInv

(* Nobody is making a child that is alive, so no window is left open.      *)
LEMMA DestroyInv == ASSUME IInv, NEW e \in Envs, env_destroy(e) PROVE IInv'
<1>1. /\ pte' = [pte EXCEPT ![e] = Unmapped] /\ tmp' = [tmp EXCEPT ![e] = None]
      /\ pc' = [pc EXCEPT ![e] = "none"] /\ at' = [at EXCEPT ![e] = 1]
      /\ entry' = [entry EXCEPT ![e] = "W"] /\ kid' = [kid EXCEPT ![e] = None]
      /\ fault' = [fault EXCEPT ![e] = None] /\ frame' = frame
  BY DEF env_destroy
<1>2. \A f \in Envs : pc[f] \in Forking => kid[f] # e
  BY DEF IInv, Kids, env_destroy, Alive, Forking
<1>3. TypeOK'
  BY <1>1, <1>2 DEF IInv, Unmapped, TypeOK, Perms
<1>4. Kids'
  BY <1>1, <1>2 DEF IInv, TypeOK, Kids, Forking
<1>5. Tables'
  BY <1>1, <1>2 DEF IInv, Unmapped, TypeOK, Tables, Table, Alive, Forking
<1>6. Progress'
  BY <1>1, <1>2 DEF IInv, TypeOK, Progress, Turn
<1>7. Temp'
  BY <1>1, <1>2 DEF IInv, Unmapped, TypeOK, Temp, TempOf
<1>8. Alone'
  BY <1>1, <1>2 DEF IInv, Unmapped, TypeOK, Alone, Once, Window
<1>9. QED
  BY <1>3, <1>4, <1>5, <1>6, <1>7, <1>8 DEF IInv

(* A store changes a frame only.                                           *)
LEMMA WriteInv ==
    ASSUME IInv, NEW e \in Envs, NEW va \in VAs, NEW v \in Vals, Write(e, va, v)
    PROVE  IInv'
<1>1. /\ frame' = [frame EXCEPT ![pte[e][va].page] = v]
      /\ UNCHANGED <<pte, tmp, pc, at, entry, kid, fault>>
  BY DEF Write
<1>2. TypeOK'
  BY <1>1 DEF IInv, TypeOK
<1>3. Kids'
  BY <1>1 DEF IInv, TypeOK, Kids
<1>4. Tables'
  BY <1>1 DEF IInv, TypeOK, Tables, Table
<1>5. Progress'
  BY <1>1 DEF IInv, TypeOK, Progress, Turn
<1>6. Temp'
  BY <1>1 DEF IInv, TypeOK, Temp, TempOf
<1>7. Alone'
  BY <1>1 DEF IInv, TypeOK, Alone, Once, Window
<1>8. QED
  BY <1>2, <1>3, <1>4, <1>5, <1>6, <1>7 DEF IInv

(* A fault is at a page that is not shared.                                *)
LEMMA PageFaultInv ==
    ASSUME IInv, NEW e \in Envs, NEW va \in VAs, PageFault(e, va)
    PROVE  IInv'
<1>1. /\ fault' = [fault EXCEPT ![e] = [va |-> va, step |-> "alloc"]]
      /\ UNCHANGED <<pte, tmp, frame, pc, at, entry, kid>>
      /\ pc[e] \in Alive /\ fault[e] = None
  BY DEF PageFault, MayWrite, Running
<1>2. va # Shared
  BY <1>1 DEF PageFault, IInv, Tables, Table
<1>3. [va |-> va, step |-> "alloc"] # None /\ "alloc" \in Handling
  BY NotNone DEF Handling
<1>4. TypeOK'
  BY <1>1, <1>2, <1>3 DEF IInv, TypeOK
<1>5. Kids'
  BY <1>1, <1>2, <1>3 DEF IInv, TypeOK, Kids
<1>6. Tables'
  BY <1>1, <1>2, <1>3 DEF IInv, TypeOK, Tables, Table
<1>7. Progress'
  BY <1>1, <1>2, <1>3 DEF IInv, TypeOK, Progress, Turn
<1>8. Temp'
  BY <1>1, <1>2, <1>3 DEF IInv, TypeOK, Temp, TempOf
<1>9. Alone'
  BY <1>1, <1>2, <1>3 DEF IInv, TypeOK, Alone, Once, Window
<1>10. QED
  BY <1>4, <1>5, <1>6, <1>7, <1>8, <1>9 DEF IInv

(* Every step keeps the invariant.                                         *)
LEMMA StepInv == IInv /\ [Next]_vars => IInv'
<1> SUFFICES ASSUME IInv, [Next]_vars PROVE IInv'
  OBVIOUS
<1>1. CASE UNCHANGED vars
  BY <1>1 DEF vars, IInv, TypeOK, Kids, Tables, Table, Progress, Turn, Temp, TempOf,
              Alone, Once, Window
<1>2. CASE Monitor
  BY <1>1, <1>2 DEF Monitor
<1>3. ASSUME NEW e \in Envs,
             \/ sys_exofork(e) \/ ReadEntry(e) \/ MapChild(e) \/ MapSelf(e) \/ Start(e)
             \/ AllocTemp(e) \/ CopyPage(e) \/ MapCopy(e) \/ UnmapTemp(e) \/ env_destroy(e)
      PROVE  IInv'
  BY <1>3, ExoforkInv, ReadEntryInv, MapChildInv, MapSelfInv, StartInv, AllocTempInv,
     CopyPageInv, MapCopyInv, UnmapTempInv, DestroyInv
<1>4. ASSUME NEW e \in Envs, NEW va \in VAs,
             PageFault(e, va) \/ \E v \in Vals : Write(e, va, v)
      PROVE  IInv'
  BY <1>4, PageFaultInv, WriteInv
<1>5. QED
  BY <1>1, <1>2, <1>3, <1>4 DEF Next

(* The invariant holds always.                                             *)
LEMMA Invariance == Spec => []IInv
BY InitInv, StepInv, PTL DEF Spec

(* The variables keep their types.                                         *)
THEOREM TypeCorrect == Spec => []TypeOK
<1>1. IInv => TypeOK
  BY DEF IInv
<1>2. QED
  BY Invariance, <1>1, PTL

(* Whatever the number of environments, and wherever they are preempted in *)
(* fork and in the fault handler: a page that one can write without a      *)
(* fault is mapped by nobody else, but for the unstarted child in the      *)
(* window of duppage.                                                      *)
THEOREM WriterAlone == Spec => []WriterIsAlone
<1>1. IInv => WriterIsAlone
  BY DEF IInv, Alone, Once, WriterIsAlone, Maps
<1>2. QED
  BY Invariance, <1>1, PTL


-----------------------------------------------------------------------------
(* Memory.  A page is mapped at one address only, and the shared address   *)
(* has the same page in all environments.                                  *)
SameAddress ==
    \A e, f \in Envs : \A va, vb \in VAs :
        pte[e][va] # None /\ pte[f][vb] # None /\ pte[e][va].page = pte[f][vb].page
        => va = vb

OneShared ==
    \A e, f \in Envs : pte[e][Shared] # None /\ pte[f][Shared] # None
                       => pte[e][Shared].page = pte[f][Shared].page

(* A program in fork writes to its stack only, so that for other addresses *)
(* the child has the pages that its parent has.                            *)
ForkOf(e) ==
    pc[e] \in Forking =>
        /\ fault[e] # None => fault[e].va = Stack
        /\ \A va \in VAs : va # Stack /\ pte[kid[e]][va] # None
                           => pte[kid[e]][va].page = pte[e][va].page

ForkMem == \A e \in Envs : ForkOf(e)

(* The copy that the handler has made is still true when it is mapped.     *)
CopyOf(e) ==
    fault[e] # None /\ fault[e].step = "map"
    => frame[tmp[e]] = frame[pte[e][fault[e].va].page]

CopyTrue == \A e \in Envs : CopyOf(e)

MemInv == SameAddress /\ OneShared /\ ForkMem /\ CopyTrue

LEMMA MemInit == Init => MemInv
<1> SUFFICES ASSUME Init PROVE MemInv
  OBVIOUS
<1>1. PICK f \in [VAs -> Pages] :
         /\ \A x, y \in VAs : f[x] = f[y] => x = y
         /\ pte = [e \in Envs |->
               IF e # First THEN Unmapped
               ELSE [va \in VAs |-> [page |-> f[va],
                                     perm |-> IF va = Shared THEN "SHARE" ELSE "W"]]]
  BY DEF Init
<1>2. ASSUME NEW e \in Envs, NEW va \in VAs, pte[e][va] # None
      PROVE  e = First /\ pte[e][va].page = f[va]
  BY <1>1, <1>2 DEF Unmapped
<1>3. SameAddress
  BY <1>1, <1>2 DEF SameAddress
<1>0. OneShared
  BY <1>2, CowForkAssumption DEF OneShared
<1>4. ForkMem /\ CopyTrue
  BY DEF Init, ForkMem, ForkOf, CopyTrue, CopyOf, Forking
<1>5. QED
  BY <1>0, <1>3, <1>4 DEF MemInv

(* A step that maps only what is mapped somewhere at that address.         *)
Sourced ==
    \A f \in Envs, vb \in VAs : pte'[f][vb] # None =>
        \E g \in Envs : pte[g][vb] # None /\ pte[g][vb].page = pte'[f][vb].page

LEMMA PagesKept ==
    ASSUME SameAddress, OneShared, Sourced
    PROVE  SameAddress' /\ OneShared'
<1>1. SameAddress'
  <2> SUFFICES ASSUME NEW e \in Envs, NEW f \in Envs, NEW va \in VAs, NEW vb \in VAs,
                      pte'[e][va] # None, pte'[f][vb] # None,
                      pte'[e][va].page = pte'[f][vb].page
               PROVE  va = vb
    BY DEF SameAddress
  <2>1. PICK g \in Envs : pte[g][va] # None /\ pte[g][va].page = pte'[e][va].page
    BY DEF Sourced
  <2>2. PICK h \in Envs : pte[h][vb] # None /\ pte[h][vb].page = pte'[f][vb].page
    BY DEF Sourced
  <2>3. QED
    BY <2>1, <2>2 DEF SameAddress
<1>2. OneShared'
  <2> SUFFICES ASSUME NEW e \in Envs, NEW f \in Envs,
                      pte'[e][Shared] # None, pte'[f][Shared] # None
               PROVE  pte'[e][Shared].page = pte'[f][Shared].page
    BY DEF OneShared
  <2>0. Shared \in VAs
    BY CowForkAssumption
  <2>1. PICK g \in Envs : pte[g][Shared] # None /\ pte[g][Shared].page = pte'[e][Shared].page
    BY <2>0 DEF Sourced
  <2>2. PICK h \in Envs : pte[h][Shared] # None /\ pte[h][Shared].page = pte'[f][Shared].page
    BY <2>0 DEF Sourced
  <2>3. QED
    BY <2>1, <2>2 DEF OneShared
<1>3. QED
  BY <1>1, <1>2

(* What a running environment has at an address: a page of its own, or one *)
(* that others only read, and never the page of a handler.                 *)
LEMMA WriterFacts ==
    ASSUME IInv, SameAddress, NEW e \in Envs, NEW va \in VAs,
           pc[e] \in Alive, fault[e] = None, pte[e][va].perm # "COW",
           NEW f \in Envs, NEW vb \in VAs, pc[f] \in Alive
    PROVE  /\ pte[e][va] # None /\ pte[f][vb] # None
           /\ pte[f][vb].page = pte[e][va].page =>
                 vb = va /\ (va # Shared => f = e) /\ (fault[f] # None => vb = Shared)
           /\ tmp[f] # None => tmp[f] # pte[e][va].page
<1>1. pte[e][va] # None /\ pte[f][vb] # None
  BY DEF IInv, Tables, Table
<1>2. pte[f][vb].page = pte[e][va].page => vb = va
  BY <1>1 DEF SameAddress
<1>3. pte[f][vb].page = pte[e][va].page /\ va # Shared => f = e
  <2> SUFFICES ASSUME pte[f][vb].page = pte[e][va].page, va # Shared PROVE f = e
    OBVIOUS
  <2>1. pte[e][va].perm = "W"
    BY <1>1, EntryFacts DEF IInv, Tables, Table, Perms
  <2>2. Once(e, va, f, vb)
    BY DEF IInv, Alone
  <2>3. pc[f] # "embryo"
    BY DEF Alive, Forking
  <2>4. QED
    BY <1>1, <2>1, <2>2, <2>3 DEF Once
<1>4. tmp[f] # None => tmp[f] # pte[e][va].page
  <2>1. TempOf(f)
    BY DEF IInv, Temp
  <2>2. QED
    BY <1>1, <2>1 DEF TempOf
<1>5. QED
  BY <1>1, <1>2, <1>3, <1>4

LEMMA WriteMem ==
    ASSUME IInv, MemInv, NEW e \in Envs, NEW va \in VAs, NEW v \in Vals, Write(e, va, v)
    PROVE  MemInv'
<1>1. /\ pc[e] \in Alive /\ fault[e] = None /\ pte[e][va].perm # "COW"
      /\ frame' = [frame EXCEPT ![pte[e][va].page] = v]
      /\ UNCHANGED <<pte, tmp, pc, at, entry, kid, fault>>
  BY DEF Write, MayWrite, Running
<1>2. SameAddress' /\ OneShared' /\ ForkMem'
  BY <1>1 DEF MemInv, SameAddress, OneShared, ForkMem, ForkOf
<1>3. ASSUME NEW f \in Envs PROVE CopyOf(f)'
  <2> SUFFICES ASSUME fault[f] # None, fault[f].step = "map"
               PROVE  frame'[tmp[f]] = frame'[pte[f][fault[f].va].page]
    BY <1>1 DEF CopyOf
  <2>1. CopyOf(f) /\ TempOf(f)
    BY DEF MemInv, CopyTrue, IInv, Temp
  <2>2. pc[f] \in Alive /\ fault[f].va # Shared /\ fault[f].va \in VAs
        /\ tmp[f] # None /\ tmp[f] \in Pages
    BY <2>1 DEF TempOf, IInv, TypeOK
  <2>3. tmp[f] # pte[e][va].page /\ pte[f][fault[f].va].page # pte[e][va].page
    BY <1>1, <2>2, WriterFacts DEF MemInv
  <2>4. pte[f][fault[f].va].page \in Pages
    BY <2>2, EntryFacts DEF IInv, Tables, Table
  <2>5. QED
    BY <1>1, <2>1, <2>2, <2>3, <2>4 DEF CopyOf, IInv, TypeOK
<1>4. QED
  BY <1>2, <1>3 DEF MemInv, CopyTrue

(* The child has no page yet.                                              *)
LEMMA ExoforkMem == ASSUME IInv, MemInv, NEW e \in Envs, sys_exofork(e) PROVE MemInv'
<1>1. PICK c \in Envs : /\ pc[c] = "none" /\ c # e
                        /\ pc' = [pc EXCEPT ![e] = "read", ![c] = "embryo"]
                        /\ kid' = [kid EXCEPT ![e] = c]
  BY DEF sys_exofork
<1>2. pc[e] = "run" /\ fault[e] = None /\ UNCHANGED <<pte, tmp, frame, entry, fault>>
  BY DEF sys_exofork, Running
<1>3. SameAddress' /\ OneShared' /\ CopyTrue'
  BY <1>2 DEF MemInv, SameAddress, OneShared, CopyTrue, CopyOf
<1>4. \A va \in VAs : pte[c][va] = None
  BY <1>1 DEF IInv, Tables, Table
<1>5. ASSUME NEW f \in Envs PROVE ForkOf(f)'
  <2>1. ForkOf(f)
    BY DEF MemInv, ForkMem
  <2>2. CASE f = e
    <3>1. kid'[e] = c
      BY <1>1 DEF IInv, TypeOK
    <3>2. QED
      BY <1>2, <1>4, <2>2, <3>1 DEF ForkOf
  <2>3. CASE f # e
    <3>1. pc'[f] \in Forking => pc[f] \in Forking /\ kid'[f] = kid[f]
      BY <1>1, <2>3 DEF IInv, TypeOK, Forking
    <3>2. QED
      BY <1>2, <2>1, <3>1 DEF ForkOf
  <2>4. QED
    BY <2>2, <2>3
<1>6. QED
  BY <1>3, <1>5 DEF MemInv, ForkMem

LEMMA ReadEntryMem == ASSUME IInv, MemInv, NEW e \in Envs, ReadEntry(e) PROVE MemInv'
<1>1. /\ pc[e] = "read" /\ pc' = [pc EXCEPT ![e] = "child"]
      /\ UNCHANGED <<pte, tmp, frame, at, kid, fault>>
  BY DEF ReadEntry
<1>2. SameAddress' /\ OneShared' /\ CopyTrue'
  BY <1>1 DEF MemInv, SameAddress, OneShared, CopyTrue, CopyOf
<1>3. \A f \in Envs : pc'[f] \in Forking => pc[f] \in Forking
  BY <1>1 DEF IInv, TypeOK, Forking
<1>4. ForkMem'
  BY <1>1, <1>3 DEF MemInv, ForkMem, ForkOf
<1>5. QED
  BY <1>2, <1>4 DEF MemInv

(* The child gets the page that the parent has.                            *)
LEMMA MapChildMem == ASSUME IInv, MemInv, NEW e \in Envs, MapChild(e) PROVE MemInv'
<1>1. pc[e] = "child" /\ pc[e] \in Forking /\ fault[e] = None
      /\ UNCHANGED <<tmp, frame, entry, kid, fault>>
  BY DEF MapChild, Running, Forking
<1>2. PICK va \in VAs, k \in Envs :
         /\ va = Order[at[e]] /\ pte[e][va] # None
         /\ k = kid[e] /\ k # e /\ pc[k] = "embryo"
  BY <1>1, AtFacts DEF IInv, Kids
<1>3. PICK p \in Pages : p = pte[e][va].page
  BY <1>2, EntryFacts DEF IInv
<1>4. NewPerm(entry[e]) \in Perms
  BY DEF NewPerm, Perms
<1>5. Sets(k, va, p, NewPerm(entry[e]))
  <2>1. pte' = [pte EXCEPT ![k] = [pte[k] EXCEPT ![va] =
                   [page |-> p, perm |-> NewPerm(entry[e])]]]
    BY <1>2, <1>3 DEF MapChild
  <2>2. QED
    BY <1>4, <2>1, OneEntry DEF IInv
<1>6. \A f \in Envs : pc'[f] \in Forking => pc[f] \in Forking
  <2>1. \E here : pc' = [pc EXCEPT ![e] = here]
    BY DEF MapChild, NextPage
  <2>2. QED
    BY <1>1, <2>1 DEF IInv, TypeOK
<1>7. Sourced
  BY <1>2, <1>3, <1>5 DEF Sourced, Sets
<1>8. SameAddress' /\ OneShared'
  BY <1>7, PagesKept DEF MemInv
<1>9. ASSUME NEW f \in Envs PROVE ForkOf(f)'
  <2> SUFFICES ASSUME pc'[f] \in Forking PROVE ForkOf(f)'
    BY DEF ForkOf
  <2>1. pc[f] \in Forking /\ ForkOf(f) /\ f # k /\ kid[f] \in Envs
    BY <1>2, <1>6 DEF MemInv, ForkMem, IInv, Kids, Forking
  <2>2. \A vb \in VAs : pte'[f][vb] = pte[f][vb]
    BY <1>5, <2>1 DEF Sets
  <2>3. CASE f = e
    <3>1. ASSUME NEW vb \in VAs, vb # Stack, pte'[k][vb] # None
          PROVE  pte'[k][vb].page = pte[e][vb].page
      BY <1>2, <1>3, <1>5, <2>1, <2>3, <3>1 DEF Sets, ForkOf
    <3>2. QED
      BY <1>1, <1>2, <2>2, <2>3, <3>1 DEF ForkOf
  <2>4. CASE f # e
    <3>1. kid[f] # k
      BY <1>1, <1>2, <2>1, <2>4 DEF IInv, Kids
    <3>2. \A vb \in VAs : pte'[kid[f]][vb] = pte[kid[f]][vb]
      BY <1>5, <2>1, <3>1 DEF Sets
    <3>3. QED
      BY <1>1, <2>1, <2>2, <3>2 DEF ForkOf
  <2>5. QED
    BY <2>3, <2>4
<1>10. ASSUME NEW f \in Envs PROVE CopyOf(f)'
  <2> SUFFICES ASSUME fault[f] # None, fault[f].step = "map"
               PROVE  frame[tmp[f]] = frame[pte'[f][fault[f].va].page]
    BY <1>1 DEF CopyOf
  <2>1. CopyOf(f) /\ TempOf(f)
    BY DEF MemInv, CopyTrue, IInv, Temp
  <2>2. f # k /\ fault[f].va \in VAs
    BY <1>2, <2>1 DEF TempOf, IInv, TypeOK, Alive, Forking
  <2>3. QED
    BY <1>5, <2>1, <2>2 DEF CopyOf, Sets
<1>11. QED
  BY <1>8, <1>9, <1>10 DEF MemInv, ForkMem, CopyTrue

(* Only the permission changes.                                            *)
LEMMA SelfPages ==
    ASSUME IInv, NEW e \in Envs, MapSelf(e)
    PROVE  \A f \in Envs, vb \in VAs : /\ pte'[f][vb] # None <=> pte[f][vb] # None
                                       /\ pte'[f][vb].page = pte[f][vb].page
<1>1. pc[e] = "self" /\ pc[e] \in Forking
  BY DEF MapSelf, Forking
<1>2. PICK va \in VAs : va = Order[at[e]] /\ pte[e][va] # None
  BY <1>1, AtFacts
<1>3. pte[e][va] = [page |-> pte[e][va].page, perm |-> pte[e][va].perm]
      /\ pte[e][va].page \in Pages
  BY <1>2, EntryFacts DEF IInv
<1>4. [pte[e][va] EXCEPT !.perm = "COW"] = [page |-> pte[e][va].page, perm |-> "COW"]
  BY <1>3
<1>5. pte' = [pte EXCEPT ![e] = [pte[e] EXCEPT ![va] =
                 [page |-> pte[e][va].page, perm |-> "COW"]]]
  BY <1>2, <1>4 DEF MapSelf
<1>6. "COW" \in Perms
  BY DEF Perms
<1>7. Sets(e, va, pte[e][va].page, "COW")
  BY <1>3, <1>5, <1>6, OneEntry DEF IInv
<1>8. QED
  BY <1>2, <1>7 DEF Sets

LEMMA MapSelfMem == ASSUME IInv, MemInv, NEW e \in Envs, MapSelf(e) PROVE MemInv'
<1>1. pc[e] \in Forking /\ UNCHANGED <<tmp, frame, entry, kid, fault>>
  BY DEF MapSelf, Forking
<1>2. \A f \in Envs, vb \in VAs : /\ pte'[f][vb] # None <=> pte[f][vb] # None
                                  /\ pte'[f][vb].page = pte[f][vb].page
  BY SelfPages
<1>3. \A f \in Envs : pc'[f] \in Forking => pc[f] \in Forking
  <2>1. \E here : pc' = [pc EXCEPT ![e] = here]
    BY DEF MapSelf, NextPage
  <2>2. QED
    BY <1>1, <2>1 DEF IInv, TypeOK
<1>4. SameAddress' /\ OneShared'
  BY <1>2, PagesKept DEF MemInv, Sourced
<1>5. ASSUME NEW f \in Envs PROVE ForkOf(f)'
  <2> SUFFICES ASSUME pc'[f] \in Forking PROVE ForkOf(f)'
    BY DEF ForkOf
  <2>1. pc[f] \in Forking /\ ForkOf(f) /\ kid[f] \in Envs
    BY <1>3 DEF MemInv, ForkMem, IInv, Kids
  <2>2. QED
    BY <1>1, <1>2, <2>1 DEF ForkOf
<1>6. ASSUME NEW f \in Envs PROVE CopyOf(f)'
  <2> SUFFICES ASSUME fault[f] # None, fault[f].step = "map"
               PROVE  frame[tmp[f]] = frame[pte'[f][fault[f].va].page]
    BY <1>1 DEF CopyOf
  <2>1. CopyOf(f) /\ fault[f].va \in VAs
    BY DEF MemInv, CopyTrue, IInv, TypeOK
  <2>2. QED
    BY <1>2, <2>1 DEF CopyOf
<1>7. QED
  BY <1>4, <1>5, <1>6 DEF MemInv, ForkMem, CopyTrue

LEMMA StartMem == ASSUME IInv, MemInv, NEW e \in Envs, Start(e) PROVE MemInv'
<1>1. /\ pc' = [pc EXCEPT ![e] = "run", ![kid[e]] = "run"] /\ kid' = [kid EXCEPT ![e] = None]
      /\ UNCHANGED <<pte, tmp, frame, at, entry, fault>>
  BY DEF Start
<1>2. SameAddress' /\ OneShared' /\ CopyTrue'
  BY <1>1 DEF MemInv, SameAddress, OneShared, CopyTrue, CopyOf
<1>3. \A f \in Envs : pc'[f] \in Forking => pc[f] \in Forking /\ kid'[f] = kid[f]
  BY <1>1 DEF IInv, TypeOK, Forking
<1>4. ForkMem'
  BY <1>1, <1>3 DEF MemInv, ForkMem, ForkOf
<1>5. QED
  BY <1>2, <1>4 DEF MemInv

(* In fork the only fault is at the stack.                                 *)
LEMMA PageFaultMem ==
    ASSUME IInv, MemInv, NEW e \in Envs, NEW va \in VAs, PageFault(e, va)
    PROVE  MemInv'
<1>1. /\ fault' = [fault EXCEPT ![e] = [va |-> va, step |-> "alloc"]]
      /\ UNCHANGED <<pte, tmp, frame, pc, at, entry, kid>>
      /\ pc[e] = "run" \/ va = Stack
  BY DEF PageFault, MayWrite, Running
<1>2. SameAddress' /\ OneShared'
  BY <1>1 DEF MemInv, SameAddress, OneShared
<1>3. /\ fault'[e].va = va /\ fault'[e].step = "alloc"
      /\ \A f \in Envs : f # e => fault'[f] = fault[f]
  BY <1>1 DEF IInv, TypeOK
<1>4. ForkMem'
  BY <1>1, <1>3 DEF MemInv, ForkMem, ForkOf, Forking
<1>5. CopyTrue'
  BY <1>1, <1>3 DEF MemInv, CopyTrue, CopyOf
<1>6. QED
  BY <1>2, <1>4, <1>5 DEF MemInv

(* The new page is nobody's.                                               *)
LEMMA AllocFacts ==
    ASSUME IInv, NEW p \in Pages, p \notin InUse
    PROVE  /\ \A f \in Envs : tmp[f] # p
           /\ \A f \in Envs, va \in VAs : pte[f][va] # None => pte[f][va].page # p
<1>1. \A f \in Envs : tmp[f] \in InUse
  BY DEF InUse
<1>2. \A x \in Envs \X VAs : pte[x[1]][x[2]] # None => pte[x[1]][x[2]].page \in InUse
  BY DEF InUse
<1>3. ASSUME NEW f \in Envs, NEW va \in VAs, pte[f][va] # None
      PROVE  pte[f][va].page \in InUse
  <2>1. <<f, va>> \in Envs \X VAs /\ <<f, va>>[1] = f /\ <<f, va>>[2] = va
    OBVIOUS
  <2>2. QED
    BY <1>2, <1>3, <2>1
<1>4. QED
  BY <1>1, <1>3

LEMMA AllocTempMem == ASSUME IInv, MemInv, NEW e \in Envs, AllocTemp(e) PROVE MemInv'
<1>1. fault'[e].va = fault[e].va /\ fault'[e].step = "copy" /\ fault[e] # None
      /\ \A f \in Envs : f # e => fault'[f] = fault[f]
  BY HandlerStep DEF AllocTemp, IInv, Handling, InHandler
<1>2. PICK p \in Pages : /\ p \notin InUse /\ tmp' = [tmp EXCEPT ![e] = p]
                         /\ frame' = [frame EXCEPT ![p] = Zero]
  BY DEF AllocTemp
<1>3. UNCHANGED <<pte, pc, at, entry, kid>>
  BY DEF AllocTemp
<1>4. SameAddress' /\ OneShared'
  BY <1>3 DEF MemInv, SameAddress, OneShared
<1>5. ForkMem'
  BY <1>1, <1>3 DEF MemInv, ForkMem, ForkOf
<1>6. ASSUME NEW f \in Envs PROVE CopyOf(f)'
  <2> SUFFICES ASSUME fault'[f] # None, fault'[f].step = "map"
               PROVE  frame'[tmp'[f]] = frame'[pte[f][fault'[f].va].page]
    BY <1>3 DEF CopyOf
  <2>1. f # e /\ fault'[f] = fault[f] /\ CopyOf(f) /\ TempOf(f)
    BY <1>1 DEF MemInv, CopyTrue, IInv, Temp
  <2>2. pc[f] \in Alive /\ fault[f].va \in VAs /\ tmp[f] # None /\ tmp[f] \in Pages
    BY <2>1 DEF TempOf, IInv, TypeOK
  <2>3. pte[f][fault[f].va] # None
    BY <2>2 DEF IInv, Tables, Table
  <2>4. pte[f][fault[f].va].page \in Pages /\ pte[f][fault[f].va].page # p /\ tmp[f] # p
    BY <1>2, <2>2, <2>3, EntryFacts, AllocFacts DEF IInv
  <2>5. QED
    BY <1>2, <2>1, <2>2, <2>4 DEF CopyOf, IInv, TypeOK
<1>7. QED
  BY <1>4, <1>5, <1>6 DEF MemInv, CopyTrue

(* The page of the handler is not mapped, and others have other pages.     *)
LEMMA CopyFacts ==
    ASSUME IInv, NEW e \in Envs, CopyPage(e)
    PROVE  /\ fault[e] # None /\ fault[e].va \in VAs /\ pc[e] \in Alive
           /\ tmp[e] \in Pages /\ tmp[e] # None
           /\ pte[e][fault[e].va] # None /\ pte[e][fault[e].va].page \in Pages
           /\ \A f \in Envs : f # e => tmp[f] # tmp[e]
           /\ \A f \in Envs, vb \in VAs : pte[f][vb] # None => pte[f][vb].page # tmp[e]
           /\ frame' = [frame EXCEPT ![tmp[e]] = frame[pte[e][fault[e].va].page]]
<1>1. fault[e] # None /\ fault[e].step = "copy"
      /\ frame' = [frame EXCEPT ![tmp[e]] = frame[pte[e][fault[e].va].page]]
  BY DEF CopyPage, InHandler
<1>2. TempOf(e)
  BY DEF IInv, Temp
<1>3. fault[e].va \in VAs /\ pc[e] \in Alive /\ tmp[e] # None /\ tmp[e] \in Pages
  BY <1>1, <1>2 DEF TempOf, IInv, TypeOK
<1>4. pte[e][fault[e].va] # None
  BY <1>3 DEF IInv, Tables, Table
<1>5. pte[e][fault[e].va].page \in Pages
  BY <1>3, <1>4, EntryFacts DEF IInv
<1>6. /\ \A f \in Envs : f # e => tmp[f] # tmp[e]
      /\ \A f \in Envs, vb \in VAs : pte[f][vb] # None => pte[f][vb].page # tmp[e]
  BY <1>1, <1>2, <1>3 DEF TempOf
<1>7. QED
  BY <1>1, <1>3, <1>4, <1>5, <1>6

LEMMA CopyPageMem == ASSUME IInv, MemInv, NEW e \in Envs, CopyPage(e) PROVE MemInv'
<1>1. fault'[e] # None /\ fault'[e].va = fault[e].va /\ fault[e] # None
      /\ \A f \in Envs : f # e => fault'[f] = fault[f]
  BY HandlerStep DEF CopyPage, IInv, Handling, InHandler
<1>2. UNCHANGED <<pte, tmp, pc, at, entry, kid>>
  BY DEF CopyPage
<1>3. SameAddress' /\ OneShared'
  BY <1>2 DEF MemInv, SameAddress, OneShared
<1>4. ForkMem'
  BY <1>1, <1>2 DEF MemInv, ForkMem, ForkOf
<1>5. ASSUME NEW f \in Envs PROVE CopyOf(f)'
  <2> SUFFICES ASSUME fault'[f] # None, fault'[f].step = "map"
               PROVE  frame'[tmp[f]] = frame'[pte[f][fault'[f].va].page]
    BY <1>2 DEF CopyOf
  <2>1. CASE f = e
    BY <1>1, <2>1, CopyFacts DEF IInv, TypeOK
  <2>2. CASE f # e
    <3>1. fault'[f] = fault[f] /\ CopyOf(f) /\ TempOf(f)
      BY <1>1, <2>2 DEF MemInv, CopyTrue, IInv, Temp
    <3>2. pc[f] \in Alive /\ fault[f].va \in VAs /\ tmp[f] \in Pages
      BY <3>1 DEF TempOf, IInv, TypeOK
    <3>3. pte[f][fault[f].va] # None
      BY <3>2 DEF IInv, Tables, Table
    <3>4. pte[f][fault[f].va].page \in Pages
      BY <3>2, <3>3, EntryFacts DEF IInv
    <3>5. QED
      BY <2>2, <3>1, <3>2, <3>3, <3>4, CopyFacts DEF CopyOf, IInv, TypeOK
  <2>3. QED
    BY <2>1, <2>2
<1>6. QED
  BY <1>3, <1>4, <1>5 DEF MemInv, CopyTrue

(* The copy takes the place of the page that it is a copy of.              *)
LEMMA MapCopyFacts ==
    ASSUME IInv, NEW e \in Envs, MapCopy(e)
    PROVE  /\ fault[e] # None /\ fault[e].step = "map" /\ pc[e] \in Alive
           /\ fault[e].va \in VAs \ {Shared}
           /\ \A f \in Envs, vb \in VAs : pte[f][vb] # None => pte[f][vb].page # tmp[e]
           /\ Sets(e, fault[e].va, tmp[e], "W")
           /\ UNCHANGED <<tmp, frame, pc, at, entry, kid>>
<1>1. /\ fault[e] # None /\ fault[e].step = "map" /\ UNCHANGED <<tmp, frame, pc, at, entry, kid>>
      /\ pte' = [pte EXCEPT ![e][fault[e].va] = [page |-> tmp[e], perm |-> "W"]]
  BY DEF MapCopy, InHandler
<1>2. TempOf(e)
  BY DEF IInv, Temp
<1>3. PICK va \in VAs \ {Shared} : va = fault[e].va
  BY <1>1, <1>2 DEF TempOf, IInv, TypeOK
<1>4. pc[e] \in Alive /\ tmp[e] # None /\ tmp[e] \in Pages
  BY <1>1, <1>2 DEF TempOf, IInv, TypeOK
<1>5. \A f \in Envs, vb \in VAs : pte[f][vb] # None => pte[f][vb].page # tmp[e]
  BY <1>1, <1>2, <1>4 DEF TempOf
<1>6. Sets(e, va, tmp[e], "W")
  <2>1. pte' = [pte EXCEPT ![e] = [pte[e] EXCEPT ![va] = [page |-> tmp[e], perm |-> "W"]]]
    BY <1>1, <1>3
  <2>2. QED
    BY <1>4, <2>1, OneEntry DEF IInv, Perms
<1>7. QED
  BY <1>1, <1>3, <1>4, <1>5, <1>6

LEMMA MapCopyMem == ASSUME IInv, MemInv, NEW e \in Envs, MapCopy(e) PROVE MemInv'
<1>1. fault'[e].va = fault[e].va /\ fault'[e].step = "unmap"
      /\ \A f \in Envs : f # e => fault'[f] = fault[f]
  BY HandlerStep DEF MapCopy, IInv, Handling
<1>2. PICK va \in VAs \ {Shared} : va = fault[e].va
  BY MapCopyFacts
<1>3. /\ \A f \in Envs, vb \in VAs : pte[f][vb] # None => pte[f][vb].page # tmp[e]
      /\ Sets(e, va, tmp[e], "W")
      /\ UNCHANGED <<tmp, frame, pc, kid>> /\ fault[e] # None /\ pc[e] \in Alive
  BY <1>2, MapCopyFacts
<1>4. SameAddress'
  BY <1>3 DEF SameAddress, Sets, MemInv
<1>5. OneShared'
  BY <1>2, <1>3, CowForkAssumption DEF OneShared, Sets, MemInv
<1>6. ASSUME NEW f \in Envs PROVE ForkOf(f)'
  <2> SUFFICES ASSUME pc[f] \in Forking PROVE ForkOf(f)'
    BY <1>3 DEF ForkOf
  <2>1. ForkOf(f) /\ kid[f] \in Envs /\ kid[f] # e
    BY <1>3 DEF MemInv, ForkMem, IInv, Kids, Alive, Forking
  <2>2. fault'[f] # None => fault'[f].va = Stack
    BY <1>1, <1>3, <2>1 DEF ForkOf
  <2>3. \A vb \in VAs : pte'[kid[f]][vb] = pte[kid[f]][vb]
    BY <1>3, <2>1 DEF Sets
  <2>4. \A vb \in VAs : vb # Stack => pte'[f][vb] = pte[f][vb]
    BY <1>2, <1>3, <2>1 DEF Sets, ForkOf
  <2>5. QED
    BY <1>3, <2>1, <2>2, <2>3, <2>4 DEF ForkOf
<1>7. ASSUME NEW f \in Envs PROVE CopyOf(f)'
  <2> SUFFICES ASSUME fault'[f] # None, fault'[f].step = "map"
               PROVE  frame[tmp[f]] = frame[pte'[f][fault'[f].va].page]
    BY <1>3 DEF CopyOf
  <2>1. f # e /\ fault'[f] = fault[f] /\ CopyOf(f) /\ fault[f].va \in VAs
    BY <1>1 DEF MemInv, CopyTrue, IInv, TypeOK
  <2>2. pte'[f][fault[f].va] = pte[f][fault[f].va]
    BY <1>3, <2>1 DEF Sets
  <2>3. QED
    BY <2>1, <2>2 DEF CopyOf
<1>8. QED
  BY <1>4, <1>5, <1>6, <1>7 DEF MemInv, ForkMem, CopyTrue

LEMMA UnmapTempMem == ASSUME IInv, MemInv, NEW e \in Envs, UnmapTemp(e) PROVE MemInv'
<1>1. /\ fault' = [fault EXCEPT ![e] = None] /\ tmp' = [tmp EXCEPT ![e] = None]
      /\ UNCHANGED <<pte, frame, pc, at, entry, kid>>
  BY DEF UnmapTemp, InHandler
<1>2. SameAddress' /\ OneShared'
  BY <1>1 DEF MemInv, SameAddress, OneShared
<1>3. ForkMem'
  BY <1>1 DEF MemInv, ForkMem, ForkOf, IInv, TypeOK
<1>4. CopyTrue'
  BY <1>1 DEF MemInv, CopyTrue, CopyOf, IInv, TypeOK
<1>5. QED
  BY <1>2, <1>3, <1>4 DEF MemInv

LEMMA DestroyMem == ASSUME IInv, MemInv, NEW e \in Envs, env_destroy(e) PROVE MemInv'
<1>1. /\ pte' = [pte EXCEPT ![e] = Unmapped] /\ tmp' = [tmp EXCEPT ![e] = None]
      /\ pc' = [pc EXCEPT ![e] = "none"] /\ kid' = [kid EXCEPT ![e] = None]
      /\ fault' = [fault EXCEPT ![e] = None] /\ frame' = frame /\ pc[e] \in Alive
  BY DEF env_destroy
<1>2. \A f \in Envs, vb \in VAs : /\ f = e => pte'[f][vb] = None
                                  /\ f # e => pte'[f][vb] = pte[f][vb]
  BY <1>1 DEF Unmapped, IInv, TypeOK
<1>3. SameAddress' /\ OneShared'
  BY <1>2, PagesKept DEF MemInv, Sourced
<1>4. ASSUME NEW f \in Envs PROVE ForkOf(f)'
  <2> SUFFICES ASSUME pc'[f] \in Forking PROVE ForkOf(f)'
    BY DEF ForkOf
  <2>1. f # e /\ pc[f] \in Forking /\ kid'[f] = kid[f] /\ fault'[f] = fault[f]
    BY <1>1 DEF IInv, TypeOK, Forking
  <2>2. ForkOf(f) /\ kid[f] \in Envs /\ kid[f] # e
    BY <1>1, <2>1 DEF MemInv, ForkMem, IInv, Kids, Alive, Forking
  <2>3. QED
    BY <1>2, <2>1, <2>2 DEF ForkOf
<1>5. ASSUME NEW f \in Envs PROVE CopyOf(f)'
  <2> SUFFICES ASSUME fault'[f] # None, fault'[f].step = "map"
               PROVE  frame[tmp'[f]] = frame[pte'[f][fault'[f].va].page]
    BY <1>1 DEF CopyOf
  <2>1. f # e /\ fault'[f] = fault[f] /\ tmp'[f] = tmp[f]
    BY <1>1 DEF IInv, TypeOK
  <2>2. CopyOf(f) /\ fault[f].va \in VAs
    BY <2>1 DEF MemInv, CopyTrue, IInv, TypeOK
  <2>3. QED
    BY <1>2, <2>1, <2>2 DEF CopyOf
<1>6. QED
  BY <1>3, <1>4, <1>5 DEF MemInv, ForkMem, CopyTrue

LEMMA MemStep == IInv /\ MemInv /\ [Next]_vars => MemInv'
<1> SUFFICES ASSUME IInv, MemInv, [Next]_vars PROVE MemInv'
  OBVIOUS
<1>1. CASE UNCHANGED vars
  BY <1>1 DEF vars, MemInv, SameAddress, OneShared, ForkMem, ForkOf, CopyTrue, CopyOf
<1>2. CASE Monitor
  BY <1>1, <1>2 DEF Monitor
<1>3. ASSUME NEW e \in Envs,
             \/ sys_exofork(e) \/ ReadEntry(e) \/ MapChild(e) \/ MapSelf(e) \/ Start(e)
             \/ \E va \in VAs : PageFault(e, va) \/ \E v \in Vals : Write(e, va, v)
             \/ AllocTemp(e) \/ CopyPage(e) \/ MapCopy(e) \/ UnmapTemp(e)
             \/ env_destroy(e)
      PROVE  MemInv'
  BY <1>3, ExoforkMem, ReadEntryMem, MapChildMem, MapSelfMem, StartMem, PageFaultMem,
     WriteMem, AllocTempMem, CopyPageMem, MapCopyMem, UnmapTempMem, DestroyMem
<1>4. QED
  BY <1>1, <1>2, <1>3 DEF Next

LEMMA MemInvariance == Spec => [](IInv /\ MemInv)
BY Invariance, MemInit, MemStep, PTL DEF Spec

-----------------------------------------------------------------------------
(* What programs see.                                                      *)
MemoryShape ==
    /\ \A e \in Envs : pc[e] \in Alive =>
          /\ Memory[e] = [va \in Private |-> frame[pte[e][va].page]]
          /\ Memory[e] \in [Private -> Vals] /\ Memory[e] # None
          /\ SharedFrame = frame[pte[e][Shared].page]
    /\ \A e \in Envs : pc[e] \notin Alive => Memory[e] = None
    /\ (\A e \in Envs : pc[e] \notin Alive) => SharedFrame = Zero
    /\ Memory = [e \in Envs |-> Memory[e]]

LEMMA MemoryShapes == IInv /\ MemInv => MemoryShape
<1> SUFFICES ASSUME IInv, MemInv PROVE MemoryShape
  OBVIOUS
<1>1. ASSUME NEW e \in Envs, pc[e] \in Alive
      PROVE  /\ Memory[e] = [va \in Private |-> frame[pte[e][va].page]]
             /\ Memory[e] \in [Private -> Vals] /\ Memory[e] # None
             /\ SharedFrame = frame[pte[e][Shared].page]
  <2>1. \A va \in VAs : pte[e][va] # None
    BY <1>1 DEF IInv, Tables, Table
  <2>2. \A va \in VAs : pte[e][va].page \in Pages
    BY <2>1, EntryFacts DEF IInv
  <2>3. Memory[e] = [va \in Private |-> frame[pte[e][va].page]]
    BY <1>1 DEF Memory
  <2>4. Memory[e] \in [Private -> Vals]
    BY <2>2, <2>3 DEF IInv, TypeOK, Private
  <2>5. PICK f \in Envs : f = (CHOOSE x \in Envs : pc[x] \in Alive) /\ pc[f] \in Alive
    BY <1>1
  <2>6. SharedFrame = frame[pte[f][Shared].page]
    BY <1>1, <2>5 DEF SharedFrame
  <2>7. pte[f][Shared] # None
    BY <2>5, CowForkAssumption DEF IInv, Tables, Table
  <2>8. pte[f][Shared].page = pte[e][Shared].page
    BY <2>1, <2>7, CowForkAssumption DEF MemInv, OneShared
  <2>9. QED
    BY <2>3, <2>4, <2>6, <2>8, CowForkAssumption
<1>2. \A e \in Envs : pc[e] \notin Alive => Memory[e] = None
  BY DEF Memory
<1>3. (\A e \in Envs : pc[e] \notin Alive) => SharedFrame = Zero
  BY DEF SharedFrame
<1>4. Memory = [e \in Envs |-> Memory[e]]
  BY DEF Memory
<1>5. QED
  BY <1>1, <1>2, <1>3, <1>4 DEF MemoryShape

(* The same of the state after a step.                                     *)
Seen ==
    /\ IInv /\ MemInv /\ MemoryShape
    /\ \A e \in Envs : pc'[e] \in Alive =>
          /\ Memory'[e] = [va \in Private |-> frame'[pte'[e][va].page]]
          /\ SharedFrame' = frame'[pte'[e][Shared].page]
    /\ \A e \in Envs : pc'[e] \notin Alive => Memory'[e] = None
    /\ (\A e \in Envs : pc'[e] \notin Alive) => SharedFrame' = Zero
    /\ Memory' = [e \in Envs |-> Memory'[e]]

LEMMA SeenBefore == ASSUME IInv, MemInv, IInv', MemInv' PROVE Seen
<1>1. MemoryShape /\ MemoryShape'
  BY MemoryShapes, PTL
<1>2. QED
  BY <1>1 DEF MemoryShape, Seen, Alive, Forking

(* An environment sees no change.                                          *)
Kept(e) ==
    /\ pc'[e] \in Alive <=> pc[e] \in Alive
    /\ pc[e] \in Alive =>
          \A va \in VAs : frame'[pte'[e][va].page] = frame[pte[e][va].page]

LEMMA KeptMemory ==
    ASSUME Seen, NEW e \in Envs, Kept(e)
    PROVE  Memory'[e] = Memory[e] /\ (pc[e] \in Alive => SharedFrame' = SharedFrame)
<1>1. CASE pc[e] \in Alive
  <2>1. Memory'[e] = [va \in Private |-> frame'[pte'[e][va].page]]
    BY <1>1 DEF Seen, Kept
  <2>2. Memory[e] = [va \in Private |-> frame[pte[e][va].page]]
    BY <1>1 DEF Seen, MemoryShape
  <2>3. \A va \in Private : frame'[pte'[e][va].page] = frame[pte[e][va].page]
    BY <1>1 DEF Kept, Private
  <2>4. SharedFrame' = SharedFrame
    BY <1>1, CowForkAssumption DEF Seen, MemoryShape, Kept
  <2>5. QED
    BY <2>1, <2>2, <2>3, <2>4
<1>2. CASE pc[e] \notin Alive
  BY <1>2 DEF Seen, MemoryShape, Kept
<1>3. QED
  BY <1>1, <1>2

(* A step that no environment sees.                                        *)
LEMMA Unseen ==
    ASSUME Seen, \A e \in Envs : Kept(e)
    PROVE  Memory' = Memory /\ SharedFrame' = SharedFrame
<1>1. \A e \in Envs : Memory'[e] = Memory[e]
  BY KeptMemory
<1>2. Memory' = Memory
  BY <1>1 DEF Seen, MemoryShape
<1>3. CASE \E e \in Envs : pc[e] \in Alive
  BY <1>2, <1>3, KeptMemory
<1>4. CASE \A e \in Envs : pc[e] \notin Alive
  BY <1>2, <1>4 DEF Seen, MemoryShape, Kept
<1>5. QED
  BY <1>3, <1>4

(* The steps of fork but the last, and those of the handler.               *)
LEMMA QuietSteps ==
    ASSUME IInv, MemInv, NEW e \in Envs,
           \/ sys_exofork(e) \/ ReadEntry(e) \/ MapChild(e) \/ MapSelf(e)
           \/ \E va \in VAs : PageFault(e, va)
           \/ AllocTemp(e) \/ CopyPage(e) \/ MapCopy(e) \/ UnmapTemp(e)
    PROVE  \A f \in Envs : Kept(f)
<1> SUFFICES ASSUME NEW f \in Envs PROVE Kept(f)
  OBVIOUS
<1>0. ASSUME NEW va \in VAs, pc[f] \in Alive
      PROVE  pte[f][va] # None /\ pte[f][va].page \in Pages
  <2>1. pte[f][va] # None
    BY <1>0 DEF IInv, Tables, Table
  <2>2. QED
    BY <2>1, EntryFacts DEF IInv
<1>1. CASE sys_exofork(e)
  BY <1>1 DEF sys_exofork, Running, Kept, IInv, TypeOK, Alive, Forking
<1>2. CASE ReadEntry(e)
  BY <1>2 DEF ReadEntry, Running, Kept, IInv, TypeOK, Alive, Forking
<1>3. CASE MapChild(e)
  <2>1. pc[e] = "child" /\ pc[e] \in Forking /\ frame' = frame
    BY <1>3 DEF MapChild, Forking
  <2>2. pc[kid[e]] = "embryo" /\ kid[e] \in Envs
    BY <2>1 DEF IInv, Kids
  <2>3. f # kid[e] => pte'[f] = pte[f]
    BY <1>3, <2>2 DEF MapChild, IInv, TypeOK
  <2>4. PICK here \in Forking : pc' = [pc EXCEPT ![e] = here]
    BY <1>3 DEF MapChild, NextPage, Forking
  <2>5. pc'[f] \in Alive <=> pc[f] \in Alive
    BY <2>1, <2>4 DEF IInv, TypeOK, Alive, Forking
  <2>6. pc[f] \in Alive => f # kid[e]
    BY <2>2 DEF Alive, Forking
  <2>7. QED
    BY <2>1, <2>3, <2>5, <2>6 DEF Kept
<1>4. CASE MapSelf(e)
  <2>1. pc[e] \in Forking /\ frame' = frame
    BY <1>4 DEF MapSelf, Forking
  <2>2. \A vb \in VAs : pte'[f][vb].page = pte[f][vb].page
    BY <1>4, SelfPages
  <2>3. PICK here \in Forking : pc' = [pc EXCEPT ![e] = here]
    BY <1>4 DEF MapSelf, NextPage, Forking
  <2>4. pc'[f] \in Alive <=> pc[f] \in Alive
    BY <2>1, <2>3 DEF IInv, TypeOK, Alive
  <2>5. QED
    BY <2>1, <2>2, <2>4 DEF Kept
<1>5. CASE (\E va \in VAs : PageFault(e, va)) \/ UnmapTemp(e)
  BY <1>5 DEF PageFault, UnmapTemp, Kept
<1>6. CASE AllocTemp(e)
  <2>1. PICK p \in Pages : p \notin InUse /\ frame' = [frame EXCEPT ![p] = Zero]
    BY <1>6 DEF AllocTemp
  <2>2. pte' = pte /\ pc' = pc
    BY <1>6 DEF AllocTemp
  <2>3. \A va \in VAs : pte[f][va] # None => pte[f][va].page # p
    BY <2>1, AllocFacts
  <2>4. QED
    BY <1>0, <2>1, <2>2, <2>3 DEF Kept, IInv, TypeOK
<1>7. CASE CopyPage(e)
  <2>1. pte' = pte /\ pc' = pc
    BY <1>7 DEF CopyPage
  <2>2. QED
    BY <1>0, <1>7, <2>1, CopyFacts DEF Kept, IInv, TypeOK
<1>8. CASE MapCopy(e)
  <2>1. PICK va \in VAs : va = fault[e].va
    BY <1>8, MapCopyFacts
  <2>2. Sets(e, va, tmp[e], "W") /\ pc' = pc /\ frame' = frame /\ CopyOf(e)
        /\ fault[e] # None /\ fault[e].step = "map"
    BY <1>8, <2>1, MapCopyFacts DEF MemInv, CopyTrue
  <2>3. ASSUME NEW vb \in VAs PROVE frame[pte'[f][vb].page] = frame[pte[f][vb].page]
    BY <2>1, <2>2 DEF Sets, CopyOf
  <2>4. QED
    BY <2>2, <2>3 DEF Kept
<1>9. QED
  BY <1>1, <1>2, <1>3, <1>4, <1>5, <1>6, <1>7, <1>8

(* A write is seen by its program, or by all at the shared address.        *)
LEMMA WriteSeen ==
    ASSUME Seen, NEW e \in Envs, NEW va \in VAs, NEW v \in Vals, Write(e, va, v)
    PROVE  /\ va # Shared => M!WriteOwn(e, va, v) /\ \A f \in Envs \ {e} : Kept(f)
           /\ va = Shared => M!WriteShared(e, v)
           /\ fault[e] = None
<1>1. /\ pc[e] \in Alive /\ fault[e] = None /\ pte[e][va].perm # "COW"
      /\ frame' = [frame EXCEPT ![pte[e][va].page] = v] /\ UNCHANGED <<pte, pc>>
  BY DEF Write, MayWrite, Running
<1> DEFINE P == pte[e][va].page
<1>2. ASSUME NEW f \in Envs, NEW vb \in VAs, pc[f] \in Alive
      PROVE  /\ pte[f][vb].page \in Pages
             /\ pte[f][vb].page = P => vb = va /\ (va # Shared => f = e)
  <2>1. pte[f][vb] # None /\ (pte[f][vb].page = P => vb = va /\ (va # Shared => f = e))
    BY <1>1, <1>2, WriterFacts DEF Seen, MemInv
  <2>2. QED
    BY <2>1, EntryFacts DEF Seen, IInv
<1>3. Memory[e] # None /\ Memory[e] \in [Private -> Vals]
  BY <1>1 DEF Seen, MemoryShape
<1>4. CASE va # Shared
  <2>1. ASSUME NEW f \in Envs \ {e} PROVE Kept(f)
    BY <1>1, <1>2, <1>4 DEF Kept, Seen, IInv, TypeOK
  <2>2. \A f \in Envs \ {e} : Memory'[f] = Memory[f]
    BY <2>1, KeptMemory
  <2>3. Memory'[e] = [Memory[e] EXCEPT ![va] = v]
    <3>1. Memory'[e] = [vb \in Private |-> frame'[pte[e][vb].page]]
      BY <1>1 DEF Seen
    <3>2. Memory[e] = [vb \in Private |-> frame[pte[e][vb].page]]
      BY <1>1 DEF Seen, MemoryShape
    <3>3. ASSUME NEW vb \in Private
          PROVE  frame'[pte[e][vb].page] = IF vb = va THEN v ELSE frame[pte[e][vb].page]
      BY <1>1, <1>2 DEF Seen, IInv, TypeOK, Private
    <3>4. QED
      BY <3>1, <3>2, <3>3
  <2>4. Memory' = [Memory EXCEPT ![e] = [Memory[e] EXCEPT ![va] = v]]
    BY <2>2, <2>3 DEF Seen, MemoryShape
  <2>5. SharedFrame' = SharedFrame
    <3>1. Shared \in VAs
      BY CowForkAssumption
    <3>2. frame'[pte[e][Shared].page] = frame[pte[e][Shared].page]
      BY <1>1, <1>2, <1>4, <3>1 DEF Seen, IInv, TypeOK
    <3>3. QED
      BY <1>1, <3>2 DEF Seen, MemoryShape
  <2>6. M!WriteOwn(e, va, v)
    BY <1>3, <2>4, <2>5 DEF M!WriteOwn
  <2>7. QED
    BY <1>1, <1>4, <2>1, <2>6
<1>5. CASE va = Shared
  <2>1. ASSUME NEW f \in Envs PROVE Memory'[f] = Memory[f]
    <3>1. CASE pc[f] \in Alive
      <4>1. Memory'[f] = [vb \in Private |-> frame'[pte[f][vb].page]]
        BY <1>1, <3>1 DEF Seen
      <4>2. Memory[f] = [vb \in Private |-> frame[pte[f][vb].page]]
        BY <3>1 DEF Seen, MemoryShape
      <4>3. \A vb \in Private : frame'[pte[f][vb].page] = frame[pte[f][vb].page]
        BY <1>1, <1>2, <1>5, <3>1 DEF Seen, IInv, TypeOK, Private
      <4>4. QED
        BY <4>1, <4>2, <4>3
    <3>2. CASE pc[f] \notin Alive
      BY <1>1, <3>2 DEF Seen, MemoryShape
    <3>3. QED
      BY <3>1, <3>2
  <2>2. Memory' = Memory
    BY <2>1 DEF Seen, MemoryShape
  <2>3. SharedFrame' = v
    <3>1. SharedFrame' = frame'[pte[e][Shared].page]
      BY <1>1 DEF Seen
    <3>2. QED
      BY <1>1, <1>2, <1>5, <3>1 DEF Seen, IInv, TypeOK
  <2>4. QED
    BY <1>1, <1>3, <1>5, <2>2, <2>3 DEF M!WriteShared
<1>6. QED
  BY <1>1, <1>4, <1>5

(* The child starts with its parent's memory, but for the stack.           *)
LEMMA StartSeen ==
    ASSUME Seen, NEW e \in Envs, Start(e)
    PROVE  /\ kid[e] \in Envs /\ M!Forked(e, kid[e])
           /\ \A f \in Envs : fault[f] # None => Kept(f)
<1>1. /\ pc[e] = "start" /\ pc[e] \in Forking /\ pc[e] \in Alive
      /\ pc' = [pc EXCEPT ![e] = "run", ![kid[e]] = "run"]
      /\ UNCHANGED <<pte, tmp, frame, fault>>
  BY DEF Start, Forking, Alive
<1>2. PICK k \in Envs : k = kid[e] /\ k # e /\ pc[k] = "embryo"
  BY <1>1, AtFacts DEF Seen, IInv, Kids
<1>3. pc'[k] = "run" /\ \A f \in Envs : f # k => (pc'[f] \in Alive <=> pc[f] \in Alive)
  BY <1>1, <1>2 DEF Seen, IInv, TypeOK, Alive
<1>4. \A f \in Envs \ {k} : Kept(f)
  BY <1>1, <1>3 DEF Kept
<1>5. \A f \in Envs \ {k} : Memory'[f] = Memory[f]
  BY <1>4, KeptMemory
<1>6. SharedFrame' = SharedFrame
  BY <1>1, <1>2, <1>4, KeptMemory
<1>7. pc[k] \notin Alive
  BY <1>2 DEF Alive, Forking
<1>8. Memory[k] = None /\ Memory[e] # None
      /\ Memory[e] = [va \in Private |-> frame[pte[e][va].page]]
  BY <1>1, <1>7 DEF Seen, MemoryShape
<1>9. Memory'[k] = [va \in Private |-> frame[pte[k][va].page]]
  BY <1>1, <1>3 DEF Seen, Alive
<1>10. ASSUME NEW va \in VAs
       PROVE  pte[k][va] # None /\ (va # Stack => pte[k][va].page = pte[e][va].page)
  <2>1. pte[k][va] # None
    BY <1>1, <1>2, OrderFacts DEF Seen, IInv, Progress, Turn
  <2>2. ForkOf(e)
    BY DEF Seen, MemInv, ForkMem
  <2>3. QED
    BY <1>1, <1>2, <2>1, <2>2 DEF ForkOf
<1>11. Stack \in Private /\ Stack \in VAs
  BY CowForkAssumption DEF Private
<1>12. PICK v \in Vals : v = frame[pte[k][Stack].page]
  <2>1. pte[k][Stack].page \in Pages
    BY <1>10, <1>11, EntryFacts DEF Seen, IInv
  <2>2. QED
    BY <2>1 DEF Seen, IInv, TypeOK
<1>13. Memory'[k] = [Memory[e] EXCEPT ![Stack] = v]
  <2>1. \A va \in Private : va # Stack => frame[pte[k][va].page] = Memory[e][va]
    BY <1>8, <1>10 DEF Private
  <2>2. Memory'[k] = [va \in Private |-> IF va = Stack THEN v ELSE Memory[e][va]]
    BY <1>9, <1>12, <2>1
  <2>3. Memory[e] = [va \in Private |-> Memory[e][va]]
    BY <1>8
  <2>4. QED
    BY <1>11, <2>2, <2>3
<1>14. Memory' = [Memory EXCEPT ![k] = [Memory[e] EXCEPT ![Stack] = v]]
  BY <1>5, <1>13 DEF Seen, MemoryShape
<1>15. M!Forked(e, k)
  BY <1>6, <1>8, <1>14 DEF M!Forked
<1>16. ASSUME NEW f \in Envs, fault[f] # None PROVE f # k
  <2>1. TempOf(f)
    BY DEF Seen, IInv, Temp
  <2>2. QED
    BY <1>7, <1>16, <2>1 DEF TempOf
<1>17. QED
  BY <1>2, <1>4, <1>15, <1>16

(* Who exits takes nothing along.                                          *)
LEMMA DestroySeen ==
    ASSUME Seen, NEW e \in Envs, env_destroy(e)
    PROVE  M!Exited(e) /\ \A f \in Envs \ {e} : Kept(f)
<1>1. /\ pc[e] \in Alive /\ pc' = [pc EXCEPT ![e] = "none"]
      /\ pte' = [pte EXCEPT ![e] = Unmapped] /\ frame' = frame
  BY DEF env_destroy
<1>2. pc'[e] \notin Alive /\ \A f \in Envs \ {e} : pc'[f] = pc[f] /\ pte'[f] = pte[f]
  BY <1>1 DEF Seen, IInv, TypeOK, Alive, Forking
<1>3. \A f \in Envs \ {e} : Kept(f)
  BY <1>1, <1>2 DEF Kept
<1>4. \A f \in Envs \ {e} : Memory'[f] = Memory[f]
  BY <1>3, KeptMemory
<1>5. Memory[e] # None /\ Memory'[e] = None
  BY <1>1, <1>2 DEF Seen, MemoryShape
<1>6. Memory' = [Memory EXCEPT ![e] = None]
  BY <1>4, <1>5 DEF Seen, MemoryShape
<1>7. SharedFrame' = SharedFrame \/ \A x \in Envs : Memory'[x] = None
  <2>1. CASE \E f \in Envs \ {e} : pc[f] \in Alive
    BY <1>3, <2>1, KeptMemory
  <2>2. CASE \A f \in Envs \ {e} : pc[f] \notin Alive
    BY <1>2, <1>5, <2>2 DEF Seen
  <2>3. QED
    BY <2>1, <2>2
<1>8. QED
  BY <1>3, <1>5, <1>6, <1>7 DEF M!Exited

LEMMA StepIsPrivate ==
    ASSUME Seen, [Next]_vars
    PROVE  /\ [M!PrivateNext]_<<Memory, SharedFrame>>
           /\ \A e \in Envs : fault[e] # None /\ pc'[e] \in Alive => Memory'[e] = Memory[e]
<1>1. CASE UNCHANGED vars \/ Monitor
  <2>1. UNCHANGED vars
    BY <1>1 DEF Monitor
  <2>2. Memory' = Memory /\ SharedFrame' = SharedFrame
    BY <2>1 DEF vars, Memory, SharedFrame
  <2>3. QED
    BY <2>2
<1>2. ASSUME NEW e \in Envs,
             \/ sys_exofork(e) \/ ReadEntry(e) \/ MapChild(e) \/ MapSelf(e)
             \/ \E va \in VAs : PageFault(e, va)
             \/ AllocTemp(e) \/ CopyPage(e) \/ MapCopy(e) \/ UnmapTemp(e)
      PROVE  Memory' = Memory /\ SharedFrame' = SharedFrame
  <2>1. IInv /\ MemInv
    BY DEF Seen
  <2>2. \A f \in Envs : Kept(f)
    BY <1>2, <2>1, QuietSteps
  <2>3. QED
    BY <2>2, Unseen
<1>3. ASSUME NEW e \in Envs, Start(e)
      PROVE  /\ M!PrivateNext
             /\ \A f \in Envs : fault[f] # None => Memory'[f] = Memory[f]
  BY <1>3, StartSeen, KeptMemory DEF M!PrivateNext
<1>4. ASSUME NEW e \in Envs, NEW va \in VAs, NEW v \in Vals, Write(e, va, v)
      PROVE  /\ M!PrivateNext
             /\ \A f \in Envs : fault[f] # None => Memory'[f] = Memory[f]
  <2>1. CASE va # Shared
    <3>1. M!WriteOwn(e, va, v) /\ fault[e] = None /\ \A f \in Envs \ {e} : Kept(f)
      BY <1>4, <2>1, WriteSeen
    <3>2. va \in Private
      BY <2>1 DEF Private
    <3>3. QED
      BY <3>1, <3>2, KeptMemory DEF M!PrivateNext
  <2>2. CASE va = Shared
    <3>1. M!WriteShared(e, v)
      BY <1>4, <2>2, WriteSeen
    <3>2. QED
      BY <3>1 DEF M!PrivateNext, M!WriteShared
  <2>3. QED
    BY <2>1, <2>2
<1>5. ASSUME NEW e \in Envs, env_destroy(e)
      PROVE  /\ M!PrivateNext
             /\ \A f \in Envs : pc'[f] \in Alive => Memory'[f] = Memory[f]
  <2>1. M!Exited(e) /\ \A f \in Envs \ {e} : Kept(f)
    BY <1>5, DestroySeen
  <2>2. pc'[e] \notin Alive
    BY <1>5 DEF env_destroy, Seen, IInv, TypeOK, Alive, Forking
  <2>3. QED
    BY <2>1, <2>2, KeptMemory DEF M!PrivateNext
<1>6. QED
  BY <1>1, <1>2, <1>3, <1>4, <1>5 DEF Next

LEMMA InitIsPrivate == Init => M!PrivateInit
<1> SUFFICES ASSUME Init PROVE M!PrivateInit
  OBVIOUS
<1>1. MemoryShape
  BY InitInv, MemInit, MemoryShapes
<1>2. First \in Envs /\ \A e \in Envs : pc[e] \in Alive <=> e = First
  BY CowForkAssumption DEF Init, Alive, Forking
<1>3. QED
  BY <1>1, <1>2 DEF MemoryShape, M!PrivateInit

(* Copy-on-write is not seen: every environment has memory of its own,     *)
(* which starts as a copy of its parent's, whatever forks, faults, writes  *)
(* and exits interleave.                                                   *)
THEOREM MemoryIsPrivate == Spec => Isolated
<1>1. IInv /\ MemInv /\ (IInv /\ MemInv)' /\ [Next]_vars
      => [M!PrivateNext]_<<Memory, SharedFrame>>
  BY SeenBefore, StepIsPrivate
<1>2. QED
  BY <1>1, InitIsPrivate, MemInvariance, PTL DEF Spec, Isolated, M!PrivateSpec

(* pgfault copies the page as it was, and nobody writes to it meanwhile.   *)
THEOREM FaultUnseen == Spec => FaultInvisible
<1>1. IInv /\ MemInv /\ (IInv /\ MemInv)' /\ [Next]_vars
      => [\A e \in Envs : fault[e] # None /\ pc'[e] \in Alive => Memory'[e] = Memory[e]]_vars
  BY SeenBefore, StepIsPrivate
<1>2. QED
  BY <1>1, MemInvariance, PTL DEF Spec, FaultInvisible
=============================================================================

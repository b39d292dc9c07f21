------------------------------ MODULE CowFork ------------------------------
(***************************************************************************)
(* lib/fork.c: fork, duppage and the copy-on-write fault handler, one      *)
(* system call per step, with the other environments running in between.   *)
(*                                                                         *)
(* The environment that forks writes to its own stack all the time (every  *)
(* system call stub does), also between the two sys_page_map calls of      *)
(* duppage that deal with the stack's page.  The exception stack has a     *)
(* page of its own in every environment and never faults; it is left out.  *)
(***************************************************************************)
EXTENDS Naturals, Sequences, FiniteSets

CONSTANTS
    Envs,
    First,     \* the environment that exists from the start
    Order,     \* the mapped addresses, in the ascending order of fork's loop
    Stack,     \* the address of the stack's page
    Shared,    \* the address of a PTE_SHARE page
    Pages,
    Vals,      \* contents of a page
    Zero,      \* the contents page_alloc gives it
    None

VAs == {Order[i] : i \in 1..Len(Order)}
Private == VAs \ {Shared}

(* "W": PTE_W; "COW": PTE_COW without PTE_W; "SHARE": PTE_W with PTE_SHARE *)
Perms == {"W", "COW", "SHARE"}

(* "alloc", "copy", "map", "unmap" are the handler, kept in fault.         *)
Handling == {"alloc", "copy", "map", "unmap"}

ASSUME CowForkAssumption ==
    /\ First \in Envs /\ Stack \in Private /\ Shared \in VAs /\ Zero \in Vals
    /\ Len(Order) \in Nat
    /\ None \notin Pages /\ None \notin [page : Pages, perm : Perms]
    /\ None \notin [va : VAs, step : Handling] /\ None \notin [Private -> Vals]

VARIABLES
    pte,      \* [Envs -> [VAs -> [page, perm] or None]]
    tmp,      \* [Envs -> page mapped at PFTEMP, or None]
    frame,    \* [Pages -> Vals]
    pc,       \* [Envs -> place in the program]
    at,       \* [Envs -> index into Order of the page being duplicated]
    entry,    \* [Envs -> the permission duppage has read]
    kid,      \* [Envs -> the child being made]
    fault     \* [Envs -> the address whose fault is being handled, or None]

vars == <<pte, tmp, frame, pc, at, entry, kid, fault>>

(* "none": no such environment; "embryo": made by sys_exofork, not started *)
(* "read", "child", "self": in duppage; "start": before sys_env_set_status *)
Forking == {"read", "child", "self", "start"}
Alive == {"run"} \cup Forking

TypeOK ==
    /\ pte \in [Envs -> [VAs -> [page : Pages, perm : Perms] \cup {None}]]
    /\ tmp \in [Envs -> Pages \cup {None}]
    /\ frame \in [Pages -> Vals]
    /\ pc \in [Envs -> {"none", "embryo"} \cup Alive]
    /\ at \in [Envs -> 1..Len(Order)]
    /\ entry \in [Envs -> Perms]
    /\ kid \in [Envs -> Envs \cup {None}]
    /\ fault \in [Envs -> [va : VAs, step : Handling] \cup {None}]

Unmapped == [va \in VAs |-> None]

Init ==
    /\ \E f \in [VAs -> Pages] :
          /\ \A x, y \in VAs : f[x] = f[y] => x = y
          /\ pte = [e \in Envs |->
                IF e # First THEN Unmapped
                ELSE [va \in VAs |-> [page |-> f[va],
                                      perm |-> IF va = Shared THEN "SHARE" ELSE "W"]]]
    /\ tmp = [e \in Envs |-> None]
    /\ frame = [p \in Pages |-> Zero]
    /\ pc = [e \in Envs |-> IF e = First THEN "run" ELSE "none"]
    /\ at = [e \in Envs |-> 1]
    /\ entry = [e \in Envs |-> "W"]
    /\ kid = [e \in Envs |-> None]
    /\ fault = [e \in Envs |-> None]

InUse == {pte[x[1]][x[2]].page : x \in {y \in Envs \X VAs : pte[y[1]][y[2]] # None}}
         \cup {tmp[e] : e \in Envs}

Running(e) == pc[e] \in Alive /\ fault[e] = None

-----------------------------------------------------------------------------
(* fork.                                                                   *)

sys_exofork(e) ==
    /\ Running(e) /\ pc[e] = "run"
    /\ \E c \in Envs :
          /\ pc[c] = "none"
          /\ pc' = [pc EXCEPT ![e] = "read", ![c] = "embryo"]
          /\ kid' = [kid EXCEPT ![e] = c]
    /\ at' = [at EXCEPT ![e] = 1]
    /\ UNCHANGED <<pte, tmp, frame, entry, fault>>

(* duppage, in three steps: read the entry, map the child's page, map ours *)
ReadEntry(e) ==
    /\ Running(e) /\ pc[e] = "read"
    /\ entry' = [entry EXCEPT ![e] = pte[e][Order[at[e]]].perm]
    /\ pc' = [pc EXCEPT ![e] = "child"]
    /\ UNCHANGED <<pte, tmp, frame, at, kid, fault>>

NewPerm(perm) == IF perm = "SHARE" THEN "SHARE" ELSE "COW"

(* The next turn of the loop, or its end.                                  *)
NextPage(e) ==
    IF at[e] < Len(Order)
    THEN at' = [at EXCEPT ![e] = @ + 1] /\ pc' = [pc EXCEPT ![e] = "read"]
    ELSE at' = at /\ pc' = [pc EXCEPT ![e] = "start"]

(* Faulty: a page that is copy-on-write already is not marked again.       *)
Faulty_MapChild(e) ==
    /\ Running(e) /\ pc[e] = "child"
    /\ LET va == Order[at[e]]
       IN  pte' = [pte EXCEPT ![kid[e]][va] =
                      [page |-> pte[e][va].page, perm |-> NewPerm(entry[e])]]
    /\ IF entry[e] = "W" THEN pc' = [pc EXCEPT ![e] = "self"] /\ at' = at
       ELSE NextPage(e)
    /\ UNCHANGED <<tmp, frame, entry, kid, fault>>

MapChild(e) ==
    /\ Running(e) /\ pc[e] = "child"
    /\ LET va == Order[at[e]]
       IN  pte' = [pte EXCEPT ![kid[e]][va] =
                      [page |-> pte[e][va].page, perm |-> NewPerm(entry[e])]]
    /\ IF NewPerm(entry[e]) = "COW" THEN pc' = [pc EXCEPT ![e] = "self"] /\ at' = at
       ELSE NextPage(e)
    /\ UNCHANGED <<tmp, frame, entry, kid, fault>>

(* Faulty: our own mapping keeps PTE_W.                                    *)
Faulty_MapSelf(e) ==
    /\ Running(e) /\ pc[e] = "self"
    /\ NextPage(e)
    /\ UNCHANGED <<pte, tmp, frame, entry, kid, fault>>

MapSelf(e) ==
    /\ Running(e) /\ pc[e] = "self"
    /\ pte' = [pte EXCEPT ![e][Order[at[e]]].perm = "COW"]
    /\ NextPage(e)
    /\ UNCHANGED <<tmp, frame, entry, kid, fault>>

Start(e) ==
    /\ Running(e) /\ pc[e] = "start"
    /\ pc' = [pc EXCEPT ![e] = "run", ![kid[e]] = "run"]
    /\ kid' = [kid EXCEPT ![e] = None]
    /\ UNCHANGED <<pte, tmp, frame, at, entry, fault>>

-----------------------------------------------------------------------------
(* Programs write to their memory; in fork, to the stack only.             *)

MayWrite(e, va) == Running(e) /\ (pc[e] = "run" \/ va = Stack)

Write(e, va, v) ==
    /\ MayWrite(e, va) /\ pte[e][va].perm # "COW"
    /\ frame' = [frame EXCEPT ![pte[e][va].page] = v]
    /\ UNCHANGED <<pte, tmp, pc, at, entry, kid, fault>>

(* page_fault_handler calls the upcall, which runs pgfault.                *)
PageFault(e, va) ==
    /\ MayWrite(e, va) /\ pte[e][va].perm = "COW"
    /\ fault' = [fault EXCEPT ![e] = [va |-> va, step |-> "alloc"]]
    /\ UNCHANGED <<pte, tmp, frame, pc, at, entry, kid>>

InHandler(e, from, to) ==
    /\ fault[e] # None /\ fault[e].step = from
    /\ fault' = [fault EXCEPT ![e] = IF to = "done" THEN None ELSE [@ EXCEPT !.step = to]]

AllocTemp(e) ==
    /\ InHandler(e, "alloc", "copy")
    /\ \E p \in Pages \ InUse :
          /\ tmp' = [tmp EXCEPT ![e] = p]
          /\ frame' = [frame EXCEPT ![p] = Zero]
    /\ UNCHANGED <<pte, pc, at, entry, kid>>

(* Faulty: the new page stays as page_alloc made it.                       *)
Faulty_CopyPage(e) ==
    /\ InHandler(e, "copy", "map")
    /\ UNCHANGED <<frame, pte, tmp, pc, at, entry, kid>>

CopyPage(e) ==
    /\ InHandler(e, "copy", "map")
    /\ frame' = [frame EXCEPT ![tmp[e]] = frame[pte[e][fault[e].va].page]]
    /\ UNCHANGED <<pte, tmp, pc, at, entry, kid>>

MapCopy(e) ==
    /\ InHandler(e, "map", "unmap")
    /\ pte' = [pte EXCEPT ![e][fault[e].va] = [page |-> tmp[e], perm |-> "W"]]
    /\ UNCHANGED <<tmp, frame, pc, at, entry, kid>>

UnmapTemp(e) ==
    /\ InHandler(e, "unmap", "done")
    /\ tmp' = [tmp EXCEPT ![e] = None]
    /\ UNCHANGED <<pte, frame, pc, at, entry, kid>>

(* Exit, or destruction by the parent at any point, the middle of a fork   *)
(* included: the child that fork was making is never started.              *)
env_destroy(e) ==
    /\ pc[e] \in Alive
    /\ pte' = [pte EXCEPT ![e] = Unmapped]
    /\ tmp' = [tmp EXCEPT ![e] = None]
    /\ pc' = [pc EXCEPT ![e] = "none"]
    /\ at' = [at EXCEPT ![e] = 1]
    /\ entry' = [entry EXCEPT ![e] = "W"]
    /\ kid' = [kid EXCEPT ![e] = None]
    /\ fault' = [fault EXCEPT ![e] = None]
    /\ UNCHANGED frame

(* Nobody is left: the kernel sits in its monitor (sched_halt).            *)
Monitor == (\A e \in Envs : pc[e] \notin Alive) /\ UNCHANGED vars

Next ==
    \/ Monitor
    \/ \E e \in Envs :
       \/ sys_exofork(e) \/ ReadEntry(e) \/ MapChild(e) \/ MapSelf(e) \/ Start(e)
       \/ \E va \in VAs : PageFault(e, va) \/ \E v \in Vals : Write(e, va, v)
       \/ AllocTemp(e) \/ CopyPage(e) \/ MapCopy(e) \/ UnmapTemp(e)
       \/ env_destroy(e)

Spec == Init /\ [][Next]_vars

-----------------------------------------------------------------------------
Maps(e, p) == \E va \in VAs : pte[e][va] # None /\ pte[e][va].page = p

(* e is between the two mappings of duppage for address va.                *)
Window(e, va) == pc[e] = "self" /\ Order[at[e]] = va

(* A page one environment can write is mapped by nobody else, but by the   *)
(* unstarted child while duppage is between its two mappings.              *)
WriterIsAlone ==
    \A e, f \in Envs, va \in VAs :
        /\ e # f /\ pte[e][va] # None /\ pte[e][va].perm = "W"
        /\ Maps(f, pte[e][va].page)
        => Window(e, va) /\ f = kid[e] /\ pc[f] = "embryo"

(* CowFork implements PrivateMem.                                          *)
Memory == [e \in Envs |-> IF pc[e] \in Alive
                          THEN [va \in Private |-> frame[pte[e][va].page]] ELSE None]
SharedFrame ==
    IF \E e \in Envs : pc[e] \in Alive
    THEN frame[pte[CHOOSE e \in Envs : pc[e] \in Alive][Shared].page] ELSE Zero

(* From the fault to the remapping and beyond, whatever the others do, the *)
(* handler changes nothing its program can see: pgfault copies the page as *)
(* it was, and nobody writes to it while it copies.                        *)
FaultInvisible ==
    [][\A e \in Envs : fault[e] # None /\ pc'[e] \in Alive => Memory'[e] = Memory[e]]_vars

M == INSTANCE PrivateMem WITH priv <- Memory, shm <- SharedFrame, Gone <- None
Isolated == M!PrivateSpec
=============================================================================

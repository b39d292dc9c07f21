------------------------------ MODULE ForkWalk ------------------------------
(***************************************************************************)
(* The loop of lib/fork.c (and of copy_shared_pages in lib/spawn.c) over   *)
(* the caller's page tables.  It reads them through the flat windows uvpde,*)
(* uvpd and uvpt, with one running index into each; the indices are kept   *)
(* in step by hand.  Only the first PML4 entry is below UTOP, so the walk  *)
(* starts at the page-directory pointers.                                  *)
(***************************************************************************)
EXTENDS Naturals

CONSTANTS
    NPDP,     \* page-directory pointers, NPDPENTRIES in the code
    NPD,      \* entries of a page directory, NPDENTRIES
    NPT,      \* entries of a page table, NPTENTRIES
    UXStack   \* the page number of the exception stack, which is not copied

ASSUME ForkWalkAssumption ==
    /\ NPDP \in Nat \ {0} /\ NPD \in Nat \ {0} /\ NPT \in Nat \ {0}
    /\ UXStack \in 0..NPDP * NPD * NPT - 1

Pdpes == 0..NPDP - 1
Pdes == 0..NPDP * NPD - 1
Ptes == 0..NPDP * NPD * NPT - 1

VARIABLES
    tables,                        \* the present entries: [pdp, pd, pt : sets]
    pdpe, pde, pte,                \* the loop counters
    each_pdpe, each_pde, each_pte, \* the indices into uvpde, uvpd and uvpt
    copied,                        \* the pages duppage was called for
    pc                             \* the loop that is at its test

walkVars == <<tables, pdpe, pde, pte, each_pdpe, each_pde, each_pte, copied, pc>>

WalkTypeOK ==
    /\ tables \in [pdp : SUBSET Pdpes, pd : SUBSET Pdes, pt : SUBSET Ptes]
    /\ pdpe \in 0..NPDP /\ pde \in 0..NPD /\ pte \in 0..NPT
    /\ each_pdpe \in 0..NPDP /\ each_pde \in 0..NPDP * NPD
    /\ each_pte \in 0..NPDP * NPD * NPT
    /\ copied \subseteq Ptes
    /\ pc \in {"pdpe", "pde", "pte", "done", "fault"}

(* An entry has a parent: what pgdir_walk creates and nothing takes away.  *)
AnyTables ==
    \E dp \in SUBSET Pdpes :
    \E d \in SUBSET {i \in Pdes : i \div NPD \in dp} :
    \E t \in SUBSET {i \in Ptes : i \div NPT \in d} :
        tables = [pdp |-> dp, pd |-> d, pt |-> t]

WalkStart ==
    /\ pdpe = 0 /\ pde = 0 /\ pte = 0
    /\ each_pdpe = 0 /\ each_pde = 0 /\ each_pte = 0
    /\ copied = {}
    /\ pc = "pdpe"

(* The walk needs the first directory entry after a missing PDPE to be     *)
(* missing too: nothing else brings each_pte back in step.  Every JOS      *)
(* layout is so, text being in the first gigabyte and file descriptors and *)
(* stacks well above the start of the fourth.                              *)
JosLayout(t) ==
    \A i \in 1..NPDP - 1 : i \in t.pdp /\ i - 1 \notin t.pdp => i * NPD \notin t.pd

WalkInit == AnyTables /\ JosLayout(tables) /\ WalkStart
AnyInit == AnyTables /\ WalkStart

(* Faulty: a missing table does not advance the loop.                      *)
Faulty_PdpeStuck ==
    /\ pc = "pdpe"
    /\ IF pdpe = NPDP
       THEN pc' = "done" /\ UNCHANGED <<pde, each_pde>>
       ELSE IF each_pdpe \in tables.pdp
       THEN pc' = "pde" /\ pde' = 0 /\ UNCHANGED each_pde
       ELSE each_pde' = (each_pdpe + 1) * NPD /\ UNCHANGED <<pde, pc>>
    /\ UNCHANGED <<tables, pdpe, each_pdpe, pte, each_pte, copied>>

PdpeLoop ==
    /\ pc = "pdpe"
    /\ IF pdpe = NPDP
       THEN pc' = "done" /\ UNCHANGED <<pdpe, pde, each_pdpe, each_pde>>
       ELSE IF each_pdpe \in tables.pdp
       THEN pc' = "pde" /\ pde' = 0 /\ UNCHANGED <<pdpe, each_pdpe, each_pde>>
       ELSE /\ each_pde' = (each_pdpe + 1) * NPD
            /\ pdpe' = pdpe + 1 /\ each_pdpe' = each_pdpe + 1
            /\ UNCHANGED <<pde, pc>>
    /\ UNCHANGED <<tables, pte, each_pte, copied>>

(* Faulty: skipping a page table forgets each_pte.                         *)
Faulty_PdeLoop ==
    /\ pc = "pde"
    /\ IF pde = NPD
       THEN /\ pc' = "pdpe" /\ pdpe' = pdpe + 1 /\ each_pdpe' = each_pdpe + 1
            /\ UNCHANGED <<pde, pte, each_pde, each_pte>>
       ELSE IF each_pde \in tables.pd
       THEN pc' = "pte" /\ pte' = 0 /\ UNCHANGED <<pdpe, pde, each_pdpe, each_pde, each_pte>>
       ELSE /\ pde' = pde + 1 /\ each_pde' = each_pde + 1
            /\ UNCHANGED <<pdpe, pte, each_pdpe, each_pte, pc>>
    /\ UNCHANGED <<tables, copied>>

PdeLoop ==
    /\ pc = "pde"
    /\ IF pde = NPD
       THEN /\ pc' = "pdpe" /\ pdpe' = pdpe + 1 /\ each_pdpe' = each_pdpe + 1
            /\ UNCHANGED <<pde, pte, each_pde, each_pte>>
       ELSE IF each_pde \in tables.pd
       THEN pc' = "pte" /\ pte' = 0 /\ UNCHANGED <<pdpe, pde, each_pdpe, each_pde, each_pte>>
       ELSE /\ each_pte' = (each_pde + 1) * NPT
            /\ pde' = pde + 1 /\ each_pde' = each_pde + 1
            /\ UNCHANGED <<pdpe, pte, each_pdpe, pc>>
    /\ UNCHANGED <<tables, copied>>

(* uvpt[each_pte] is readable only when its page table exists; otherwise   *)
(* the read faults, and pgfault, not finding PTE_COW, panics.              *)
PteLoop ==
    /\ pc = "pte"
    /\ IF pte = NPT
       THEN /\ pc' = "pde" /\ pde' = pde + 1 /\ each_pde' = each_pde + 1
            /\ UNCHANGED <<pte, each_pte, copied>>
       ELSE IF each_pte \div NPT \notin tables.pd
       THEN pc' = "fault" /\ UNCHANGED <<pde, pte, each_pde, each_pte, copied>>
       ELSE /\ copied' = IF each_pte \in tables.pt \ {UXStack}
                         THEN copied \cup {each_pte} ELSE copied
            /\ pte' = pte + 1 /\ each_pte' = each_pte + 1
            /\ UNCHANGED <<pde, each_pde, pc>>
    /\ UNCHANGED <<tables, pdpe, each_pdpe>>

Returned == pc \in {"done", "fault"} /\ UNCHANGED walkVars

WalkNext == PdpeLoop \/ PdeLoop \/ PteLoop \/ Returned

WalkSpec == WalkInit /\ [][WalkNext]_walkVars /\ WF_walkVars(WalkNext)
AnySpec == AnyInit /\ [][WalkNext]_walkVars

-----------------------------------------------------------------------------
(* duppage is called for every page mapped below UTOP but the exception    *)
(* stack, and fork does not die half-way: the child misses nothing.        *)
CopiesAddressSpace == pc \in {"done", "fault"} => copied = tables.pt \ {UXStack} /\ pc = "done"

(* The running indices name the entry the nested counters stand at,        *)
(* whatever was skipped: the walk reads no other table than it thinks.     *)
IndicesAgree ==
    /\ each_pdpe = pdpe
    /\ pc = "pde" => each_pde = pdpe * NPD + pde
    /\ pc = "pte" => /\ each_pde = pdpe * NPD + pde
                     /\ each_pte = each_pde * NPT + pte

(* The loop ends.                                                          *)
Ends == <>(pc \in {"done", "fault"})
=============================================================================

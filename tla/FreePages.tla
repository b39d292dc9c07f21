----------------------------- MODULE FreePages -----------------------------
(***************************************************************************)
(* The free list of physical pages (kern/pmap.c: page_init, page_alloc,    *)
(* page_free, page_decref), link by link, as operators on a record m with  *)
(* the fields link and ref (pages[].pp_link, pages[].pp_ref), head         *)
(* (page_free_list) and panicked.                                          *)
(*                                                                         *)
(* The list page_init builds ends in NULL; a list that page_free starts    *)
(* anew ends in a page linked to itself, so that a link other than NULL    *)
(* marks every page that page_free has put on the list.                    *)
(***************************************************************************)
EXTENDS Integers, FiniteSets, SequencesExt

CONSTANTS
    Pages,       \* the physical pages
    Usable,      \* the ones page_init links, in the order of their addresses
    RefMod,      \* 2^16: pp_ref is a uint16_t
    NULL

ASSUME FreePagesAssumption ==
    /\ Usable \in Seq(Pages) /\ IsInjective(Usable) /\ Usable # <<>>
    /\ RefMod \in Nat \ {0} /\ NULL \notin Pages

(* Page 0, the IO hole, the kernel and MPENTRY_PADDR are left out.         *)
page_init ==
    LET i == [p \in ToSet(Usable) |-> CHOOSE k \in DOMAIN Usable : Usable[k] = p]
    IN  [link |-> [p \in Pages |-> IF p \in ToSet(Front(Usable)) THEN Usable[i[p] + 1]
                                   ELSE NULL],
         head |-> Head(Usable)]

CanAlloc(m) == m.head # NULL

(* Faulty: the link of the page handed out is not reset.                   *)
Faulty_link_stays(m) ==
    [m EXCEPT !.head = IF m.link[m.head] = m.head THEN NULL ELSE m.link[m.head]]

(* page_alloc hands out m.head and leaves:                                 *)
page_alloc(m) ==
    [m EXCEPT !.head = IF m.link[m.head] = m.head THEN NULL ELSE m.link[m.head],
              !.link[m.head] = NULL]

(* Faulty: a page put on an empty list gets no link and the list no head.  *)
Faulty_page_free(m, p) ==
    IF m.link[p] # NULL \/ m.ref[p] # 0 THEN [m EXCEPT !.panicked = TRUE]
    ELSE [m EXCEPT !.head = IF m.head = NULL THEN NULL ELSE p, !.link[p] = m.head]

page_free(m, p) ==
    IF m.link[p] # NULL \/ m.ref[p] # 0 THEN [m EXCEPT !.panicked = TRUE]
    ELSE [m EXCEPT !.head = p, !.link[p] = IF m.head = NULL THEN p ELSE m.head]

Incref(m, p) == [m EXCEPT !.ref[p] = (@ + 1) % RefMod]

page_decref(m, p) ==
    LET n == [m EXCEPT !.ref[p] = (@ - 1) % RefMod]
    IN  IF n.ref[p] = 0 THEN page_free(n, p) ELSE n

-----------------------------------------------------------------------------
(* The list as a sequence: follow the links from the head until NULL or a  *)
(* page linked to itself, and no longer than there are pages.              *)
FreeSeq(m) ==
    LET Nth[k \in 1..Cardinality(Pages)+1] ==
            IF k = 1 THEN m.head
            ELSE IF Nth[k-1] = NULL \/ m.link[Nth[k-1]] = Nth[k-1] THEN NULL
            ELSE m.link[Nth[k-1]]
    IN  [k \in 1..Cardinality({k \in DOMAIN Nth : Nth[k] # NULL}) |-> Nth[k]]
=============================================================================

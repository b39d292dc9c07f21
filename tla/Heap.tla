-------------------------------- MODULE Heap --------------------------------
(***************************************************************************)
(* The user-level allocator, lib/malloc.c: it fills a page with blocks,    *)
(* counts them in the page's last word, and leaves the page when a request *)
(* does not fit.  A block of several pages has the count in its last page; *)
(* the entries of the others carry PTE_CONTINUED.                          *)
(*                                                                         *)
(* Memory is counted in words, the unit that malloc rounds to; an address  *)
(* is its distance from mbegin.                                            *)
(***************************************************************************)
EXTENDS Integers, FiniteSets

CONSTANTS
    NPages,     \* pages from mbegin to mend
    PGSIZE,     \* words in a page, the reference count included
    MAXMALLOC,  \* requests from here on are refused
    Sizes,      \* the sizes that programs ask for
    Blocks,     \* names for the blocks a program has at a time
    NoBlock     \* a name in no use

ASSUME HeapAssumption ==
    /\ NPages \in Nat \ {0} /\ PGSIZE \in Nat \ {0, 1} /\ MAXMALLOC \in Nat
    /\ Sizes \subseteq Nat /\ IsFiniteSet(Blocks) /\ NoBlock \notin Nat \X Nat

HeapPages == 0..NPages - 1

VARIABLES
    uvpt,    \* [HeapPages -> "free" | "last" | "continued"]
    ref,     \* the count in the last word of a page
    mptr,    \* where malloc goes on
    block,   \* [Blocks -> <<address, size>>], what the program has
    stale,   \* history: pages whose reference for mptr malloc has forgotten
    hangs    \* malloc does not return

heapVars == <<uvpt, ref, mptr, block, stale, hangs>>

HeapInit ==
    /\ uvpt = [p \in HeapPages |-> "free"] /\ ref = [p \in HeapPages |-> 0]
    /\ mptr = 0 /\ block = [b \in Blocks |-> NoBlock]
    /\ stale = {} /\ hangs = FALSE

Page(v) == v \div PGSIZE
Aligned(v) == v % PGSIZE = 0

-----------------------------------------------------------------------------
(* free(v) of the heap h = [uvpt, ref]: the continued pages go, then one   *)
(* reference of the page they lead to.                                     *)
Last(h, v) == CHOOSE p \in HeapPages :
    /\ Page(v) <= p /\ h.uvpt[p] # "continued"
    /\ \A q \in Page(v)..p - 1 : h.uvpt[q] = "continued"

(* Faulty: the continued pages stay.                                       *)
Faulty_Unmapped(h, v) == IF h.ref[Last(h, v)] = 1 THEN {Last(h, v)} ELSE {}

Unmapped(h, v) ==
    Page(v)..Last(h, v) - 1 \cup IF h.ref[Last(h, v)] = 1 THEN {Last(h, v)} ELSE {}

Release(h, v) ==
    [uvpt |-> [p \in HeapPages |-> IF p \in Unmapped(h, v) THEN "free" ELSE h.uvpt[p]],
     ref |-> [h.ref EXCEPT ![Last(h, v)] = @ - 1]]

heap == [uvpt |-> uvpt, ref |-> ref]
Becomes(h) == uvpt' = h.uvpt /\ ref' = h.ref

free(b) ==
    /\ block[b] # NoBlock
    /\ Becomes(Release(heap, block[b][1]))
    /\ block' = [block EXCEPT ![b] = NoBlock]
    /\ UNCHANGED <<mptr, stale, hangs>>

-----------------------------------------------------------------------------
(* malloc.  A block and the count at its end fit into the page of mptr.    *)
Fits(n) == ~Aligned(mptr) /\ Page(mptr) = Page(mptr + n)

MallocHere(b, n) ==
    /\ Fits(n)
    /\ ref' = [ref EXCEPT ![Page(mptr)] = @ + 1]
    /\ block' = [block EXCEPT ![b] = <<mptr, n>>]
    /\ mptr' = mptr + n
    /\ UNCHANGED <<uvpt, stale, hangs>>

(* Otherwise a partly used page is left, and its reference for mptr is     *)
(* dropped; the search starts at the page after it.                        *)
Left == IF Aligned(mptr) THEN heap ELSE Release(heap, mptr)
Start == IF Aligned(mptr) THEN Page(mptr) ELSE Page(mptr) + 1

(* Faulty: the count at the end is forgotten.                              *)
Faulty_Span(p, n) == p..p + (n + PGSIZE - 1) \div PGSIZE - 1

(* The pages of a block of n words, and its count, that begins page p.     *)
Span(p, n) == p..p + n \div PGSIZE

isfree(p, n) == Span(p, n) \subseteq {q \in HeapPages : Left.uvpt[q] = "free"}

(* From Start to mend, and once more from mbegin.                          *)
Nearer(p, q) == ((p + NPages - Start) % NPages) <= ((q + NPages - Start) % NPages)

Found(n) == {p \in HeapPages : isfree(p, n) /\ \A q \in HeapPages : isfree(q, n) => Nearer(p, q)}

MallocFresh(b, n) ==
    /\ ~Fits(n) /\ Start < NPages
    /\ \E p \in Found(n) :
          LET last == p + n \div PGSIZE
          IN  /\ uvpt' = [q \in HeapPages |-> IF q \notin Span(p, n) THEN Left.uvpt[q]
                                         ELSE IF q = last THEN "last" ELSE "continued"]
              /\ ref' = [Left.ref EXCEPT ![last] = 2]
              /\ mptr' = p * PGSIZE + n
              /\ block' = [block EXCEPT ![b] = <<p * PGSIZE, n>>]
              /\ stale' = IF Aligned(n) THEN stale \cup {last} ELSE stale
    /\ UNCHANGED hangs

(* No physical memory at one of the pages: those before it go again.       *)
MallocNoMemory(n) ==
    /\ ~Fits(n) /\ Start < NPages
    /\ \E p \in Found(n) : mptr' = p * PGSIZE
    /\ Becomes(Left)
    /\ UNCHANGED <<block, stale, hangs>>

(* No address space: the search has come to mend twice.                    *)
MallocNoSpace(n) ==
    /\ ~Fits(n) /\ Start < NPages /\ Found(n) = {}
    /\ Becomes(Left) /\ mptr' = 0
    /\ UNCHANGED <<block, stale, hangs>>

(* The search that starts at mend: mptr steps over it, and is equal to it  *)
(* no more.                                                                *)
MallocHangs(n) ==
    /\ ~Fits(n) /\ Start >= NPages
    /\ Becomes(Left) /\ mptr' = (NPages + 1) * PGSIZE /\ hangs' = TRUE
    /\ UNCHANGED <<block, stale>>

malloc(b, n) ==
    /\ block[b] = NoBlock /\ n < MAXMALLOC
    /\ \/ MallocHere(b, n) \/ MallocFresh(b, n)
       \/ MallocNoMemory(n) \/ MallocNoSpace(n) \/ MallocHangs(n)

HeapNext ==
    \/ ~hangs /\ \E b \in Blocks : free(b) \/ \E n \in Sizes : malloc(b, n)
    \/ hangs /\ UNCHANGED heapVars

HeapSpec == HeapInit /\ [][HeapNext]_heapVars

-----------------------------------------------------------------------------
Live == {b \in Blocks : block[b] # NoBlock}
Words(b) == block[b][1]..block[b][1] + block[b][2] - 1

(* The blocks a program has lie on mapped pages, none over another, none   *)
(* over a reference count that free will look at.                          *)
BlocksApart ==
    \A b \in Live :
        /\ \A c \in Live \ {b} : Words(b) \cap Words(c) = {}
        /\ \A w \in Words(b) :
              /\ uvpt[Page(w)] # "free"
              /\ uvpt[Page(w)] = "last" => ~Aligned(w + 1)

(* The references to page p: of the blocks that end in it, of mptr, and    *)
(* the one that malloc forgot.                                             *)
Users(p) ==
    Cardinality({b \in Live : Page(block[b][1] + block[b][2]) = p})
    + (IF ~Aligned(mptr) /\ Page(mptr) = p THEN 1 ELSE 0)
    + (IF p \in stale THEN 1 ELSE 0)

(* A page stays mapped exactly as long as somebody has a part of it: the   *)
(* count in its last word is that of its users, and the other pages of a   *)
(* block come and go with the block.                                       *)
PagesExact ==
    \A p \in HeapPages :
        /\ uvpt[p] = "last" <=> Users(p) > 0
        /\ uvpt[p] = "last" => ref[p] = Users(p)
        /\ uvpt[p] = "continued" <=>
              \E b \in Live : p \in Page(block[b][1])..Page(block[b][1] + block[b][2]) - 1

(* What the comments say and the code does not do: "the page is freed when *)
(* the ref count hits zero" (malloc.c:11), "return 0; out of address       *)
(* space" (malloc.c:91).                                                   *)
NothingLeaks == stale = {}
MallocReturns == ~hangs
=============================================================================

------------------------------ MODULE PhysMem ------------------------------
(***************************************************************************)
(* Physical pages, reference counts and address spaces: page_insert,       *)
(* page_remove and the walks of kern/pmap.c, env_setup_vm and env_free of  *)
(* kern/env.c, and the page system calls of kern/syscall.c.                *)
(*                                                                         *)
(* The pages of the three levels under the root that a walk adds for a     *)
(* region are one page here.  An empty page table entry is 0 and so        *)
(* carries the address of physical page 0, which page_lookup returns.      *)
(* Permission bits are left out: they only make more calls fail.           *)
(***************************************************************************)
EXTENDS FreePages, FiniteSetsExt

CONSTANTS
    Envs,
    Boot,        \* the environment that exists from the start
    Page0,       \* the page at physical address 0
    VAs,         \* page-aligned user addresses below UTOP
    Region,      \* [VAs -> Regions]: the page table that covers an address
    LastSlot,    \* the addresses whose PTX is 511
    Swept,       \* the regions env_free visits: below PDX(UTOP) in its GB
    MaxLost,     \* bound on the pages that get lost
    MaxNull,     \* bound on the decrements of page 0 that are followed
    None

ASSUME PhysMemAssumption ==
    /\ Boot \in Envs /\ IsFiniteSet(Envs)
    /\ Page0 \in Pages \ ToSet(Usable) /\ IsFiniteSet(Pages) /\ None \notin Pages
    /\ IsFiniteSet(VAs) /\ LastSlot \subseteq VAs
    /\ MaxLost \in Nat /\ MaxNull \in 1..RefMod-2

(* The kernel panics in env_create when there is no memory for it.         *)
ASSUME BootAssumption == Len(Usable) > 2

Regions == {Region[va] : va \in VAs}

Entry == [page : Pages, p : BOOLEAN]
Empty == [page |-> Page0, p |-> FALSE]
Pte(pg) == [page |-> pg, p |-> TRUE]

VARIABLE
    mem   \* link, ref, head, panicked: the allocator (FreePages);
          \* root, tab, pte: the page tables of every environment
          \* (root[e] = None: e does not exist); lost: references left
          \* behind by env_free; dropped: pages left behind by
          \* sys_page_alloc (lost and dropped are not in the code)

Memory ==
    [link : [Pages -> Pages \cup {NULL}], ref : [Pages -> 0..RefMod-1],
     head : Pages \cup {NULL}, panicked : BOOLEAN,
     root : [Envs -> Pages \cup {None}],
     tab : [Envs -> [Regions -> Pages \cup {None}]],
     pte : [Envs -> [VAs -> Entry]],
     lost : [Pages -> Nat], dropped : SUBSET Pages]

TypeOK == mem \in Memory

-----------------------------------------------------------------------------
(* pmap.c.                                                                 *)

(* page_alloc, and the reference its caller takes.                         *)
Take(m) == Incref(page_alloc(m), m.head)

AddTab(m, e, r) ==
    IF m.tab[e][r] # None THEN m
    ELSE [Take(m) EXCEPT !.tab[e][r] = m.head]

(* The walk with create = 1; it fails when memory runs out.                *)
CanWalk(m, e, va) == m.tab[e][Region[va]] # None \/ CanAlloc(m)

pml4e_walk(m, e, va) == AddTab(m, e, Region[va])

(* page_lookup finds an entry, empty or not, as soon as its table exists.  *)
HasTable(m, e, va) == m.tab[e][Region[va]] # None

page_lookup(m, e, va) == m.pte[e][va].page

page_remove(m, e, va) ==
    IF ~HasTable(m, e, va) THEN m
    ELSE [page_decref(m, page_lookup(m, e, va)) EXCEPT !.pte[e][va] = Empty]

(* Faulty: the page that is mapped there already is counted again.         *)
Faulty_insert_counts_again(m, e, va, p) ==
    LET t == pml4e_walk(m, e, va)
        old == t.pte[e][va]
        u == IF old = Empty \/ old.page = p THEN t ELSE page_remove(t, e, va)
    IN  [Incref(u, p) EXCEPT !.pte[e][va] = Pte(p)]

page_insert(m, e, va, p) ==
    LET t == pml4e_walk(m, e, va)
        old == t.pte[e][va]
        u == IF old = Empty THEN t ELSE page_remove(t, e, va)
    IN  IF old.page = p THEN [t EXCEPT !.pte[e][va] = Pte(p)]
        ELSE [Incref(u, p) EXCEPT !.pte[e][va] = Pte(p)]

-----------------------------------------------------------------------------
(* env_setup_vm, and env_free.                                             *)

env_setup_vm(m, e) == [Take(m) EXCEPT !.root[e] = m.head]

NoTables == [r \in Regions |-> None]
NoEntries == [va \in VAs |-> Empty]

(* The mappings env_free removes and the tables it frees, and what else    *)
(* refers to p: the references it leaves behind.                           *)
SweptVAs(m, e) == {va \in VAs \ LastSlot : Region[va] \in Swept /\ m.pte[e][va].p}
SweptTabs(m, e) == {r \in Swept \cap Regions : m.tab[e][r] # None}

Leaves(m, e, p) ==
    Cardinality({va \in VAs \ SweptVAs(m, e) : m.pte[e][va] = Pte(p)})
    + Cardinality({r \in Regions \ Swept : m.tab[e][r] = p})

(* In which order pages are freed only decides which one page_alloc hands  *)
(* out next.                                                               *)
UnmapAll(m, e, vas) ==
    LET Unmap(va, x) == page_remove(x, e, va)
    IN  FoldSet(Unmap, m, vas)

FreeTables(m, e, rs) ==
    LET FreeTab(r, x) == page_decref([x EXCEPT !.tab[e][r] = None], x.tab[e][r])
    IN  FoldSet(FreeTab, m, rs)

env_free(m, e) ==
    LET unmapped == UnmapAll(m, e, SweptVAs(m, e))
        n == page_decref(FreeTables(unmapped, e, SweptTabs(m, e)), m.root[e])
    IN  [n EXCEPT !.root[e] = None, !.tab[e] = NoTables, !.pte[e] = NoEntries,
                  !.lost = [p \in Pages |-> IF p = Page0 THEN 0 ELSE @[p] + Leaves(m, e, p)]]

-----------------------------------------------------------------------------
(* The system calls, by environment c.                                     *)

Exists(e) == mem.root[e] # None

(* envid2env with checkperm: every other environment is a child of Boot.   *)
MayControl(c, e) == Exists(c) /\ Exists(e) /\ (e = c \/ c = Boot)

(* pages[0].pp_ref is only followed through its first MaxNull decrements.  *)
Becomes(m) ==
    /\ (-m.ref[Page0]) % RefMod <= MaxNull
    /\ Cardinality(m.dropped)
       + Cardinality({x \in Pages \X (1..MaxLost+1) : x[2] <= m.lost[x[1]]}) <= MaxLost
    /\ mem' = m

sys_exofork(c, e) ==
    /\ Exists(c) /\ ~Exists(e) /\ CanAlloc(mem)
    /\ Becomes(env_setup_vm(mem, e))

(* When page_insert finds no memory for a page table, the page it was to   *)
(* map, which was the last one, is freed again.                            *)
sys_page_alloc(c, e, va) ==
    /\ MayControl(c, e) /\ CanAlloc(mem)
    /\ LET m == page_alloc(mem)
       IN  \/ CanWalk(m, e, va) /\ Becomes(page_insert(m, e, va, mem.head))
           \/ ~CanWalk(m, e, va) /\ Becomes(page_free(m, mem.head))

(* The checks of va and perm come after page_alloc.                        *)
PageAllocInvalid(c, e) ==
    /\ MayControl(c, e) /\ CanAlloc(mem)
    /\ Becomes([page_alloc(mem) EXCEPT !.dropped = @ \cup {mem.head}])

Transfer(src, srcva, dst, dstva) ==
    /\ HasTable(mem, src, srcva)
    /\ CanWalk(mem, dst, dstva)
    /\ Becomes(page_insert(mem, dst, dstva, page_lookup(mem, src, srcva)))

sys_page_map(c, src, srcva, dst, dstva) ==
    /\ MayControl(c, src) /\ MayControl(c, dst)
    /\ Transfer(src, srcva, dst, dstva)

(* The page part of sys_ipc_try_send; who may receive is not a question of *)
(* memory (EnvSched has it).                                               *)
sys_ipc_try_send(c, r, srcva, dstva) ==
    /\ Exists(c) /\ Exists(r)
    /\ Transfer(c, srcva, r, dstva)

sys_page_unmap(c, e, va) ==
    /\ MayControl(c, e)
    /\ Becomes(page_remove(mem, e, va))

(* The page tables of an environment with no mapping at all would be read  *)
(* from physical page 0; programs map before they exit.                    *)
env_destroy(c, e) ==
    /\ MayControl(c, e) /\ \E r \in Regions : mem.tab[e][r] # None
    /\ Becomes(env_free(mem, e))

(* Any call that fails, and everything that is not about memory.           *)
Other == UNCHANGED mem

(* After env_create of Boot: its image and its stack (load_icode).         *)
Load(m, e, va) == page_insert(page_alloc(m), e, va, m.head)

Bare == [link |-> page_init.link, head |-> page_init.head, panicked |-> FALSE,
         ref |-> [p \in Pages |-> 0], root |-> [e \in Envs |-> None],
         tab |-> [e \in Envs |-> NoTables], pte |-> [e \in Envs |-> NoEntries],
         lost |-> [p \in Pages |-> 0], dropped |-> {}]

Init == \E image \in VAs : Region[image] \in Swept /\ image \notin LastSlot
                           /\ mem = Load(env_setup_vm(Bare, Boot), Boot, image)

(* Programs map and send what they have: fork and the library look at uvpt *)
(* first.  The kernel does not ask for it (AnyNext).                       *)
Mapped(e, va) == mem.pte[e][va].p

Calls(c, e) ==
    \/ sys_exofork(c, e) \/ PageAllocInvalid(c, e) \/ env_destroy(c, e)
    \/ \E va \in VAs : sys_page_unmap(c, e, va) \/ sys_page_alloc(c, e, va)
    \/ \E va, dst \in VAs : Mapped(c, va) /\ sys_ipc_try_send(c, e, va, dst)
    \/ \E d \in Envs, va, dst \in VAs : Mapped(e, va) /\ sys_page_map(c, e, va, d, dst)

(* The counts are followed until an increment could make one wrap.         *)
NoneFull == \A p \in Pages \ {Page0} : mem.ref[p] < RefMod - 1

Next == Other \/ (~mem.panicked /\ NoneFull /\ \E c, e \in Envs : Calls(c, e))

AnyNext ==
    \/ Next
    \/ \E c, e, d \in Envs, va, dst \in VAs : sys_page_map(c, e, va, d, dst)

Spec == Init /\ [][Next]_mem
AnySpec == Init /\ [][AnyNext]_mem

-----------------------------------------------------------------------------
(* The references to page p that the page tables hold.                     *)
Mappings(m, p) == {x \in Envs \X VAs : m.pte[x[1]][x[2]].p /\ m.pte[x[1]][x[2]].page = p}

Tables(m, p) == {x \in Envs \X Regions : m.tab[x[1]][x[2]] = p}
Roots(m, p) == {e \in Envs : m.root[e] = p}

Refs(m, p) ==
    Cardinality(Mappings(m, p)) + Cardinality(Tables(m, p)) + Cardinality(Roots(m, p))

FreeSet(m) == ToSet(FreeSeq(m))

(* pp_ref counts exactly the references that exist and those env_free left *)
(* behind; the user library reads it (lib/pageref.c) to see who else has a *)
(* page.  Page 0 is miscounted by unmapping what is not mapped.            *)
RefsExact == \A p \in Pages \ {Page0} : mem.ref[p] = Refs(mem, p) + mem.lost[p]

(* The links of the free list lead to every page nobody refers to, but for *)
(* those sys_page_alloc dropped, and to each once: page_alloc and          *)
(* page_free keep the two kinds of list end apart.                         *)
FreeExact ==
    /\ IsInjective(FreeSeq(mem))
    /\ FreeSet(mem) = {p \in ToSet(Usable) : mem.ref[p] = 0} \ mem.dropped

(* The double-free check of page_free (pmap.c:494) never stops a kernel    *)
(* whose callers drop only references they hold.                           *)
NeverPanics == ~mem.panicked

(* What the comments say and the code does not do.                         *)

(* env_free frees "all memory it uses" (env.c:430).                        *)
EnvFreeFreesAll ==
    [][\A e \in Envs : mem.root[e] # None /\ mem'.root[e] = None =>
          \A p \in Pages : Refs(mem, p) > 0 /\ Refs(mem', p) = 0 => p \in FreeSet(mem')]_mem

(* A source that is not mapped is refused (syscall.c:240): so no address   *)
(* ever shows physical page 0, which page_alloc does not hand out.         *)
Page0Unmapped == Mappings(mem, Page0) = {}
=============================================================================

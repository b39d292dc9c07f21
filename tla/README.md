# TLA+ models of the JOS kernel (MIT-JOS-64bit-CSE506, lab6)

The repository holds six cumulative snapshots of a 64-bit, multiprocessor JOS:
`lab1` … `lab6`.  Each snapshot contains the earlier one, so the models follow
`src/lab6` only; paths below are relative to it.  Vendored code (lwIP under
`net/lwip` except `net/lwip/jos`, libdwarf and the DWARF reader under `kern/`)
is not modelled, but for the control of the lwIP calls that wait.

1. Inventory of the system — 2. What is modelled, and how it corresponds to the
code — 3. The runs — 4. The proofs — 5. Where the code departs from its own
comments — 6. What is not modelled — 7. Plan

## 1. Inventory

| Component | State | Operations | Talks to |
|---|---|---|---|
| Environments, scheduler, traps (`kern/env.c`, `sched.c`, `trap.c`, the status calls of `syscall.c`) | `envs[]`, `env_free_list`, per-CPU `cpu_env`, `cr3`, `cpu_status` | `env_alloc`, `env_free`, `env_destroy`, `env_run`, `env_pop_tf`, `sched_yield`, `sched_halt`, `trap`, `sys_exofork`, `sys_env_set_status`, `sys_env_destroy`, `sys_yield` | every other part; runs under the big kernel lock |
| Big kernel lock (`kern/spinlock.c`) | `locked`, debug field `cpu` | `spin_lock`, `spin_unlock`, `holding` | all kernel entry points |
| Multiprocessor start (`kern/init.c`, `kern/mpentry.S`) | `mpentry_kstack`, `cpu_status` | `boot_aps`, `mp_main`, `i386_init` | the lock, the scheduler |
| Physical and virtual memory (`kern/pmap.c`, page calls of `syscall.c`) | `pages[].pp_ref`, `pp_link`, `page_free_list`, page tables, per-CPU TLBs | `page_alloc/free/decref/insert/lookup/remove`, `tlb_invalidate`, `sys_page_alloc/map/unmap` | environments (free on exit), IPC (page transfer), user `fork`, pipes, file server |
| IPC (`sys_ipc_*`, `lib/ipc.c`) | `env_ipc_*` fields | `sys_ipc_try_send`, `sys_ipc_recv`; `ipc_send` retries, `ipc_recv` | file server, network server |
| User page faults and fork (`kern/trap.c` page_fault_handler, `lib/pgfault.c`, `lib/fork.c`) | PTEs with `PTE_COW`, exception stack | `pgfault`, `duppage`, `fork` | memory |
| File descriptors and pipes (`lib/fd.c`, `lib/pipe.c`, `lib/pageref.c`) | fd pages, the shared `struct Pipe` | `pipe`, `dup`, `close`, `read`, `write`, `pipeisclosed` | reference counts of memory, fork |
| File server (`fs/serv.c`, `fs/fs.c`, `fs/bc.c`, `lib/file.c`) | `opentab`, block cache | `openfile_alloc/lookup`, `serve_*`, `file_read`, `walk_path` | IPC; reference counts tell it which slots are free |
| E1000 driver (`kern/e1000.c`) | descriptor rings, `TDT`, `RDT` | `net_pci_transmit`, `net_pci_receive` | the card by DMA, `sys_net_*`, `net/output.c`, `net/input.c` |
| Network server (`net/serv.c`, `input.c`, `output.c`, `timer.c`) | 20 request pages `buse[]`, threads | `get_buffer`, `put_buffer`, `serve`, `serve_thread`, `process_timer` | IPC with clients, the input, output and timer environments; lwIP's `tcpip_thread` |
| User threads and lwIP port (`net/lwip/jos/arch`) | run queue, semaphores, mailboxes | `thread_yield`, `thread_wait`, `thread_wakeup`, `sys_mbox_*`, `sys_sem_*` | network server |
| User heap (`lib/malloc.c`) | `mptr`, the per-page reference word | `malloc`, `free` | lwIP |
| Console (`kern/console.c`) | 512-byte ring | `cons_intr`, `cons_getc` | keyboard and serial interrupts |
| Spawn, wait, exit (`lib/spawn.c`, `wait.c`, `exit.c`) | child address space | `spawn`, `wait` | memory, environments |
| Boot loader, PCI, LAPIC, MP tables, monitor, printf | configuration read once | – | not modelled |

The hard behaviours are: several CPUs in user mode and at the edges of the
kernel, while the big lock serialises what is between them; environments that
are destroyed while they run elsewhere; user-level protocols made of several
system calls (fork, copy-on-write, pipes) that can be preempted between any two
of them; reference counts that carry meaning for user programs; and a device
that works on shared memory by itself.  `PROJECT.json` lists them one by one,
each at the line where it bites, under `hazards`.

What makes each component correct, in a line: an environment is on at most one
CPU and its slot and address space are not reused before that CPU has left; the
lock excludes and its debug checks do not misfire; each CPU starts on a stack of
its own, and all start; a page in use is not free and its count is exact; forked
memory is private, shared memory is common; a pipe delivers its stream and shows
its end when, and only when, it is there; a translation goes stale only by a change
that another CPU makes meanwhile; the rings are queues; the network server answers every call once
and keeps no slot; a descriptor stands for one open file until it is closed;
blocks of the heap do not overlap and their pages stay as long as they do.

## 2. What is modelled

One module per component; `*_proofs` hold theorems; the small abstract modules
say what a component promises and are checked as a `PROPERTY` of the detailed one
through `INSTANCE … WITH` and a refinement mapping.  Operators named `Faulty_…`
are variants of a definition with one plausible mistake; they show that the
properties notice it, and no specification uses them.

### EnvSched, EnvLife — environments and the scheduler

A kernel section, from `lock_kernel()` to `unlock_kernel()`, is one action,
because the big lock serialises sections (that is what `Spinlock` establishes).
What the code does *without* the lock is a step of its own: the entry of a trap
until the lock is taken (`TimerIrq`, `UserTrap`), `env_pop_tf` after
`unlock_kernel()` inside `env_run`, user mode, and the halted CPU.

* `mode[c]` says where a CPU is; `curenv`, `cr3`, `env_status`, `env_free_list`
  are the variables of the code; an identifier is the pair of generation and slot.
  A slot is used `MaxGen` times and then no more: the code starts its generations anew
  after 2^19 - 1 (`env.c:245`), and then gives identifiers a second time.  The model
  ends before that, so no property says anything about identifiers that come again.
* `env_run`, `sched_halt`, `sched_yield`, `trap_return` are operators over the
  status function of the moment, because each section changes the statuses first
  and leaves the kernel afterwards.  `env_run` demotes the previous environment,
  `sched_yield` scans circularly from the slot that ran last, `sched_halt` keeps
  `curenv` only when it drops into the monitor with the lock held.
* `env_destroy` has the three cases of the code: running elsewhere (becomes
  `ENV_DYING`), not running, itself.  `ReapZombie` is the check at trap entry.
* IPC appears with its statuses; the transfer of a page is in `PhysMem`.
* `Spec` lets programs start a child once and destroy a child once
  (`StartChild`, `DestroyOnce`), which is what `fork`, `spawn` and the tests do.
  The kernel enforces neither rule: `RekillSpec` and `RestartSpec` drop one each.

`EnvLife` is the life cycle a reader of `env.c` has in mind: absent, embryo,
ready, running, blocked, zombie.  `Life` says that every section is a step of it.

### Spinlock, LockSpec — the big kernel lock

`kern/spinlock.c` with `DEBUG_SPINLOCK`, one memory access per step, over the
store buffers of x86-TSO: `lk->cpu` is read by `holding()` in CPUs that do not
own the lock, and is written by plain stores.  `LockSpec` is a mutual-exclusion
lock that promises entry to somebody, not to everybody.

### Boot — the other processors

`Boot` EXTENDS `Spinlock` and runs its steps.  The boot processor takes the lock and
starts the others one at a time (`StartAp`, `ApIsUp`: `boot_aps`); a started CPU loads
its stack pointer from `mpentry_kstack` (`LoadStack`: `mpentry.S`) and announces
itself in `mp_main` before it queues for the lock.  `LeaveKernel` may say `CPU_HALTED`
(`sched_halt`) and `trap` says `CPU_STARTED` again, which is the word that
`boot_aps` polls.

### FreePages, PhysMem — pages, counts, address spaces

`FreePages` is the allocator link by link, as operators: `pp_link`, the list that
ends in `NULL` when `page_init` built it and in a page linked to itself when
`page_free` started it, the panic on a double free, and the 16-bit `pp_ref`.
`PhysMem` puts the page tables on top: `page_insert` with its removal of what was
there, `page_remove`, the walks that create tables and may run out of memory,
`env_setup_vm`, the sweep of `env_free`, and the system calls that use them.
The three levels below the root that a walk creates for a region are one page;
permission bits only make calls fail and are left out.  `sys_page_alloc` may take the
last page, find none for the table it needs, and free the page again.  `lost` and `dropped`
count what the code leaks, so that the other properties can be exact.
An empty entry of an existing table reads as physical page 0, as in the code:
unmapping it decrements the count of page 0 (`MaxNull` bounds how often that is
followed).  Programs map and send only what they have mapped, as the library
does; `AnySpec` drops that.  The model stops when some count is at its maximum
(`NoneFull`), because the kernel does not look whether `++` wraps.

### CowFork, PrivateMem — copy-on-write

`fork`, `duppage` and `pgfault` one system call per step; several environments
fork, write, fault and exit in between.  `PrivateMem` is the promise: every
environment has memory of its own, initialised from its parent's.  The mapping is
through the page tables and, while a fault is handled, through the old page.
`ForkWalk` is the loop over `uvpde`, `uvpd`, `uvpt` that calls `duppage`, with its
six counters; the loop of `copy_shared_pages` in `lib/spawn.c` is the same.

### Pipe

The ring of `devpipe_read` and `devpipe_write` one memory access per step; `close`,
`dup` and `fork` one system call per step in the order in which they touch the two
pages of a descriptor; `_pipeisclosed` with its two reads of a reference count,
in either order (C leaves it open), and its comparison of `env_runs`.
`Schedule` gives a CPU to an environment at any point, which moves `env_runs`.

### Tlb

Page tables and a TLB per CPU: `tlb_invalidate` acts on the executing CPU alone and
`env_run` and `sched_halt` reload `cr3`.  The processor may load or drop a
translation at any time.  A system call changes the mappings of any environment,
one that runs on another CPU included, as `envid2env` lets a parent do with a child.
`StaleOnlyByRemoteCall` says what the code does achieve: a translation a program uses
goes stale only when another CPU changes that mapping while the program runs.
That none ever does (`NoStaleAccess`) is what a shootdown would add, and is false (§5).

### E1000, PacketQueue

`net_pci_transmit` and `net_pci_receive` one descriptor or register access per
step, against a card that moves between head and tail.  The card is external
(QEMU's 82540EM): it sets DD, advances its head, and has an overflow flag for the
receive ring only.  `PacketQueue` is a bounded queue that both rings implement.
`Lag` bounds how many packets the card may be behind; the code relies on it (§5).

### Threads, SysArch, NetServ — the network server

Three layers, each EXTENDS the one before.  `Threads` is `thread.c`: one thread
executes, `cur_tc`, and the others stand in `thread_queue`; its operators are the
state changes of `thread_yield`, `thread_create`, `thread_halt`, `thread_wakeup` and of
the beginning, the loop and the end of `thread_wait`.  `SysArch` is `sys_arch.c`:
semaphores with `counter` and `waiters`, and the ring of a mailbox with its two
semaphores.  `NetServ` is `net/serv.c` and who talks to it.

* A step goes from one possible yield, system call or semaphore to the next; `pc[t]`
  says where each thread is.  The thread that serves slot `s` is called `s`.
* `ipc_recv` and `ipc_send` stop the whole environment: a thread inside one stays
  `cur_tc`, and no thread runs (`Block`, `low_level_output`, `Answer`, `TimerAnswered`).
* `Block` is `get_buffer` and the entry into `ipc_recv`; `Flush` the yields before it.
  Without a free slot the server panics (`Overflow`).
* `Invalid` is the request without a page, whose slot stays in use for ever.
* `serve_thread` looks at the request.  It may answer at once (an unknown request code, a
  call that lwIP refuses, a packet not read to its end), post a call to `tcpip_thread` and
  wait for `op_completed` (`PostCall`, `TakeCall`, `CallCompleted`), or take a packet
  from its connection's mailbox (`FetchPacket`), after which only TCP posts a call.
* A connection is one of TCP (`Streams`) or of UDP.  `PerformCall` ends a call at once,
  or leaves a TCP connect, write or close begun (`conn[c] = "begun"`): `do_connect`,
  `do_writemore`, `do_close_internal`.  It is ended later by the thread of an
  `NSREQ_INPUT` or by the tcp timer (`CallEnds`: `do_connected`, `sent_tcp`, `poll_tcp`),
  by a reset (`err_tcp`, which first posts to the reader and may wait for room, then
  `CallFails`), or never.
* `Effects` is what a packet may lead to: data for the mailbox (`InputPacket`), the end of
  the stream (`EndOfStream`), a reset, the end of a begun call, an answer to the peer, nothing.
  Which of them depends on sequence numbers and timers that are not modelled, so each may
  happen whenever the connection's state allows it.
* `Timeout` is the only timed wait, that of `tcpip_thread`.  It stands for the tcp timer that
  `tcpip_thread` runs itself (`tcpip.c:77`) and for the two threads of `serv.c` that call
  `tcp_fasttmr` and `tcp_slowtmr`; one timeout concerns one connection.
* A packet, an answer or a call may send, and then waits for the output environment.
* Clients, timer, input and output environments are the loops of `lib/nsipc.c` and
  `net/*.c`, with the gap between their send and their receive.  `input` sends as many
  packets as arrive; `Window` bounds them in the runs only.

Simplified: client c owns connection c, which opens again under its name and keeps its
mailbox and semaphore after a close; `recv` takes one packet; a mailbox entry is
cleared when it is taken (the code leaves it, and nobody reads it again).

Each mailbox implements `PacketQueue`, the queue also used for the rings of the card.

### FsServer, OpenFiles — open files

The server keeps one page per entry of `opentab`, shares it with those that have the
file open and reads its reference count as the number of users.  `openfile_alloc`
looks at one entry per step (`ScanOn`, `serve_open`), because clients on other CPUs
go on meanwhile: `Dup`, `Fork`, `Unmap` (the second half of `close`), `Kill`.  The
identifier of an entry grows with each use, modulo `Gens`.  `Kill` leaves the
references that `env_free` leaves (`leaked`).  `OpenFiles` is what POSIX programmers
expect: a descriptor stands for an open file with one offset, shared by `dup` and
`fork` only.

### Heap

`lib/malloc.c` in words: `pte` of each page (free, last of a block, continued), the count in
the last word of a page, `mptr`.  The outcomes of `malloc` are its disjuncts: in the
page of `mptr`, on fresh pages, no physical memory, no address space, and the search
that does not end.  `stale` remembers where `malloc` has forgotten its own reference.

## 3. The runs

| Run | Shows | Bounds, and why they are enough |
|---|---|---|
| `env_safety` | one CPU per environment; `curenv`, status and `cr3` agree; no freed page table is loaded; the free list is exact; no wake-up is lost; zombies are freed by their CPU; refinement of `EnvLife`; every runnable environment runs | 2 CPUs, 3 slots, 2 generations, 4 environments ever made: one that runs, one that acts on it, a third that takes a slot again. With two environments a scan from slot 0 would not starve anybody. 126 575 states, no symmetry |
| `lock` | mutual exclusion, no spurious panic, refinement, somebody always enters; each CPU on its own stack; all CPUs start | 4 CPUs: one inside, one that has just left, two that read the debug field between; one starts, one is up, one has halted. 34 494 states |
| `mem_safety` | counts exact, free list exact, no panic | 2 environments, 5 pages and page 0, 4 addresses (two ordinary, one in a last slot, one in a region that `env_free` skips): two address spaces use up all pages, so that the list runs empty and starts anew, and every map runs into the out-of-memory case |
| `cow_safety` | memory is private across forks, `PTE_SHARE` pages are common, a fault changes nothing visible, a page that can be written directly has one user | 3 environments (parent, child, grandchild or second child), a stack and a shared page, 5 pages; 245 178 states |
| `walk_jos` | the fork walk copies every page and ends | all page tables of 3 × 2 × 2 entries of the JOS layout (16 536): every pattern of missing entries at each level, at the first, a middle and the last position |
| `pipe_safety` | the stream arrives, the end is seen when it is there and only then | 2 environments on one CPU, a ring of 2 bytes, transfers of 3: the ring is filled, emptied and wraps within a call |
| `tlb_local` | a translation in use goes stale only by another CPU's system call on that mapping | 2 CPUs, 2 environments, 2 addresses, 3 pages: each environment changes its own mappings and the other's, wherever that is; a third page takes the place of one that is dropped. 471 614 states |
| `e1000_rings` | packets go through both rings in order and whole, from `net_pci_transmit` to the wire and from the wire to the caller's buffer; every accepted packet is sent | 3 descriptors: head, tail and one between. 89 733 states |
| `net_server` | slots exact, each call served once, a panic only with all slots taken, mailboxes are queues, a client is answered unless its TCP call is never completed | 2 clients, one with TCP and packets, one with UDP; mailboxes of 2 and up to 2 packets under way or unread, which with the end of the stream and a reset fill a mailbox so that threads and `tcpip_thread` wait for room; 3 slots, so that they run out and the server panics; 32 flushes as in the code; one message without a page. 304 712 states |
| `fs_server` | no request on an open descriptor is refused; refinement of `OpenFiles` | 2 clients with 2 descriptors each, 2 entries, 2 files of one part, identifiers that repeat after 2 uses (2²² in the code), one client killed: entries run out, are used again and are shared across fork and dup. 1 152 186 states |
| `heap` | blocks apart, pages and counts exact | 5 pages of 3 words, 3 blocks of 0, 1, 2, 3, 5 and 6 words (6 is refused): blocks that end before, at and after the last word of their first and second page; a third block finds the space full. 71 867 states |
| `env_rekill` | violation: a zombie destroyed twice is freed under its CPU | as `env_safety` |

Deadlock is checked in every run but `net_server`, whose server stops when it has
panicked: other states in which nothing is left to do have an
explicit step (`MonitorLoop`, `Other`, `Returned`, `Monitor`, a heap that hangs).

Fairness.  `env_safety` (for `RunnableRuns`): a CPU in the kernel goes on and *some* CPU
gets a free lock (weak fairness of the disjunction of all sections, since `xchg`
promises no more); the timer of every CPU fires however often the program traps
(strong fairness).  `lock`: every CPU keeps executing, and the boot processor enters
`i386_init`; no other CPU is bound to trap.  `walk_jos`: the loop keeps executing.
`e1000_rings`: the card works through its ring and a started `net_pci_transmit` goes
on; nothing is assumed about programs that transmit or about packets that arrive.
`net_server`: the server is scheduled, and some of the environments that are on their way
into `ipc_recv` get there (one fairness condition for all of them, which is enough), since `RunnableRuns` gives each environment its turns; nobody is bound to
send a request, no packet to arrive and no timeout to pass.  So `CallAnswered` has
conditions, which name what the server cannot bring about itself: the client's
connection is not for ever in the middle of a TCP call (the peer or the timer ends it),
`tcpip_thread` is not for ever in `err_tcp` before a full mailbox, and no panic.
The other runs assume none.

Every property of a passing run is paired in `PROJECT.json` (`mutants`) with a faulty
variant of a definition under which TLC finds the property violated.

## 4. The proofs

All are checked by TLAPS for every value of the constants that satisfies the
modules' named assumptions (at least one slot and generation, `None` distinct, finitely
many clients, and environments of a pipe).  A refinement is proved like an invariant: the first states map to first
states, and each action maps to a step of the abstract specification or to none.

* `EnvSched_proofs` – type correctness and eight safety properties for any
  number of CPUs, slots and generations.  None is inductive alone: that one
  environment is on one CPU needs that every RUNNING or DYING environment *is* some
  CPU's `curenv` (otherwise `sched_yield` could pick it), which needs that a CPU
  that is neither in user mode nor on its way there has none.  `IInv` adds those
  facts, the exact free list and the started flags.  The argument follows the
  code: every section changes statuses to some `st` and then leaves by `env_run`,
  `sched_yield` or `sched_halt`.  `Leaving` is what must hold of `st`, `Left` what
  leaving gives; one lemma per way out proves the scheduling part for all
  actions at once.
  The same module proves that `EnvSched` implements `EnvLife`, and that zombies are freed
  by their CPU.
  A section either changes one environment that is not its own and returns to the
  program that was there (`Update`), or takes that program off the CPU, puts another on
  and changes no third (`Switch`).  With `IInv` each is a step of the life cycle; and
  a zombie can only be freed by the `Switch` of the CPU whose `curenv` it is, because
  `DestroyOnce` keeps others from destroying it again.
* `Boot_proofs`, the lock – mutual exclusion, no spurious panic, types, for any number of
  CPUs.  The invariant says what the store buffer of the CPU inside holds place by
  place (`OwnerView`), and that all other buffers are empty; so a CPU outside reads
  nobody or the one inside from `lk->cpu`, never itself.
  It implements `LockSpec` because `Xchg`, when it finds 0, and `ReleaseXchg` alone change who is
  between them (`holderOf`): a locked instruction empties the store buffer first.
* `Boot_proofs`, the start – `BootSpec` implements `Spec` of `Spinlock`, so that mutual exclusion, no
  spurious panic and `LockSpec` hold during start-up as well.  `OwnStack` needs more: a
  started CPU that has not yet announced itself is the one `boot_aps` waits for, and
  the boot processor stays in its first section until all are up, so that no CPU
  can have passed `lock_kernel` in `mp_main`, let alone have halted (`NoneHalts`):
  the word that `boot_aps` polls is never changed under it.
* `CowFork_proofs` – `WriterIsAlone`.  The invariant has to say what each unfinished fork
  and fault has in hand: the child of a fork is an embryo with one parent (`Kids`), and
  has every page of the loop so far and none it can write (`Tables`, `Progress`); the page
  a handler has copied to is mapped nowhere but at `PFTEMP` and at last in place (`Temp`).
  A page that can be written is then mapped once, except between the two
  `sys_page_map` calls of `duppage` (`Alone`).
  Refinement of `PrivateMem` needs more (`MemInv`): an environment maps a page at one
  address only, and the page of a `PTE_SHARE` address is the same for everyone; a program
  that is forking writes its stack alone, so that what the child has already been given
  is still what the parent reads; and a copy in `PFTEMP` stays true until it is mapped,
  because the page it was taken from is read-only for everybody.
* `PhysMem_proofs` – the counts, the free list and that `page_free` never panics, for any
  number of environments, pages and addresses.  The operations of `pmap.c` follow one
  another inside a system call, and between two of them a page may be allocated and
  not yet mapped, or have lost its last reference and not yet be freed: such pages are
  *in hand*.  `Alloc(m, H)` is the allocator's invariant when the pages of `H` are: some
  sequence of pages is linked from the head (`Chain`), it is injective, it holds the pages
  of count 0 that are not in hand, and no other page has a link, which is what tells
  `page_free` and `page_alloc` the two ends of the list apart.  `Good(m, H)` adds that each
  count is the number of references, as a sum over entries, tables and roots, plus the
  lost ones.  Each operation takes a page into hand or out of it; one lemma per
  operation, one per system call.  `env_free` removes its mappings in an order nobody
  needs to know: the fold over the set is unfolded one element at a time, by
  induction on the number of elements.
  The theorems need what the kernel does not check: that no count is
  incremented at 65535 (`NoneFull`) and that null entries are not unmapped so often that
  the count of page 0 gets to 1 (`MaxNull`, of a count that begins at 0 and wraps).
* `PageTables_proofs`, the walk – it copies everything and its indices agree, for page tables of
  any size, 512 entries of the code included.  What is copied is what lies below the
  entry the loops stand at (`WalkInv`).  `each_pte` is not in step after a missing
  page-directory pointer; `InStep` says that the page-directory entry to come is missing
  as well, which brings it back.  That needs `JosLayout` (see §5).
* `Rings_proofs`, the pipe – the stream arrives in order, and a closed end is seen, and
  only a closed one.  The bytes between the positions are at their places (`Stream`), and the writer's next place is none of
  theirs: two positions less than a ring apart differ modulo its size (`Places`).
  `Xfer` keeps what a loop has tested until it uses it, which holds because there is
  one reader and one writer.  For the counts, `Mappings` says which slots of each
  environment have the descriptor's page without the pipe's or the reverse: one, in the
  middle of close or dup, and the child's during a fork (`Copied`).
  That the end is seen *only* when it is there needs one CPU, and no fork under way
  while somebody compares (`ForksApart`); without either it is false (§5).
  `EofUnlessFork` proves it under the two, for any number of environments: as long as
  an environment that compares has not lost its CPU, nobody else has acted, so the
  count it read is still the count (`Compares`), and equal counts then leave no mapping
  for the other end (`EqualCounts`); afterwards an end nobody holds stays so, because
  descriptors are only copied (`HeldShrinks`).  `EofIsTrue` is the case of the run: of
  two environments one cannot compare while the other makes a third.
* `FsServer_proofs` – no request on an open descriptor is refused, and the refinement of
  `OpenFiles`.  The server never knows who has a file open, it looks at a reference
  count.  That is sound because a mapped page is there and carries the identifier of
  its entry (`Pages`), the client it works for waits and keeps the descriptor it asked
  about (`Waiting`, `Asking`), and the entry found for an open stays nobody's until
  the answer (`Opening`), since nobody can map a page that nobody has.
* `Rings_proofs`, the card – both rings are queues, for `Lag < N` and any `N`.  A descriptor is in a
  ring when its distance from the head is less than the length; `TxInv` and `RxInv` say
  that the DD bit tells this for all descriptors but the one being handed over.
  Fewer than `N` packets outstanding leave room for one more (`Room`), so the tail
  never meets the head from behind.
* `PageTables_proofs`, the TLB – types, and that a translation in use goes stale only by
  another CPU's change of that mapping.  Nothing is assumed about who may change whose
  mappings.  It needs that an environment is on one CPU (`OneCpu`): then the CPU that
  frees an environment is the only one that can hold translations of it (`env_free`, with the
  rule of `ZombieFreedByItsCpu`), and the way back to user mode empties them.
* `PageTables_proofs`, the heap – blocks are apart and counts exact, for any number and size
  of pages and any requests.  `HeapInv` says what neither property does: a continued
  page has one block only, which goes on to the next page (`Runs`), and the words after
  `mptr` in its page are nobody's (`Tip`).  It is stated of a heap and a place to go on
  (`Ok`), because `malloc` first leaves one page and then takes others, and may fail in
  between.  That a block covers no count follows from the arithmetic of pages:
  a word before a page boundary is on the page before (`NextWord`).

* `NetServ_proofs` – slots exact, each call served once, a panic only with all slots taken,
  and each mailbox a queue, for any number of clients, peers, slots and packets and
  mailboxes of any size.  Cooperative
  threads are what makes it hold: one that is neither at a semaphore nor at the start of
  its yield is `cur_tc` (`Unyielding` in `ThreadsOk`), so an answer, a slot given back or a
  packet sent is not interrupted.  The two semaphores of a mailbox count what its ring holds
  (`BoxesOk`); a slot without a thread has no request (`SlotsOk`); the requests of a client
  add up to what it waits for (`CallsOk`).  They are one invariant, `NetInv`.
  `NetPanics` says when `get_buffer` panics: when the main thread is about to block, every
  thread of a slot serves a client (one each, `CallsOk`) or is a packet that waits for
  room in a mailbox, because a thread just created runs before the main thread does again
  (`LineOk`).  There is no assumption on `QUEUE_SIZE` or on how many packets and
  messages there are: the panic can happen, and in the run it does.

Every safety property of the passing runs is stated by a theorem.  Model-checked only,
because out of the prover's reach: liveness under fairness (`RunnableRuns`,
`SomeoneEnters`, `BootEnds`, `Ends`, `AllSent`, `CallAnswered`).

## 5. Where the code departs from its own comments

Shown by a run (`findings` in `PROJECT.json` quotes the comment):

* `env_destroy` of a zombie frees it while its CPU still runs it (`env_rekill`).

Met while modelling; each is why a model has the precondition it has, and can be
seen by changing the configuration named:

* `sys_env_set_status` makes a running environment runnable, and a second CPU picks
  it up (`EnvSched`, `SPECIFICATION RestartSpec`, `OneCpuPerEnv` fails).
* `page_lookup` answers page 0 for an empty entry, so that `sys_page_map` maps it
  (`PhysMem`, `AnySpec`, `Page0Unmapped` fails), and `page_remove` decrements its count.
* `page_free` does not recognise the last page of the boot list as free, its link
  being `NULL`.
* `fork` reads `uvpt` at stale indices when the first 2 MB of a gigabyte are mapped
  and the gigabyte before is not (`ForkWalk`, `AnySpec`, `CopiesAddressSpace` fails).
  The layout of `inc/memlayout.h` never does that (`JosLayout`).
* With two CPUs `_pipeisclosed` misses a close or dup on the other CPU, whose
  `env_runs` it does not look at (`Pipe`, `NCpu = 2`, `NoFalseEof` fails).
* There is no TLB shootdown: a parent that unmaps a page of a child which runs on
  another CPU leaves the translation there (`Tlb_local.cfg`, `INVARIANT NoStaleAccess` fails).
* A transmit ring filled to its last descriptor looks empty to the card (`E1000`,
  `Lag = N`, `AllSent` fails); QEMU sends at the tail write and is never behind.
* `env_free` skips the last slot of each page table, and in the fourth gigabyte
  everything above `PDX(UTOP)`: stacks and descriptor pages are never freed, though
  `kern/env.c:430` says "Frees env e and all memory it uses." (`PhysMem_safety.cfg`,
  `PROPERTY EnvFreeFreesAll` fails).  A killed client of the file server therefore
  keeps its open-file entries in use for ever (`leaked` in `FsServer`).
* In the middle of a fork the descriptor pages are mapped in the child and the
  pipe's page is not yet: another holder sees the pipe closed, though `lib/pipe.c:123`
  says "if all the writers are gone, note eof" (`Pipe_safety.cfg` with a third
  environment, `NoFalseEof` fails).
* `sys_mbox_trypost` waits when the mailbox is full, though `recv_udp` "posts the packet
  to conn->recvmbox or deletes it on memory error" (`api_msg.c:127`): a program that
  does not read its socket keeps a slot of the server for each further packet
  (`NetServ`, `INVARIANT TrypostNeverBlocks` fails).  Such threads are woken
  in the order of the run queue, and a thread that finds a free slot when it comes by
  overtakes them, so packets for one connection may be delivered out of order.
* A block whose size is zero or a multiple of a page leaves `mptr` at a page boundary,
  where `malloc` no longer knows that it holds a reference: the page is never freed,
  though `malloc.c:11` says "the page is freed when the ref count hits zero"
  (`Heap`, `NothingLeaks` fails).  When a block has ended in the last page, the next
  search starts at `mend`, steps over it and never ends (`MallocReturns` fails).
* `PTE_CONTINUED` of `malloc.c:23` and `PTE_SHARE` of `inc/lib.h:85` are the same bit:
  all but the last page of a large block are shared, not copied, by `fork`.
* The network server runs out of receive slots and panics (`NS: buffer overflow`): a message
  without a page keeps one for ever, and so do packets for a program that does not read
  (`Overflow` of `NetServ`, which its run takes).  A reset makes
  `tcpip_thread` itself wait in `err_tcp` while that mailbox is full, and no call of any
  client is then performed until the program reads.
* The result of `thread_create` is not looked at (`net/serv.c:300`): when it fails, the slot
  is lost and the client waits for ever.
* `ipc_recv` writes through `from_env_store` and `perm_store` when the system call
  fails, also when they are null (`lib/ipc.c:33`).

## 6. What is not modelled, and why

`PROJECT.json` lists each part with its reason.

* Sequential, run once, or busy-waiting on a device: boot loader, PCI, LAPIC and MP
  tables, IDE driver, ELF loading of `spawn`, `walk_path` and the block cache of the file
  server (an immutable disk, one request at a time).
* Text: monitor, printf, debug information, libdwarf.
* Vendored: lwIP.  It makes up most of the lines of `net/`; `NetServ` has which thread waits for
  which semaphore and who ends the wait, with the outcome of each packet and timeout left
  open.  Its protocols, and whether the peer ever lets a call end, are not modelled.
* The earlier snapshots, each contained in lab6.  With the vendored code they are nine
  tenths of the lines of the repository, so the lines modelled are a small share of it.
* Console input: one ring under the kernel lock, without a test for full.
* `sys_time_msec` and its wrap; the polling loop of `wait`.

Within modelled parts: permission bits and `user_mem_check`, register contents,
`mmio_map_region`, the sizes of packets beyond too long or not; freeing of semaphores and
mailboxes, accept mailboxes, the arp timer, want of memory and a failing `thread_create`
in the network server, and the re-entry of lwIP by a packet while `err_tcp` waits;
clients killed while they wait for an answer (`ipc_send` then panics the server,
`lib/ipc.c:70`); answers to `fsipc` from anybody but the server (`lib/file.c:28` does not
look at the sender); a `seek` by one holder of a descriptor while another reads
(`lib/fd.c:268` and `fs/serv.c:192` write the same word); the reference count that
`devsock_close` reads.

## 7. Plan

Done, in this order: `EnvSched` with `EnvLife` and proofs; `Spinlock` with `LockSpec`
and proofs; `FreePages` and `PhysMem`; `CowFork` with `PrivateMem`; `ForkWalk`; `Pipe`;
`Tlb` with proofs; `E1000` with `PacketQueue`; `Threads`, `SysArch` and `NetServ`; `FsServer`
with `OpenFiles`; `Boot` with proofs; `Heap`; the proofs of `CowFork`, `ForkWalk`,
`Pipe`, `FsServer`, `E1000` and of the refinements; the proofs of `PhysMem`, `Heap` and `NetServ`;
`NoFalseEof` of `Pipe`.

Next, models: the release of connections in `NetServ` (semaphores and mailboxes freed
under a waiter, with the generation that tells), the sockets library with the count that
`devsock_close` reads, and the walk of `pml4e_walk` level by level with its roll-back when
memory runs out.

Next, proofs: the steps on which liveness rests and which the prover can reach, such as
a measure that every step of the fork walk decreases.

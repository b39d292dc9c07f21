------------------------------ MODULE FsServer ------------------------------
(***************************************************************************)
(* The file server (fs/serv.c) and its clients (lib/file.c, lib/fd.c).     *)
(* The server keeps a page for each open file, which it shares with those  *)
(* that have the file open, and takes the reference count of that page as  *)
(* the count of its users.  Clients run on other CPUs while the server     *)
(* works: they open, read, seek, dup, close, fork and die.                 *)
(*                                                                         *)
(* A file is FileLen parts, and a read delivers one.  A request without a  *)
(* page and one with an unknown code change nothing in the server and are  *)
(* left out.  A client that waits for an answer is not killed: ipc_send    *)
(* would panic the server (lib/ipc.c:70).                                  *)
(***************************************************************************)
EXTENDS Integers, FiniteSets

CONSTANTS
    Envs,       \* the clients
    Files,
    MAXFD,      \* descriptors of a client
    MAXOPEN,    \* entries of opentab
    Gens,       \* uses of an entry before its identifier repeats: 2^22
    FileLen,
    MaxKills,   \* bound: clients killed
    None

Fds == 0..MAXFD - 1
Opens == 0..MAXOPEN - 1

ASSUME FsAssumption ==
    /\ IsFiniteSet(Envs)
    /\ None \notin Files \cup Opens \cup [id : Opens \X Nat, offset : Nat]
    /\ {MAXFD, MAXOPEN, Gens, FileLen} \subseteq Nat \ {0} /\ MaxKills \in Nat

VARIABLES
    opentab,    \* [Opens -> [gen, o_file]]
    page,       \* [Opens -> the Fd page at o_fd: [id, offset], or None]
    leaked,     \* [Opens -> references to the page that nobody can drop]
    fdt,        \* [Envs -> [Fds -> the entry whose page is mapped, or None]]
    client,     \* [Envs -> "none" | "run" | "sent" | "recv" | "unmap"]
    busy,       \* [Envs -> the descriptor that is opened, read or closed]
    srv,        \* [pc, req, i, r]: the server
    kills

vars == <<opentab, page, leaked, fdt, client, busy, srv, kills>>

NoFds == [fd \in Fds |-> None]
Idle == [pc |-> "recv", req |-> None, i |-> 0, r |-> 0]

Init ==
    /\ opentab = [o \in Opens |-> [gen |-> 0, o_file |-> None]]
    /\ page = [o \in Opens |-> None]
    /\ leaked = [o \in Opens |-> 0]
    /\ fdt = [e \in Envs |-> NoFds]
    /\ client = [e \in Envs |-> "none"]
    /\ busy = [e \in Envs |-> None]
    /\ srv = Idle /\ kills = 0

Mappings(o) == Cardinality({x \in Envs \X Fds : fdt[x[1]][x[2]] = o})

(* pp_ref of the page of entry o: the server's own mapping, the clients'   *)
(* and what env_free has left.                                             *)
pageref(o) == IF page[o] = None THEN 0 ELSE 1 + Mappings(o) + leaked[o]

-----------------------------------------------------------------------------
(* Clients.                                                                *)

(* fsipc: the request goes once the server is in ipc_recv.                 *)
fsipc(e, type, fd, arg) ==
    /\ client[e] = "run" /\ srv.pc = "recv"
    /\ client' = [client EXCEPT ![e] = "sent"]
    /\ busy' = [busy EXCEPT ![e] = fd]
    /\ srv' = [pc |-> IF type = "open" THEN "scan" ELSE type, i |-> 0, r |-> 0,
               req |-> [type |-> type, whom |-> e, arg |-> arg]]
    /\ UNCHANGED <<opentab, page, leaked, fdt, kills>>

(* open, on the descriptor that fd_alloc finds.                            *)
Open(e) ==
    \E fd \in Fds, f \in Files :
        /\ fdt[e][fd] = None /\ \A x \in 0..fd - 1 : fdt[e][x] # None
        /\ fsipc(e, "open", fd, f)

(* read and fstat send the identifier that stands in the descriptor's page.*)
ReadOrStat(e) ==
    \E fd \in Fds, type \in {"read", "stat"} :
        fdt[e][fd] # None /\ fsipc(e, type, fd, page[fdt[e][fd]].id)

(* close: first FSREQ_FLUSH, and when it is answered the page is unmapped. *)
Close(e) == \E fd \in Fds : fdt[e][fd] # None /\ fsipc(e, "flush", fd, page[fdt[e][fd]].id)

Receive(e) ==
    /\ client[e] = "sent" /\ client' = [client EXCEPT ![e] = "recv"]
    /\ UNCHANGED <<opentab, page, leaked, fdt, busy, srv, kills>>

Unmap(e) ==
    /\ client[e] = "unmap" /\ client' = [client EXCEPT ![e] = "run"]
    /\ fdt' = [fdt EXCEPT ![e][busy[e]] = None]
    /\ busy' = [busy EXCEPT ![e] = None]
    /\ UNCHANGED <<opentab, page, leaked, srv, kills>>

(* dup onto a descriptor that is not open; otherwise Close comes first.    *)
Dup(e) ==
    /\ client[e] = "run"
    /\ \E fd, new \in Fds :
          /\ fdt[e][fd] # None /\ fdt[e][new] = None
          /\ fdt' = [fdt EXCEPT ![e][new] = fdt[e][fd]]
    /\ UNCHANGED <<opentab, page, leaked, client, busy, srv, kills>>

(* seek writes the shared page; here by a client that shares it with none. *)
Seek(e) ==
    /\ client[e] = "run"
    /\ \E fd \in Fds :
          /\ fdt[e][fd] # None /\ Mappings(fdt[e][fd]) = 1
          /\ page' = [page EXCEPT ![fdt[e][fd]].offset = 0]
    /\ UNCHANGED <<opentab, leaked, fdt, client, busy, srv, kills>>

(* A client starts with nothing open.                                      *)
Enter(e) ==
    /\ client[e] = "none" /\ client' = [client EXCEPT ![e] = "run"]
    /\ UNCHANGED <<opentab, page, leaked, fdt, busy, srv, kills>>

(* fork: the Fd pages are PTE_SHARE and mapped into the child.             *)
Fork(e) ==
    /\ client[e] = "run"
    /\ \E c \in Envs :
          /\ client[c] = "none"
          /\ client' = [client EXCEPT ![c] = "run"]
          /\ fdt' = [fdt EXCEPT ![c] = fdt[e]]
    /\ UNCHANGED <<opentab, page, leaked, busy, srv, kills>>

(* exit, after close_all.                                                  *)
Exit(e) ==
    /\ client[e] = "run" /\ fdt[e] = NoFds
    /\ client' = [client EXCEPT ![e] = "none"]
    /\ UNCHANGED <<opentab, page, leaked, fdt, busy, srv, kills>>

(* sys_env_destroy: env_free does not come to the Fd pages, which lie in   *)
(* the fourth gigabyte above PDX(UTOP), and they keep their references.    *)
Kill(e) ==
    /\ client[e] \in {"run", "unmap"} /\ kills < MaxKills
    /\ kills' = kills + 1
    /\ client' = [client EXCEPT ![e] = "none"] /\ busy' = [busy EXCEPT ![e] = None]
    /\ fdt' = [fdt EXCEPT ![e] = NoFds]
    /\ leaked' = [o \in Opens |-> leaked[o] + Cardinality({fd \in Fds : fdt[e][fd] = o})]
    /\ UNCHANGED <<opentab, page, srv>>

-----------------------------------------------------------------------------
(* The server.                                                             *)

(* Faulty: an entry with one user is taken as free.                        *)
Faulty_Available(o) == pageref(o) <= 2

(* Nobody but the server has the page, or there is none yet.               *)
Available(o) == pageref(o) <= 1

Id(o, gen) == <<o, gen>>

(* openfile_alloc looks at the entries one by one, while clients go on.    *)
ScanOn ==
    /\ srv.pc = "scan" /\ srv.i < MAXOPEN /\ ~Available(srv.i)
    /\ srv' = [srv EXCEPT !.i = @ + 1]
    /\ UNCHANGED <<opentab, page, leaked, fdt, client, busy, kills>>

(* -E_MAX_OPEN.                                                            *)
TooManyOpen ==
    /\ srv.pc = "scan" /\ srv.i = MAXOPEN
    /\ srv' = [srv EXCEPT !.pc = "answer", !.r = -1]
    /\ UNCHANGED <<opentab, page, leaked, fdt, client, busy, kills>>

(* Faulty: the page is filled before the entry gets its new identifier.    *)
Faulty_NewPage(o) == [id |-> Id(o, opentab[o].gen), offset |-> 0]

NewPage(o) == [id |-> Id(o, (opentab[o].gen + 1) % Gens), offset |-> 0]

(* serve_open: the entry found gets a new identifier, its page is cleared  *)
(* and filled.  The mode or the path may be bad: the entry keeps both.     *)
serve_open ==
    /\ srv.pc = "scan" /\ srv.i < MAXOPEN /\ Available(srv.i)
    /\ page' = [page EXCEPT ![srv.i] = NewPage(srv.i)]
    /\ \E r \in {0, -1} :
          /\ opentab' = [opentab EXCEPT ![srv.i].gen = (@ + 1) % Gens,
                                        ![srv.i].o_file = IF r = 0 THEN srv.req.arg ELSE @]
          /\ srv' = [srv EXCEPT !.pc = "answer", !.r = r]
    /\ UNCHANGED <<leaked, fdt, client, busy, kills>>

(* openfile_lookup refuses an identifier whose entry nobody uses or has    *)
(* been given to somebody else.                                            *)
openfile_lookup(id) == pageref(id[1]) # 1 /\ Id(id[1], opentab[id[1]].gen) = id

(* serve_read reads at the offset of the shared page, then moves it.       *)
serve_read ==
    /\ srv.pc = "read"
    /\ LET o == srv.req.arg[1]
       IN  IF ~openfile_lookup(srv.req.arg)
           THEN page' = page /\ srv' = [srv EXCEPT !.pc = "answer", !.r = -1]
           ELSE LET n == IF page[o].offset < FileLen THEN 1 ELSE 0
                IN  /\ page' = [page EXCEPT ![o].offset = @ + n]
                    /\ srv' = [srv EXCEPT !.pc = "answer", !.r = n]
    /\ UNCHANGED <<opentab, leaked, fdt, client, busy, kills>>

(* serve_stat looks the file up and reads it.                              *)
serve_stat ==
    /\ srv.pc = "stat"
    /\ srv' = [srv EXCEPT !.pc = "answer",
                          !.r = IF openfile_lookup(srv.req.arg) THEN 0 ELSE -1]
    /\ UNCHANGED <<opentab, page, leaked, fdt, client, busy, kills>>

(* serve_flush has nothing to write back.                                  *)
serve_flush ==
    /\ srv.pc = "flush" /\ srv' = [srv EXCEPT !.pc = "answer"]
    /\ UNCHANGED <<opentab, page, leaked, fdt, client, busy, kills>>

(* ipc_send tries until the client is in ipc_recv; with the answer to an   *)
(* open goes the page.                                                     *)
Answer ==
    /\ srv.pc = "answer"
    /\ LET e == srv.req.whom
       IN  /\ client[e] = "recv"
           /\ client' = [client EXCEPT ![e] = IF srv.req.type = "flush" THEN "unmap" ELSE "run"]
           /\ fdt' = IF srv.req.type = "open" /\ srv.r = 0
                     THEN [fdt EXCEPT ![e][busy[e]] = srv.i] ELSE fdt
           /\ busy' = IF srv.req.type = "flush" THEN busy ELSE [busy EXCEPT ![e] = None]
    /\ srv' = Idle
    /\ UNCHANGED <<opentab, page, leaked, kills>>

Server ==
    \/ ScanOn \/ TooManyOpen
    \/ serve_open \/ serve_read \/ serve_stat \/ serve_flush \/ Answer

Next ==
    \/ Server
    \/ \E e \in Envs :
          \/ Open(e) \/ ReadOrStat(e) \/ Close(e) \/ Receive(e) \/ Unmap(e)
          \/ Dup(e) \/ Seek(e) \/ Enter(e) \/ Fork(e) \/ Exit(e) \/ Kill(e)

Spec == Init /\ [][Next]_vars

-----------------------------------------------------------------------------
(* Properties.                                                             *)

(* The descriptors are those of OpenFiles: no entry is given out again     *)
(* while somebody has it open, whoever closes, forks or dies meanwhile,    *)
(* and each part of a file is delivered once to those that share it.       *)
opened == [o \in Opens |-> IF Mappings(o) = 0 THEN None
                           ELSE [file |-> opentab[o].o_file, offset |-> page[o].offset]]

Files_ == INSTANCE OpenFiles WITH table <- fdt, open <- opened

(* The server and its clients implement the table of open files.           *)
ImplementsOpenFiles == Files_!Spec

(* A request on an open descriptor is not refused: the identifier in its   *)
(* page is that of its entry, and the entry counts as used.                *)
LookupSucceeds == srv.pc = "answer" /\ srv.req.type \in {"read", "stat"} => srv.r >= 0
=============================================================================

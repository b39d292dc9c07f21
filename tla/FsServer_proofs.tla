-------------------------- MODULE FsServer_proofs --------------------------
(***************************************************************************)
(* Proofs about FsServer for any finite set of clients and any numbers of  *)
(* descriptors and open files.  The server never asks who uses an entry:   *)
(* it compares the reference count of the page with one.  That is right    *)
(* because a page that a descriptor maps is there and carries the          *)
(* identifier of its entry, and because a client that waits for an answer  *)
(* keeps the descriptor it asked about.                                    *)
(***************************************************************************)
EXTENDS FsServer, FiniteSetTheorems, TLAPS

Ids == Opens \X Nat
Types == {"open", "read", "stat", "flush"}
Requests == [type : Types, whom : Envs, arg : Files \cup Ids]
Servers == [pc : {"recv", "scan", "read", "stat", "flush", "answer"},
            req : Requests \cup {None}, i : 0..MAXOPEN, r : -1..1]

FsType ==
    /\ opentab \in [Opens -> [gen : Nat, o_file : Files \cup {None}]]
    /\ page \in [Opens -> [id : Ids, offset : Nat] \cup {None}]
    /\ leaked \in [Opens -> Nat]
    /\ fdt \in [Envs -> [Fds -> Opens \cup {None}]]
    /\ client \in [Envs -> {"none", "run", "sent", "recv", "unmap"}]
    /\ busy \in [Envs -> Fds \cup {None}]
    /\ srv \in Servers

Mapped(o) == \E e \in Envs, fd \in Fds : fdt[e][fd] = o

(* The page of an entry carries its identifier, and is there for those     *)
(* that map it.                                                            *)
Pages ==
    /\ \A o \in Opens : page[o] # None => page[o].id = Id(o, opentab[o].gen)
    /\ \A o \in Opens : Mapped(o) => page[o] # None

(* Who is gone has nothing open, and who closes has a descriptor in hand.  *)
Clients ==
    \A e \in Envs :
        /\ client[e] = "none" => fdt[e] = NoFds
        /\ client[e] = "unmap" => busy[e] \in Fds

(* The client that the server works for waits, and what it asked about     *)
(* stays as it was.                                                        *)
Waiting ==
    srv.pc # "recv" =>
        /\ srv.req \in Requests
        /\ client[srv.req.whom] \in {"sent", "recv"} /\ busy[srv.req.whom] \in Fds

(* The descriptor of an open is free until the answer, and the entry found *)
(* is nobody's.                                                            *)
Opening ==
    srv.pc # "recv" /\ srv.req.type = "open" =>
        /\ srv.pc \in {"scan", "answer"} /\ srv.req.arg \in Files
        /\ fdt[srv.req.whom][busy[srv.req.whom]] = None
        /\ srv.pc = "answer" /\ srv.r = 0 =>
              /\ srv.i \in Opens /\ ~Mapped(srv.i)
              /\ page[srv.i] # None /\ page[srv.i].offset = 0
              /\ opentab[srv.i].o_file = srv.req.arg

(* A read or stat comes with the identifier of the entry that its          *)
(* descriptor maps.                                                        *)
Asking ==
    srv.pc \in {"read", "stat"} =>
        LET o == fdt[srv.req.whom][busy[srv.req.whom]]
        IN  srv.req.type = srv.pc /\ o \in Opens /\ srv.req.arg = page[o].id

Flushing == srv.pc = "flush" => srv.req.type = "flush"
Scanning == srv.pc = "scan" => srv.req.type = "open"

FsInv ==
    /\ FsType /\ Pages /\ Clients /\ Waiting /\ Opening
    /\ Asking /\ Flushing /\ Scanning /\ LookupSucceeds

USE DEF Servers

-----------------------------------------------------------------------------
(* What the constants give.                                                *)
LEMMA Constants ==
    /\ MAXFD \in Nat \ {0} /\ MAXOPEN \in Nat \ {0} /\ Gens \in Nat \ {0}
    /\ FileLen \in Nat \ {0}
    /\ IsFiniteSet(Envs) /\ IsFiniteSet(Fds) /\ IsFiniteSet(Envs \X Fds)
    /\ None \notin Files /\ None \notin Opens
    /\ None \notin [id : Ids, offset : Nat]
<1>1. /\ MAXFD \in Nat \ {0} /\ MAXOPEN \in Nat \ {0} /\ Gens \in Nat \ {0}
      /\ FileLen \in Nat \ {0}
  BY FsAssumption
<1>2. IsFiniteSet(Fds)
  BY <1>1, FS_Interval DEF Fds
<1>3. IsFiniteSet(Envs \X Fds)
  BY <1>2, FsAssumption, FS_Product
<1>4. QED
  BY <1>1, <1>2, <1>3, FsAssumption DEF Ids

(* Mappings counts, and is zero exactly when no descriptor maps the entry. *)
LEMMA MappingsCount ==
    ASSUME NEW o
    PROVE  Mappings(o) \in Nat /\ (Mappings(o) = 0 <=> ~Mapped(o))
<1> DEFINE U == {x \in Envs \X Fds : fdt[x[1]][x[2]] = o}
<1>1. U \in SUBSET (Envs \X Fds)
  OBVIOUS
<1>2. IsFiniteSet(U)
  BY <1>1, Constants, FS_Subset
<1>3. Cardinality(U) \in Nat /\ (Cardinality(U) = 0 <=> U = {})
  BY <1>2, FS_CardinalityType, FS_EmptySet
<1>4. U = {} <=> ~Mapped(o)
  <2>1. ASSUME NEW e \in Envs, NEW fd \in Fds, fdt[e][fd] = o PROVE <<e, fd>> \in U
    BY <2>1
  <2>2. ASSUME NEW x \in U PROVE x[1] \in Envs /\ x[2] \in Fds /\ fdt[x[1]][x[2]] = o
    OBVIOUS
  <2>3. QED
    BY <2>1, <2>2 DEF Mapped
<1>5. QED
  BY <1>3, <1>4 DEF Mappings

(* The page of an entry that is taken as free is nobody's.                 *)
LEMMA AvailableUnmapped ==
    ASSUME FsType, Pages, NEW o \in Opens, Available(o)
    PROVE  ~Mapped(o)
<1>1. CASE page[o] = None
  BY <1>1 DEF Pages
<1>2. CASE page[o] # None
  <2>1. 1 + Mappings(o) + leaked[o] <= 1
    BY <1>2 DEF Available, pageref
  <2>2. Mappings(o) \in Nat /\ leaked[o] \in Nat
    BY MappingsCount DEF FsType
  <2>3. Mappings(o) = 0
    BY <2>1, <2>2
  <2>4. QED
    BY <2>3, MappingsCount
<1>3. QED
  BY <1>1, <1>2

(* openfile_lookup finds the entry of a descriptor.                        *)
LEMMA LookupFinds ==
    ASSUME FsType, Pages, NEW o \in Opens, Mapped(o)
    PROVE  page[o].id = Id(o, opentab[o].gen) /\ openfile_lookup(page[o].id)
<1>1. page[o] # None /\ page[o].id = Id(o, opentab[o].gen)
  BY DEF Pages
<1>2. page[o].id[1] = o
  BY <1>1 DEF Id
<1>3. Mappings(o) \in Nat \ {0} /\ leaked[o] \in Nat
  BY MappingsCount DEF FsType
<1>4. pageref(o) # 1
  <2>1. pageref(o) = 1 + Mappings(o) + leaked[o]
    BY <1>1 DEF pageref
  <2>2. QED
    BY <1>3, <2>1
<1>5. QED
  BY <1>1, <1>2, <1>4 DEF openfile_lookup

(* The invariant holds at the start.                                       *)
LEMMA InitInv == Init => FsInv
<1> SUFFICES ASSUME Init PROVE FsInv
  OBVIOUS
<1>1. 0 \in 0..MAXOPEN /\ 0 \in -1..1
  BY Constants
<1>2. FsType
  BY <1>1 DEF Init, FsType, NoFds, Idle
<1>3. \A o \in Opens : ~Mapped(o)
  BY Constants DEF Init, Mapped, NoFds
<1>4. QED
  BY <1>2, <1>3 DEF Init, FsInv, Pages, Clients, Waiting, Opening, Asking, Flushing,
                    Scanning, LookupSucceeds, Idle

-----------------------------------------------------------------------------
(* Steps of the clients that send nothing: those that wait stay as they    *)
(* are, and no entry gets a user that had none.                            *)
LEMMA ClientFrame ==
    ASSUME FsInv, FsType', Clients', UNCHANGED <<opentab, srv>>,
           \A o \in Opens : Mapped(o)' => Mapped(o),
           \A o \in Opens :
              \/ page'[o] = page[o]
              \/ /\ Mapped(o) /\ page[o] # None /\ page'[o] # None
                 /\ page'[o].id = page[o].id,
           \A e \in Envs : client[e] \in {"sent", "recv"} =>
              client'[e] \in {"sent", "recv"} /\ fdt'[e] = fdt[e] /\ busy'[e] = busy[e]
    PROVE  FsInv'
<1>1. Pages'
  BY DEF FsInv, Pages
<1>2. Waiting'
  BY DEF FsInv, Waiting, Requests
<1>3. srv.pc # "recv" => /\ srv.req.whom \in Envs
                         /\ fdt'[srv.req.whom] = fdt[srv.req.whom]
                         /\ busy'[srv.req.whom] = busy[srv.req.whom]
  BY DEF FsInv, Waiting, Requests
<1>4. Opening'
  <2>1. \A o \in Opens : ~Mapped(o) => page'[o] = page[o]
    OBVIOUS
  <2>2. QED
    BY <1>3, <2>1 DEF FsInv, Opening
<1>5. Asking'
  <2>1. SUFFICES ASSUME srv.pc \in {"read", "stat"} PROVE Asking'
    BY DEF Asking
  <2> DEFINE o == fdt[srv.req.whom][busy[srv.req.whom]]
  <2>2. srv.req.type = srv.pc /\ o \in Opens /\ srv.req.arg = page[o].id
    BY <2>1 DEF FsInv, Asking
  <2>3. page'[o].id = page[o].id
    BY <2>2
  <2>4. fdt'[srv.req.whom][busy'[srv.req.whom]] = o
    BY <1>3, <2>1
  <2>5. QED
    BY <2>2, <2>3, <2>4 DEF Asking
<1>6. QED
  BY <1>1, <1>2, <1>4, <1>5 DEF FsInv, Flushing, Scanning, LookupSucceeds

(* The end of a close.                                                     *)
LEMMA UnmapInv ==
    ASSUME FsInv, NEW e \in Envs, Unmap(e)
    PROVE  FsInv'
<1>1. /\ client[e] = "unmap" /\ busy[e] \in Fds
      /\ client' = [client EXCEPT ![e] = "run"]
      /\ fdt' = [fdt EXCEPT ![e][busy[e]] = None] /\ busy' = [busy EXCEPT ![e] = None]
      /\ UNCHANGED <<opentab, page, leaked, srv>>
  BY DEF Unmap, FsInv, Clients
<1>2. FsType'
  BY <1>1 DEF FsInv, FsType
<1>3. Clients'
  BY <1>1 DEF FsInv, FsType, Clients
<1>4. \A o \in Opens : Mapped(o)' => Mapped(o)
  BY <1>1, Constants DEF FsInv, FsType, Mapped
<1>5. \A x \in Envs : client[x] \in {"sent", "recv"} =>
         client'[x] \in {"sent", "recv"} /\ fdt'[x] = fdt[x] /\ busy'[x] = busy[x]
  BY <1>1 DEF FsInv, FsType
<1>6. QED
  BY <1>1, <1>2, <1>3, <1>4, <1>5, ClientFrame

(* dup gives the entry of one descriptor to another one.                   *)
LEMMA DupInv ==
    ASSUME FsInv, NEW e \in Envs, Dup(e)
    PROVE  FsInv'
<1>1. PICK fd \in Fds, new \in Fds :
         /\ fdt[e][fd] # None /\ fdt[e][new] = None
         /\ fdt' = [fdt EXCEPT ![e][new] = fdt[e][fd]]
  BY DEF Dup
<1>2. client[e] = "run" /\ UNCHANGED <<opentab, page, leaked, client, busy, srv>>
  BY DEF Dup
<1>3. FsType'
  BY <1>1, <1>2 DEF FsInv, FsType
<1>4. Clients'
  BY <1>1, <1>2 DEF FsInv, FsType, Clients
<1>5. \A o \in Opens : Mapped(o)' => Mapped(o)
  BY <1>1, <1>2 DEF FsInv, FsType, Mapped
<1>6. \A x \in Envs : client[x] \in {"sent", "recv"} => fdt'[x] = fdt[x]
  BY <1>1, <1>2 DEF FsInv, FsType
<1>7. QED
  BY <1>2, <1>3, <1>4, <1>5, <1>6, ClientFrame

(* seek changes the offset in a page, not the identifier.                  *)
LEMMA SeekInv ==
    ASSUME FsInv, NEW e \in Envs, Seek(e)
    PROVE  FsInv'
<1>1. PICK fd \in Fds :
         fdt[e][fd] # None /\ page' = [page EXCEPT ![fdt[e][fd]].offset = 0]
  BY DEF Seek
<1>2. UNCHANGED <<opentab, leaked, fdt, client, busy, srv>>
  BY DEF Seek
<1> DEFINE o == fdt[e][fd]
<1>3. o \in Opens /\ Mapped(o) /\ page[o] # None
  BY <1>1 DEF FsInv, FsType, Pages, Mapped
<1>4. page[o] \in [id : Ids, offset : Nat]
  BY <1>3 DEF FsInv, FsType
<1>5. page'[o] \in [id : Ids, offset : Nat] /\ page'[o].id = page[o].id
  BY <1>1, <1>3, <1>4 DEF FsInv, FsType
<1>6. page'[o] # None
  BY <1>5, Constants
<1>7. \A x \in Opens \ {o} : page'[x] = page[x]
  BY <1>1, <1>3 DEF FsInv, FsType
<1>8. FsType'
  <2>1. page' \in [Opens -> [id : Ids, offset : Nat] \cup {None}]
    BY <1>1, <1>5, <1>7 DEF FsInv, FsType
  <2>2. QED
    BY <1>2, <2>1 DEF FsInv, FsType
<1>9. Clients' /\ \A x \in Opens : Mapped(x)' => Mapped(x)
  BY <1>2 DEF FsInv, Clients, Mapped
<1>10. QED
  BY <1>2, <1>3, <1>5, <1>6, <1>7, <1>8, <1>9, ClientFrame

(* fork gives the child what the parent has.                               *)
LEMMA ForkInv ==
    ASSUME FsInv, NEW e \in Envs, Fork(e)
    PROVE  FsInv'
<1>1. PICK c \in Envs : /\ client[c] = "none" /\ client' = [client EXCEPT ![c] = "run"]
                        /\ fdt' = [fdt EXCEPT ![c] = fdt[e]]
  BY DEF Fork
<1>2. client[e] = "run" /\ UNCHANGED <<opentab, page, leaked, busy, srv>>
  BY DEF Fork
<1>3. FsType'
  BY <1>1, <1>2 DEF FsInv, FsType
<1>4. Clients'
  BY <1>1, <1>2 DEF FsInv, FsType, Clients
<1>5. \A o \in Opens : Mapped(o)' => Mapped(o)
  BY <1>1, <1>2 DEF FsInv, FsType, Mapped
<1>6. \A x \in Envs : client[x] \in {"sent", "recv"} =>
         client'[x] \in {"sent", "recv"} /\ fdt'[x] = fdt[x]
  BY <1>1, <1>2 DEF FsInv, FsType
<1>7. QED
  BY <1>2, <1>3, <1>4, <1>5, <1>6, ClientFrame

(* A client that is killed has no descriptors, only what it leaked.        *)
LEMMA KillInv ==
    ASSUME FsInv, NEW e \in Envs, Kill(e)
    PROVE  FsInv'
<1>1. /\ client[e] \in {"run", "unmap"} /\ client' = [client EXCEPT ![e] = "none"]
      /\ busy' = [busy EXCEPT ![e] = None] /\ fdt' = [fdt EXCEPT ![e] = NoFds]
      /\ leaked' = [o \in Opens |-> leaked[o] + Cardinality({fd \in Fds : fdt[e][fd] = o})]
      /\ UNCHANGED <<opentab, page, srv>>
  BY DEF Kill
<1> DEFINE n(o) == Cardinality({fd \in Fds : fdt[e][fd] = o})
<1>2. \A o \in Opens : n(o) \in Nat
  <2>1. TAKE o \in Opens
  <2>2. {fd \in Fds : fdt[e][fd] = o} \in SUBSET Fds
    OBVIOUS
  <2>3. QED
    BY <2>2, Constants, FS_Subset, FS_CardinalityType
<1>3. leaked' \in [Opens -> Nat]
  <2>1. leaked' = [o \in Opens |-> leaked[o] + n(o)]
    BY <1>1
  <2> HIDE DEF n
  <2>2. QED
    BY <1>2, <2>1 DEF FsInv, FsType
<1>4. FsType'
  BY <1>1, <1>3 DEF FsInv, FsType, NoFds
<1>5. Clients'
  BY <1>1 DEF FsInv, FsType, Clients
<1>6. \A o \in Opens : Mapped(o)' => Mapped(o)
  BY <1>1, Constants DEF FsInv, FsType, Mapped, NoFds
<1>7. \A x \in Envs : client[x] \in {"sent", "recv"} =>
         client'[x] \in {"sent", "recv"} /\ fdt'[x] = fdt[x] /\ busy'[x] = busy[x]
  BY <1>1 DEF FsInv, FsType
<1>8. QED
  BY <1>1, <1>4, <1>5, <1>6, <1>7, ClientFrame

(* Starting, exiting and turning to ipc_recv.                              *)
LEMMA QuietInv ==
    ASSUME FsInv, NEW e \in Envs, Enter(e) \/ Exit(e) \/ Receive(e)
    PROVE  FsInv'
<1>1. /\ UNCHANGED <<opentab, page, leaked, fdt, busy, srv>>
      /\ \/ client' = [client EXCEPT ![e] = "run"] /\ client[e] = "none"
         \/ /\ client' = [client EXCEPT ![e] = "none"] /\ client[e] = "run"
            /\ fdt[e] = NoFds
         \/ client' = [client EXCEPT ![e] = "recv"] /\ client[e] = "sent"
  BY DEF Enter, Exit, Receive
<1>2. FsType'
  BY <1>1 DEF FsInv, FsType
<1>3. Clients'
  BY <1>1 DEF FsInv, FsType, Clients
<1>4. \A x \in Envs : client[x] \in {"sent", "recv"} => client'[x] \in {"sent", "recv"}
  BY <1>1 DEF FsInv, FsType
<1>5. \A o \in Opens : Mapped(o)' => Mapped(o)
  BY <1>1 DEF Mapped
<1>6. QED
  BY <1>1, <1>2, <1>3, <1>4, <1>5, ClientFrame

-----------------------------------------------------------------------------
(* A client sends a request: the server was idle.                          *)
LEMMA RequestInv ==
    ASSUME FsInv, NEW e \in Envs, NEW type \in Types, NEW fd \in Fds,
           NEW arg \in Files \cup Ids, fsipc(e, type, fd, arg),
           type = "open" => arg \in Files /\ fdt[e][fd] = None,
           type # "open" => fdt[e][fd] \in Opens /\ arg = page[fdt[e][fd]].id
    PROVE  FsInv'
<1> DEFINE pc == IF type = "open" THEN "scan" ELSE type
           req == [type |-> type, whom |-> e, arg |-> arg]
<1>1. /\ client[e] = "run" /\ client' = [client EXCEPT ![e] = "sent"]
      /\ busy' = [busy EXCEPT ![e] = fd]
      /\ srv' = [pc |-> pc, i |-> 0, r |-> 0, req |-> req]
      /\ UNCHANGED <<opentab, page, leaked, fdt>>
  BY DEF fsipc
<1>2. /\ req \in Requests /\ pc \in {"scan", "read", "stat", "flush"}
      /\ srv'.pc = pc /\ srv'.req = req /\ 0 \in 0..MAXOPEN
  BY <1>1, Constants DEF Requests, Types
<1>3. FsType'
  BY <1>1, <1>2 DEF FsInv, FsType
<1>4. Pages' /\ Clients'
  BY <1>1 DEF FsInv, FsType, Pages, Mapped, Clients
<1>5. srv'.req.whom = e /\ srv'.req.type = type /\ srv'.req.arg = arg
  BY <1>2
<1>6. client'[e] = "sent" /\ busy'[e] = fd /\ fdt' = fdt
  BY <1>1 DEF FsInv, FsType
<1>7. Waiting'
  BY <1>2, <1>5, <1>6 DEF Waiting
<1>8. Opening' /\ Asking' /\ Flushing' /\ Scanning' /\ LookupSucceeds'
  BY <1>1, <1>2, <1>5, <1>6 DEF Opening, Asking, Flushing, Scanning, LookupSucceeds,
                                Types
<1>9. QED
  BY <1>3, <1>4, <1>7, <1>8 DEF FsInv

(* The requests.                                                           *)
LEMMA ClientRequestInv ==
    ASSUME FsInv, NEW e \in Envs, Open(e) \/ ReadOrStat(e) \/ Close(e)
    PROVE  FsInv'
<1>1. ASSUME NEW fd \in Fds, fdt[e][fd] # None
      PROVE  fdt[e][fd] \in Opens /\ page[fdt[e][fd]].id \in Files \cup Ids
  BY <1>1 DEF FsInv, FsType, Pages, Mapped
<1>2. CASE Open(e)
  BY <1>2, RequestInv DEF Open, Types
<1>3. CASE ReadOrStat(e)
  BY <1>1, <1>3, RequestInv DEF ReadOrStat, Types
<1>4. CASE Close(e)
  BY <1>1, <1>4, RequestInv DEF Close, Types
<1>5. QED
  BY <1>2, <1>3, <1>4

-----------------------------------------------------------------------------
(* Steps of the server before it answers touch no client.                  *)
LEMMA ServerFrame ==
    ASSUME FsInv, UNCHANGED <<leaked, fdt, client, busy>>, srv.pc # "recv",
           NEW pc \in {"scan", "answer"}, NEW i \in 0..MAXOPEN, NEW r \in -1..1,
           srv' = [srv EXCEPT !.pc = pc, !.i = i, !.r = r]
    PROVE  /\ srv'.pc = pc /\ srv'.i = i /\ srv'.r = r /\ srv'.req = srv.req
           /\ srv' \in Servers
           /\ Clients' /\ Waiting' /\ Asking' /\ Flushing'
           /\ \A o \in Opens : Mapped(o)' <=> Mapped(o)
<1>1. /\ srv'.pc = pc /\ srv'.i = i /\ srv'.r = r /\ srv'.req = srv.req
      /\ srv' \in Servers
  BY DEF FsInv, FsType
<1>2. QED
  BY <1>1 DEF FsInv, Clients, Waiting, Asking, Flushing, Mapped

(* The search for an entry.                                                *)
LEMMA ScanInv ==
    ASSUME FsInv, ScanOn \/ TooManyOpen
    PROVE  FsInv'
<1>1. /\ srv.pc = "scan" /\ UNCHANGED <<opentab, page, leaked, fdt, client, busy>>
      /\ srv.i \in 0..MAXOPEN /\ srv.r \in -1..1 /\ MAXOPEN \in Nat
  BY Constants DEF ScanOn, TooManyOpen, FsInv, FsType
<1>2. \E pc \in {"scan", "answer"}, i \in 0..MAXOPEN, r \in -1..1 :
         (pc = "answer" => r = -1) /\ srv' = [srv EXCEPT !.pc = pc, !.i = i, !.r = r]
  <2>1. CASE ScanOn
    <3>1. srv.i + 1 \in 0..MAXOPEN
      BY <1>1, <2>1 DEF ScanOn
    <3>2. srv' = [srv EXCEPT !.pc = "scan", !.i = srv.i + 1, !.r = srv.r]
      BY <1>1, <2>1 DEF ScanOn, FsInv, FsType
    <3> srv.i + 1 \in 0..MAXOPEN /\ srv.r \in -1..1
      BY <1>1, <3>1
    <3>3. WITNESS "scan" \in {"scan", "answer"}, srv.i + 1 \in 0..MAXOPEN,
                  srv.r \in -1..1
    <3>4. QED
      BY <3>2
  <2>2. CASE TooManyOpen
    <3>1. srv' = [srv EXCEPT !.pc = "answer", !.i = srv.i, !.r = -1]
      BY <1>1, <2>2 DEF TooManyOpen, FsInv, FsType
    <3> srv.i \in 0..MAXOPEN /\ -1 \in -1..1
      BY <1>1
    <3>3. WITNESS "answer" \in {"scan", "answer"}, srv.i \in 0..MAXOPEN, -1 \in -1..1
    <3>4. QED
      BY <3>1
  <2>3. QED
    BY <2>1, <2>2
<1>3. PICK pc \in {"scan", "answer"}, i \in 0..MAXOPEN, r \in -1..1 :
         /\ srv' = [srv EXCEPT !.pc = pc, !.i = i, !.r = r]
         /\ pc = "answer" => r = -1
  BY <1>2
<1>4. /\ srv'.pc = pc /\ srv'.i = i /\ srv'.r = r /\ srv'.req = srv.req
      /\ srv' \in Servers
      /\ Clients' /\ Waiting' /\ Asking' /\ Flushing'
      /\ \A o \in Opens : Mapped(o)' <=> Mapped(o)
  BY <1>1, <1>3, ServerFrame
<1>5. srv.req.type = "open"
  BY <1>1 DEF FsInv, Scanning
<1>6. FsType' /\ Pages'
  BY <1>1, <1>4 DEF FsInv, FsType, Pages
<1>7. Opening' /\ Scanning' /\ LookupSucceeds'
  BY <1>1, <1>3, <1>4, <1>5 DEF FsInv, Opening, Scanning, LookupSucceeds
<1>8. QED
  BY <1>4, <1>6, <1>7 DEF FsInv

(* An entry that nobody has mapped gets a new identifier and a new page.   *)
LEMMA OpenInv ==
    ASSUME FsInv, serve_open
    PROVE  FsInv'
<1> DEFINE n == srv.i
           gen == (opentab[n].gen + 1) % Gens
<1>1. /\ srv.pc = "scan" /\ n \in Opens /\ Available(n)
      /\ page' = [page EXCEPT ![n] = NewPage(n)]
      /\ UNCHANGED <<leaked, fdt, client, busy>>
  BY Constants DEF serve_open, FsInv, FsType, Opens
<1>2. PICK r \in {0, -1} :
         /\ opentab' = [opentab EXCEPT ![n].gen = gen,
                                       ![n].o_file = IF r = 0 THEN srv.req.arg ELSE @]
         /\ srv' = [srv EXCEPT !.pc = "answer", !.r = r]
  BY DEF serve_open
<1>3. ~Mapped(n)
  BY <1>1, AvailableUnmapped DEF FsInv
<1>4. gen \in Nat
  BY <1>1, Constants DEF FsInv, FsType
<1>5. srv.req.type = "open" /\ srv.req.arg \in Files
  BY <1>1 DEF FsInv, Scanning, Opening
<1>6. NewPage(n) \in [id : Ids, offset : Nat] /\ NewPage(n).id = Id(n, gen)
      /\ NewPage(n).offset = 0
  BY <1>1, <1>4 DEF NewPage, Id, Ids
<1>7. NewPage(n) # None
  BY <1>6, Constants
<1>8. /\ page'[n] = NewPage(n) /\ \A o \in Opens \ {n} : page'[o] = page[o]
      /\ page' \in [Opens -> [id : Ids, offset : Nat] \cup {None}]
  BY <1>1, <1>6 DEF FsInv, FsType
<1>9. /\ opentab'[n].gen = gen /\ \A o \in Opens \ {n} : opentab'[o] = opentab[o]
      /\ r = 0 => opentab'[n].o_file = srv.req.arg
      /\ opentab' \in [Opens -> [gen : Nat, o_file : Files \cup {None}]]
  BY <1>1, <1>2, <1>4, <1>5 DEF FsInv, FsType
<1>10. /\ srv'.pc = "answer" /\ srv'.i = n /\ srv'.r = r /\ srv'.req = srv.req
       /\ srv' \in Servers
       /\ Clients' /\ Waiting' /\ Asking' /\ Flushing'
       /\ \A o \in Opens : Mapped(o)' <=> Mapped(o)
  <2>1. /\ srv \in Servers
        /\ r \in -1..1
    BY DEF FsInv, FsType
  <2>2. srv' = [srv EXCEPT !.pc = "answer", !.i = n, !.r = r]
    BY ONLY <1>2, <2>1
  <2>3. n \in 0..MAXOPEN
    BY <2>1
  <2>4. QED
    BY <1>1, <2>1, <2>2, <2>3, ServerFrame
<1>11. FsType'
  BY <1>1, <1>8, <1>9, <1>10 DEF FsInv, FsType
<1>12. Pages'
  BY <1>3, <1>6, <1>8, <1>9, <1>10 DEF FsInv, Pages
<1>13. Opening'
  <2>1. fdt'[srv'.req.whom][busy'[srv'.req.whom]] = None
    BY <1>1, <1>5, <1>10 DEF FsInv, Opening
  <2>2. QED
    BY <1>1, <1>3, <1>5, <1>6, <1>7, <1>8, <1>9, <1>10, <2>1 DEF Opening
<1>14. Scanning' /\ LookupSucceeds'
  BY <1>5, <1>10 DEF Scanning, LookupSucceeds
<1>15. QED
  BY <1>10, <1>11, <1>12, <1>13, <1>14 DEF FsInv

(* serve_read finds the entry, and moves the offset of its page.           *)
LEMMA ReadDoes ==
    ASSUME FsInv, serve_read
    PROVE  \E n \in {0, 1}, fd \in Fds :
              LET o == fdt[srv.req.whom][fd]
              IN  /\ o \in Opens /\ Mapped(o) /\ page[o] # None /\ srv.req.type = "read"
                  /\ n = 1 => page[o].offset < FileLen
                  /\ page' = [page EXCEPT ![o].offset = @ + n]
                  /\ srv' = [srv EXCEPT !.pc = "answer", !.r = n]
<1> DEFINE fd == busy[srv.req.whom]
           o == fdt[srv.req.whom][fd]
<1>1. srv.pc = "read" /\ srv.req.whom \in Envs /\ fd \in Fds
  BY DEF serve_read, FsInv, Waiting, Requests
<1>2. srv.req.type = "read" /\ o \in Opens /\ srv.req.arg = page[o].id
  BY <1>1 DEF FsInv, Asking
<1>3. Mapped(o)
  BY <1>1 DEF Mapped
<1>4. /\ page[o] # None /\ page[o].id = Id(o, opentab[o].gen)
      /\ openfile_lookup(srv.req.arg)
  BY <1>2, <1>3, LookupFinds DEF FsInv, Pages
<1>5. srv.req.arg[1] = o
  <2>1. \A x, y : Id(x, y)[1] = x
    BY DEF Id
  <2>2. srv.req.arg = Id(o, opentab[o].gen)
    BY <1>2, <1>4
  <2>3. QED
    BY ONLY <2>1, <2>2
<1> DEFINE n == IF page[o].offset < FileLen THEN 1 ELSE 0
<1>6. /\ page' = [page EXCEPT ![o].offset = @ + n]
      /\ srv' = [srv EXCEPT !.pc = "answer", !.r = n]
  BY <1>4, <1>5 DEF serve_read
<1>7. n \in {0, 1} /\ (n = 1 => page[o].offset < FileLen)
  OBVIOUS
<1>8. QED
  BY <1>1, <1>2, <1>3, <1>4, <1>6, <1>7

(* So reading keeps the invariant.                                         *)
LEMMA ReadInv ==
    ASSUME FsInv, serve_read
    PROVE  FsInv'
<1>1. PICK n \in {0, 1}, fd \in Fds :
         /\ fdt[srv.req.whom][fd] \in Opens /\ page[fdt[srv.req.whom][fd]] # None
         /\ srv.req.type = "read"
         /\ page' = [page EXCEPT ![fdt[srv.req.whom][fd]].offset = @ + n]
         /\ srv' = [srv EXCEPT !.pc = "answer", !.r = n]
  BY ReadDoes
<1> DEFINE o == fdt[srv.req.whom][fd]
<1>2. srv.pc = "read" /\ UNCHANGED <<opentab, leaked, fdt, client, busy>>
  BY DEF serve_read
<1>3. page[o] \in [id : Ids, offset : Nat]
  BY <1>1 DEF FsInv, FsType
<1>4. page'[o] = [page[o] EXCEPT !.offset = @ + n]
  BY <1>1 DEF FsInv, FsType
<1>5. page'[o] \in [id : Ids, offset : Nat] /\ page'[o].id = page[o].id
  BY <1>1, <1>3, <1>4
<1>6. page'[o] # None
  BY <1>5, Constants
<1>7. /\ \A x \in Opens \ {o} : page'[x] = page[x]
      /\ page' \in [Opens -> [id : Ids, offset : Nat] \cup {None}]
  BY <1>1, <1>5 DEF FsInv, FsType
<1>8. /\ srv \in Servers
      /\ n \in -1..1 /\ srv.i \in 0..MAXOPEN
  BY DEF FsInv, FsType
<1>9. srv' = [srv EXCEPT !.pc = "answer", !.i = srv.i, !.r = n]
  BY ONLY <1>1, <1>8
<1>10. /\ srv'.pc = "answer" /\ srv'.r = n /\ srv'.req = srv.req
       /\ srv' \in Servers
       /\ Clients' /\ Waiting' /\ Asking' /\ Flushing'
       /\ \A x \in Opens : Mapped(x)' <=> Mapped(x)
  BY <1>2, <1>8, <1>9, ServerFrame
<1>11. FsType'
  BY <1>2, <1>7, <1>10 DEF FsInv, FsType
<1>12. Pages'
  BY <1>1, <1>2, <1>5, <1>6, <1>7, <1>10 DEF FsInv, Pages
<1>13. Opening' /\ Scanning' /\ LookupSucceeds'
  BY <1>1, <1>10 DEF Opening, Scanning, LookupSucceeds
<1>14. QED
  BY <1>10, <1>11, <1>12, <1>13 DEF FsInv

(* serve_stat succeeds for the same reason; serve_flush does nothing.      *)
LEMMA StatFlushInv ==
    ASSUME FsInv, serve_stat \/ serve_flush
    PROVE  FsInv'
<1>1. /\ srv.pc \in {"stat", "flush"}
      /\ UNCHANGED <<opentab, page, leaked, fdt, client, busy>>
      /\ srv.req.whom \in Envs /\ busy[srv.req.whom] \in Fds
  BY DEF serve_stat, serve_flush, FsInv, Waiting, Requests
<1>2. srv.req.type = srv.pc
  BY <1>1 DEF FsInv, Asking, Flushing
<1>3. srv.pc = "stat" => openfile_lookup(srv.req.arg)
  <2> SUFFICES ASSUME srv.pc = "stat" PROVE openfile_lookup(srv.req.arg)
    OBVIOUS
  <2> DEFINE o == fdt[srv.req.whom][busy[srv.req.whom]]
  <2>1. o \in Opens /\ srv.req.arg = page[o].id
    BY DEF FsInv, Asking
  <2>2. Mapped(o)
    BY <1>1 DEF Mapped
  <2>3. QED
    BY <2>1, <2>2, LookupFinds DEF FsInv
<1>4. PICK r \in -1..1 :
         /\ srv' = [srv EXCEPT !.pc = "answer", !.r = r]
         /\ srv.pc = "stat" => r = 0
  <2>1. CASE serve_stat
    BY <1>3, <2>1 DEF serve_stat
  <2>2. CASE serve_flush
    <3>1. srv.r \in -1..1 /\ srv.pc = "flush"
      BY <2>2 DEF serve_flush, FsInv, FsType
    <3>2. srv' = [srv EXCEPT !.pc = "answer", !.r = srv.r]
      BY <2>2 DEF serve_flush, FsInv, FsType
    <3>3. QED
      BY <3>1, <3>2
  <2>3. QED
    BY <2>1, <2>2
<1>5. /\ srv \in Servers
      /\ srv.i \in 0..MAXOPEN
  BY DEF FsInv, FsType
<1>6. srv' = [srv EXCEPT !.pc = "answer", !.i = srv.i, !.r = r]
  BY ONLY <1>4, <1>5
<1>7. /\ srv'.pc = "answer" /\ srv'.r = r /\ srv'.req = srv.req
      /\ srv' \in Servers
      /\ Clients' /\ Waiting' /\ Asking' /\ Flushing'
      /\ \A x \in Opens : Mapped(x)' <=> Mapped(x)
  BY <1>1, <1>5, <1>6, ServerFrame
<1>8. FsType' /\ Pages'
  BY <1>1, <1>7 DEF FsInv, FsType, Pages
<1>9. Opening' /\ Scanning' /\ LookupSucceeds'
  BY <1>1, <1>2, <1>4, <1>7 DEF Opening, Scanning, LookupSucceeds
<1>10. QED
  BY <1>7, <1>8, <1>9 DEF FsInv

(* The answer: an open gives the client the entry that was found.          *)
LEMMA AnswerDoes ==
    ASSUME FsInv, Answer
    PROVE  \E e \in Envs :
              /\ e = srv.req.whom /\ client[e] = "recv" /\ busy[e] \in Fds
              /\ UNCHANGED <<opentab, page, leaked>> /\ srv' = Idle
              /\ client' = [client EXCEPT ![e] =
                               IF srv.req.type = "flush" THEN "unmap" ELSE "run"]
              /\ busy' = IF srv.req.type = "flush" THEN busy
                         ELSE [busy EXCEPT ![e] = None]
              /\ \/ fdt' = fdt
                 \/ /\ fdt' = [fdt EXCEPT ![e][busy[e]] = srv.i]
                    /\ srv.i \in Opens /\ ~Mapped(srv.i) /\ fdt[e][busy[e]] = None
                    /\ srv.req.arg \in Files
                    /\ page[srv.i] # None /\ page[srv.i].offset = 0
                    /\ opentab[srv.i].o_file = srv.req.arg
<1>1. srv.pc = "answer" /\ srv.req.whom \in Envs /\ busy[srv.req.whom] \in Fds
  BY DEF Answer, FsInv, Waiting, Requests
<1>2. QED
  BY <1>1 DEF Answer, FsInv, Opening

(* After the answer the server is idle.                                    *)
LEMMA AnswerInv ==
    ASSUME FsInv, Answer
    PROVE  FsInv'
<1>1. PICK e \in Envs :
         /\ e = srv.req.whom /\ client[e] = "recv" /\ busy[e] \in Fds
         /\ UNCHANGED <<opentab, page, leaked>> /\ srv' = Idle
         /\ client' = [client EXCEPT ![e] =
                          IF srv.req.type = "flush" THEN "unmap" ELSE "run"]
         /\ busy' = IF srv.req.type = "flush" THEN busy ELSE [busy EXCEPT ![e] = None]
         /\ \/ fdt' = fdt
            \/ /\ fdt' = [fdt EXCEPT ![e][busy[e]] = srv.i]
               /\ srv.i \in Opens /\ page[srv.i] # None
  BY AnswerDoes
<1>2. srv'.pc = "recv" /\ srv'.req = None /\ srv'.i = 0 /\ srv'.r = 0
  BY <1>1 DEF Idle
<1>3. srv' \in Servers
  BY <1>1, Constants DEF Idle
<1>4. FsType'
  <2>1. fdt' \in [Envs -> [Fds -> Opens \cup {None}]]
    <3>1. fdt \in [Envs -> [Fds -> Opens \cup {None}]]
      BY DEF FsInv, FsType
    <3>2. ASSUME NEW fd \in Fds, NEW o \in Opens
          PROVE  [fdt EXCEPT ![e][fd] = o] \in [Envs -> [Fds -> Opens \cup {None}]]
      BY ONLY <3>1
    <3>3. QED
      BY <1>1, <3>1, <3>2
  <2>2. busy' \in [Envs -> Fds \cup {None}]
    BY <1>1 DEF FsInv, FsType
  <2>3. client' \in [Envs -> {"none", "run", "sent", "recv", "unmap"}]
    BY <1>1 DEF FsInv, FsType
  <2>4. QED
    BY <1>1, <1>3, <2>1, <2>2, <2>3 DEF FsInv, FsType
<1>5. Clients'
  BY <1>1 DEF FsInv, FsType, Clients
<1>6. Pages'
  <2>1. ASSUME NEW o \in Opens, Mapped(o)' PROVE Mapped(o) \/ o = srv.i
    <3>1. PICK x \in Envs, fd \in Fds : fdt'[x][fd] = o
      BY <2>1 DEF Mapped
    <3>2. fdt[x][fd] = o \/ o = srv.i
      BY <1>1, <3>1 DEF FsInv, FsType
    <3>3. QED
      BY <3>2 DEF Mapped
  <2>2. CASE fdt' = fdt
    BY <1>1, <2>2 DEF FsInv, Pages, Mapped
  <2>3. CASE srv.i \in Opens /\ page[srv.i] # None
    BY <1>1, <2>1, <2>3 DEF FsInv, Pages
  <2>4. QED
    BY <1>1, <2>2, <2>3
<1>7. QED
  BY <1>2, <1>4, <1>5, <1>6 DEF FsInv, Waiting, Opening, Asking, Flushing, Scanning,
                                LookupSucceeds

(* Every step keeps the invariant.                                         *)
LEMMA NextInv == FsInv /\ [Next]_vars => FsInv'
<1> SUFFICES ASSUME FsInv, [Next]_vars PROVE FsInv'
  OBVIOUS
<1>1. CASE UNCHANGED vars
  BY <1>1 DEF vars, FsInv, FsType, Pages, Mapped, Clients, Waiting, Opening, Asking, Flushing,
              Scanning, LookupSucceeds
<1>2. CASE Server
  BY <1>2, ScanInv, OpenInv, ReadInv, StatFlushInv, AnswerInv DEF Server
<1>3. ASSUME NEW e \in Envs,
             \/ Open(e) \/ ReadOrStat(e) \/ Close(e) \/ Receive(e) \/ Unmap(e)
             \/ Dup(e) \/ Seek(e) \/ Enter(e) \/ Fork(e) \/ Exit(e) \/ Kill(e)
      PROVE  FsInv'
  BY <1>3, ClientRequestInv, UnmapInv, DupInv, SeekInv, ForkInv, KillInv, QuietInv
<1>4. QED
  BY <1>1, <1>2, <1>3 DEF Next

(* So it is an invariant of the specification.                             *)
LEMMA Invariance == Spec => []FsInv
BY InitInv, NextInv, PTL DEF Spec

(* A read or stat on an open descriptor is never refused, whoever opens,   *)
(* closes, forks or dies meanwhile (serv.c:openfile_lookup).               *)
THEOREM Lookups == Spec => []LookupSucceeds
<1>1. FsInv => LookupSucceeds
  BY DEF FsInv
<1>2. QED
  BY <1>1, Invariance, PTL

-----------------------------------------------------------------------------
(* FsServer implements OpenFiles.                                          *)

Record(o) == [file |-> opentab[o].o_file, offset |-> page[o].offset]

(* The open files of an entry, without counting.                           *)
OpenedRight == opened = [o \in Opens |-> IF Mapped(o) THEN Record(o) ELSE None]

(* Both ways to say it agree.                                              *)
LEMMA OpenedIs == OpenedRight
BY MappingsCount DEF opened, Record, OpenedRight

(* Also after a step.                                                      *)
LEMMA OpenedNext == OpenedRight'
BY OpenedIs, PTL

(* Users of OpenFiles and Mapped of the invariant.                         *)
LEMMA UsersMapped ==
    ASSUME NEW t, NEW o
    PROVE  Files_!Users(t, o) = {} <=> ~\E e \in Envs, fd \in Fds : t[e][fd] = o
<1> DEFINE U == {x \in Envs \X Fds : t[x[1]][x[2]] = o}
<1>1. ASSUME NEW e \in Envs, NEW fd \in Fds, t[e][fd] = o PROVE <<e, fd>> \in U
  BY <1>1
<1>2. ASSUME NEW x \in U PROVE x[1] \in Envs /\ x[2] \in Fds /\ t[x[1]][x[2]] = o
  OBVIOUS
<1>3. QED
  BY <1>1, <1>2 DEF Files_!Users

(* Steps that leave the descriptors and the open files alone.              *)
LEMMA Stutters ==
    ASSUME UNCHANGED fdt, \A o \in Opens : Mapped(o) => Record(o)' = Record(o)
    PROVE  UNCHANGED <<fdt, opened>>
<1>1. \A o \in Opens : Mapped(o)' <=> Mapped(o)
  BY DEF Mapped
<1>2. opened' = opened
  BY <1>1, OpenedIs, OpenedNext DEF OpenedRight
<1>3. QED
  BY <1>2

(* Steps that give an entry in use to more descriptors, or to fewer.       *)
LEMMA Retables ==
    ASSUME UNCHANGED <<opentab, page>>, \A o \in Opens : Mapped(o)' => Mapped(o),
           NEW t, fdt' = t
    PROVE  Files_!Retable(t)
<1>1. \A o \in Opens : Record(o)' = Record(o)
  BY DEF Record
<1>2. \A o \in Opens : Mapped(o)' <=> Files_!Users(t, o) # {}
  BY UsersMapped DEF Mapped
<1>3. opened' = [o \in Opens |-> IF Files_!Users(t, o) = {} THEN None ELSE opened[o]]
  <2>1. \A o \in Opens : Mapped(o)' => opened[o] = Record(o)
    BY OpenedIs DEF OpenedRight
  <2>2. opened' = [o \in Opens |-> IF Mapped(o)' THEN Record(o) ELSE None]
    BY <1>1, OpenedNext DEF OpenedRight
  <2>3. QED
    BY <1>2, <2>1, <2>2
<1>4. QED
  BY <1>3 DEF Files_!Retable, Files_!Keep

(* Steps that change the open file of one entry.                           *)
LEMMA OneOpened ==
    ASSUME NEW o \in Opens, NEW v, Mapped(o)', Record(o)' = v,
           \A x \in Opens \ {o} : (Mapped(x)' <=> Mapped(x)) /\ Record(x)' = Record(x)
    PROVE  opened' = [opened EXCEPT ![o] = v]
<1>1. \A x \in Opens \ {o} : opened'[x] = opened[x]
  BY OpenedIs, OpenedNext DEF OpenedRight
<1>2. opened'[o] = v
  BY OpenedNext DEF OpenedRight
<1>3. /\ opened = [x \in Opens |-> opened[x]]
      /\ opened' = [x \in Opens |-> opened'[x]]
  BY OpenedIs, OpenedNext DEF OpenedRight
<1>4. QED
  BY ONLY <1>1, <1>2, <1>3, o \in Opens

(* The steps of the clients on the abstract files.                         *)
LEMMA ClientSteps ==
    ASSUME FsInv, NEW e \in Envs,
           \/ Open(e) \/ ReadOrStat(e) \/ Close(e) \/ Receive(e) \/ Unmap(e)
           \/ Dup(e) \/ Seek(e) \/ Enter(e) \/ Fork(e) \/ Exit(e) \/ Kill(e)
    PROVE  Files_!Next \/ UNCHANGED <<fdt, opened>>
<1>1. CASE Open(e) \/ ReadOrStat(e) \/ Close(e) \/ Receive(e) \/ Enter(e) \/ Exit(e)
  <2>1. UNCHANGED <<fdt, page, opentab>>
    BY <1>1 DEF Open, ReadOrStat, Close, fsipc, Receive, Enter, Exit
  <2>2. QED
    BY <2>1, Stutters DEF Record
<1>2. CASE Unmap(e)
  <2>1. /\ busy[e] \in Fds /\ fdt' = [fdt EXCEPT ![e][busy[e]] = None]
        /\ UNCHANGED <<opentab, page>>
    BY <1>2 DEF Unmap, FsInv, Clients
  <2>2. \A o \in Opens : Mapped(o)' => Mapped(o)
    BY <2>1, Constants DEF FsInv, FsType, Mapped
  <2>3. Files_!Close(e, busy[e])
    BY <2>1, <2>2, Retables DEF Files_!Close
  <2>4. QED
    BY <2>1, <2>3 DEF Files_!Next
<1>3. CASE Dup(e)
  <2>1. PICK fd \in Fds, new \in Fds :
           /\ fdt' = [fdt EXCEPT ![e][new] = fdt[e][fd]]
           /\ UNCHANGED <<opentab, page>>
    BY <1>3 DEF Dup
  <2>2. \A o \in Opens : Mapped(o)' => Mapped(o)
    BY <2>1 DEF FsInv, FsType, Mapped
  <2>3. Files_!Dup(e, fd, new)
    BY <2>1, <2>2, Retables DEF Files_!Dup
  <2>4. QED
    BY <2>3 DEF Files_!Next
<1>4. CASE Seek(e)
  <2>1. PICK fd \in Fds :
           fdt[e][fd] # None /\ page' = [page EXCEPT ![fdt[e][fd]].offset = 0]
    BY <1>4 DEF Seek
  <2>2. UNCHANGED <<opentab, fdt>>
    BY <1>4 DEF Seek
  <2>3. PICK o \in Opens : o = fdt[e][fd] /\ Mapped(o) /\ page[o] # None
    BY <2>1 DEF FsInv, FsType, Pages, Mapped
  <2>4. page[o] \in [id : Ids, offset : Nat]
    BY <2>3 DEF FsInv, FsType
  <2>5. page'[o].offset = 0 /\ \A x \in Opens \ {o} : page'[x] = page[x]
    BY <2>1, <2>3, <2>4 DEF FsInv, FsType
  <2>6. \A x \in Opens : Mapped(x)' <=> Mapped(x)
    BY <2>2 DEF Mapped
  <2>7. Record(o)' = [Record(o) EXCEPT !.offset = 0]
    BY <2>2, <2>5 DEF Record
  <2>8. \A x \in Opens \ {o} : Record(x)' = Record(x)
    BY <2>2, <2>5 DEF Record
  <2>9. opened' = [opened EXCEPT ![o].offset = 0]
    <3>1. opened' = [opened EXCEPT ![o] = [Record(o) EXCEPT !.offset = 0]]
      BY <2>3, <2>6, <2>7, <2>8, OneOpened
    <3>2. opened[o] = Record(o)
      BY <2>3, OpenedIs DEF OpenedRight
    <3>3. QED
      BY <3>1, <3>2
  <2>10. Files_!Seek(e, fd, 0) /\ 0 \in 0..FileLen
    BY <2>1, <2>2, <2>3, <2>9, Constants DEF Files_!Seek
  <2>11. QED
    BY <2>10 DEF Files_!Next
<1>5. CASE Fork(e)
  <2>1. PICK c \in Envs : client[c] = "none" /\ fdt' = [fdt EXCEPT ![c] = fdt[e]]
    BY <1>5 DEF Fork
  <2>2. c # e /\ UNCHANGED <<opentab, page>>
    BY <1>5, <2>1 DEF Fork
  <2>3. \A fd \in Fds : fdt[c][fd] = None
    BY <2>1 DEF FsInv, Clients, NoFds
  <2>4. \A o \in Opens : Mapped(o)' => Mapped(o)
    BY <2>1 DEF FsInv, FsType, Mapped
  <2>5. Files_!Fork(e, c)
    BY <2>1, <2>2, <2>3, <2>4, Retables DEF Files_!Fork
  <2>6. QED
    BY <2>2, <2>5 DEF Files_!Next
<1>6. CASE Kill(e)
  <2>1. /\ fdt' = [fdt EXCEPT ![e] = [fd \in Fds |-> None]]
        /\ UNCHANGED <<opentab, page>>
    BY <1>6 DEF Kill, NoFds
  <2>2. \A o \in Opens : Mapped(o)' => Mapped(o)
    BY <2>1, Constants DEF FsInv, FsType, Mapped
  <2>3. Files_!Die(e)
    BY <2>1, <2>2, Retables DEF Files_!Die
  <2>4. QED
    BY <2>3 DEF Files_!Next
<1>7. QED
  BY <1>1, <1>2, <1>3, <1>4, <1>5, <1>6

(* Those of the server.                                                    *)
LEMMA ServerSteps ==
    ASSUME FsInv, Server
    PROVE  Files_!Next \/ UNCHANGED <<fdt, opened>>
<1>1. CASE ScanOn \/ TooManyOpen \/ serve_stat \/ serve_flush
  <2>1. UNCHANGED <<fdt, page, opentab>>
    BY <1>1 DEF ScanOn, TooManyOpen, serve_stat, serve_flush
  <2>2. QED
    BY <2>1, Stutters DEF Record
<1>2. CASE serve_open
  <2>1. srv.i \in Opens /\ Available(srv.i) /\ fdt' = fdt
    BY <1>2, Constants DEF serve_open, FsInv, FsType, Opens
  <2>2. ~Mapped(srv.i)
    BY <2>1, AvailableUnmapped DEF FsInv
  <2>3. \A o \in Opens \ {srv.i} : page'[o] = page[o] /\ opentab'[o] = opentab[o]
    BY <1>2 DEF serve_open, FsInv, FsType
  <2>4. \A o \in Opens : Mapped(o) => Record(o)' = Record(o)
    BY <2>2, <2>3 DEF Record
  <2>5. QED
    BY <2>1, <2>4, Stutters
<1>3. CASE serve_read
  <2>1. PICK n \in {0, 1}, fd \in Fds :
           LET o == fdt[srv.req.whom][fd]
           IN  /\ o \in Opens /\ Mapped(o) /\ page[o] # None
               /\ n = 1 => page[o].offset < FileLen
               /\ page' = [page EXCEPT ![o].offset = @ + n]
    BY <1>3, ReadDoes
  <2>2. PICK e \in Envs, o \in Opens :
           /\ o = fdt[e][fd] /\ Mapped(o) /\ page[o] # None
           /\ n = 1 => page[o].offset < FileLen
           /\ page' = [page EXCEPT ![o].offset = @ + n]
    <3>1. srv.req.whom \in Envs
      BY <1>3 DEF serve_read, FsInv, Waiting, Requests
    <3>2. QED
      BY <2>1, <3>1
  <2>3. UNCHANGED <<opentab, fdt>>
    BY <1>3 DEF serve_read
  <2>4. page[o] \in [id : Ids, offset : Nat]
    BY <2>2 DEF FsInv, FsType
  <2>5. page'[o].offset = page[o].offset + n /\ \A x \in Opens \ {o} : page'[x] = page[x]
    BY <2>2, <2>4 DEF FsInv, FsType
  <2>6. \A x \in Opens : Mapped(x)' <=> Mapped(x)
    BY <2>3 DEF Mapped
  <2>7. \A x \in Opens \ {o} : Record(x)' = Record(x)
    BY <2>3, <2>5 DEF Record
  <2>8. CASE n = 0
    <3>1. Record(o)' = Record(o)
      BY <2>3, <2>4, <2>5, <2>8 DEF Record
    <3>2. QED
      BY <2>3, <2>7, <3>1, Stutters
  <2>9. CASE n = 1
    <3>1. opened[o] = Record(o)
      BY <2>2, OpenedIs DEF OpenedRight
    <3>2. Record(o)' = [Record(o) EXCEPT !.offset = Record(o).offset + 1]
      <4>1. Record(o)' = [file |-> opentab[o].o_file, offset |-> page[o].offset + 1]
        BY <2>3, <2>5, <2>9 DEF Record
      <4>2. QED
        BY <4>1 DEF Record
    <3>3. opened' = [opened EXCEPT ![o].offset = @ + 1]
      <4>1. opened' = [opened EXCEPT
                          ![o] = [Record(o) EXCEPT !.offset = Record(o).offset + 1]]
        BY <2>2, <2>6, <2>7, <3>2, OneOpened
      <4>2. QED
        BY <3>1, <4>1
    <3>4. fdt[e][fd] # None /\ opened[fdt[e][fd]].offset < FileLen
      BY <2>2, <2>9, <3>1, Constants DEF Record
    <3>5. Files_!Read(e, fd)
      BY <2>2, <2>3, <3>3, <3>4 DEF Files_!Read
    <3>6. QED
      BY <2>3, <3>5 DEF Files_!Next
  <2>10. QED
    BY <2>8, <2>9
<1>4. CASE Answer
  <2>1. PICK e \in Envs :
           /\ busy[e] \in Fds /\ UNCHANGED <<opentab, page>>
           /\ \/ fdt' = fdt
              \/ /\ fdt' = [fdt EXCEPT ![e][busy[e]] = srv.i]
                 /\ srv.i \in Opens /\ ~Mapped(srv.i) /\ fdt[e][busy[e]] = None
                 /\ srv.req.arg \in Files
                 /\ page[srv.i].offset = 0 /\ opentab[srv.i].o_file = srv.req.arg
    BY <1>4, AnswerDoes
  <2>2. CASE fdt' = fdt
    BY <2>1, <2>2, Stutters DEF Record
  <2>3. CASE /\ fdt' = [fdt EXCEPT ![e][busy[e]] = srv.i]
             /\ srv.i \in Opens /\ ~Mapped(srv.i) /\ fdt[e][busy[e]] = None
             /\ srv.req.arg \in Files
             /\ page[srv.i].offset = 0 /\ opentab[srv.i].o_file = srv.req.arg
    <3>1. PICK i \in Opens : i = srv.i
      BY <2>3
    <3>2. \A x \in Envs, fd \in Fds :
             IF x = e /\ fd = busy[e] THEN fdt'[x][fd] = i ELSE fdt'[x][fd] = fdt[x][fd]
      BY <2>1, <2>3, <3>1 DEF FsInv, FsType
    <3>3. Mapped(i)'
      BY <2>1, <3>2 DEF Mapped
    <3>4. \A o \in Opens \ {i} : Mapped(o)' <=> Mapped(o)
      <4>1. TAKE o \in Opens \ {i}
      <4>2. \A x \in Envs, fd \in Fds : fdt'[x][fd] = o <=> fdt[x][fd] = o
        BY <2>1, <2>3, <3>1, <3>2, Constants
      <4>3. QED
        BY <4>2 DEF Mapped
    <3>5. \A o \in Opens : Record(o)' = Record(o)
      BY <2>1 DEF Record
    <3>6. Record(i) = [file |-> srv.req.arg, offset |-> 0]
      BY <2>3, <3>1 DEF Record
    <3>7. PICK f \in Files : f = srv.req.arg
      BY <2>3
    <3>8. opened' = [opened EXCEPT ![i] = [file |-> f, offset |-> 0]]
      BY <3>3, <3>4, <3>5, <3>6, <3>7, OneOpened
    <3>9. Files_!Users(fdt, i) = {}
      BY <2>3, <3>1, UsersMapped DEF Mapped
    <3>10. PICK fd \in Fds : fd = busy[e]
      BY <2>1
    <3>11. Files_!Open(e, fd, i, f)
      BY <2>3, <3>1, <3>8, <3>9, <3>10 DEF Files_!Open
    <3>12. QED
      BY <3>11 DEF Files_!Next
  <2>4. QED
    BY <2>1, <2>2, <2>3
<1>5. QED
  BY <1>1, <1>2, <1>3, <1>4 DEF Server

(* At the start nothing is open.                                           *)
LEMMA InitFiles == Init => Files_!Init
<1> SUFFICES ASSUME Init PROVE Files_!Init
  OBVIOUS
<1>1. \A o \in Opens : ~Mapped(o)
  BY Constants DEF Init, Mapped, NoFds
<1>2. QED
  BY <1>1, OpenedIs DEF Init, NoFds, OpenedRight, Files_!Init

(* Each step is a step of OpenFiles or none.                               *)
LEMMA StepFiles == FsInv /\ [Next]_vars => [Files_!Next]_(Files_!fileVars)
<1> SUFFICES ASSUME FsInv, [Next]_vars PROVE Files_!Next \/ UNCHANGED <<fdt, opened>>
  BY DEF Files_!fileVars
<1>1. CASE UNCHANGED vars
  BY <1>1, Stutters DEF vars, Record
<1>2. CASE Next
  BY <1>2, ClientSteps, ServerSteps DEF Next
<1>3. QED
  BY <1>1, <1>2

(* The server and its clients together are a table of open files: one      *)
(* offset for those that share a file, an entry for one open only, each    *)
(* part delivered once.                                                    *)
THEOREM ImplementsFiles == Spec => ImplementsOpenFiles
BY Invariance, InitFiles, StepFiles, PTL DEF Spec, ImplementsOpenFiles, Files_!Spec
=============================================================================

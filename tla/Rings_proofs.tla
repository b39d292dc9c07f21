---------------------------- MODULE Rings_proofs ----------------------------
(***************************************************************************)
(* Proofs about the rings of JOS, for rings of any size.                   *)
(*                                                                         *)
(* Pipe, for any number of environments and any length of stream: the      *)
(* reader gets the bytes in order, and when the other end is closed the    *)
(* counts say so; on one CPU they say so only then, forks apart.           *)
(*                                                                         *)
(* E1000: the two rings of the network card are queues.  A descriptor is   *)
(* in a ring when its distance from the head, going round, is less than    *)
(* the length of the ring; its DD bit says on which side it is, but for    *)
(* the one descriptor that the driver is about to hand over.               *)
(***************************************************************************)
EXTENDS Pipe, E1000, FiniteSetTheorems, SequenceTheorems, TLAPS

-----------------------------------------------------------------------------
(* The pipe.                                                               *)

(* Where the loops of read and write are, and whose they are.              *)
Xfer(e, r) ==
    /\ r.pc \in {"rloop", "rtake", "rinc"} => r.ret = "rloop"
    /\ r.pc \in {"wloop", "wput", "winc"} => r.ret = "wloop"
    /\ r.ret = "rloop" => e = Reader
    /\ r.ret = "wloop" => e = Writer /\ wpos + r.todo <= MaxBytes
    /\ r.pc \in {"rtake", "rinc"} => r.todo > 0 /\ rpos < wpos
    /\ r.pc = "rinc" => r.buf = rpos
    /\ r.pc \in {"wput", "winc"} => r.todo > 0 /\ wpos < rpos + BufSize
    /\ r.pc = "winc" => p_buf[wpos % BufSize] = wpos

Stream ==
    /\ rpos <= wpos /\ wpos <= rpos + BufSize
    /\ \A j \in rpos..wpos - 1 : p_buf[j % BufSize] = j

(* A call that has not begun has no locals.                                *)
Fresh(e) == job[e].pc \in {"none", "embryo", "idle"} => job[e] = Place(job[e].pc)

(* The slots whose two pages are both there or both not.                   *)
Paired(e, S) == \A i \in S : fd[e][i] # None <=> i \in data[e]

Source(e) == job[e].new = 2 /\ job[e].slot # 2 /\ fd[e][job[e].slot] # None

Mappings(e) ==
    CASE job[e].pc = "none" -> data[e] = {} /\ \A i \in Slots : fd[e][i] = None
      [] job[e].pc = "embryo" -> \E x \in Envs : job[x].pc = "fork" /\ job[x].kid = e
      [] job[e].pc = "close" ->
            /\ job[e].new = None => fd[e][job[e].slot] = None /\ Paired(e, Slots \ {job[e].slot})
            /\ job[e].new # None => Source(e) /\ fd[e][2] = None /\ Paired(e, Slots \ {2})
      [] job[e].pc = "dupdata" -> Source(e) /\ fd[e][2] = None /\ Paired(e, Slots)
      [] job[e].pc = "dupfd" ->
            Source(e) /\ fd[e][2] = None /\ 2 \in data[e] /\ Paired(e, Slots \ {2})
      [] OTHER -> Paired(e, Slots)

(* What fork has mapped in the child so far.                               *)
Copied(e) ==
    LET c == job[e].kid
    IN  /\ c \in Envs /\ job[c].pc = "embryo"
        /\ \A i \in Slots : fd[c][i] = IF i < job[e].k THEN fd[e][i] ELSE None
        /\ data[c] = {i \in data[e] : i + 3 < job[e].k}

Kids ==
    /\ \A e \in Envs : job[e].pc = "fork" => Copied(e)
    /\ \A x, y \in Envs : job[x].pc = "fork" /\ job[y].pc = "fork" /\ job[x].kid = job[y].kid => x = y

PipeInv ==
    /\ TypeOK /\ Stream
    /\ \A e \in Envs : Xfer(e, job[e]) /\ Fresh(e) /\ Mappings(e)
    /\ Kids

Busy == {"close", "dupdata", "dupfd", "fork"}
Plain == Labels \ (Busy \cup {"none", "embryo"})

-----------------------------------------------------------------------------
LEMMA Params ==
    /\ IsFiniteSet(Envs) /\ BufSize \in Nat \ {0} /\ MaxBytes \in Nat
    /\ First \in Envs /\ Reader \in Envs /\ Writer \in Envs
    /\ Lengths \subseteq Nat \ {0} /\ None \notin {"r", "w"} /\ None # 2
BY PipeAssumption

(* Counts are numbers.                                                     *)
LEMMA Counts ==
    /\ \A kind : FdRef(kind) \in Nat
    /\ PipeRef \in Nat
<1>1. IsFiniteSet(Envs \X Slots)
  <2>1. IsFiniteSet(Slots)
    <3>1. 0 \in Int /\ 2 \in Int
      OBVIOUS
    <3>2. IsFiniteSet(0..2)
      BY <3>1, FS_Interval, Zenon
    <3>3. QED
      BY <3>2, Zenon DEF Slots
  <2>2. QED
    BY <2>1, Params, FS_Product
<1>2. \A S \in SUBSET (Envs \X Slots) : Cardinality(S) \in Nat
  BY <1>1, FS_Subset, FS_CardinalityType
<1>3. QED
  BY <1>2 DEF FdRef, PipeRef

(* One environment goes from one place of its program to another.          *)
LEMMA JobOf ==
    ASSUME TypeOK, NEW e \in Envs, NEW r \in Jobs, job' = [job EXCEPT ![e] = r]
    PROVE  /\ job' \in [Envs -> Jobs] /\ job'[e] = r
           /\ \A x \in Envs \ {e} : job'[x] = job[x]
BY DEF TypeOK

(* A step of one environment that is neither forking nor being made leaves *)
(* what holds of the others.                                               *)
LEMMA Alone ==
    ASSUME PipeInv, NEW e \in Envs, NEW r \in Jobs, job' = [job EXCEPT ![e] = r],
           job[e].pc \notin {"none", "embryo", "fork"}, r.pc \notin {"none", "embryo", "fork"},
           \A x \in Envs \ {e} : fd'[x] = fd[x] /\ data'[x] = data[x],
           Mappings(e)', Fresh(e)'
    PROVE  (\A x \in Envs : Fresh(x)' /\ Mappings(x)') /\ Kids'
<1>1. /\ job'[e] = r
      /\ \A x \in Envs \ {e} : job'[x] = job[x]
  BY JobOf DEF PipeInv
<1>2. \A x \in Envs : Fresh(x)'
  BY <1>1 DEF PipeInv, Fresh
<1>3. ASSUME NEW x \in Envs \ {e} PROVE Mappings(x)'
  <2>1. Mappings(x) /\ job'[x] = job[x] /\ fd'[x] = fd[x] /\ data'[x] = data[x]
    BY <1>1 DEF PipeInv
  <2>2. CASE job[x].pc = "embryo"
    <3>1. PICK y \in Envs : job[y].pc = "fork" /\ job[y].kid = x
      BY <2>1, <2>2 DEF Mappings
    <3>2. job'[y] = job[y]
      BY <1>1, <3>1
    <3>3. QED
      BY <2>1, <2>2, <3>1, <3>2 DEF Mappings
  <2>3. CASE job[x].pc # "embryo"
    BY <2>1, <2>3 DEF Mappings, Paired, Source
  <2>4. QED
    BY <2>2, <2>3
<1>4. Kids'
  <2>1. ASSUME NEW x \in Envs, job'[x].pc = "fork" PROVE x # e /\ Copied(x)'
    <3>1. x # e /\ job'[x] = job[x]
      BY <1>1, <2>1
    <3>2. Copied(x)
      BY <2>1, <3>1 DEF PipeInv, Kids
    <3>3. job[x].kid \in Envs \ {e}
      BY <3>2 DEF Copied
    <3>4. /\ job'[job[x].kid] = job[job[x].kid]
          /\ fd'[job[x].kid] = fd[job[x].kid] /\ data'[job[x].kid] = data[job[x].kid]
          /\ fd'[x] = fd[x] /\ data'[x] = data[x]
      BY <1>1, <3>1, <3>3
    <3>5. QED
      BY <3>1, <3>2, <3>4 DEF Copied
  <2>2. QED
    BY <1>1, <2>1 DEF PipeInv, Kids
<1>5. QED
  BY <1>2, <1>3, <1>4

(* A step that changes nothing but the place where its environment is.     *)
LEMMA Quiet ==
    ASSUME PipeInv, NEW e \in Envs, NEW r \in Jobs, job' = [job EXCEPT ![e] = r],
           job[e].pc \in Plain, r.pc \in Plain, Xfer(e, r), r.pc = "idle" => r = Place("idle"),
           UNCHANGED <<fd, data, ring, on>>
    PROVE  PipeInv'
<1>1. job' \in [Envs -> Jobs] /\ job'[e] = r /\ \A x \in Envs \ {e} : job'[x] = job[x]
  BY JobOf DEF PipeInv
<1>2. TypeOK' /\ Stream'
  BY <1>1 DEF PipeInv, TypeOK, Stream, ring
<1>3. \A x \in Envs : Xfer(x, job[x])'
  BY <1>1 DEF PipeInv, Xfer, ring
<1>4. Fresh(e)'
  BY <1>1 DEF Plain, Busy, Fresh
<1>5. Mappings(e)'
  <2>1. Paired(e, Slots)
    BY DEF PipeInv, Mappings, Plain, Busy
  <2>2. QED
    BY <1>1, <2>1 DEF Mappings, Paired, Plain, Busy
<1>6. (\A x \in Envs : Fresh(x)' /\ Mappings(x)') /\ Kids'
  BY <1>4, <1>5, Alone DEF Plain, Busy
<1>7. QED
  BY <1>2, <1>3, <1>6 DEF PipeInv

(* What is known of an environment that acts.                              *)
LEMMA Actor ==
    ASSUME PipeInv, NEW e \in Envs
    PROVE  /\ job[e] \in Jobs /\ Xfer(e, job[e]) /\ Fresh(e) /\ Mappings(e)
           /\ rpos \in Nat /\ wpos \in Nat /\ rpos <= wpos /\ wpos <= rpos + BufSize
           /\ fd \in [Envs -> [Slots -> {"r", "w", None}]] /\ data \in [Envs -> SUBSET Slots]
           /\ p_buf \in [0..BufSize - 1 -> 0..MaxBytes]
BY Params DEF PipeInv, TypeOK, Stream

LEMMA PlaceType == \A label \in Labels : Place(label) \in Jobs /\ Place(label).pc = label /\ Place(label).ret = "idle"
BY Params DEF Place, Jobs, Slots

LEMMA SameJob ==
    ASSUME NEW r \in Jobs, NEW q \in Jobs, r.pc = q.pc, r.slot = q.slot, r.new = q.new,
           r.kid = q.kid, r.k = q.k, r.todo = q.todo, r.got = q.got, r.buf = q.buf,
           r.ret = q.ret, r.fdref = q.fdref, r.pref = q.pref, r.ran = q.ran
    PROVE  r = q
BY DEF Jobs

(* A new child differs from an unused place in its label only, and the     *)
(* mark of the scheduler is not set in a program that is in no call.       *)
LEMMA Relabel ==
    /\ [Place("none") EXCEPT !.pc = "embryo"] = Place("embryo")
    /\ [Place("idle") EXCEPT !.ran = FALSE] = Place("idle")
<1>1. Place("none") \in Jobs /\ Place("embryo") \in Jobs /\ Place("idle") \in Jobs
  BY PlaceType DEF Labels
<1>2. [Place("none") EXCEPT !.pc = "embryo"] \in Jobs /\ [Place("idle") EXCEPT !.ran = FALSE] \in Jobs
  <2>1. \A r \in Jobs : [r EXCEPT !.pc = "embryo"] \in Jobs
    BY DEF Jobs, Labels
  <2>2. \A r \in Jobs : [r EXCEPT !.ran = FALSE] \in Jobs
    BY DEF Jobs
  <2>3. QED
    BY <1>1, <2>1, <2>2
<1>3. [Place("none") EXCEPT !.pc = "embryo"] = Place("embryo")
  <2> DEFINE r == [Place("none") EXCEPT !.pc = "embryo"]
  <2>1. /\ r.pc = "embryo" /\ r.slot = 0 /\ r.new = None /\ r.kid = None /\ r.k = 0
        /\ r.todo = 0 /\ r.got = 0 /\ r.buf = 0 /\ r.ret = "idle" /\ r.fdref = None
        /\ r.pref = None /\ r.ran = FALSE
    BY DEF Place
  <2> HIDE DEF r
  <2>2. QED
    BY <1>1, <1>2, <2>1, SameJob DEF Place, r
<1>4. [Place("idle") EXCEPT !.ran = FALSE] = Place("idle")
  <2> DEFINE r == [Place("idle") EXCEPT !.ran = FALSE]
  <2>1. /\ r.pc = "idle" /\ r.slot = 0 /\ r.new = None /\ r.kid = None /\ r.k = 0
        /\ r.todo = 0 /\ r.got = 0 /\ r.buf = 0 /\ r.ret = "idle" /\ r.fdref = None
        /\ r.pref = None /\ r.ran = FALSE
    BY DEF Place
  <2> HIDE DEF r
  <2>2. QED
    BY <1>1, <1>2, <2>1, SameJob DEF Place, r
<1>5. QED
  BY <1>3, <1>4

-----------------------------------------------------------------------------
LEMMA IsClosedInv ==
    ASSUME PipeInv, NEW e \in Envs, NEW i \in Slots,
           pipeisclosed(e, i) \/ devpipe_read(e, i) \/ devpipe_write(e, i)
    PROVE  PipeInv'
<1>1. /\ job[e] = Place("idle") /\ job[e] \in Jobs /\ job[e].pc = "idle" /\ rpos \in Nat /\ wpos \in Nat
      /\ UNCHANGED <<fd, data, ring, on>>
  <2>1. job[e].pc = "idle" /\ UNCHANGED <<fd, data, ring, on>>
    BY DEF pipeisclosed, devpipe_read, devpipe_write, Call, At
  <2>2. job[e] \in Jobs /\ Fresh(e) /\ rpos \in Nat /\ wpos \in Nat
    BY Actor
  <2>3. QED
    BY <2>1, <2>2 DEF Fresh
<1>2. CASE pipeisclosed(e, i)
  <2> DEFINE r == [job[e] EXCEPT !.slot = i, !.pc = "n"]
  <2>1. job' = [job EXCEPT ![e] = r]
    BY <1>2 DEF pipeisclosed
  <2>2. r \in Jobs /\ r.pc = "n" /\ r.ret = "idle"
    <3>1. job[e].ret = "idle"
      BY <1>1, PlaceType DEF Labels
    <3>2. QED
      BY <1>1, <3>1 DEF Jobs, Labels
  <2>3. Xfer(e, r)
    BY <2>2 DEF Xfer
  <2>4. QED
    BY <1>1, <2>1, <2>2, <2>3, Quiet DEF Plain, Labels, Busy
<1>3. ASSUME NEW n \in Nat, NEW label \in {"rloop", "wloop"}, Call(e, i, n, label),
             label = "rloop" => e = Reader, label = "wloop" => e = Writer /\ wpos + n <= MaxBytes
      PROVE  PipeInv'
  <2> DEFINE r == [job[e] EXCEPT !.slot = i, !.todo = n, !.ret = label, !.pc = label]
  <2>1. job' = [job EXCEPT ![e] = r]
    BY <1>3 DEF Call
  <2>2. r \in Jobs /\ r.pc = label /\ r.ret = label /\ r.todo = n
    BY <1>1 DEF Jobs, Labels
  <2>3. Xfer(e, r)
    BY <1>3, <2>2 DEF Xfer
  <2>4. QED
    BY <1>1, <2>1, <2>2, <2>3, Quiet DEF Plain, Labels, Busy
<1>4. QED
  BY <1>2, <1>3, Params DEF devpipe_read, devpipe_write

LEMMA CompareInv ==
    ASSUME PipeInv, NEW e \in Envs, ReadRuns(e) \/ ReadRef(e) \/ Verdict(e) \/ Eof(e)
    PROVE  PipeInv'
<1>1. /\ job[e] \in Jobs /\ Xfer(e, job[e]) /\ rpos \in Nat /\ wpos \in Nat
      /\ UNCHANGED <<fd, data, ring, on>> /\ job[e].pc \in {"n", "refs", "nn", "eof"}
  BY Actor DEF ReadRuns, ReadRef, Verdict, Eof, At
<1>2. CASE Return(e)
  BY <1>1, <1>2, PlaceType, Quiet DEF Return, Xfer, Plain, Labels, Busy
<1>3. ASSUME NEW r \in Jobs, job' = [job EXCEPT ![e] = r], r.ret = job[e].ret, r.todo = job[e].todo,
             r.pc \in {"n", "refs", "nn", "eof"} \/ (r.pc = job[e].ret /\ r.pc # "idle")
      PROVE  PipeInv'
  <2>1. r.pc \in {"n", "refs", "nn", "eof", "rloop", "wloop"}
    BY <1>1, <1>3 DEF Jobs
  <2>2. Xfer(e, r)
    BY <1>1, <1>3, <2>1 DEF Xfer
  <2>3. QED
    BY <1>1, <1>3, <2>1, <2>2, Quiet DEF Plain, Labels, Busy
<1>4. CASE ReadRuns(e)
  <2> DEFINE r == [job[e] EXCEPT !.ran = FALSE, !.pc = "refs"]
  <2>1. r \in Jobs /\ r.pc = "refs" /\ r.ret = job[e].ret /\ r.todo = job[e].todo
    BY <1>1 DEF Jobs, Labels
  <2>2. job' = [job EXCEPT ![e] = r]
    BY <1>4 DEF ReadRuns
  <2>3. QED
    BY <1>3, <2>1, <2>2
<1>5. CASE ReadRef(e)
  <2>1. CASE job' = [job EXCEPT ![e].fdref = FdRef(fd[e][job[e].slot]),
                                ![e].pc = IF job[e].pref = None THEN "refs" ELSE "nn"]
    <3> DEFINE r == [job[e] EXCEPT !.fdref = FdRef(fd[e][job[e].slot]),
                                   !.pc = IF job[e].pref = None THEN "refs" ELSE "nn"]
    <3>1. r \in Jobs /\ r.pc \in {"refs", "nn"} /\ r.ret = job[e].ret /\ r.todo = job[e].todo
      BY <1>1, Counts DEF Jobs, Labels
    <3>2. QED
      BY <1>3, <2>1, <3>1
  <2>2. CASE job' = [job EXCEPT ![e].pref = PipeRef,
                                ![e].pc = IF job[e].fdref = None THEN "refs" ELSE "nn"]
    <3> DEFINE r == [job[e] EXCEPT !.pref = PipeRef,
                                   !.pc = IF job[e].fdref = None THEN "refs" ELSE "nn"]
    <3>1. r \in Jobs /\ r.pc \in {"refs", "nn"} /\ r.ret = job[e].ret /\ r.todo = job[e].todo
      BY <1>1, Counts DEF Jobs, Labels
    <3>2. QED
      BY <1>3, <2>2, <3>1
  <2>3. QED
    BY <1>5, <2>1, <2>2 DEF ReadRef
<1>6. CASE Verdict(e)
  <2>1. CASE Goto(e, "eof")
    <3> DEFINE r == [job[e] EXCEPT !.pc = "eof"]
    <3>1. r \in Jobs /\ r.pc = "eof" /\ r.ret = job[e].ret /\ r.todo = job[e].todo
      BY <1>1 DEF Jobs, Labels
    <3>2. QED
      BY <1>3, <2>1, <3>1 DEF Goto
  <2>2. ASSUME NEW label \in {"n", "rloop", "wloop"}, label # "n" => label = job[e].ret,
               job' = [job EXCEPT ![e].fdref = None, ![e].pref = None, ![e].pc = label]
        PROVE  PipeInv'
    <3> DEFINE r == [job[e] EXCEPT !.fdref = None, !.pref = None, !.pc = label]
    <3>1. r \in Jobs /\ r.pc = label /\ r.ret = job[e].ret /\ r.todo = job[e].todo
      BY <1>1 DEF Jobs, Labels
    <3>2. QED
      BY <1>3, <2>2, <3>1
  <2>3. job[e].ret \in {"rloop", "wloop", "idle"}
    BY <1>1 DEF Jobs
  <2>4. QED
    BY <1>2, <1>6, <2>1, <2>2, <2>3 DEF Verdict
<1>7. QED
  BY <1>2, <1>4, <1>5, <1>6 DEF Eof

LEMMA LoopInv ==
    ASSUME PipeInv, NEW e \in Envs, ReadLoop(e) \/ WriteLoop(e)
    PROVE  PipeInv'
<1>1. /\ job[e] \in Jobs /\ Xfer(e, job[e]) /\ rpos \in Nat /\ wpos \in Nat /\ rpos <= wpos
      /\ UNCHANGED <<fd, data, ring, on>> /\ job[e].pc \in {"rloop", "wloop"}
  BY Actor DEF ReadLoop, WriteLoop, At
<1>2. CASE Return(e)
  BY <1>1, <1>2, PlaceType, Quiet DEF Return, Xfer, Plain, Labels, Busy
<1>3. ASSUME NEW label \in {"n", "rtake", "wput"}, Goto(e, label),
             label = "rtake" => job[e].pc = "rloop" /\ job[e].todo > 0 /\ rpos # wpos,
             label = "wput" => job[e].pc = "wloop" /\ job[e].todo > 0 /\ wpos < rpos + BufSize
      PROVE  PipeInv'
  <2> DEFINE r == [job[e] EXCEPT !.pc = label]
  <2>1. r \in Jobs /\ r.pc = label /\ r.ret = job[e].ret /\ r.todo = job[e].todo
    BY <1>1 DEF Jobs, Labels
  <2>2. Xfer(e, r)
    BY <1>1, <1>3, <2>1 DEF Xfer
  <2>3. QED
    BY <1>1, <1>3, <2>1, <2>2, Quiet DEF Goto, Plain, Labels, Busy
<1>4. CASE ReadLoop(e)
  BY <1>2, <1>3, <1>4 DEF ReadLoop, At
<1>5. CASE WriteLoop(e)
  BY <1>2, <1>3, <1>5 DEF WriteLoop, At
<1>6. QED
  BY <1>4, <1>5

-----------------------------------------------------------------------------
LEMMA Division ==
    ASSUME NEW n \in Nat \ {0}, NEW a \in Nat
    PROVE  a \div n \in Nat /\ a % n \in 0..n - 1 /\ a = (a \div n) * n + (a % n)
<1>1. a \div n \in Nat
  OBVIOUS
<1>2. a % n \in 0..n - 1
  OBVIOUS
<1>3. a = (a \div n) * n + (a % n)
  OBVIOUS
<1>4. QED
  BY <1>1, <1>2, <1>3

(* Two positions of the stream less than a ring apart have different       *)
(* places in the ring.                                                     *)
LEMMA Places ==
    ASSUME NEW n \in Nat \ {0}, NEW a \in Nat, NEW b \in Nat, a < b, b < a + n
    PROVE  a % n # b % n /\ a % n \in 0..n - 1 /\ b % n \in 0..n - 1
<1> DEFINE q == a \div n
           p == b \div n
<1>1. q \in Nat /\ p \in Nat /\ a = q * n + (a % n) /\ b = p * n + (b % n)
      /\ a % n \in 0..n - 1 /\ b % n \in 0..n - 1
  BY Division
<1> HIDE DEF q, p
<1> SUFFICES ASSUME a % n = b % n PROVE FALSE
  BY <1>1
<1>2. p * n - q * n = b - a /\ p * n \in Nat /\ q * n \in Nat
  BY <1>1
<1>3. CASE p <= q
  <2>1. p * n <= q * n
    BY <1>1, <1>3
  <2>2. QED
    BY <1>2, <2>1
<1>4. CASE p >= q + 1
  <2>1. (q + 1) * n = q * n + n
    BY <1>1
  <2>2. p * n >= (q + 1) * n
    BY <1>1, <1>4
  <2>3. QED
    BY <1>2, <2>1, <2>2
<1>5. QED
  BY <1>1, <1>3, <1>4

(* A step of the reader or the writer on the ring itself.                  *)
LEMMA RingStep ==
    ASSUME PipeInv, NEW e \in Envs, NEW r \in Jobs, job' = [job EXCEPT ![e] = r],
           job[e].pc \in Plain, r.pc \in Plain \ {"idle"}, UNCHANGED <<fd, data, on>>,
           rpos' \in 0..MaxBytes, wpos' \in 0..MaxBytes,
           p_buf' \in [0..BufSize - 1 -> 0..MaxBytes],
           Stream', \A x \in Envs : Xfer(x, job[x])'
    PROVE  PipeInv'
<1>1. job' \in [Envs -> Jobs] /\ job'[e] = r
  BY JobOf DEF PipeInv
<1>2. TypeOK'
  BY <1>1 DEF PipeInv, TypeOK
<1>3. Fresh(e)'
  BY <1>1 DEF Plain, Busy, Fresh
<1>4. Mappings(e)'
  <2>1. Paired(e, Slots)
    BY DEF PipeInv, Mappings, Plain, Busy
  <2>2. QED
    BY <1>1, <2>1 DEF Mappings, Paired, Plain, Busy
<1>5. (\A x \in Envs : Fresh(x)' /\ Mappings(x)') /\ Kids'
  BY <1>3, <1>4, Alone DEF Plain, Busy
<1>6. QED
  BY <1>2, <1>5 DEF PipeInv

LEMMA ReadInv ==
    ASSUME PipeInv, NEW e \in Envs, ReadTake(e) \/ ReadInc(e)
    PROVE  PipeInv'
<1>1. /\ job[e] \in Jobs /\ Xfer(e, job[e]) /\ rpos \in Nat /\ wpos \in Nat
      /\ BufSize \in Nat \ {0} /\ MaxBytes \in Nat /\ wpos <= MaxBytes
      /\ p_buf \in [0..BufSize - 1 -> 0..MaxBytes]
      /\ UNCHANGED <<fd, data, on, wpos, p_buf>> /\ job[e].pc \in {"rtake", "rinc"}
      /\ Stream
  BY Actor, Params DEF PipeInv, TypeOK, ReadTake, ReadInc, At, ring
<1>2. e = Reader /\ job[e].ret = "rloop" /\ job[e].todo > 0 /\ rpos < wpos
  BY <1>1 DEF Xfer
<1>3. CASE ReadTake(e)
  <2> DEFINE r == [job[e] EXCEPT !.buf = p_buf[rpos % BufSize], !.pc = "rinc"]
  <2>1. rpos \in rpos..wpos - 1 /\ rpos % BufSize \in 0..BufSize - 1
    BY <1>1, <1>2
  <2>2. p_buf[rpos % BufSize] = rpos
    BY <1>1, <2>1 DEF Stream
  <2>3. r \in Jobs /\ r.pc = "rinc" /\ r.buf = rpos /\ r.ret = job[e].ret /\ r.todo = job[e].todo
    BY <1>1, <2>1, <2>2 DEF Jobs, Labels
  <2>4. Xfer(e, r)
    BY <1>1, <1>2, <2>3 DEF Xfer
  <2>5. job' = [job EXCEPT ![e] = r] /\ UNCHANGED ring
    BY <1>3 DEF ReadTake
  <2>6. QED
    BY <1>1, <2>3, <2>4, <2>5, Quiet DEF Plain, Labels, Busy
<1>4. CASE ReadInc(e)
  <2> DEFINE r == [job[e] EXCEPT !.todo = @ - 1, !.got = @ + 1, !.buf = 0, !.pc = "rloop"]
  <2>1. r \in Jobs /\ r.pc = "rloop" /\ r.ret = "rloop"
    <3>1. /\ job[e].todo - 1 \in Nat /\ job[e].got + 1 \in Nat
      <4>1. job[e].todo \in Nat /\ job[e].got \in Nat
        BY <1>1 DEF Jobs
      <4>2. QED
        BY <1>2, <4>1
    <3>2. 0 \in 0..MaxBytes
      BY <1>1
    <3>3. QED
      BY <1>1, <1>2, <3>1, <3>2 DEF Jobs, Labels
  <2>2. job' = [job EXCEPT ![e] = r] /\ rpos' = rpos + 1
    BY <1>4 DEF ReadInc, Transferred
  <2>3. Stream'
    BY <1>1, <1>2, <2>2 DEF Stream
  <2>4. job'[e] = r /\ \A x \in Envs \ {e} : job'[x] = job[x]
    BY <2>1, <2>2, JobOf DEF PipeInv
  <2>5. ASSUME NEW x \in Envs PROVE Xfer(x, job[x])'
    <3>1. CASE x = e
      BY <1>1, <1>2, <2>1, <2>2, <2>4, <3>1 DEF Xfer
    <3>2. CASE x # e
      <4>1. Xfer(x, job[x]) /\ job'[x] = job[x]
        BY <2>4, <3>2, Actor
      <4>2. job[x].ret # "rloop"
        BY <1>2, <3>2, <4>1 DEF Xfer
      <4>3. QED
        BY <1>1, <2>2, <4>1, <4>2 DEF Xfer
    <3>3. QED
      BY <3>1, <3>2
  <2>6. rpos' \in 0..MaxBytes
    BY <1>1, <1>2, <2>2
  <2>7. QED
    BY <1>1, <2>1, <2>2, <2>3, <2>5, <2>6, RingStep DEF Plain, Labels, Busy, PipeInv, TypeOK
<1>5. QED
  BY <1>3, <1>4

LEMMA WriteInv ==
    ASSUME PipeInv, NEW e \in Envs, WritePut(e) \/ WriteInc(e)
    PROVE  PipeInv'
<1>1. /\ job[e] \in Jobs /\ Xfer(e, job[e]) /\ rpos \in Nat /\ wpos \in Nat
      /\ BufSize \in Nat \ {0} /\ MaxBytes \in Nat /\ rpos <= MaxBytes
      /\ p_buf \in [0..BufSize - 1 -> 0..MaxBytes]
      /\ UNCHANGED <<fd, data, on, rpos>> /\ job[e].pc \in {"wput", "winc"}
      /\ Stream
  BY Actor, Params DEF PipeInv, TypeOK, WritePut, WriteInc, At, ring
<1>2. /\ e = Writer /\ job[e].ret = "wloop" /\ job[e].todo > 0 /\ wpos < rpos + BufSize
      /\ wpos + job[e].todo <= MaxBytes /\ job[e].todo \in Nat
      /\ rpos <= wpos /\ wpos % BufSize \in 0..BufSize - 1
  BY <1>1 DEF Xfer, Jobs, Stream
<1>3. ASSUME NEW x \in Envs \ {e} PROVE Xfer(x, job[x]) /\ job[x].ret # "wloop"
  BY <1>2, Actor DEF Xfer
<1>4. CASE WritePut(e)
  <2> DEFINE r == [job[e] EXCEPT !.pc = "winc"]
  <2>1. r \in Jobs /\ r.pc = "winc" /\ r.ret = "wloop" /\ r.todo = job[e].todo
    BY <1>1, <1>2 DEF Jobs, Labels
  <2>2. job' = [job EXCEPT ![e] = r] /\ p_buf' = [p_buf EXCEPT ![wpos % BufSize] = wpos]
        /\ wpos' = wpos
    BY <1>4 DEF WritePut, Goto
  <2>3. p_buf' \in [0..BufSize - 1 -> 0..MaxBytes] /\ p_buf'[wpos % BufSize] = wpos
    BY <1>1, <1>2, <2>2
  <2>4. Stream'
    <3>1. ASSUME NEW j \in rpos..wpos - 1 PROVE p_buf'[j % BufSize] = j
      <4>1. j \in Nat /\ j < wpos /\ wpos < j + BufSize
        BY <1>1, <1>2
      <4>2. j % BufSize # wpos % BufSize /\ j % BufSize \in 0..BufSize - 1
        BY <1>1, <4>1, Places
      <4>3. p_buf[j % BufSize] = j
        BY <1>1 DEF Stream
      <4>4. QED
        BY <1>1, <2>2, <4>2, <4>3
    <3>2. QED
      BY <1>1, <2>2, <3>1 DEF Stream
  <2>5. job'[e] = r /\ \A x \in Envs \ {e} : job'[x] = job[x]
    BY <2>1, <2>2, JobOf DEF PipeInv
  <2>6. \A x \in Envs : Xfer(x, job[x])'
    BY <1>1, <1>2, <1>3, <2>1, <2>2, <2>3, <2>5 DEF Xfer
  <2>7. QED
    BY <1>1, <2>1, <2>2, <2>3, <2>4, <2>6, RingStep DEF Plain, Labels, Busy, PipeInv, TypeOK
<1>5. CASE WriteInc(e)
  <2> DEFINE r == [job[e] EXCEPT !.todo = @ - 1, !.got = @ + 1, !.buf = 0, !.pc = "wloop"]
  <2>1. r \in Jobs /\ r.pc = "wloop" /\ r.ret = "wloop" /\ r.todo = job[e].todo - 1
    <3>1. /\ job[e].todo - 1 \in Nat /\ job[e].got + 1 \in Nat
      <4>1. job[e].todo \in Nat /\ job[e].got \in Nat
        BY <1>1 DEF Jobs
      <4>2. QED
        BY <1>2, <4>1
    <3>2. 0 \in 0..MaxBytes
      BY <1>1
    <3>3. QED
      BY <1>1, <1>2, <3>1, <3>2 DEF Jobs, Labels
  <2>2. job' = [job EXCEPT ![e] = r] /\ wpos' = wpos + 1 /\ p_buf' = p_buf
    BY <1>5 DEF WriteInc, Transferred
  <2>3. p_buf[wpos % BufSize] = wpos
    BY <1>1, <1>5 DEF Xfer, WriteInc, At
  <2>4. Stream'
    <3>1. ASSUME NEW j \in rpos..wpos' - 1 PROVE p_buf[j % BufSize] = j
      BY <1>1, <2>2, <2>3 DEF Stream
    <3>2. QED
      BY <1>1, <1>2, <2>2, <3>1 DEF Stream
  <2>5. job'[e] = r /\ \A x \in Envs \ {e} : job'[x] = job[x]
    BY <2>1, <2>2, JobOf DEF PipeInv
  <2>6. ASSUME NEW x \in Envs PROVE Xfer(x, job[x])'
    <3>1. CASE x = e
      <4>1. wpos' + r.todo <= MaxBytes
        <5> DEFINE t == job[e].todo
        <5> HIDE DEF t
        <5>1. wpos' = wpos + 1 /\ wpos \in Nat /\ t \in Nat /\ t > 0 /\ wpos + t <= MaxBytes
          BY <1>1, <1>2, <2>2 DEF t
        <5>2. wpos' + (t - 1) <= MaxBytes
          BY <1>1, <5>1
        <5>3. QED
          BY <2>1, <5>2 DEF t
      <4>2. QED
        BY <1>1, <1>2, <2>1, <2>2, <2>5, <3>1, <4>1 DEF Xfer
    <3>2. CASE x # e
      BY <1>1, <1>3, <2>2, <2>5, <3>2 DEF Xfer
    <3>3. QED
      BY <3>1, <3>2
  <2>7. wpos' \in 0..MaxBytes
    BY <1>1, <1>2, <2>2
  <2>8. QED
    BY <1>1, <2>1, <2>2, <2>4, <2>6, <2>7, RingStep DEF Plain, Labels, Busy, PipeInv, TypeOK
<1>6. QED
  BY <1>4, <1>5

-----------------------------------------------------------------------------
(* A step of close or dup: the ring is left alone.                         *)
LEMMA TableStep ==
    ASSUME PipeInv, NEW e \in Envs, NEW r \in Jobs, job' = [job EXCEPT ![e] = r],
           job[e].pc \notin {"none", "embryo", "fork"}, Xfer(e, r),
           r.pc \in {"idle", "close", "dupdata", "dupfd"},
           UNCHANGED <<ring, on>>,
           fd' \in [Envs -> [Slots -> {"r", "w", None}]], data' \in [Envs -> SUBSET Slots],
           \A x \in Envs \ {e} : fd'[x] = fd[x] /\ data'[x] = data[x],
           Mappings(e)', Fresh(e)'
    PROVE  PipeInv'
<1>1. job' \in [Envs -> Jobs] /\ job'[e] = r /\ \A x \in Envs \ {e} : job'[x] = job[x]
  BY JobOf DEF PipeInv
<1>2. TypeOK' /\ Stream'
  BY <1>1 DEF PipeInv, TypeOK, Stream, ring
<1>3. \A x \in Envs : Xfer(x, job[x])'
  BY <1>1 DEF PipeInv, Xfer, ring
<1>4. (\A x \in Envs : Fresh(x)' /\ Mappings(x)') /\ Kids'
  BY Alone
<1>5. QED
  BY <1>2, <1>3, <1>4 DEF PipeInv

(* What is the case of an environment that is in a call of its own.        *)
LEMMA Idles ==
    ASSUME PipeInv, NEW e \in Envs, job[e].pc = "idle"
    PROVE  /\ job[e] \in Jobs /\ job[e].slot = 0 /\ job[e].new = None /\ job[e].k = 0
           /\ job[e].ret = "idle" /\ Paired(e, Slots)
<1>1. job[e] = Place("idle") /\ job[e] \in Jobs /\ Mappings(e)
  BY Actor DEF Fresh
<1>2. QED
  BY <1>1 DEF Place, Mappings

(* The end of a call.                                                      *)
LEMMA Returns ==
    ASSUME PipeInv, NEW e \in Envs, Return(e), job[e].pc \notin {"none", "embryo", "fork"},
           UNCHANGED <<ring, on>>,
           fd' \in [Envs -> [Slots -> {"r", "w", None}]], data' \in [Envs -> SUBSET Slots],
           \A x \in Envs \ {e} : fd'[x] = fd[x] /\ data'[x] = data[x],
           Paired(e, Slots)'
    PROVE  PipeInv'
<1> DEFINE r == Place("idle")
<1>1. r \in Jobs /\ r.pc = "idle" /\ r.ret = "idle"
  BY PlaceType DEF Labels
<1>2. job' = [job EXCEPT ![e] = r]
  BY DEF Return
<1> HIDE DEF r
<1>3. Xfer(e, r)
  BY <1>1 DEF Xfer
<1>4. job'[e] = r
  BY <1>1, <1>2, JobOf DEF PipeInv
<1>5. Mappings(e)' /\ Fresh(e)'
  BY <1>1, <1>4 DEF Mappings, Fresh, r
<1>6. QED
  BY <1>1, <1>2, <1>3, <1>5, TableStep

LEMMA CloseInv ==
    ASSUME PipeInv, NEW e \in Envs, NEW i \in Slots, close(e, i) \/ dup(e, i)
    PROVE  PipeInv'
<1>1. job[e].pc = "idle" /\ fd[e][i] # None /\ UNCHANGED <<data, ring, on>>
  BY DEF close, dup, At
<1>2. /\ job[e] \in Jobs /\ job[e].new = None /\ job[e].ret = "idle" /\ Paired(e, Slots)
      /\ fd \in [Envs -> [Slots -> {"r", "w", None}]] /\ data \in [Envs -> SUBSET Slots]
  BY <1>1, Idles, Actor
<1>3. CASE close(e, i)
  <2> DEFINE r == [job[e] EXCEPT !.slot = i, !.pc = "close"]
  <2>1. r \in Jobs /\ r.pc = "close" /\ r.ret = "idle" /\ r.new = None /\ r.slot = i
    BY <1>2 DEF Jobs, Labels
  <2>2. job' = [job EXCEPT ![e] = r] /\ fd' = [fd EXCEPT ![e][i] = None]
    BY <1>3 DEF close
  <2> HIDE DEF r
  <2>3. /\ fd' \in [Envs -> [Slots -> {"r", "w", None}]] /\ fd'[e][i] = None
        /\ \A x \in Envs \ {e} : fd'[x] = fd[x]
        /\ \A j \in Slots \ {i} : fd'[e][j] = fd[e][j]
    BY <1>2, <2>2
  <2>4. job'[e] = r
    BY <2>1, <2>2, JobOf DEF PipeInv
  <2>5. Mappings(e)' /\ Fresh(e)' /\ Xfer(e, r)
    BY <1>1, <1>2, <2>1, <2>3, <2>4 DEF Mappings, Fresh, Xfer, Paired
  <2>6. QED
    BY <1>1, <1>2, <2>1, <2>2, <2>3, <2>5, TableStep
<1>4. CASE dup(e, i)
  <2> DEFINE r == [job[e] EXCEPT !.slot = i, !.new = 2,
                                 !.pc = IF fd[e][2] # None THEN "close" ELSE "dupdata"]
  <2>1. /\ r \in Jobs /\ r.ret = "idle" /\ r.new = 2 /\ r.slot = i
        /\ r.pc = IF fd[e][2] # None THEN "close" ELSE "dupdata"
    <3>1. (IF fd[e][2] # None THEN "close" ELSE "dupdata") \in Labels
      BY DEF Labels
    <3>2. QED
      BY <1>2, <3>1 DEF Jobs
  <2>2. job' = [job EXCEPT ![e] = r] /\ fd' = [fd EXCEPT ![e][2] = None] /\ i # 2
    BY <1>4 DEF dup
  <2> HIDE DEF r
  <2>3. /\ fd' \in [Envs -> [Slots -> {"r", "w", None}]] /\ fd'[e][2] = None /\ 2 \in Slots
        /\ \A x \in Envs \ {e} : fd'[x] = fd[x]
        /\ \A j \in Slots \ {2} : fd'[e][j] = fd[e][j]
    BY <1>2, <2>2 DEF Slots
  <2>4. job'[e] = r
    BY <2>1, <2>2, JobOf DEF PipeInv
  <2>5. Source(e)'
    BY <1>1, <2>1, <2>2, <2>3, <2>4 DEF Source
  <2>6. Mappings(e)'
    <3>1. Paired(e, Slots \ {2})'
      BY <1>1, <1>2, <2>3 DEF Paired
    <3>2. fd[e][2] = None => Paired(e, Slots)'
      BY <1>1, <1>2, <2>3 DEF Paired
    <3>3. QED
      BY <2>1, <2>3, <2>4, <2>5, <3>1, <3>2, Params DEF Mappings
  <2>7. Fresh(e)' /\ Xfer(e, r)
    BY <2>1, <2>4 DEF Fresh, Xfer
  <2>8. QED
    BY <1>1, <1>2, <2>1, <2>2, <2>3, <2>6, <2>7, TableStep
<1>5. QED
  BY <1>3, <1>4

LEMMA CopyInv ==
    ASSUME PipeInv, NEW e \in Envs, CloseData(e) \/ DupData(e) \/ DupFd(e)
    PROVE  PipeInv'
<1>1. /\ job[e] \in Jobs /\ Xfer(e, job[e]) /\ Mappings(e) /\ job[e].slot \in Slots
      /\ job[e].pc \in {"close", "dupdata", "dupfd"} /\ UNCHANGED <<ring, on>>
      /\ fd \in [Envs -> [Slots -> {"r", "w", None}]] /\ data \in [Envs -> SUBSET Slots]
      /\ 2 \in Slots /\ None # 2
  BY Actor, Params DEF CloseData, DupData, DupFd, At, Jobs, Slots
<1>2. ASSUME NEW label \in {"dupdata", "dupfd"}, Goto(e, label), fd' = fd,
             data' \in [Envs -> SUBSET Slots], \A x \in Envs \ {e} : data'[x] = data[x],
             Source(e), fd[e][2] = None,
             IF label = "dupdata" THEN Paired(e, Slots)'
             ELSE 2 \in data'[e] /\ Paired(e, Slots \ {2})'
      PROVE  PipeInv'
  <2> DEFINE r == [job[e] EXCEPT !.pc = label]
  <2>1. /\ r \in Jobs /\ r.pc = label /\ r.ret = job[e].ret /\ r.todo = job[e].todo
        /\ r.slot = job[e].slot /\ r.new = job[e].new
    BY <1>1 DEF Jobs, Labels
  <2>2. job' = [job EXCEPT ![e] = r]
    BY <1>2 DEF Goto
  <2> HIDE DEF r
  <2>3. job'[e] = r
    BY <2>1, <2>2, JobOf DEF PipeInv
  <2>4. Source(e)'
    BY <1>2, <2>1, <2>3 DEF Source
  <2>5. Mappings(e)'
    BY <1>2, <2>1, <2>3, <2>4 DEF Mappings
  <2>6. Fresh(e)' /\ Xfer(e, r)
    BY <1>1, <2>1, <2>3 DEF Fresh, Xfer
  <2>7. QED
    BY <1>1, <1>2, <2>1, <2>2, <2>5, <2>6, TableStep
<1>3. CASE CloseData(e)
  <2>1. job[e].pc = "close" /\ fd' = fd
    BY <1>3 DEF CloseData, At
  <2>2. CASE job[e].new = None
    <3>1. /\ fd[e][job[e].slot] = None /\ Paired(e, Slots \ {job[e].slot})
          /\ data' = [data EXCEPT ![e] = @ \ {job[e].slot}] /\ Return(e)
      BY <1>1, <1>3, <2>1, <2>2 DEF Mappings, CloseData
    <3>2. Paired(e, Slots)'
      BY <1>1, <2>1, <3>1 DEF Paired
    <3>3. data' \in [Envs -> SUBSET Slots] /\ \A x \in Envs \ {e} : data'[x] = data[x]
      BY <1>1, <3>1
    <3>4. QED
      BY <1>1, <2>1, <3>1, <3>2, <3>3, Returns
  <2>3. CASE job[e].new # None
    <3>1. Source(e) /\ fd[e][2] = None /\ Paired(e, Slots \ {2}) /\ job[e].new = 2
      BY <1>1, <2>1, <2>3 DEF Mappings, Source
    <3>2. data' = [data EXCEPT ![e] = @ \ {2}] /\ Goto(e, "dupdata")
      BY <1>3, <2>3, <3>1 DEF CloseData
    <3>3. Paired(e, Slots)'
      BY <1>1, <2>1, <3>1, <3>2 DEF Paired
    <3>4. data' \in [Envs -> SUBSET Slots] /\ \A x \in Envs \ {e} : data'[x] = data[x]
      BY <1>1, <3>2
    <3>5. QED
      BY <1>2, <2>1, <3>1, <3>2, <3>3, <3>4
  <2>4. QED
    BY <2>2, <2>3
<1>4. CASE DupData(e)
  <2>1. Source(e) /\ fd[e][2] = None /\ Paired(e, Slots) /\ job[e].new = 2 /\ fd' = fd
    BY <1>1, <1>4 DEF Mappings, Source, DupData, At
  <2>2. data' = [data EXCEPT ![e] = @ \cup {2}] /\ Goto(e, "dupfd")
    BY <1>4, <2>1 DEF DupData
  <2>3. /\ data' \in [Envs -> SUBSET Slots] /\ 2 \in data'[e]
        /\ \A x \in Envs \ {e} : data'[x] = data[x]
        /\ \A i \in Slots \ {2} : i \in data'[e] <=> i \in data[e]
    BY <1>1, <2>2
  <2>4. Paired(e, Slots \ {2})'
    BY <2>1, <2>3 DEF Paired
  <2>5. QED
    BY <1>2, <2>1, <2>2, <2>3, <2>4
<1>5. CASE DupFd(e)
  <2>1. /\ Source(e) /\ 2 \in data[e] /\ Paired(e, Slots \ {2}) /\ job[e].new = 2
        /\ data' = data /\ Return(e)
    BY <1>1, <1>5 DEF Mappings, Source, DupFd, At
  <2>2. fd' = [fd EXCEPT ![e][2] = fd[e][job[e].slot]]
    BY <1>5, <2>1 DEF DupFd
  <2>3. /\ fd' \in [Envs -> [Slots -> {"r", "w", None}]] /\ fd'[e][2] = fd[e][job[e].slot]
        /\ \A x \in Envs \ {e} : fd'[x] = fd[x]
        /\ \A j \in Slots \ {2} : fd'[e][j] = fd[e][j]
    BY <1>1, <2>2
  <2>4. Paired(e, Slots)'
    BY <2>1, <2>3 DEF Paired, Source
  <2>5. QED
    BY <1>1, <2>1, <2>3, <2>4, Returns
<1>6. QED
  BY <1>3, <1>4, <1>5

-----------------------------------------------------------------------------
(* What fork begins with: the child has nothing.                           *)
LEMMA ForkInv == ASSUME PipeInv, NEW e \in Envs, fork(e) PROVE PipeInv'
<1>1. PICK c \in Envs : /\ job[c].pc = "none"
         /\ job' = [job EXCEPT ![e].pc = "fork", ![e].kid = c, ![c].pc = "embryo"]
  BY DEF fork
<1>2. job[e].pc = "idle" /\ UNCHANGED <<fd, data, ring, on>> /\ c # e
  BY <1>1 DEF fork, At
<1>3. /\ job[e] = Place("idle") /\ job[c] = Place("none") /\ Paired(e, Slots)
      /\ data[c] = {} /\ \A i \in Slots : fd[c][i] = None
  BY <1>1, <1>2, Actor DEF Fresh, Mappings
<1>4. /\ job' \in [Envs -> Jobs] /\ job'[e].pc = "fork" /\ job'[e].kid = c /\ job'[e].k = 0
      /\ job'[e].ret = "idle" /\ job'[c] = Place("embryo")
      /\ \A x \in Envs \ {e, c} : job'[x] = job[x]
  <2> DEFINE r == [job[e] EXCEPT !.pc = "fork", !.kid = c]
             q == [job[c] EXCEPT !.pc = "embryo"]
  <2>1. job \in [Envs -> Jobs] /\ job[e] \in Jobs /\ job[c] \in Jobs
    BY DEF PipeInv, TypeOK
  <2>2. r \in Jobs /\ r.pc = "fork" /\ r.kid = c /\ r.k = job[e].k /\ r.ret = job[e].ret
    BY <2>1 DEF Jobs, Labels
  <2>3. job[e].k = 0 /\ job[e].ret = "idle"
    BY <1>2, Idles
  <2>4. q = Place("embryo")
    BY <1>3, Relabel
  <2>5. q \in Jobs
    BY <2>4, PlaceType DEF Labels
  <2>6. job' = [[job EXCEPT ![e] = r] EXCEPT ![c] = q]
    BY <1>1, <1>2, <2>1
  <2> HIDE DEF r, q
  <2>7. QED
    BY <1>2, <2>1, <2>2, <2>3, <2>4, <2>5, <2>6
<1>5. Place("embryo").pc = "embryo" /\ Place("embryo").ret = "idle"
  BY PlaceType DEF Labels
<1>6. TypeOK' /\ Stream'
  BY <1>2, <1>4 DEF PipeInv, TypeOK, Stream, ring
<1>7. \A x \in Envs : Xfer(x, job[x])' /\ Fresh(x)'
  BY <1>2, <1>4, <1>5 DEF PipeInv, Xfer, Fresh, ring
<1>8. ASSUME NEW x \in Envs PROVE Mappings(x)'
  <2>1. CASE x = e
    BY <1>2, <1>3, <1>4, <2>1 DEF Mappings, Paired
  <2>2. CASE x = c
    BY <1>4, <1>5, <2>2 DEF Mappings
  <2>3. CASE x # e /\ x # c
    <3>1. Mappings(x) /\ job'[x] = job[x]
      BY <1>4, <2>3 DEF PipeInv
    <3>2. CASE job[x].pc = "embryo"
      <4>1. PICK y \in Envs : job[y].pc = "fork" /\ job[y].kid = x
        BY <3>1, <3>2 DEF Mappings
      <4>2. job'[y] = job[y]
        BY <1>1, <1>2, <1>4, <4>1
      <4>3. QED
        BY <3>1, <3>2, <4>1, <4>2 DEF Mappings
    <3>3. CASE job[x].pc # "embryo"
      BY <1>2, <3>1, <3>3 DEF Mappings, Paired, Source
    <3>4. QED
      BY <3>2, <3>3
  <2>4. QED
    BY <2>1, <2>2, <2>3
<1>9. Kids'
  <2>1. ASSUME NEW x \in Envs \ {e}, job'[x].pc = "fork"
        PROVE  /\ job'[x] = job[x] /\ Copied(x) /\ job[x].kid \in Envs \ {e, c}
    <3>1. x # c /\ job'[x] = job[x]
      BY <1>4, <1>5, <2>1
    <3>2. Copied(x)
      BY <2>1, <3>1 DEF PipeInv, Kids
    <3>3. QED
      BY <1>1, <1>2, <3>1, <3>2 DEF Copied
  <2>2. ASSUME NEW x \in Envs \ {e}, job'[x].pc = "fork" PROVE Copied(x)'
    <3>1. job'[job[x].kid] = job[job[x].kid]
      BY <1>4, <2>1, <2>2
    <3>2. QED
      BY <1>2, <2>1, <2>2, <3>1 DEF Copied
  <2>3. Copied(e)'
    <3>1. data[e] \in SUBSET Slots
      BY Actor
    <3>2. {i \in data[e] : i + 3 < 0} = {} /\ \A i \in Slots : ~(i < 0)
      BY <3>1 DEF Slots
    <3>3. QED
      BY <1>2, <1>3, <1>4, <1>5, <3>2 DEF Copied
  <2>4. \A x, y \in Envs : job'[x].pc = "fork" /\ job'[y].pc = "fork"
                           /\ job'[x].kid = job'[y].kid => x = y
    BY <1>4, <2>1 DEF PipeInv, Kids
  <2>5. QED
    BY <2>2, <2>3, <2>4 DEF Kids
<1>10. QED
  BY <1>6, <1>7, <1>8, <1>9 DEF PipeInv

(* fork maps one page more in the child.                                   *)
LEMMA ForkPageInv == ASSUME PipeInv, NEW e \in Envs, ForkPage(e) PROVE PipeInv'
<1> DEFINE c == job[e].kid
           k == job[e].k
           r == [job[e] EXCEPT !.k = @ + 1]
<1>1. /\ job[e].pc = "fork" /\ k < 6 /\ job[e] \in Jobs /\ k \in 0..6 /\ Copied(e)
      /\ job' = [job EXCEPT ![e] = r] /\ UNCHANGED <<ring, on>>
      /\ fd \in [Envs -> [Slots -> {"r", "w", None}]] /\ data \in [Envs -> SUBSET Slots]
  BY Actor DEF ForkPage, At, PipeInv, Kids, Jobs
<1>2. c \in Envs /\ job[c].pc = "embryo" /\ c # e
  BY <1>1 DEF Copied
<1>3. /\ r \in Jobs /\ r.pc = "fork" /\ r.kid = c /\ r.k = k + 1 /\ r.ret = job[e].ret
      /\ r.todo = job[e].todo
  <2>1. k + 1 \in 0..6
    BY <1>1
  <2>2. r = [job[e] EXCEPT !.k = k + 1]
    OBVIOUS
  <2>3. QED
    BY <1>1, <2>1, <2>2 DEF Jobs
<1>4. job' \in [Envs -> Jobs] /\ job'[e] = r /\ \A x \in Envs \ {e} : job'[x] = job[x]
  BY <1>1, <1>3, JobOf DEF PipeInv
<1>5. /\ \A i \in Slots : fd'[c][i] = IF i < k + 1 THEN fd[e][i] ELSE None
      /\ data'[c] = {i \in data[e] : i + 3 < k + 1}
      /\ fd' \in [Envs -> [Slots -> {"r", "w", None}]] /\ data' \in [Envs -> SUBSET Slots]
      /\ \A x \in Envs \ {c} : fd'[x] = fd[x] /\ data'[x] = data[x]
  <2>1. /\ \A i \in Slots : fd[c][i] = IF i < k THEN fd[e][i] ELSE None
        /\ data[c] = {i \in data[e] : i + 3 < k} /\ data[e] \in SUBSET Slots
        /\ fd[e] \in [Slots -> {"r", "w", None}]
    BY <1>1 DEF Copied
  <2>2. CASE k < 3
    <3>1. fd' = [fd EXCEPT ![c][k] = fd[e][k]] /\ data' = data
      BY <2>2 DEF ForkPage
    <3>2. k \in Slots
      BY <1>1, <2>2 DEF Slots
    <3>3. \A i \in Slots : i < k + 1 <=> i < k \/ i = k
      BY <1>1 DEF Slots
    <3>4. \A i \in Slots : ~(i + 3 < k) /\ ~(i + 3 < k + 1)
      BY <1>1, <2>2 DEF Slots
    <3> HIDE DEF c, k, r
    <3>5. \A i \in Slots : fd'[c][i] = IF i < k + 1 THEN fd[e][i] ELSE None
      BY <1>1, <1>2, <2>1, <3>1, <3>2, <3>3
    <3>6. data'[c] = {i \in data[e] : i + 3 < k + 1}
      BY <1>2, <2>1, <3>1, <3>4
    <3>7. QED
      BY <1>1, <1>2, <2>1, <3>1, <3>2, <3>5, <3>6
  <2>3. CASE ~(k < 3)
    <3>1. data' = [data EXCEPT ![c] = @ \cup ({k - 3} \cap data[e])] /\ fd' = fd
      BY <2>3 DEF ForkPage
    <3>2. \A i \in Slots : i < k + 1 /\ i < k
      BY <1>1, <2>3 DEF Slots
    <3>3. \A i \in Slots : i + 3 < k + 1 <=> i + 3 < k \/ i = k - 3
      BY <1>1, <2>3 DEF Slots
    <3>4. data'[c] = data[c] \cup ({k - 3} \cap data[e])
      BY <1>1, <1>2, <3>1
    <3> HIDE DEF c, k, r
    <3>5. data'[c] = {i \in data[e] : i + 3 < k + 1}
      BY <2>1, <3>3, <3>4
    <3>6. QED
      BY <1>1, <1>2, <2>1, <3>1, <3>2, <3>5
  <2>4. QED
    BY <2>2, <2>3
<1> HIDE DEF c, k, r
<1>6. TypeOK' /\ Stream'
  BY <1>1, <1>4, <1>5 DEF PipeInv, TypeOK, Stream, ring
<1>7. \A x \in Envs : Xfer(x, job[x])' /\ Fresh(x)'
  BY <1>1, <1>3, <1>4 DEF PipeInv, Xfer, Fresh, ring
<1>8. ASSUME NEW x \in Envs PROVE Mappings(x)'
  <2>1. CASE x = e
    BY <1>1, <1>2, <1>3, <1>4, <1>5, <2>1 DEF PipeInv, Mappings, Paired
  <2>2. CASE x = c
    BY <1>2, <1>3, <1>4, <2>2 DEF Mappings
  <2>3. CASE x # e /\ x # c
    <3>1. Mappings(x) /\ job'[x] = job[x] /\ fd'[x] = fd[x] /\ data'[x] = data[x]
      BY <1>4, <1>5, <2>3 DEF PipeInv
    <3>2. CASE job[x].pc = "embryo"
      <4>1. PICK y \in Envs : job[y].pc = "fork" /\ job[y].kid = x
        BY <3>1, <3>2 DEF Mappings
      <4>2. y # e
        BY <2>3, <4>1 DEF c
      <4>3. QED
        BY <1>4, <3>1, <3>2, <4>1, <4>2 DEF Mappings
    <3>3. CASE job[x].pc # "embryo"
      BY <3>1, <3>3 DEF Mappings, Paired, Source
    <3>4. QED
      BY <3>2, <3>3
  <2>4. QED
    BY <2>1, <2>2, <2>3
<1>9. Kids'
  <2>1. ASSUME NEW x \in Envs \ {e}, job'[x].pc = "fork"
        PROVE  /\ job'[x] = job[x] /\ Copied(x) /\ job[x].kid \in Envs \ {e, c} /\ x # c
    <3>1. job'[x] = job[x] /\ x # c
      BY <1>2, <1>4, <2>1
    <3>2. Copied(x)
      BY <2>1, <3>1 DEF PipeInv, Kids
    <3>3. job[x].kid # c
      BY <1>1, <2>1, <3>1 DEF PipeInv, Kids, c
    <3>4. QED
      BY <1>1, <3>1, <3>2, <3>3 DEF Copied
  <2>2. ASSUME NEW x \in Envs \ {e}, job'[x].pc = "fork" PROVE Copied(x)'
    <3>1. /\ job'[job[x].kid] = job[job[x].kid] /\ fd'[job[x].kid] = fd[job[x].kid]
          /\ data'[job[x].kid] = data[job[x].kid] /\ fd'[x] = fd[x] /\ data'[x] = data[x]
      BY <1>4, <1>5, <2>1, <2>2
    <3>2. QED
      BY <2>1, <2>2, <3>1 DEF Copied
  <2>3. Copied(e)'
    <3>1. job'[e].kid = c /\ job'[e].k = k + 1 /\ job'[c] = job[c] /\ fd'[e] = fd[e] /\ data'[e] = data[e]
      BY <1>2, <1>3, <1>4, <1>5
    <3>2. QED
      BY <1>2, <1>5, <3>1 DEF Copied
  <2>4. job'[e].kid = c
    BY <1>3, <1>4
  <2>5. \A x, y \in Envs : job'[x].pc = "fork" /\ job'[y].pc = "fork"
                           /\ job'[x].kid = job'[y].kid => x = y
    BY <2>1, <2>4 DEF PipeInv, Kids
  <2>6. QED
    BY <2>2, <2>3, <2>5 DEF Kids
<1>10. QED
  BY <1>6, <1>7, <1>8, <1>9 DEF PipeInv

(* The child is complete and begins to run.                                *)
LEMMA ForkEndInv == ASSUME PipeInv, NEW e \in Envs, ForkEnd(e) PROVE PipeInv'
<1> DEFINE c == job[e].kid
           p == Place("idle")
<1>1. /\ job[e].pc = "fork" /\ job[e].k = 6 /\ Copied(e) /\ UNCHANGED <<fd, data, ring, on>>
      /\ job' = [job EXCEPT ![e] = p, ![c] = p]
  BY DEF ForkEnd, At, PipeInv, Kids
<1>2. c \in Envs /\ job[c].pc = "embryo" /\ c # e
  BY <1>1 DEF Copied
<1>3. p \in Jobs /\ p.pc = "idle" /\ p.ret = "idle"
  BY PlaceType DEF Labels
<1>4. Paired(e, Slots) /\ Paired(c, Slots)
  <2>1. Paired(e, Slots) /\ data[e] \in SUBSET Slots
    BY <1>1, Actor DEF Mappings
  <2>2. \A i \in Slots : i < 6 /\ i + 3 < 6
    BY DEF Slots
  <2>3. (\A i \in Slots : fd[c][i] = fd[e][i]) /\ data[c] = data[e]
    BY <1>1, <2>1, <2>2 DEF Copied
  <2>4. QED
    BY <2>1, <2>3 DEF Paired
<1>5. job \in [Envs -> Jobs]
  BY DEF PipeInv, TypeOK
<1> HIDE DEF p
<1>6. /\ job' \in [Envs -> Jobs] /\ job'[e] = p /\ job'[c] = p
      /\ \A x \in Envs \ {e, c} : job'[x] = job[x]
  BY <1>1, <1>2, <1>3, <1>5
<1> HIDE DEF c
<1>7. TypeOK' /\ Stream'
  BY <1>1, <1>6 DEF PipeInv, TypeOK, Stream, ring
<1>8. \A x \in Envs : Xfer(x, job[x])'
  BY <1>1, <1>3, <1>6 DEF PipeInv, Xfer, ring
<1>9. \A x \in Envs : Fresh(x)'
  BY <1>1, <1>3, <1>6 DEF PipeInv, Fresh, p
<1>10. ASSUME NEW x \in Envs PROVE Mappings(x)'
  <2>1. CASE x = e \/ x = c
    BY <1>1, <1>3, <1>4, <1>6, <2>1 DEF Mappings, Paired
  <2>2. CASE x # e /\ x # c
    <3>1. Mappings(x) /\ job'[x] = job[x]
      BY <1>6, <2>2 DEF PipeInv
    <3>2. CASE job[x].pc = "embryo"
      <4>1. PICK y \in Envs : job[y].pc = "fork" /\ job[y].kid = x
        BY <3>1, <3>2 DEF Mappings
      <4>2. y # e /\ y # c
        BY <1>2, <2>2, <4>1 DEF c
      <4>3. QED
        BY <1>6, <3>1, <3>2, <4>1, <4>2 DEF Mappings
    <3>3. CASE job[x].pc # "embryo"
      BY <1>1, <3>1, <3>3 DEF Mappings, Paired, Source
    <3>4. QED
      BY <3>2, <3>3
  <2>3. QED
    BY <2>1, <2>2
<1>11. Kids'
  <2>1. ASSUME NEW x \in Envs, job'[x].pc = "fork"
        PROVE  x \notin {e, c} /\ job'[x] = job[x] /\ Copied(x) /\ job[x].kid \in Envs \ {e, c}
    <3>1. x # e /\ x # c /\ job'[x] = job[x]
      BY <1>3, <1>6, <2>1
    <3>2. Copied(x)
      BY <2>1, <3>1 DEF PipeInv, Kids
    <3>3. job[x].kid # c
      BY <1>1, <2>1, <3>1 DEF PipeInv, Kids, c
    <3>4. QED
      BY <1>1, <3>1, <3>2, <3>3 DEF Copied
  <2>2. ASSUME NEW x \in Envs, job'[x].pc = "fork" PROVE Copied(x)'
    <3>1. job'[job[x].kid] = job[job[x].kid]
      BY <1>6, <2>1, <2>2
    <3>2. fd' = fd /\ data' = data /\ job'[x] = job[x] /\ Copied(x)
      BY <1>1, <2>1, <2>2
    <3>3. QED
      BY <3>1, <3>2 DEF Copied
  <2>3. QED
    BY <2>1, <2>2 DEF PipeInv, Kids
<1>12. QED
  BY <1>7, <1>8, <1>9, <1>10, <1>11 DEF PipeInv

-----------------------------------------------------------------------------
(* The scheduler leaves a mark on a comparison that is under way.          *)
LEMMA ScheduleInv == ASSUME PipeInv, NEW e \in Envs, Schedule(e) PROVE PipeInv'
<1> DEFINE b == job[e].pc \in {"refs", "nn"}
           r == [job[e] EXCEPT !.ran = b]
<1>1. /\ job[e].pc \notin {"none", "embryo"} /\ UNCHANGED <<fd, data, ring>>
      /\ job' = [job EXCEPT ![e] = r] /\ job[e] \in Jobs /\ Fresh(e)
  BY Actor DEF Schedule
<1>2. on' \in SUBSET Envs /\ Cardinality(on') <= NCpu
  BY DEF Schedule, PipeInv, TypeOK
<1>3. /\ r \in Jobs /\ r.pc = job[e].pc /\ r.slot = job[e].slot /\ r.new = job[e].new
      /\ r.kid = job[e].kid /\ r.k = job[e].k /\ r.todo = job[e].todo /\ r.buf = job[e].buf
      /\ r.ret = job[e].ret
  <2>1. b \in BOOLEAN
    OBVIOUS
  <2> HIDE DEF b
  <2>2. QED
    BY <1>1, <2>1 DEF Jobs
<1>4. r.pc = "idle" => r = Place("idle")
  <2> SUFFICES ASSUME job[e].pc = "idle" PROVE r = Place("idle")
    BY <1>3
  <2>1. job[e] = Place("idle") /\ b = FALSE
    BY <1>1 DEF Fresh
  <2>2. QED
    BY <2>1, Relabel DEF r
<1> HIDE DEF r
<1>5. job' \in [Envs -> Jobs] /\ job'[e] = r /\ \A x \in Envs \ {e} : job'[x] = job[x]
  BY <1>1, <1>3, JobOf DEF PipeInv
<1>6. \A x \in Envs :
         /\ job'[x].pc = job[x].pc /\ job'[x].slot = job[x].slot /\ job'[x].new = job[x].new
         /\ job'[x].kid = job[x].kid /\ job'[x].k = job[x].k /\ job'[x].todo = job[x].todo
         /\ job'[x].buf = job[x].buf /\ job'[x].ret = job[x].ret
  BY <1>3, <1>5
<1>7. fd' = fd /\ data' = data /\ rpos' = rpos /\ wpos' = wpos /\ p_buf' = p_buf
  BY <1>1 DEF ring
<1>8. TypeOK' /\ Stream'
  BY <1>2, <1>5, <1>7 DEF PipeInv, TypeOK, Stream
<1>9. \A x \in Envs : Xfer(x, job[x])'
  BY <1>6, <1>7 DEF PipeInv, Xfer
<1>10. \A x \in Envs : Fresh(x)'
  BY <1>1, <1>3, <1>4, <1>5 DEF PipeInv, Fresh
<1>11. ASSUME NEW x \in Envs PROVE Mappings(x)'
  <2>1. Mappings(x)
    BY DEF PipeInv
  <2>2. Source(x)' <=> Source(x)
    BY <1>6, <1>7 DEF Source
  <2>3. CASE job[x].pc = "embryo"
    BY <1>6, <2>1, <2>3 DEF Mappings
  <2>4. CASE job[x].pc # "embryo"
    BY <1>6, <1>7, <2>1, <2>2, <2>4 DEF Mappings, Paired
  <2>5. QED
    BY <2>3, <2>4
<1>12. Kids'
  <2>1. ASSUME NEW x \in Envs, job'[x].pc = "fork" PROVE Copied(x)'
    <3>1. Copied(x)
      BY <1>6, <2>1 DEF PipeInv, Kids
    <3>2. job'[x].kid = job[x].kid /\ job'[x].k = job[x].k /\ job'[job[x].kid].pc = job[job[x].kid].pc
      BY <1>6, <3>1 DEF Copied
    <3>3. QED
      BY <1>7, <3>1, <3>2 DEF Copied
  <2>2. QED
    BY <1>6, <2>1 DEF PipeInv, Kids
<1>13. QED
  BY <1>8, <1>9, <1>10, <1>11, <1>12 DEF PipeInv

LEMMA InitInv == Init => PipeInv
<1> SUFFICES ASSUME Init PROVE PipeInv
  OBVIOUS
<1>1. \A e \in Envs : job[e] = Place(IF e = First THEN "idle" ELSE "none") /\ job[e] \in Jobs
      /\ job[e].pc = (IF e = First THEN "idle" ELSE "none") /\ job[e].ret = "idle"
  BY PlaceType DEF Init, Labels
<1>2. /\ fd \in [Envs -> [Slots -> {"r", "w", None}]] /\ data \in [Envs -> SUBSET Slots]
      /\ \A e \in Envs \ {First} : data[e] = {} /\ \A i \in Slots : fd[e][i] = None
      /\ data[First] = {0, 1} /\ fd[First][0] = "r" /\ fd[First][1] = "w" /\ fd[First][2] = None
  BY Params DEF Init, Slots
<1>3. on \in SUBSET Envs /\ Cardinality(on) <= NCpu
  <2>1. Cardinality({First}) = 1
    BY FS_Singleton
  <2>2. QED
    BY <2>1, PipeAssumption DEF Init
<1>4. TypeOK
  <2>1. job \in [Envs -> Jobs]
    <3>1. job = [e \in Envs |-> Place(IF e = First THEN "idle" ELSE "none")]
      BY DEF Init
    <3>2. QED
      BY <1>1, <3>1
  <2>2. rpos = 0 /\ wpos = 0 /\ 0 \in 0..MaxBytes /\ p_buf \in [0..BufSize - 1 -> 0..MaxBytes]
    BY Params DEF Init
  <2>3. QED
    BY <1>2, <1>3, <2>1, <2>2 DEF TypeOK
<1>5. Stream
  BY Params DEF Init, Stream
<1>6. \A e \in Envs : Xfer(e, job[e]) /\ Fresh(e)
  BY <1>1 DEF Xfer, Fresh
<1>7. ASSUME NEW e \in Envs PROVE Mappings(e)
  <2>1. CASE e = First
    <3>1. \A i \in Slots : i = 0 \/ i = 1 \/ i = 2
      BY DEF Slots
    <3>2. Paired(e, Slots)
      BY <1>2, <2>1, <3>1, Params DEF Paired
    <3>3. QED
      BY <1>1, <2>1, <3>2 DEF Mappings
  <2>2. CASE e # First
    BY <1>1, <1>2, <2>2 DEF Mappings
  <2>3. QED
    BY <2>1, <2>2
<1>8. Kids
  BY <1>1 DEF Kids
<1>9. QED
  BY <1>4, <1>5, <1>6, <1>7, <1>8 DEF PipeInv

LEMMA StepInv == PipeInv /\ [Next]_vars => PipeInv'
<1> SUFFICES ASSUME PipeInv, [Next]_vars PROVE PipeInv'
  OBVIOUS
<1>1. CASE UNCHANGED vars
  BY <1>1 DEF vars, ring, PipeInv, TypeOK, Stream, Xfer, Fresh, Mappings, Paired, Source, Kids,
              Copied
<1>2. ASSUME NEW e \in Envs, NEW i \in Slots,
             \/ close(e, i) \/ dup(e, i) \/ pipeisclosed(e, i)
             \/ devpipe_read(e, i) \/ devpipe_write(e, i)
      PROVE  PipeInv'
  BY <1>2, CloseInv, IsClosedInv
<1>3. ASSUME NEW e \in Envs,
             \/ Schedule(e) \/ CloseData(e) \/ DupData(e) \/ DupFd(e)
             \/ fork(e) \/ ForkPage(e) \/ ForkEnd(e)
      PROVE  PipeInv'
  BY <1>3, ScheduleInv, CopyInv, ForkInv, ForkPageInv, ForkEndInv
<1>4. ASSUME NEW e \in Envs,
             \/ ReadRuns(e) \/ ReadRef(e) \/ Verdict(e) \/ Eof(e)
             \/ ReadLoop(e) \/ ReadTake(e) \/ ReadInc(e)
             \/ WriteLoop(e) \/ WritePut(e) \/ WriteInc(e)
      PROVE  PipeInv'
  BY <1>4, CompareInv, LoopInv, ReadInv, WriteInv
<1>5. QED
  BY <1>1, <1>2, <1>3, <1>4 DEF Next

LEMMA Invariance == Spec => []PipeInv
BY InitInv, StepInv, PTL DEF Spec

(* Every state has the type of the code's.                                 *)
THEOREM TypeCorrect == Spec => []TypeOK
<1>1. PipeInv => TypeOK
  BY DEF PipeInv
<1>2. QED
  BY <1>1, Invariance, PTL

(* The reader gets the bytes that devpipe_write put, in order, each once,  *)
(* whatever the size of the ring and whoever closes, dups or forks.        *)
THEOREM StreamInOrder == Spec => []GetsStream
<1>1. PipeInv => GetsStream
  BY Params DEF PipeInv, Stream, Xfer, GetsStream
<1>2. QED
  BY <1>1, Invariance, PTL

(* When the other end is closed everywhere and nobody is in the middle of  *)
(* close, dup or fork, _pipeisclosed finds the two counts equal.           *)
THEOREM ClosedSeen == Spec => []ClosedIsSeen
<1>1. PipeInv => ClosedIsSeen
  <2> SUFFICES ASSUME PipeInv, NEW kind \in {"r", "w"}, Held(kind), ~Held(OtherEnd(kind)),
                      \A e \in Envs : job[e].pc \notin {"close", "dupdata", "dupfd", "fork"}
               PROVE  FdRef(kind) = PipeRef
    BY DEF ClosedIsSeen
  <2>1. ASSUME NEW e \in Envs, NEW i \in Slots PROVE fd[e][i] # None <=> i \in data[e]
    <3>1. job[e].pc # "embryo"
      BY DEF PipeInv, Mappings
    <3>2. CASE job[e].pc = "none"
      BY <3>2 DEF PipeInv, Mappings
    <3>3. CASE job[e].pc # "none"
      BY <3>1, <3>3 DEF PipeInv, Mappings, Paired
    <3>4. QED
      BY <3>2, <3>3
  <2>2. ASSUME NEW e \in Envs, NEW i \in Slots PROVE fd[e][i] = kind <=> i \in data[e]
    <3>1. fd[e][i] \in {"r", "w", None} /\ kind # None
      BY Actor, Params
    <3>2. fd[e][i] # OtherEnd(kind)
      BY DEF Held
    <3>3. QED
      BY <2>1, <3>1, <3>2 DEF OtherEnd
  <2>3. {x \in Envs \X Slots : fd[x[1]][x[2]] = kind} = {x \in Envs \X Slots : x[2] \in data[x[1]]}
    BY <2>2
  <2>4. QED
    BY <2>3 DEF FdRef, PipeRef
<1>2. QED
  BY <1>1, Invariance, PTL

-----------------------------------------------------------------------------
(* On one CPU _pipeisclosed is right about the other end, unless a fork is *)
(* under way: the child gets the descriptors' pages before the pipe's.     *)

(* An environment compares the counts of a descriptor it has.  On one CPU  *)
(* what it has read still holds while it has the CPU and has not lost it.  *)
Compares(e) ==
    /\ job[e].pc \in Plain \ {"idle"} => fd[e][job[e].slot] # None
    /\ job[e].pc \notin {"refs", "nn", "eof"} => job[e].fdref = None /\ job[e].pref = None
    /\ job[e].pc = "nn" => job[e].fdref # None /\ job[e].pref # None
    /\ e \in on /\ job[e].pc \in {"refs", "nn"} /\ ~job[e].ran =>
          /\ job[e].fdref \in {None, FdRef(fd[e][job[e].slot])}
          /\ job[e].pref \in {None, PipeRef}

EofInv == NoFalseEof /\ \A e \in Envs : Compares(e)

(* Nobody forks while another compares.                                    *)
ForksApart == \A e, x \in Envs : job[e].pc \in {"refs", "nn"} => job[x].pc # "fork"

(* Who acts has the one CPU.                                               *)
LEMMA OnlyOne ==
    ASSUME NCpu = 1, TypeOK, NEW e \in on
    PROVE  on = {e}
<1>1. on \in SUBSET Envs /\ Cardinality(on) <= 1 /\ IsFiniteSet(on)
  BY Params, FS_Subset DEF TypeOK
<1>2. ASSUME NEW x \in on, x # e PROVE FALSE
  <2>1. {e, x} \in SUBSET on /\ Cardinality({e, x}) = 2 /\ Cardinality({e, x}) <= Cardinality(on)
    <3>1. IsFiniteSet({e}) /\ Cardinality({e}) = 1
      BY FS_Singleton
    <3>2. {e, x} = {e} \cup {x} /\ x \notin {e}
      BY <1>2
    <3>3. Cardinality({e} \cup {x}) = Cardinality({e}) + 1
      BY <3>1, <3>2, FS_AddElement
    <3>4. {e, x} \in SUBSET on
      BY <1>2
    <3>5. Cardinality({e, x}) <= Cardinality(on)
      BY <1>1, <3>4, FS_Subset
    <3>6. QED
      BY <3>1, <3>2, <3>3, <3>4, <3>5
  <2>2. Cardinality(on) \in Nat
    BY <1>1, FS_CardinalityType
  <2>3. QED
    BY <1>1, <2>1, <2>2
<1>3. QED
  BY <1>2

(* An end that nobody holds is never held again: descriptors are copied.   *)
Shrinks == \A kind \in {"r", "w"} : Held(kind)' => Held(kind)

LEMMA HeldShrinks ==
    ASSUME PipeInv, [Next]_vars
    PROVE  Shrinks
<1> USE DEF Shrinks
<1>1. fd \in [Envs -> [Slots -> {"r", "w", None}]] /\ None \notin {"r", "w"}
  BY Params DEF PipeInv, TypeOK
<1>2. CASE UNCHANGED fd
  BY <1>2 DEF Held
<1>3. ASSUME NEW e \in Envs, NEW i \in Slots, fd' = [fd EXCEPT ![e][i] = None] PROVE Shrinks
  BY <1>1, <1>3 DEF Held
<1>4. ASSUME NEW e \in Envs, NEW i \in Slots, NEW x \in Envs, NEW j \in Slots,
             fd' = [fd EXCEPT ![e][i] = fd[x][j]]
      PROVE  Shrinks
  BY <1>1, <1>4 DEF Held
<1>5. ASSUME NEW e \in Envs, DupFd(e) PROVE Shrinks
  <2>1. job[e].pc = "dupfd" /\ Mappings(e) /\ job[e] \in Jobs
    BY <1>5, Actor DEF DupFd, At
  <2>2. job[e].new = 2 /\ job[e].slot \in Slots
    BY <2>1 DEF Mappings, Source, Jobs
  <2>3. 2 \in Slots
    BY DEF Slots
  <2>4. QED
    BY <1>4, <1>5, <2>2, <2>3 DEF DupFd
<1>6. ASSUME NEW e \in Envs, ForkPage(e) PROVE Shrinks
  <2>1. job[e].pc = "fork" /\ Copied(e) /\ job[e] \in Jobs /\ job[e].k \in 0..6
    BY <1>6, Actor DEF ForkPage, At, PipeInv, Kids, Jobs
  <2>2. job[e].kid \in Envs
    BY <2>1 DEF Copied
  <2>3. CASE job[e].k < 3
    <3>1. job[e].k \in Slots
      BY <2>1, <2>3 DEF Slots
    <3>2. fd' = [fd EXCEPT ![job[e].kid][job[e].k] = fd[e][job[e].k]]
      BY <1>6, <2>3 DEF ForkPage
    <3>3. QED
      BY <1>4, <2>2, <3>1, <3>2
  <2>4. CASE ~(job[e].k < 3)
    BY <1>2, <1>6, <2>4 DEF ForkPage
  <2>5. QED
    BY <2>3, <2>4
<1>7. ASSUME NEW e \in Envs, NEW i \in Slots, close(e, i) \/ dup(e, i) PROVE Shrinks
  <2>1. 2 \in Slots
    BY DEF Slots
  <2>2. QED
    BY <1>3, <1>7, <2>1 DEF close, dup
<1>8. ASSUME NEW e \in Envs, NEW i \in Slots, pipeisclosed(e, i) \/ devpipe_read(e, i) \/ devpipe_write(e, i)
      PROVE  UNCHANGED fd
  BY <1>8 DEF pipeisclosed, devpipe_read, devpipe_write, Call
<1>9. ASSUME NEW e \in Envs,
             \/ Schedule(e) \/ CloseData(e) \/ DupData(e) \/ fork(e) \/ ForkEnd(e)
             \/ ReadRuns(e) \/ ReadRef(e) \/ Verdict(e) \/ Eof(e)
             \/ ReadLoop(e) \/ ReadTake(e) \/ ReadInc(e)
             \/ WriteLoop(e) \/ WritePut(e) \/ WriteInc(e)
      PROVE  UNCHANGED fd
  BY <1>9 DEF Schedule, CloseData, DupData, fork, ForkEnd, ReadRuns, ReadRef, Verdict, Eof,
              ReadLoop, ReadTake, ReadInc, WriteLoop, WritePut, WriteInc
<1>10. CASE UNCHANGED vars
  BY <1>2, <1>10 DEF vars
<1> HIDE DEF Shrinks
<1>11. QED
  BY <1>2, <1>5, <1>6, <1>7, <1>8, <1>9, <1>10 DEF Next

(* The facts of an environment that does not act.                          *)
LEMMA Bystander ==
    ASSUME EofInv, Shrinks, fd \in [Envs -> [Slots -> {"r", "w", None}]],
           NEW x \in Envs, x \notin on', job'[x] = job[x],
           fd'[x] = fd[x] \/ job[x].pc = "embryo"
    PROVE  /\ Compares(x)'
           /\ job'[x].pc = "eof" => ~Held(OtherEnd(fd[x][job[x].slot]))' /\ fd'[x] = fd[x]
<1>1. Compares(x) /\ (job[x].pc = "eof" => ~Held(OtherEnd(fd[x][job[x].slot])))
  BY DEF EofInv, NoFalseEof
<1>2. \A kind \in {"r", "w"} : Held(kind)' => Held(kind)
  BY DEF Shrinks
<1>3. Compares(x)'
  BY <1>1 DEF Compares, Plain, Busy
<1>4. \A kind : OtherEnd(kind) \in {"r", "w"}
  BY DEF OtherEnd
<1>5. QED
  BY <1>1, <1>2, <1>3, <1>4

(* With no fork under way whoever has a descriptor's page mapped has the   *)
(* pipe's page mapped for it, so that equal counts leave nothing for the   *)
(* other end.                                                              *)
LEMMA EqualCounts ==
    ASSUME PipeInv, NEW kind \in {"r", "w"}, \A x \in Envs : job[x].pc # "fork",
           FdRef(kind) = PipeRef
    PROVE  ~Held(OtherEnd(kind))
<1> DEFINE Has(k) == {x \in Envs \X Slots : fd[x[1]][x[2]] = k}
           Pages == {x \in Envs \X Slots : x[2] \in data[x[1]]}
<1>1. ASSUME NEW x \in Envs, NEW i \in Slots, fd[x][i] # None PROVE i \in data[x]
  <2>1. Mappings(x) /\ job[x].pc # "embryo"
    BY Actor DEF Mappings
  <2>2. 2 \in Slots
    BY DEF Slots
  <2>3. QED
    BY <1>1, <2>1, <2>2 DEF Mappings, Paired
<1>2. IsFiniteSet(Pages)
  <2>1. IsFiniteSet(Slots)
    <3>1. 0 \in Int /\ 2 \in Int
      OBVIOUS
    <3>2. IsFiniteSet(0..2)
      BY <3>1, FS_Interval, Zenon
    <3>3. QED
      BY <3>2, Zenon DEF Slots
  <2>2. IsFiniteSet(Envs \X Slots)
    BY <2>1, Params, FS_Product
  <2>3. QED
    BY <2>2, FS_Subset
<1>3. Has(kind) \in SUBSET Pages
  BY <1>1, Params
<1>4. Cardinality(Has(kind)) = Cardinality(Pages)
  BY DEF FdRef, PipeRef
<1>5. Has(kind) = Pages
  <2> HIDE DEF Has, Pages
  <2>1. QED
    BY <1>2, <1>3, <1>4, FS_Subset
<1>6. ASSUME NEW x \in Envs, NEW i \in Slots PROVE fd[x][i] # OtherEnd(kind)
  <2>1. OtherEnd(kind) # kind /\ OtherEnd(kind) # None
    BY Params DEF OtherEnd
  <2>2. SUFFICES ASSUME fd[x][i] = OtherEnd(kind) PROVE FALSE
    OBVIOUS
  <2>3. <<x, i>> \in Pages
    BY <1>1, <2>1, <2>2
  <2>4. <<x, i>> \in Has(kind)
    BY <1>5, <2>3
  <2>5. QED
    BY <2>1, <2>2, <2>4
<1>7. QED
  BY <1>6 DEF Held

(* One environment acts; a child that fork makes or ends may change with it.*)
LEMMA Acts ==
    ASSUME NCpu = 1, PipeInv, EofInv, Shrinks, NEW e \in Envs, e \in on, on' = on,
           \A x \in Envs \ {e} :
              \/ job'[x] = job[x] /\ (fd'[x] = fd[x] \/ job[x].pc = "embryo")
              \/ job'[x].pc \in {"embryo", "idle"} /\ job'[x].fdref = None /\ job'[x].pref = None,
           Compares(e)',
           job'[e].pc = "eof" => ~(\E x \in Envs, i \in Slots : fd'[x][i] = OtherEnd(fd'[e][job'[e].slot]))
    PROVE  EofInv'
<1>1. on = {e}
  BY OnlyOne DEF PipeInv
<1>2. fd \in [Envs -> [Slots -> {"r", "w", None}]]
  BY DEF PipeInv, TypeOK
<1>3. ASSUME NEW x \in Envs, x # e
      PROVE  /\ Compares(x)'
             /\ job'[x].pc = "eof" =>
                   ~(\E y \in Envs, i \in Slots : fd'[y][i] = OtherEnd(fd'[x][job'[x].slot]))
  <2>1. CASE job'[x] = job[x] /\ (fd'[x] = fd[x] \/ job[x].pc = "embryo")
    <3>1. x \notin on'
      BY <1>1, <1>3
    <3>2. /\ Compares(x)'
          /\ job'[x].pc = "eof" => ~Held(OtherEnd(fd[x][job[x].slot]))' /\ fd'[x] = fd[x]
      BY <1>2, <2>1, <3>1, Bystander
    <3>3. QED
      BY <2>1, <3>2 DEF Held
  <2>2. CASE job'[x].pc \in {"embryo", "idle"} /\ job'[x].fdref = None /\ job'[x].pref = None
    BY <2>2 DEF Compares, Plain, Busy
  <2>3. QED
    BY <1>3, <2>1, <2>2
<1>4. \A x \in Envs : Compares(x)'
  BY <1>3
<1>5. NoFalseEof'
  BY <1>3 DEF NoFalseEof, Held
<1>6. QED
  BY <1>4, <1>5 DEF EofInv

(* The same when it ends where nothing is compared.                        *)
LEMMA ActsElse ==
    ASSUME NCpu = 1, PipeInv, EofInv, Shrinks, NEW e \in Envs, e \in on, on' = on,
           \A x \in Envs \ {e} :
              \/ job'[x] = job[x] /\ (fd'[x] = fd[x] \/ job[x].pc = "embryo")
              \/ job'[x].pc \in {"embryo", "idle"} /\ job'[x].fdref = None /\ job'[x].pref = None,
           job'[e].pc \notin {"refs", "nn", "eof"}, job'[e].fdref = None, job'[e].pref = None,
           job'[e].pc \in Plain \ {"idle"} => fd'[e][job'[e].slot] # None
    PROVE  EofInv'
<1>1. Compares(e)'
  BY DEF Compares
<1>2. QED
  BY <1>1, Acts

LEMMA TableEof ==
    ASSUME NCpu = 1, PipeInv, EofInv, Shrinks, NEW e \in Envs, NEW i \in Slots,
           close(e, i) \/ dup(e, i) \/ CloseData(e) \/ DupData(e) \/ DupFd(e)
    PROVE  EofInv'
<1>1. /\ e \in on /\ on' = on /\ job[e].pc \in {"idle", "close", "dupdata", "dupfd"}
      /\ job \in [Envs -> Jobs] /\ fd \in [Envs -> [Slots -> {"r", "w", None}]]
  BY DEF close, dup, CloseData, DupData, DupFd, At, PipeInv, TypeOK
<1>2. job[e].fdref = None /\ job[e].pref = None /\ job[e] \in Jobs
  BY <1>1 DEF EofInv, Compares
<1>3. \A x \in Envs \ {e} : job'[x] = job[x] /\ fd'[x] = fd[x]
  BY <1>1 DEF close, dup, CloseData, DupData, DupFd, Return, Goto
<1>4. CASE Return(e)
  <2>1. job'[e] = Place("idle")
    BY <1>1, <1>4 DEF Return
  <2>2. QED
    BY <1>1, <1>3, <2>1, ActsElse DEF Place
<1>5. CASE ~Return(e)
  <2>1. /\ job'[e].pc \in {"close", "dupdata", "dupfd"}
        /\ job'[e].fdref = None /\ job'[e].pref = None
    <3>1. CASE close(e, i) \/ dup(e, i)
      <4>1. CASE close(e, i)
        BY <1>1, <1>2, <4>1 DEF close, Jobs
      <4>2. CASE dup(e, i)
        BY <1>1, <1>2, <4>2 DEF dup, Jobs
      <4>3. QED
        BY <3>1, <4>1, <4>2
    <3>2. CASE CloseData(e) \/ DupData(e)
      <4>1. Goto(e, "dupdata") \/ Goto(e, "dupfd")
        BY <1>5, <3>2 DEF CloseData, DupData
      <4>2. QED
        BY <1>1, <1>2, <4>1 DEF Goto, Jobs
    <3>3. QED
      BY <1>5, <3>1, <3>2 DEF DupFd
  <2>2. QED
    BY <1>1, <1>3, <2>1, ActsElse DEF Plain, Busy
<1>6. QED
  BY <1>4, <1>5

LEMMA ForkEof ==
    ASSUME NCpu = 1, PipeInv, EofInv, Shrinks, NEW e \in Envs, fork(e) \/ ForkPage(e) \/ ForkEnd(e)
    PROVE  EofInv'
<1>1. /\ e \in on /\ on' = on /\ job[e].pc \in {"idle", "fork"}
      /\ job \in [Envs -> Jobs] /\ fd \in [Envs -> [Slots -> {"r", "w", None}]]
  BY DEF fork, ForkPage, ForkEnd, At, PipeInv, TypeOK
<1>2. \A x \in Envs : job[x].pc \in {"none", "idle", "fork"} => job[x].fdref = None /\ job[x].pref = None
  BY DEF EofInv, Compares
<1>3. CASE fork(e)
  <2>1. PICK c \in Envs : /\ job[c].pc = "none"
                          /\ job' = [job EXCEPT ![e].pc = "fork", ![e].kid = c, ![c].pc = "embryo"]
    BY <1>3 DEF fork
  <2>2. c # e /\ fd' = fd
    BY <1>3, <2>1 DEF fork, At
  <2>3. /\ job'[e].pc = "fork" /\ job'[e].fdref = None /\ job'[e].pref = None
        /\ job'[c].pc = "embryo" /\ job'[c].fdref = None /\ job'[c].pref = None
        /\ \A x \in Envs \ {e, c} : job'[x] = job[x]
    BY <1>1, <1>2, <2>1, <2>2 DEF Jobs
  <2>4. QED
    BY <1>1, <2>2, <2>3, ActsElse DEF Plain, Busy
<1>4. CASE ForkPage(e)
  <2>1. job[e].pc = "fork" /\ Copied(e)
    BY <1>4 DEF ForkPage, At, PipeInv, Kids
  <2>2. job[e].kid \in Envs /\ job[job[e].kid].pc = "embryo"
    BY <2>1 DEF Copied
  <2>3. \A x \in Envs \ {job[e].kid} : fd'[x] = fd[x]
    BY <1>1, <1>4, <2>2 DEF ForkPage
  <2>4. /\ job'[e].pc = "fork" /\ job'[e].fdref = None /\ job'[e].pref = None
        /\ \A x \in Envs \ {e} : job'[x] = job[x]
    BY <1>1, <1>2, <1>4, <2>1 DEF ForkPage, Jobs
  <2>5. QED
    BY <1>1, <2>2, <2>3, <2>4, ActsElse DEF Plain, Busy
<1>5. CASE ForkEnd(e)
  <2>1. job[e].pc = "fork" /\ Copied(e) /\ fd' = fd
    BY <1>5 DEF ForkEnd, At, PipeInv, Kids
  <2>2. job[e].kid \in Envs
    BY <2>1 DEF Copied
  <2>3. job' = [job EXCEPT ![e] = Place("idle"), ![job[e].kid] = Place("idle")]
    BY <1>5 DEF ForkEnd
  <2>4. /\ job'[e] = Place("idle") /\ job'[job[e].kid] = Place("idle")
        /\ \A x \in Envs \ {e, job[e].kid} : job'[x] = job[x]
    BY <1>1, <2>2, <2>3
  <2>5. Place("idle").pc = "idle" /\ Place("idle").fdref = None /\ Place("idle").pref = None
    BY DEF Place
  <2>6. QED
    BY <1>1, <2>1, <2>4, <2>5, ActsElse
<1>6. QED
  BY <1>3, <1>4, <1>5

LEMMA CallEof ==
    ASSUME NCpu = 1, PipeInv, EofInv, Shrinks, NEW e \in Envs, NEW i \in Slots,
           pipeisclosed(e, i) \/ devpipe_read(e, i) \/ devpipe_write(e, i)
    PROVE  EofInv'
<1>1. /\ e \in on /\ on' = on /\ job[e].pc = "idle" /\ fd' = fd /\ fd[e][i] # None
      /\ job \in [Envs -> Jobs]
  BY Params DEF pipeisclosed, devpipe_read, devpipe_write, Call, At, PipeInv, TypeOK
<1>2. job[e].fdref = None /\ job[e].pref = None
  BY <1>1 DEF EofInv, Compares
<1>3. /\ \A x \in Envs \ {e} : job'[x] = job[x]
      /\ job'[e].slot = i /\ job'[e].fdref = None /\ job'[e].pref = None
      /\ job'[e].pc \in {"n", "rloop", "wloop"}
  <2>1. CASE pipeisclosed(e, i)
    BY <1>1, <1>2, <2>1 DEF pipeisclosed, Jobs
  <2>2. ASSUME NEW n, NEW label \in {"rloop", "wloop"}, Call(e, i, n, label)
        PROVE  /\ \A x \in Envs \ {e} : job'[x] = job[x]
               /\ job'[e].slot = i /\ job'[e].fdref = None /\ job'[e].pref = None
               /\ job'[e].pc = label
    BY <1>1, <1>2, <2>2 DEF Call, Jobs
  <2>3. QED
    BY <2>1, <2>2 DEF devpipe_read, devpipe_write
<1>4. QED
  BY <1>1, <1>3, ActsElse

LEMMA LoopEof ==
    ASSUME NCpu = 1, PipeInv, EofInv, Shrinks, NEW e \in Envs,
           \/ ReadLoop(e) \/ ReadTake(e) \/ ReadInc(e)
           \/ WriteLoop(e) \/ WritePut(e) \/ WriteInc(e) \/ Eof(e)
    PROVE  EofInv'
<1>1. /\ e \in on /\ on' = on /\ fd' = fd /\ job \in [Envs -> Jobs]
      /\ job[e].pc \in {"rloop", "rtake", "rinc", "wloop", "wput", "winc", "eof"}
  BY DEF ReadLoop, ReadTake, ReadInc, WriteLoop, WritePut, WriteInc, Eof, At, PipeInv, TypeOK
<1>2. /\ job[e].pc # "eof" => job[e].fdref = None /\ job[e].pref = None
      /\ fd[e][job[e].slot] # None
  BY <1>1 DEF EofInv, Compares, Plain, Busy, Labels
<1>3. \A x \in Envs \ {e} : job'[x] = job[x]
  BY <1>1 DEF ReadLoop, ReadTake, ReadInc, WriteLoop, WritePut, WriteInc, Eof, Return, Goto, Transferred
<1>4. CASE Return(e)
  <2>1. job'[e] = Place("idle")
    BY <1>1, <1>4 DEF Return
  <2>2. QED
    BY <1>1, <1>3, <2>1, ActsElse DEF Place
<1>5. CASE ~Return(e)
  <2>1. /\ job'[e].pc \in {"n", "rloop", "rtake", "rinc", "wloop", "wput", "winc"}
        /\ job'[e].fdref = job[e].fdref /\ job'[e].pref = job[e].pref
        /\ job'[e].slot = job[e].slot /\ job[e].pc # "eof"
    <3>1. ASSUME NEW label \in {"n", "rtake", "wput", "winc"}, Goto(e, label)
          PROVE  /\ job'[e].pc = label /\ job'[e].slot = job[e].slot
                 /\ job'[e].fdref = job[e].fdref /\ job'[e].pref = job[e].pref
      BY <1>1, <3>1 DEF Goto, Jobs
    <3>2. ASSUME NEW label \in {"rloop", "wloop"}, Transferred(e, label)
          PROVE  /\ job'[e].pc = label /\ job'[e].slot = job[e].slot
                 /\ job'[e].fdref = job[e].fdref /\ job'[e].pref = job[e].pref
      BY <1>1, <3>2 DEF Transferred, Jobs
    <3>3. CASE ReadTake(e)
      BY <1>1, <3>3 DEF ReadTake, At, Jobs
    <3>4. CASE ReadLoop(e) \/ WriteLoop(e)
      BY <1>5, <3>1, <3>4 DEF ReadLoop, WriteLoop, At
    <3>5. CASE ReadInc(e) \/ WriteInc(e) \/ WritePut(e)
      BY <3>1, <3>2, <3>5 DEF ReadInc, WriteInc, WritePut, At
    <3>6. QED
      BY <1>5, <3>3, <3>4, <3>5 DEF Eof
  <2>2. QED
    BY <1>1, <1>2, <1>3, <2>1, ActsElse
<1>6. QED
  BY <1>4, <1>5

(* The comparison: what is read is read in one state, and that state was   *)
(* without a fork.                                                         *)
LEMMA CompareEof ==
    ASSUME NCpu = 1, PipeInv, EofInv, ForksApart, Shrinks, NEW e \in Envs,
           ReadRuns(e) \/ ReadRef(e) \/ Verdict(e)
    PROVE  EofInv'
<1>1. /\ e \in on /\ on' = on /\ fd' = fd /\ data' = data /\ job \in [Envs -> Jobs]
      /\ job[e].pc \in {"n", "refs", "nn"} /\ job[e] \in Jobs
  BY DEF ReadRuns, ReadRef, Verdict, At, PipeInv, TypeOK
<1>2. Compares(e) /\ fd[e][job[e].slot] # None /\ fd[e][job[e].slot] \in {"r", "w"}
  <2>1. fd[e][job[e].slot] \in {"r", "w", None}
    BY <1>1, Actor DEF Jobs
  <2>2. QED
    BY <1>1, <2>1 DEF EofInv, Compares, Plain, Busy, Labels
<1>3. \A x \in Envs \ {e} : job'[x] = job[x]
  BY <1>1 DEF ReadRuns, ReadRef, Verdict, Return, Goto
<1>4. /\ FdRef(fd[e][job[e].slot]) \in Nat /\ PipeRef \in Nat /\ None \notin Nat
      /\ \A k : FdRef(k)' = FdRef(k)
      /\ PipeRef' = PipeRef
  BY <1>1, Counts, PipeAssumption DEF FdRef, PipeRef
<1>5. ASSUME NEW r \in Jobs, job' = [job EXCEPT ![e] = r], r.pc \in {"refs", "nn"}, r.slot = job[e].slot,
             r.pc = "nn" => r.fdref # None /\ r.pref # None,
             ~r.ran => /\ r.fdref \in {None, FdRef(fd[e][job[e].slot])}
                       /\ r.pref \in {None, PipeRef}
      PROVE  EofInv'
  <2>1. job'[e] = r
    BY <1>1, <1>5
  <2>2. Compares(e)'
    BY <1>1, <1>2, <1>5, <2>1 DEF Compares, FdRef, PipeRef
  <2>3. QED
    BY <1>1, <1>3, <1>5, <2>1, <2>2, Acts
<1>6. CASE ReadRuns(e)
  <2> DEFINE r == [job[e] EXCEPT !.ran = FALSE, !.pc = "refs"]
  <2>1. job[e].pc = "n" /\ job' = [job EXCEPT ![e] = r]
    BY <1>6 DEF ReadRuns, At
  <2>2. job[e].fdref = None /\ job[e].pref = None
    BY <1>2, <2>1 DEF Compares
  <2>3. r \in Jobs /\ r.pc = "refs" /\ r.slot = job[e].slot /\ r.fdref = None /\ r.pref = None
    BY <1>1, <2>2 DEF Jobs, Labels
  <2>4. QED
    BY <1>5, <2>1, <2>3
<1>7. CASE ReadRef(e)
  <2>1. job[e].pc = "refs"
    BY <1>7 DEF ReadRef, At
  <2>2. ~job[e].ran => /\ job[e].fdref \in {None, FdRef(fd[e][job[e].slot])}
                       /\ job[e].pref \in {None, PipeRef}
    BY <1>1, <1>2, <2>1 DEF Compares
  <2>3. CASE job' = [job EXCEPT ![e].fdref = FdRef(fd[e][job[e].slot]),
                                ![e].pc = IF job[e].pref = None THEN "refs" ELSE "nn"]
    <3> DEFINE r == [job[e] EXCEPT !.fdref = FdRef(fd[e][job[e].slot]),
                                   !.pc = IF job[e].pref = None THEN "refs" ELSE "nn"]
    <3>1. /\ r \in Jobs /\ r.slot = job[e].slot /\ r.ran = job[e].ran /\ r.pref = job[e].pref
          /\ r.fdref = FdRef(fd[e][job[e].slot])
          /\ r.pc = IF job[e].pref = None THEN "refs" ELSE "nn"
      BY <1>1, <1>4 DEF Jobs, Labels
    <3>2. job' = [job EXCEPT ![e] = r]
      BY <2>3
    <3> HIDE DEF r
    <3>3. QED
      BY <1>4, <1>5, <2>2, <3>1, <3>2
  <2>4. CASE job' = [job EXCEPT ![e].pref = PipeRef,
                                ![e].pc = IF job[e].fdref = None THEN "refs" ELSE "nn"]
    <3> DEFINE r == [job[e] EXCEPT !.pref = PipeRef,
                                   !.pc = IF job[e].fdref = None THEN "refs" ELSE "nn"]
    <3>1. /\ r \in Jobs /\ r.slot = job[e].slot /\ r.ran = job[e].ran /\ r.fdref = job[e].fdref
          /\ r.pref = PipeRef
          /\ r.pc = IF job[e].fdref = None THEN "refs" ELSE "nn"
      BY <1>1, <1>4 DEF Jobs, Labels
    <3>2. job' = [job EXCEPT ![e] = r]
      BY <2>4
    <3> HIDE DEF r
    <3>3. QED
      BY <1>4, <1>5, <2>2, <3>1, <3>2
  <2>5. QED
    BY <1>7, <2>3, <2>4 DEF ReadRef
<1>8. CASE Verdict(e)
  <2>1. job[e].pc = "nn"
    BY <1>8 DEF Verdict, At
  <2>2. CASE ~job[e].ran /\ job[e].fdref = job[e].pref /\ Goto(e, "eof")
    <3>1. job[e].fdref = FdRef(fd[e][job[e].slot]) /\ job[e].pref = PipeRef
      BY <1>1, <1>2, <2>1, <2>2 DEF Compares
    <3>2. \A x \in Envs : job[x].pc # "fork"
      BY <2>1 DEF ForksApart
    <3>3. ~Held(OtherEnd(fd[e][job[e].slot]))
      BY <1>2, <2>2, <3>1, <3>2, EqualCounts
    <3>4. job'[e].pc = "eof" /\ job'[e].slot = job[e].slot
      BY <1>1, <2>2 DEF Goto, Jobs
    <3>5. Compares(e)'
      BY <1>1, <1>2, <3>4 DEF Compares
    <3>6. ~(\E x \in Envs, i \in Slots : fd'[x][i] = OtherEnd(fd'[e][job'[e].slot]))
      BY <1>1, <3>3, <3>4 DEF Held
    <3>7. QED
      BY <1>1, <1>3, <3>5, <3>6, Acts
  <2>3. CASE Return(e)
    <3>1. job'[e] = Place("idle")
      BY <1>1, <2>3 DEF Return
    <3>2. QED
      BY <1>1, <1>3, <3>1, ActsElse DEF Place
  <2>4. ASSUME NEW label \in {"n", "rloop", "wloop"},
               job' = [job EXCEPT ![e].fdref = None, ![e].pref = None, ![e].pc = label]
        PROVE  EofInv'
    <3>1. job'[e].pc = label /\ job'[e].slot = job[e].slot /\ job'[e].fdref = None /\ job'[e].pref = None
      BY <1>1, <2>4 DEF Jobs
    <3>2. QED
      BY <1>1, <1>2, <1>3, <3>1, ActsElse
  <2>5. job[e].ret \in {"rloop", "wloop", "idle"}
    BY <1>1 DEF Jobs
  <2>6. QED
    BY <1>8, <2>2, <2>3, <2>4, <2>5 DEF Verdict
<1>9. QED
  BY <1>6, <1>7, <1>8

(* Who is given the CPU takes it from all others, and is marked.           *)
LEMMA ScheduleEof ==
    ASSUME NCpu = 1, PipeInv, EofInv, NEW e \in Envs, Schedule(e)
    PROVE  EofInv'
<1> DEFINE b == job[e].pc \in {"refs", "nn"}
           r == [job[e] EXCEPT !.ran = b]
<1>1. /\ job' = [job EXCEPT ![e] = r] /\ UNCHANGED <<fd, data>> /\ job \in [Envs -> Jobs]
      /\ e \in on'
  BY DEF Schedule, PipeInv, TypeOK
<1>2. PipeInv'
  BY ScheduleInv
<1>3. on' = {e}
  <2>1. ASSUME NEW x \in on', x # e PROVE FALSE
    <3>1. on' \in SUBSET Envs /\ Cardinality(on') <= 1
      BY <1>2 DEF PipeInv, TypeOK
    <3>2. IsFiniteSet(on')
      BY <3>1, Params, FS_Subset
    <3>3. IsFiniteSet({e}) /\ Cardinality({e}) = 1 /\ x \notin {e}
      BY <2>1, FS_Singleton
    <3>4. Cardinality({e} \cup {x}) = 2
      <4>1. Cardinality({e} \cup {x}) = Cardinality({e}) + 1
        BY <3>3, FS_AddElement
      <4>2. QED
        BY <3>3, <4>1
    <3>5. {e} \cup {x} \in SUBSET on'
      BY <1>1, <2>1
    <3>6. Cardinality({e} \cup {x}) <= Cardinality(on') /\ Cardinality(on') \in Nat
      BY <3>2, <3>5, FS_Subset, FS_CardinalityType
    <3>7. QED
      BY <3>1, <3>4, <3>6
  <2>2. QED
    BY <1>1, <2>1
<1>4. /\ r.ran = b /\ r.pc = job[e].pc /\ r.slot = job[e].slot
      /\ r.fdref = job[e].fdref /\ r.pref = job[e].pref
  BY <1>1 DEF Jobs
<1> HIDE DEF r
<1>5. \A x \in Envs : /\ job'[x].pc = job[x].pc /\ job'[x].slot = job[x].slot
                      /\ job'[x].fdref = job[x].fdref /\ job'[x].pref = job[x].pref
                      /\ x = e => job'[x].ran = b
  BY <1>1, <1>4
<1>6. ASSUME NEW x \in Envs PROVE Compares(x)'
  <2>1. Compares(x)
    BY DEF EofInv
  <2>2. ~(x \in on' /\ job'[x].pc \in {"refs", "nn"} /\ ~job'[x].ran)
    BY <1>3, <1>5
  <2>3. QED
    BY <1>1, <1>5, <2>1, <2>2 DEF Compares
<1>7. NoFalseEof'
  <2>1. SUFFICES ASSUME NEW x \in Envs, job'[x].pc = "eof"
                 PROVE  ~(\E y \in Envs, i \in Slots : fd'[y][i] = OtherEnd(fd'[x][job'[x].slot]))
    BY DEF NoFalseEof, Held
  <2>2. QED
    BY <1>1, <1>5, <2>1 DEF EofInv, NoFalseEof, Held
<1>8. QED
  BY <1>6, <1>7 DEF EofInv

LEMMA EofStep ==
    ASSUME NCpu = 1
    PROVE  PipeInv /\ EofInv /\ ForksApart /\ [Next]_vars => EofInv'
<1> SUFFICES ASSUME PipeInv, EofInv, ForksApart, [Next]_vars PROVE EofInv'
  OBVIOUS
<1>1. Shrinks
  BY HeldShrinks
<1>2. CASE UNCHANGED vars
  BY <1>2 DEF vars, EofInv, NoFalseEof, Held, Compares, FdRef, PipeRef
<1>3. ASSUME NEW e \in Envs, NEW i \in Slots,
             \/ close(e, i) \/ dup(e, i) \/ pipeisclosed(e, i)
             \/ devpipe_read(e, i) \/ devpipe_write(e, i)
      PROVE  EofInv'
  BY <1>1, <1>3, TableEof, CallEof
<1>4. 0 \in Slots
  BY DEF Slots
<1>5. ASSUME NEW e \in Envs,
             \/ Schedule(e) \/ CloseData(e) \/ DupData(e) \/ DupFd(e)
             \/ fork(e) \/ ForkPage(e) \/ ForkEnd(e)
      PROVE  EofInv'
  BY <1>1, <1>4, <1>5, ScheduleEof, TableEof, ForkEof
<1>6. ASSUME NEW e \in Envs,
             \/ ReadRuns(e) \/ ReadRef(e) \/ Verdict(e) \/ Eof(e)
             \/ ReadLoop(e) \/ ReadTake(e) \/ ReadInc(e)
             \/ WriteLoop(e) \/ WritePut(e) \/ WriteInc(e)
      PROVE  EofInv'
  BY <1>1, <1>6, CompareEof, LoopEof
<1>7. QED
  BY <1>2, <1>3, <1>5, <1>6 DEF Next

LEMMA EofBegins == Init => EofInv
<1> SUFFICES ASSUME Init PROVE EofInv
  OBVIOUS
<1>1. \A e \in Envs : job[e].pc \in {"idle", "none"} /\ job[e].fdref = None /\ job[e].pref = None
  BY DEF Init, Place
<1>2. QED
  BY <1>1 DEF EofInv, NoFalseEof, Compares, Plain, Busy

(* On one CPU, however many share the pipe: if no fork is under way while  *)
(* anybody compares the counts, _pipeisclosed says yes only if nobody has  *)
(* the other end.                                                          *)
THEOREM EofUnlessFork == ASSUME NCpu = 1 PROVE Spec /\ []ForksApart => []NoFalseEof
<1>1. EofInv => NoFalseEof
  BY DEF EofInv
<1>2. PipeInv /\ EofInv /\ ForksApart /\ [Next]_vars => EofInv'
  BY EofStep
<1>3. QED
  BY <1>1, <1>2, EofBegins, Invariance, PTL DEF Spec

(* Two environments cannot compare and fork a third: on one CPU they never *)
(* see a false end.                                                        *)
THEOREM EofIsTrue == ASSUME NCpu = 1, Cardinality(Envs) <= 2 PROVE Spec => []NoFalseEof
<1>1. PipeInv => ForksApart
  <2> SUFFICES ASSUME PipeInv, NEW e \in Envs, NEW x \in Envs, job[e].pc \in {"refs", "nn"},
                      job[x].pc = "fork"
               PROVE  FALSE
    BY DEF ForksApart
  <2>1. Copied(x)
    BY DEF PipeInv, Kids
  <2>2. PICK c \in Envs : job[c].pc = "embryo"
    BY <2>1 DEF Copied
  <2>3. e # x /\ c \notin {e, x}
    BY <2>2
  <2>4. IsFiniteSet({e}) /\ Cardinality({e}) = 1
    BY FS_Singleton
  <2>5. IsFiniteSet({e} \cup {x}) /\ Cardinality({e} \cup {x}) = 2
    <3>1. IsFiniteSet({e} \cup {x}) /\ Cardinality({e} \cup {x}) = Cardinality({e}) + 1
      BY <2>3, <2>4, FS_AddElement
    <3>2. QED
      BY <2>4, <3>1
  <2>6. Cardinality(({e} \cup {x}) \cup {c}) = 3
    <3>1. c \notin {e} \cup {x}
      BY <2>3
    <3>2. Cardinality(({e} \cup {x}) \cup {c}) = Cardinality({e} \cup {x}) + 1
      BY <2>5, <3>1, FS_AddElement
    <3>3. QED
      BY <2>5, <3>2
  <2>7. ({e} \cup {x}) \cup {c} \in SUBSET Envs
    OBVIOUS
  <2>8. Cardinality(({e} \cup {x}) \cup {c}) <= Cardinality(Envs) /\ Cardinality(Envs) \in Nat
    BY <2>7, Params, FS_Subset, FS_CardinalityType
  <2>9. QED
    BY <2>6, <2>8
<1>2. Spec => []ForksApart
  BY <1>1, Invariance, PTL
<1>3. QED
  BY <1>2, EofUnlessFork, PTL

-----------------------------------------------------------------------------
(* The rings of the card.                                                  *)

(* From h up to i, and the i-th from h on.                                 *)
Distance(h, i) == IF h <= i THEN i - h ELSE i + N - h
RingAt(h, i) == IF h + i < N THEN h + i ELSE h + i - N

TxLength == Distance(tdh, tdt)

TxInv ==
    /\ \A i \in Index :
          ~tx[i].dd <=> Distance(tdh, i) < TxLength \/ (pc = "tail" /\ i = tdt)
    /\ pc \in {"fill", "clear", "tail"} => TxLength < N - 1 /\ pkt \in Packets \ TooLong
    /\ pc \in {"clear", "tail"} => tx[tdt].buf = pkt
    /\ \A i \in Index : ~tx[i].dd => tx[i].buf \in Packets

RxInv ==
    /\ \A i \in Index : rx[i].dd <=> Distance(rdt, i) < RxLength /\ ~(pc = "rtail" /\ i = rdt)
    /\ pc \in {"take", "ack", "rtail"} => RxLength > 0
    /\ pc \in {"ack", "rtail"} => pkt = rx[rdt].buf
    /\ \A i \in Index : rx[i].dd => rx[i].buf \in Packets

RingInv == RingsTypeOK /\ TxInv /\ RxInv

-----------------------------------------------------------------------------
(* Going round the ring once.                                              *)
LEMMA Wrap ==
    ASSUME NEW a \in 0..2 * N - 1
    PROVE  a % N = IF a < N THEN a ELSE a - N
<1>1. N \in Nat \ {0}
  BY E1000Assumption
<1>2. CASE a < N
  BY <1>1, <1>2
<1>3. CASE a >= N
  BY <1>1, <1>3
<1>4. QED
  BY <1>1, <1>2, <1>3

LEMMA Ring ==
    /\ N \in Nat \ {0} /\ 0 \in Index
    /\ \A i \in Index : Succ(i) = (IF i = N - 1 THEN 0 ELSE i + 1) /\ Succ(i) \in Index
    /\ \A h, i \in Index : (i + N - h) % N = Distance(h, i)
    /\ \A h \in Index, j \in 1..N : (h + j - 1) % N = RingAt(h, j - 1) /\ RingAt(h, j - 1) \in Index
<1>1. N \in Nat \ {0}
  BY E1000Assumption
<1>2. ASSUME NEW i \in Index
      PROVE  Succ(i) = (IF i = N - 1 THEN 0 ELSE i + 1) /\ Succ(i) \in Index
  <2>1. i + 1 \in 0..2 * N - 1
    BY <1>1 DEF Index
  <2>2. QED
    BY <1>1, <2>1, Wrap DEF Index, Succ
<1>3. ASSUME NEW h \in Index, NEW i \in Index PROVE (i + N - h) % N = Distance(h, i)
  <2>1. i + N - h \in 0..2 * N - 1
    BY <1>1 DEF Index
  <2>2. QED
    BY <1>1, <2>1, Wrap DEF Index, Distance
<1>4. ASSUME NEW h \in Index, NEW j \in 1..N
      PROVE  (h + j - 1) % N = RingAt(h, j - 1) /\ RingAt(h, j - 1) \in Index
  <2>1. h + j - 1 \in 0..2 * N - 1
    BY <1>1 DEF Index
  <2>2. QED
    BY <1>1, <2>1, Wrap DEF Index, RingAt
<1>5. QED
  BY <1>1, <1>2, <1>3, <1>4 DEF Index

(* Distances and steps round the ring.                                     *)
LEMMA Steps ==
    ASSUME NEW h \in Index, NEW i \in Index
    PROVE  /\ Distance(h, i) \in 0..N - 1 /\ (Distance(h, i) = 0 <=> h = i)
           /\ RingAt(h, Distance(h, i)) = i
           /\ Distance(h, i) < N - 1 => Distance(h, Succ(i)) = Distance(h, i) + 1
           /\ h # i => Distance(Succ(h), i) = Distance(h, i) - 1
           /\ Distance(Succ(h), h) = N - 1
           /\ Distance(h, i) = N - 1 => Succ(i) = h
<1>1. N \in Nat \ {0} /\ h \in 0..N - 1 /\ i \in 0..N - 1
  BY Ring DEF Index
<1>2. Succ(i) = (IF i = N - 1 THEN 0 ELSE i + 1) /\ Succ(h) = (IF h = N - 1 THEN 0 ELSE h + 1)
  BY Ring
<1>3. Distance(h, i) \in 0..N - 1 /\ (Distance(h, i) = 0 <=> h = i)
  BY <1>1 DEF Distance
<1>4. RingAt(h, Distance(h, i)) = i
  BY <1>1 DEF Distance, RingAt
<1>5. Distance(h, i) < N - 1 => Distance(h, Succ(i)) = Distance(h, i) + 1
  BY <1>1, <1>2 DEF Distance
<1>6. h # i => Distance(Succ(h), i) = Distance(h, i) - 1
  BY <1>1, <1>2 DEF Distance
<1>7. Distance(Succ(h), h) = N - 1
  BY <1>1, <1>2 DEF Distance
<1>8. Distance(h, i) = N - 1 => Succ(i) = h
  BY <1>1, <1>2 DEF Distance
<1>9. QED
  BY <1>3, <1>4, <1>5, <1>6, <1>7, <1>8

LEMMA Positions ==
    ASSUME NEW h \in Index, NEW k \in 0..N - 1
    PROVE  /\ RingAt(h, k) \in Index /\ Distance(h, RingAt(h, k)) = k
           /\ k < N - 1 => RingAt(Succ(h), k) = RingAt(h, k + 1)
           /\ RingAt(h, 0) = h
<1>1. N \in Nat \ {0} /\ h \in 0..N - 1
  BY Ring DEF Index
<1>2. Succ(h) = (IF h = N - 1 THEN 0 ELSE h + 1)
  BY Ring
<1>3. RingAt(h, k) \in Index /\ Distance(h, RingAt(h, k)) = k
  BY <1>1 DEF RingAt, Distance, Index
<1>4. k < N - 1 => RingAt(Succ(h), k) = RingAt(h, k + 1)
  BY <1>1, <1>2 DEF RingAt
<1>5. RingAt(h, 0) = h
  BY <1>1 DEF RingAt
<1>6. QED
  BY <1>3, <1>4, <1>5

(* The queues as sequences.                                                *)
LEMMA Queues ==
    ASSUME RingsTypeOK
    PROVE  /\ TxLength \in 0..N - 1 /\ RxLength \in 0..N
           /\ RxLength = IF rdh # rdt THEN Distance(rdt, rdh) ELSE IF rxov THEN N ELSE 0
           /\ TxQueue = [j \in 1..TxLength |-> tx[RingAt(tdh, j - 1)].buf]
           /\ Received = [j \in 1..RxLength |-> rx[RingAt(rdt, j - 1)].buf]
<1>1. tdh \in Index /\ tdt \in Index /\ rdh \in Index /\ rdt \in Index
  BY DEF RingsTypeOK
<1>2. TxLength \in 0..N - 1 /\ (tdt + N - tdh) % N = TxLength
  <2>1. (tdt + N - tdh) % N = TxLength
    BY <1>1, Ring DEF TxLength
  <2>2. TxLength \in 0..N - 1
    BY <1>1, E1000Assumption DEF TxLength, Distance, Index
  <2>3. QED
    BY <2>1, <2>2
<1>3. RxLength = IF rdh # rdt THEN Distance(rdt, rdh) ELSE IF rxov THEN N ELSE 0
  BY <1>1, Ring DEF RxLength
<1>4. RxLength \in 0..N
  BY <1>1, <1>3, Ring DEF Distance, Index
<1>5. TxQueue = [j \in 1..TxLength |-> tx[RingAt(tdh, j - 1)].buf]
  <2>1. \A j \in 1..TxLength : (tdh + j - 1) % N = RingAt(tdh, j - 1)
    BY <1>1, <1>2, Ring
  <2>2. QED
    BY <1>2, <2>1 DEF TxQueue
<1>6. Received = [j \in 1..RxLength |-> rx[RingAt(rdt, j - 1)].buf]
  <2>1. \A j \in 1..RxLength : (rdt + j - 1) % N = RingAt(rdt, j - 1)
    BY <1>1, <1>4, Ring
  <2>2. QED
    BY <1>4, <2>1 DEF Received
<1>7. QED
  BY <1>2, <1>3, <1>4, <1>5, <1>6

-----------------------------------------------------------------------------
LEMMA RingsInitInv == RingsInit => RingInv
<1> SUFFICES ASSUME RingsInit PROVE RingInv
  OBVIOUS
<1>1. RingsTypeOK
  BY Ring DEF RingsInit, RingsTypeOK
<1>2. \A i \in Index : Distance(0, i) \in Nat
  BY Ring DEF Distance, Index
<1>3. TxLength = 0 /\ RxLength = 0
  BY <1>1, Queues, Ring DEF RingsInit, TxLength, Distance
<1>4. QED
  BY <1>1, <1>2, <1>3 DEF RingsInit, RingInv, TxInv, RxInv

-----------------------------------------------------------------------------
(* The transmit ring.                                                      *)

(* A driver's step that leaves the transmit ring alone.                    *)
LEMMA TxFrame ==
    ASSUME TxInv, UNCHANGED txvars,
           pc' # pc => pc \notin {"fill", "clear", "tail"} /\ pc' \notin {"fill", "clear", "tail"},
           pc' = pc => pkt' = pkt
    PROVE  TxInv'
BY DEF TxInv, txvars, TxLength, Distance

(* The driver's tests leave room for one more packet: with all but the     *)
(* tail given to the card there would be N - 1 outstanding.                *)
LEMMA Room ==
    ASSUME RingsTypeOK, TxInv, Lag < N, pc = "idle", tx[tdt].dd, Outstanding < Lag
    PROVE  TxLength < N - 1
<1>1. TxLength \in 0..N - 1 /\ tdh \in Index /\ tdt \in Index /\ N \in Nat \ {0} /\ Lag \in Nat
  BY Queues, Ring, E1000Assumption DEF RingsTypeOK
<1>2. SUFFICES ASSUME TxLength = N - 1 PROVE FALSE
  BY <1>1
<1> DEFINE given == {i \in Index : ~tx[i].dd}
<1>3. Index \ {tdt} \subseteq given
  <2>1. ASSUME NEW i \in Index, i # tdt PROVE Distance(tdh, i) < N - 1
    BY <1>1, <1>2, <2>1 DEF TxLength, Distance, Index
  <2>2. QED
    BY <1>2, <2>1 DEF TxInv
<1>4. IsFiniteSet(Index) /\ Cardinality(Index) = N
  BY <1>1, FS_Interval DEF Index
<1>5. Cardinality(Index \ {tdt}) = N - 1
  BY <1>1, <1>4, FS_RemoveElement
<1>6. given \in SUBSET Index
  OBVIOUS
<1>7. IsFiniteSet(given) /\ Cardinality(given) \in Nat
  BY <1>4, <1>6, FS_Subset, FS_CardinalityType
<1>8. N - 1 <= Cardinality(given)
  BY <1>3, <1>5, <1>7, FS_Subset
<1>9. QED
  BY <1>1, <1>7, <1>8 DEF Outstanding

LEMMA TxStepInv ==
    ASSUME RingsTypeOK, RingsTypeOK', TxInv, Lag < N, [RingsNext]_ringsVars
    PROVE  TxInv'
<1>1. /\ TxLength \in 0..N - 1 /\ tdh \in Index /\ tdt \in Index /\ N \in Nat \ {0}
      /\ tx \in [Index -> [buf : (Packets \ TooLong) \cup {NoPacket}, dd : BOOLEAN]]
  BY Queues, Ring DEF RingsTypeOK
<1>2. ASSUME NEW p \in Packets, net_pci_transmit(p) PROVE TxInv'
  <2>1. TxLength < N - 1
    BY <1>2, Room DEF net_pci_transmit
  <2>2. QED
    BY <1>2, <2>1 DEF net_pci_transmit, TxInv, txvars, TxLength, Distance
<1>3. CASE FillDescriptor
  <2>1. ~(Distance(tdh, tdt) < TxLength)
    BY <1>1 DEF TxLength
  <2>2. tx'[tdt] = [tx[tdt] EXCEPT !.buf = pkt] /\ \A i \in Index \ {tdt} : tx'[i] = tx[i]
    BY <1>1, <1>3 DEF FillDescriptor
  <2>3. tx'[tdt].buf = pkt /\ tx'[tdt].dd = tx[tdt].dd
    BY <1>1, <2>2
  <2>4. pc = "fill" /\ pc' = "clear" /\ UNCHANGED <<tdh, tdt, pkt>>
    BY <1>3 DEF FillDescriptor
  <2>5. TxLength' = TxLength /\ \A i \in Index : Distance(tdh, i)' = Distance(tdh, i)
    BY <2>4 DEF TxLength, Distance
  <2>6. QED
    BY <1>1, <2>1, <2>2, <2>3, <2>4, <2>5 DEF TxInv
<1>4. CASE ClearDone
  <2>1. ~(Distance(tdh, tdt) < TxLength)
    BY <1>1 DEF TxLength
  <2>2. tx'[tdt] = [tx[tdt] EXCEPT !.dd = FALSE] /\ \A i \in Index \ {tdt} : tx'[i] = tx[i]
    BY <1>1, <1>4 DEF ClearDone
  <2>3. tx'[tdt].buf = tx[tdt].buf /\ ~tx'[tdt].dd
    BY <1>1, <2>2
  <2>4. pc = "clear" /\ pc' = "tail" /\ UNCHANGED <<tdh, tdt, pkt>>
    BY <1>4 DEF ClearDone
  <2>5. TxLength' = TxLength /\ \A i \in Index : Distance(tdh, i)' = Distance(tdh, i)
    BY <2>4 DEF TxLength, Distance
  <2>6. QED
    BY <1>1, <2>1, <2>2, <2>3, <2>4, <2>5 DEF TxInv
<1>5. CASE WriteTail
  <2>1. /\ pc = "tail" /\ pc' = "idle" /\ tdt' = Succ(tdt) /\ tdh' = tdh /\ tx' = tx
        /\ TxLength < N - 1
    BY <1>5 DEF WriteTail, TxInv
  <2>2. TxLength' = TxLength + 1
    <3>1. Distance(tdh, Succ(tdt)) = Distance(tdh, tdt) + 1
      BY <1>1, <2>1, Steps DEF TxLength
    <3>2. QED
      BY <2>1, <3>1 DEF TxLength, Distance
  <2>3. \A i \in Index : /\ Distance(tdh, i)' = Distance(tdh, i)
                         /\ Distance(tdh, i) < TxLength + 1
                            <=> Distance(tdh, i) < TxLength \/ i = tdt
    BY <1>1, <2>1 DEF TxLength, Distance, Index
  <2>4. QED
    BY <2>1, <2>2, <2>3 DEF TxInv
<1>6. CASE CardSends
  <2>1. /\ tdh # tdt /\ tdh' = Succ(tdh) /\ UNCHANGED <<tdt, pc, pkt>>
        /\ tx'[tdh] = [tx[tdh] EXCEPT !.dd = TRUE] /\ \A i \in Index \ {tdh} : tx'[i] = tx[i]
    BY <1>1, <1>6 DEF CardSends
  <2>2. tx'[tdh].dd /\ tx'[tdh].buf = tx[tdh].buf
    BY <1>1, <2>1
  <2>3. \A i \in Index : Distance(tdh, i)' = Distance(Succ(tdh), i)
    BY <2>1 DEF Distance
  <2>4. TxLength' = TxLength - 1
    <3>1. Distance(Succ(tdh), tdt) = Distance(tdh, tdt) - 1
      BY <1>1, <2>1, Steps
    <3>2. QED
      BY <2>1, <3>1 DEF TxLength, Distance
  <2>5. \A i \in Index : Distance(tdh, i)' < TxLength'
                         <=> Distance(tdh, i) < TxLength /\ i # tdh
    <3>1. TAKE i \in Index
    <3>2. CASE i = tdh
      <4>1. Distance(Succ(tdh), i) = N - 1
        BY <1>1, <3>2, Steps
      <4>2. QED
        BY <1>1, <2>3, <2>4, <3>2, <4>1
    <3>3. CASE i # tdh
      <4>1. Distance(Succ(tdh), i) = Distance(tdh, i) - 1 /\ Distance(tdh, i) \in 0..N - 1
        BY <1>1, <3>3, Steps
      <4>2. QED
        BY <1>1, <2>3, <2>4, <3>3, <4>1
    <3>4. QED
      BY <3>2, <3>3
  <2>6. QED
    BY <1>1, <2>1, <2>2, <2>4, <2>5 DEF TxInv
<1>7. CASE \/ \E p \in Packets : CardReceives(p)
           \/ net_pci_receive \/ TakePacket \/ ClearStatus \/ WriteRdt \/ UNCHANGED ringsVars
  <2>1. UNCHANGED txvars
    BY <1>7 DEF CardReceives, net_pci_receive, TakePacket, ClearStatus, WriteRdt, ringsVars, txvars
  <2>2. /\ pc' # pc => pc \notin {"fill", "clear", "tail"} /\ pc' \notin {"fill", "clear", "tail"}
        /\ pc' = pc => pkt' = pkt
    BY <1>7 DEF CardReceives, net_pci_receive, TakePacket, ClearStatus, WriteRdt, ringsVars
  <2>3. QED
    BY <2>1, <2>2, TxFrame
<1>8. QED
  BY <1>2, <1>3, <1>4, <1>5, <1>6, <1>7 DEF RingsNext

-----------------------------------------------------------------------------
(* The receive ring.                                                       *)

(* The card fills the descriptor behind the last one, or the only one.     *)
RxCount ==
    RxLength = IF rdh # rdt THEN Distance(rdt, rdh) ELSE IF rxov THEN N ELSE 0

LEMMA RxCounts == RingsTypeOK => RxCount
BY Queues DEF RxCount

LEMMA RxGrows ==
    ASSUME RingsTypeOK, RingsTypeOK', rdh # rdt \/ ~rxov,
           rdh' = Succ(rdh), rdt' = rdt, rxov' = TRUE
    PROVE  RxLength < N /\ Distance(rdt, rdh) = RxLength /\ RxLength' = RxLength + 1
<1>1. rdh \in Index /\ rdt \in Index /\ N \in Nat \ {0}
  BY Ring DEF RingsTypeOK
<1>2. Distance(rdt, rdh) = RxLength /\ RxLength \in 0..N - 1
  BY <1>1, Queues, Steps
<1>3. RxLength' = IF Succ(rdh) # rdt THEN Distance(rdt, Succ(rdh)) ELSE N
  <2>1. RxCount'
    BY RxCounts, PTL
  <2>2. QED
    BY <2>1 DEF RxCount, Distance
<1>4. CASE RxLength < N - 1
  <2>1. Succ(rdh) \in Index
    BY <1>1, Ring
  <2>2. Distance(rdt, Succ(rdh)) = RxLength + 1
    BY <1>1, <1>2, <1>4, Steps
  <2>3. Succ(rdh) # rdt
    BY <1>1, <1>2, <2>1, <2>2, Steps
  <2>4. QED
    BY <1>1, <1>2, <1>3, <2>2, <2>3
<1>5. CASE RxLength = N - 1
  <2>1. Succ(rdh) = rdt
    BY <1>1, <1>2, <1>5, Steps
  <2>2. QED
    BY <1>1, <1>2, <1>3, <1>5, <2>1
<1>6. QED
  BY <1>1, <1>2, <1>4, <1>5

(* The driver gives the first one back.                                    *)
LEMMA RxShrinks ==
    ASSUME RingsTypeOK, RingsTypeOK', RxLength > 0, rdh' = rdh, rdt' = Succ(rdt), rxov' = FALSE
    PROVE  RxLength' = RxLength - 1
<1>1. rdh \in Index /\ rdt \in Index /\ N \in Nat \ {0} /\ Succ(rdt) \in Index
  BY Ring DEF RingsTypeOK
<1>2. RxLength = IF rdh # rdt THEN Distance(rdt, rdh) ELSE N
  BY <1>1, Queues
<1>3. Distance(Succ(rdt), rdh) = RxLength - 1
  BY <1>1, <1>2, Steps
<1>4. RxLength' = IF rdh # Succ(rdt) THEN Distance(Succ(rdt), rdh) ELSE 0
  <2>1. RxCount'
    BY RxCounts, PTL
  <2>2. QED
    BY <2>1 DEF RxCount, Distance
<1>5. QED
  BY <1>1, <1>3, <1>4, Steps

LEMMA RxStepInv ==
    ASSUME RingsTypeOK, RingsTypeOK', RxInv, [RingsNext]_ringsVars
    PROVE  RxInv'
<1>1. /\ RxLength \in 0..N /\ rdh \in Index /\ rdt \in Index /\ N \in Nat \ {0}
      /\ rx \in [Index -> [buf : (Packets \ TooLong) \cup {NoPacket}, dd : BOOLEAN]]
  BY Queues, Ring DEF RingsTypeOK
<1>2. ASSUME NEW p \in Packets, CardReceives(p) PROVE RxInv'
  <2>1. /\ rdh # rdt \/ ~rxov
        /\ rdh' = Succ(rdh) /\ rxov' = TRUE /\ UNCHANGED <<rdt, pc, pkt>>
        /\ rx'[rdh] = [buf |-> p, dd |-> TRUE] /\ \A i \in Index \ {rdh} : rx'[i] = rx[i]
    BY <1>1, <1>2 DEF CardReceives
  <2>2. RxLength < N /\ Distance(rdt, rdh) = RxLength /\ RxLength' = RxLength + 1
    BY <2>1, RxGrows
  <2>3. \A i \in Index : /\ Distance(rdt, i)' = Distance(rdt, i)
                         /\ Distance(rdt, i) \in 0..N - 1
                         /\ Distance(rdt, i) = Distance(rdt, rdh) <=> i = rdh
    <3>1. TAKE i \in Index
    <3>2. Distance(rdt, i) = Distance(rdt, rdh) => i = rdh
      BY <1>1, Steps
    <3>3. QED
      BY <1>1, <2>1, <3>2, Steps DEF Distance
  <2>4. \A i \in Index : Distance(rdt, i)' < RxLength'
                         <=> Distance(rdt, i) < RxLength \/ i = rdh
    BY <1>1, <2>2, <2>3
  <2>5. pc = "rtail" => rdh # rdt
    BY <1>1, <2>2, Steps DEF RxInv
  <2>6. pc \in {"ack", "rtail"} => rdh # rdt
    BY <1>1, <2>2, Steps DEF RxInv
  <2>7. QED
    BY <1>1, <2>1, <2>2, <2>4, <2>5, <2>6 DEF RxInv
<1>3. CASE net_pci_receive
  <2>1. Distance(rdt, rdt) < RxLength
    BY <1>1, <1>3 DEF net_pci_receive, RxInv
  <2>2. RxLength > 0
    BY <1>1, <2>1, Steps
  <2>3. pc = "idle" /\ pc' = "take" /\ UNCHANGED <<rx, rdh, rdt, rxov, pkt>>
    BY <1>3 DEF net_pci_receive, rxvars
  <2>4. QED
    BY <2>2, <2>3 DEF RxInv, RxLength, Distance
<1>4. CASE TakePacket
  BY <1>1, <1>4 DEF TakePacket, rxvars, RxInv, RxLength, Distance
<1>5. CASE ClearStatus
  <2>1. /\ rx'[rdt] = [rx[rdt] EXCEPT !.dd = FALSE]
        /\ \A i \in Index \ {rdt} : rx'[i] = rx[i]
        /\ pc = "ack" /\ pc' = "rtail" /\ UNCHANGED <<rdh, rdt, rxov, pkt>>
    BY <1>1, <1>5 DEF ClearStatus
  <2>2. ~rx'[rdt].dd /\ rx'[rdt].buf = rx[rdt].buf
    BY <1>1, <2>1
  <2>3. RxLength' = RxLength /\ \A i \in Index : Distance(rdt, i)' = Distance(rdt, i)
    BY <2>1 DEF RxLength, Distance
  <2>4. QED
    BY <1>1, <2>1, <2>2, <2>3 DEF RxInv
<1>6. CASE WriteRdt
  <2>1. /\ pc = "rtail" /\ pc' = "idle" /\ rx' = rx
        /\ rdh' = rdh /\ rdt' = Succ(rdt) /\ rxov' = FALSE /\ RxLength > 0
    BY <1>6 DEF WriteRdt, RxInv
  <2>2. RxLength' = RxLength - 1
    BY <2>1, RxShrinks
  <2>3. \A i \in Index : Distance(rdt, i)' = Distance(Succ(rdt), i)
    BY <2>1 DEF Distance
  <2>4. \A i \in Index : Distance(rdt, i)' < RxLength'
                         <=> Distance(rdt, i) < RxLength /\ i # rdt
    <3>1. TAKE i \in Index
    <3>2. CASE i = rdt
      <4>1. Distance(Succ(rdt), i) = N - 1
        BY <1>1, <3>2, Steps
      <4>2. QED
        BY <1>1, <2>2, <2>3, <3>2, <4>1
    <3>3. CASE i # rdt
      <4>1. Distance(Succ(rdt), i) = Distance(rdt, i) - 1 /\ Distance(rdt, i) \in 0..N - 1
        BY <1>1, <3>3, Steps
      <4>2. QED
        BY <1>1, <2>2, <2>3, <3>3, <4>1
    <3>4. QED
      BY <3>2, <3>3
  <2>5. QED
    BY <1>1, <2>1, <2>4 DEF RxInv
<1>7. CASE \/ \E p \in Packets : net_pci_transmit(p)
           \/ FillDescriptor \/ ClearDone \/ WriteTail \/ CardSends \/ UNCHANGED ringsVars
  <2>1. UNCHANGED rxvars
    BY <1>7 DEF net_pci_transmit, FillDescriptor, ClearDone, WriteTail, CardSends, ringsVars,
                rxvars
  <2>2. /\ pc' # pc => pc \notin {"take", "ack", "rtail"} /\ pc' \notin {"take", "ack", "rtail"}
        /\ pc' = pc => pkt' = pkt
    BY <1>7 DEF net_pci_transmit, FillDescriptor, ClearDone, WriteTail, CardSends, ringsVars
  <2>3. QED
    BY <2>1, <2>2 DEF RxInv, rxvars, RxLength, Distance
<1>8. QED
  BY <1>2, <1>3, <1>4, <1>5, <1>6, <1>7 DEF RingsNext

-----------------------------------------------------------------------------
(* Types, with the counts of both rings.                                   *)
LEMMA TypeStep ==
    ASSUME RingInv, [RingsNext]_ringsVars
    PROVE  RingsTypeOK'
<1> USE DEF RingInv
<1>1. rdt \in Index /\ tdt \in Index /\ tdh \in Index /\ rdh \in Index
  BY DEF RingsTypeOK
<1>2. Succ(rdt) \in Index /\ Succ(tdt) \in Index /\ Succ(tdh) \in Index /\ Succ(rdh) \in Index
  BY <1>1, Ring
<1> DEFINE Descriptors == [Index -> [buf : (Packets \ TooLong) \cup {NoPacket}, dd : BOOLEAN]]
<1>3. ASSUME NEW p \in Packets, net_pci_transmit(p) \/ CardReceives(p) PROVE RingsTypeOK'
  <2>1. CASE net_pci_transmit(p)
    BY <2>1 DEF net_pci_transmit, txvars, rxvars, RingsTypeOK
  <2>2. CASE CardReceives(p)
    <3>1. rx' = [rx EXCEPT ![rdh] = [buf |-> p, dd |-> TRUE]] /\ p \notin TooLong
      BY <2>2 DEF CardReceives
    <3>2. rx' \in Descriptors
      BY <3>1 DEF RingsTypeOK
    <3>3. QED
      BY <1>2, <2>2, <3>2 DEF CardReceives, txvars, RingsTypeOK
  <2>3. QED
    BY <1>3, <2>1, <2>2
<1>4. CASE FillDescriptor
  <2>1. tx' = [tx EXCEPT ![tdt].buf = pkt] /\ pkt \in Packets \ TooLong
    BY <1>4 DEF FillDescriptor, TxInv
  <2>2. tx' \in Descriptors
    BY <1>1, <2>1 DEF RingsTypeOK
  <2>3. QED
    BY <1>1, <1>4, <2>2 DEF FillDescriptor, rxvars, RingsTypeOK
<1>5. CASE ClearDone \/ WriteTail \/ CardSends
  <2>1. CASE ClearDone
    <3>1. tx' \in Descriptors
      BY <1>1, <2>1 DEF ClearDone, RingsTypeOK
    <3>2. QED
      BY <1>1, <2>1, <3>1 DEF ClearDone, rxvars, RingsTypeOK
  <2>2. CASE WriteTail
    BY <1>1, <1>2, <2>2 DEF WriteTail, rxvars, RingsTypeOK
  <2>3. CASE CardSends
    <3>1. tx' \in Descriptors
      BY <1>1, <2>3 DEF CardSends, RingsTypeOK
    <3>2. QED
      BY <1>1, <1>2, <2>3, <3>1 DEF CardSends, rxvars, RingsTypeOK
  <2>4. QED
    BY <1>5, <2>1, <2>2, <2>3
<1>6. CASE net_pci_receive \/ ClearStatus \/ WriteRdt
  <2>1. CASE net_pci_receive \/ WriteRdt
    BY <1>1, <1>2, <2>1 DEF net_pci_receive, WriteRdt, txvars, rxvars, RingsTypeOK
  <2>2. CASE ClearStatus
    <3>1. rx' \in Descriptors
      BY <1>1, <2>2 DEF ClearStatus, RingsTypeOK
    <3>2. QED
      BY <1>1, <2>2, <3>1 DEF ClearStatus, txvars, RingsTypeOK
  <2>3. QED
    BY <1>6, <2>1, <2>2
<1>7. CASE TakePacket
  BY <1>1, <1>7 DEF TakePacket, txvars, rxvars, RingsTypeOK
<1>8. CASE UNCHANGED ringsVars
  BY <1>8 DEF ringsVars, RingsTypeOK
<1>9. QED
  BY <1>3, <1>4, <1>5, <1>6, <1>7, <1>8 DEF RingsNext

(* The invariant holds, for a card that is never N packets behind.         *)
LEMMA RingsInvariance == ASSUME Lag < N PROVE RingsSpec => []RingInv
<1>1. RingInv /\ [RingsNext]_ringsVars => RingInv'
  BY TypeStep, TxStepInv, RxStepInv DEF RingInv
<1>2. QED
  BY <1>1, RingsInitInv, PTL DEF RingsSpec

(* Type correctness of the rings.                                          *)
THEOREM RingsTypeCorrect == ASSUME Lag < N PROVE RingsSpec => []RingsTypeOK
<1>1. RingInv => RingsTypeOK
  BY DEF RingInv
<1>2. QED
  BY <1>1, RingsInvariance, PTL

-----------------------------------------------------------------------------
(* Sequences that differ by one element at the end, or at the front.       *)
LEMMA IsAppend ==
    ASSUME NEW S, NEW q \in Seq(S), NEW r \in Seq(S), NEW v \in S, Len(r) = Len(q) + 1,
           \A j \in 1..Len(q) : r[j] = q[j], r[Len(q) + 1] = v
    PROVE  r = Append(q, v)
<1>1. /\ Append(q, v) \in Seq(S) /\ Len(Append(q, v)) = Len(q) + 1 /\ Len(q) \in Nat
      /\ \A j \in 1..Len(q) : Append(q, v)[j] = q[j]
      /\ Append(q, v)[Len(q) + 1] = v
  BY AppendProperties
<1>2. \A j \in 1..Len(r) : r[j] = Append(q, v)[j]
  BY <1>1
<1>3. QED
  BY <1>1, <1>2, SeqEqual

LEMMA IsTail ==
    ASSUME NEW S, NEW q \in Seq(S), NEW r \in Seq(S), q # << >>, Len(r) = Len(q) - 1,
           \A j \in 1..Len(r) : r[j] = q[j + 1]
    PROVE  r = Tail(q)
<1>1. /\ Tail(q) \in Seq(S) /\ Len(Tail(q)) = Len(q) - 1
      /\ \A j \in 1..Len(Tail(q)) : Tail(q)[j] = q[j + 1]
  BY HeadTailProperties
<1>2. QED
  BY <1>1, SeqEqual

Contents == Packets \cup {NoPacket}

(* The queue of the transmit ring, element by element.                     *)
TxShape ==
    /\ TxQueue \in Seq(Contents) /\ Len(TxQueue) = TxLength
    /\ \A j \in 1..TxLength : TxQueue[j] = tx[RingAt(tdh, j - 1)].buf

LEMMA TxShapes == RingsTypeOK => TxShape
<1> SUFFICES ASSUME RingsTypeOK PROVE TxShape
  OBVIOUS
<1>1. TxLength \in 0..N - 1 /\ N \in Nat /\ tdh \in Index
      /\ TxQueue = [j \in 1..TxLength |-> tx[RingAt(tdh, j - 1)].buf]
  BY Queues, Ring DEF RingsTypeOK
<1>2. \A j \in 1..TxLength : tx[RingAt(tdh, j - 1)].buf \in Contents
  <2>1. \A j \in 1..TxLength : RingAt(tdh, j - 1) \in Index
    BY <1>1, Ring
  <2>2. QED
    BY <2>1 DEF RingsTypeOK, Contents
<1>3. TxQueue \in [1..TxLength -> Contents] /\ TxLength \in Nat
  BY <1>1, <1>2
<1>4. QED
  BY <1>1, <1>3 DEF TxShape

(* The same of the receive ring.                                           *)
RxShape ==
    /\ Received \in Seq(Contents) /\ Len(Received) = RxLength
    /\ \A j \in 1..RxLength : Received[j] = rx[RingAt(rdt, j - 1)].buf

LEMMA RxShapes == RingsTypeOK => RxShape
<1> SUFFICES ASSUME RingsTypeOK PROVE RxShape
  OBVIOUS
<1>1. RxLength \in 0..N /\ N \in Nat /\ rdt \in Index
      /\ Received = [j \in 1..RxLength |-> rx[RingAt(rdt, j - 1)].buf]
  BY Queues, Ring DEF RingsTypeOK
<1>2. \A j \in 1..RxLength : rx[RingAt(rdt, j - 1)].buf \in Contents
  <2>1. \A j \in 1..RxLength : RingAt(rdt, j - 1) \in Index
    BY <1>1, Ring
  <2>2. QED
    BY <2>1 DEF RingsTypeOK, Contents
<1>3. Received \in [1..RxLength -> Contents] /\ RxLength \in Nat
  BY <1>1, <1>2
<1>4. QED
  BY <1>1, <1>3 DEF RxShape

(* What the driver has copied out is still the first one of the ring.      *)
RxSame == RxQueue = Received

LEMMA RxQueueIs == RingInv => RxSame
<1> SUFFICES ASSUME RingInv, pc \in {"ack", "rtail"} PROVE RxSame
  BY DEF RxQueue, RxSame
<1>1. RxLength > 0 /\ pkt = rx[rdt].buf /\ rdt \in Index /\ RxLength \in 0..N /\ N \in Nat \ {0}
  BY Queues, Ring DEF RingInv, RxInv, RingsTypeOK
<1>2. RxShape
  BY RxShapes DEF RingInv
<1>3. RingAt(rdt, 0) = rdt
  BY <1>1, Positions
<1>4. Received[1] = pkt
  BY <1>1, <1>2, <1>3 DEF RxShape
<1>5. SubSeq(Received, 1, RxLength) = <<pkt>> \o SubSeq(Received, 2, RxLength)
  <2>1. 1 \in 1..Len(Received) /\ RxLength \in 1..Len(Received) /\ Received \in Seq(Contents)
    BY <1>1, <1>2 DEF RxShape
  <2>2. SubSeq(Received, 1, RxLength) = <<Received[1]>> \o SubSeq(Received, 1 + 1, RxLength)
    BY <2>1, SubSeqRecursiveFirst
  <2>3. 1 + 1 = 2
    OBVIOUS
  <2>4. QED
    BY <1>4, <2>2, <2>3, Zenon
<1>6. SubSeq(Received, 1, RxLength) = Received
  BY <1>2, SubSeqFull DEF RxShape
<1>7. QED
  BY <1>5, <1>6 DEF RxQueue, RxSame

-----------------------------------------------------------------------------
(* WriteTail is the Accept of the transmit queue, CardSends its Deliver.   *)
LEMMA TxQueueStep ==
    ASSUME RingInv, RingInv', [RingsNext]_ringsVars
    PROVE  [TX!QueueNext]_TxQueue
<1> DEFINE Elements == \A j \in 1..TxLength' : TxQueue'[j] = tx'[RingAt(tdh', j - 1)].buf
<1>1. /\ TxLength \in 0..N - 1 /\ tdh \in Index /\ tdt \in Index /\ N \in Nat \ {0}
      /\ tx \in [Index -> [buf : (Packets \ TooLong) \cup {NoPacket}, dd : BOOLEAN]]
  BY Queues, Ring DEF RingInv, RingsTypeOK
<1>2. TxShape
  BY TxShapes DEF RingInv
<1>3. TxQueue' \in Seq(Contents) /\ Len(TxQueue') = TxLength' /\ Elements
  <2>1. TxShape'
    BY TxShapes, PTL DEF RingInv
  <2>2. QED
    BY <2>1 DEF TxShape, RingAt, Contents
<1>4. CASE WriteTail
  <2>1. /\ tdt' = Succ(tdt) /\ tdh' = tdh /\ tx' = tx
        /\ TxLength < N - 1 /\ tx[tdt].buf = pkt /\ pkt \in Packets
    BY <1>4 DEF WriteTail, RingInv, TxInv
  <2>2. TxLength' = TxLength + 1
    <3>1. Distance(tdh, Succ(tdt)) = Distance(tdh, tdt) + 1
      BY <1>1, <2>1, Steps DEF TxLength
    <3>2. QED
      BY <2>1, <3>1 DEF TxLength, Distance
  <2>3. RingAt(tdh, TxLength) = tdt
    BY <1>1, Steps DEF TxLength
  <2>4. TxQueue'[TxLength + 1] = pkt
    <3>1. TxLength + 1 \in 1..TxLength' /\ (TxLength + 1) - 1 = TxLength
      BY <1>1, <2>2
    <3>2. TxQueue'[TxLength + 1] = tx'[RingAt(tdh', (TxLength + 1) - 1)].buf
      BY <1>3, <3>1
    <3>3. QED
      BY <2>1, <2>3, <3>1, <3>2
  <2>5. ASSUME NEW j \in 1..TxLength PROVE TxQueue'[j] = TxQueue[j]
    <3>1. j \in 1..TxLength'
      BY <1>1, <2>2
    <3>2. TxQueue'[j] = tx'[RingAt(tdh', j - 1)].buf
      BY <1>3, <3>1
    <3>3. TxQueue[j] = tx[RingAt(tdh, j - 1)].buf
      BY <1>2 DEF TxShape
    <3>4. QED
      BY <2>1, <3>2, <3>3
  <2>6. TxQueue' = Append(TxQueue, pkt)
    <3>1. pkt \in Contents
      BY <2>1 DEF Contents
    <3>2. QED
      BY <1>2, <1>3, <2>2, <2>4, <2>5, <3>1, IsAppend DEF TxShape
  <2>7. TX!Accept(pkt)
    BY <1>2, <2>1, <2>6 DEF TX!Accept, TxShape
  <2>8. QED
    BY <2>1, <2>7 DEF TX!QueueNext
<1>5. CASE CardSends
  <2>1. /\ tdh # tdt /\ tdh' = Succ(tdh) /\ tdt' = tdt
        /\ \A i \in Index : tx'[i].buf = tx[i].buf
    <3>1. tdh # tdt /\ tdh' = Succ(tdh) /\ tdt' = tdt /\ tx' = [tx EXCEPT ![tdh].dd = TRUE]
      BY <1>5 DEF CardSends
    <3>2. ASSUME NEW i \in Index PROVE tx'[i].buf = tx[i].buf
      <4>1. tx'[i] = IF i = tdh THEN [tx[i] EXCEPT !.dd = TRUE] ELSE tx[i]
        BY <1>1, <3>1
      <4>2. tx[i] \in [buf : (Packets \ TooLong) \cup {NoPacket}, dd : BOOLEAN]
        BY <1>1
      <4>3. QED
        BY <4>1, <4>2
    <3>3. QED
      BY <3>1, <3>2
  <2>2. TxLength' = TxLength - 1 /\ TxLength > 0
    <3>1. Distance(Succ(tdh), tdt) = Distance(tdh, tdt) - 1 /\ Distance(tdh, tdt) # 0
      BY <1>1, <2>1, Steps
    <3>2. QED
      BY <1>1, <2>1, <3>1 DEF TxLength, Distance
  <2>3. ASSUME NEW j \in 1..TxLength' PROVE TxQueue'[j] = TxQueue[j + 1]
    <3>1. j - 1 \in 0..N - 1 /\ j - 1 < N - 1 /\ j + 1 \in 1..TxLength
          /\ (j - 1) + 1 = j /\ (j + 1) - 1 = j /\ j \in 0..N - 1
      BY <1>1, <2>2
    <3>2. RingAt(Succ(tdh), j - 1) = RingAt(tdh, j) /\ RingAt(tdh, j) \in Index
      BY <1>1, <3>1, Positions
    <3>3. TxQueue'[j] = tx'[RingAt(tdh, j)].buf
      BY <1>3, <2>1, <3>2
    <3>4. TxQueue[j + 1] = tx[RingAt(tdh, j)].buf
      BY <1>2, <3>1 DEF TxShape
    <3>5. QED
      BY <2>1, <3>2, <3>3, <3>4
  <2>4. TxQueue # << >>
    BY <1>2, <2>2 DEF TxShape
  <2>5. TxQueue' = Tail(TxQueue)
    BY <1>2, <1>3, <2>2, <2>3, <2>4, IsTail DEF TxShape
  <2>6. QED
    BY <2>4, <2>5 DEF TX!QueueNext, TX!Deliver
<1>6. CASE FillDescriptor \/ ClearDone
  <2>1. UNCHANGED <<tdh, tdt>> /\ TxLength' = TxLength
    BY <1>6 DEF FillDescriptor, ClearDone, TxLength, Distance
  <2>2. ASSUME NEW i \in Index, i # tdt PROVE tx'[i] = tx[i]
    BY <1>1, <1>6, <2>2 DEF FillDescriptor, ClearDone
  <2>3. ASSUME NEW i \in Index, ClearDone PROVE tx'[i].buf = tx[i].buf
    <3>1. tx'[i] = IF i = tdt THEN [tx[i] EXCEPT !.dd = FALSE] ELSE tx[i]
      BY <1>1, <2>3 DEF ClearDone
    <3>2. tx[i] \in [buf : (Packets \ TooLong) \cup {NoPacket}, dd : BOOLEAN]
      BY <1>1
    <3>3. QED
      BY <3>1, <3>2
  <2>4. ASSUME NEW j \in 1..TxLength PROVE TxQueue'[j] = TxQueue[j]
    <3>1. j - 1 \in 0..N - 1 /\ j - 1 < TxLength
      BY <1>1
    <3>2. RingAt(tdh, j - 1) \in Index /\ RingAt(tdh, j - 1) # tdt
      BY <1>1, <3>1, Positions DEF TxLength
    <3>3. TxQueue'[j] = tx'[RingAt(tdh, j - 1)].buf /\ TxQueue[j] = tx[RingAt(tdh, j - 1)].buf
      BY <1>2, <1>3, <2>1 DEF TxShape
    <3>4. QED
      BY <2>2, <3>2, <3>3
  <2>5. TxQueue' = TxQueue
    BY <1>2, <1>3, <2>1, <2>4, SeqEqual DEF TxShape
  <2>6. QED
    BY <2>5
<1>7. CASE \/ \E p \in Packets : net_pci_transmit(p) \/ CardReceives(p)
           \/ net_pci_receive \/ TakePacket \/ ClearStatus \/ WriteRdt \/ UNCHANGED ringsVars
  <2>1. UNCHANGED txvars
    BY <1>7 DEF net_pci_transmit, CardReceives, net_pci_receive, TakePacket, ClearStatus,
                WriteRdt, ringsVars, txvars
  <2>2. QED
    BY <2>1 DEF txvars, TxQueue
<1>8. QED
  BY <1>4, <1>5, <1>6, <1>7 DEF RingsNext

(* CardReceives is the Accept of the receive queue, WriteRdt its Deliver.  *)
LEMMA RxQueueStep ==
    ASSUME RingInv, RingInv', [RingsNext]_ringsVars
    PROVE  [RX!QueueNext]_RxQueue
<1> DEFINE Elements == \A j \in 1..RxLength' : Received'[j] = rx'[RingAt(rdt', j - 1)].buf
<1>1. /\ RxLength \in 0..N /\ rdh \in Index /\ rdt \in Index /\ N \in Nat \ {0}
      /\ rx \in [Index -> [buf : (Packets \ TooLong) \cup {NoPacket}, dd : BOOLEAN]]
  BY Queues, Ring DEF RingInv, RingsTypeOK
<1>2. RxShape /\ RxQueue = Received
  BY RxShapes, RxQueueIs DEF RingInv, RxSame
<1>3. Received' \in Seq(Contents) /\ Len(Received') = RxLength' /\ Elements
  <2>1. RxShape'
    BY RxShapes, PTL DEF RingInv
  <2>2. QED
    BY <2>1 DEF RxShape, RingAt, Contents
<1>4. RxQueue' = Received'
  <2>1. RxSame'
    BY RxQueueIs, PTL
  <2>2. QED
    BY <2>1 DEF RxSame
<1>5. ASSUME NEW p \in Packets, CardReceives(p) PROVE RX!QueueNext
  <2>1. /\ rdh # rdt \/ ~rxov
        /\ rdh' = Succ(rdh) /\ rxov' = TRUE /\ UNCHANGED rdt
        /\ rx'[rdh].buf = p /\ \A i \in Index \ {rdh} : rx'[i] = rx[i]
    BY <1>1, <1>5 DEF CardReceives
  <2>2. RxLength < N /\ Distance(rdt, rdh) = RxLength /\ RxLength' = RxLength + 1
    BY <2>1, RxGrows DEF RingInv
  <2>3. RingAt(rdt, RxLength) = rdh
    BY <1>1, <2>2, Steps
  <2>4. Received'[RxLength + 1] = p
    <3>1. RxLength + 1 \in 1..RxLength' /\ (RxLength + 1) - 1 = RxLength
      BY <1>1, <2>2
    <3>2. Received'[RxLength + 1] = rx'[RingAt(rdt', (RxLength + 1) - 1)].buf
      BY <1>3, <3>1
    <3>3. QED
      BY <2>1, <2>3, <3>1, <3>2
  <2>5. ASSUME NEW j \in 1..RxLength PROVE Received'[j] = Received[j]
    <3>1. j - 1 \in 0..N - 1 /\ j - 1 < RxLength /\ j \in 1..RxLength'
      BY <1>1, <2>2
    <3>2. RingAt(rdt, j - 1) \in Index /\ RingAt(rdt, j - 1) # rdh
      BY <1>1, <2>2, <3>1, Positions
    <3>3. Received'[j] = rx'[RingAt(rdt, j - 1)].buf /\ Received[j] = rx[RingAt(rdt, j - 1)].buf
      BY <1>2, <1>3, <2>1, <3>1 DEF RxShape
    <3>4. QED
      BY <2>1, <3>2, <3>3
  <2>6. Received' = Append(Received, p)
    <3>1. p \in Contents
      BY DEF Contents
    <3>2. QED
      BY <1>2, <1>3, <2>2, <2>4, <2>5, <3>1, IsAppend DEF RxShape
  <2>7. RX!Accept(p)
    BY <1>2, <1>4, <2>2, <2>6 DEF RX!Accept, RxShape
  <2>8. QED
    BY <2>7 DEF RX!QueueNext
<1>6. CASE WriteRdt
  <2>1. /\ rx' = rx /\ rdh' = rdh /\ rdt' = Succ(rdt) /\ rxov' = FALSE /\ RxLength > 0
    BY <1>6 DEF WriteRdt, RingInv, RxInv
  <2>2. RxLength' = RxLength - 1
    BY <2>1, RxShrinks DEF RingInv
  <2>3. ASSUME NEW j \in 1..RxLength' PROVE Received'[j] = Received[j + 1]
    <3>1. j - 1 \in 0..N - 1 /\ j - 1 < N - 1 /\ j + 1 \in 1..RxLength
          /\ (j - 1) + 1 = j /\ (j + 1) - 1 = j
      BY <1>1, <2>2
    <3>2. RingAt(Succ(rdt), j - 1) = RingAt(rdt, j)
      BY <1>1, <3>1, Positions
    <3>3. Received'[j] = rx[RingAt(rdt, j)].buf
      BY <1>3, <2>1, <3>2
    <3>4. Received[j + 1] = rx[RingAt(rdt, j)].buf
      BY <1>2, <3>1 DEF RxShape
    <3>5. QED
      BY <3>3, <3>4
  <2>4. Received # << >>
    BY <1>2, <2>1 DEF RxShape
  <2>5. Received' = Tail(Received)
    BY <1>2, <1>3, <2>2, <2>3, <2>4, IsTail DEF RxShape
  <2>6. RX!Deliver
    BY <1>2, <1>4, <2>4, <2>5 DEF RX!Deliver
  <2>7. QED
    BY <2>6 DEF RX!QueueNext
<1>7. CASE ClearStatus
  <2>1. UNCHANGED <<rdh, rdt, rxov>> /\ RxLength' = RxLength
    BY <1>7 DEF ClearStatus, RxLength
  <2>2. ASSUME NEW i \in Index PROVE rx'[i].buf = rx[i].buf
    <3>1. rx'[i] = IF i = rdt THEN [rx[i] EXCEPT !.dd = FALSE] ELSE rx[i]
      BY <1>1, <1>7 DEF ClearStatus
    <3>2. rx[i] \in [buf : (Packets \ TooLong) \cup {NoPacket}, dd : BOOLEAN]
      BY <1>1
    <3>3. QED
      BY <3>1, <3>2
  <2>3. ASSUME NEW j \in 1..RxLength PROVE Received'[j] = Received[j]
    <3>1. j - 1 \in 0..N - 1
      BY <1>1
    <3>2. RingAt(rdt, j - 1) \in Index
      BY <1>1, <3>1, Positions
    <3>3. Received'[j] = rx'[RingAt(rdt, j - 1)].buf /\ Received[j] = rx[RingAt(rdt, j - 1)].buf
      BY <1>2, <1>3, <2>1 DEF RxShape
    <3>4. QED
      BY <2>2, <3>2, <3>3
  <2>4. Received' = Received
    BY <1>2, <1>3, <2>1, <2>3, SeqEqual DEF RxShape
  <2>5. QED
    BY <1>2, <1>4, <2>4
<1>8. CASE \/ \E p \in Packets : net_pci_transmit(p)
           \/ FillDescriptor \/ ClearDone \/ WriteTail \/ CardSends
           \/ net_pci_receive \/ TakePacket \/ UNCHANGED ringsVars
  <2>1. UNCHANGED rxvars
    BY <1>8 DEF net_pci_transmit, FillDescriptor, ClearDone, WriteTail, CardSends,
                net_pci_receive, TakePacket, ringsVars, rxvars
  <2>2. Received' = Received
    BY <2>1 DEF rxvars, Received, RxLength
  <2>3. QED
    BY <1>2, <1>4, <2>2
<1>9. QED
  BY <1>5, <1>6, <1>7, <1>8 DEF RingsNext

LEMMA QueuesInit == RingsInit => TxQueue = << >> /\ RxQueue = << >>
<1> SUFFICES ASSUME RingsInit PROVE TxQueue = << >> /\ RxQueue = << >>
  OBVIOUS
<1>1. RingInv
  BY RingsInitInv
<1>2. TxShape /\ RxShape /\ RxQueue = Received
  BY <1>1, TxShapes, RxShapes, RxQueueIs DEF RingInv, RxSame
<1>3. TxLength = 0 /\ RxLength = 0
  BY <1>1, Queues, Ring DEF RingInv, RingsInit, TxLength, Distance
<1>4. QED
  BY <1>2, <1>3, EmptySeq DEF TxShape, RxShape

(* Packets leave in the order in which net_pci_transmit accepted them,     *)
(* none lost, repeated or overwritten, in a ring of any size.              *)
THEOREM InOrderOut == ASSUME Lag < N PROVE RingsSpec => TransmitsInOrder
<1>1. RingsInit => TX!QueueInit
  BY QueuesInit DEF TX!QueueInit
<1>2. RingInv /\ RingInv' /\ [RingsNext]_ringsVars => [TX!QueueNext]_TxQueue
  BY TxQueueStep
<1>3. QED
  BY <1>1, <1>2, RingsInvariance, PTL DEF RingsSpec, TransmitsInOrder, TX!QueueSpec

(* Packets come in the order in which the card stored them, and what the   *)
(* driver copies out is the oldest, whatever the card does meanwhile.      *)
THEOREM InOrderIn == ASSUME Lag < N PROVE RingsSpec => ReceivesInOrder
<1>1. RingsInit => RX!QueueInit
  BY QueuesInit DEF RX!QueueInit
<1>2. RingInv /\ RingInv' /\ [RingsNext]_ringsVars => [RX!QueueNext]_RxQueue
  BY RxQueueStep
<1>3. QED
  BY <1>1, <1>2, RingsInvariance, PTL DEF RingsSpec, ReceivesInOrder, RX!QueueSpec
=============================================================================

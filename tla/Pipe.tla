-------------------------------- MODULE Pipe --------------------------------
(***************************************************************************)
(* lib/pipe.c: a ring in a page that the ends of a pipe share, and the     *)
(* test that the other end is closed, which compares two page reference    *)
(* counts while other environments close, dup (lib/fd.c) and fork.  The    *)
(* counts are pp_ref of the pages, here counted from the mappings.         *)
(***************************************************************************)
EXTENDS Naturals, FiniteSets

CONSTANTS
    Envs,
    First,     \* the environment that calls pipe()
    Reader,    \* the environment that reads
    Writer,    \* the environment that writes
    NCpu,
    BufSize,   \* PIPEBUFSIZ
    Lengths,   \* the lengths that read and write are called with
    MaxBytes,  \* bound: bytes written in a behaviour
    None

ASSUME PipeAssumption ==
    /\ IsFiniteSet(Envs)
    /\ First \in Envs /\ Reader \in Envs /\ Writer \in Envs
    /\ NCpu \in Nat \ {0} /\ BufSize \in Nat \ {0} /\ MaxBytes \in Nat
    /\ Lengths \subseteq Nat \ {0} /\ None \notin {"r", "w"}
    /\ None \notin Nat

(* Descriptors: 0 and 1 are what pipe() returns, 2 is where dup puts one.  *)
Slots == 0..2

VARIABLES
    fd,       \* [Envs -> [Slots -> the fd page mapped there, "r", "w" or None]]
    data,     \* [Envs -> the slots whose data page, the pipe, is mapped]
    rpos, wpos, p_buf,
    on,       \* the environments that occupy a CPU
    job       \* [Envs -> where the environment is in its call, and its locals]

ring == <<rpos, wpos, p_buf>>
vars == <<fd, data, rpos, wpos, p_buf, on, job>>

Labels == {"none", "embryo", "idle", "close", "dupdata", "dupfd", "fork",
           "rloop", "rtake", "rinc", "wloop", "wput", "winc", "n", "refs", "nn", "eof"}

Jobs == [pc : Labels,
         slot : Slots,              \* the descriptor being worked on
         new : {2, None},           \* where dup puts its copy
         kid : Envs \cup {None},    \* the child fork makes
         k : 0..6,                  \* the page it maps next
         todo : Nat, got : Nat,     \* n - i and i of the transfer loops
         buf : 0..MaxBytes,         \* the byte the reader has taken
         ret : {"rloop", "wloop", "idle"},   \* the caller of _pipeisclosed
         fdref : Nat \cup {None}, pref : Nat \cup {None},  \* the counts it has read
         ran : BOOLEAN]             \* env_runs is no longer n

TypeOK ==
    /\ fd \in [Envs -> [Slots -> {"r", "w", None}]]
    /\ data \in [Envs -> SUBSET Slots]
    /\ rpos \in 0..MaxBytes /\ wpos \in 0..MaxBytes
    /\ p_buf \in [0..BufSize - 1 -> 0..MaxBytes]
    /\ on \in SUBSET Envs /\ Cardinality(on) <= NCpu
    /\ job \in [Envs -> Jobs]

Place(label) ==
    [pc |-> label, slot |-> 0, new |-> None, kid |-> None, k |-> 0, todo |-> 0, got |-> 0,
     buf |-> 0, ret |-> "idle", fdref |-> None, pref |-> None, ran |-> FALSE]

(* pipe() has returned, and nobody else knows the pipe.                    *)
Init ==
    /\ fd = [e \in Envs |-> [i \in Slots |->
                IF e # First \/ i = 2 THEN None ELSE IF i = 0 THEN "r" ELSE "w"]]
    /\ data = [e \in Envs |-> IF e = First THEN {0, 1} ELSE {}]
    /\ rpos = 0 /\ wpos = 0 /\ p_buf = [j \in 0..BufSize - 1 |-> 0]
    /\ on = {First}
    /\ job = [e \in Envs |-> Place(IF e = First THEN "idle" ELSE "none")]

(* pageref of the page of descriptors of a kind, and of the pipe's page.   *)
FdRef(kind) == Cardinality({x \in Envs \X Slots : fd[x[1]][x[2]] = kind})
PipeRef == Cardinality({x \in Envs \X Slots : x[2] \in data[x[1]]})

At(e, label) == e \in on /\ job[e].pc = label
Goto(e, label) == job' = [job EXCEPT ![e].pc = label]
Return(e) == job' = [job EXCEPT ![e] = Place("idle")]

(* env_run: e gets a CPU, its own again or one that is taken from another. *)
(* The count of runs matters to e while it compares it only.               *)
Schedule(e) ==
    /\ job[e].pc \notin {"none", "embryo"}
    /\ \E gone \in {{}} \cup {{x} : x \in on} :
          on' = (on \ gone) \cup {e} /\ Cardinality(on') <= NCpu
    /\ job' = [job EXCEPT ![e].ran = job[e].pc \in {"refs", "nn"}]
    /\ UNCHANGED <<fd, data, ring>>

-----------------------------------------------------------------------------
(* close, dup and fork, one system call per step.                          *)

(* devpipe_close unmaps the descriptor's page, then the pipe's.            *)
close(e, i) ==
    /\ At(e, "idle") /\ fd[e][i] # None
    /\ fd' = [fd EXCEPT ![e][i] = None]
    /\ job' = [job EXCEPT ![e].slot = i, ![e].pc = "close"]
    /\ UNCHANGED <<data, ring, on>>

(* Faulty: the pipe's page stays mapped.                                   *)
Faulty_CloseData(e) ==
    /\ At(e, "close")
    /\ IF job[e].new = None THEN Return(e) ELSE Goto(e, "dupdata")
    /\ UNCHANGED <<data, fd, ring, on>>

CloseData(e) ==
    /\ At(e, "close")
    /\ data' = [data EXCEPT ![e] = @ \ {IF job[e].new = None THEN job[e].slot ELSE job[e].new}]
    /\ IF job[e].new = None THEN Return(e) ELSE Goto(e, "dupdata")
    /\ UNCHANGED <<fd, ring, on>>

(* dup closes what was at the new place first.                             *)
dup(e, i) ==
    /\ At(e, "idle") /\ i # 2 /\ fd[e][i] # None
    /\ fd' = [fd EXCEPT ![e][2] = None]
    /\ job' = [job EXCEPT ![e].slot = i, ![e].new = 2,
                          ![e].pc = IF fd[e][2] # None THEN "close" ELSE "dupdata"]
    /\ UNCHANGED <<data, ring, on>>

DupData(e) ==
    /\ At(e, "dupdata")
    /\ data' = [data EXCEPT ![e] = @ \cup {job[e].new}]
    /\ Goto(e, "dupfd")
    /\ UNCHANGED <<fd, ring, on>>

DupFd(e) ==
    /\ At(e, "dupfd")
    /\ fd' = [fd EXCEPT ![e][job[e].new] = fd[e][job[e].slot]]
    /\ Return(e)
    /\ UNCHANGED <<data, ring, on>>

fork(e) ==
    /\ At(e, "idle")
    /\ \E c \in Envs :
          /\ job[c].pc = "none"
          /\ job' = [job EXCEPT ![e].pc = "fork", ![e].kid = c, ![c].pc = "embryo"]
    /\ UNCHANGED <<fd, data, ring, on>>

(* fork walks addresses upwards: the descriptors' pages (FDTABLE) all come *)
(* before the data pages.                                                  *)
ForkPage(e) ==
    /\ At(e, "fork") /\ job[e].k < 6
    /\ LET c == job[e].kid
           k == job[e].k
       IN  IF k < 3
           THEN fd' = [fd EXCEPT ![c][k] = fd[e][k]] /\ data' = data
           ELSE data' = [data EXCEPT ![c] = @ \cup ({k - 3} \cap data[e])] /\ fd' = fd
    /\ job' = [job EXCEPT ![e].k = @ + 1]
    /\ UNCHANGED <<ring, on>>

ForkEnd(e) ==
    /\ At(e, "fork") /\ job[e].k = 6
    /\ job' = [job EXCEPT ![e] = Place("idle"), ![job[e].kid] = Place("idle")]
    /\ UNCHANGED <<fd, data, ring, on>>

-----------------------------------------------------------------------------
(* _pipeisclosed, called by e's read or write or by itself.                *)

pipeisclosed(e, i) ==
    /\ At(e, "idle") /\ fd[e][i] # None
    /\ job' = [job EXCEPT ![e].slot = i, ![e].pc = "n"]
    /\ UNCHANGED <<fd, data, ring, on>>

ReadRuns(e) ==
    /\ At(e, "n")
    /\ job' = [job EXCEPT ![e].ran = FALSE, ![e].pc = "refs"]
    /\ UNCHANGED <<fd, data, ring, on>>

(* C leaves open which operand of == is evaluated first.                   *)
ReadRef(e) ==
    /\ At(e, "refs")
    /\ \/ /\ job[e].fdref = None
          /\ job' = [job EXCEPT ![e].fdref = FdRef(fd[e][job[e].slot]),
                                ![e].pc = IF job[e].pref = None THEN "refs" ELSE "nn"]
       \/ /\ job[e].pref = None
          /\ job' = [job EXCEPT ![e].pref = PipeRef,
                                ![e].pc = IF job[e].fdref = None THEN "refs" ELSE "nn"]
    /\ UNCHANGED <<fd, data, ring, on>>

(* Faulty: env_runs is not looked at.                                      *)
Faulty_Verdict(e) ==
    /\ At(e, "nn")
    /\ \/ /\ job[e].fdref = job[e].pref /\ Goto(e, "eof")
       \/ /\ job[e].fdref # job[e].pref
          /\ job' = [job EXCEPT ![e].fdref = None, ![e].pref = None, ![e].pc = job[e].ret]
    /\ UNCHANGED <<fd, data, ring, on>>

Verdict(e) ==
    /\ At(e, "nn")
    /\ \/ /\ ~job[e].ran /\ job[e].fdref = job[e].pref /\ Goto(e, "eof")
       \/ /\ ~job[e].ran /\ job[e].fdref # job[e].pref
          /\ IF job[e].ret = "idle" THEN Return(e)
             ELSE job' = [job EXCEPT ![e].fdref = None, ![e].pref = None, ![e].pc = job[e].ret]
       \/ /\ job[e].ran
          /\ job' = [job EXCEPT ![e].fdref = None, ![e].pref = None, ![e].pc = "n"]
    /\ UNCHANGED <<fd, data, ring, on>>

(* The caller returns 0, or 1 from pipeisclosed.                           *)
Eof(e) == At(e, "eof") /\ Return(e) /\ UNCHANGED <<fd, data, ring, on>>

-----------------------------------------------------------------------------
(* devpipe_read and devpipe_write.                                         *)

Call(e, i, n, label) ==
    /\ At(e, "idle")
    /\ job' = [job EXCEPT ![e].slot = i, ![e].todo = n, ![e].ret = label, ![e].pc = label]
    /\ UNCHANGED <<fd, data, ring, on>>

devpipe_read(e, i) == e = Reader /\ fd[e][i] = "r" /\ \E n \in Lengths : Call(e, i, n, "rloop")
devpipe_write(e, i) ==
    /\ e = Writer /\ fd[e][i] = "w"
    /\ \E n \in Lengths : wpos + n <= MaxBytes /\ Call(e, i, n, "wloop")

(* An empty pipe gives what was read so far, or, at the first byte, asks   *)
(* whether there are writers.                                              *)
ReadLoop(e) ==
    /\ At(e, "rloop")
    /\ \/ (job[e].todo = 0 \/ (rpos = wpos /\ job[e].got > 0)) /\ Return(e)
       \/ job[e].todo > 0 /\ rpos = wpos /\ job[e].got = 0 /\ Goto(e, "n")
       \/ job[e].todo > 0 /\ rpos # wpos /\ Goto(e, "rtake")
    /\ UNCHANGED <<fd, data, ring, on>>

Transferred(e, label) ==
    job' = [job EXCEPT ![e].todo = @ - 1, ![e].got = @ + 1, ![e].buf = 0, ![e].pc = label]

(* Faulty: rpos is incremented before the byte is taken.                   *)
Faulty_ReadTake(e) ==
    /\ At(e, "rtake")
    /\ rpos' = rpos + 1
    /\ job' = [job EXCEPT ![e].buf = p_buf[rpos' % BufSize], ![e].pc = "rinc"]
    /\ UNCHANGED <<fd, data, wpos, p_buf, on>>

ReadTake(e) ==
    /\ At(e, "rtake")
    /\ job' = [job EXCEPT ![e].buf = p_buf[rpos % BufSize], ![e].pc = "rinc"]
    /\ UNCHANGED <<fd, data, ring, on>>

ReadInc(e) ==
    /\ At(e, "rinc")
    /\ rpos' = rpos + 1
    /\ Transferred(e, "rloop")
    /\ UNCHANGED <<fd, data, wpos, p_buf, on>>

WriteLoop(e) ==
    /\ At(e, "wloop")
    /\ \/ job[e].todo = 0 /\ Return(e)
       \/ job[e].todo > 0 /\ wpos >= rpos + BufSize /\ Goto(e, "n")
       \/ job[e].todo > 0 /\ wpos < rpos + BufSize /\ Goto(e, "wput")
    /\ UNCHANGED <<fd, data, ring, on>>

(* The byte written is its position in the stream.                         *)
WritePut(e) ==
    /\ At(e, "wput")
    /\ p_buf' = [p_buf EXCEPT ![wpos % BufSize] = wpos]
    /\ Goto(e, "winc")
    /\ UNCHANGED <<fd, data, rpos, wpos, on>>

WriteInc(e) ==
    /\ At(e, "winc")
    /\ wpos' = wpos + 1
    /\ Transferred(e, "wloop")
    /\ UNCHANGED <<fd, data, rpos, p_buf, on>>

Next ==
    \E e \in Envs :
       \/ Schedule(e)
       \/ \E i \in Slots : \/ close(e, i) \/ dup(e, i) \/ pipeisclosed(e, i)
                           \/ devpipe_read(e, i) \/ devpipe_write(e, i)
       \/ CloseData(e) \/ DupData(e) \/ DupFd(e)
       \/ fork(e) \/ ForkPage(e) \/ ForkEnd(e)
       \/ ReadRuns(e) \/ ReadRef(e) \/ Verdict(e) \/ Eof(e)
       \/ ReadLoop(e) \/ ReadTake(e) \/ ReadInc(e)
       \/ WriteLoop(e) \/ WritePut(e) \/ WriteInc(e)

Spec == Init /\ [][Next]_vars

-----------------------------------------------------------------------------
OtherEnd(kind) == IF kind = "r" THEN "w" ELSE "r"
Held(kind) == \E e \in Envs, i \in Slots : fd[e][i] = kind

(* _pipeisclosed says yes only if nobody has the other end.                *)
NoFalseEof == \A e \in Envs : job[e].pc = "eof" => ~Held(OtherEnd(fd[e][job[e].slot]))

(* And it will say yes: when the other end is closed everywhere and nobody *)
(* is in the middle of close, dup or fork, the counts are equal.           *)
ClosedIsSeen ==
    \A kind \in {"r", "w"} :
        /\ Held(kind) /\ ~Held(OtherEnd(kind))
        /\ \A e \in Envs : job[e].pc \notin {"close", "dupdata", "dupfd", "fork"}
        => FdRef(kind) = PipeRef

(* The ring holds the bytes of the stream that are written and not read,   *)
(* each at its place; the writer overwrites none of them, and the reader   *)
(* takes the one that is next.                                             *)
GetsStream ==
    /\ rpos <= wpos /\ wpos <= rpos + BufSize
    /\ \A j \in rpos..wpos - 1 : p_buf[j % BufSize] = j
    /\ job[Reader].pc = "rinc" => job[Reader].buf = rpos
=============================================================================

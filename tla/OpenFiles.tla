----------------------------- MODULE OpenFiles -----------------------------
(* What open, read, seek, dup, close and fork promise: a descriptor stands *)
(* for an open file with one offset, which those share that got it by dup  *)
(* or fork and nobody else has.  FsServer and its clients implement it.    *)
EXTENDS Naturals

CONSTANTS Envs, Fds, Files, Opens, FileLen, None

VARIABLES
    table,      \* [Envs -> [Fds -> Opens or None]]
    open        \* [Opens -> [file, offset], or None when nobody has it]

fileVars == <<table, open>>

Users(t, o) == {x \in Envs \X Fds : t[x[1]][x[2]] = o}

Init == table = [e \in Envs |-> [fd \in Fds |-> None]] /\ open = [o \in Opens |-> None]

(* What nobody refers to any more is gone.                                 *)
Keep(t, op) == [o \in Opens |-> IF Users(t, o) = {} THEN None ELSE op[o]]

Open(e, fd, o, f) ==
    /\ table[e][fd] = None /\ Users(table, o) = {}
    /\ table' = [table EXCEPT ![e][fd] = o]
    /\ open' = [open EXCEPT ![o] = [file |-> f, offset |-> 0]]

(* A read delivers the part at the offset and moves it on.                 *)
Read(e, fd) ==
    /\ table[e][fd] # None /\ open[table[e][fd]].offset < FileLen
    /\ open' = [open EXCEPT ![table[e][fd]].offset = @ + 1]
    /\ UNCHANGED table

Seek(e, fd, n) ==
    /\ table[e][fd] # None
    /\ open' = [open EXCEPT ![table[e][fd]].offset = n]
    /\ UNCHANGED table

Retable(t) == table' = t /\ open' = Keep(t, open)

Close(e, fd) == Retable([table EXCEPT ![e][fd] = None])
Dup(e, fd, new) == Retable([table EXCEPT ![e][new] = table[e][fd]])
Fork(e, c) == (\A fd \in Fds : table[c][fd] = None) /\ Retable([table EXCEPT ![c] = table[e]])
Die(e) == Retable([table EXCEPT ![e] = [fd \in Fds |-> None]])

Next ==
    \E e \in Envs :
        \/ Die(e) \/ \E c \in Envs \ {e} : Fork(e, c)
        \/ \E fd \in Fds :
              \/ Read(e, fd) \/ Close(e, fd)
              \/ \E n \in 0..FileLen : Seek(e, fd, n)
              \/ \E new \in Fds : Dup(e, fd, new)
              \/ \E o \in Opens, f \in Files : Open(e, fd, o, f)

Spec == Init /\ [][Next]_fileVars
=============================================================================

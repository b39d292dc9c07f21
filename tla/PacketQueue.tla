---------------------------- MODULE PacketQueue ----------------------------
(* A bounded queue that loses, repeats and reorders nothing it has         *)
(* accepted.  E1000 implements it twice, for packets sent and for packets  *)
(* received, and so does every mailbox of the network server (NetServ).    *)
EXTENDS Sequences, Naturals

CONSTANTS Packets, Capacity

VARIABLE queue

Accept(p) == Len(queue) < Capacity /\ queue' = Append(queue, p)
Deliver == queue # << >> /\ queue' = Tail(queue)

QueueInit == queue = << >>
QueueNext == Deliver \/ \E p \in Packets : Accept(p)

QueueSpec == QueueInit /\ [][QueueNext]_queue
=============================================================================

------------------------------- MODULE E1000 -------------------------------
(***************************************************************************)
(* kern/e1000.c: the transmit and receive descriptor rings that the driver *)
(* shares with the network card.  The driver's calls are atomic towards    *)
(* each other (kernel lock) but not towards the card, so each is a step    *)
(* per access to a descriptor or a register.  The card is external: it     *)
(* moves between head and tail, and keeps, as QEMU's card does, a flag     *)
(* that tells a full receive ring from an empty one.                       *)
(***************************************************************************)
EXTENDS Naturals, Sequences, FiniteSets

CONSTANTS
    N,         \* descriptors of a ring: PCI_TXDESC and PCI_RXDESC
    Packets,
    TooLong,   \* the packets longer than TX_PKT_SIZE
    Lag,       \* assumed of the card: the packets it may be behind in sending
    NoPacket

ASSUME E1000Assumption ==
    N \in Nat \ {0} /\ TooLong \subseteq Packets /\ Lag \in 1..N /\ NoPacket \notin Packets

Index == 0..N - 1
Succ(i) == (i + 1) % N

VARIABLES
    tx,        \* [Index -> [buf, dd]]: the packet in the buffer, E1000_TXD_STAT_DD
    tdh, tdt,  \* the card's head and tail registers
    rx, rdh, rdt, rxov,
    pc,        \* where the CPU that holds the kernel lock is
    pkt        \* the packet of the call

ringsVars == <<tx, tdh, tdt, rx, rdh, rdt, rxov, pc, pkt>>
txvars == <<tx, tdh, tdt>>
rxvars == <<rx, rdh, rdt, rxov>>

RingsTypeOK ==
    /\ tx \in [Index -> [buf : (Packets \ TooLong) \cup {NoPacket}, dd : BOOLEAN]]
    /\ rx \in [Index -> [buf : (Packets \ TooLong) \cup {NoPacket}, dd : BOOLEAN]]
    /\ tdh \in Index /\ tdt \in Index /\ rdh \in Index /\ rdt \in Index
    /\ rxov \in BOOLEAN
    /\ pc \in {"idle", "fill", "clear", "tail", "take", "ack", "rtail"}
    /\ pkt \in Packets \cup {NoPacket}

(* net_pci_attach: every transmit descriptor is done, no receive one is.   *)
RingsInit ==
    /\ tx = [i \in Index |-> [buf |-> NoPacket, dd |-> TRUE]]
    /\ rx = [i \in Index |-> [buf |-> NoPacket, dd |-> FALSE]]
    /\ tdh = 0 /\ tdt = 0 /\ rdh = 0 /\ rdt = 0 /\ rxov = FALSE
    /\ pc = "idle" /\ pkt = NoPacket

(* The packets given to the card and not sent.                             *)
Outstanding == Cardinality({i \in Index : ~tx[i].dd})

-----------------------------------------------------------------------------
(* net_pci_transmit.                                                       *)

(* Faulty: the DD bit is not looked at.                                    *)
Faulty_net_pci_transmit(p) ==
    /\ pc = "idle" /\ p \notin TooLong
    /\ pkt' = p
    /\ pc' = "fill"
    /\ UNCHANGED <<txvars, rxvars>>

(* A packet too long, or a ring whose tail is not done, gets -1 and        *)
(* changes nothing.                                                        *)
net_pci_transmit(p) ==
    /\ pc = "idle" /\ p \notin TooLong /\ tx[tdt].dd /\ Outstanding < Lag
    /\ pkt' = p
    /\ pc' = "fill"
    /\ UNCHANGED <<txvars, rxvars>>

FillDescriptor ==
    /\ pc = "fill"
    /\ tx' = [tx EXCEPT ![tdt].buf = pkt]
    /\ pc' = "clear"
    /\ UNCHANGED <<tdh, tdt, rxvars, pkt>>

ClearDone ==
    /\ pc = "clear"
    /\ tx' = [tx EXCEPT ![tdt].dd = FALSE]
    /\ pc' = "tail"
    /\ UNCHANGED <<tdh, tdt, rxvars, pkt>>

WriteTail ==
    /\ pc = "tail"
    /\ tdt' = Succ(tdt)
    /\ pc' = "idle" /\ pkt' = NoPacket
    /\ UNCHANGED <<tx, tdh, rxvars>>

(* The card sends what is between head and tail.                           *)
CardSends ==
    /\ tdh # tdt
    /\ tx' = [tx EXCEPT ![tdh].dd = TRUE]
    /\ tdh' = Succ(tdh)
    /\ UNCHANGED <<tdt, rxvars, pc, pkt>>

-----------------------------------------------------------------------------
(* net_pci_receive.                                                        *)

(* The card stores a packet at the head unless the ring is full, and drops *)
(* it then.                                                                *)
CardReceives(p) ==
    /\ p \notin TooLong /\ (rdh # rdt \/ ~rxov)
    /\ rx' = [rx EXCEPT ![rdh] = [buf |-> p, dd |-> TRUE]]
    /\ rdh' = Succ(rdh)
    /\ rxov' = TRUE
    /\ UNCHANGED <<txvars, rdt, pc, pkt>>

(* Faulty: the DD bit is not looked at.                                    *)
Faulty_net_pci_receive ==
    /\ pc = "idle"
    /\ pc' = "take"
    /\ UNCHANGED <<txvars, rxvars, pkt>>

net_pci_receive ==
    /\ pc = "idle" /\ rx[rdt].dd
    /\ pc' = "take"
    /\ UNCHANGED <<txvars, rxvars, pkt>>

TakePacket ==
    /\ pc = "take"
    /\ pkt' = rx[rdt].buf
    /\ pc' = "ack"
    /\ UNCHANGED <<txvars, rxvars>>

ClearStatus ==
    /\ pc = "ack"
    /\ rx' = [rx EXCEPT ![rdt].dd = FALSE]
    /\ pc' = "rtail"
    /\ UNCHANGED <<txvars, rdh, rdt, rxov, pkt>>

(* Writing the tail register also clears the card's overflow flag.         *)
WriteRdt ==
    /\ pc = "rtail"
    /\ rdt' = Succ(rdt) /\ rxov' = FALSE
    /\ pc' = "idle" /\ pkt' = NoPacket
    /\ UNCHANGED <<txvars, rx, rdh>>

RingsNext ==
    \/ \E p \in Packets : net_pci_transmit(p) \/ CardReceives(p)
    \/ FillDescriptor \/ ClearDone \/ WriteTail \/ CardSends
    \/ net_pci_receive \/ TakePacket \/ ClearStatus \/ WriteRdt

RingsSpec == RingsInit /\ [][RingsNext]_ringsVars /\ WF_ringsVars(CardSends) /\ WF_ringsVars(FillDescriptor)
             /\ WF_ringsVars(ClearDone) /\ WF_ringsVars(WriteTail)

-----------------------------------------------------------------------------
(* The packets that are the card's, and those that wait for the driver.    *)
TxQueue == [j \in 1..(tdt + N - tdh) % N |-> tx[(tdh + j - 1) % N].buf]
RxLength == IF rdh # rdt THEN (rdh + N - rdt) % N ELSE IF rxov THEN N ELSE 0
Received == [j \in 1..RxLength |-> rx[(rdt + j - 1) % N].buf]

(* What the driver has copied out stands for the oldest packet, until the  *)
(* tail is moved past it.                                                  *)
RxQueue == IF pc \in {"ack", "rtail"} THEN <<pkt>> \o SubSeq(Received, 2, RxLength)
           ELSE Received

(* Both rings implement PacketQueue: packets are neither lost once taken   *)
(* in, nor overwritten, nor exchanged, and what the driver copies out is   *)
(* the oldest, whatever the card stores meanwhile (e1000.c:115, :139).     *)
TX == INSTANCE PacketQueue WITH queue <- TxQueue, Capacity <- N - 1
RX == INSTANCE PacketQueue WITH queue <- RxQueue, Capacity <- N
TransmitsInOrder == TX!QueueSpec
ReceivesInOrder == RX!QueueSpec

(* A packet that net_pci_transmit accepts is sent.  A ring whose head and  *)
(* tail meet is an empty one for the card: it is why Lag has to be below   *)
(* N, for the driver fills the ring up and the card would see nothing.     *)
AllSent == \A i \in Index : ~tx[i].dd ~> tx[i].dd
=============================================================================

-------------------------- MODULE NetServ_proofs --------------------------
(***************************************************************************)
(* Proofs about the network server, for any number of clients, peers and   *)
(* slots and mailboxes of any size.                                        *)
(*                                                                         *)
(* NetInv says of each thread where it may be, with which request, that    *)
(* one which has not yielded since it left the places where threads wait   *)
(* is cur_tc, and that any other waits for the semaphore its place asks    *)
(* for (ThreadsOk); that a new thread runs before the main thread does     *)
(* again (LineOk); that the semaphores of a mailbox count its messages and *)
(* its free slots (BoxesOk); and it accounts for every slot (SlotsOk) and  *)
(* every call (CallsOk).  The accounts need each other: a request starts   *)
(* in a slot without a thread.                                             *)
(***************************************************************************)
EXTENDS NetServ, FiniteSetTheorems, SequenceTheorems, TLAPS

(* How many messages a mailbox holds.                                      *)
Ring == [head : {EmptyRing} \cup 0..MBOXSLOTS - 1, nextq : 0..MBOXSLOTS - 1,
         msg : [0..MBOXSLOTS - 1 -> Packets \cup Clients \cup {None}]]

Fill(b) == IF b.head = EmptyRing THEN 0
           ELSE IF b.nextq > b.head THEN b.nextq - b.head
           ELSE b.nextq + MBOXSLOTS - b.head

(* What the server is sent.                                                *)
Requests == {Message("call", c, None) : c \in Clients}
                \cup {Message("recv", c, None) : c \in Peers}
                \cup {Message("input", c, p) : c \in Peers, p \in Packets}

Messages == Requests \cup {Message("timer", "timer", None)}
                \cup {Message(r, "stranger", None) : r \in {"timer", "call"}}

(* Where the thread of a request, the main thread and tcpip_thread may be. *)
Places(a) ==
    IF a = None THEN {"none"}
    ELSE IF a.reqno = "input" THEN {"start", "input", "fin", "err", "done", "failed", "ack", "end"}
    ELSE {"start", "post", "posted", "answer", "end"}
             \cup (IF a.reqno = "recv" THEN {"fetch"} ELSE {})

MainPlaces == {"flush", "recv", "timer", "panic"}
TcpipPlaces == {"fetch", "send", "do", "tmr", "done", "err", "failed"}

(* Between two yields a thread is the one that executes.                   *)
Unyielding == {"recv", "panic", "answer", "end", "ack", "send", "do", "tmr", "done", "failed"}

Queued(t, q) ==
    t \in Threads /\ q \in Seq(Threads) /\ {main, tcpip} \subseteq {t} \cup ToSet(q)

ThreadOk(t) ==
    /\ t = main => pc[t] \in MainPlaces
    /\ t = tcpip => /\ pc[t] \in TcpipPlaces
                    /\ pc[t] \in {"done", "err", "failed"} => args[t].whom \in Clients
    /\ t \in Slots => args[t] \in Requests \cup {None} /\ pc[t] \in Places(args[t])
    /\ tc_wait_addr[t] # None => pc[t] \in Waiting /\ tc_wait_addr[t] = Wanted(t)
    /\ pc[t] \in Waiting /\ t # cur_tc => tc_wait_addr[t] = Wanted(t)
    /\ pc[t] \in Unyielding => t = cur_tc

ThreadsOk ==
    /\ Queued(cur_tc, thread_queue)
    /\ pc = [t \in Threads |-> pc[t]] /\ args = [t \in Threads |-> args[t]]
    /\ tc_wait_addr = [t \in Threads |-> tc_wait_addr[t]]
    /\ \A t \in Threads : ThreadOk(t)

(* Who runs, and who then: main is there once, and a new thread before it. *)
Line == <<cur_tc>> \o thread_queue
Once(q) == \A j, k \in 1..Len(q) : q[j] = main /\ q[k] = main => j = k
Ahead(s, q) == \E j \in 1..Len(q) : q[j] = s /\ \A k \in 1..j : q[k] # main

LineOk == Once(Line) /\ \A s \in Slots : pc[s] = "start" => Ahead(s, Line)

ServerOk ==
    /\ buse \in [Slots -> BOOLEAN]
    /\ pc[main] \in {"flush", "panic"} => va = None
    /\ pc[main] \in {"recv", "timer"} => va \in Slots
    /\ msg \in Messages \cup {None} /\ (msg # None => pc[main] = "recv")
    /\ client \in [Clients -> {"idle", "sent", "recv"}]
    /\ bad \in 0..MaxBad

BoxesOk ==
    /\ mboxes \in [Boxes -> Ring]
    /\ sems \in [Semaphores -> [counter : Int, waiters : {0, 1}]]
    /\ \A m \in Boxes : /\ sems[queued_msg(m)].counter = Fill(mboxes[m])
                        /\ sems[free_msg(m)].counter = MBOXSLOTS - Fill(mboxes[m])

(* A message that will leave its slot in use for ever.                     *)
Strange == IF msg # None /\ msg.whom = "stranger" /\ msg.reqno # "timer" THEN 1 ELSE 0

SlotsOk ==
    /\ \A s \in Live : buse[s] /\ s # va
    /\ va # None => buse[va]
    /\ Cardinality(Hanging) + Strange <= bad

(* The requests of client c that it will get an answer to.                 *)
Serving(c) == {s \in Slots : /\ args[s] # None /\ args[s].whom = c
                             /\ args[s].reqno # "input" /\ pc[s] # "end"}
Called(c) == IF msg # None /\ msg.whom = c /\ msg.reqno # "input" THEN 1 ELSE 0

CallsOk ==
    \A c \in Clients : Cardinality(Serving(c)) + Called(c) = IF client[c] = "idle" THEN 0 ELSE 1

NetInv == ThreadsOk /\ LineOk /\ ServerOk /\ BoxesOk /\ SlotsOk /\ CallsOk

-----------------------------------------------------------------------------
LEMMA NetFacts ==
    /\ Slots \subseteq Threads /\ main \in Threads /\ tcpip \in Threads /\ main # tcpip
    /\ main \notin Slots /\ tcpip \notin Slots /\ None \notin Threads /\ None \notin Slots
    /\ Boxes = Clients \cup {"tcpip"} /\ Peers \subseteq Clients
    /\ "tcpip" \notin Clients /\ "timer" \notin Clients /\ "stranger" \notin Clients
    /\ MBOXSLOTS \in Nat /\ MBOXSLOTS > 0 /\ QUEUE_SIZE \in Nat /\ QUEUE_SIZE > 0
    /\ MaxBad \in Nat /\ Streams \subseteq Clients
BY NetAssumption, MboxAssumption DEF Slots, Threads, main, tcpip

LEMMA MessageFacts ==
    ASSUME NEW r, NEW w, NEW p
    PROVE  /\ Message(r, w, p).reqno = r /\ Message(r, w, p).whom = w /\ Message(r, w, p).pkt = p
BY DEF Message

LEMMA RequestFacts ==
    ASSUME NEW a \in Requests
    PROVE  /\ a # None /\ a.reqno \in {"call", "recv", "input"} /\ a.whom \in Clients
           /\ a.whom # "stranger" /\ a.whom # "timer"
           /\ a.reqno # "call" => a.whom \in Peers
           /\ a.reqno = "input" => a.pkt \in Packets
BY NetAssumption DEF Requests, Message

LEMMA TailSet ==
    ASSUME NEW S, NEW q \in Seq(S), q # << >>
    PROVE  /\ Head(q) \in S /\ Tail(q) \in Seq(S)
           /\ ToSet(q) \subseteq {Head(q)} \cup ToSet(Tail(q))
<1>1. Head(q) \in S /\ Tail(q) \in Seq(S)
  OBVIOUS
<1>2. ASSUME NEW x \in ToSet(q) PROVE x = Head(q) \/ x \in ToSet(Tail(q))
  <2>1. PICK k \in 1..Len(q) : x = q[k]
    BY DEF ToSet
  <2>2. CASE k = 1
    BY <2>1, <2>2
  <2>3. CASE k # 1
    <3>1. k - 1 \in 1..Len(Tail(q)) /\ Tail(q)[k - 1] = q[k]
      BY <2>3
    <3>2. DOMAIN Tail(q) = 1..Len(Tail(q))
      BY <1>1
    <3>3. x = Tail(q)[k - 1] /\ k - 1 \in DOMAIN Tail(q)
      BY <2>1, <3>1, <3>2
    <3> QED
      BY <3>3, Zenon DEF ToSet
  <2> QED
    BY <2>2, <2>3
<1> QED
  BY <1>1, <1>2

LEMMA AppendSet ==
    ASSUME NEW S, NEW q \in Seq(S), NEW x \in S
    PROVE  Append(q, x) \in Seq(S) /\ ToSet(q) \cup {x} \subseteq ToSet(Append(q, x))
<1>1. Append(q, x) \in Seq(S) /\ Len(Append(q, x)) = Len(q) + 1 /\ Append(q, x)[Len(q) + 1] = x
  OBVIOUS
<1>2. ASSUME NEW y \in ToSet(q) PROVE y \in ToSet(Append(q, x))
  <2>1. PICK k \in 1..Len(q) : y = q[k]
    BY DEF ToSet
  <2>2. k \in 1..Len(Append(q, x)) /\ Append(q, x)[k] = y
    BY <2>1
  <2> QED
    BY <1>1, <2>2 DEF ToSet
<1>3. x \in ToSet(Append(q, x))
  <2>1. Len(q) + 1 \in 1..Len(Append(q, x))
    BY <1>1
  <2> QED
    BY <1>1, <2>1 DEF ToSet
<1> QED
  BY <1>1, <1>2, <1>3

(* The next thread, when cur_tc goes to the end of the queue, when a new   *)
(* one goes before it, and when cur_tc halts.                              *)
LEMMA QueuedOn ==
    ASSUME NEW t, NEW q, Queued(t, q)
    PROVE  /\ Queued(Head(q), Append(Tail(q), t))
           /\ \A n \in Threads : Queued(Head(q), Append(Tail(q), n) \o <<t>>)
           /\ t \notin {main, tcpip} => Queued(Head(q), Tail(q))
<1>1. /\ t \in Threads /\ q \in Seq(Threads) /\ {main, tcpip} \subseteq {t} \cup ToSet(q)
      /\ main # tcpip
  BY NetFacts DEF Queued
<1>2. q # << >>
  <2> SUFFICES ASSUME q = << >> PROVE FALSE
    OBVIOUS
  <2>1. ToSet(q) = {}
    BY DEF ToSet
  <2> QED
    BY <1>1, <2>1
<1>3. /\ Head(q) \in Threads /\ Tail(q) \in Seq(Threads)
      /\ ToSet(q) \subseteq {Head(q)} \cup ToSet(Tail(q))
  BY <1>1, <1>2, TailSet
<1>4. /\ Append(Tail(q), t) \in Seq(Threads)
      /\ ToSet(Tail(q)) \cup {t} \subseteq ToSet(Append(Tail(q), t))
  BY <1>1, <1>3, AppendSet
<1>5. ASSUME NEW n \in Threads PROVE Queued(Head(q), Append(Tail(q), n) \o <<t>>)
  <2>1. /\ Append(Tail(q), n) \in Seq(Threads)
        /\ ToSet(Tail(q)) \subseteq ToSet(Append(Tail(q), n))
    BY <1>3, AppendSet
  <2>2. Append(Tail(q), n) \o <<t>> = Append(Append(Tail(q), n), t)
    BY <1>1, <2>1, AppendProperties, ConcatProperties
  <2>3. /\ Append(Append(Tail(q), n), t) \in Seq(Threads)
        /\ ToSet(Append(Tail(q), n)) \cup {t} \subseteq ToSet(Append(Append(Tail(q), n), t))
    BY <1>1, <2>1, AppendSet
  <2> QED
    BY <1>1, <1>3, <2>1, <2>2, <2>3 DEF Queued
<1> QED
  BY <1>1, <1>3, <1>4, <1>5 DEF Queued

-----------------------------------------------------------------------------
LEMMA SameWanted ==
    ASSUME NEW t, pc'[t] = pc[t], args'[t] = args[t]
    PROVE  Wanted(t)' = Wanted(t)
BY DEF Wanted

(* The threads of M have moved, the others not.                            *)
LEMMA Moved ==
    ASSUME ThreadsOk, NEW M, Queued(cur_tc', thread_queue'),
           pc' = [t \in Threads |-> pc'[t]], args' = [t \in Threads |-> args'[t]],
           tc_wait_addr' = [t \in Threads |-> tc_wait_addr'[t]],
           \A t \in Threads \cap M : ThreadOk(t)',
           \A t \in Threads \ M : pc'[t] = pc[t] /\ args'[t] = args[t] /\ tc_wait_addr'[t] = tc_wait_addr[t],
           cur_tc' = cur_tc \/ cur_tc \in M
    PROVE  ThreadsOk'
<1>1. ASSUME NEW t \in Threads \ M PROVE ThreadOk(t)'
  <2>1. ThreadOk(t) /\ Wanted(t)' = Wanted(t)
    BY SameWanted DEF ThreadsOk
  <2>2. t = cur_tc => t = cur_tc'
    OBVIOUS
  <2> QED
    BY <1>1, <2>1, <2>2 DEF ThreadOk
<1> QED
  BY <1>1 DEF ThreadsOk

LEMMA Frames ==
    ASSUME ThreadsOk, NEW t \in Threads, NEW l
    PROVE  /\ cur_tc \in Threads /\ ThreadOk(cur_tc)
           /\ [pc EXCEPT ![t] = l] = [u \in Threads |-> IF u = t THEN l ELSE pc[u]]
           /\ [args EXCEPT ![t] = l] = [u \in Threads |-> IF u = t THEN l ELSE args[u]]
           /\ [tc_wait_addr EXCEPT ![t] = l]
              = [u \in Threads |-> IF u = t THEN l ELSE tc_wait_addr[u]]
<1>1. /\ pc = [u \in Threads |-> pc[u]] /\ args = [u \in Threads |-> args[u]]
      /\ tc_wait_addr = [u \in Threads |-> tc_wait_addr[u]]
      /\ Queued(cur_tc, thread_queue)
  BY DEF ThreadsOk
<1>2. cur_tc \in Threads /\ ThreadOk(cur_tc)
  BY <1>1 DEF Queued, ThreadsOk
<1> QED
  BY <1>1, <1>2

(* The thread that executes goes on to l with the request a.               *)
LEMMA Steps ==
    ASSUME ThreadsOk, NEW l, NEW a, UNCHANGED <<thread_queue, cur_tc>>,
           pc' = [pc EXCEPT ![cur_tc] = l], args' = [args EXCEPT ![cur_tc] = a],
           tc_wait_addr' = [tc_wait_addr EXCEPT ![cur_tc] = None],
           cur_tc = main => l \in MainPlaces,
           cur_tc = tcpip => l \in TcpipPlaces /\ (l \in {"done", "err", "failed"} => a.whom \in Clients),
           cur_tc \in Slots => a \in Requests \cup {None} /\ l \in Places(a)
    PROVE  ThreadsOk'
<1>1. /\ cur_tc \in Threads
      /\ pc' = [u \in Threads |-> IF u = cur_tc THEN l ELSE pc[u]]
      /\ args' = [u \in Threads |-> IF u = cur_tc THEN a ELSE args[u]]
      /\ tc_wait_addr' = [u \in Threads |-> IF u = cur_tc THEN None ELSE tc_wait_addr[u]]
  BY Frames DEF ThreadsOk, Queued
<1>2. /\ pc' = [t \in Threads |-> pc'[t]] /\ args' = [t \in Threads |-> args'[t]]
      /\ tc_wait_addr' = [t \in Threads |-> tc_wait_addr'[t]]
      /\ \A t \in Threads : /\ pc'[t] = IF t = cur_tc THEN l ELSE pc[t]
                            /\ args'[t] = IF t = cur_tc THEN a ELSE args[t]
                            /\ tc_wait_addr'[t] = IF t = cur_tc THEN None ELSE tc_wait_addr[t]
  BY <1>1
<1>3. Queued(cur_tc', thread_queue')
  BY DEF ThreadsOk
<1>4. PICK n \in Threads : n = cur_tc
  BY <1>1
<1>5. ThreadOk(n)'
  BY <1>1, <1>2, <1>4 DEF ThreadOk
<1>6. \A t \in Threads \ {n} : pc'[t] = pc[t] /\ args'[t] = args[t] /\ tc_wait_addr'[t] = tc_wait_addr[t]
  BY <1>2, <1>4
<1>7. \A t \in Threads \cap {n} : ThreadOk(t)'
  BY <1>5
<1> QED
  BY <1>2, <1>3, <1>6, <1>7, Moved

(* The same, without a new request or an end of a wait.                    *)
LEMMA GoesOn ==
    ASSUME ThreadsOk, NEW l, pc' = [pc EXCEPT ![cur_tc] = l], args' = args,
           UNCHANGED <<thread_queue, cur_tc, tc_wait_addr>>, tc_wait_addr[cur_tc] = None,
           cur_tc = main => l \in MainPlaces,
           cur_tc = tcpip => /\ l \in TcpipPlaces
                             /\ l \in {"done", "err", "failed"} => args[cur_tc].whom \in Clients,
           cur_tc \in Slots => l \in Places(args[cur_tc])
    PROVE  ThreadsOk'
<1>1. cur_tc \in Threads /\ ThreadOk(cur_tc)
  BY Frames DEF ThreadsOk, Queued
<1>2. args' = [args EXCEPT ![cur_tc] = args[cur_tc]]
  BY <1>1 DEF ThreadsOk
<1>3. tc_wait_addr' = [tc_wait_addr EXCEPT ![cur_tc] = None]
  BY <1>1 DEF ThreadsOk
<1>4. cur_tc \in Slots => args[cur_tc] \in Requests \cup {None}
  BY <1>1 DEF ThreadOk
<1> QED
  BY <1>2, <1>3, <1>4, Steps

(* The thread that executes gives way, and nothing else happens to it but  *)
(* that it may begin to wait.                                              *)
LEMMA GivesWay ==
    ASSUME ThreadsOk, thread_yield, pc' = pc, args' = args, pc[cur_tc] \notin Unyielding,
           tc_wait_addr' = [t \in Threads |-> tc_wait_addr'[t]],
           \A t \in Threads : tc_wait_addr'[t] # tc_wait_addr[t] =>
                                  pc[t] \in Waiting /\ tc_wait_addr'[t] = Wanted(t),
           pc[cur_tc] \in Waiting => tc_wait_addr'[cur_tc] = Wanted(cur_tc)
    PROVE  ThreadsOk'
<1>1. Queued(cur_tc', thread_queue')
  BY QueuedOn DEF ThreadsOk, thread_yield
<1>2. ASSUME NEW t \in Threads PROVE ThreadOk(t)'
  <2>1. ThreadOk(t) /\ Wanted(t)' = Wanted(t)
    BY SameWanted DEF ThreadsOk
  <2>2. pc[t] \in Unyielding => t # cur_tc
    OBVIOUS
  <2>3. pc[t] \notin Unyielding
    BY <2>1, <2>2 DEF ThreadOk
  <2>4. pc[t] \in Waiting => tc_wait_addr'[t] = Wanted(t)
    <3>1. CASE t = cur_tc
      BY <3>1
    <3>2. CASE t # cur_tc
      BY <2>1, <3>2 DEF ThreadOk
    <3> QED
      BY <3>1, <3>2
  <2>5. tc_wait_addr'[t] # None => pc[t] \in Waiting
    BY <2>1 DEF ThreadOk
  <2> QED
    BY <2>1, <2>3, <2>4, <2>5 DEF ThreadOk
<1> QED
  BY <1>1, <1>2 DEF ThreadsOk

LEMMA ThreadsSame ==
    ASSUME ThreadsOk, UNCHANGED <<thread_queue, cur_tc, tc_wait_addr, pc, args>>
    PROVE  ThreadsOk'
BY DEF ThreadsOk, ThreadOk, Wanted

(* Who runs is cur_tc, and does not wait if it is at none of the places    *)
(* where threads wait.                                                     *)
LEMMA Running ==
    ASSUME ThreadsOk
    PROVE  /\ cur_tc \in Threads
           /\ pc[cur_tc] \notin Waiting => tc_wait_addr[cur_tc] = None
           /\ cur_tc = main => pc[cur_tc] \notin Waiting
BY DEF ThreadsOk, ThreadOk, Queued, Waiting, MainPlaces

LEMMA MainThreads ==
    ASSUME ThreadsOk, ServerOk, SlotsOk, Main
    PROVE  ThreadsOk'
<1>1. ThreadOk(main) /\ main \in Threads /\ main \notin Slots /\ main # tcpip
  BY NetFacts DEF ThreadsOk
<1>2. CASE Flush
  <2>1. pc[cur_tc] = "flush" /\ thread_yield /\ UNCHANGED <<pc, args, tc_wait_addr>>
    BY <1>2 DEF Flush, Runs
  <2>2. tc_wait_addr' = [t \in Threads |-> tc_wait_addr'[t]]
    BY <2>1 DEF ThreadsOk
  <2> QED
    BY <2>1, <2>2, GivesWay DEF Unyielding, Waiting
<1>3. CASE Block \/ Overflow \/ TimerAnswered \/ Invalid
  <2>1. /\ cur_tc = main /\ args' = args /\ UNCHANGED <<thread_queue, cur_tc, tc_wait_addr>>
        /\ \E l \in MainPlaces : pc' = [pc EXCEPT ![main] = l]
    BY <1>3 DEF Block, Overflow, Overflows, TimerAnswered, Invalid, AboutToBlock, Received, Runs,
                sysVars, threadVars, MainPlaces
  <2>2. tc_wait_addr[cur_tc] = None
    BY <2>1, Running
  <2> QED
    BY <1>1, <2>1, <2>2, GoesOn
<1>4. CASE TimerRequest
  <2>1. /\ cur_tc = main /\ args' = args /\ tc_wait_addr' = tc_wait_addr /\ thread_yield
        /\ pc' = [pc EXCEPT ![main] = "timer"]
    BY <1>4 DEF TimerRequest, Received, Runs
  <2>2. tc_wait_addr[main] = None
    BY <2>1, Running
  <2>3. /\ pc' = [t \in Threads |-> pc'[t]] /\ args' = [t \in Threads |-> args'[t]]
        /\ tc_wait_addr' = [t \in Threads |-> tc_wait_addr'[t]]
        /\ pc'[main] = "timer" /\ \A t \in Threads \ {main} : pc'[t] = pc[t]
    BY <1>1, <2>1 DEF ThreadsOk
  <2>4. ThreadOk(main)'
    BY <1>1, <2>1, <2>2, <2>3 DEF ThreadOk, Unyielding, Waiting, MainPlaces
  <2>5. Queued(cur_tc', thread_queue')
    BY <2>1, QueuedOn DEF ThreadsOk, thread_yield
  <2>6. \A t \in Threads \cap {main} : ThreadOk(t)'
    BY <2>4
  <2>7. cur_tc \in {main}
    BY <2>1
  <2>8. \A t \in Threads \ {main} : pc'[t] = pc[t] /\ args'[t] = args[t] /\ tc_wait_addr'[t] = tc_wait_addr[t]
    BY <2>1, <2>3
  <2> QED
    BY <2>3, <2>5, <2>6, <2>7, <2>8, Moved
<1>5. CASE Request
  <2>1. /\ cur_tc = main /\ pc[main] = "recv" /\ msg # None /\ msg.whom # "stranger"
        /\ msg.reqno \in {"call", "recv", "input"}
        /\ args' = [args EXCEPT ![va] = msg] /\ CreateAndYield(va)
        /\ pc' = [pc EXCEPT ![va] = "start", ![main] = "flush"]
        /\ tc_wait_addr' = tc_wait_addr
    BY <1>5 DEF Request, ForThread, Received, Runs
  <2>2. va \in Slots /\ va \in Threads /\ va # main /\ va # tcpip /\ msg \in Messages
    BY <2>1, NetFacts DEF ServerOk
  <2>3. msg \in Requests
    <3>1. msg # Message("timer", "timer", None)
      BY <2>1, MessageFacts
    <3>2. \A r \in {"timer", "call"} : msg # Message(r, "stranger", None)
      BY <2>1, MessageFacts
    <3> QED
      BY <2>2, <3>1, <3>2 DEF Messages
  <2>4. "start" \in Places(msg) /\ "start" \notin Unyielding /\ "start" \notin Waiting
    BY <2>1 DEF Places, Unyielding, Waiting
  <2>5. /\ pc' = [t \in Threads |-> pc'[t]] /\ args' = [t \in Threads |-> args'[t]]
        /\ tc_wait_addr' = [t \in Threads |-> tc_wait_addr'[t]]
        /\ pc'[va] = "start" /\ pc'[main] = "flush" /\ args'[va] = msg
        /\ \A t \in Threads \ {main, va} : pc'[t] = pc[t] /\ args'[t] = args[t]
    BY <1>1, <2>1, <2>2 DEF ThreadsOk
  <2>6. tc_wait_addr[main] = None
    BY <2>1, Running
  <2>7. ThreadOk(main)'
    BY <1>1, <2>1, <2>5, <2>6 DEF ThreadOk, Unyielding, Waiting, MainPlaces
  <2>8. PICK n \in Slots : n = va
    BY <2>2
  <2>9. ThreadOk(n)'
    <3>1. ThreadOk(n) /\ n \in Threads /\ n # main /\ n # tcpip /\ n # cur_tc
      BY <2>1, <2>2, <2>8 DEF ThreadsOk
    <3>2. tc_wait_addr[n] = None
      BY <2>2, <2>8, <3>1 DEF SlotsOk, Live, ThreadOk, Waiting
    <3>3. /\ pc'[n] = "start" /\ args'[n] = msg /\ tc_wait_addr'[n] = None
          /\ "start" \in Places(args'[n]) /\ args'[n] \in Requests
      BY <2>1, <2>3, <2>4, <2>5, <2>8, <3>2
    <3> QED
      BY <2>4, <3>1, <3>3 DEF ThreadOk
  <2>10. Queued(cur_tc', thread_queue')
    BY <2>1, <2>2, QueuedOn DEF ThreadsOk, CreateAndYield
  <2>11. /\ \A t \in Threads \cap {main, n} : ThreadOk(t)'
         /\ cur_tc \in {main, n}
    BY <2>1, <2>7, <2>9
  <2>12. \A t \in Threads \ {main, n} :
            pc'[t] = pc[t] /\ args'[t] = args[t] /\ tc_wait_addr'[t] = tc_wait_addr[t]
    BY <2>1, <2>5, <2>8
  <2> QED
    BY <2>5, <2>10, <2>11, <2>12, Moved
<1> QED
  BY <1>2, <1>3, <1>4, <1>5 DEF Main

(* The semaphores that a thread waits for, takes from and gives to.        *)
LEMMA WaitsThreads ==
    ASSUME ThreadsOk, Waits \/ Timeout
    PROVE  ThreadsOk'
<1>1. cur_tc \in Threads /\ ThreadOk(cur_tc)
  BY Frames DEF ThreadsOk, Queued
<1>2. CASE Waits /\ pc[cur_tc] \in Waiting /\ SemWait(Wanted(cur_tc))
  <2> DEFINE s == Wanted(cur_tc)
  <2>1. /\ tc_wait_addr' = [tc_wait_addr EXCEPT ![cur_tc] = s]
        /\ thread_yield /\ pc' = pc /\ args' = args
    BY <1>2 DEF Waits, SemWait, WaitAt, rest
  <2>2. tc_wait_addr' = [u \in Threads |-> IF u = cur_tc THEN s ELSE tc_wait_addr[u]]
    BY <1>1, <2>1, Frames
  <2>3. pc[cur_tc] \notin Unyielding
    BY <1>2 DEF Waiting, Unyielding
  <2>4. /\ tc_wait_addr' = [u \in Threads |-> tc_wait_addr'[u]] /\ tc_wait_addr'[cur_tc] = s
        /\ \A t \in Threads : tc_wait_addr'[t] # tc_wait_addr[t] => t = cur_tc
    BY <1>1, <2>2
  <2> QED
    BY <1>2, <2>1, <2>3, <2>4, GivesWay
<1>3. CASE Waits /\ StillWaits
  <2>1. /\ tc_wait_addr[cur_tc] # None /\ tc_wait_addr' = tc_wait_addr
        /\ thread_yield /\ pc' = pc /\ args' = args
    BY <1>3 DEF Waits, StillWaits, WaitOn, rest
  <2>2. pc[cur_tc] \notin Unyielding /\ tc_wait_addr[cur_tc] = Wanted(cur_tc)
    BY <1>1, <2>1 DEF ThreadOk, Waiting, Unyielding
  <2>3. tc_wait_addr' = [u \in Threads |-> tc_wait_addr'[u]]
    BY <2>1 DEF ThreadsOk
  <2> QED
    BY <2>1, <2>2, <2>3, GivesWay
<1>4. CASE Waits /\ Resumes(FALSE)
  <2>1. /\ tc_wait_addr' = [tc_wait_addr EXCEPT ![cur_tc] = None]
        /\ UNCHANGED <<thread_queue, cur_tc>> /\ pc' = pc /\ args' = args
    BY <1>4 DEF Waits, Resumes, WaitEnds, rest
  <2>2. /\ pc' = [pc EXCEPT ![cur_tc] = pc[cur_tc]]
        /\ args' = [args EXCEPT ![cur_tc] = args[cur_tc]]
    BY <1>1, <2>1 DEF ThreadsOk
  <2>3. /\ cur_tc = main => pc[cur_tc] \in MainPlaces
        /\ cur_tc = tcpip => /\ pc[cur_tc] \in TcpipPlaces
                             /\ pc[cur_tc] \in {"done", "err", "failed"} => args[cur_tc].whom \in Clients
        /\ cur_tc \in Slots =>
             args[cur_tc] \in Requests \cup {None} /\ pc[cur_tc] \in Places(args[cur_tc])
    BY <1>1 DEF ThreadOk
  <2> QED
    BY <2>1, <2>2, <2>3, Steps
<1>5. CASE Timeout
  <2>1. /\ tc_wait_addr' = [tc_wait_addr EXCEPT ![cur_tc] = None]
        /\ UNCHANGED <<thread_queue, cur_tc>> /\ cur_tc = tcpip
    BY <1>5 DEF Timeout, Resumes, WaitEnds
  <2>2. CASE Goes(tcpip, {"fetch", "tmr"}) /\ args' = args
    <3>1. PICK l \in {"fetch", "tmr"} : pc' = [pc EXCEPT ![cur_tc] = l]
      BY <2>1, <2>2 DEF Goes
    <3>2. args' = [args EXCEPT ![cur_tc] = args[cur_tc]]
      BY <1>1, <2>2 DEF ThreadsOk
    <3> QED
      BY <2>1, <3>1, <3>2, Steps, NetFacts DEF TcpipPlaces
  <2>3. ASSUME NEW c \in Streams, args' = [args EXCEPT ![tcpip] = Work(c)],
               Goes(tcpip, Effects(c) \cap {"done", "err"})
        PROVE  ThreadsOk'
    <3>1. PICK l \in {"done", "err"} : pc' = [pc EXCEPT ![cur_tc] = l]
      BY <2>1, <2>3 DEF Goes
    <3>2. args' = [args EXCEPT ![cur_tc] = Work(c)] /\ Work(c).whom \in Clients
      BY <2>1, <2>3, MessageFacts, NetFacts DEF Work
    <3> QED
      BY <2>1, <3>1, <3>2, Steps, NetFacts DEF TcpipPlaces
  <2> QED
    BY <1>5, <2>2, <2>3 DEF Timeout
<1> QED
  BY <1>2, <1>3, <1>4, <1>5 DEF Waits

(* What the thread that executes finds, when it does not wait.             *)
LEMMA AtWork ==
    ASSUME ThreadsOk, NEW s \in Slots, cur_tc = s
    PROVE  /\ cur_tc # main /\ cur_tc # tcpip /\ args[s] \in Requests \cup {None}
           /\ pc[s] # "none" => args[s] \in Requests
           /\ pc[s] \in {"fetch", "post", "posted", "answer"} => args[s].reqno \in {"call", "recv"}
           /\ pc[s] = "fetch" => args[s].reqno = "recv"
           /\ pc[s] \in {"input", "fin", "err", "done", "failed", "ack"} => args[s].reqno = "input"
<1>1. ThreadOk(s) /\ s # main /\ s # tcpip
  BY NetFacts DEF ThreadsOk
<1>2. args[s] \in Requests \cup {None} /\ pc[s] \in Places(args[s])
  BY <1>1 DEF ThreadOk
<1>3. CASE args[s] = None
  BY <1>1, <1>2, <1>3 DEF Places
<1>4. CASE args[s] \in Requests
  BY <1>1, <1>2, <1>4, RequestFacts DEF Places
<1> QED
  BY <1>2, <1>3, <1>4

(* The steps of the thread in slot s before its answer is given.           *)
Serves(s) ==
    \/ serve_thread(s) \/ PostCall(s) \/ CallCompleted(s) \/ FetchPacket(s)
    \/ InputPacket(s) \/ EndOfStream(s)

(* Where they begin and lead to.                                           *)
LEMMA ServesGoes ==
    ASSUME ThreadsOk, NEW s \in Slots, Serves(s)
    PROVE  /\ cur_tc = s /\ UNCHANGED <<thread_queue, cur_tc, tc_wait_addr, rest>>
           /\ pc[s] # "none" /\ pc[s] # "end" /\ tc_wait_addr[s] = None
           /\ \E l \in Places(args[s]) \ {"none", "start"} :
                 /\ pc' = [pc EXCEPT ![s] = l]
                 /\ l = "end" => args[s].reqno = "input"
<1>1. cur_tc = s /\ UNCHANGED <<thread_queue, cur_tc, tc_wait_addr, rest>>
  BY DEF Serves, serve_thread, PostCall, CallCompleted, FetchPacket, InputPacket, EndOfStream,
         Runs, sysVars, threadVars, sys_mbox_trypost, sys_arch_mbox_fetch
<1>2. pc[s] \in {"start", "post", "posted", "fetch", "input", "fin"}
  BY DEF Serves, serve_thread, PostCall, CallCompleted, FetchPacket, InputPacket, EndOfStream, Runs
<1>3. tc_wait_addr[s] = None
  <2>1. CASE serve_thread(s)
    BY <1>1, <2>1, Running DEF serve_thread, Runs, Waiting
  <2> QED
    BY <1>1, <2>1 DEF Serves, PostCall, CallCompleted, FetchPacket, InputPacket, EndOfStream,
           CanTake, sys_mbox_trypost, sys_arch_mbox_fetch
<1>4. /\ args[s] \in Requests /\ args[s] # None /\ args[s].reqno \in {"call", "recv", "input"}
      /\ pc[s] \in {"fetch", "post", "posted"} => args[s].reqno \in {"call", "recv"}
      /\ pc[s] \in {"input", "fin"} => args[s].reqno = "input"
  BY <1>1, <1>2, AtWork, RequestFacts
<1>5. CASE args[s].reqno = "input"
  <2>1. \E l \in {"ack", "end", "input", "fin", "err", "done"} : pc' = [pc EXCEPT ![s] = l]
    BY <1>2, <1>4, <1>5
       DEF Serves, serve_thread, PostCall, CallCompleted, FetchPacket, InputPacket, EndOfStream,
           Runs, Goes, Effects
  <2>2. {"ack", "end", "input", "fin", "err", "done"} \subseteq Places(args[s]) \ {"none", "start"}
    BY <1>4, <1>5 DEF Places
  <2> QED
    BY <1>1, <1>2, <1>3, <1>5, <2>1, <2>2
<1>6. CASE args[s].reqno # "input"
  <2>1. \E l \in {"post", "posted", "answer"} \cup (IF args[s].reqno = "recv" THEN {"fetch"} ELSE {}) :
            pc' = [pc EXCEPT ![s] = l]
    BY <1>2, <1>4, <1>6
       DEF Serves, serve_thread, PostCall, CallCompleted, FetchPacket, InputPacket, EndOfStream,
           Runs, Goes
  <2>2. {"post", "posted", "answer"} \cup (IF args[s].reqno = "recv" THEN {"fetch"} ELSE {})
          \subseteq Places(args[s]) \ {"none", "start", "end"}
    BY <1>4, <1>6 DEF Places
  <2> QED
    BY <1>1, <1>2, <1>3, <2>1, <2>2
<1> QED
  BY <1>5, <1>6

LEMMA SlotThreads ==
    ASSUME ThreadsOk, NEW s \in Slots, Serves(s) \/ Answer(s)
    PROVE  ThreadsOk'
<1>1. CASE Serves(s)
  <2>1. /\ cur_tc = s /\ args' = args /\ UNCHANGED <<thread_queue, cur_tc, tc_wait_addr>>
        /\ tc_wait_addr[cur_tc] = None
    BY <1>1, ServesGoes DEF rest
  <2>2. PICK l \in Places(args[s]) : pc' = [pc EXCEPT ![s] = l]
    BY <1>1, ServesGoes
  <2>3. cur_tc # main /\ cur_tc # tcpip
    BY <2>1, NetFacts
  <2> QED
    BY <2>1, <2>2, <2>3, GoesOn
<1>2. CASE Answer(s)
  <2>1. /\ cur_tc = s /\ args' = args /\ UNCHANGED <<thread_queue, cur_tc, tc_wait_addr>>
        /\ pc[s] = "answer" /\ pc' = [pc EXCEPT ![s] = "end"]
    BY <1>2 DEF Answer, Runs, sysVars, threadVars
  <2>2. tc_wait_addr[cur_tc] = None
    BY <2>1, Running DEF Waiting
  <2>3. args[s] # None /\ cur_tc # main /\ cur_tc # tcpip
    BY <2>1, AtWork, RequestFacts
  <2>4. "end" \in Places(args[s])
    BY <2>3 DEF Places
  <2> QED
    BY <2>1, <2>2, <2>3, <2>4, GoesOn
<1> QED
  BY <1>1, <1>2

LEMMA TcpipThreads ==
    ASSUME ThreadsOk, TakeCall \/ PerformCall
    PROVE  ThreadsOk'
<1>1. /\ cur_tc = tcpip /\ UNCHANGED <<thread_queue, cur_tc, tc_wait_addr>>
      /\ tc_wait_addr[cur_tc] = None
  <2>1. cur_tc = tcpip /\ UNCHANGED <<thread_queue, cur_tc, tc_wait_addr>>
    BY DEF TakeCall, PerformCall, Runs, sys_arch_mbox_fetch, Completes, sysVars, threadVars
  <2>2. CASE TakeCall
    BY <2>1, <2>2 DEF TakeCall, sys_arch_mbox_fetch, CanTake
  <2>3. CASE PerformCall
    BY <2>1, <2>3, Running DEF PerformCall, Runs, Waiting
  <2> QED
    BY <2>1, <2>2, <2>3
<1>2. cur_tc \in Threads /\ cur_tc # main /\ cur_tc \notin Slots
  BY <1>1, NetFacts
<1>3. tc_wait_addr' = [tc_wait_addr EXCEPT ![cur_tc] = None]
  BY <1>1, <1>2 DEF ThreadsOk
<1>4. /\ \E a : args' = [args EXCEPT ![cur_tc] = a]
      /\ \E l \in {"fetch", "send", "do"} : pc' = [pc EXCEPT ![cur_tc] = l]
  BY <1>1, Zenon DEF TakeCall, PerformCall, Goes
<1>5. PICK a : args' = [args EXCEPT ![cur_tc] = a]
  BY <1>4
<1>6. PICK l \in {"fetch", "send", "do"} : pc' = [pc EXCEPT ![cur_tc] = l]
  BY <1>4
<1>7. l \in TcpipPlaces /\ l \notin {"done", "err", "failed"}
  BY DEF TcpipPlaces
<1> QED
  BY <1>1, <1>2, <1>3, <1>5, <1>6, <1>7, Steps

(* The callbacks of a connection: err_tcp and the end of a begun call.     *)
Callback == err_tcp \/ CallFails \/ CallEnds

LEMMA CallbackGoes ==
    ASSUME ThreadsOk, Callback
    PROVE  /\ UNCHANGED <<thread_queue, cur_tc, tc_wait_addr, buse, va, msg, envs>>
           /\ pc[cur_tc] \in {"err", "failed", "done"} /\ tc_wait_addr[cur_tc] = None
           /\ args[cur_tc].whom \in Clients
           /\ \E l \in {"fetch", "end", "failed", "input", "fin", "ack"} :
                 /\ pc' = [pc EXCEPT ![cur_tc] = l]
                 /\ args' = IF l = "fetch" THEN [args EXCEPT ![cur_tc] = None] ELSE args
                 /\ \/ cur_tc = tcpip /\ l \in {"fetch", "failed"}
                    \/ /\ cur_tc \in Slots /\ args[cur_tc] \in Requests
                       /\ args[cur_tc].reqno = "input" /\ l # "fetch"
<1>1. /\ UNCHANGED <<thread_queue, cur_tc, tc_wait_addr, buse, va, msg, envs>>
      /\ pc[cur_tc] \in {"err", "failed", "done"}
  BY DEF Callback, err_tcp, CallFails, CallEnds, Completes, Returns, sys_mbox_trypost
<1>2. tc_wait_addr[cur_tc] = None
  <2>1. CASE err_tcp
    BY <2>1 DEF err_tcp, sys_mbox_trypost, CanTake
  <2>2. CASE CallFails \/ CallEnds
    BY <2>2, Running DEF CallFails, CallEnds, Waiting
  <2> QED
    BY <2>1, <2>2 DEF Callback
<1>3. cur_tc \in Threads /\ ThreadOk(cur_tc) /\ cur_tc # main
  BY <1>1, Frames DEF ThreadsOk, Queued, ThreadOk, MainPlaces
<1>4. CASE cur_tc = tcpip
  <2>1. args[cur_tc].whom \in Clients
    BY <1>1, <1>3, <1>4 DEF ThreadOk
  <2>2. \E l \in {"fetch", "failed"} : Returns(l)
    BY <1>4 DEF Callback, err_tcp, CallFails, CallEnds, Over
  <2> QED
    BY <1>1, <1>2, <1>4, <2>1, <2>2 DEF Returns
<1>5. CASE cur_tc \in Slots
  <2>1. args[cur_tc] \in Requests /\ args[cur_tc].reqno = "input" /\ args[cur_tc].whom \in Clients
        /\ cur_tc # tcpip
    BY <1>1, <1>5, AtWork, RequestFacts
  <2>2. \E l \in {"end", "failed", "input", "fin", "ack"} : Returns(l)
    BY <2>1 DEF Callback, err_tcp, CallFails, CallEnds, Over
  <2> QED
    BY <1>1, <1>2, <1>5, <2>1, <2>2 DEF Returns
<1> QED
  BY <1>3, <1>4, <1>5 DEF Threads

LEMMA CallbackThreads ==
    ASSUME ThreadsOk, Callback
    PROVE  ThreadsOk'
<1>1. /\ UNCHANGED <<thread_queue, cur_tc, tc_wait_addr>> /\ tc_wait_addr[cur_tc] = None
      /\ args[cur_tc].whom \in Clients
  BY CallbackGoes
<1>2. PICK l \in {"fetch", "end", "failed", "input", "fin", "ack"} :
         /\ pc' = [pc EXCEPT ![cur_tc] = l]
         /\ args' = IF l = "fetch" THEN [args EXCEPT ![cur_tc] = None] ELSE args
         /\ \/ cur_tc = tcpip /\ l \in {"fetch", "failed"}
            \/ /\ cur_tc \in Slots /\ args[cur_tc] \in Requests
               /\ args[cur_tc].reqno = "input" /\ l # "fetch"
  BY CallbackGoes
<1>3. cur_tc \in Threads /\ cur_tc # main
  BY <1>2, NetFacts
<1>4. CASE cur_tc = tcpip /\ l = "fetch"
  <2>1. tc_wait_addr' = [tc_wait_addr EXCEPT ![cur_tc] = None]
    BY <1>1, <1>3 DEF ThreadsOk
  <2> QED
    BY <1>1, <1>2, <1>3, <1>4, <2>1, Steps, NetFacts DEF TcpipPlaces
<1>5. CASE cur_tc = tcpip /\ l = "failed"
  BY <1>1, <1>2, <1>3, <1>5, GoesOn, NetFacts DEF TcpipPlaces
<1>6. CASE cur_tc \in Slots
  <2>1. args' = args /\ l \in Places(args[cur_tc]) /\ cur_tc # tcpip
    BY <1>2, <1>6, RequestFacts, NetFacts DEF Places
  <2> QED
    BY <1>1, <1>2, <1>3, <2>1, GoesOn
<1> QED
  BY <1>2, <1>4, <1>5, <1>6

LEMMA OutputThreads ==
    ASSUME ThreadsOk, low_level_output
    PROVE  ThreadsOk'
<1>1. /\ pc[cur_tc] \in {"ack", "send", "tmr"} /\ args' = args
      /\ UNCHANGED <<thread_queue, cur_tc, tc_wait_addr>>
      /\ pc' = [pc EXCEPT ![cur_tc] = AfterOutput[pc[cur_tc]]]
  BY DEF low_level_output, AfterOutput, sysVars, threadVars
<1>2. AfterOutput[pc[cur_tc]] \in {"end", "do", "fetch"}
      /\ (pc[cur_tc] = "ack" => AfterOutput[pc[cur_tc]] = "end")
      /\ (pc[cur_tc] # "ack" => AfterOutput[pc[cur_tc]] \in {"do", "fetch"})
  BY <1>1 DEF AfterOutput
<1>3. /\ cur_tc \in Threads /\ ThreadOk(cur_tc) /\ tc_wait_addr[cur_tc] = None
  BY <1>1, Frames, Running DEF Waiting, ThreadsOk, Queued
<1>4. cur_tc # main
  BY <1>1, <1>3 DEF ThreadOk, MainPlaces
<1>5. CASE cur_tc = tcpip
  <2>1. pc[cur_tc] # "ack"
    BY <1>3, <1>5 DEF ThreadOk, TcpipPlaces
  <2> QED
    BY <1>1, <1>2, <1>3, <1>4, <1>5, <2>1, NetFacts, GoesOn DEF TcpipPlaces
<1>6. CASE cur_tc \in Slots
  <2>1. pc[cur_tc] \in Places(args[cur_tc])
    BY <1>3, <1>6 DEF ThreadOk
  <2>2. pc[cur_tc] = "ack" /\ "end" \in Places(args[cur_tc])
    BY <1>1, <2>1 DEF Places
  <2> QED
    BY <1>1, <1>2, <1>3, <1>4, <1>6, <2>2, NetFacts, GoesOn
<1> QED
  BY <1>3, <1>4, <1>5, <1>6 DEF Threads

LEMMA EndThreads ==
    ASSUME ThreadsOk, NEW s \in Slots, End(s)
    PROVE  ThreadsOk'
<1>1. /\ cur_tc = s /\ pc[s] = "end" /\ thread_halt /\ tc_wait_addr' = tc_wait_addr
      /\ pc' = [pc EXCEPT ![s] = "none"] /\ args' = [args EXCEPT ![s] = None]
  BY DEF End, Runs
<1>2. s \in Threads /\ s # main /\ s # tcpip
  BY NetFacts
<1>3. Queued(cur_tc', thread_queue')
  BY <1>1, <1>2, QueuedOn DEF ThreadsOk, thread_halt
<1>4. /\ pc' = [t \in Threads |-> pc'[t]] /\ args' = [t \in Threads |-> args'[t]]
      /\ tc_wait_addr' = [t \in Threads |-> tc_wait_addr'[t]]
      /\ pc'[s] = "none" /\ args'[s] = None
      /\ \A t \in Threads \ {s} : pc'[t] = pc[t] /\ args'[t] = args[t] /\ tc_wait_addr'[t] = tc_wait_addr[t]
  BY <1>1, <1>2 DEF ThreadsOk
<1>5. tc_wait_addr[s] = None
  BY <1>1, Running DEF Waiting
<1>6. ThreadOk(s)'
  BY <1>1, <1>2, <1>4, <1>5 DEF ThreadOk, Places, Unyielding, Waiting
<1>7. \A t \in Threads \cap {s} : ThreadOk(t)'
  BY <1>6
<1> QED
  BY <1>1, <1>3, <1>4, <1>7, Moved

LEMMA EnvironmentsSame ==
    ASSUME \/ \E c \in Clients : ClientSends(c) \/ ClientReceives(c)
           \/ \E c \in Peers, p \in Packets : InputSends(c, p)
           \/ TimerSends \/ TimerReceives \/ StrangerSends \/ OutputReceives
    PROVE  UNCHANGED <<sysVars, pc, args, buse, va, i>>
BY DEF ClientSends, ClientReceives, InputSends, TimerSends, TimerReceives, StrangerSends,
       OutputReceives

LEMMA ThreadsStep ==
    ASSUME ThreadsOk, ServerOk, SlotsOk, Next
    PROVE  ThreadsOk'
<1>1. CASE Main
  BY <1>1, MainThreads
<1>2. CASE Thread
  BY <1>2, WaitsThreads, SlotThreads, TcpipThreads, CallbackThreads, OutputThreads, EndThreads
     DEF Thread, Serves, Callback
<1>3. CASE UNCHANGED <<sysVars, pc, args, buse, va, i>>
  BY <1>3, ThreadsSame DEF sysVars, threadVars
<1> QED
  BY <1>1, <1>2, <1>3, EnvironmentsSame, Zenon DEF Next

-----------------------------------------------------------------------------
(* Who comes after whom, when cur_tc, here t, gives way or halts.          *)
LEMMA InLine ==
    ASSUME NEW t \in Threads, NEW q \in Seq(Threads)
    PROVE  /\ <<t>> \o q \in Seq(Threads) /\ Len(<<t>> \o q) = Len(q) + 1 /\ (<<t>> \o q)[1] = t
           /\ \A k \in 1..Len(q) : (<<t>> \o q)[k + 1] = q[k]
OBVIOUS

LEMMA AheadOn ==
    ASSUME NEW t \in Threads, NEW q \in Seq(Threads), NEW r \in Seq(Threads),
           Len(r) >= Len(q), \A k \in 1..Len(q) : r[k] = q[k],
           NEW s, s # t, Ahead(s, <<t>> \o q)
    PROVE  Ahead(s, r)
<1> DEFINE L == <<t>> \o q
<1>1. /\ L \in Seq(Threads) /\ Len(L) = Len(q) + 1 /\ L[1] = t
      /\ \A k \in 1..Len(q) : L[k + 1] = q[k]
  BY InLine
<1>2. PICK j \in 1..Len(L) : L[j] = s /\ \A k \in 1..j : L[k] # main
  BY DEF Ahead
<1> HIDE DEF L
<1>3. j # 1 /\ j - 1 \in 1..Len(q) /\ j - 1 \in 1..Len(r) /\ j = (j - 1) + 1
  BY <1>1, <1>2
<1>4. r[j - 1] = s
  BY <1>1, <1>2, <1>3
<1>5. ASSUME NEW k \in 1..j - 1 PROVE r[k] # main
  <2>1. k \in 1..Len(q) /\ k + 1 \in 1..j
    BY <1>3
  <2> QED
    BY <1>1, <1>2, <2>1
<1> QED
  BY <1>3, <1>4, <1>5 DEF Ahead

LEMMA OnceOn ==
    ASSUME NEW t \in Threads, NEW q \in Seq(Threads), Once(<<t>> \o q)
    PROVE  /\ Once(q) /\ Once(Append(q, t))
           /\ t = main => \A n \in Threads \ {main} : /\ Once(Append(Append(q, n), t))
                                                      /\ Ahead(n, Append(Append(q, n), t))
<1> DEFINE L == <<t>> \o q
<1>1. /\ L \in Seq(Threads) /\ Len(L) = Len(q) + 1 /\ L[1] = t
      /\ \A k \in 1..Len(q) : L[k + 1] = q[k]
  BY InLine
<1>2. \A j, k \in 1..Len(L) : L[j] = main /\ L[k] = main => j = k
  BY DEF Once
<1> HIDE DEF L
<1>3. ASSUME NEW j \in 1..Len(q), q[j] = main PROVE t # main /\ \A k \in 1..Len(q) : q[k] = main => j = k
  <2>1. j + 1 \in 1..Len(L) /\ 1 \in 1..Len(L) /\ j + 1 # 1 /\ L[j + 1] = main
    BY <1>1, <1>3
  <2>2. \A k \in 1..Len(q) : k + 1 \in 1..Len(L) /\ L[k + 1] = q[k]
    BY <1>1
  <2> QED
    BY <1>1, <1>2, <2>1, <2>2
<1>4. Once(q)
  BY <1>3 DEF Once
<1>5. Once(Append(q, t))
  <2> DEFINE r == Append(q, t)
  <2>1. /\ Len(r) = Len(q) + 1 /\ r[Len(q) + 1] = t
        /\ \A k \in 1..Len(q) : r[k] = q[k]
    OBVIOUS
  <2> HIDE DEF r
  <2>2. Once(r)
    BY <1>3, <2>1 DEF Once
  <2> QED
    BY <2>2 DEF r
<1>6. ASSUME t = main, NEW n \in Threads \ {main}
      PROVE  Once(Append(Append(q, n), t)) /\ Ahead(n, Append(Append(q, n), t))
  <2> DEFINE r == Append(Append(q, n), t)
  <2>1. /\ Len(r) = Len(q) + 2 /\ r[Len(q) + 1] = n /\ r[Len(q) + 2] = t
        /\ \A k \in 1..Len(q) : r[k] = q[k]
    OBVIOUS
  <2> HIDE DEF r
  <2>2. \A k \in 1..Len(q) + 1 : r[k] # main
    BY <1>3, <1>6, <2>1
  <2>3. Once(r)
    BY <2>1, <2>2 DEF Once
  <2>4. Ahead(n, r)
    BY <2>1, <2>2 DEF Ahead
  <2> QED
    BY <2>3, <2>4 DEF r
<1> QED
  BY <1>4, <1>5, <1>6

(* The line after a yield, after a new thread, and after the end of one.   *)
LEMMA NextInLine ==
    ASSUME ThreadsOk
    PROVE  /\ cur_tc \in Threads /\ thread_queue \in Seq(Threads)
           /\ thread_yield => Line' = Append(thread_queue, cur_tc)
           /\ \A n \in Threads : CreateAndYield(n) => Line' = Append(Append(thread_queue, n), cur_tc)
           /\ cur_tc \notin {main, tcpip} => (thread_halt => Line' = thread_queue)
<1>1. /\ cur_tc \in Threads /\ thread_queue \in Seq(Threads) /\ main # tcpip
      /\ {main, tcpip} \subseteq {cur_tc} \cup ToSet(thread_queue)
  BY NetFacts DEF ThreadsOk, Queued
<1>2. thread_queue # << >>
  <2> SUFFICES ASSUME thread_queue = << >> PROVE FALSE
    OBVIOUS
  <2>1. ToSet(thread_queue) = {}
    BY DEF ToSet
  <2> QED
    BY <1>1, <2>1
<1> DEFINE h == Head(thread_queue)
           r == Tail(thread_queue)
<1>3. h \in Threads /\ r \in Seq(Threads) /\ thread_queue = <<h>> \o r
  BY <1>1, <1>2
<1> HIDE DEF h, r
<1>4. \A t \in Threads : <<h>> \o Append(r, t) = Append(<<h>> \o r, t)
  BY <1>3
<1>5. \A t, n \in Threads : <<h>> \o (Append(r, n) \o <<t>>) = Append(Append(<<h>> \o r, n), t)
  BY <1>3
<1>6. thread_yield => Line' = Append(thread_queue, cur_tc)
  BY <1>1, <1>3, <1>4 DEF thread_yield, Line, h, r
<1>7. ASSUME NEW n \in Threads, CreateAndYield(n)
      PROVE  Line' = Append(Append(thread_queue, n), cur_tc)
  BY <1>1, <1>3, <1>5, <1>7 DEF CreateAndYield, Line, h, r
<1>8. thread_halt => Line' = thread_queue
  BY <1>3 DEF thread_halt, Line, h, r
<1> QED
  BY <1>1, <1>6, <1>7, <1>8

LEMMA LineKept ==
    ASSUME LineOk, UNCHANGED <<thread_queue, cur_tc>>,
           \A s \in Slots : pc'[s] = "start" => pc[s] = "start"
    PROVE  LineOk'
BY DEF LineOk, Line

(* While the main thread executes no thread is new.                        *)
LEMMA NoneNew ==
    ASSUME ThreadsOk, LineOk, cur_tc = main, NEW s \in Slots
    PROVE  pc[s] # "start"
<1>1. cur_tc \in Threads /\ thread_queue \in Seq(Threads)
  BY NextInLine
<1>2. Line[1] = main
  BY <1>1, InLine DEF Line
<1>3. ~Ahead(s, Line)
  BY <1>2 DEF Ahead
<1> QED
  BY <1>3 DEF LineOk

LEMMA LineYields ==
    ASSUME ThreadsOk, LineOk, thread_yield, pc[cur_tc] # "start",
           \A s \in Slots : pc'[s] = "start" => pc[s] = "start"
    PROVE  LineOk'
<1>1. cur_tc \in Threads /\ thread_queue \in Seq(Threads) /\ Line' = Append(thread_queue, cur_tc)
  BY NextInLine
<1>2. Once(Line')
  BY <1>1, OnceOn DEF LineOk, Line
<1>3. ASSUME NEW s \in Slots, pc'[s] = "start" PROVE Ahead(s, Line')
  <2>1. s # cur_tc /\ Ahead(s, <<cur_tc>> \o thread_queue)
    BY <1>3 DEF LineOk, Line
  <2>2. /\ Append(thread_queue, cur_tc) \in Seq(Threads)
        /\ Len(Append(thread_queue, cur_tc)) >= Len(thread_queue)
        /\ \A k \in 1..Len(thread_queue) : Append(thread_queue, cur_tc)[k] = thread_queue[k]
    BY <1>1
  <2> QED
    BY <1>1, <2>1, <2>2, AheadOn
<1> QED
  BY <1>2, <1>3 DEF LineOk

LEMMA LineStep ==
    ASSUME ThreadsOk, LineOk, ServerOk, Next
    PROVE  LineOk'
<1>0. /\ pc = [t \in Threads |-> pc[t]] /\ Slots \subseteq Threads /\ main \notin Slots
      /\ tcpip \notin Slots /\ main \in Threads /\ tcpip \in Threads /\ cur_tc \in Threads
  BY NetFacts, Running DEF ThreadsOk
<1>1. CASE Flush \/ TimerRequest
  <2>1. cur_tc = main /\ thread_yield /\ (pc' = pc \/ pc' = [pc EXCEPT ![main] = "timer"])
        /\ pc[cur_tc] \in {"flush", "recv"}
    BY <1>1 DEF Flush, TimerRequest, Received, Runs
  <2> QED
    BY <1>0, <2>1, LineYields
<1>2. CASE Block \/ Overflow \/ TimerAnswered \/ Invalid
  <2>1. /\ UNCHANGED <<thread_queue, cur_tc>>
        /\ \E l : pc' = [pc EXCEPT ![main] = l]
    BY <1>2, Zenon DEF Block, Overflow, TimerAnswered, Invalid, sysVars, threadVars
  <2> QED
    BY <1>0, <2>1, LineKept
<1>3. CASE Request
  <2>1. /\ cur_tc = main /\ va \in Slots /\ CreateAndYield(va)
        /\ pc' = [pc EXCEPT ![va] = "start", ![main] = "flush"]
    BY <1>3 DEF Request, ForThread, Received, Runs, ServerOk
  <2>2. PICK n \in Slots : n = va
    BY <2>1
  <2>3. /\ thread_queue \in Seq(Threads) /\ n \in Threads \ {main}
        /\ Line' = Append(Append(thread_queue, n), main)
    BY <1>0, <2>1, <2>2, NextInLine
  <2>4. Once(Line') /\ Ahead(n, Line')
    BY <1>0, <2>1, <2>3, OnceOn DEF LineOk, Line
  <2>5. \A s \in Slots : pc'[s] = "start" => s = n
    BY <1>0, <2>1, <2>2, NoneNew
  <2> QED
    BY <2>4, <2>5 DEF LineOk
<1>4. CASE Waits
  <2>1. CASE pc[cur_tc] \in Waiting /\ SemWait(Wanted(cur_tc))
    <3>1. thread_yield /\ pc' = pc /\ pc[cur_tc] # "start"
      BY <1>4, <2>1 DEF Waits, SemWait, WaitAt, Waiting
    <3> QED
      BY <3>1, LineYields
  <2>2. CASE StillWaits
    <3>1. thread_yield /\ pc' = pc /\ tc_wait_addr[cur_tc] # None
      BY <1>4, <2>2 DEF Waits, StillWaits, WaitOn
    <3>2. pc[cur_tc] # "start"
      BY <3>1, Running DEF Waiting
    <3> QED
      BY <3>1, <3>2, LineYields
  <2>3. CASE Resumes(FALSE)
    BY <1>4, <2>3, LineKept DEF Waits, Resumes, WaitEnds
  <2> QED
    BY <1>4, <2>1, <2>2, <2>3 DEF Waits
<1>5. CASE Timeout \/ TakeCall \/ PerformCall
  <2>1. /\ UNCHANGED <<thread_queue, cur_tc>>
        /\ pc' = pc \/ \E l : pc' = [pc EXCEPT ![tcpip] = l]
    BY <1>5, Zenon DEF Timeout, TakeCall, PerformCall, Goes, Resumes, WaitEnds, Completes,
                       sys_arch_mbox_fetch, sysVars, threadVars
  <2> QED
    BY <1>0, <2>1, LineKept
<1>6. CASE Callback \/ low_level_output
  <2>1. /\ UNCHANGED <<thread_queue, cur_tc>>
        /\ \E l : l # "start" /\ pc' = [pc EXCEPT ![cur_tc] = l]
    <3>1. CASE Callback
      BY <3>1, CallbackGoes
    <3>2. CASE low_level_output
      <4>1. AfterOutput[pc[cur_tc]] # "start"
        BY <3>2 DEF low_level_output, AfterOutput
      <4> QED
        BY <3>2, <4>1 DEF low_level_output, sysVars, threadVars
    <3> QED
      BY <1>6, <3>1, <3>2
  <2> QED
    BY <1>0, <2>1, LineKept
<1>7. ASSUME NEW s \in Slots, Serves(s) \/ Answer(s) PROVE LineOk'
  <2>1. /\ UNCHANGED <<thread_queue, cur_tc>>
        /\ \E l : l # "start" /\ pc' = [pc EXCEPT ![s] = l]
    <3>1. CASE Serves(s)
      BY <3>1, ServesGoes
    <3>2. CASE Answer(s)
      BY <3>2 DEF Answer, sysVars, threadVars
    <3> QED
      BY <1>7, <3>1, <3>2
  <2> QED
    BY <1>0, <2>1, LineKept
<1>8. ASSUME NEW s \in Slots, End(s) PROVE LineOk'
  <2>1. cur_tc = s /\ pc' = [pc EXCEPT ![s] = "none"] /\ thread_halt
    BY <1>8 DEF End, Runs
  <2>2. thread_queue \in Seq(Threads) /\ Line' = thread_queue
    BY <1>0, <2>1, NextInLine
  <2>3. Once(Line')
    BY <1>0, <2>2, OnceOn DEF LineOk, Line
  <2>4. ASSUME NEW r \in Slots, pc'[r] = "start" PROVE Ahead(r, Line')
    <3>1. r # cur_tc /\ pc[r] = "start"
      BY <1>0, <2>1, <2>4
    <3>2. Ahead(r, <<cur_tc>> \o thread_queue)
      BY <3>1 DEF LineOk, Line
    <3>3. Len(thread_queue) >= Len(thread_queue)
      BY <2>2
    <3>4. Ahead(r, thread_queue)
      BY <1>0, <2>2, <3>1, <3>2, <3>3, AheadOn
    <3> QED
      BY <2>2, <3>4
  <2> QED
    BY <2>3, <2>4 DEF LineOk
<1>9. CASE UNCHANGED <<sysVars, pc, args, buse, va, i>>
  BY <1>9, LineKept DEF sysVars, threadVars
<1>10. CASE Main
  BY <1>1, <1>2, <1>3, <1>10 DEF Main
<1>11. CASE Thread
  BY <1>4, <1>5, <1>6, <1>7, <1>8, <1>11 DEF Thread, Serves, Callback
<1> QED
  BY <1>9, <1>10, <1>11, EnvironmentsSame, Zenon DEF Next

-----------------------------------------------------------------------------
(* A message more in a ring, and a message less.                           *)
LEMMA NextSlot ==
    ASSUME NEW k \in 0..MBOXSLOTS - 1
    PROVE  /\ next(k) = IF k = MBOXSLOTS - 1 THEN 0 ELSE k + 1
           /\ next(k) \in 0..MBOXSLOTS - 1
<1>1. MBOXSLOTS \in Nat /\ MBOXSLOTS > 0
  BY NetFacts
<1>2. CASE k = MBOXSLOTS - 1
  BY <1>1, <1>2 DEF next
<1>3. CASE k # MBOXSLOTS - 1
  BY <1>1, <1>3 DEF next
<1> QED
  BY <1>1, <1>2, <1>3

LEMMA FillRange ==
    ASSUME NEW b \in Ring
    PROVE  /\ Fill(b) \in 0..MBOXSLOTS
           /\ b.head = EmptyRing <=> Fill(b) = 0
           /\ b.head = b.nextq <=> Fill(b) = MBOXSLOTS
BY NetFacts DEF Ring, Fill, EmptyRing

LEMMA PutFill ==
    ASSUME NEW b \in Ring, NEW x \in Packets \cup Clients \cup {None}, b.nextq # b.head
    PROVE  Put(b, x) \in Ring /\ Fill(Put(b, x)) = Fill(b) + 1
<1>1. MBOXSLOTS \in Nat /\ MBOXSLOTS > 0 /\ EmptyRing = 0 - 1
  BY NetFacts DEF EmptyRing
<1>2. /\ b.head \in {EmptyRing} \cup 0..MBOXSLOTS - 1 /\ b.nextq \in 0..MBOXSLOTS - 1
      /\ b.msg \in [0..MBOXSLOTS - 1 -> Packets \cup Clients \cup {None}]
  BY DEF Ring
<1>3. /\ next(b.nextq) = IF b.nextq = MBOXSLOTS - 1 THEN 0 ELSE b.nextq + 1
      /\ next(b.nextq) \in 0..MBOXSLOTS - 1
  BY <1>2, NextSlot
<1>4. /\ Put(b, x).head = (IF b.head = EmptyRing THEN b.nextq ELSE b.head)
      /\ Put(b, x).nextq = next(b.nextq) /\ Put(b, x) \in Ring
  BY <1>1, <1>2, <1>3 DEF Put, Ring
<1>5. CASE b.head = EmptyRing
  BY <1>1, <1>2, <1>3, <1>4, <1>5 DEF Fill
<1>6. CASE b.head # EmptyRing
  BY <1>1, <1>2, <1>3, <1>4, <1>6 DEF Fill
<1> QED
  BY <1>4, <1>5, <1>6

LEMMA GetFill ==
    ASSUME NEW b \in Ring, b.head # EmptyRing
    PROVE  Get(b) \in Ring /\ Fill(Get(b)) = Fill(b) - 1
<1>1. MBOXSLOTS \in Nat /\ MBOXSLOTS > 0 /\ EmptyRing = 0 - 1
  BY NetFacts DEF EmptyRing
<1>2. /\ b.head \in 0..MBOXSLOTS - 1 /\ b.nextq \in 0..MBOXSLOTS - 1
      /\ b.msg \in [0..MBOXSLOTS - 1 -> Packets \cup Clients \cup {None}]
  BY DEF Ring
<1>3. /\ next(b.head) = IF b.head = MBOXSLOTS - 1 THEN 0 ELSE b.head + 1
      /\ next(b.head) \in 0..MBOXSLOTS - 1
  BY <1>2, NextSlot
<1>4. /\ Get(b).head = (IF next(b.head) = b.nextq THEN EmptyRing ELSE next(b.head))
      /\ Get(b).nextq = b.nextq /\ Get(b) \in Ring
  BY <1>1, <1>2, <1>3 DEF Get, Ring
<1>5. CASE next(b.head) = b.nextq
  BY <1>1, <1>2, <1>3, <1>4, <1>5 DEF Fill
<1>6. CASE next(b.head) # b.nextq
  BY <1>1, <1>2, <1>3, <1>4, <1>6 DEF Fill
<1> QED
  BY <1>4, <1>5, <1>6

-----------------------------------------------------------------------------

LEMMA BoxesSame ==
    ASSUME BoxesOk, mboxes' = mboxes,
           sems' \in [Semaphores -> [counter : Int, waiters : {0, 1}]],
           \A m \in Boxes : /\ sems'[queued_msg(m)].counter = sems[queued_msg(m)].counter
                            /\ sems'[free_msg(m)].counter = sems[free_msg(m)].counter
    PROVE  BoxesOk'
BY DEF BoxesOk

LEMMA SemaphoreFacts ==
    ASSUME NEW m \in Boxes, NEW n \in Boxes, NEW c
    PROVE  /\ queued_msg(m) \in Semaphores /\ free_msg(m) \in Semaphores
           /\ queued_msg(m) # free_msg(n) /\ queued_msg(m) # op_completed(c)
           /\ free_msg(m) # op_completed(c)
           /\ m # n => queued_msg(m) # queued_msg(n) /\ free_msg(m) # free_msg(n)
           /\ c \in Clients => op_completed(c) \in Semaphores
BY DEF Semaphores, queued_msg, free_msg, op_completed

(* Semaphore s is lowered and semaphore r raised.                          *)
LEMMA Handed ==
    ASSUME BoxesOk, NEW s \in Semaphores, NEW r \in Semaphores, s # r,
           sems' = Signalled(Taken(s), r)
    PROVE  /\ sems' \in [Semaphores -> [counter : Int, waiters : {0, 1}]]
           /\ sems'[s].counter = sems[s].counter - 1
           /\ sems'[r].counter = sems[r].counter + 1
           /\ \A u \in Semaphores \ {s, r} : sems'[u] = sems[u]
<1>1. sems \in [Semaphores -> [counter : Int, waiters : {0, 1}]]
  BY DEF BoxesOk
<1>2. /\ Taken(s) \in [Semaphores -> [counter : Int, waiters : {0, 1}]]
      /\ Taken(s)[s].counter = sems[s].counter - 1
      /\ \A u \in Semaphores \ {s} : Taken(s)[u] = sems[u]
  BY <1>1 DEF Taken
<1> DEFINE T == Taken(s)
<1> HIDE DEF T
<1>3. /\ T \in [Semaphores -> [counter : Int, waiters : {0, 1}]]
      /\ T[s].counter = sems[s].counter - 1
      /\ \A u \in Semaphores \ {s} : T[u] = sems[u]
      /\ sems' = [T EXCEPT ![r] = [counter |-> T[r].counter + 1, waiters |-> 0]]
  BY <1>2 DEF T, Signalled
<1> QED
  BY <1>3

LEMMA BoxMoved ==
    ASSUME BoxesOk, NEW m \in Boxes, NEW b \in Ring, NEW s \in Semaphores, NEW r \in Semaphores,
           {s, r} = {queued_msg(m), free_msg(m)},
           mboxes' = [mboxes EXCEPT ![m] = b], sems' = Signalled(Taken(s), r),
           s = queued_msg(m) => Fill(b) = Fill(mboxes[m]) - 1,
           s = free_msg(m) => Fill(b) = Fill(mboxes[m]) + 1
    PROVE  BoxesOk'
<1>1. /\ queued_msg(m) # free_msg(m)
      /\ \/ s = queued_msg(m) /\ r = free_msg(m)
         \/ s = free_msg(m) /\ r = queued_msg(m)
  BY SemaphoreFacts
<1>2. /\ sems' \in [Semaphores -> [counter : Int, waiters : {0, 1}]]
      /\ sems'[s].counter = sems[s].counter - 1 /\ sems'[r].counter = sems[r].counter + 1
      /\ \A u \in Semaphores \ {s, r} : sems'[u] = sems[u]
  BY <1>1, Handed
<1>3. mboxes' \in [Boxes -> Ring] /\ mboxes'[m] = b
      /\ \A n \in Boxes \ {m} : mboxes'[n] = mboxes[n]
  BY DEF BoxesOk
<1>4. /\ mboxes[m] \in Ring /\ Fill(mboxes[m]) \in Int /\ Fill(b) \in Int /\ MBOXSLOTS \in Int
      /\ sems[queued_msg(m)].counter = Fill(mboxes[m])
      /\ sems[free_msg(m)].counter = MBOXSLOTS - Fill(mboxes[m])
  BY FillRange, NetFacts DEF BoxesOk
<1>5. /\ sems'[queued_msg(m)].counter = Fill(b)
      /\ sems'[free_msg(m)].counter = MBOXSLOTS - Fill(b)
  <2>1. CASE s = queued_msg(m)
    BY <1>1, <1>2, <1>4, <2>1
  <2>2. CASE s = free_msg(m)
    BY <1>1, <1>2, <1>4, <2>2
  <2> QED
    BY <1>1, <2>1, <2>2
<1>6. ASSUME NEW n \in Boxes \ {m}
      PROVE  /\ sems'[queued_msg(n)].counter = Fill(mboxes'[n])
             /\ sems'[free_msg(n)].counter = MBOXSLOTS - Fill(mboxes'[n])
  <2>1. queued_msg(n) \in Semaphores \ {s, r} /\ free_msg(n) \in Semaphores \ {s, r}
    BY <1>1, SemaphoreFacts
  <2>2. /\ sems'[queued_msg(n)] = sems[queued_msg(n)] /\ sems'[free_msg(n)] = sems[free_msg(n)]
        /\ mboxes'[n] = mboxes[n]
    BY <1>2, <1>3, <2>1
  <2> QED
    BY <2>2 DEF BoxesOk
<1>7. ASSUME NEW n \in Boxes
      PROVE  /\ sems'[queued_msg(n)].counter = Fill(mboxes'[n])
             /\ sems'[free_msg(n)].counter = MBOXSLOTS - Fill(mboxes'[n])
  BY <1>3, <1>5, <1>6
<1> QED
  BY <1>2, <1>3, <1>7 DEF BoxesOk

LEMMA Posted ==
    ASSUME BoxesOk, NEW m \in Boxes, NEW x \in Packets \cup Clients \cup {None},
           sys_mbox_trypost(m, x)
    PROVE  BoxesOk'
<1>1. /\ mboxes[m] \in Ring /\ mboxes[m].nextq # mboxes[m].head
      /\ mboxes' = [mboxes EXCEPT ![m] = Put(mboxes[m], x)]
      /\ sems' = Signalled(Taken(free_msg(m)), queued_msg(m))
  BY DEF BoxesOk, sys_mbox_trypost, FullRing
<1>2. Put(mboxes[m], x) \in Ring /\ Fill(Put(mboxes[m], x)) = Fill(mboxes[m]) + 1
  BY <1>1, PutFill
<1> QED
  BY <1>1, <1>2, BoxMoved, SemaphoreFacts

LEMMA Fetched ==
    ASSUME BoxesOk, NEW m \in Boxes, sys_arch_mbox_fetch(m)
    PROVE  BoxesOk'
<1>1. /\ mboxes[m] \in Ring /\ mboxes[m].head # EmptyRing
      /\ mboxes' = [mboxes EXCEPT ![m] = Get(mboxes[m])]
      /\ sems' = Signalled(Taken(queued_msg(m)), free_msg(m))
  BY DEF BoxesOk, sys_arch_mbox_fetch
<1>2. Get(mboxes[m]) \in Ring /\ Fill(Get(mboxes[m])) = Fill(mboxes[m]) - 1
  BY <1>1, GetFill
<1> QED
  BY <1>1, <1>2, BoxMoved, SemaphoreFacts

LEMMA OneSemaphore ==
    ASSUME BoxesOk, NEW x,
           \/ sems' = [sems EXCEPT ![x] = [counter |-> @.counter + 1, waiters |-> 0]]
           \/ sems' = [sems EXCEPT ![x].counter = @ - 1]
    PROVE  /\ sems' \in [Semaphores -> [counter : Int, waiters : {0, 1}]]
           /\ \A u \in Semaphores \ {x} : sems'[u] = sems[u]
<1>1. sems \in [Semaphores -> [counter : Int, waiters : {0, 1}]]
  BY DEF BoxesOk
<1>2. CASE x \notin Semaphores
  <2>1. sems' = sems
    BY <1>1, <1>2
  <2> QED
    BY <1>1, <2>1
<1>3. CASE x \in Semaphores
  <2>1. sems[x] \in [counter : Int, waiters : {0, 1}]
    BY <1>1, <1>3
  <2>2. CASE sems' = [sems EXCEPT ![x] = [counter |-> @.counter + 1, waiters |-> 0]]
    BY <1>1, <1>3, <2>1, <2>2
  <2>3. CASE sems' = [sems EXCEPT ![x].counter = @ - 1]
    BY <1>1, <1>3, <2>1, <2>3
  <2> QED
    BY <2>2, <2>3
<1> QED
  BY <1>2, <1>3

(* Semaphores of calls apart from those of mailboxes.                      *)
LEMMA CallSemaphore ==
    ASSUME BoxesOk, NEW c, UNCHANGED mboxes,
           \/ sems' = Signalled(sems, op_completed(c))
           \/ sems' = Taken(op_completed(c))
    PROVE  BoxesOk'
<1>1. /\ sems' \in [Semaphores -> [counter : Int, waiters : {0, 1}]]
      /\ \A u \in Semaphores \ {op_completed(c)} : sems'[u] = sems[u]
  BY OneSemaphore DEF Signalled, Taken
<1>2. \A m \in Boxes : /\ queued_msg(m) \in Semaphores \ {op_completed(c)}
                       /\ free_msg(m) \in Semaphores \ {op_completed(c)}
  BY SemaphoreFacts
<1> QED
  BY <1>1, <1>2, BoxesSame

LEMMA BoxesStep ==
    ASSUME ThreadsOk, BoxesOk, Next
    PROVE  BoxesOk'
<1>1. sems \in [Semaphores -> [counter : Int, waiters : {0, 1}]] /\ Boxes = Clients \cup {"tcpip"}
  BY NetFacts DEF BoxesOk
<1>2. CASE UNCHANGED <<sems, mboxes>>
  BY <1>1, <1>2, BoxesSame
<1>3. CASE \E s : UNCHANGED mboxes /\ sems' = [sems EXCEPT ![s].waiters = 1]
  <2>1. PICK s : UNCHANGED mboxes /\ sems' = [sems EXCEPT ![s].waiters = 1]
    BY <1>3
  <2>2. /\ sems' \in [Semaphores -> [counter : Int, waiters : {0, 1}]]
        /\ \A u \in Semaphores : sems'[u].counter = sems[u].counter
    BY <1>1, <2>1
  <2> QED
    BY <2>1, <2>2, BoxesSame, SemaphoreFacts
<1>4. ASSUME NEW s \in Slots, PostCall(s) \/ FetchPacket(s) \/ InputPacket(s) \/ EndOfStream(s)
      PROVE  BoxesOk'
  <2>1. cur_tc = s /\ pc[s] \in {"post", "fetch", "input", "fin"}
    BY <1>4 DEF PostCall, InputPacket, EndOfStream, FetchPacket, Runs
  <2>2. /\ args[s].whom \in Clients /\ args[s].whom \in Boxes /\ "tcpip" \in Boxes
        /\ pc[s] = "input" => args[s].pkt \in Packets
    BY <1>1, <2>1, AtWork, RequestFacts
  <2>3. CASE PostCall(s)
    BY <2>2, <2>3, Posted DEF PostCall
  <2>4. CASE FetchPacket(s)
    BY <2>2, <2>4, Fetched DEF FetchPacket
  <2>5. CASE InputPacket(s)
    <3>1. sys_mbox_trypost(args[s].whom, args[s].pkt) /\ args[s].pkt \in Packets
      BY <2>2, <2>5 DEF InputPacket, Runs
    <3> QED
      BY <2>2, <3>1, Posted
  <2>6. CASE EndOfStream(s)
    BY <2>2, <2>6, Posted DEF EndOfStream
  <2> QED
    BY <1>4, <2>3, <2>4, <2>5, <2>6
<1>5. ASSUME NEW s \in Slots, CallCompleted(s) PROVE BoxesOk'
  <2>1. sems' = Taken(op_completed(args[s].whom)) /\ mboxes' = mboxes
    BY <1>5, NetFacts DEF CallCompleted, Runs, Wanted
  <2> QED
    BY <2>1, CallSemaphore
<1>6. CASE PerformCall
  <2>1. \/ UNCHANGED <<sems, mboxes>>
        \/ mboxes' = mboxes /\ sems' = Signalled(sems, op_completed(args[tcpip].whom))
    BY <1>6 DEF PerformCall, Completes, sysVars
  <2> QED
    BY <1>2, <2>1, CallSemaphore
<1>7. CASE TakeCall
  BY <1>1, <1>7, Fetched DEF TakeCall
<1>8. CASE err_tcp
  <2>1. sys_mbox_trypost(args[cur_tc].whom, None) /\ args[cur_tc].whom \in Boxes
    BY <1>1, <1>8, CallbackGoes DEF err_tcp, Callback
  <2> QED
    BY <2>1, Posted
<1>9. CASE CallFails \/ CallEnds
  <2>1. mboxes' = mboxes /\ sems' = Signalled(sems, op_completed(args[cur_tc].whom))
    BY <1>9 DEF CallFails, CallEnds, Completes
  <2> QED
    BY <2>1, CallSemaphore
<1>10. CASE Main \/ low_level_output \/ Timeout \/ \E s \in Slots : serve_thread(s) \/ Answer(s) \/ End(s)
  <2>1. UNCHANGED <<sems, mboxes>>
    BY <1>10 DEF Main, Flush, Block, Overflow, TimerRequest, TimerAnswered, Invalid, Request, Timeout,
                 Resumes, low_level_output, serve_thread, Answer, End, sysVars
  <2> QED
    BY <1>2, <2>1
<1>11. CASE Waits
  <2>1. \/ UNCHANGED <<sems, mboxes>>
        \/ \E s : UNCHANGED mboxes /\ sems' = [sems EXCEPT ![s].waiters = 1]
    BY <1>11 DEF Waits, SemWait, StillWaits, Resumes
  <2> QED
    BY <1>2, <1>3, <2>1
<1>12. CASE UNCHANGED <<sysVars, pc, args, buse, va, i>>
  BY <1>2, <1>12 DEF sysVars
<1>13. CASE Thread
  BY <1>4, <1>5, <1>6, <1>7, <1>8, <1>9, <1>10, <1>11, <1>13 DEF Thread
<1> QED
  BY <1>10, <1>12, <1>13, EnvironmentsSame, Zenon DEF Next

-----------------------------------------------------------------------------
(* No thread of a request moves; and only the thread of slot s does.       *)
Still == \A s \in Slots : pc'[s] = pc[s] /\ args'[s] = args[s]

Alone(s) ==
    /\ cur_tc = s /\ args[s] \in Requests
    /\ \A r \in Slots \ {s} : pc'[r] = pc[r] /\ args'[r] = args[r]
    /\ UNCHANGED <<va, msg, bad>> /\ pc'[main] = pc[main]

(* A thread may move, and gives no answer and does not end.                *)
Quiet ==
    /\ UNCHANGED <<buse, va, msg, client, bad>> /\ pc'[main] = pc[main]
    /\ \/ Still
       \/ \E s \in Slots : /\ Alone(s) /\ args'[s] = args[s]
                           /\ pc[s] \notin {"none", "end"} /\ pc'[s] # "none"
                           /\ pc'[s] = "end" => args[s].reqno = "input"

LEMMA MainStill ==
    ASSUME ThreadsOk, Flush \/ Block \/ Overflow \/ TimerRequest \/ TimerAnswered \/ Invalid
    PROVE  Still /\ UNCHANGED <<client, bad>>
<1>1. args' = args /\ (pc' = pc \/ \E l : pc' = [pc EXCEPT ![main] = l])
      /\ UNCHANGED <<client, bad>>
  BY Zenon DEF Flush, Block, Overflow, TimerRequest, TimerAnswered, Invalid, envs
<1> QED
  BY <1>1, NetFacts DEF Still, ThreadsOk

LEMMA AloneIn ==
    ASSUME ThreadsOk, NEW s \in Slots, cur_tc = s, pc[s] # "none",
           UNCHANGED <<va, msg, bad>>, NEW l, pc' = [pc EXCEPT ![s] = l],
           args' = args \/ args' = [args EXCEPT ![s] = None]
    PROVE  Alone(s) /\ pc'[s] = l /\ (args' = args => args'[s] = args[s])
<1>1. s \in Threads /\ s # main /\ main \in Threads /\ Slots \subseteq Threads
  BY NetFacts
<1>2. args[s] \in Requests
  BY AtWork
<1> QED
  BY <1>1, <1>2 DEF Alone, ThreadsOk

LEMMA ServesQuiet ==
    ASSUME ThreadsOk, NEW s \in Slots, Serves(s)
    PROVE  Quiet
<1>1. /\ cur_tc = s /\ UNCHANGED <<args, buse, va, msg, client, bad>> /\ pc[s] \notin {"none", "end"}
  BY ServesGoes DEF rest, envs
<1>2. PICK l : /\ l # "none" /\ pc' = [pc EXCEPT ![s] = l]
               /\ l = "end" => args[s].reqno = "input"
  BY ServesGoes
<1>3. Alone(s) /\ pc'[s] = l /\ args'[s] = args[s]
  BY <1>1, <1>2, AloneIn
<1>4. pc'[main] = pc[main]
  BY <1>3 DEF Alone
<1> QED
  BY <1>1, <1>2, <1>3, <1>4 DEF Quiet

LEMMA AnswerAlone ==
    ASSUME ThreadsOk, NEW s \in Slots, Answer(s)
    PROVE  /\ Alone(s) /\ args'[s] = args[s] /\ pc[s] = "answer" /\ pc'[s] = "end"
           /\ buse' = buse /\ client[args[s].whom] = "recv"
           /\ client' = [client EXCEPT ![args[s].whom] = "idle"]
<1>1. /\ cur_tc = s /\ UNCHANGED <<va, msg, bad, args, buse>> /\ pc[s] = "answer"
      /\ pc' = [pc EXCEPT ![s] = "end"]
  BY DEF Answer, Runs
<1>2. Alone(s) /\ pc'[s] = "end" /\ args'[s] = args[s]
  BY <1>1, AloneIn
<1> QED
  BY <1>1, <1>2 DEF Answer

LEMMA EndAlone ==
    ASSUME ThreadsOk, NEW s \in Slots, End(s)
    PROVE  /\ Alone(s) /\ args'[s] = None /\ pc[s] = "end" /\ pc'[s] = "none"
           /\ buse' = [buse EXCEPT ![s] = FALSE] /\ client' = client
<1>1. /\ cur_tc = s /\ pc[s] = "end" /\ UNCHANGED <<va, msg, bad, client>>
      /\ pc' = [pc EXCEPT ![s] = "none"] /\ args' = [args EXCEPT ![s] = None]
      /\ buse' = [buse EXCEPT ![s] = FALSE]
  BY DEF End, Runs, envs, put_buffer
<1>2. Alone(s) /\ pc'[s] = "none"
  BY <1>1, AloneIn
<1> QED
  BY <1>1, <1>2, NetFacts DEF ThreadsOk

(* tcpip_thread, and what it and a packet's thread have in common.         *)
LEMMA TcpipQuiet ==
    ASSUME ThreadsOk, Waits \/ Timeout \/ TakeCall \/ PerformCall
    PROVE  Quiet
<1>1. /\ pc' = pc \/ \E l : pc' = [pc EXCEPT ![tcpip] = l]
      /\ args' = args \/ \E a : args' = [args EXCEPT ![tcpip] = a]
      /\ UNCHANGED <<buse, va, msg, client, bad>>
  <2>1. CASE Waits
    BY <2>1 DEF Waits, rest, envs
  <2>2. CASE Timeout
    BY <2>2, Zenon DEF Timeout, Goes, envs
  <2>3. CASE TakeCall \/ PerformCall
    BY <2>3, Zenon DEF TakeCall, PerformCall, Goes, envs
  <2> QED
    BY <2>1, <2>2, <2>3
<1>2. Still /\ pc'[main] = pc[main]
  BY <1>1, NetFacts DEF Still, ThreadsOk
<1> QED
  BY <1>1, <1>2 DEF Quiet

LEMMA SharedQuiet ==
    ASSUME ThreadsOk, Callback \/ low_level_output
    PROVE  Quiet
<1>1. /\ UNCHANGED <<buse, va, msg, client, bad>>
      /\ \E l : /\ pc' = [pc EXCEPT ![cur_tc] = l]
                /\ \/ /\ cur_tc = tcpip
                      /\ args' = args \/ args' = [args EXCEPT ![cur_tc] = None]
                   \/ /\ cur_tc \in Slots /\ args' = args /\ args[cur_tc].reqno = "input"
                      /\ pc[cur_tc] \notin {"none", "end"} /\ l # "none"
  <2>1. CASE Callback
    BY <2>1, CallbackGoes DEF envs
  <2>2. CASE low_level_output
    <3>1. /\ pc[cur_tc] \in {"ack", "send", "tmr"} /\ UNCHANGED <<args, buse, va, msg, client, bad>>
          /\ pc' = [pc EXCEPT ![cur_tc] = AfterOutput[pc[cur_tc]]]
      BY <2>2 DEF low_level_output, AfterOutput
    <3>2. cur_tc \in Threads /\ ThreadOk(cur_tc) /\ AfterOutput[pc[cur_tc]] # "none"
      <4>1. cur_tc \in Threads /\ ThreadOk(cur_tc)
        BY Running DEF ThreadsOk
      <4>2. AfterOutput[pc[cur_tc]] # "none"
        BY <3>1 DEF AfterOutput
      <4> QED
        BY <4>1, <4>2
    <3>3. cur_tc # main
      BY <3>1, <3>2 DEF ThreadOk, MainPlaces
    <3>4. CASE cur_tc \in Slots
      <4>1. pc[cur_tc] \in Places(args[cur_tc])
        BY <3>2, <3>4 DEF ThreadOk
      <4>2. pc[cur_tc] = "ack" /\ args[cur_tc].reqno = "input"
        BY <3>1, <3>4, <4>1, AtWork DEF Places
      <4> QED
        BY <3>1, <3>2, <3>4, <4>2
    <3> QED
      BY <3>1, <3>2, <3>3, <3>4 DEF Threads
  <2> QED
    BY <2>1, <2>2
<1>2. PICK l : /\ pc' = [pc EXCEPT ![cur_tc] = l]
               /\ \/ /\ cur_tc = tcpip
                     /\ args' = args \/ args' = [args EXCEPT ![cur_tc] = None]
                  \/ /\ cur_tc \in Slots /\ args' = args /\ args[cur_tc].reqno = "input"
                     /\ pc[cur_tc] \notin {"none", "end"} /\ l # "none"
  BY <1>1
<1>3. CASE cur_tc = tcpip
  <2>1. Still /\ pc'[main] = pc[main]
    BY <1>2, <1>3, NetFacts DEF Still, ThreadsOk
  <2> QED
    BY <1>1, <2>1 DEF Quiet
<1>4. CASE cur_tc \in Slots
  <2>1. PICK s \in Slots : s = cur_tc
    BY <1>4
  <2>2. s # tcpip
    BY NetFacts
  <2>3. Alone(s) /\ pc'[s] = l /\ args'[s] = args[s]
    BY <1>1, <1>2, <2>1, <2>2, AloneIn
  <2>4. pc'[main] = pc[main]
    BY <2>3 DEF Alone
  <2> QED
    BY <1>1, <1>2, <2>1, <2>2, <2>3, <2>4 DEF Quiet
<1> QED
  BY <1>2, <1>3, <1>4

LEMMA ThreadQuiet ==
    ASSUME ThreadsOk, Thread
    PROVE  Quiet \/ \E s \in Slots : Answer(s) \/ End(s)
BY ServesQuiet, TcpipQuiet, SharedQuiet DEF Thread, Serves, Callback

-----------------------------------------------------------------------------
LEMMA SlotsFinite ==
    ASSUME NEW S \in SUBSET Slots
    PROVE  IsFiniteSet(S) /\ Cardinality(S) \in Nat
<1>1. IsFiniteSet(Slots)
  BY NetFacts, FS_Interval DEF Slots
<1>2. IsFiniteSet(S)
  BY <1>1, FS_Subset
<1> QED
  BY <1>2, FS_CardinalityType

LEMMA MainServer ==
    ASSUME ThreadsOk, ServerOk, Main
    PROVE  ServerOk'
<1>1. main \in Threads /\ Slots \subseteq Threads /\ main \notin Slots /\ None \notin Slots
      /\ pc = [t \in Threads |-> pc[t]]
  BY NetFacts DEF ThreadsOk
<1>2. \A s \in Slots : \A b \in BOOLEAN : [buse EXCEPT ![s] = b] \in [Slots -> BOOLEAN]
  BY DEF ServerOk
<1>3. CASE Flush
  BY <1>3 DEF Flush, envs, ServerOk
<1>9. CASE Overflow
  <2>1. pc[main] = "flush" /\ pc'[main] = "panic" /\ UNCHANGED <<buse, va, msg, envs>>
    BY <1>1, <1>9 DEF Overflow, Overflows, AboutToBlock, Runs
  <2> QED
    BY <2>1 DEF ServerOk, envs
<1>4. CASE Block
  <2>1. PICK s \in Slots : va' = s /\ buse' = [buse EXCEPT ![s] = TRUE]
    BY <1>4 DEF Block
  <2>2. pc'[main] = "recv" /\ UNCHANGED <<msg, envs>>
    BY <1>1, <1>4 DEF Block
  <2> QED
    BY <1>2, <2>1, <2>2 DEF ServerOk, envs
<1>5. CASE TimerRequest
  <2>1. pc[main] = "recv" /\ pc'[main] = "timer" /\ msg' = None /\ UNCHANGED <<buse, va, envs>>
    BY <1>1, <1>5 DEF TimerRequest, Received, Runs
  <2> QED
    BY <2>1 DEF ServerOk, envs
<1>6. CASE TimerAnswered
  <2>1. /\ pc[main] = "timer" /\ pc'[main] = "flush" /\ va' = None
        /\ buse' = [buse EXCEPT ![va] = FALSE] /\ UNCHANGED <<msg, client, bad>>
    BY <1>1, <1>6 DEF TimerAnswered, Runs, put_buffer
  <2> QED
    BY <1>2, <2>1 DEF ServerOk
<1>7. CASE Invalid
  <2>1. /\ pc[main] = "recv" /\ pc'[main] = "flush" /\ va' = None /\ msg' = None
        /\ buse' = [buse EXCEPT ![va] = FALSE] \/ buse' = buse
        /\ UNCHANGED <<client, bad>>
    BY <1>1, <1>7 DEF Invalid, Received, Runs, put_buffer, envs
  <2> QED
    BY <1>2, <2>1 DEF ServerOk
<1>8. CASE Request
  <2>1. /\ pc'[main] = "flush" /\ va' = None /\ msg' = None /\ UNCHANGED <<buse, client, bad>>
    BY <1>1, <1>8 DEF Request, envs
  <2> QED
    BY <2>1 DEF ServerOk
<1> QED
  BY <1>3, <1>4, <1>5, <1>6, <1>7, <1>8, <1>9 DEF Main

LEMMA ThreadServer ==
    ASSUME ThreadsOk, ServerOk, Thread
    PROVE  ServerOk'
<1>1. CASE Quiet
  BY <1>1 DEF Quiet, ServerOk
<1>2. ASSUME NEW s \in Slots, Answer(s) PROVE ServerOk'
  <2>1. UNCHANGED <<buse, va, msg, bad>> /\ pc'[main] = pc[main]
        /\ client' = [client EXCEPT ![args[s].whom] = "idle"]
    BY <1>2, AnswerAlone DEF Alone
  <2>2. client' \in [Clients -> {"idle", "sent", "recv"}]
    BY <2>1 DEF ServerOk
  <2> QED
    BY <2>1, <2>2 DEF ServerOk
<1>3. ASSUME NEW s \in Slots, End(s) PROVE ServerOk'
  <2>1. UNCHANGED <<client, va, msg, bad>> /\ pc'[main] = pc[main]
        /\ buse' = [buse EXCEPT ![s] = FALSE]
    BY <1>3, EndAlone DEF Alone
  <2> QED
    BY <2>1 DEF ServerOk
<1> QED
  BY <1>1, <1>2, <1>3, ThreadQuiet

LEMMA SendServer ==
    ASSUME ServerOk, NEW m \in Messages, Send(m), UNCHANGED <<pc, buse, va>>,
           client' \in [Clients -> {"idle", "sent", "recv"}],
           bad' \in 0..MaxBad
    PROVE  ServerOk' /\ msg = None /\ msg' = m
BY DEF ServerOk, Send, Runs

LEMMA EnvironmentServer ==
    ASSUME ServerOk,
           \/ \E c \in Clients : ClientSends(c) \/ ClientReceives(c)
           \/ \E c \in Peers, p \in Packets : InputSends(c, p)
           \/ TimerSends \/ TimerReceives \/ StrangerSends \/ OutputReceives
    PROVE  ServerOk'
<1>0. /\ client \in [Clients -> {"idle", "sent", "recv"}]
      /\ bad \in 0..MaxBad
  BY DEF ServerOk
<1>1. ASSUME NEW c \in Clients, ClientSends(c) PROVE ServerOk'
  <2>1. /\ Send(Message("call", c, None)) \/ (c \in Peers /\ Send(Message("recv", c, None)))
        /\ client' = [client EXCEPT ![c] = "sent"] /\ UNCHANGED <<pc, buse, va, bad>>
    BY <1>1 DEF ClientSends
  <2>2. \E m \in Messages : Send(m)
    BY <2>1 DEF Messages, Requests
  <2>3. client' \in [Clients -> {"idle", "sent", "recv"}]
    BY <1>0, <2>1
  <2> QED
    BY <1>0, <2>1, <2>2, <2>3, SendServer
<1>2. ASSUME NEW c \in Clients, ClientReceives(c) PROVE ServerOk'
  BY <1>0, <1>2 DEF ClientReceives, ServerOk
<1>3. ASSUME NEW c \in Peers, NEW p \in Packets, InputSends(c, p) PROVE ServerOk'
  <2>1. Send(Message("input", c, p)) /\ UNCHANGED <<pc, buse, va, client, bad>>
    BY <1>3 DEF InputSends, envs
  <2>2. Message("input", c, p) \in Messages
    BY DEF Messages, Requests
  <2> QED
    BY <1>0, <2>1, <2>2, SendServer
<1>4. CASE TimerSends
  <2>1. Message("timer", "timer", None) \in Messages
    BY DEF Messages
  <2> QED
    BY <1>0, <1>4, <2>1, SendServer DEF TimerSends
<1>5. CASE StrangerSends
  <2>1. PICK r \in {"timer", "call"} : Send(Message(r, "stranger", None))
    BY <1>5 DEF StrangerSends
  <2>2. Message(r, "stranger", None) \in Messages
    BY DEF Messages
  <2>3. bad' \in 0..MaxBad /\ UNCHANGED <<pc, buse, va, client>>
    BY <1>0, <1>5, NetFacts DEF StrangerSends
  <2> QED
    BY <1>0, <2>1, <2>2, <2>3, SendServer
<1>6. CASE TimerReceives \/ OutputReceives
  BY <1>6 DEF TimerReceives, OutputReceives, ServerOk
<1> QED
  BY <1>1, <1>2, <1>3, <1>4, <1>5, <1>6

-----------------------------------------------------------------------------
(* Which slots are in use.                                                 *)
LEMMA SlotsKept ==
    ASSUME SlotsOk, ServerOk, Live' = Live, UNCHANGED <<buse, va>>, bad' \in Int,
           Strange' + bad <= Strange + bad'
    PROVE  SlotsOk'
<1>1. Hanging' = Hanging
  BY DEF Hanging
<1>2. Cardinality(Hanging) \in Nat /\ Strange \in Nat /\ Strange' \in Nat /\ bad \in Int
  BY SlotsFinite DEF Hanging, Strange, ServerOk
<1>3. Cardinality(Hanging) + Strange <= bad
  BY DEF SlotsOk
<1>4. Cardinality(Hanging) + Strange' <= bad'
  <2>1. PICK s \in Nat : s = Strange'
    BY <1>2
  <2>2. s + bad <= Strange + bad'
    BY <2>1
  <2>3. PICK h \in Nat, k \in Nat, b \in Int, d \in Int :
            h = Cardinality(Hanging) /\ k = Strange /\ b = bad /\ d = bad'
    BY <1>2
  <2>4. h + k <= b /\ s + b <= k + d
    BY <1>3, <2>2, <2>3
  <2>5. h + s <= d
    BY <2>4
  <2> QED
    BY <2>1, <2>3, <2>5
<1>5. Cardinality(Hanging') + Strange' <= bad'
  BY <1>1, <1>4
<1> QED
  BY <1>5 DEF SlotsOk

LEMMA StillLive == ASSUME Still PROVE Live' = Live
BY DEF Still, Live

LEMMA AloneLive ==
    ASSUME NEW s \in Slots, Alone(s), pc[s] # "none", pc'[s] # "none"
    PROVE  Live' = Live
<1>1. \A r \in Slots : pc'[r] # "none" <=> pc[r] # "none"
  BY DEF Alone
<1> QED
  BY <1>1 DEF Live

LEMMA MainSlots ==
    ASSUME ThreadsOk, ServerOk, SlotsOk, Main
    PROVE  SlotsOk'
<1>0. None \notin Slots /\ Cardinality(Hanging) \in Nat /\ Strange \in {0, 1} /\ bad \in Nat
      /\ buse \in [Slots -> BOOLEAN] /\ Live \subseteq Slots
  BY NetFacts, SlotsFinite DEF Hanging, Strange, ServerOk, Live
<1>1. CASE Flush \/ Overflow \/ TimerRequest
  <2>1. Still /\ UNCHANGED <<buse, va, bad>> /\ (msg' = msg \/ msg' = None)
    BY <1>1, MainStill DEF Flush, Overflow, TimerRequest
  <2>2. Strange' + bad <= Strange + bad' /\ bad' \in Int
    BY <1>0, <2>1 DEF Strange
  <2> QED
    BY <2>1, <2>2, StillLive, SlotsKept
<1>2. CASE Block
  <2>1. PICK s \in Slots : ~buse[s] /\ va' = s /\ buse' = [buse EXCEPT ![s] = TRUE]
    BY <1>2 DEF Block
  <2>2. Live' = Live /\ UNCHANGED <<msg, bad>>
    BY <1>2, MainStill, StillLive DEF Block
  <2>3. va = None
    BY <1>2 DEF Block, AboutToBlock, Runs, ServerOk
  <2>4. s \notin Live
    BY <2>1 DEF SlotsOk
  <2>5. Hanging' = Hanging
    BY <1>0, <2>1, <2>2, <2>3, <2>4 DEF Hanging
  <2>6. \A r \in Live' : buse'[r] /\ r # va'
    BY <1>0, <2>1, <2>2, <2>4 DEF SlotsOk
  <2> QED
    BY <1>0, <2>1, <2>2, <2>5, <2>6 DEF SlotsOk, Strange
<1>3. CASE TimerAnswered
  <2>1. /\ buse' = [buse EXCEPT ![va] = FALSE] /\ va' = None /\ UNCHANGED <<msg, bad>>
        /\ va \in Slots
    BY <1>3 DEF TimerAnswered, put_buffer, Runs, ServerOk
  <2>2. Live' = Live
    BY <1>3, MainStill, StillLive
  <2>3. Hanging' = Hanging
    BY <1>0, <2>1, <2>2 DEF Hanging
  <2>4. \A r \in Live' : buse'[r] /\ r # va'
    BY <1>0, <2>1, <2>2 DEF SlotsOk
  <2> QED
    BY <2>1, <2>3, <2>4 DEF SlotsOk, Strange
<1>4. CASE Invalid
  <2>1. /\ msg # None /\ msg.whom = "stranger" /\ va' = None /\ msg' = None /\ va \in Slots
        /\ buse' = IF msg.reqno = "timer" THEN [buse EXCEPT ![va] = FALSE] ELSE buse
    BY <1>4 DEF Invalid, put_buffer, Received, Runs, ServerOk
  <2>2. Live' = Live /\ bad' = bad
    BY <1>4, MainStill, StillLive
  <2>3. \A r \in Live' : buse'[r] /\ r # va'
    BY <1>0, <2>1, <2>2 DEF SlotsOk
  <2>4. Hanging' \subseteq Hanging \cup {va} /\ Hanging \subseteq Slots /\ IsFiniteSet(Hanging)
    BY <1>0, <2>1, <2>2, SlotsFinite DEF Hanging
  <2>5. Cardinality(Hanging') <= Cardinality(Hanging) + 1
    <3>1. /\ IsFiniteSet(Hanging \cup {va})
          /\ \/ Cardinality(Hanging \cup {va}) = Cardinality(Hanging)
             \/ Cardinality(Hanging \cup {va}) = Cardinality(Hanging) + 1
      BY <2>4, FS_AddElement
    <3>2. /\ Cardinality(Hanging') <= Cardinality(Hanging \cup {va})
          /\ Cardinality(Hanging') \in Nat /\ Cardinality(Hanging \cup {va}) \in Nat
      BY <2>4, <3>1, FS_Subset, FS_CardinalityType
    <3> QED
      BY <1>0, <3>1, <3>2
  <2>6. Strange' = 0 /\ Cardinality(Hanging') \in Nat
    <3>1. Hanging' \in SUBSET Slots
      BY <2>1, <2>4
    <3> QED
      BY <2>1, <3>1, SlotsFinite DEF Strange
  <2>7. Cardinality(Hanging') + Strange' <= bad'
    <3>1. CASE msg.reqno = "timer"
      <4>1. Hanging' = Hanging
        BY <1>0, <2>1, <2>2, <3>1 DEF Hanging
      <4>2. Cardinality(Hanging) + Strange <= bad
        BY DEF SlotsOk
      <4> QED
        BY <1>0, <2>2, <2>6, <4>1, <4>2
    <3>2. CASE msg.reqno # "timer"
      <4>1. Strange = 1
        BY <2>1, <3>2 DEF Strange
      <4> QED
        BY <1>0, <2>2, <2>5, <2>6, <4>1 DEF SlotsOk
    <3> QED
      BY <3>1, <3>2
  <2> QED
    BY <2>1, <2>3, <2>7 DEF SlotsOk
<1>5. CASE Request
  <2>1. /\ va \in Slots /\ va # main /\ Slots \subseteq Threads /\ main \in Threads /\ main \notin Slots
        /\ pc = [t \in Threads |-> pc[t]]
    BY <1>5, NetFacts DEF Request, ForThread, Received, Runs, ServerOk, ThreadsOk
  <2>3. pc' = [pc EXCEPT ![va] = "start", ![main] = "flush"]
    BY <1>5 DEF Request
  <2>4. va' = None /\ msg' = None /\ UNCHANGED <<buse, bad>> /\ buse[va]
    BY <1>0, <1>5, <2>1 DEF Request, envs, SlotsOk
  <2>5. \A r \in Slots : pc'[r] = IF r = va THEN "start" ELSE pc[r]
    BY <2>1, <2>3
  <2>6. Live' = Live \cup {va}
    BY <2>1, <2>5 DEF Live
  <2>7. Hanging' = Hanging
    BY <2>1, <2>4, <2>6, <1>0 DEF Hanging
  <2>8. \A r \in Live' : buse'[r] /\ r # va'
    <3>1. \A r \in Live' : buse[r] /\ r \in Slots
      BY <1>0, <2>1, <2>4, <2>6 DEF SlotsOk
    <3> QED
      BY <1>0, <2>4, <3>1
  <2>9. Strange' = 0
    BY <2>4 DEF Strange
  <2>10. Cardinality(Hanging') + Strange' <= bad'
    BY <1>0, <2>4, <2>7, <2>9 DEF SlotsOk
  <2> QED
    BY <2>4, <2>8, <2>10 DEF SlotsOk
<1> QED
  BY <1>1, <1>2, <1>3, <1>4, <1>5 DEF Main

LEMMA ThreadSlots ==
    ASSUME ThreadsOk, ServerOk, SlotsOk, Thread
    PROVE  SlotsOk'
<1>1. CASE Live' = Live /\ UNCHANGED <<buse, va, msg, bad>>
  <2>1. Strange' + bad <= Strange + bad' /\ bad' \in Int
    BY <1>1 DEF ServerOk, Strange
  <2> QED
    BY <1>1, <2>1, SlotsKept
<1>2. CASE Quiet
  BY <1>1, <1>2, StillLive, AloneLive DEF Quiet
<1>3. ASSUME NEW s \in Slots, Answer(s) PROVE SlotsOk'
  <2>1. Alone(s) /\ buse' = buse /\ pc[s] # "none" /\ pc'[s] # "none"
    BY <1>3, AnswerAlone
  <2> QED
    BY <1>1, <2>1, AloneLive DEF Alone
<1>5. ASSUME NEW s \in Slots, End(s) PROVE SlotsOk'
  <2>1. Alone(s) /\ pc[s] = "end" /\ pc'[s] = "none" /\ buse' = [buse EXCEPT ![s] = FALSE]
    BY <1>5, EndAlone
  <2>2. Live' = Live \ {s} /\ s \in Live
    BY <2>1 DEF Live, Alone
  <2>6. pc[main] \in MainPlaces
    BY NetFacts DEF ThreadsOk, ThreadOk
  <2>3. s # va /\ UNCHANGED <<va, msg, bad>> /\ buse \in [Slots -> BOOLEAN]
        /\ (va # None => va \in Slots) /\ Live \subseteq Slots
    BY <2>1, <2>2, <2>6 DEF SlotsOk, Alone, ServerOk, Live, MainPlaces
  <2>4. Hanging' = Hanging
    BY <2>1, <2>2, <2>3 DEF Hanging
  <2>5. (\A r \in Live' : buse'[r] /\ r # va') /\ (va' # None => buse'[va'])
    BY <2>1, <2>2, <2>3 DEF SlotsOk
  <2> QED
    BY <2>3, <2>4, <2>5 DEF SlotsOk, Strange
<1> QED
  BY <1>2, <1>3, <1>5, ThreadQuiet

(* A stranger sends one message more, and nobody else a stranger's.        *)
LEMMA EnvironmentSlots ==
    ASSUME ServerOk, SlotsOk,
           \/ \E c \in Clients : ClientSends(c) \/ ClientReceives(c)
           \/ \E c \in Peers, p \in Packets : InputSends(c, p)
           \/ TimerSends \/ TimerReceives \/ StrangerSends \/ OutputReceives
    PROVE  SlotsOk'
<1>1. Live' = Live /\ UNCHANGED <<buse, va>>
  BY EnvironmentsSame DEF Live
<1>2. bad \in Nat /\ Strange \in {0, 1}
  BY DEF ServerOk, Strange
<1>3. ASSUME NEW r, NEW w, NEW p, Send(Message(r, w, p)), w # "stranger", bad' = bad PROVE SlotsOk'
  <2>1. Strange' = 0
    BY <1>3, MessageFacts DEF Send, Strange
  <2> QED
    BY <1>1, <1>2, <1>3, <2>1, SlotsKept
<1>4. CASE StrangerSends
  <2>1. Strange = 0 /\ Strange' \in {0, 1}
    BY <1>4 DEF StrangerSends, Send, Strange
  <2>2. Strange' + bad <= Strange + bad' /\ bad' \in Int
    <3>1. CASE Send(Message("timer", "stranger", None)) /\ UNCHANGED bad
      <4>1. Strange' = 0
        BY <3>1, MessageFacts DEF Send, Strange
      <4> QED
        BY <1>2, <2>1, <3>1, <4>1
    <3>2. CASE bad' = bad + 1
      <4>1. PICK s \in {0, 1} : s = Strange'
        BY <2>1
      <4>2. s + bad <= Strange + bad' /\ bad' \in Int
        BY <1>2, <2>1, <3>2
      <4> QED
        BY <4>1, <4>2
    <3> QED
      BY <1>4, <3>1, <3>2 DEF StrangerSends
  <2> QED
    BY <1>1, <2>2, SlotsKept
<1>5. CASE UNCHANGED <<msg, bad>>
  <2>1. Strange' = Strange
    BY <1>5 DEF Strange
  <2> QED
    BY <1>1, <1>2, <1>5, <2>1, SlotsKept
<1>6. ASSUME NEW c \in Clients, ClientSends(c) PROVE SlotsOk'
  BY <1>3, <1>6, NetFacts DEF ClientSends
<1>7. ASSUME NEW c \in Peers, NEW p \in Packets, InputSends(c, p) PROVE SlotsOk'
  BY <1>3, <1>7, NetFacts DEF InputSends, envs
<1>8. CASE TimerSends
  BY <1>3, <1>8 DEF TimerSends
<1> QED
  BY <1>4, <1>5, <1>6, <1>7, <1>8 DEF ClientReceives, TimerReceives, OutputReceives

-----------------------------------------------------------------------------
(* The requests of each client.                                            *)
OneCall(c) == Cardinality(Serving(c)) + Called(c) = IF client[c] = "idle" THEN 0 ELSE 1

LEMMA CallKept ==
    ASSUME NEW c \in Clients, OneCall(c), Serving(c)' = Serving(c), Called(c)' = Called(c),
           client'[c] = "idle" <=> client[c] = "idle"
    PROVE  OneCall(c)'
BY DEF OneCall

LEMMA StillServing ==
    ASSUME Still, NEW c PROVE Serving(c)' = Serving(c)
BY DEF Still, Serving

LEMMA AloneServing ==
    ASSUME NEW c, NEW s \in Slots, Alone(s),
           \/ args'[s] = args[s] /\ (args[s].reqno = "input" \/ (pc[s] # "end" /\ pc'[s] # "end"))
           \/ args'[s] = None /\ pc[s] = "end"
    PROVE  Serving(c)' = Serving(c)
<1>1. args[s] # None
  BY RequestFacts DEF Alone
<1>2. \A r \in Slots : r # s => pc'[r] = pc[r] /\ args'[r] = args[r]
  BY DEF Alone
<1>3. \A r \in Slots :
         (args'[r] # None /\ args'[r].whom = c /\ args'[r].reqno # "input" /\ pc'[r] # "end")
         <=> (args[r] # None /\ args[r].whom = c /\ args[r].reqno # "input" /\ pc[r] # "end")
  BY <1>1, <1>2
<1> QED
  BY <1>3 DEF Serving

(* The slot that serve has in hand has no thread.                          *)
LEMMA InHand ==
    ASSUME ThreadsOk, ServerOk, SlotsOk, Request
    PROVE  /\ va \in Slots /\ pc[va] = "none" /\ args[va] = None /\ msg \in Requests
           /\ \A r \in Slots \ {va} : pc'[r] = pc[r] /\ args'[r] = args[r]
           /\ args'[va] = msg /\ msg' = None /\ UNCHANGED client
           /\ pc'[va] = "start"
<1>1. va \in Slots /\ va # main /\ Slots \subseteq Threads /\ main \in Threads /\ main \notin Slots
      /\ pc = [t \in Threads |-> pc[t]] /\ args = [t \in Threads |-> args[t]]
  BY NetFacts DEF Request, ForThread, Received, Runs, ServerOk, ThreadsOk
<1>2. PICK n \in Slots : n = va
  BY <1>1
<1>3. n \notin Live /\ ThreadOk(n)
  BY <1>1, <1>2 DEF SlotsOk, ThreadsOk
<1>4. pc[n] = "none" /\ pc[n] \in Places(args[n])
  BY <1>1, <1>3 DEF Live, ThreadOk
<1>5. args[n] = None
  BY <1>4 DEF Places
<1>6. msg \in Requests
  <2>1. msg # None /\ msg.whom # "stranger" /\ msg.reqno # "timer" /\ msg \in Messages
    BY DEF Request, ForThread, Received, ServerOk
  <2> QED
    BY <2>1, MessageFacts DEF Messages
<1> QED
  BY <1>1, <1>2, <1>4, <1>5, <1>6 DEF Request, envs

LEMMA RequestCalls ==
    ASSUME ThreadsOk, ServerOk, SlotsOk, Request, NEW c \in Clients, OneCall(c)
    PROVE  OneCall(c)'
<1>1. /\ va \in Slots /\ pc[va] = "none" /\ args[va] = None /\ msg \in Requests
      /\ \A r \in Slots \ {va} : pc'[r] = pc[r] /\ args'[r] = args[r]
      /\ args'[va] = msg /\ msg' = None /\ client' = client
      /\ pc'[va] = "start"
  BY InHand
<1>2. msg # None /\ msg.reqno \in {"call", "recv", "input"}
  BY <1>1, RequestFacts
<1>3. pc'[va] # "end"
  BY <1>1
<1>4. va \notin Serving(c) /\ Serving(c) \in SUBSET Slots
  BY <1>1 DEF Serving
<1>5. Called(c)' = 0
  BY <1>1 DEF Called
<1>6. CASE msg.whom = c /\ msg.reqno # "input"
  <2>1. Serving(c)' = Serving(c) \cup {va}
    BY <1>1, <1>2, <1>3, <1>6 DEF Serving
  <2>2. Called(c) = 1
    BY <1>2, <1>6 DEF Called
  <2>3. Cardinality(Serving(c) \cup {va}) = Cardinality(Serving(c)) + 1
        /\ Cardinality(Serving(c)) \in Nat
    BY <1>4, SlotsFinite, FS_AddElement
  <2>4. Cardinality(Serving(c) \cup {va}) + 0 = Cardinality(Serving(c)) + Called(c)
    BY <2>2, <2>3
  <2>5. Cardinality(Serving(c) \cup {va}) + 0 = IF client[c] = "idle" THEN 0 ELSE 1
    BY <2>4 DEF OneCall
  <2> QED
    BY <1>1, <1>5, <2>1, <2>5 DEF OneCall
<1>7. CASE ~(msg.whom = c /\ msg.reqno # "input")
  <2>1. Serving(c)' = Serving(c)
    BY <1>1, <1>2, <1>3, <1>7 DEF Serving
  <2>2. Called(c) = 0
    BY <1>7 DEF Called
  <2> QED
    BY <1>1, <1>5, <2>1, <2>2, CallKept
<1> QED
  BY <1>6, <1>7

LEMMA MainCalls ==
    ASSUME ThreadsOk, ServerOk, SlotsOk, Main, NEW c \in Clients, OneCall(c)
    PROVE  OneCall(c)'
<1>1. CASE Flush \/ Block \/ Overflow \/ TimerRequest \/ TimerAnswered \/ Invalid
  <2>1. Serving(c)' = Serving(c) /\ client' = client
    BY <1>1, MainStill, StillServing
  <2>2. CASE msg' = msg
    BY <2>1, <2>2, CallKept DEF Called
  <2>3. CASE msg' # msg
    <3>1. msg' = None /\ msg.whom \in {"timer", "stranger"}
      BY <1>1, <2>3 DEF Flush, Block, Overflow, TimerRequest, TimerAnswered, Invalid
    <3>2. Called(c)' = 0 /\ Called(c) = 0
      BY <3>1, NetFacts DEF Called
    <3> QED
      BY <2>1, <3>2, CallKept
  <2> QED
    BY <2>2, <2>3
<1> QED
  BY <1>1, RequestCalls DEF Main

LEMMA AnswerCalls ==
    ASSUME ThreadsOk, ServerOk, NEW s \in Slots, Answer(s), NEW c \in Clients, OneCall(c)
    PROVE  OneCall(c)'
<1>1. /\ Alone(s) /\ args'[s] = args[s] /\ pc[s] = "answer" /\ pc'[s] = "end" /\ cur_tc = s
      /\ client[args[s].whom] = "recv" /\ client' = [client EXCEPT ![args[s].whom] = "idle"]
  BY AnswerAlone DEF Alone
<1>2. args[s] \in Requests /\ args[s] # None /\ args[s].reqno # "input"
  BY <1>1, AtWork, RequestFacts
<1>3. \A r \in Slots \ {s} : pc'[r] = pc[r] /\ args'[r] = args[r]
  BY <1>1 DEF Alone
<1>4. Called(c)' = Called(c) /\ Called(c) \in {0, 1}
  BY <1>1 DEF Alone, Called
<1>5. Serving(c) \in SUBSET Slots /\ Serving(c)' = Serving(c) \ {s}
  BY <1>1, <1>2, <1>3 DEF Serving
<1>6. CASE args[s].whom = c
  <2>1. s \in Serving(c) /\ client'[c] = "idle" /\ client[c] # "idle"
    BY <1>1, <1>2, <1>6 DEF Serving, ServerOk
  <2>2. /\ Cardinality(Serving(c) \ {s}) = Cardinality(Serving(c)) - 1
        /\ Cardinality(Serving(c)) \in Nat /\ Cardinality(Serving(c) \ {s}) \in Nat
    BY <1>5, <2>1, SlotsFinite, FS_RemoveElement
  <2>3. Cardinality(Serving(c)) + Called(c) = 1
    BY <2>1 DEF OneCall
  <2>4. Cardinality(Serving(c) \ {s}) + Called(c) = 0
    BY <1>4, <2>2, <2>3
  <2> QED
    BY <1>4, <1>5, <2>1, <2>4 DEF OneCall
<1>7. CASE args[s].whom # c
  <2>1. Serving(c)' = Serving(c) /\ client'[c] = client[c]
    BY <1>1, <1>5, <1>7 DEF Serving, ServerOk
  <2> QED
    BY <1>4, <2>1, CallKept
<1> QED
  BY <1>6, <1>7

LEMMA ThreadCalls ==
    ASSUME ThreadsOk, ServerOk, Thread, NEW c \in Clients, OneCall(c)
    PROVE  OneCall(c)'
<1>1. CASE Serving(c)' = Serving(c) /\ UNCHANGED <<msg, client>>
  BY <1>1, CallKept DEF Called
<1>2. CASE Quiet
  BY <1>1, <1>2, StillServing, AloneServing DEF Quiet
<1>3. ASSUME NEW s \in Slots, End(s) PROVE OneCall(c)'
  BY <1>1, <1>3, EndAlone, AloneServing DEF Alone
<1> QED
  BY <1>2, <1>3, AnswerCalls, ThreadQuiet

LEMMA EnvironmentCalls ==
    ASSUME ServerOk, NEW c \in Clients, OneCall(c),
           \/ \E d \in Clients : ClientSends(d) \/ ClientReceives(d)
           \/ \E d \in Peers, p \in Packets : InputSends(d, p)
           \/ TimerSends \/ TimerReceives \/ StrangerSends \/ OutputReceives
    PROVE  OneCall(c)'
<1>1. Serving(c)' = Serving(c)
  BY EnvironmentsSame DEF Serving
<1>2. CASE client' = client /\ msg' = msg
  BY <1>1, <1>2, CallKept DEF Called
<1>3. ASSUME NEW r, NEW w, NEW p, Send(Message(r, w, p)), w # c \/ r = "input",
             client'[c] = "idle" <=> client[c] = "idle"
      PROVE  OneCall(c)'
  <2>1. Called(c) = 0 /\ Called(c)' = 0
    BY <1>3, MessageFacts DEF Send, Called
  <2> QED
    BY <1>1, <1>3, <2>1, CallKept
<1>4. ASSUME NEW d \in Clients, ClientSends(d) PROVE OneCall(c)'
  <2>1. /\ client[d] = "idle" /\ client' = [client EXCEPT ![d] = "sent"]
        /\ \E r \in {"call", "recv"} : Send(Message(r, d, None))
    BY <1>4 DEF ClientSends
  <2>2. PICK r \in {"call", "recv"} : Send(Message(r, d, None))
    BY <2>1
  <2>3. CASE d # c
    BY <1>3, <2>1, <2>2, <2>3 DEF ServerOk
  <2>4. CASE d = c
    <3>1. Called(c) = 0 /\ Called(c)' = 1
      <4>1. msg = None /\ msg' = Message(r, c, None)
        BY <2>2, <2>4 DEF Send
      <4>2. msg' # None
        <5>1. Message(r, c, None) \in [reqno : {"call", "recv", "input", "timer"}, pkt : Packets \cup {None},
                             whom : Clients \cup {"timer", "stranger"}]
          BY DEF Message
        <5> QED
          BY <4>1, <5>1, NetAssumption
      <4> QED
        BY <4>1, <4>2, MessageFacts DEF Called
    <3>2. client'[c] = "sent" /\ client[c] = "idle"
      BY <2>1, <2>4 DEF ServerOk
    <3>3. Cardinality(Serving(c)) \in Nat /\ Cardinality(Serving(c)) + Called(c) = 0
      BY <3>2, SlotsFinite DEF OneCall, Serving
    <3>4. Cardinality(Serving(c)) + 1 = 1
      BY <3>1, <3>3
    <3> QED
      BY <1>1, <3>1, <3>2, <3>4 DEF OneCall
  <2> QED
    BY <2>3, <2>4
<1>5. ASSUME NEW d \in Clients, ClientReceives(d) PROVE OneCall(c)'
  <2>1. client[d] = "sent" /\ client' = [client EXCEPT ![d] = "recv"] /\ msg' = msg
    BY <1>5 DEF ClientReceives
  <2>2. client'[c] = "idle" <=> client[c] = "idle"
    BY <2>1 DEF ServerOk
  <2> QED
    BY <1>1, <2>1, <2>2, CallKept DEF Called
<1>6. ASSUME NEW d \in Peers, NEW p \in Packets, InputSends(d, p) PROVE OneCall(c)'
  BY <1>3, <1>6 DEF InputSends, envs
<1>7. CASE TimerSends
  BY <1>3, <1>7, NetFacts DEF TimerSends
<1>8. CASE StrangerSends
  <2>1. PICK r \in {"timer", "call"} : Send(Message(r, "stranger", None))
    BY <1>8 DEF StrangerSends
  <2> QED
    BY <1>3, <1>8, <2>1, NetFacts DEF StrangerSends
<1> QED
  BY <1>2, <1>4, <1>5, <1>6, <1>7, <1>8 DEF TimerReceives, OutputReceives

LEMMA CallsStep ==
    ASSUME ThreadsOk, ServerOk, SlotsOk, CallsOk, Next
    PROVE  CallsOk'
<1>1. ASSUME NEW c \in Clients PROVE OneCall(c)'
  <2>1. OneCall(c)
    BY DEF CallsOk, OneCall
  <2> QED
    BY <2>1, MainCalls, ThreadCalls, EnvironmentCalls DEF Next
<1> QED
  BY <1>1 DEF CallsOk, OneCall

-----------------------------------------------------------------------------
LEMMA NetStep ==
    ASSUME NetInv, [Next]_vars
    PROVE  NetInv'
<1>1. CASE Next
  BY <1>1, ThreadsStep, LineStep, BoxesStep, MainServer, ThreadServer, EnvironmentServer,
     MainSlots, ThreadSlots, EnvironmentSlots, CallsStep DEF NetInv, Next
<1>2. CASE UNCHANGED vars
  <2>1. ThreadsOk'
    BY <1>2, ThreadsSame DEF NetInv, vars, sysVars, threadVars
  <2>2. ServerOk'
    BY <1>2 DEF NetInv, vars, envs, ServerOk
  <2>3. BoxesOk'
    BY <1>2 DEF NetInv, vars, sysVars, BoxesOk
  <2>4. Live' = Live /\ Hanging' = Hanging /\ Strange' = Strange
    BY <1>2 DEF vars, Live, Hanging, Strange
  <2>5. SlotsOk'
    BY <1>2, <2>4 DEF NetInv, vars, envs, SlotsOk
  <2>6. ASSUME NEW c PROVE Serving(c)' = Serving(c) /\ Called(c)' = Called(c)
    BY <1>2 DEF vars, Serving, Called
  <2>7. CallsOk'
    BY <1>2, <2>6 DEF NetInv, vars, envs, CallsOk
  <2>8. LineOk'
    BY <1>2, LineKept DEF NetInv, vars, sysVars, threadVars
  <2> QED
    BY <2>1, <2>2, <2>3, <2>5, <2>7, <2>8 DEF NetInv
<1> QED
  BY <1>1, <1>2

-----------------------------------------------------------------------------
LEMMA NetBegins == Init => NetInv
<1> SUFFICES ASSUME Init PROVE NetInv
  OBVIOUS
<1>1. /\ Slots \subseteq Threads /\ main \in Threads /\ tcpip \in Threads /\ main # tcpip
      /\ main \notin Slots /\ tcpip \notin Slots /\ MBOXSLOTS \in Nat /\ MBOXSLOTS > 0
      /\ Boxes = Clients \cup {"tcpip"} /\ "tcpip" \notin Clients
  BY NetFacts
<1>2. /\ thread_queue = <<tcpip>> /\ cur_tc = main
      /\ pc = [t \in Threads |-> CASE t = main -> "flush" [] t = tcpip -> "fetch" [] OTHER -> "none"]
      /\ args = [t \in Threads |-> None]
      /\ tc_wait_addr = [t \in Threads |-> IF t = tcpip THEN queued_msg("tcpip") ELSE None]
  BY DEF Init
<1>3. ThreadsOk
  <2>1. Queued(cur_tc, thread_queue)
    <3>1. ToSet(<<tcpip>>) = {tcpip}
      BY DEF ToSet
    <3> QED
      BY <1>1, <1>2, <3>1 DEF Queued
  <2>2. ASSUME NEW t \in Threads PROVE ThreadOk(t)
    BY <1>1, <1>2, <2>2 DEF ThreadOk, Places, Waiting, Unyielding, Wanted, MainPlaces, TcpipPlaces
  <2> QED
    BY <1>2, <2>1, <2>2 DEF ThreadsOk
<1>4. /\ buse = [s \in Slots |-> FALSE] /\ va = None /\ msg = None /\ bad = 0
      /\ client = [c \in Clients |-> "idle"]
      /\ pc[main] = "flush" /\ \A s \in Slots : pc[s] = "none" /\ args[s] = None
  BY <1>1 DEF Init
<1>5. ServerOk
  BY <1>4, NetFacts DEF ServerOk
<1>6. mboxes \in [Boxes -> Ring] /\ \A m \in Boxes : Fill(mboxes[m]) = 0
  BY <1>1 DEF Init, sys_mbox_new, Ring, Fill, EmptyRing
<1>7. /\ sems \in [Semaphores -> [counter : Int, waiters : {0, 1}]]
      /\ \A m \in Boxes : sems[queued_msg(m)].counter = 0 /\ sems[free_msg(m)].counter = MBOXSLOTS
  <2>1. sems = [s \in Semaphores |->
                  CASE s \in {free_msg(m) : m \in Boxes} -> sys_sem_new(MBOXSLOTS)
                    [] s = queued_msg("tcpip") -> [counter |-> 0, waiters |-> 1]
                    [] OTHER -> sys_sem_new(0)]
    BY DEF Init
  <2>4. \A m \in Boxes : /\ queued_msg(m) \in Semaphores /\ free_msg(m) \in Semaphores
                         /\ queued_msg(m) \notin {free_msg(n) : n \in Boxes}
    BY SemaphoreFacts
  <2> QED
    BY <1>1, <2>1, <2>4 DEF sys_sem_new
<1>8. BoxesOk
  BY <1>1, <1>6, <1>7 DEF BoxesOk
<1>9. Live = {} /\ Hanging = {} /\ Strange = 0
  BY <1>4 DEF Live, Hanging, Strange
<1>10. SlotsOk
  BY <1>4, <1>9, FS_EmptySet DEF SlotsOk
<1>11. ASSUME NEW c PROVE Serving(c) = {} /\ Called(c) = 0
  BY <1>4 DEF Serving, Called
<1>12. CallsOk
  BY <1>4, <1>11, FS_EmptySet DEF CallsOk
<1>13. LineOk
  <2>1. cur_tc \in Threads /\ thread_queue \in Seq(Threads) /\ Len(thread_queue) = 1
        /\ thread_queue[1] = tcpip
    BY <1>1, <1>2
  <2>2. Len(Line) = 2 /\ Line[1] = main /\ Line[2] = tcpip
    BY <1>2, <2>1, InLine DEF Line
  <2>3. Once(Line)
    BY <1>1, <2>2 DEF Once
  <2> QED
    BY <1>4, <2>3 DEF LineOk
<1> QED
  BY <1>3, <1>5, <1>8, <1>10, <1>12, <1>13 DEF NetInv

LEMMA NetInvariance == FairSpec => []NetInv
  BY NetBegins, NetStep, PTL DEF FairSpec

(* Slots are in use for a reason, but for one that each stranger's message *)
(* without a page keeps (serve, get_buffer, put_buffer).                   *)
THEOREM NetSlots == FairSpec => []SlotsExact
<1>1. NetInv => SlotsExact
  <2> SUFFICES ASSUME NetInv PROVE SlotsExact
    OBVIOUS
  <2>1. SlotsOk /\ Strange \in Nat /\ Cardinality(Hanging) \in Nat /\ bad \in Nat
    BY SlotsFinite DEF NetInv, Hanging, Strange, ServerOk
  <2> QED
    BY <2>1 DEF SlotsOk, SlotsExact
<1> QED
  BY <1>1, NetInvariance, PTL

(* A client that waits has one request in the server, and no other has.    *)
THEOREM NetCalls == FairSpec => []EachCallServedOnce
<1>1. NetInv => EachCallServedOnce
  <2> SUFFICES ASSUME NetInv, NEW c \in Clients
               PROVE  Cardinality({s \in Live : (args[s] # None /\ args[s].whom = c /\ args[s].reqno # "input")
                                                /\ pc[s] # "end"})
                        + (IF msg # None /\ msg.whom = c /\ msg.reqno # "input" THEN 1 ELSE 0)
                      = IF client[c] = "idle" THEN 0 ELSE 1
    BY DEF EachCallServedOnce
  <2>1. \A s \in Slots : pc[s] \in Places(args[s])
    BY NetFacts DEF NetInv, ThreadsOk, ThreadOk
  <2>2. \A s \in Slots : args[s] # None => pc[s] # "none"
    BY <2>1 DEF Places
  <2>3. {s \in Live : (args[s] # None /\ args[s].whom = c /\ args[s].reqno # "input") /\ pc[s] # "end"}
        = Serving(c)
    BY <2>2 DEF Live, Serving
  <2> QED
    BY <2>3 DEF NetInv, CallsOk, Called
<1> QED
  BY <1>1, NetInvariance, PTL

-----------------------------------------------------------------------------
(* While the main thread executes, the thread of a request is one that     *)
(* serves a client or one that waits to hand over a packet.                *)
Callers == {s \in Live : args[s].reqno # "input"}
Busy == {c \in Clients : client[c] # "idle"}

LEMMA AtMainsTurn ==
    ASSUME NetInv, cur_tc = main, NEW s \in Live
    PROVE  /\ s \in Slots /\ args[s].whom \in Clients
           /\ IF args[s].reqno = "input" THEN s \in Stuck ELSE s \in Serving(args[s].whom)
<1>1. s \in Slots /\ s # main /\ s # tcpip /\ pc[s] # "none" /\ ThreadOk(s) /\ pc[s] # "start"
  BY NetFacts, NoneNew DEF Live, NetInv, ThreadsOk
<1>2. args[s] \in Requests \cup {None} /\ pc[s] \in Places(args[s]) /\ pc[s] \notin Unyielding
  BY <1>1 DEF ThreadOk
<1>3. args[s] \in Requests
  BY <1>1, <1>2 DEF Places
<1>4. args[s] # None /\ args[s].whom \in Clients
  BY <1>3, RequestFacts
<1>5. CASE args[s].reqno = "input"
  <2>1. pc[s] \in {"input", "fin", "err"}
    BY <1>1, <1>2, <1>4, <1>5 DEF Places, Unyielding
  <2>2. tc_wait_addr[s] = Wanted(s)
    BY <1>1, <2>1 DEF ThreadOk, Waiting
  <2>3. Wanted(s) = free_msg(args[s].whom)
    BY <1>1, <2>1 DEF Wanted
  <2> QED
    BY <1>1, <1>4, <1>5, <2>2, <2>3 DEF Stuck
<1>6. CASE args[s].reqno # "input"
  <2>1. pc[s] # "end"
    BY <1>2 DEF Unyielding
  <2> QED
    BY <1>1, <1>4, <1>6, <2>1 DEF Serving
<1> QED
  BY <1>5, <1>6

(* Each of the first serves another client that waits.                     *)
LEMMA OneCaller ==
    ASSUME NetInv, cur_tc = main
    PROVE  Cardinality(Callers) <= Cardinality(Busy)
<1> DEFINE f == [s \in Callers |-> args[s].whom]
<1>1. ASSUME NEW s \in Callers
      PROVE  args[s].whom \in Clients /\ s \in Serving(args[s].whom)
  BY AtMainsTurn DEF Callers
<1>2. ASSUME NEW c \in Clients, NEW s \in Serving(c)
      PROVE  c \in Busy /\ \A r \in Serving(c) : s = r
  <2>1. Cardinality(Serving(c)) \in Nat /\ IsFiniteSet(Serving(c)) /\ Called(c) \in {0, 1}
        /\ Cardinality(Serving(c)) + Called(c) = IF client[c] = "idle" THEN 0 ELSE 1
    BY SlotsFinite DEF NetInv, CallsOk, Serving, Called
  <2>2. Cardinality(Serving(c)) # 0
    BY <2>1, FS_EmptySet
  <2>3. Cardinality(Serving(c)) = 1 /\ client[c] # "idle"
    BY <2>1, <2>2
  <2>4. PICK x : Serving(c) = {x}
    BY <2>1, <2>3, FS_Singleton
  <2> QED
    BY <2>3, <2>4 DEF Busy
<1>3. ASSUME NEW s \in Callers, NEW r \in Callers, args[s].whom = args[r].whom PROVE s = r
  BY <1>1, <1>2, <1>3
<1>4. \A s \in Callers : args[s].whom \in Busy
  BY <1>1, <1>2
<1>5. f \in Injection(Callers, Busy)
  BY <1>3, <1>4 DEF Injection, IsInjective
<1>6. IsFiniteSet(Busy)
  BY NetAssumption, FS_Subset DEF Busy
<1> QED
  BY <1>5, <1>6, FS_Injection

(* When no slot is free, each is taken.                                    *)
LEMMA SlotsTaken ==
    ASSUME NetInv, Overflows
    PROVE  QUEUE_SIZE <= Cardinality(Busy) + Cardinality(Stuck) + bad
<1>1. cur_tc = main /\ va = None /\ \A s \in Slots : buse[s]
  BY DEF Overflows, AboutToBlock, Runs, NetInv, ServerOk
<1>2. Slots = (Callers \cup Stuck) \cup Hanging
  <2>1. ASSUME NEW s \in Live PROVE s \in Callers \cup Stuck
    BY <1>1, AtMainsTurn DEF Callers
  <2>2. Live \subseteq Slots /\ Callers \subseteq Live /\ Stuck \subseteq Live /\ Hanging \subseteq Slots
    BY DEF Callers, Stuck, Hanging, Live
  <2>3. \A s \in Slots : s \in Live \/ s \in Hanging
    BY <1>1, NetFacts DEF Hanging
  <2> QED
    BY <2>1, <2>2, <2>3
<1>3. /\ Callers \in SUBSET Slots /\ Stuck \in SUBSET Slots /\ Hanging \in SUBSET Slots
      /\ Callers \cup Stuck \in SUBSET Slots
  BY DEF Callers, Stuck, Hanging, Live
<1>4. /\ Cardinality(Callers \cup Stuck) <= Cardinality(Callers) + Cardinality(Stuck)
      /\ Cardinality(Slots) <= Cardinality(Callers \cup Stuck) + Cardinality(Hanging)
  <2>1. ASSUME NEW S \in SUBSET Slots, NEW T \in SUBSET Slots
        PROVE  Cardinality(S \cup T) <= Cardinality(S) + Cardinality(T)
    <3>1. S \cap T \in SUBSET Slots /\ S \cup T \in SUBSET Slots
      OBVIOUS
    <3>2. /\ Cardinality(S) \in Nat /\ Cardinality(T) \in Nat /\ Cardinality(S \cap T) \in Nat
          /\ IsFiniteSet(S) /\ IsFiniteSet(T) /\ Cardinality(S \cup T) \in Nat
      BY <3>1, SlotsFinite
    <3>3. Cardinality(S \cup T) = Cardinality(S) + Cardinality(T) - Cardinality(S \cap T)
      BY <3>2, FS_Union
    <3> QED
      BY <3>2, <3>3
  <2> QED
    BY <1>2, <1>3, <2>1
<1>5. Cardinality(Callers) <= Cardinality(Busy)
  BY <1>1, OneCaller
<1>6. Cardinality(Hanging) <= bad /\ Cardinality(Hanging) \in Nat /\ bad \in Nat
  <2>1. /\ Cardinality(Hanging) \in Nat /\ Strange \in {0, 1} /\ bad \in Nat
        /\ Cardinality(Hanging) + Strange <= bad
    BY <1>3, SlotsFinite DEF NetInv, SlotsOk, ServerOk, Strange
  <2> QED
    BY <2>1
<1>7. /\ Cardinality(Callers) \in Nat /\ Cardinality(Stuck) \in Nat
      /\ Cardinality(Callers \cup Stuck) \in Nat /\ Cardinality(Busy) \in Nat
  <2>1. IsFiniteSet(Busy)
    BY NetAssumption, FS_Subset DEF Busy
  <2> QED
    BY <1>3, <2>1, SlotsFinite, FS_CardinalityType
<1>8. Cardinality(Slots) = QUEUE_SIZE
  BY NetFacts, FS_Interval DEF Slots
<1> QED
  BY <1>4, <1>5, <1>6, <1>7, <1>8, NetFacts

(* A semaphore promises what the mailbox holds.                            *)
LEMMA MailboxesKeepTheirWord ==
    ASSUME NetInv, pc[cur_tc] \in Waiting, CanTake(Wanted(cur_tc))
    PROVE  LET m == Wanted(cur_tc)[2]
           IN  /\ pc[cur_tc] = "fetch" => mboxes[m].head # EmptyRing
               /\ pc[cur_tc] \in {"post", "input", "fin", "err"} => ~FullRing(m)
<1> DEFINE c == IF pc[cur_tc] = "fetch" /\ cur_tc = tcpip THEN "tcpip" ELSE args[cur_tc].whom
<1>1. cur_tc \in Threads /\ ThreadOk(cur_tc) /\ cur_tc # main
  BY Frames, Running DEF NetInv, ThreadsOk, Queued
<1>2. c \in Boxes
  <2>1. CASE cur_tc = tcpip
    <3>1. pc[cur_tc] \in {"fetch", "err"} /\ (pc[cur_tc] = "err" => args[cur_tc].whom \in Clients)
      BY <1>1, <2>1 DEF ThreadOk, Waiting, TcpipPlaces
    <3> QED
      BY <2>1, <3>1, NetFacts
  <2>2. CASE cur_tc \in Slots
    <3>1. args[cur_tc].whom \in Clients
      BY <2>2, AtWork, RequestFacts DEF NetInv, Waiting
    <3>2. cur_tc # tcpip
      BY <2>2, NetFacts
    <3> QED
      BY <3>1, <3>2, NetFacts
  <2> QED
    BY <1>1, <2>1, <2>2 DEF Threads
<1> HIDE DEF c
<1>4. ASSUME NEW m \in Boxes
      PROVE  /\ sems[queued_msg(m)].counter > 0 => mboxes[m].head # EmptyRing
             /\ sems[free_msg(m)].counter > 0 => ~FullRing(m)
  BY FillRange, NetFacts DEF NetInv, BoxesOk, FullRing
<1>5. CASE pc[cur_tc] = "fetch"
  <2>1. Wanted(cur_tc) = queued_msg(c) /\ Wanted(cur_tc)[2] = c
    BY <1>5 DEF Wanted, queued_msg, c
  <2> QED
    BY <1>2, <1>4, <1>5, <2>1 DEF CanTake
<1>6. CASE pc[cur_tc] = "post"
  <2>1. Wanted(cur_tc) = free_msg("tcpip") /\ Wanted(cur_tc)[2] = "tcpip"
    BY <1>6 DEF Wanted, free_msg
  <2> QED
    BY <1>4, <1>6, <2>1, NetFacts DEF CanTake
<1>7. CASE pc[cur_tc] \in {"input", "fin", "err"}
  <2>1. Wanted(cur_tc) = free_msg(c) /\ Wanted(cur_tc)[2] = c
    BY <1>7 DEF Wanted, free_msg, c
  <2> QED
    BY <1>2, <1>4, <1>7, <2>1 DEF CanTake
<1>8. CASE pc[cur_tc] = "posted"
  BY <1>8
<1> QED
  BY <1>5, <1>6, <1>7, <1>8 DEF Waiting

(* get_buffer panics only when each slot is taken by a client that waits,  *)
(* by a packet whose thread waits for room in a mailbox or by a message    *)
(* without a page; and no mailbox is found empty or full against its       *)
(* semaphore.                                                              *)
THEOREM NetPanics == FairSpec => []PanicsOnlyWhenFull
<1>1. NetInv => PanicsOnlyWhenFull
  BY SlotsTaken, MailboxesKeepTheirWord DEF PanicsOnlyWhenFull, Busy
<1> QED
  BY <1>1, NetInvariance, PTL

-----------------------------------------------------------------------------
(* What a ring holds, the oldest first.                                    *)
At(b, k) == LET j == b.head + k - 1 IN IF j < MBOXSLOTS THEN j ELSE j - MBOXSLOTS
Held(b) == [k \in 1..Fill(b) |-> b.msg[At(b, k)]]

LEMMA WrapSlot ==
    ASSUME NEW a \in 0..2 * MBOXSLOTS - 1
    PROVE  a % MBOXSLOTS = IF a < MBOXSLOTS THEN a ELSE a - MBOXSLOTS
<1>1. MBOXSLOTS \in Nat \ {0}
  BY NetFacts
<1>2. CASE a < MBOXSLOTS
  BY <1>1, <1>2
<1>3. CASE a >= MBOXSLOTS
  BY <1>1, <1>3
<1> QED
  BY <1>1, <1>2, <1>3

Listed(b) ==
    LET n == IF b.nextq = b.head THEN MBOXSLOTS
             ELSE (b.nextq + MBOXSLOTS - b.head) % MBOXSLOTS
    IN  IF b.head = EmptyRing THEN << >>
        ELSE [k \in 1..n |-> b.msg[(b.head + k - 1) % MBOXSLOTS]]

LEMMA ListedHeld ==
    ASSUME NEW b \in Ring
    PROVE  Listed(b) = Held(b)
<1> DEFINE n == IF b.nextq = b.head THEN MBOXSLOTS
                ELSE (b.nextq + MBOXSLOTS - b.head) % MBOXSLOTS
<1>1. MBOXSLOTS \in Nat /\ MBOXSLOTS > 0 /\ EmptyRing = 0 - 1
      /\ b.head \in {EmptyRing} \cup 0..MBOXSLOTS - 1 /\ b.nextq \in 0..MBOXSLOTS - 1
  BY NetFacts DEF EmptyRing, Ring
<1>2. Listed(b) = IF b.head = EmptyRing THEN << >>
                  ELSE [k \in 1..n |-> b.msg[(b.head + k - 1) % MBOXSLOTS]]
  BY DEF Listed
<1>3. CASE b.head = EmptyRing
  <2>1. Fill(b) = 0
    BY <1>3 DEF Fill
  <2>2. Held(b) = << >>
    BY <2>1 DEF Held
  <2> QED
    BY <1>2, <1>3, <2>2
<1>4. CASE b.head # EmptyRing
  <2>1. b.head \in 0..MBOXSLOTS - 1
    BY <1>1, <1>4
  <2>2. n = Fill(b)
    <3>1. b.nextq + MBOXSLOTS - b.head \in 0..2 * MBOXSLOTS - 1
      BY <1>1, <2>1
    <3>2. PICK a \in 0..2 * MBOXSLOTS - 1 : a = b.nextq + MBOXSLOTS - b.head
      BY <3>1
    <3>3. a % MBOXSLOTS = IF a < MBOXSLOTS THEN a ELSE a - MBOXSLOTS
      BY WrapSlot
    <3>4. a < MBOXSLOTS <=> b.nextq < b.head
      BY <1>1, <2>1, <3>2
    <3>5. CASE b.nextq = b.head
      BY <1>1, <2>1, <1>4, <3>5 DEF Fill
    <3>6. CASE b.nextq < b.head
      BY <1>1, <2>1, <1>4, <3>2, <3>3, <3>4, <3>6 DEF Fill
    <3>7. CASE b.nextq > b.head
      <4>1. a - MBOXSLOTS = b.nextq - b.head
        BY <1>1, <2>1, <3>2
      <4>2. n = a % MBOXSLOTS
        BY <1>1, <2>1, <3>2, <3>7
      <4> QED
        BY <1>1, <2>1, <1>4, <3>3, <3>4, <3>7, <4>1, <4>2 DEF Fill
    <3> QED
      BY <1>1, <2>1, <3>5, <3>6, <3>7
  <2>3. Fill(b) \in 0..MBOXSLOTS
    BY FillRange
  <2>4. ASSUME NEW k \in 1..Fill(b) PROVE (b.head + k - 1) % MBOXSLOTS = At(b, k)
    <3>1. b.head + k - 1 \in 0..2 * MBOXSLOTS - 1
      BY <1>1, <2>1, <2>3
    <3> QED
      BY <3>1, WrapSlot DEF At
  <2>5. Listed(b) = [k \in 1..Fill(b) |-> b.msg[(b.head + k - 1) % MBOXSLOTS]]
    BY <1>2, <1>4, <2>2
  <2>6. [k \in 1..Fill(b) |-> b.msg[(b.head + k - 1) % MBOXSLOTS]] = Held(b)
    BY <2>4 DEF Held
  <2> QED
    BY <2>5, <2>6
<1> QED
  BY <1>3, <1>4

LEMMA IsAppend ==
    ASSUME NEW S, NEW q \in Seq(S), NEW r \in Seq(S), NEW v \in S, Len(r) = Len(q) + 1,
           \A j \in 1..Len(q) : r[j] = q[j], r[Len(q) + 1] = v
    PROVE  r = Append(q, v)
<1>1. /\ Append(q, v) \in Seq(S) /\ Len(Append(q, v)) = Len(q) + 1 /\ Len(q) \in Nat
      /\ \A j \in 1..Len(q) : Append(q, v)[j] = q[j]
      /\ Append(q, v)[Len(q) + 1] = v
  BY AppendProperties
<1>2. \A j \in 1..Len(r) : r[j] = Append(q, v)[j]
  BY <1>1
<1>3. QED
  BY <1>1, <1>2, SeqEqual

LEMMA IsTail ==
    ASSUME NEW S, NEW q \in Seq(S), NEW r \in Seq(S), q # << >>, Len(r) = Len(q) - 1,
           \A j \in 1..Len(r) : r[j] = q[j + 1]
    PROVE  r = Tail(q)
<1>1. /\ Tail(q) \in Seq(S) /\ Len(Tail(q)) = Len(q) - 1
      /\ \A j \in 1..Len(Tail(q)) : Tail(q)[j] = q[j + 1]
  BY HeadTailProperties
<1>2. QED
  BY <1>1, SeqEqual

LEMMA PutHeld ==
    ASSUME NEW b \in Ring, NEW x \in Packets \cup Clients \cup {None}, b.nextq # b.head
    PROVE  Held(Put(b, x)) = Append(Held(b), x) /\ Len(Held(b)) < MBOXSLOTS
<1> DEFINE p == Put(b, x)
           n == Fill(b)
<1>1. MBOXSLOTS \in Nat /\ MBOXSLOTS > 0 /\ EmptyRing = 0 - 1
      /\ b.head \in {EmptyRing} \cup 0..MBOXSLOTS - 1 /\ b.nextq \in 0..MBOXSLOTS - 1
      /\ b.msg \in [0..MBOXSLOTS - 1 -> Packets \cup Clients \cup {None}]
  BY NetFacts DEF EmptyRing, Ring
<1>2. n \in 0..MBOXSLOTS /\ n < MBOXSLOTS
  BY <1>1, FillRange
<1>3. Fill(p) = n + 1 /\ p \in Ring
  BY PutFill
<1>4. /\ p.head = IF b.head = EmptyRing THEN b.nextq ELSE b.head
      /\ p.msg = [b.msg EXCEPT ![b.nextq] = x]
  BY DEF Put
<1>5. At(p, n + 1) = b.nextq
  <2>1. At(p, n + 1) = IF p.head + n < MBOXSLOTS THEN p.head + n ELSE p.head + n - MBOXSLOTS
    <3>1. p.head \in Int /\ n \in Int
      BY <1>1, <1>2, <1>4
    <3> HIDE DEF p, n
    <3> QED
      BY <1>1, <3>1 DEF At
  <2>2. CASE b.head = EmptyRing
    <3>1. n = 0 /\ p.head = b.nextq
      BY <1>4, <2>2 DEF Fill
    <3> HIDE DEF p, n
    <3> QED
      BY <1>1, <2>1, <3>1
  <2>3. CASE b.head # EmptyRing /\ b.nextq > b.head
    <3>1. n = b.nextq - b.head /\ p.head = b.head
      BY <1>4, <2>3 DEF Fill
    <3> HIDE DEF p, n
    <3> QED
      BY <1>1, <2>1, <2>3, <3>1
  <2>4. CASE b.head # EmptyRing /\ ~(b.nextq > b.head)
    <3>1. n = b.nextq + MBOXSLOTS - b.head /\ p.head = b.head
      BY <1>4, <2>4 DEF Fill
    <3> HIDE DEF p, n
    <3> QED
      BY <1>1, <1>2, <2>1, <2>4, <3>1
  <2> QED
    BY <2>2, <2>3, <2>4
<1>6. ASSUME NEW k \in 1..n
      PROVE  At(p, k) = At(b, k) /\ At(b, k) \in 0..MBOXSLOTS - 1 /\ At(b, k) # b.nextq
  <2>1. b.head # EmptyRing /\ p.head = b.head
    BY <1>1, <1>2, <1>4 DEF Fill
  <2> QED
    BY <1>1, <1>2, <2>1 DEF At, Fill
<1>7. p.msg[b.nextq] = x /\ \A j \in 0..MBOXSLOTS - 1 : j # b.nextq => p.msg[j] = b.msg[j]
  BY <1>1, <1>4
<1>8. ASSUME NEW k \in 1..n + 1
      PROVE  p.msg[At(p, k)] = IF k = n + 1 THEN x ELSE b.msg[At(b, k)]
  <2>1. CASE k = n + 1
    BY <1>5, <1>7, <2>1
  <2>2. CASE k # n + 1
    <3>1. k \in 1..n
      BY <1>2, <2>2
    <3> QED
      BY <1>6, <1>7, <2>2, <3>1
  <2> QED
    BY <2>1, <2>2
<1>9. Held(p) = [k \in 1..n + 1 |-> IF k = n + 1 THEN x ELSE b.msg[At(b, k)]]
  BY <1>3, <1>8 DEF Held
<1>10. Held(b) = [k \in 1..n |-> b.msg[At(b, k)]]
  BY DEF Held
<1> HIDE DEF p, n
<1>11. Held(b) \in Seq(Packets \cup Clients \cup {None}) /\ Len(Held(b)) = n
  <2>1. \A k \in 1..n : b.msg[At(b, k)] \in Packets \cup Clients \cup {None}
    BY <1>1, <1>6
  <2> QED
    BY <1>2, <1>10, <2>1
<1>12. /\ Held(p) \in Seq(Packets \cup Clients \cup {None}) /\ Len(Held(p)) = n + 1
       /\ \A k \in 1..n : Held(p)[k] = Held(b)[k]
       /\ Held(p)[n + 1] = x
  <2>1. \A k \in 1..n + 1 : (IF k = n + 1 THEN x ELSE b.msg[At(b, k)]) \in Packets \cup Clients \cup {None}
    BY <1>1, <1>2, <1>6
  <2> QED
    BY <1>2, <1>9, <1>10, <2>1
<1>13. Held(p) = Append(Held(b), x)
  BY <1>11, <1>12, IsAppend
<1> QED
  BY <1>2, <1>11, <1>13 DEF p

LEMMA GetHeld ==
    ASSUME NEW b \in Ring, b.head # EmptyRing
    PROVE  Held(Get(b)) = Tail(Held(b)) /\ Held(b) # << >>
<1> DEFINE g == Get(b)
           n == Fill(b)
<1>1. MBOXSLOTS \in Nat /\ MBOXSLOTS > 0 /\ EmptyRing = 0 - 1
      /\ b.head \in 0..MBOXSLOTS - 1 /\ b.nextq \in 0..MBOXSLOTS - 1
      /\ b.msg \in [0..MBOXSLOTS - 1 -> Packets \cup Clients \cup {None}]
  BY NetFacts DEF EmptyRing, Ring
<1>2. n \in 1..MBOXSLOTS
  BY <1>1, FillRange
<1>3. Fill(g) = n - 1 /\ g \in Ring
  BY GetFill
<1>4. /\ g.head = (IF next(b.head) = b.nextq THEN EmptyRing ELSE next(b.head))
      /\ g.msg = [b.msg EXCEPT ![b.head] = None]
      /\ next(b.head) = IF b.head = MBOXSLOTS - 1 THEN 0 ELSE b.head + 1
  BY <1>1, NextSlot DEF Get, Ring
<1>5. ASSUME NEW k \in 1..n - 1 PROVE At(g, k) = At(b, k + 1)
  <2>1. g.head = next(b.head)
    <3>1. g.head # EmptyRing
      BY <1>2, <1>3 DEF Fill
    <3> QED
      BY <1>4, <3>1
  <2>2. k \in Nat /\ k >= 1 /\ k <= MBOXSLOTS - 1
    BY <1>1, <1>2
  <2> QED
    BY <1>1, <1>4, <2>1, <2>2 DEF At
<1>6. ASSUME NEW k \in 1..n PROVE At(b, k) \in 0..MBOXSLOTS - 1
  BY <1>1, <1>2 DEF At
<1>12. ASSUME NEW k \in 1..n - 1 PROVE g.msg[At(g, k)] = b.msg[At(b, k + 1)]
  <2>1. k + 1 \in 1..n
    BY <1>2
  <2>2. At(b, k + 1) \in 0..MBOXSLOTS - 1 /\ At(b, k + 1) # b.head
    BY <1>1, <1>2, <2>1 DEF At
  <2> QED
    BY <1>1, <1>4, <1>5, <2>2
<1>7. Held(g) = [k \in 1..n - 1 |-> b.msg[At(b, k + 1)]]
  BY <1>3, <1>12 DEF Held
<1>8. Held(b) = [k \in 1..n |-> b.msg[At(b, k)]]
  BY DEF Held
<1> HIDE DEF g, n
<1>9. Held(b) \in Seq(Packets \cup Clients \cup {None}) /\ Len(Held(b)) = n /\ Held(b) # << >>
  <2>1. \A k \in 1..n : b.msg[At(b, k)] \in Packets \cup Clients \cup {None}
    BY <1>1, <1>6
  <2> QED
    BY <1>2, <1>8, <2>1
<1>10. /\ Held(g) \in Seq(Packets \cup Clients \cup {None}) /\ Len(Held(g)) = n - 1
       /\ \A k \in 1..n - 1 : Held(g)[k] = Held(b)[k + 1]
  <2>1. \A k \in 1..n - 1 : b.msg[At(b, k + 1)] \in Packets \cup Clients \cup {None}
    BY <1>1, <1>2, <1>6
  <2> QED
    BY <1>2, <1>7, <1>8, <2>1
<1>11. Held(g) = Tail(Held(b))
  BY <1>9, <1>10, IsTail
<1> QED
  BY <1>9, <1>11 DEF g

LEMMA ContentsHeld ==
    ASSUME NEW m, mboxes[m] \in Ring, mboxes'[m] \in Ring
    PROVE  Contents(m) = Held(mboxes[m]) /\ Contents(m)' = Held(mboxes'[m])
<1>1. Contents(m) = Listed(mboxes[m]) /\ Contents(m)' = Listed(mboxes'[m])
  BY DEF Contents, Listed
<1> QED
  BY <1>1, ListedHeld

LEMMA BoxPut ==
    ASSUME BoxesOk, NEW n \in Boxes, NEW x \in Packets \cup Clients \cup {None},
           sys_mbox_trypost(n, x), NEW m \in Boxes
    PROVE  Box(m)!QueueNext \/ UNCHANGED Contents(m)
<1>1. /\ mboxes[m] \in Ring /\ mboxes'[m] \in Ring
      /\ mboxes'[m] = IF m = n THEN Put(mboxes[m], x) ELSE mboxes[m]
      /\ m = n => mboxes[m].nextq # mboxes[m].head
  BY Posted DEF BoxesOk, sys_mbox_trypost, FullRing
<1>2. Contents(m) = Held(mboxes[m]) /\ Contents(m)' = Held(mboxes'[m])
  BY <1>1, ContentsHeld
<1>3. CASE m = n
  <2>1. Contents(m)' = Append(Contents(m), x) /\ Len(Contents(m)) < MBOXSLOTS
    BY <1>1, <1>2, <1>3, PutHeld
  <2> QED
    BY <2>1 DEF Box!QueueNext, Box!Accept
<1> QED
  BY <1>1, <1>2, <1>3

LEMMA BoxGet ==
    ASSUME BoxesOk, NEW n \in Boxes, sys_arch_mbox_fetch(n), NEW m \in Boxes
    PROVE  Box(m)!QueueNext \/ UNCHANGED Contents(m)
<1>1. /\ mboxes[m] \in Ring /\ mboxes'[m] \in Ring
      /\ mboxes'[m] = IF m = n THEN Get(mboxes[m]) ELSE mboxes[m]
      /\ m = n => mboxes[m].head # EmptyRing
  BY Fetched DEF BoxesOk, sys_arch_mbox_fetch
<1>2. Contents(m) = Held(mboxes[m]) /\ Contents(m)' = Held(mboxes'[m])
  BY <1>1, ContentsHeld
<1>3. CASE m = n
  <2>1. Contents(m)' = Tail(Contents(m)) /\ Contents(m) # << >>
    BY <1>1, <1>2, <1>3, GetHeld
  <2> QED
    BY <2>1 DEF Box!QueueNext, Box!Deliver
<1> QED
  BY <1>1, <1>2, <1>3

LEMMA BoxStep ==
    ASSUME NetInv, [Next]_vars, NEW m \in Boxes
    PROVE  Box(m)!QueueNext \/ UNCHANGED Contents(m)
<1>0. ThreadsOk /\ BoxesOk /\ Boxes = Clients \cup {"tcpip"}
  BY NetFacts DEF NetInv
<1>1. CASE mboxes' = mboxes
  BY <1>1 DEF Contents
<1>2. ASSUME NEW s \in Slots, PostCall(s) \/ FetchPacket(s) \/ InputPacket(s) \/ EndOfStream(s)
      PROVE  Box(m)!QueueNext \/ UNCHANGED Contents(m)
  <2>1. cur_tc = s /\ pc[s] \in {"post", "fetch", "input", "fin"}
    BY <1>2 DEF PostCall, InputPacket, EndOfStream, FetchPacket, Runs
  <2>2. /\ args[s].whom \in Clients /\ args[s].whom \in Boxes /\ "tcpip" \in Boxes
        /\ pc[s] = "input" => args[s].pkt \in Packets
    BY <1>0, <2>1, AtWork, RequestFacts
  <2>3. CASE PostCall(s)
    BY <1>0, <2>2, <2>3, BoxPut DEF PostCall
  <2>4. CASE FetchPacket(s)
    BY <1>0, <2>2, <2>4, BoxGet DEF FetchPacket
  <2>5. CASE InputPacket(s)
    <3>1. sys_mbox_trypost(args[s].whom, args[s].pkt) /\ args[s].pkt \in Packets
      BY <2>2, <2>5 DEF InputPacket, Runs
    <3> QED
      BY <1>0, <2>2, <3>1, BoxPut
  <2>6. CASE EndOfStream(s)
    BY <1>0, <2>2, <2>6, BoxPut DEF EndOfStream
  <2> QED
    BY <1>2, <2>3, <2>4, <2>5, <2>6
<1>3. CASE TakeCall
  BY <1>0, <1>3, BoxGet DEF TakeCall
<1>4. CASE err_tcp
  <2>1. sys_mbox_trypost(args[cur_tc].whom, None) /\ args[cur_tc].whom \in Boxes
    BY <1>0, <1>4, CallbackGoes DEF err_tcp, Callback
  <2> QED
    BY <1>0, <2>1, BoxPut
<1>5. CASE Main \/ Waits \/ Timeout \/ PerformCall \/ CallFails \/ CallEnds \/ low_level_output
           \/ \E s \in Slots : serve_thread(s) \/ CallCompleted(s) \/ Answer(s) \/ End(s)
  <2>1. mboxes' = mboxes
    BY <1>5 DEF Main, Flush, Block, Overflow, TimerRequest, TimerAnswered, Invalid, Request, Timeout,
                Waits, SemWait, StillWaits, Resumes, PerformCall, Completes, CallCompleted, CallFails,
                CallEnds, low_level_output, serve_thread, Answer, End, sysVars
  <2> QED
    BY <1>1, <2>1
<1>6. CASE Thread
  BY <1>2, <1>3, <1>4, <1>5, <1>6 DEF Thread
<1>7. CASE UNCHANGED <<sysVars, pc, args, buse, va, i>> \/ UNCHANGED vars
  BY <1>1, <1>7 DEF sysVars, vars
<1>8. CASE Next
  BY <1>5, <1>6, <1>7, <1>8, EnvironmentsSame, Zenon DEF Next
<1> QED
  BY <1>7, <1>8

(* Every mailbox is a queue of what is posted to it, no longer than its    *)
(* ring: sys_mbox_trypost and sys_arch_mbox_fetch lose and repeat nothing. *)
THEOREM NetMailboxes == FairSpec => MailboxesAreQueues
<1>1. Init => \A m \in Boxes : Box(m)!QueueInit
  <2> SUFFICES ASSUME Init, NEW m \in Boxes PROVE Contents(m) = << >>
    BY DEF Box!QueueInit
  <2>1. mboxes[m].head = EmptyRing
    BY DEF Init, sys_mbox_new
  <2> QED
    BY <2>1 DEF Contents
<1>2. NetInv /\ [Next]_vars => [\A m \in Boxes : Box(m)!QueueNext \/ UNCHANGED Contents(m)]_vars
  BY BoxStep
<1> QED
  BY <1>1, <1>2, NetInvariance, PTL DEF FairSpec, MailboxesAreQueues
=============================================================================

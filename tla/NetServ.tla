------------------------------ MODULE NetServ ------------------------------
(***************************************************************************)
(* The network server (net/serv.c): one environment whose main thread      *)
(* receives requests, a thread for each request, lwIP's tcpip_thread, and   *)
(* the environments around it: clients (lib/nsipc.c), timer, input and     *)
(* output.  The threads run on SysArch's mailboxes.                        *)
(*                                                                         *)
(* ipc_recv and ipc_send stop the whole environment: a thread inside one   *)
(* stays cur_tc.  The thread that serves the request in slot s is named s. *)
(* lwIP is the control of its mailboxes: a call on a connection is posted  *)
(* to tcpip_thread and waits for op_completed; a received packet is put    *)
(* into the connection's recvmbox by the thread that received it, which    *)
(* waits when the mailbox is full.  A TCP connect, write or close may only *)
(* begin in tcpip_thread: it is completed later, by a packet or by the tcp *)
(* timer, or never.  tcpip_thread, whose own list of timeouts runs the tcp *)
(* timer, stands for the threads of serv.c that do so too.  Client c owns  *)
(* connection c, and a closed connection is opened again under its name.   *)
(***************************************************************************)
EXTENDS SysArch, FiniteSetsExt

CONSTANTS
    Clients,        \* environments that call, each on its connection
    Streams,        \* the connections that are TCP; the others are UDP
    Peers,          \* the connections on which packets arrive and are read
    Packets,        \* what a packet holds
    QUEUE_SIZE,     \* receive slots
    Flushes,        \* yields before ipc_recv: 32 in the code
    Window,         \* bound of the runs: packets of a connection in the server
    MaxBad          \* bound of the runs: messages without a page from a stranger

ASSUME NetAssumption ==
    /\ Boxes = Clients \cup {"tcpip"}
    /\ IsFiniteSet(Clients) /\ {"tcpip", "timer", "stranger"} \cap Clients = {}
    /\ Peers \subseteq Clients /\ Streams \subseteq Clients
    /\ {QUEUE_SIZE, Flushes, Window} \subseteq Nat \ {0} /\ MaxBad \in Nat
    /\ None \notin Nat \cup [reqno : {"call", "recv", "input", "timer"}, pkt : Packets \cup {None},
                             whom : Clients \cup {"timer", "stranger"}]

VARIABLES
    pc,             \* [threads -> what each is about to do]
    args,           \* [threads -> the request each works on]
    buse,           \* [slots -> BOOLEAN]: handed out by get_buffer
    va,             \* the main thread's slot
    i,              \* the main thread's yields in this round of serve's loop
    msg,            \* what ipc_recv has delivered, or None
    client,         \* [Clients -> "idle" | "sent" | "recv"]
    timer,          \* the same, of the timer's environment
    output,         \* "recv" | "busy": the output environment
    bad,            \* messages without a page so far
    conn            \* [Clients -> "open" | "begun" | "gone"]: a call has begun
                    \* and not ended; TCP has given the connection up

Slots == 0..QUEUE_SIZE - 1
main == QUEUE_SIZE              \* the names of the two other threads
tcpip == QUEUE_SIZE + 1
Threads == Slots \cup {main, tcpip}

envs == <<client, timer, output, bad>>
vars == <<sysVars, pc, args, buse, va, i, msg, envs, conn>>

Message(r, w, p) == [reqno |-> r, whom |-> w, pkt |-> p]

(* The two of each mailbox, and the one of each connection.                *)
Semaphores == {free_msg(m) : m \in Boxes} \cup {queued_msg(m) : m \in Boxes}
                  \cup {op_completed(c) : c \in Clients}

(* After serve_init: tcpip_thread waits for its first call.                *)
Init ==
    /\ thread_queue = <<tcpip>> /\ cur_tc = main
    /\ tc_wait_addr = [t \in Threads |->
                           IF t = tcpip THEN queued_msg("tcpip") ELSE None]
    /\ tc_wakeup = [t \in Threads |-> FALSE]
    /\ mboxes = [m \in Boxes |-> sys_mbox_new]
    /\ sems = [s \in Semaphores |->
                  CASE s \in {free_msg(m) : m \in Boxes} -> sys_sem_new(MBOXSLOTS)
                    [] s = queued_msg("tcpip") -> [counter |-> 0, waiters |-> 1]
                    [] OTHER -> sys_sem_new(0)]
    /\ pc = [t \in Threads |-> CASE t = main  -> "flush"
                                 [] t = tcpip -> "fetch"
                                 [] OTHER     -> "none"]
    /\ args = [t \in Threads |-> None]
    /\ buse = [s \in Slots |-> FALSE]
    /\ va = None /\ i = 0 /\ msg = None
    /\ client = [c \in Clients |-> "idle"]
    /\ timer = "idle" /\ output = "recv" /\ bad = 0
    /\ conn = [c \in Clients |-> "open"]

Runs(t, l) == cur_tc = t /\ pc[t] = l

-----------------------------------------------------------------------------
(* The environments around the server.  Each tries sys_ipc_try_send until  *)
(* the server is in ipc_recv.                                              *)

Send(m) == Runs(main, "recv") /\ msg = None /\ msg' = m

(* nsipc: the request goes, then the client waits in ipc_recv.             *)
ClientSends(c) ==
    /\ client[c] = "idle"
    /\ \/ Send(Message("call", c, None))
       \/ c \in Peers /\ Send(Message("recv", c, None))
    /\ client' = [client EXCEPT ![c] = "sent"]
    /\ UNCHANGED <<sysVars, pc, args, buse, va, i, timer, output, bad, conn>>

ClientReceives(c) ==
    /\ client[c] = "sent"
    /\ client' = [client EXCEPT ![c] = "recv"]
    /\ UNCHANGED <<sysVars, pc, args, buse, va, i, msg, timer, output, bad, conn>>

TimerSends ==
    /\ timer = "idle"
    /\ Send(Message("timer", "timer", None))
    /\ timer' = "sent"
    /\ UNCHANGED <<sysVars, pc, args, buse, va, i, client, output, bad, conn>>

TimerReceives ==
    /\ timer = "sent" /\ timer' = "recv"
    /\ UNCHANGED <<sysVars, pc, args, buse, va, i, msg, client, output, bad, conn>>

(* input: a packet for connection c goes to the server on a page of its    *)
(* own.  input sends all that arrive: Window only keeps the runs finite.   *)
UnderWay(c) ==
    Len(Contents(c)) + Cardinality({s \in Slots : /\ pc[s] # "none" /\ args[s].whom = c
                                                  /\ args[s].reqno = "input"})

InputSends(c, p) ==
    /\ UnderWay(c) < Window
    /\ Send(Message("input", c, p))
    /\ UNCHANGED <<sysVars, pc, args, buse, va, i, envs, conn>>

(* A stranger's message: the timer's request, or one without a page.       *)
StrangerSends ==
    /\ \/ Send(Message("timer", "stranger", None)) /\ UNCHANGED bad
       \/ bad < MaxBad /\ Send(Message("call", "stranger", None)) /\ bad' = bad + 1
    /\ UNCHANGED <<sysVars, pc, args, buse, va, i, client, timer, output, conn>>

(* output: the packet is given to the card, then the next is received.     *)
OutputReceives ==
    /\ output = "busy" /\ output' = "recv"
    /\ UNCHANGED <<sysVars, pc, args, buse, va, i, msg, client, timer, bad, conn>>

-----------------------------------------------------------------------------
(* serve, the main thread.                                                 *)

(* Faulty: the slot of a handled timer request is not given back.          *)
Faulty_put_buffer(s) == buse

put_buffer(s) == [buse EXCEPT ![s] = FALSE]

(* Work that the threads were woken for comes before ipc_recv.             *)
Flush ==
    /\ Runs(main, "flush") /\ thread_wakeups_pending /\ i < Flushes
    /\ thread_yield /\ i' = i + 1
    /\ UNCHANGED <<tc_wait_addr, tc_wakeup, sems, mboxes, pc, args, buse, va, msg, envs, conn>>

AboutToBlock == Runs(main, "flush") /\ (thread_wakeups_pending => i = Flushes)

(* get_buffer, and into ipc_recv; without a free slot the server panics.   *)
Block ==
    /\ AboutToBlock
    /\ \E s \in Slots :
            /\ ~buse[s] /\ \A r \in 0..s - 1 : buse[r]
            /\ va' = s /\ buse' = [buse EXCEPT ![s] = TRUE]
    /\ pc' = [pc EXCEPT ![main] = "recv"] /\ i' = 0
    /\ UNCHANGED <<sysVars, args, msg, envs, conn>>

Overflows == AboutToBlock /\ \A s \in Slots : buse[s]

Overflow ==
    /\ Overflows
    /\ pc' = [pc EXCEPT ![main] = "panic"]
    /\ UNCHANGED <<sysVars, args, buse, va, i, msg, envs, conn>>

Received == Runs(main, "recv") /\ msg # None

(* process_timer: the other threads run once, and the timer is answered.   *)
TimerRequest ==
    /\ Received /\ msg.reqno = "timer" /\ msg.whom = "timer"
    /\ thread_yield
    /\ pc' = [pc EXCEPT ![main] = "timer"] /\ msg' = None
    /\ UNCHANGED <<tc_wait_addr, tc_wakeup, sems, mboxes, args, buse, va, i, envs, conn>>

TimerAnswered ==
    /\ Runs(main, "timer")
    /\ timer = "recv" /\ timer' = "idle"
    /\ buse' = put_buffer(va) /\ va' = None
    /\ pc' = [pc EXCEPT ![main] = "flush"]
    /\ UNCHANGED <<sysVars, args, i, msg, client, output, bad, conn>>

(* A timer request from elsewhere is dropped; a request without a page is  *)
(* left hanging, and its slot with it.                                     *)
Invalid ==
    /\ Received /\ msg.whom = "stranger"
    /\ buse' = IF msg.reqno = "timer" THEN put_buffer(va) ELSE buse
    /\ pc' = [pc EXCEPT ![main] = "flush"]
    /\ va' = None /\ msg' = None
    /\ UNCHANGED <<sysVars, args, i, envs, conn>>

ForThread == Received /\ msg.whom # "stranger" /\ msg.reqno \in {"call", "recv", "input"}

(* Faulty: one structure holds the arguments of every thread.              *)
Faulty_Request ==
    /\ ForThread
    /\ args' = [s \in Threads |->
                    IF s = va \/ (s \in Slots /\ args[s] # None) THEN msg ELSE args[s]]
    /\ CreateAndYield(va)
    /\ pc' = [pc EXCEPT ![va] = "start", ![main] = "flush"]
    /\ va' = None /\ msg' = None
    /\ UNCHANGED <<tc_wait_addr, tc_wakeup, sems, mboxes, buse, i, envs, conn>>

(* Any other request gets a thread, which runs before serve goes on.       *)
Request ==
    /\ ForThread
    /\ args' = [args EXCEPT ![va] = msg]
    /\ CreateAndYield(va)
    /\ pc' = [pc EXCEPT ![va] = "start", ![main] = "flush"]
    /\ va' = None /\ msg' = None
    /\ UNCHANGED <<tc_wait_addr, tc_wakeup, sems, mboxes, buse, i, envs, conn>>

-----------------------------------------------------------------------------
(* The threads.                                                            *)

rest == <<args, buse, va, i, msg, envs, conn>>

(* Thread t goes on to one of the places of L.                             *)
Goes(t, L) == \E l \in L : pc' = [pc EXCEPT ![t] = l]

(* ip_input: what a packet of connection c leads to.  It may be data,      *)
(* acknowledge what a call waits for, end the connection or reset it; an   *)
(* answer may be sent; or the packet is dropped.                           *)
Effects(c) ==
    {"ack", "end"} \cup (IF conn[c] # "gone" THEN {"input"} ELSE {})
                   \cup (IF conn[c] # "gone" /\ c \in Streams THEN {"fin", "err"} ELSE {})
                   \cup (IF conn[c] = "begun" THEN {"done"} ELSE {})

(* serve_thread: the request is looked at.  It may have its result at once *)
(* when it is refused, and when the last packet was not read to its end.   *)
serve_thread(s) ==
    /\ Runs(s, "start")
    /\ Goes(s, CASE args[s].reqno = "input" -> Effects(args[s].whom)
                 [] args[s].reqno = "call"  -> {"post", "answer"}
                 [] args[s].reqno = "recv" /\ conn[args[s].whom] # "gone" -> {"fetch", "answer"}
                 [] OTHER -> {"answer"})
    /\ UNCHANGED <<sysVars, rest>>

(* The semaphore thread t asks for next.                                   *)
Wanted(t) ==
    LET c == IF pc[t] = "fetch" /\ t = tcpip THEN "tcpip" ELSE args[t].whom
    IN  CASE pc[t] = "fetch"  -> queued_msg(c)
          [] pc[t] = "post"   -> free_msg("tcpip")
          [] pc[t] = "posted" -> op_completed(c)
          [] pc[t] \in {"input", "fin", "err"} -> free_msg(c)

Waiting == {"fetch", "post", "posted", "input", "fin", "err"}

(* sys_arch_sem_wait: nothing there; and the loop of thread_wait, which    *)
(* ends when the value has changed or when somebody has woken the thread.  *)
Waits ==
    /\ \/ pc[cur_tc] \in Waiting /\ SemWait(Wanted(cur_tc))
       \/ StillWaits
       \/ Resumes(FALSE)
    /\ UNCHANGED <<pc, rest>>

Work(c) == Message("call", c, None)

(* Only tcpip_thread waits with a limit: the next timeout of its list, of  *)
(* one connection at a time.  The tcp timer sends, completes a call that   *)
(* waits, or gives a connection up.                                        *)
Timeout ==
    /\ cur_tc = tcpip /\ pc[tcpip] = "fetch" /\ Resumes(TRUE)
    /\ \/ Goes(tcpip, {"fetch", "tmr"}) /\ UNCHANGED args
       \/ \E c \in Streams :
             /\ args' = [args EXCEPT ![tcpip] = Work(c)]
             /\ Goes(tcpip, Effects(c) \cap {"done", "err"})
    /\ UNCHANGED <<buse, va, i, msg, envs, conn>>

(* tcpip_apimsg: the call is posted, and its thread waits for the result.  *)
PostCall(s) ==
    /\ Runs(s, "post")
    /\ sys_mbox_trypost("tcpip", args[s].whom)
    /\ Goes(s, {"posted"})
    /\ UNCHANGED rest

CallCompleted(s) ==
    /\ Runs(s, "posted") /\ CanTake(Wanted(s))
    /\ sems' = Taken(Wanted(s))
    /\ Goes(s, {"answer"})
    /\ UNCHANGED <<threadVars, mboxes, rest>>

(* netconn_recv: the packet is taken, and for TCP do_recv is called with   *)
(* it, unless it tells of the end of the connection.                       *)
FetchPacket(s) ==
    /\ Runs(s, "fetch")
    /\ sys_arch_mbox_fetch(args[s].whom)
    /\ Goes(s, IF args[s].whom \in Streams /\ Contents(args[s].whom)[1] # None
               THEN {"post"} ELSE {"answer"})
    /\ UNCHANGED rest

(* recv_tcp or recv_udp; the end of the connection or an answer may follow.*)
InputPacket(s) ==
    /\ Runs(s, "input")
    /\ sys_mbox_trypost(args[s].whom, args[s].pkt)
    /\ Goes(s, Effects(args[s].whom) \cap {"fin", "ack", "end"})
    /\ UNCHANGED rest

(* recv_tcp without a packet: the peer has closed.                         *)
EndOfStream(s) ==
    /\ Runs(s, "fin")
    /\ sys_mbox_trypost(args[s].whom, None)
    /\ Goes(s, {"ack", "end"})
    /\ UNCHANGED rest

(* tcpip_thread takes a call and performs it, which may send a packet.     *)
TakeCall ==
    /\ Runs(tcpip, "fetch")
    /\ sys_arch_mbox_fetch("tcpip")
    /\ args' = [args EXCEPT ![tcpip] = Work(Contents("tcpip")[1])]
    /\ Goes(tcpip, {"send", "do"})
    /\ UNCHANGED <<buse, va, i, msg, envs, conn>>

(* Who waits for the call on c is told of its end.                         *)
Completes(c) ==
    /\ sems' = Signalled(sems, op_completed(c)) /\ WakeWaiters(op_completed(c))
    /\ UNCHANGED <<thread_queue, cur_tc, tc_wait_addr, mboxes>>

Becomes(c, l) == conn' = [conn EXCEPT ![c] = l]

(* Faulty: the thread that waits for the call is not told of its end.      *)
Faulty_PerformCall ==
    /\ Runs(tcpip, "do")
    /\ pc' = [pc EXCEPT ![tcpip] = "fetch"] /\ args' = [args EXCEPT ![tcpip] = None]
    /\ UNCHANGED <<sysVars, buse, va, i, msg, envs, conn>>

(* The call is over at once, and may have opened or closed a connection;   *)
(* or it is connect, write or close of TCP (do_connect, do_write and       *)
(* do_delconn) and its end is left to a later packet or timer.             *)
PerformCall ==
    /\ Runs(tcpip, "do")
    /\ LET c == args[tcpip].whom
           tcp == c \in Streams /\ \E s \in Slots : args[s] = Work(c)
       IN  \/ /\ Completes(c)
              /\ UNCHANGED conn \/ (tcp /\ \E l \in {"open", "gone"} : Becomes(c, l))
           \/ tcp /\ Becomes(c, "begun") /\ UNCHANGED sysVars
    /\ pc' = [pc EXCEPT ![tcpip] = "fetch"] /\ args' = [args EXCEPT ![tcpip] = None]
    /\ UNCHANGED <<buse, va, i, msg, envs>>

(* The callbacks of a connection are over: for thread t, which was at l.   *)
Over(t) == IF t = tcpip THEN "fetch" ELSE "end"

Returns(l) ==
    /\ pc' = [pc EXCEPT ![cur_tc] = l]
    /\ args' = IF l = "fetch" THEN [args EXCEPT ![cur_tc] = None] ELSE args
    /\ UNCHANGED <<buse, va, i, msg, envs>>

(* err_tcp, first half: the reader is told, in a post that waits for room. *)
err_tcp ==
    /\ pc[cur_tc] = "err"
    /\ LET c == args[cur_tc].whom
       IN  /\ sys_mbox_trypost(c, None)
           /\ Returns(IF conn[c] = "begun" THEN "failed" ELSE Over(cur_tc))
           /\ Becomes(c, IF conn[c] = "begun" THEN "begun" ELSE "gone")

(* Its second half: a begun call ends too.                                 *)
CallFails ==
    /\ pc[cur_tc] = "failed"
    /\ Completes(args[cur_tc].whom) /\ Becomes(args[cur_tc].whom, "gone")
    /\ Returns(Over(cur_tc))

(* do_connected, sent_tcp or poll_tcp: a begun call ends, which may have   *)
(* closed the connection, and the packet goes on.                          *)
CallEnds ==
    /\ pc[cur_tc] = "done"
    /\ Completes(args[cur_tc].whom)
    /\ \E l \in {"open", "gone"},
          k \in IF cur_tc = tcpip THEN {"fetch"} ELSE {"input", "fin", "ack", "end"} :
            /\ l = "gone" => k \notin {"input", "fin"}
            /\ Becomes(args[cur_tc].whom, l) /\ Returns(k)

(* low_level_output: a packet goes to the output environment.              *)
AfterOutput == [ack |-> "end", send |-> "do", tmr |-> "fetch"]

low_level_output ==
    /\ pc[cur_tc] \in DOMAIN AfterOutput
    /\ output = "recv" /\ output' = "busy"
    /\ pc' = [pc EXCEPT ![cur_tc] = AfterOutput[@]]
    /\ UNCHANGED <<sysVars, args, buse, va, i, msg, client, timer, bad, conn>>

(* The end of serve_thread: the result goes to the client, which must be   *)
(* in ipc_recv; then the slot is given back and the thread halts.          *)
Answer(s) ==
    /\ Runs(s, "answer") /\ client[args[s].whom] = "recv"
    /\ client' = [client EXCEPT ![args[s].whom] = "idle"]
    /\ pc' = [pc EXCEPT ![s] = "end"]
    /\ UNCHANGED <<sysVars, args, buse, va, i, msg, timer, output, bad, conn>>

End(s) ==
    /\ Runs(s, "end")
    /\ buse' = put_buffer(s)
    /\ pc' = [pc EXCEPT ![s] = "none"] /\ args' = [args EXCEPT ![s] = None]
    /\ thread_halt
    /\ UNCHANGED <<tc_wait_addr, tc_wakeup, sems, mboxes, va, i, msg, envs, conn>>

Main == Flush \/ Block \/ Overflow \/ TimerRequest \/ TimerAnswered \/ Invalid \/ Request

Thread ==
    \/ Waits \/ Timeout \/ TakeCall \/ PerformCall \/ err_tcp \/ CallFails \/ CallEnds
    \/ low_level_output
    \/ \E s \in Slots : \/ serve_thread(s) \/ PostCall(s) \/ CallCompleted(s) \/ FetchPacket(s)
                        \/ InputPacket(s) \/ EndOfStream(s) \/ Answer(s) \/ End(s)

Next ==
    \/ Main \/ Thread
    \/ \E c \in Clients : ClientSends(c) \/ ClientReceives(c)
    \/ \E c \in Peers, p \in Packets : InputSends(c, p)
    \/ TimerSends \/ TimerReceives \/ StrangerSends \/ OutputReceives

(* The server is an environment and gets its turns, and of those on their  *)
(* way into ipc_recv some arrive.  Nobody is bound to send.                *)
Arrivals == TimerReceives \/ OutputReceives \/ \E c \in Clients : ClientReceives(c)

Fairness == WF_vars(Main \/ Thread) /\ WF_vars(Arrivals)

FairSpec == Init /\ [][Next]_vars /\ Fairness

-----------------------------------------------------------------------------
(* Properties.                                                             *)

Live == {s \in Slots : pc[s] # "none"}
Hanging == {s \in Slots : buse[s]} \ (Live \cup {va})

(* A slot is in use exactly when the main thread or a request's thread has *)
(* it, but for those that messages without a page keep for ever            *)
(* (serv.c:286); no slot has two users.                                    *)
SlotsExact ==
    /\ \A s \in Live : buse[s] /\ s # va
    /\ va # None => buse[va]
    /\ Cardinality(Hanging) <= bad

(* A client that waits has exactly one request in the server, and one that *)
(* does not has none: no answer is given twice or to the wrong client.     *)
EachCallServedOnce ==
    \A c \in Clients :
        LET ofC(m) == m # None /\ m.whom = c /\ m.reqno # "input"
        IN  Cardinality({s \in Live : ofC(args[s]) /\ pc[s] # "end"})
              + (IF ofC(msg) THEN 1 ELSE 0)
            = IF client[c] = "idle" THEN 0 ELSE 1

(* The server panics for want of a slot only when each is taken up by a    *)
(* client that waits, by a packet that waits for room in a mailbox, or by  *)
(* a message without a page; and it finds no mailbox empty or full where a *)
(* semaphore has promised the contrary.                                    *)
Stuck == {s \in Live : args[s].reqno = "input" /\ tc_wait_addr[s] = free_msg(args[s].whom)}

PanicsOnlyWhenFull ==
    /\ Overflows =>
         QUEUE_SIZE <= Cardinality({c \in Clients : client[c] # "idle"}) + Cardinality(Stuck) + bad
    /\ pc[cur_tc] \in Waiting /\ CanTake(Wanted(cur_tc)) =>
         LET m == Wanted(cur_tc)[2]
         IN  /\ pc[cur_tc] = "fetch" => mboxes[m].head # EmptyRing
             /\ pc[cur_tc] \in {"post", "input", "fin", "err"} => ~FullRing(m)

(* Each mailbox is a bounded queue of what is posted to it.                *)
Box(m) == INSTANCE PacketQueue WITH
    Packets <- Packets \cup Clients \cup {None}, Capacity <- MBOXSLOTS, queue <- Contents(m)

MailboxesAreQueues ==
    /\ \A m \in Boxes : Box(m)!QueueInit
    /\ [][\A m \in Boxes : Box(m)!QueueNext \/ UNCHANGED Contents(m)]_vars

(* A client that waits for the result of a call, or for a packet that has  *)
(* arrived, is answered: unless its TCP call is never completed by a       *)
(* packet or the timer, tcpip_thread is for ever in err_tcp before a full  *)
(* mailbox, or the server has panicked.                                    *)
CallAnswered ==
    \A c \in Clients :
        []<>(conn[c] # "begun") /\ []<>(pc[tcpip] # "err") =>
            ((/\ client[c] # "idle"
              /\ \/ Contents(c) # << >>
                 \/ \E s \in Live : args[s] = Message("call", c, None))
             ~> client[c] = "idle" \/ pc[main] = "panic")

(* recv_udp "posts the packet to conn->recvmbox or deletes it on memory    *)
(* error": the thread that received a packet does not wait for the reader. *)
TrypostNeverBlocks ==
    \A s \in Live : args[s].reqno = "input" => tc_wait_addr[s] = None
=============================================================================

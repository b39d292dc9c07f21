------------------------------ MODULE Threads ------------------------------
(***************************************************************************)
(* net/lwip/jos/arch/thread.c: the cooperative threads of the network      *)
(* server.  Only cur_tc executes; it goes on until it yields, waits or     *)
(* halts, and every other thread stands in thread_queue.  A program built  *)
(* on this module supplies the steps between two yields.                   *)
(***************************************************************************)
EXTENDS Sequences, Naturals, SequencesExt

CONSTANT None       \* the null address

VARIABLES
    thread_queue,   \* sequence of the threads that do not execute
    cur_tc,         \* the thread that executes
    tc_wait_addr,   \* [threads -> address]: where each waits, or None
    tc_wakeup       \* [threads -> BOOLEAN]: somebody woke it

threadVars == <<thread_queue, cur_tc, tc_wait_addr, tc_wakeup>>

(* The first of the queue goes on, the one that yields goes to its end.    *)
thread_yield ==
    /\ cur_tc' = Head(thread_queue)
    /\ thread_queue' = Append(Tail(thread_queue), cur_tc)

(* thread_create behind the threads that are there, then thread_yield.     *)
CreateAndYield(t) ==
    /\ cur_tc' = Head(thread_queue)
    /\ thread_queue' = Append(Tail(thread_queue), t) \o <<cur_tc>>

(* The halted thread is not put back; kill_queue only delays its free.     *)
thread_halt ==
    /\ cur_tc' = Head(thread_queue)
    /\ thread_queue' = Tail(thread_queue)

(* tc_wakeup after thread_wakeup(a): every queued waiter at a is told.     *)
thread_wakeup(a) ==
    [t \in DOMAIN tc_wakeup |->
        tc_wakeup[t] \/ (t \in ToSet(thread_queue) /\ tc_wait_addr[t] = a)]

thread_wakeups_pending == \E t \in ToSet(thread_queue) : tc_wakeup[t]

(* The start of thread_wait(a, ...): cur_tc lays itself to sleep at a.  Its *)
(* first test of the loop fails to end it, the value having just been read. *)
WaitAt(a) ==
    /\ tc_wait_addr' = [tc_wait_addr EXCEPT ![cur_tc] = a]
    /\ tc_wakeup' = [tc_wakeup EXCEPT ![cur_tc] = FALSE]
    /\ thread_yield

(* The loop of thread_wait goes round again, and the end of it.            *)
WaitOn == thread_yield /\ UNCHANGED <<tc_wait_addr, tc_wakeup>>

WaitEnds ==
    /\ tc_wait_addr' = [tc_wait_addr EXCEPT ![cur_tc] = None]
    /\ tc_wakeup' = [tc_wakeup EXCEPT ![cur_tc] = FALSE]
    /\ UNCHANGED <<thread_queue, cur_tc>>
=============================================================================

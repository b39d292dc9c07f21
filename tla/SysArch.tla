------------------------------ MODULE SysArch ------------------------------
(***************************************************************************)
(* net/lwip/jos/arch/sys_arch.c: the semaphores and mailboxes that lwIP    *)
(* runs on, over the cooperative threads.  lwip_core_lock is empty: the    *)
(* threads exclude each other by not yielding.                             *)
(*                                                                         *)
(* A thread inside thread_wait has a tc_wait_addr; the value it compares   *)
(* with was read when the counter was 0 and waiters 1, so the comparison   *)
(* ends the wait as soon as either has changed.  Semaphores are not freed  *)
(* while they are in use, and the generation that would tell is left out.  *)
(***************************************************************************)
EXTENDS Threads

CONSTANTS
    MBOXSLOTS,      \* ring size of a mailbox
    Boxes           \* the mailboxes

ASSUME MboxAssumption == MBOXSLOTS \in Nat \ {0}

VARIABLES
    sems,           \* [semaphores -> [counter, waiters]]
    mboxes          \* [Boxes -> [head, nextq, msg]]

sysVars == <<threadVars, sems, mboxes>>

free_msg(m) == <<"free_msg", m>>
queued_msg(m) == <<"queued_msg", m>>
op_completed(c) == <<"op_completed", c>>

EmptyRing == 0 - 1      \* head of an empty mailbox

sys_sem_new(n) == [counter |-> n, waiters |-> 0]

sys_mbox_new == [head |-> EmptyRing, nextq |-> 0,
                 msg |-> [k \in 0..MBOXSLOTS - 1 |-> None]]

(* sems and tc_wakeup after S has seen some takes: sys_sem_signal(s).      *)
Signalled(S, s) == [S EXCEPT ![s] = [counter |-> @.counter + 1, waiters |-> 0]]

WakeWaiters(s) ==
    tc_wakeup' = IF sems[s].waiters = 1 THEN thread_wakeup(s) ELSE tc_wakeup

(* sys_arch_sem_wait: nothing to take, so cur_tc says that it waits and    *)
(* gives way.                                                              *)
SemWait(s) ==
    /\ tc_wait_addr[cur_tc] = None /\ sems[s].counter = 0
    /\ sems' = [sems EXCEPT ![s].waiters = 1]
    /\ WaitAt(s)
    /\ UNCHANGED mboxes

(* sys_arch_sem_wait: there is something, and it is taken.                 *)
CanTake(s) == tc_wait_addr[cur_tc] = None /\ sems[s].counter > 0

(* Faulty: the counter is not lowered.                                     *)
Faulty_Taken(s) == sems

Taken(s) == [sems EXCEPT ![s].counter = @ - 1]

(* Back in thread_wait: the value at the address has changed, or somebody  *)
(* called thread_wakeup.                                                   *)
Roused(t) ==
    LET s == tc_wait_addr[t]
    IN  sems[s].counter # 0 \/ sems[s].waiters = 0 \/ tc_wakeup[t]

(* thread_wait goes round, or ends.  A wait with a limit may also end      *)
(* because the time has passed; its caller then asks again.                *)
StillWaits ==
    /\ tc_wait_addr[cur_tc] # None /\ ~Roused(cur_tc)
    /\ WaitOn
    /\ UNCHANGED <<sems, mboxes>>

Resumes(timed) ==
    /\ tc_wait_addr[cur_tc] # None /\ (Roused(cur_tc) \/ timed)
    /\ WaitEnds
    /\ UNCHANGED <<sems, mboxes>>

-----------------------------------------------------------------------------
(* The ring of a mailbox.                                                  *)

next(k) == (k + 1) % MBOXSLOTS

Put(b, x) ==
    [head |-> IF b.head = EmptyRing THEN b.nextq ELSE b.head,
     nextq |-> next(b.nextq), msg |-> [b.msg EXCEPT ![b.nextq] = x]]

(* Faulty: the emptied mailbox is not marked so.                           *)
Faulty_Get(b) == [b EXCEPT !.msg[b.head] = None, !.head = next(b.head)]

(* The entry that is left behind is not read again, and is cleared here.   *)
Get(b) ==
    [b EXCEPT !.msg[b.head] = None,
              !.head = IF next(b.head) = b.nextq THEN EmptyRing ELSE next(b.head)]

(* sys_mbox_trypost once it has taken a free slot.  Both errors it can     *)
(* make from here are of the program: ERR_MEM and the panic of fetch.      *)
FullRing(m) == mboxes[m].nextq = mboxes[m].head

sys_mbox_trypost(m, x) ==
    /\ CanTake(free_msg(m)) /\ ~FullRing(m)
    /\ mboxes' = [mboxes EXCEPT ![m] = Put(@, x)]
    /\ sems' = Signalled(Taken(free_msg(m)), queued_msg(m))
    /\ WakeWaiters(queued_msg(m))
    /\ UNCHANGED <<thread_queue, cur_tc, tc_wait_addr>>

(* sys_arch_mbox_fetch once it has taken a message's token.                *)
sys_arch_mbox_fetch(m) ==
    /\ CanTake(queued_msg(m)) /\ mboxes[m].head # EmptyRing
    /\ mboxes' = [mboxes EXCEPT ![m] = Get(@)]
    /\ sems' = Signalled(Taken(queued_msg(m)), free_msg(m))
    /\ WakeWaiters(free_msg(m))
    /\ UNCHANGED <<thread_queue, cur_tc, tc_wait_addr>>

(* What a mailbox holds, the oldest message first.                         *)
Contents(m) ==
    LET b == mboxes[m]
        n == IF b.nextq = b.head THEN MBOXSLOTS
             ELSE (b.nextq + MBOXSLOTS - b.head) % MBOXSLOTS
    IN  IF b.head = EmptyRing THEN << >>
        ELSE [k \in 1..n |-> b.msg[(b.head + k - 1) % MBOXSLOTS]]
=============================================================================

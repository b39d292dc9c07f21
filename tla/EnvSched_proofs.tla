-------------------------- MODULE EnvSched_proofs --------------------------
(***************************************************************************)
(* Proofs about EnvSched, for any set of CPUs, any number of slots and any *)
(* bound on generations.                                                   *)
(*                                                                         *)
(* A kernel section changes env_status to some st and then leaves by       *)
(* env_run, sched_yield or sched_halt.  Leaving(c, st, cur, runs) is what  *)
(* must hold of st at that point; Left(c, st, runs) is what leaving gives. *)
(* One lemma per way out carries the scheduling part of the invariant for  *)
(* every action; the actions differ only in showing Leaving for their st.  *)
(***************************************************************************)
EXTENDS EnvSched, TLAPS

(* Where a CPU is agrees with whether it has a curenv.                     *)
ModeMatchesCurenv ==
    \A c \in CPUs :
        /\ mode[c] \in {"timer", "call", "pop", "user"} => curenv[c] # None
        /\ mode[c] \in {"sched", "halt"} => curenv[c] = None

(* The page table loaded is that of curenv, and curenv is alive.           *)
Cr3IsCurenv ==
    \A c \in CPUs : /\ cr3[c] = curenv[c]
                    /\ curenv[c] # None => env_status[curenv[c]] # "FREE"

OnCpuHasRun == \A e \in Envs : env_status[e] \in OnCpu => started[e]

(* The scheduling part of the invariant.                                   *)
SchedInv ==
    /\ OneCpuPerEnv
    /\ CurenvIsOnCpu
    /\ ModeMatchesCurenv
    /\ Cr3IsCurenv
    /\ OnCpuHasRun
    /\ MonitorOnlyWhenIdle

SchedType ==
    /\ env_status \in [Envs -> Statuses]
    /\ started \in [Envs -> BOOLEAN]
    /\ curenv \in [CPUs -> Envs \cup {None}]
    /\ cr3 \in [CPUs -> Envs \cup {None}]
    /\ mode \in [CPUs -> Modes]

(* The state of a section of CPU c that is about to leave the kernel.      *)
Leaving(c, st, cur, runs) ==
    /\ c \in CPUs
    /\ st \in [Envs -> Statuses]
    /\ runs \in [Envs -> BOOLEAN]
    /\ cur = curenv[c] \/ cur = None
    /\ cur # None => st[cur] \in {"RUNNING", "NOT_RUNNABLE"}
    /\ \A d \in CPUs \ {c} : curenv[d] # None => st[curenv[d]] \in OnCpu
    /\ \A e \in Envs : st[e] \in OnCpu =>
          e = cur \/ \E d \in CPUs \ {c} : curenv[d] = e
    /\ \A e \in Envs : st[e] \in OnCpu => runs[e]
    /\ LockFree

(* What a section leaves behind, besides SchedInv'.                        *)
Left(c, st, runs) ==
    /\ \A e \in Envs : \/ env_status'[e] = st[e]
                       \/ {env_status'[e], st[e]} = {"RUNNABLE", "RUNNING"}
    /\ \A e \in Envs : started'[e] = runs[e] \/ env_status'[e] = "RUNNING"
    /\ \A d \in CPUs \ {c} : mode'[d] = mode[d] /\ curenv'[d] = curenv[d]
    /\ mode'[c] # "user"

LEMMA EnvRun ==
    ASSUME NEW c, NEW st, NEW cur, NEW runs, NEW e \in Envs,
           SchedType, SchedInv, Leaving(c, st, cur, runs),
           st[e] = "RUNNABLE" \/ (e = cur /\ st[e] = "RUNNING"),
           env_run(c, st, cur, runs, e)
    PROVE  SchedType' /\ SchedInv' /\ Left(c, st, runs)
<1> USE ConstAssumption DEF Leaving, OnCpu, Statuses
<1>0. None \notin Envs /\ None \notin CPUs
  BY DEF Envs
<1>1. SchedType'
  BY <1>0 DEF SchedType, env_run, Modes
<1>a. /\ curenv'[c] = e /\ cr3'[c] = e /\ mode'[c] = "pop"
      /\ \A d \in CPUs \ {c} : /\ curenv'[d] = curenv[d] /\ cr3'[d] = cr3[d]
                               /\ mode'[d] = mode[d]
  BY DEF SchedType, env_run
<1>b. \A x \in Envs : env_status'[x] =
        IF x = e THEN "RUNNING"
        ELSE IF x = cur /\ st[x] = "RUNNING" THEN "RUNNABLE" ELSE st[x]
  BY DEF env_run
<1>c. \A d \in CPUs \ {c} : curenv[d] # e
  <2> SUFFICES ASSUME NEW d \in CPUs \ {c}, curenv[d] = e PROVE FALSE
    OBVIOUS
  <2>1. st[e] \in {"RUNNING", "DYING"}
    BY <1>0
  <2>2. e = cur
    BY <2>1
  <2>3. QED
    BY <1>0, <2>2 DEF SchedInv, OneCpuPerEnv
<1>d. \A d \in CPUs \ {c} : curenv[d] # None =>
        /\ curenv[d] \in Envs /\ curenv[d] # cur
        /\ env_status'[curenv[d]] = st[curenv[d]]
  BY <1>0, <1>b, <1>c DEF SchedInv, OneCpuPerEnv, SchedType
<1>2. OneCpuPerEnv'
  BY <1>0, <1>a, <1>c DEF OneCpuPerEnv, SchedInv
<1>3. CurenvIsOnCpu'
  <2>1. \A d \in CPUs : mode'[d] # "monitor" /\ curenv'[d] # None
                         => env_status'[curenv'[d]] \in {"RUNNING", "DYING"}
    <3>1. env_status'[e] = "RUNNING"
      BY <1>b
    <3>2. \A d \in CPUs \ {c} : curenv[d] # None
             => env_status'[curenv[d]] \in {"RUNNING", "DYING"}
      BY <1>d
    <3>3. QED
      BY <1>a, <3>1, <3>2
  <2>2. ASSUME NEW x \in Envs, env_status'[x] \in {"RUNNING", "DYING"}
        PROVE  \E d \in CPUs : curenv'[d] = x
    <3>1. CASE x = e
      BY <1>a, <3>1
    <3>2. CASE x # e
      <4>1. (env_status'[x] = st[x] /\ x # cur) \/ st[x] = "DYING"
        BY <1>b, <2>2, <3>2
      <4>2. x # cur
        BY <1>0, <2>2, <4>1
      <4>3. st[x] \in {"RUNNING", "DYING"}
        BY <2>2, <4>1
      <4>4. PICK d \in CPUs \ {c} : curenv[d] = x
        BY <4>2, <4>3
      <4>5. QED
        BY <1>a, <4>4
    <3>3. QED
      BY <3>1, <3>2
  <2>3. QED
    BY <2>1, <2>2 DEF CurenvIsOnCpu, Holders
<1>4. ModeMatchesCurenv'
  BY <1>0, <1>a DEF ModeMatchesCurenv, SchedInv
<1>5. Cr3IsCurenv'
  BY <1>a, <1>b, <1>d DEF Cr3IsCurenv, SchedInv
<1>6. OnCpuHasRun'
  BY <1>b DEF OnCpuHasRun, env_run
<1>7. MonitorOnlyWhenIdle'
  BY <1>a DEF MonitorOnlyWhenIdle, LockFree
<1>8. Left(c, st, runs)
  <2>1. \A x \in Envs : started'[x] = runs[x] \/ x = e
    BY DEF env_run
  <2>2. QED
    BY <1>a, <1>b, <2>1 DEF Left
<1>9. QED
  BY <1>1, <1>2, <1>3, <1>4, <1>5, <1>6, <1>7, <1>8 DEF SchedInv

LEMMA SchedHalt ==
    ASSUME NEW c, NEW st, NEW cur, NEW runs,
           SchedType, SchedInv, Leaving(c, st, cur, runs),
           cur # None => st[cur] # "RUNNING",
           \A e \in Envs : st[e] # "RUNNABLE",
           sched_halt(c, st, cur, runs)
    PROVE  SchedType' /\ SchedInv' /\ Left(c, st, runs)
<1> USE ConstAssumption DEF Leaving, OnCpu, Statuses
<1>0. None \notin Envs /\ None \notin CPUs
  BY DEF Envs
<1>1. SchedType'
  BY <1>0 DEF SchedType, sched_halt, Modes
<1>a. /\ env_status' = st /\ started' = runs
      /\ \A d \in CPUs \ {c} : /\ curenv'[d] = curenv[d] /\ cr3'[d] = cr3[d]
                               /\ mode'[d] = mode[d]
  BY DEF SchedType, sched_halt
<1>b. Left(c, st, runs)
  <2>1. mode'[c] \in {"halt", "monitor"}
    BY DEF sched_halt, SchedType
  <2>2. QED
    BY <1>a, <2>1 DEF Left
<1>c. \A d \in CPUs \ {c} : curenv[d] # None =>
        curenv[d] \in Envs /\ st[curenv[d]] \in {"RUNNING", "DYING"}
  BY DEF SchedType
<1>2. CASE \E e \in Envs : st[e] \in {"RUNNABLE", "RUNNING", "DYING"}
  <2>1. curenv'[c] = None /\ cr3'[c] = None /\ mode'[c] = "halt"
    BY <1>2 DEF sched_halt, SchedType
  <2>2. OneCpuPerEnv' /\ ModeMatchesCurenv' /\ Cr3IsCurenv'
    BY <1>a, <1>c, <2>1 DEF OneCpuPerEnv, ModeMatchesCurenv, Cr3IsCurenv, SchedInv
  <2>3. CurenvIsOnCpu'
    BY <1>a, <1>c, <2>1 DEF CurenvIsOnCpu, Holders
  <2>4. OnCpuHasRun' /\ MonitorOnlyWhenIdle'
    BY <1>a, <2>1 DEF OnCpuHasRun, MonitorOnlyWhenIdle, LockFree
  <2>5. QED
    BY <1>1, <1>b, <2>2, <2>3, <2>4 DEF SchedInv
<1>3. CASE ~ \E e \in Envs : st[e] \in {"RUNNABLE", "RUNNING", "DYING"}
  <2>1. /\ curenv'[c] = cur /\ mode'[c] = "monitor"
        /\ cr3'[c] = IF cur = None THEN None ELSE cr3[c]
    BY <1>3 DEF sched_halt, SchedType
  <2>2. \A d \in CPUs \ {c} : curenv[d] = None
    BY <1>3, <1>c
  <2>3. \A d \in CPUs \ {c} : mode[d] \in {"halt", "sched"}
    <3>1. \A d \in CPUs : mode[d] # "monitor"
      BY DEF LockFree
    <3>2. \A d \in CPUs \ {c} : mode[d] \notin {"timer", "call", "pop", "user"}
      BY <2>2 DEF SchedInv, ModeMatchesCurenv
    <3>3. \A d \in CPUs : mode[d] \in Modes
      BY DEF SchedType
    <3>4. QED
      BY <3>1, <3>2, <3>3 DEF Modes
  <2>4. OneCpuPerEnv' /\ ModeMatchesCurenv'
    BY <1>a, <2>1, <2>2, <2>3 DEF OneCpuPerEnv, ModeMatchesCurenv
  <2>5. Cr3IsCurenv'
    BY <1>a, <2>1, <2>2 DEF Cr3IsCurenv, SchedInv
  <2>6. CurenvIsOnCpu' /\ OnCpuHasRun'
    BY <1>3, <1>a, <2>1, <2>2 DEF CurenvIsOnCpu, OnCpuHasRun, Holders
  <2>7. MonitorOnlyWhenIdle'
    <3>1. \A e \in Envs : env_status'[e] \in {"FREE", "NOT_RUNNABLE"}
      BY <1>3, <1>a
    <3>2. \A d \in CPUs : mode'[d] = "monitor" => d = c
      BY <1>a, <2>3
    <3>3. QED
      BY <1>a, <2>2, <2>3, <3>1, <3>2 DEF MonitorOnlyWhenIdle
  <2>8. QED
    BY <1>1, <1>b, <2>4, <2>5, <2>6, <2>7 DEF SchedInv
<1>4. QED
  BY <1>2, <1>3

(* The circular scan visits slots of envs[] only, and all of them.         *)
LEMMA ScanInEnvs ==
    \A cur \in Envs \cup {None}, k \in 1..NENV : Scan(cur, k) \in Envs
<1>1. ASSUME NEW i \in 0..NENV-1, NEW k \in 1..NENV
      PROVE  (i + k) % NENV \in 0..NENV-1
  BY ConstAssumption
<1>2. 0 \in Envs /\ None \notin Envs
  BY ConstAssumption DEF Envs
<1>3. QED
  BY <1>1, <1>2 DEF Scan, Envs

LEMMA ScanCoversEnvs ==
    \A cur \in Envs \cup {None}, e \in Envs : \E k \in 1..NENV : Scan(cur, k) = e
<1>1. ASSUME NEW i \in 0..NENV-1, NEW e \in 0..NENV-1
      PROVE  \E k \in 1..NENV : (i + k) % NENV = e
  <2>1. CASE e > i
    <3>1. e - i \in 1..NENV /\ (i + (e - i)) % NENV = e
      BY <2>1, ConstAssumption
    <3>2. QED
      BY <3>1
  <2>2. CASE e <= i
    <3>1. e - i + NENV \in 1..NENV /\ i + (e - i + NENV) = e + NENV
      BY <2>2, ConstAssumption
    <3>2. (e + NENV) % NENV = e
      BY ConstAssumption
    <3>3. QED
      BY <3>1, <3>2
  <2>3. QED
    BY <2>1, <2>2, ConstAssumption
<1>2. 0 \in Envs /\ None \notin Envs
  BY ConstAssumption DEF Envs
<1>3. QED
  BY <1>1, <1>2 DEF Scan, Envs

LEMMA SchedYield ==
    ASSUME NEW c, NEW st, NEW cur, NEW runs,
           SchedType, SchedInv, Leaving(c, st, cur, runs),
           sched_yield(c, st, cur, runs)
    PROVE  SchedType' /\ SchedInv' /\ Left(c, st, runs)
<1>0. cur \in Envs \cup {None}
  BY DEF Leaving, SchedType
<1>1. ASSUME NEW k \in Ready(st, cur), env_run(c, st, cur, runs, Scan(cur, k))
      PROVE  SchedType' /\ SchedInv' /\ Left(c, st, runs)
  <2>1. Scan(cur, k) \in Envs /\ st[Scan(cur, k)] = "RUNNABLE"
    BY <1>0, ScanInEnvs DEF Ready
  <2>2. QED
    BY <1>1, <2>1, EnvRun
<1>2. CASE cur # None /\ st[cur] = "RUNNING" /\ env_run(c, st, cur, runs, cur)
  BY <1>0, <1>2, EnvRun
<1>3. CASE /\ Ready(st, cur) = {} /\ ~(cur # None /\ st[cur] = "RUNNING")
           /\ sched_halt(c, st, cur, runs)
  <2>1. \A e \in Envs : st[e] # "RUNNABLE"
    BY <1>0, <1>3, ScanCoversEnvs DEF Ready
  <2>2. QED
    BY <1>3, <2>1, SchedHalt
<1>4. QED
  BY <1>1, <1>2, <1>3 DEF sched_yield

LEMMA TrapReturn ==
    ASSUME NEW c, NEW st, NEW runs,
           SchedType, SchedInv, Leaving(c, st, curenv[c], runs), curenv[c] # None,
           trap_return(c, st, runs)
    PROVE  SchedType' /\ SchedInv' /\ Left(c, st, runs)
<1>1. curenv[c] \in Envs
  BY DEF Leaving, SchedType
<1>2. QED
  BY <1>1, EnvRun, SchedYield DEF trap_return

-----------------------------------------------------------------------------
(* A user environment whose CPU holds the lock, zombies aside, is RUNNING; *)
(* leaving without any change is fine.                                     *)
LEMMA UserSection ==
    ASSUME NEW c \in CPUs, SchedType, SchedInv, LockFree,
           mode[c] \in FromUser, env_status[curenv[c]] # "DYING"
    PROVE  /\ curenv[c] \in Envs /\ curenv[c] # None
           /\ env_status[curenv[c]] = "RUNNING"
           /\ Leaving(c, env_status, curenv[c], started)
<1>1. curenv[c] \in Envs /\ curenv[c] # None
  BY DEF SchedType, SchedInv, ModeMatchesCurenv, FromUser
<1>2. env_status[curenv[c]] = "RUNNING"
  BY <1>1 DEF SchedInv, CurenvIsOnCpu, OnCpu, FromUser
<1>3. \A d \in CPUs : curenv[d] # None => env_status[curenv[d]] \in OnCpu
  BY DEF SchedInv, CurenvIsOnCpu, LockFree
<1>4. \A e \in Envs : env_status[e] \in OnCpu
         => e = curenv[c] \/ \E d \in CPUs \ {c} : curenv[d] = e
  BY DEF SchedInv, CurenvIsOnCpu, Holders
<1>5. QED
  BY <1>1, <1>2, <1>3, <1>4 DEF Leaving, SchedInv, OnCpuHasRun, SchedType

(* A section may change an environment that is on no CPU to any status off *)
(* the CPUs, and may mark a running one as a zombie.                       *)
LEMMA LeavingUpdate ==
    ASSUME NEW c \in CPUs, SchedType, NEW cur, NEW e \in Envs, NEW s \in Statuses,
           NEW b \in BOOLEAN,
           Leaving(c, env_status, cur, started), e # cur,
           \/ /\ env_status[e] \notin OnCpu /\ s \notin OnCpu
           \/ /\ env_status[e] \in OnCpu /\ s \in OnCpu /\ b = started[e]
    PROVE  Leaving(c, [env_status EXCEPT ![e] = s], cur, [started EXCEPT ![e] = b])
<1> DEFINE st == [env_status EXCEPT ![e] = s]
           runs == [started EXCEPT ![e] = b]
<1>1. st \in [Envs -> Statuses] /\ runs \in [Envs -> BOOLEAN]
  BY DEF SchedType
<1>2. \A x \in Envs : st[x] = IF x = e THEN s ELSE env_status[x]
  BY DEF SchedType
<1>3. \A x \in Envs : runs[x] = IF x = e THEN b ELSE started[x]
  BY DEF SchedType
<1>4. \A x \in Envs : st[x] \in OnCpu <=> env_status[x] \in OnCpu
  BY <1>2
<1>5. cur # None => cur \in Envs /\ st[cur] = env_status[cur]
  BY <1>2 DEF Leaving, SchedType
<1>6. \A d \in CPUs : curenv[d] # None => curenv[d] \in Envs
  BY DEF SchedType
<1>7. \A x \in Envs : st[x] \in OnCpu => runs[x]
  BY <1>3, <1>4, <1>2 DEF Leaving
<1> HIDE DEF st, runs
<1>8. Leaving(c, st, cur, runs)
  BY <1>1, <1>4, <1>5, <1>6, <1>7 DEF Leaving
<1>9. QED
  BY <1>8 DEF st, runs

(* The current environment stops running: blocked in recv or freed.        *)
LEMMA LeavingBlocked ==
    ASSUME NEW c \in CPUs, SchedType, curenv[c] # None, curenv[c] \in Envs,
           OneCpuPerEnv, Leaving(c, env_status, curenv[c], started)
    PROVE  Leaving(c, [env_status EXCEPT ![curenv[c]] = "NOT_RUNNABLE"], curenv[c], started)
BY DEF Leaving, SchedType, OneCpuPerEnv, Statuses, OnCpu

LEMMA LeavingFreed ==
    ASSUME NEW c \in CPUs, SchedType, SchedInv, LockFree,
           curenv[c] # None, curenv[c] \in Envs
    PROVE  Leaving(c, Freed(curenv[c]), None, started)
<1> DEFINE st == Freed(curenv[c])
<1>1. /\ st \in [Envs -> Statuses]
      /\ \A x \in Envs : st[x] = IF x = curenv[c] THEN "FREE" ELSE env_status[x]
  BY DEF SchedType, Freed, Statuses
<1>2. \A d \in CPUs \ {c} : curenv[d] # None =>
         curenv[d] \in Envs /\ curenv[d] # curenv[c] /\ env_status[curenv[d]] \in OnCpu
  BY DEF SchedType, SchedInv, OneCpuPerEnv, CurenvIsOnCpu, LockFree
<1>3. \A x \in Envs : st[x] \in OnCpu => \E d \in CPUs \ {c} : curenv[d] = x
  BY <1>1 DEF SchedInv, CurenvIsOnCpu, Holders, OnCpu
<1>4. \A x \in Envs : st[x] \in OnCpu => started[x]
  BY <1>1 DEF SchedInv, OnCpuHasRun, OnCpu
<1> HIDE DEF st
<1>5. Leaving(c, st, None, started)
  BY <1>1, <1>2, <1>3, <1>4 DEF Leaving, SchedType
<1>6. QED
  BY <1>5 DEF st

-----------------------------------------------------------------------------
(* The rest of the invariant: the tables that a section changes itself.    *)

(* A parent id never names a later tenant of the parent's slot.            *)
ParentsAreOlder ==
    \A e \in Envs : env_status[e] # "FREE" =>
        LET g == env_parent[e][1]
            p == env_parent[e][2]
        IN  /\ env_gen[e] >= 1
            /\ g <= env_gen[p]
            /\ g = env_gen[p] /\ env_status[p] # "FREE" => started[p] /\ p # e

TablesType ==
    /\ env_gen \in [Envs -> 0..MaxGen]
    /\ env_parent \in [Envs -> (0..MaxGen) \X Envs]
    /\ env_ipc_recving \in [Envs -> BOOLEAN]
    /\ env_free_list \in Seq(Envs)

IInv ==
    /\ TypeOK
    /\ SchedInv
    /\ BlockedIffReceiving
    /\ FreeListExact
    /\ ParentsAreOlder
    /\ CpunumIsCurrent

(* The same three facts in the middle of a section.                        *)
Blocked(st, runs, recv) ==
    \A e \in Envs : st[e] # "FREE" =>
        (recv[e] <=> st[e] = "NOT_RUNNABLE" /\ runs[e])

FreeExactly(st, list) ==
    /\ \A i, j \in 1..Len(list) : list[i] = list[j] => i = j
    /\ \A e \in Envs : st[e] = "FREE" <=> \E i \in 1..Len(list) : list[i] = e

Parents(st, runs, gen, parent) ==
    \A e \in Envs : st[e] # "FREE" =>
        /\ gen[e] >= 1
        /\ parent[e][1] <= gen[parent[e][2]]
        /\ parent[e][1] = gen[parent[e][2]] /\ st[parent[e][2]] # "FREE"
             => runs[parent[e][2]] /\ parent[e][2] # e

LEMMA TablesLeft ==
    ASSUME NEW c \in CPUs, NEW st \in [Envs -> Statuses], NEW runs \in [Envs -> BOOLEAN],
           IInv, SchedType', SchedInv', Left(c, st, runs), TablesType',
           Blocked(st, runs, env_ipc_recving'),
           FreeExactly(st, env_free_list'),
           Parents(st, runs, env_gen', env_parent'),
           env_cpunum' = env_cpunum
    PROVE  IInv'
<1>1. TypeOK'
  BY DEF TypeOK, SchedType, TablesType, IInv
<1>2. \A e \in Envs : env_status'[e] = "FREE" <=> st[e] = "FREE"
  BY DEF Left
<1>3. BlockedIffReceiving'
  BY DEF Left, Blocked, BlockedIffReceiving
<1>4. FreeListExact'
  BY <1>2 DEF FreeExactly, FreeListExact
<1>5. ParentsAreOlder'
  <2>1. \A e \in Envs : runs[e] => started'[e]
    BY DEF Left, SchedInv, OnCpuHasRun, OnCpu
  <2>2. \A e \in Envs : env_parent'[e][2] \in Envs
    BY DEF TablesType
  <2>3. QED
    BY <1>2, <2>1, <2>2 DEF Parents, ParentsAreOlder
<1>6. CpunumIsCurrent'
  BY DEF Left, CpunumIsCurrent, IInv
<1>7. QED
  BY <1>1, <1>3, <1>4, <1>5, <1>6 DEF IInv

LEMMA SameTables ==
    ASSUME IInv
    PROVE  /\ SchedType /\ SchedInv /\ TablesType
           /\ Blocked(env_status, started, env_ipc_recving)
           /\ FreeExactly(env_status, env_free_list)
           /\ Parents(env_status, started, env_gen, env_parent)
BY DEF IInv, TypeOK, SchedType, TablesType, Blocked, BlockedIffReceiving,
       FreeExactly, FreeListExact, Parents, ParentsAreOlder

(* env_free pushes a slot that was not free; env_alloc pops the head.      *)
LEMMA PushFree ==
    ASSUME NEW st, NEW st2, NEW list \in Seq(Envs), NEW e \in Envs,
           FreeExactly(st, list), st[e] # "FREE",
           \A x \in Envs : st2[x] = "FREE" <=> x = e \/ st[x] = "FREE"
    PROVE  FreeExactly(st2, <<e>> \o list)
<1> DEFINE new == <<e>> \o list
<1>1. /\ new \in Seq(Envs) /\ Len(new) = Len(list) + 1 /\ new[1] = e
      /\ \A i \in 1..Len(list) : new[i + 1] = list[i]
      /\ \A i \in 2..Len(new) : i - 1 \in 1..Len(list) /\ new[i] = list[i - 1]
  OBVIOUS
<1>2. \A i \in 1..Len(list) : list[i] \in Envs /\ list[i] # e
  BY DEF FreeExactly
<1> HIDE DEF new
<1>3. ASSUME NEW i \in 1..Len(new), NEW j \in 1..Len(new), new[i] = new[j]
      PROVE  i = j
  <2>1. CASE i = 1 /\ j = 1
    BY <2>1
  <2>2. CASE i # 1 /\ j # 1
    <3>1. /\ i - 1 \in 1..Len(list) /\ j - 1 \in 1..Len(list)
          /\ list[i - 1] = list[j - 1]
      BY <1>1, <1>3, <2>2
    <3>2. i - 1 = j - 1
      BY <3>1 DEF FreeExactly
    <3>3. QED
      BY <3>2
  <2>3. \A k \in 1..Len(new) : k # 1 => new[k] # e
    <3>1. SUFFICES ASSUME NEW k \in 1..Len(new), k # 1 PROVE new[k] # e
      OBVIOUS
    <3>2. k \in 2..Len(new)
      BY <1>1, <3>1
    <3>3. QED
      BY <1>1, <1>2, <3>2
  <2>4. QED
    BY <1>1, <1>3, <2>1, <2>2, <2>3
<1>4. ASSUME NEW x \in Envs
      PROVE  st2[x] = "FREE" <=> \E i \in 1..Len(new) : new[i] = x
  <2>1. ASSUME st2[x] = "FREE", x # e PROVE \E i \in 1..Len(new) : new[i] = x
    <3>1. PICK i \in 1..Len(list) : list[i] = x
      BY <2>1 DEF FreeExactly
    <3>2. i + 1 \in 1..Len(new) /\ new[i + 1] = x
      BY <1>1, <3>1
    <3>3. QED
      BY <3>2
  <2>2. ASSUME NEW i \in 1..Len(new), new[i] = x, x # e PROVE st2[x] = "FREE"
    <3>1. i - 1 \in 1..Len(list) /\ list[i - 1] = x
      BY <1>1, <2>2
    <3>2. QED
      BY <3>1 DEF FreeExactly
  <2>3. 1 \in 1..Len(new) /\ new[1] = e /\ st2[e] = "FREE"
    BY <1>1
  <2>4. QED
    BY <2>1, <2>2, <2>3
<1>5. QED
  BY <1>3, <1>4 DEF FreeExactly, new

LEMMA PopFree ==
    ASSUME NEW st, NEW st2, NEW list \in Seq(Envs), list # <<>>,
           FreeExactly(st, list),
           \A x \in Envs : st2[x] = "FREE" <=> x # Head(list) /\ st[x] = "FREE"
    PROVE  FreeExactly(st2, Tail(list)) /\ Head(list) \in Envs /\ st[Head(list)] = "FREE"
<1> DEFINE new == Tail(list)
<1>1. /\ new \in Seq(Envs) /\ Len(new) = Len(list) - 1 /\ Len(list) >= 1
      /\ Head(list) = list[1] /\ Head(list) \in Envs
      /\ \A i \in 1..Len(new) : i + 1 \in 1..Len(list) /\ new[i] = list[i + 1]
      /\ \A i \in 2..Len(list) : i - 1 \in 1..Len(new) /\ new[i - 1] = list[i]
  OBVIOUS
<1> HIDE DEF new
<1>2. ASSUME NEW i \in 1..Len(new), NEW j \in 1..Len(new), new[i] = new[j]
      PROVE  i = j
  <2>1. /\ i + 1 \in 1..Len(list) /\ j + 1 \in 1..Len(list)
        /\ list[i + 1] = list[j + 1]
    BY <1>1, <1>2
  <2>2. i + 1 = j + 1
    BY <2>1 DEF FreeExactly
  <2>3. QED
    BY <2>2
<1>3. ASSUME NEW x \in Envs
      PROVE  st2[x] = "FREE" <=> \E i \in 1..Len(new) : new[i] = x
  <2>1. ASSUME st2[x] = "FREE" PROVE \E i \in 1..Len(new) : new[i] = x
    <3>1. PICK i \in 1..Len(list) : list[i] = x
      BY <2>1 DEF FreeExactly
    <3>2. i # 1
      BY <1>1, <2>1, <3>1
    <3>3. i - 1 \in 1..Len(new) /\ new[i - 1] = x
      BY <1>1, <3>1, <3>2
    <3>4. QED
      BY <3>3
  <2>2. ASSUME NEW i \in 1..Len(new), new[i] = x PROVE st2[x] = "FREE"
    <3>1. i + 1 \in 1..Len(list) /\ list[i + 1] = x /\ 1 \in 1..Len(list) /\ i + 1 # 1
      BY <1>1, <2>2
    <3>2. x # Head(list)
      BY <1>1, <3>1 DEF FreeExactly
    <3>3. QED
      BY <3>1, <3>2 DEF FreeExactly
  <2>3. QED
    BY <2>1, <2>2
<1>4. st[Head(list)] = "FREE"
  BY <1>1 DEF FreeExactly
<1>5. QED
  BY <1>1, <1>2, <1>3, <1>4 DEF FreeExactly, new

-----------------------------------------------------------------------------
(* One lemma per kind of section.                                          *)

(* Sections that only schedule.                                            *)
LEMMA StepNoTables ==
    ASSUME NEW c \in CPUs, IInv, Resched(c) \/ Timer(c) \/ SysNoEffect(c) \/ sys_yield(c)
    PROVE  IInv'
<1>0. /\ SchedType /\ SchedInv /\ TablesType
      /\ Blocked(env_status, started, env_ipc_recving)
      /\ FreeExactly(env_status, env_free_list)
      /\ Parents(env_status, started, env_gen, env_parent)
  BY SameTables
<1>1. SchedType' /\ SchedInv' /\ Left(c, env_status, started)
  <2>1. CASE Resched(c)
    <3>1. curenv[c] = None /\ LockFree
      BY <1>0, <2>1 DEF Resched, SchedInv, ModeMatchesCurenv
    <3>2. Leaving(c, env_status, curenv[c], started)
      BY <1>0, <3>1 DEF Leaving, SchedType, SchedInv, CurenvIsOnCpu, OnCpuHasRun,
                        Holders, LockFree
    <3>3. QED
      BY <1>0, <2>1, <3>2, SchedYield DEF Resched
  <2>2. CASE Timer(c) \/ SysNoEffect(c) \/ sys_yield(c)
    <3>1. LockFree /\ mode[c] \in FromUser /\ env_status[curenv[c]] # "DYING"
      BY <2>2 DEF Timer, SysNoEffect, sys_yield, InSyscall, FromUser
    <3>2. Leaving(c, env_status, curenv[c], started) /\ curenv[c] # None
      BY <1>0, <3>1, UserSection
    <3>3. QED
      BY <1>0, <2>2, <3>2, SchedYield, TrapReturn DEF Timer, SysNoEffect, sys_yield
  <2>3. QED
    BY <2>1, <2>2
<1>2. UNCHANGED <<env_cpunum, envVars>>
  BY DEF Resched, Timer, SysNoEffect, sys_yield
<1>3. TablesType' /\ env_ipc_recving' = env_ipc_recving /\ env_free_list' = env_free_list
      /\ env_gen' = env_gen /\ env_parent' = env_parent
  BY <1>0, <1>2 DEF TablesType, envVars
<1>4. QED
  BY <1>0, <1>1, <1>2, <1>3, TablesLeft DEF SchedType

LEMMA StepFreeSelf ==
    ASSUME NEW c \in CPUs, IInv, LockFree, mode[c] \in FromUser, FreeSelf(c)
    PROVE  IInv'
<1> DEFINE e == curenv[c]
           st == Freed(curenv[c])
<1>0. /\ SchedType /\ SchedInv /\ TablesType
      /\ Blocked(env_status, started, env_ipc_recving)
      /\ FreeExactly(env_status, env_free_list)
      /\ Parents(env_status, started, env_gen, env_parent)
  BY SameTables
<1>1. e \in Envs /\ e # None /\ env_status[e] # "FREE"
  BY <1>0 DEF SchedType, SchedInv, ModeMatchesCurenv, FromUser, Cr3IsCurenv
<1>2. SchedType' /\ SchedInv' /\ Left(c, st, started)
  BY <1>0, <1>1, LeavingFreed, SchedYield DEF FreeSelf
<1>3. /\ st \in [Envs -> Statuses]
      /\ \A x \in Envs : st[x] = IF x = e THEN "FREE" ELSE env_status[x]
  BY <1>0 DEF SchedType, Freed, Statuses
<1>4. /\ env_free_list' = <<e>> \o env_free_list
      /\ UNCHANGED <<env_gen, env_parent, env_ipc_recving, env_cpunum>>
  BY DEF FreeSelf, env_free
<1> HIDE DEF st, e
<1>5. TablesType'
  <2>1. <<e>> \o env_free_list \in Seq(Envs)
    BY <1>0, <1>1 DEF TablesType
  <2>2. QED
    BY <1>0, <1>4, <2>1 DEF TablesType
<1>6. FreeExactly(st, env_free_list')
  <2>1. env_free_list \in Seq(Envs)
    BY <1>0 DEF TablesType
  <2>2. \A x \in Envs : st[x] = "FREE" <=> x = e \/ env_status[x] = "FREE"
    BY <1>3
  <2>3. FreeExactly(st, <<e>> \o env_free_list)
    BY <1>0, <1>1, <2>1, <2>2, PushFree
  <2>4. QED
    BY <1>4, <2>3
<1>7. Blocked(st, started, env_ipc_recving') /\ Parents(st, started, env_gen', env_parent')
  BY <1>0, <1>3, <1>4 DEF Blocked, Parents, TablesType
<1>8. QED
  BY <1>0, <1>2, <1>3, <1>4, <1>5, <1>6, <1>7, TablesLeft DEF SchedType, st

(* Sections of a system call that change one environment off this CPU.     *)
LEMMA StepUpdate ==
    ASSUME NEW c \in CPUs, IInv, InSyscall(c), NEW e \in Envs, e # curenv[c],
           NEW s \in Statuses, NEW b \in BOOLEAN, NEW st, NEW runs,
           st = [env_status EXCEPT ![e] = s], runs = [started EXCEPT ![e] = b],
           \/ /\ env_status[e] \notin OnCpu /\ s \notin OnCpu
           \/ /\ env_status[e] \in OnCpu /\ s \in OnCpu /\ b = started[e],
           trap_return(c, st, runs),
           TablesType', env_cpunum' = env_cpunum,
           Blocked(st, runs, env_ipc_recving'),
           FreeExactly(st, env_free_list'),
           Parents(st, runs, env_gen', env_parent')
    PROVE  IInv'
<1>1. SchedType /\ SchedInv
  BY SameTables
<1>2. Leaving(c, env_status, curenv[c], started) /\ curenv[c] # None
  BY <1>1, UserSection DEF InSyscall, FromUser
<1>3. Leaving(c, st, curenv[c], runs)
  BY <1>1, <1>2, LeavingUpdate
<1>4. SchedType' /\ SchedInv' /\ Left(c, st, runs)
  BY <1>1, <1>2, <1>3, TrapReturn
<1>5. QED
  BY <1>3, <1>4, TablesLeft DEF Leaving

LEMMA StepExofork ==
    ASSUME NEW c \in CPUs, IInv, sys_exofork(c)
    PROVE  IInv'
<1>0. /\ SchedType /\ SchedInv /\ TablesType
      /\ Blocked(env_status, started, env_ipc_recving)
      /\ FreeExactly(env_status, env_free_list)
      /\ Parents(env_status, started, env_gen, env_parent)
  BY SameTables
<1> DEFINE cur == curenv[c]
<1>1. cur \in Envs /\ env_status[cur] = "RUNNING" /\ started[cur] /\ InSyscall(c)
  <2>1. InSyscall(c)
    BY DEF sys_exofork
  <2>2. cur \in Envs /\ env_status[cur] = "RUNNING"
    BY <1>0, <2>1, UserSection DEF InSyscall, FromUser
  <2>3. QED
    BY <1>0, <2>1, <2>2 DEF SchedInv, OnCpuHasRun, OnCpu
<1>2. PICK e \in Envs : /\ env_alloc(e, EnvId(cur))
                        /\ trap_return(c, [env_status EXCEPT ![e] = "NOT_RUNNABLE"],
                                          [started EXCEPT ![e] = FALSE])
  BY DEF sys_exofork
<1> DEFINE st == [env_status EXCEPT ![e] = "NOT_RUNNABLE"]
           runs == [started EXCEPT ![e] = FALSE]
<1>3. /\ \A x \in Envs : st[x] = IF x = e THEN "NOT_RUNNABLE" ELSE env_status[x]
      /\ \A x \in Envs : runs[x] = IF x = e THEN FALSE ELSE started[x]
  BY <1>0 DEF SchedType
<1>4. /\ \A x \in Envs : env_gen'[x] = IF x = e THEN env_gen[e] + 1 ELSE env_gen[x]
      /\ \A x \in Envs : env_parent'[x] = IF x = e THEN <<env_gen[cur], cur>> ELSE env_parent[x]
      /\ \A x \in Envs : env_ipc_recving'[x] = IF x = e THEN FALSE ELSE env_ipc_recving[x]
      /\ env_free_list # <<>> /\ e = Head(env_free_list)
      /\ env_free_list' = Tail(env_free_list) /\ env_cpunum' = env_cpunum
      /\ env_gen[e] < MaxGen /\ env_gen[e] \in Nat
  BY <1>0, <1>2 DEF env_alloc, EnvId, TablesType, sys_exofork
<1> HIDE DEF st, runs
<1>5. /\ FreeExactly(st, env_free_list') /\ env_status[e] = "FREE"
  <2>1. env_free_list \in Seq(Envs)
    BY <1>0 DEF TablesType
  <2>2. env_status[e] = "FREE"
    BY <1>0, <1>4, <2>1 DEF FreeExactly
  <2>3. \A x \in Envs : st[x] = "FREE" <=> x # Head(env_free_list) /\ env_status[x] = "FREE"
    BY <1>3, <1>4
  <2>4. FreeExactly(st, Tail(env_free_list))
    BY <1>0, <1>4, <2>1, <2>3, PopFree
  <2>5. QED
    BY <1>4, <2>2, <2>4
<1>6. e # cur
  BY <1>1, <1>5
<1>7. TablesType'
  <2>1. env_free_list' \in Seq(Envs)
    BY <1>0, <1>4 DEF TablesType
  <2>2. /\ env_gen' \in [Envs -> 0..MaxGen]
        /\ env_parent' \in [Envs -> (0..MaxGen) \X Envs]
        /\ env_ipc_recving' \in [Envs -> BOOLEAN]
    BY <1>0, <1>1, <1>2, ConstAssumption DEF TablesType, env_alloc, EnvId
  <2>3. QED
    BY <2>1, <2>2 DEF TablesType
<1>8. Blocked(st, runs, env_ipc_recving')
  BY <1>0, <1>3, <1>4 DEF Blocked
<1>9. Parents(st, runs, env_gen', env_parent')
  <2> SUFFICES ASSUME NEW x \in Envs, st[x] # "FREE"
               PROVE  /\ env_gen'[x] >= 1
                      /\ env_parent'[x][1] <= env_gen'[env_parent'[x][2]]
                      /\ env_parent'[x][1] = env_gen'[env_parent'[x][2]]
                         /\ st[env_parent'[x][2]] # "FREE"
                           => runs[env_parent'[x][2]] /\ env_parent'[x][2] # x
    BY DEF Parents
  <2>1. CASE x = e
    <3>1. env_gen'[x] >= 1
      BY <1>4, <2>1
    <3>2. env_parent'[x] = <<env_gen[cur], cur>> /\ env_gen'[cur] = env_gen[cur]
      BY <1>1, <1>4, <1>6, <2>1
    <3>3. env_gen[cur] \in Nat
      BY <1>0, <1>1 DEF TablesType
    <3>4. runs[cur] /\ cur # x
      BY <1>1, <1>3, <1>6, <2>1
    <3>5. env_parent'[x][1] = env_gen[cur] /\ env_parent'[x][2] = cur
      BY <3>2
    <3>6. QED
      BY <3>1, <3>2, <3>3, <3>4, <3>5
  <2>2. CASE x # e
    <3>1. /\ env_parent'[x] = env_parent[x] /\ env_parent[x][2] \in Envs
          /\ env_parent[x][1] \in Nat /\ env_status[x] # "FREE"
          /\ env_gen'[x] = env_gen[x] /\ \A y \in Envs : env_gen[y] \in Nat
      BY <1>0, <1>3, <1>4, <2>2 DEF TablesType
    <3>2. /\ env_gen[x] >= 1
          /\ env_parent[x][1] <= env_gen[env_parent[x][2]]
          /\ env_parent[x][1] = env_gen[env_parent[x][2]] /\ env_status[env_parent[x][2]] # "FREE"
                => started[env_parent[x][2]] /\ env_parent[x][2] # x
      BY <1>0, <3>1 DEF Parents
    <3>3. CASE env_parent[x][2] = e
      BY <1>4, <3>1, <3>2, <3>3
    <3>4. CASE env_parent[x][2] # e
      <4> DEFINE p == env_parent[x][2]
      <4>1. /\ env_gen'[p] = env_gen[p] /\ st[p] = env_status[p] /\ runs[p] = started[p]
        BY <1>3, <1>4, <3>1, <3>4
      <4>2. env_parent'[x][2] = p /\ env_parent'[x][1] = env_parent[x][1]
        BY <3>1
      <4>3. QED
        BY <3>1, <3>2, <4>1, <4>2
    <3>5. QED
      BY <3>3, <3>4
  <2>3. QED
    BY <2>1, <2>2
<1>10. QED
  BY <1>0, <1>1, <1>2, <1>4, <1>5, <1>6, <1>7, <1>8, <1>9, StepUpdate
     DEF st, runs, Statuses, OnCpu

(* fork and spawn start the child that sys_exofork left NOT_RUNNABLE.      *)
LEMMA StepStartChild ==
    ASSUME NEW c \in CPUs, NEW e \in Envs, IInv, StartChild(c, e)
    PROVE  IInv'
<1> DEFINE st == [env_status EXCEPT ![e] = "RUNNABLE"]
           runs == [started EXCEPT ![e] = started[e]]
<1>0. /\ SchedType /\ TablesType
      /\ Blocked(env_status, started, env_ipc_recving)
      /\ FreeExactly(env_status, env_free_list)
      /\ Parents(env_status, started, env_gen, env_parent)
  BY SameTables
<1>1. /\ InSyscall(c) /\ e # curenv[c] /\ env_status[e] = "NOT_RUNNABLE" /\ ~started[e]
      /\ trap_return(c, st, started)
      /\ UNCHANGED <<env_cpunum, env_gen, env_parent, env_ipc_recving, env_free_list>>
  BY DEF StartChild, sys_env_set_status, envVars
<1>2. runs = started /\ started[e] \in BOOLEAN
  BY <1>0 DEF SchedType
<1>3. \A x \in Envs : st[x] = IF x = e THEN "RUNNABLE" ELSE env_status[x]
  BY <1>0 DEF SchedType
<1> HIDE DEF st
<1>4. Blocked(st, started, env_ipc_recving')
  BY <1>0, <1>1, <1>3 DEF Blocked
<1>5. FreeExactly(st, env_free_list')
  BY <1>0, <1>1, <1>3 DEF FreeExactly
<1>6. Parents(st, started, env_gen', env_parent')
  BY <1>0, <1>1, <1>3 DEF Parents, TablesType
<1>7. TablesType'
  BY <1>0, <1>1 DEF TablesType
<1>8. QED
  BY <1>1, <1>2, <1>4, <1>5, <1>6, <1>7, StepUpdate DEF st, Statuses, OnCpu

(* A receiver is NOT_RUNNABLE, so the send cannot put it on a second CPU.  *)
LEMMA StepSend ==
    ASSUME NEW c \in CPUs, NEW e \in Envs, IInv, sys_ipc_try_send(c, e)
    PROVE  IInv'
<1> DEFINE st == [env_status EXCEPT ![e] = "RUNNABLE"]
           runs == [started EXCEPT ![e] = started[e]]
<1>0. /\ SchedType /\ SchedInv /\ TablesType
      /\ Blocked(env_status, started, env_ipc_recving)
      /\ FreeExactly(env_status, env_free_list)
      /\ Parents(env_status, started, env_gen, env_parent)
  BY SameTables
<1>1. /\ InSyscall(c) /\ env_status[e] # "FREE" /\ env_ipc_recving[e]
      /\ env_ipc_recving' = [env_ipc_recving EXCEPT ![e] = FALSE]
      /\ trap_return(c, st, started)
      /\ UNCHANGED <<env_cpunum, env_gen, env_parent, env_free_list>>
  BY DEF sys_ipc_try_send
<1>2. runs = started /\ started[e] \in BOOLEAN
  BY <1>0 DEF SchedType
<1>3. env_status[e] = "NOT_RUNNABLE" /\ e # curenv[c]
  <2>1. env_status[e] = "NOT_RUNNABLE"
    BY <1>0, <1>1 DEF Blocked
  <2>2. env_status[curenv[c]] = "RUNNING"
    BY <1>0, <1>1, UserSection DEF InSyscall, FromUser
  <2>3. QED
    BY <2>1, <2>2
<1>4. /\ \A x \in Envs : st[x] = IF x = e THEN "RUNNABLE" ELSE env_status[x]
      /\ \A x \in Envs : env_ipc_recving'[x] = IF x = e THEN FALSE ELSE env_ipc_recving[x]
  BY <1>0, <1>1 DEF SchedType, TablesType
<1> HIDE DEF st
<1>5. Blocked(st, started, env_ipc_recving')
  BY <1>0, <1>1, <1>4 DEF Blocked
<1>6. FreeExactly(st, env_free_list')
  BY <1>0, <1>1, <1>4 DEF FreeExactly
<1>7. Parents(st, started, env_gen', env_parent')
  BY <1>0, <1>1, <1>3, <1>4 DEF Parents, TablesType
<1>8. TablesType'
  BY <1>0, <1>1 DEF TablesType
<1>9. QED
  BY <1>1, <1>2, <1>3, <1>5, <1>6, <1>7, <1>8, StepUpdate DEF st, Statuses, OnCpu

LEMMA StepRecv ==
    ASSUME NEW c \in CPUs, IInv, sys_ipc_recv(c)
    PROVE  IInv'
<1> DEFINE e == curenv[c]
           st == [env_status EXCEPT ![e] = "NOT_RUNNABLE"]
<1>0. /\ SchedType /\ SchedInv /\ TablesType
      /\ Blocked(env_status, started, env_ipc_recving)
      /\ FreeExactly(env_status, env_free_list)
      /\ Parents(env_status, started, env_gen, env_parent)
  BY SameTables
<1>1. /\ InSyscall(c)
      /\ env_ipc_recving' = [env_ipc_recving EXCEPT ![e] = TRUE]
      /\ sched_yield(c, st, curenv[c], started)
      /\ UNCHANGED <<env_cpunum, env_gen, env_parent, env_free_list>>
  BY DEF sys_ipc_recv
<1>2. /\ e \in Envs /\ e # None /\ env_status[e] = "RUNNING"
      /\ Leaving(c, env_status, e, started)
  BY <1>0, <1>1, UserSection DEF InSyscall, FromUser
<1>3. started[e]
  BY <1>0, <1>2 DEF SchedInv, OnCpuHasRun, OnCpu
<1>4. Leaving(c, st, curenv[c], started)
  BY <1>0, <1>2, LeavingBlocked DEF SchedInv
<1>5. SchedType' /\ SchedInv' /\ Left(c, st, started)
  BY <1>0, <1>1, <1>4, SchedYield
<1>6. /\ \A x \in Envs : st[x] = IF x = e THEN "NOT_RUNNABLE" ELSE env_status[x]
      /\ \A x \in Envs : env_ipc_recving'[x] = IF x = e THEN TRUE ELSE env_ipc_recving[x]
  BY <1>0, <1>1 DEF SchedType, TablesType
<1> HIDE DEF st, e
<1>7. Blocked(st, started, env_ipc_recving')
  BY <1>0, <1>3, <1>6 DEF Blocked
<1>8. FreeExactly(st, env_free_list')
  BY <1>0, <1>1, <1>2, <1>6 DEF FreeExactly
<1>9. Parents(st, started, env_gen', env_parent')
  BY <1>0, <1>1, <1>2, <1>6 DEF Parents, TablesType
<1>10. TablesType'
  BY <1>0, <1>1 DEF TablesType
<1>11. QED
  BY <1>0, <1>1, <1>4, <1>5, <1>7, <1>8, <1>9, <1>10, TablesLeft DEF Leaving, SchedType

LEMMA StepDestroy ==
    ASSUME NEW c \in CPUs, NEW e \in Envs, IInv, DestroyOnce(c, e)
    PROVE  IInv'
<1>0. /\ SchedType /\ SchedInv /\ TablesType
      /\ Blocked(env_status, started, env_ipc_recving)
      /\ FreeExactly(env_status, env_free_list)
      /\ Parents(env_status, started, env_gen, env_parent)
  BY SameTables
<1>1. InSyscall(c) /\ env_status[e] \notin {"DYING", "FREE"} /\ env_destroy(c, e)
  BY DEF DestroyOnce, sys_env_destroy, MayControl
<1>2. started = [started EXCEPT ![e] = started[e]] /\ started[e] \in BOOLEAN
  BY <1>0 DEF SchedType
<1>3. CASE /\ env_status[e] = "RUNNING" /\ curenv[c] # e
           /\ trap_return(c, [env_status EXCEPT ![e] = "DYING"], started)
           /\ UNCHANGED <<env_cpunum, envVars>>
  <2> DEFINE st == [env_status EXCEPT ![e] = "DYING"]
  <2>1. UNCHANGED <<env_gen, env_parent, env_ipc_recving, env_free_list>>
    BY <1>3 DEF envVars
  <2>2. \A x \in Envs : st[x] = IF x = e THEN "DYING" ELSE env_status[x]
    BY <1>0 DEF SchedType
  <2> HIDE DEF st
  <2>3. Blocked(st, started, env_ipc_recving') /\ FreeExactly(st, env_free_list')
    BY <1>0, <1>3, <2>1, <2>2 DEF Blocked, FreeExactly
  <2>4. Parents(st, started, env_gen', env_parent') /\ TablesType'
    BY <1>0, <1>3, <2>1, <2>2 DEF Parents, TablesType
  <2>5. QED
    BY <1>1, <1>2, <1>3, <2>3, <2>4, StepUpdate DEF st, Statuses, OnCpu
<1>4. CASE /\ ~(env_status[e] = "RUNNING") /\ curenv[c] # e
           /\ env_free(e)
           /\ trap_return(c, Freed(e), started)
           /\ UNCHANGED <<env_gen, env_parent, env_ipc_recving, env_cpunum>>
  <2> DEFINE st == [env_status EXCEPT ![e] = "FREE"]
  <2>1. env_free_list' = <<e>> \o env_free_list /\ env_free_list \in Seq(Envs)
    BY <1>0, <1>4 DEF env_free, TablesType
  <2>2. \A x \in Envs : st[x] = IF x = e THEN "FREE" ELSE env_status[x]
    BY <1>0 DEF SchedType
  <2>3. trap_return(c, st, started)
    BY <1>4 DEF Freed
  <2> HIDE DEF st
  <2>4. Blocked(st, started, env_ipc_recving')
    BY <1>0, <1>4, <2>2 DEF Blocked
  <2>5. FreeExactly(st, env_free_list')
    BY <1>0, <1>1, <2>1, <2>2, PushFree
  <2>6. Parents(st, started, env_gen', env_parent')
    BY <1>0, <1>4, <2>2 DEF Parents, TablesType
  <2>7. TablesType'
    BY <1>0, <1>4, <2>1 DEF TablesType
  <2>8. QED
    BY <1>1, <1>2, <1>4, <2>3, <2>4, <2>5, <2>6, <2>7, StepUpdate DEF st, Statuses, OnCpu
<1>5. CASE curenv[c] = e /\ FreeSelf(c)
  BY <1>1, <1>5, StepFreeSelf DEF InSyscall, FromUser
<1>6. QED
  BY <1>1, <1>3, <1>4, <1>5 DEF env_destroy

(* The steps without the lock.                                             *)
LEMMA StepUnlocked ==
    ASSUME NEW c \in CPUs, IInv, TimerIrq(c) \/ UserTrap(c) \/ env_pop_tf(c)
    PROVE  IInv'
<1> USE DEF IInv, TypeOK, SchedInv
<1>0. UNCHANGED <<env_status, started, curenv, cr3, env_gen, env_parent,
                  env_ipc_recving, env_free_list>>
  BY DEF TimerIrq, UserTrap, env_pop_tf, envVars
<1>1. /\ mode[c] \in {"user", "halt", "pop"} /\ mode'[c] \in {"timer", "call", "sched", "user"}
      /\ mode[c] = "halt" <=> mode'[c] = "sched"
      /\ \A d \in CPUs \ {c} : mode'[d] = mode[d]
      /\ mode' \in [CPUs -> Modes]
  BY DEF TimerIrq, UserTrap, env_pop_tf, Modes
<1>2. env_cpunum' \in [Envs -> CPUs \cup {None}] /\ CpunumIsCurrent'
  <2>1. CASE env_pop_tf(c)
    <3>1. curenv[c] \in Envs /\ curenv[c] # None
      BY <2>1 DEF env_pop_tf, ModeMatchesCurenv
    <3>2. \A d \in CPUs : mode[d] = "user" => curenv[d] \in Envs /\ curenv[d] # None
      BY DEF ModeMatchesCurenv
    <3>3. QED
      BY <2>1, <3>1, <3>2 DEF env_pop_tf, CpunumIsCurrent, OneCpuPerEnv
  <2>2. CASE TimerIrq(c) \/ UserTrap(c)
    BY <2>2 DEF TimerIrq, UserTrap, CpunumIsCurrent
  <2>3. QED
    BY <2>1, <2>2
<1>3. TypeOK'
  BY <1>0, <1>1, <1>2
<1>4. SchedInv'
  <2>1. OneCpuPerEnv' /\ Cr3IsCurenv' /\ OnCpuHasRun'
    BY <1>0 DEF OneCpuPerEnv, Cr3IsCurenv, OnCpuHasRun
  <2>2. \A d \in CPUs : mode'[d] = "monitor" <=> mode[d] = "monitor"
    BY <1>1
  <2>3. CurenvIsOnCpu'
    BY <1>0, <2>2 DEF CurenvIsOnCpu, Holders
  <2>4. ModeMatchesCurenv'
    BY <1>0, <1>1 DEF ModeMatchesCurenv
  <2>5. MonitorOnlyWhenIdle'
    <3> SUFFICES ASSUME NEW d \in CPUs, mode[d] = "monitor"
                 PROVE  \A x \in CPUs \ {d} : mode'[x] \in {"halt", "sched"} /\ curenv[x] = None
      BY <1>0, <2>2 DEF MonitorOnlyWhenIdle
    <3>1. \A x \in CPUs \ {d} : mode[x] \in {"halt", "sched"} /\ curenv[x] = None
      BY DEF MonitorOnlyWhenIdle
    <3>2. c # d
      BY <1>1
    <3>3. mode[c] = "halt" /\ mode'[c] = "sched"
      BY <1>1, <3>1, <3>2
    <3>4. QED
      BY <1>1, <3>1, <3>3
  <2>6. QED
    BY <2>1, <2>3, <2>4, <2>5
<1>5. BlockedIffReceiving' /\ FreeListExact' /\ ParentsAreOlder'
  BY <1>0 DEF BlockedIffReceiving, FreeListExact, ParentsAreOlder
<1>6. QED
  BY <1>2, <1>3, <1>4, <1>5

-----------------------------------------------------------------------------
LEMMA InitIInv == Init => IInv
<1> SUFFICES ASSUME Init PROVE IInv
  OBVIOUS
<1> USE ConstAssumption DEF Init, Envs
<1>1. TypeOK
  BY DEF TypeOK, Statuses, Modes
<1>2. SchedInv
  BY DEF SchedInv, OneCpuPerEnv, CurenvIsOnCpu, ModeMatchesCurenv, Cr3IsCurenv,
         OnCpuHasRun, MonitorOnlyWhenIdle, OnCpu
<1>3. BlockedIffReceiving /\ CpunumIsCurrent
  BY DEF BlockedIffReceiving, CpunumIsCurrent
<1>4. FreeListExact
  <2>1. Len(env_free_list) = NENV - NBoot
    OBVIOUS
  <2>2. \A i \in 1..Len(env_free_list) : env_free_list[i] = NBoot + i - 1
    BY <2>1
  <2>3. ASSUME NEW e \in Envs, env_status[e] = "FREE"
        PROVE  \E i \in 1..Len(env_free_list) : env_free_list[i] = e
    <3>1. e - NBoot + 1 \in 1..(NENV - NBoot)
      BY <2>3
    <3>2. env_free_list[e - NBoot + 1] = e
      BY <2>1, <2>2, <3>1
    <3>3. QED
      BY <2>1, <3>1, <3>2
  <2>4. ASSUME NEW i \in 1..Len(env_free_list)
        PROVE  env_free_list[i] \in Envs /\ env_status[env_free_list[i]] = "FREE"
    BY <2>1, <2>2
  <2>5. QED
    BY <2>2, <2>3, <2>4 DEF FreeListExact
<1>5. ParentsAreOlder
  BY DEF ParentsAreOlder
<1>6. QED
  BY <1>1, <1>2, <1>3, <1>4, <1>5 DEF IInv

LEMMA NextIInv == IInv /\ [Next]_vars => IInv'
<1> SUFFICES ASSUME IInv, [Next]_vars PROVE IInv'
  OBVIOUS
<1>1. ASSUME NEW c \in CPUs, Common(c) PROVE IInv'
  <2>1. CASE TimerIrq(c) \/ UserTrap(c) \/ env_pop_tf(c)
    BY <2>1, StepUnlocked
  <2>2. CASE Resched(c) \/ Timer(c) \/ SysNoEffect(c) \/ sys_yield(c)
    BY <2>2, StepNoTables
  <2>3. CASE ReapZombie(c)
    BY <2>3, StepFreeSelf DEF ReapZombie
  <2>4. CASE sys_exofork(c)
    BY <2>4, StepExofork
  <2>5. CASE sys_ipc_recv(c)
    BY <2>5, StepRecv
  <2>6. CASE \E e \in Envs : sys_ipc_try_send(c, e)
    BY <2>6, StepSend
  <2>7. QED
    BY <1>1, <2>1, <2>2, <2>3, <2>4, <2>5, <2>6 DEF Common
<1>2. ASSUME NEW c \in CPUs, NEW e \in Envs, StartChild(c, e) \/ DestroyOnce(c, e)
      PROVE  IInv'
  BY <1>2, StepStartChild, StepDestroy
<1>3. ASSUME UNCHANGED vars PROVE IInv'
  BY <1>3 DEF vars, IInv, TypeOK, SchedInv, OneCpuPerEnv, CurenvIsOnCpu, Holders,
              ModeMatchesCurenv, Cr3IsCurenv, OnCpuHasRun, MonitorOnlyWhenIdle,
              BlockedIffReceiving, FreeListExact, ParentsAreOlder, CpunumIsCurrent
<1>4. QED
  BY <1>1, <1>2, <1>3 DEF Next, MonitorLoop

LEMMA Invariance == Spec => []IInv
BY InitIInv, NextIInv, PTL DEF Spec

(* Every environment is on at most one CPU, in every program that keeps    *)
(* the rules of fork and spawn, on any number of CPUs (sched.c:26).        *)
THEOREM OneCpu == Spec => []OneCpuPerEnv
<1>1. IInv => OneCpuPerEnv
  BY DEF IInv, SchedInv
<1>2. QED
  BY <1>1, Invariance, PTL

(* Type correctness of the environment table and the per-CPU state.        *)
THEOREM TypeCorrect == Spec => []TypeOK
<1>1. IInv => TypeOK
  BY DEF IInv
<1>2. QED
  BY <1>1, Invariance, PTL

(* RUNNING and DYING mean: the curenv of some CPU.                         *)
THEOREM CurenvOnCpu == Spec => []CurenvIsOnCpu
<1>1. IInv => CurenvIsOnCpu
  BY DEF IInv, SchedInv
<1>2. QED
  BY <1>1, Invariance, PTL

(* No CPU keeps the page table of a freed environment in cr3.              *)
THEOREM Cr3Alive == Spec => []NoFreedAddressSpace
<1>1. IInv => NoFreedAddressSpace
  BY DEF IInv, SchedInv, Cr3IsCurenv, NoFreedAddressSpace
<1>2. QED
  BY <1>1, Invariance, PTL

(* The free list is exactly the free slots, each once.                     *)
THEOREM FreeList == Spec => []FreeListExact
<1>1. IInv => FreeListExact
  BY DEF IInv
<1>2. QED
  BY <1>1, Invariance, PTL

(* No wakeup is lost between sys_ipc_recv and sys_ipc_try_send.            *)
THEOREM Receivers == Spec => []BlockedIffReceiving
<1>1. IInv => BlockedIffReceiving
  BY DEF IInv
<1>2. QED
  BY <1>1, Invariance, PTL

(* Generations keep a reused slot from inheriting children.                *)
THEOREM Parentage == Spec => []ParentHasRun
<1>1. IInv => ParentHasRun
  <2> SUFFICES ASSUME IInv, NEW e \in Envs, NEW p \in Envs,
                      env_status[e] # "FREE", env_status[p] # "FREE",
                      env_parent[e] = <<env_gen[p], p>>
               PROVE  started[p] /\ p # e
    BY DEF ParentHasRun, EnvId
  <2>1. env_parent[e][1] = env_gen[p] /\ env_parent[e][2] = p
    OBVIOUS
  <2>2. QED
    BY <2>1 DEF IInv, ParentsAreOlder
<1>2. QED
  BY <1>1, Invariance, PTL

(* The monitor is entered only when no CPU runs an environment.            *)
THEOREM MonitorIdle == Spec => []MonitorOnlyWhenIdle
<1>1. IInv => MonitorOnlyWhenIdle
  BY DEF IInv, SchedInv
<1>2. QED
  BY <1>1, Invariance, PTL

(* env_pop_tf records the right CPU although it runs without the lock.     *)
THEOREM Cpunum == Spec => []CpunumIsCurrent
<1>1. IInv => CpunumIsCurrent
  BY DEF IInv
<1>2. QED
  BY <1>1, Invariance, PTL

-----------------------------------------------------------------------------
(* EnvSched implements EnvLife, for any CPUs and any number of slots.      *)
(*                                                                         *)
(* A step of the kernel changes nothing of the life cycle, or changes one  *)
(* environment that is not on the CPU and returns to the program that was  *)
(* there (Update), or takes that program off the CPU, puts another one on  *)
(* it, and changes no third (Switch).                                      *)

Same(e) == env_status'[e] = env_status[e] /\ started'[e] = started[e]

Update(c, e) ==
    /\ curenv' = curenv /\ e # curenv[c]
    /\ \A x \in Envs \ {e} : Same(x)
    /\ \/ Same(e)
       \/ env_status[e] = "FREE" /\ env_status'[e] = "NOT_RUNNABLE" /\ ~started'[e]
       \/ env_status[e] = "NOT_RUNNABLE" /\ env_status'[e] = "RUNNABLE"
       \/ env_status[e] \in {"NOT_RUNNABLE", "RUNNABLE"} /\ env_status'[e] = "FREE"
       \/ env_status[e] = "RUNNING" /\ env_status'[e] = "DYING"

Switch(c) ==
    /\ mode[c] # "user"
    /\ \A d \in CPUs \ {c} : curenv'[d] = curenv[d]
    /\ \A e \in Envs : e # curenv[c] =>
          \/ Same(e)
          \/ env_status[e] = "RUNNABLE" /\ env_status'[e] = "RUNNING" /\ curenv'[c] = e
    /\ \A e \in Envs : e = curenv[c] =>
          \/ env_status[e] = "RUNNING" /\ env_status'[e] = "RUNNING" /\ curenv'[c] = e
          \/ env_status[e] = "RUNNING" /\ env_status'[e] \in {"RUNNABLE", "FREE"}
          \/ env_status[e] = "RUNNING" /\ env_status'[e] = "NOT_RUNNABLE" /\ started'[e]
          \/ env_status[e] = "DYING" /\ env_status'[e] = "FREE" /\ curenv'[c] # e

(* What sched_yield can come to.                                           *)
LEMMA WaysOut ==
    ASSUME NEW c, NEW st, NEW cur \in Envs \cup {None}, NEW runs,
           sched_yield(c, st, cur, runs)
    PROVE  \/ \E e \in Envs : /\ env_run(c, st, cur, runs, e)
                              /\ st[e] = "RUNNABLE" \/ (e = cur /\ st[e] = "RUNNING")
           \/ sched_halt(c, st, cur, runs) /\ (cur # None => st[cur] # "RUNNING")
BY ScanInEnvs DEF sched_yield, Ready

(* The section gives up the CPU: st differs from the statuses before it in *)
(* the environment that was on the CPU, at most.                           *)
LEMMA YieldSwitches ==
    ASSUME IInv, NEW c \in CPUs, mode[c] # "user",
           NEW st \in [Envs -> Statuses], NEW cur \in {curenv[c], None},
           \A e \in Envs : e # curenv[c] => st[e] = env_status[e],
           \A e \in Envs : e = curenv[c] =>
              \/ cur = None /\ env_status[e] \in OnCpu /\ st[e] = "FREE"
              \/ /\ cur = e /\ env_status[e] = "RUNNING"
                 /\ st[e] \in {"RUNNING", "NOT_RUNNABLE"},
           sched_yield(c, st, cur, started)
    PROVE  Switch(c)
<1>1. cur \in Envs \cup {None} /\ None \notin Envs
  BY ConstAssumption DEF IInv, TypeOK, Envs
<1>2. \A e \in Envs : env_status[e] \in OnCpu => started[e]
  BY DEF IInv, SchedInv, OnCpuHasRun
<1>3. ASSUME NEW n \in Envs, env_run(c, st, cur, started, n),
             st[n] = "RUNNABLE" \/ (n = cur /\ st[n] = "RUNNING")
      PROVE  Switch(c)
  <2>1. /\ \A e \in Envs : env_status'[e] = IF e = n THEN "RUNNING"
                                            ELSE IF e = cur /\ st[e] = "RUNNING" THEN "RUNNABLE"
                                            ELSE st[e]
        /\ \A e \in Envs : started'[e] = IF e = n THEN TRUE ELSE started[e]
        /\ curenv'[c] = n /\ \A d \in CPUs \ {c} : curenv'[d] = curenv[d]
    BY <1>3 DEF env_run, IInv, TypeOK
  <2>2. ASSUME NEW e \in Envs, e # curenv[c]
        PROVE  \/ Same(e)
               \/ env_status[e] = "RUNNABLE" /\ env_status'[e] = "RUNNING" /\ curenv'[c] = e
    <3>1. e # cur /\ st[e] = env_status[e]
      BY <1>1, <2>2
    <3>2. CASE e = n
      BY <1>3, <2>1, <3>1, <3>2
    <3>3. CASE e # n
      BY <2>1, <3>1, <3>3 DEF Same
    <3>4. QED
      BY <3>2, <3>3
  <2>3. ASSUME NEW e \in Envs, e = curenv[c]
        PROVE  \/ env_status[e] = "RUNNING" /\ env_status'[e] = "RUNNING" /\ curenv'[c] = e
               \/ env_status[e] = "RUNNING" /\ env_status'[e] \in {"RUNNABLE", "FREE"}
               \/ env_status[e] = "RUNNING" /\ env_status'[e] = "NOT_RUNNABLE" /\ started'[e]
               \/ env_status[e] = "DYING" /\ env_status'[e] = "FREE" /\ curenv'[c] # e
    <3>1. CASE cur = None /\ env_status[e] \in OnCpu /\ st[e] = "FREE"
      BY <1>1, <1>3, <2>1, <3>1 DEF OnCpu
    <3>2. CASE cur = e /\ env_status[e] = "RUNNING" /\ st[e] \in {"RUNNING", "NOT_RUNNABLE"}
      BY <1>2, <1>3, <2>1, <3>2 DEF OnCpu
    <3>3. QED
      BY <2>3, <3>1, <3>2
  <2>4. QED
    BY <2>1, <2>2, <2>3 DEF Switch
<1>4. ASSUME sched_halt(c, st, cur, started), cur # None => st[cur] # "RUNNING"
      PROVE  Switch(c)
  <2>1. /\ env_status' = st /\ started' = started
        /\ \A d \in CPUs \ {c} : curenv'[d] = curenv[d]
        /\ curenv'[c] \in {cur, None}
    BY <1>4 DEF sched_halt, IInv, TypeOK
  <2>2. QED
    BY <1>1, <1>2, <1>4, <2>1 DEF Switch, Same, OnCpu
<1>5. QED
  BY <1>1, <1>3, <1>4, WaysOut

(* The program of c is RUNNING in a system call.                           *)
LEMMA Caller ==
    ASSUME IInv, LockFree,
           NEW c \in CPUs, mode[c] \in FromUser, env_status[curenv[c]] # "DYING"
    PROVE  /\ curenv[c] \in Envs /\ curenv[c] # None
           /\ env_status[curenv[c]] = "RUNNING" /\ started[curenv[c]] /\ mode[c] # "user"
<1>1. curenv[c] \in Envs /\ curenv[c] # None /\ env_status[curenv[c]] = "RUNNING"
  BY SameTables, UserSection
<1>2. QED
  BY <1>1 DEF IInv, SchedInv, OnCpuHasRun, OnCpu, FromUser

(* A system call that changes another environment returns to its caller.   *)
LEMMA ReturnUpdates ==
    ASSUME IInv, NEW c \in CPUs, InSyscall(c), NEW e \in Envs, e # curenv[c],
           NEW st \in [Envs -> Statuses], NEW runs \in [Envs -> BOOLEAN],
           \A x \in Envs \ {e} : st[x] = env_status[x] /\ runs[x] = started[x],
           trap_return(c, st, runs)
    PROVE  /\ env_status' = st /\ started' = runs /\ curenv' = curenv
<1>1. /\ curenv[c] \in Envs /\ st[curenv[c]] = "RUNNING" /\ runs[curenv[c]]
  BY Caller DEF InSyscall, FromUser
<1>2. env_run(c, st, curenv[c], runs, curenv[c])
  BY <1>1 DEF trap_return
<1>3. env_status' = st
  BY <1>1, <1>2 DEF env_run
<1>4. started' = runs
  BY <1>1, <1>2 DEF env_run
<1>5. curenv' = curenv
  BY <1>1, <1>2 DEF env_run, IInv, TypeOK
<1>6. QED
  BY <1>3, <1>4, <1>5

-----------------------------------------------------------------------------
(* The sections, one kind after the other.                                 *)

(* A timer interrupt or a yield gives up the CPU.                          *)
LEMMA Yields ==
    ASSUME IInv, NEW c \in CPUs,
           Resched(c) \/ Timer(c) \/ sys_yield(c) \/ SysNoEffect(c)
    PROVE  Switch(c)
<1>1. env_status \in [Envs -> Statuses]
  BY DEF IInv, TypeOK
<1>2. CASE Resched(c)
  <2>1. curenv[c] = None /\ mode[c] # "user" /\ None \notin Envs
    BY <1>2, ConstAssumption DEF Resched, IInv, SchedInv, ModeMatchesCurenv, Envs
  <2>2. QED
    BY <1>1, <1>2, <2>1, YieldSwitches DEF Resched
<1>3. CASE Timer(c) \/ sys_yield(c)
  <2>1. curenv[c] \in Envs /\ env_status[curenv[c]] = "RUNNING" /\ mode[c] # "user"
    BY <1>3, Caller DEF Timer, sys_yield, InSyscall, FromUser
  <2>2. sched_yield(c, env_status, curenv[c], started)
    BY <1>3 DEF Timer, sys_yield
  <2>3. QED
    BY <1>1, <2>1, <2>2, YieldSwitches
<1>4. CASE SysNoEffect(c)
  <2>1. /\ curenv[c] \in Envs /\ env_status[curenv[c]] = "RUNNING" /\ mode[c] # "user"
        /\ started[curenv[c]]
    BY <1>4, Caller DEF SysNoEffect, InSyscall, FromUser
  <2>2. env_run(c, env_status, curenv[c], started, curenv[c])
    BY <1>4, <2>1 DEF SysNoEffect, trap_return
  <2>3. /\ \A e \in Envs : env_status'[e] = env_status[e] /\ started'[e] = started[e]
        /\ \A d \in CPUs : curenv'[d] = curenv[d]
    BY <2>1, <2>2 DEF env_run, IInv, TypeOK
  <2>4. QED
    BY <2>1, <2>3 DEF Switch, Same
<1>5. QED
  BY <1>2, <1>3, <1>4

(* So does a program that destroys itself, or that was destroyed.          *)
LEMMA FreesItself ==
    ASSUME IInv, NEW c \in CPUs, mode[c] \in FromUser, LockFree, FreeSelf(c)
    PROVE  Switch(c)
<1>1. curenv[c] \in Envs /\ curenv[c] # None /\ mode[c] # "user" /\ mode[c] # "monitor"
  BY DEF IInv, TypeOK, SchedInv, ModeMatchesCurenv, FromUser
<1>2. env_status[curenv[c]] \in OnCpu
  BY <1>1 DEF IInv, SchedInv, CurenvIsOnCpu
<1>3. /\ Freed(curenv[c]) \in [Envs -> Statuses] /\ Freed(curenv[c])[curenv[c]] = "FREE"
      /\ \A e \in Envs : e # curenv[c] => Freed(curenv[c])[e] = env_status[e]
  BY <1>1 DEF Freed, IInv, TypeOK, Statuses
<1>4. QED
  BY <1>1, <1>2, <1>3, YieldSwitches DEF FreeSelf

(* ipc_recv blocks its caller and gives up the CPU.                        *)
LEMMA RecvSwitches ==
    ASSUME IInv, NEW c \in CPUs, sys_ipc_recv(c)
    PROVE  Switch(c)
<1> DEFINE st == [env_status EXCEPT ![curenv[c]] = "NOT_RUNNABLE"]
<1>1. curenv[c] \in Envs /\ env_status[curenv[c]] = "RUNNING" /\ mode[c] # "user"
  BY Caller DEF sys_ipc_recv, InSyscall, FromUser
<1>2. /\ st \in [Envs -> Statuses] /\ st[curenv[c]] = "NOT_RUNNABLE"
      /\ \A e \in Envs : e # curenv[c] => st[e] = env_status[e]
  BY <1>1 DEF IInv, TypeOK, Statuses
<1>3. sched_yield(c, st, curenv[c], started)
  BY DEF sys_ipc_recv
<1> HIDE DEF st
<1>4. QED
  BY <1>1, <1>2, <1>3, YieldSwitches

(* sys_exofork takes the first free slot.                                  *)
LEMMA ExoforkUpdates ==
    ASSUME IInv, NEW c \in CPUs, sys_exofork(c)
    PROVE  \E e \in Envs : Update(c, e)
<1>1. PICK e \in Envs : /\ env_alloc(e, EnvId(curenv[c]))
                        /\ trap_return(c, [env_status EXCEPT ![e] = "NOT_RUNNABLE"],
                                          [started EXCEPT ![e] = FALSE])
  BY DEF sys_exofork
<1>2. env_status[e] = "FREE"
  <2>1. env_free_list \in Seq(Envs) /\ env_free_list # <<>> /\ e = env_free_list[1]
        /\ 1 \in 1..Len(env_free_list)
    BY <1>1 DEF env_alloc, IInv, TypeOK
  <2>2. QED
    BY <2>1 DEF IInv, FreeListExact
<1>3. e # curenv[c] /\ InSyscall(c)
  BY <1>2, Caller DEF sys_exofork, InSyscall, FromUser
<1> DEFINE st == [env_status EXCEPT ![e] = "NOT_RUNNABLE"]
           runs == [started EXCEPT ![e] = FALSE]
<1>4. /\ st \in [Envs -> Statuses] /\ runs \in [Envs -> BOOLEAN]
      /\ st[e] = "NOT_RUNNABLE" /\ runs[e] = FALSE
      /\ \A x \in Envs \ {e} : st[x] = env_status[x] /\ runs[x] = started[x]
  BY DEF IInv, TypeOK, Statuses
<1>5. trap_return(c, st, runs)
  BY <1>1
<1> HIDE DEF st, runs
<1>6. env_status' = st /\ started' = runs /\ curenv' = curenv
  BY <1>3, <1>4, <1>5, ReturnUpdates
<1>7. QED
  BY <1>2, <1>3, <1>4, <1>6 DEF Update, Same

(* A call that sets the status of one other environment and returns.       *)
LEMMA CallUpdates ==
    ASSUME IInv, NEW c \in CPUs, InSyscall(c), NEW e \in Envs, e # curenv[c],
           NEW s \in Statuses,
           trap_return(c, [env_status EXCEPT ![e] = s], started),
           \/ env_status[e] = "NOT_RUNNABLE" /\ s = "RUNNABLE"
           \/ env_status[e] \in {"NOT_RUNNABLE", "RUNNABLE"} /\ s = "FREE"
           \/ env_status[e] = "RUNNING" /\ s = "DYING"
    PROVE  Update(c, e)
<1> DEFINE st == [env_status EXCEPT ![e] = s]
<1>1. /\ st \in [Envs -> Statuses] /\ started \in [Envs -> BOOLEAN]
      /\ st[e] = s /\ \A x \in Envs \ {e} : st[x] = env_status[x]
  BY DEF IInv, TypeOK
<1>2. trap_return(c, st, started)
  OBVIOUS
<1> HIDE DEF st
<1>3. env_status' = st /\ started' = started /\ curenv' = curenv
  BY <1>1, <1>2, ReturnUpdates
<1>4. QED
  BY <1>1, <1>3 DEF Update, Same

(* ipc_try_send wakes the receiver.                                        *)
LEMMA SendUpdates ==
    ASSUME IInv, NEW c \in CPUs, NEW e \in Envs, sys_ipc_try_send(c, e)
    PROVE  Update(c, e)
<1>1. env_status[e] = "NOT_RUNNABLE"
  BY DEF sys_ipc_try_send, IInv, BlockedIffReceiving
<1>2. InSyscall(c) /\ trap_return(c, [env_status EXCEPT ![e] = "RUNNABLE"], started)
  BY DEF sys_ipc_try_send
<1>3. e # curenv[c]
  BY <1>1, <1>2, Caller DEF InSyscall, FromUser
<1>4. QED
  BY <1>1, <1>2, <1>3, CallUpdates DEF Statuses

(* The parent starts its child.                                            *)
LEMMA StartUpdates ==
    ASSUME IInv, NEW c \in CPUs, NEW e \in Envs, StartChild(c, e)
    PROVE  Update(c, e)
BY CallUpdates DEF StartChild, sys_env_set_status, Statuses

(* Destroying another environment frees it, or makes it a zombie.          *)
LEMMA DestroyUpdates ==
    ASSUME IInv, NEW c \in CPUs, NEW e \in Envs, DestroyOnce(c, e)
    PROVE  Update(c, e) \/ Switch(c)
<1>1. InSyscall(c) /\ env_status[e] \notin {"DYING", "FREE"} /\ env_destroy(c, e)
  BY DEF DestroyOnce, sys_env_destroy, MayControl
<1>2. env_status[e] \in {"NOT_RUNNABLE", "RUNNABLE", "RUNNING"}
  BY <1>1 DEF IInv, TypeOK, Statuses
<1>3. CASE /\ env_status[e] = "RUNNING" /\ curenv[c] # e
           /\ trap_return(c, [env_status EXCEPT ![e] = "DYING"], started)
  BY <1>1, <1>3, CallUpdates DEF Statuses
<1>4. CASE /\ ~(env_status[e] = "RUNNING") /\ curenv[c] # e
           /\ trap_return(c, Freed(e), started)
  BY <1>1, <1>2, <1>4, CallUpdates DEF Statuses, Freed
<1>5. CASE curenv[c] = e /\ FreeSelf(c)
  BY <1>1, <1>5, FreesItself DEF InSyscall, FromUser
<1>6. QED
  BY <1>1, <1>3, <1>4, <1>5 DEF env_destroy

(* What a step can be.                                                     *)
Quiet == UNCHANGED <<env_status, started, curenv>>

(* Every step is of one of the two kinds, or changes no life.              *)
LEMMA StepKinds ==
    ASSUME IInv, [Next]_vars
    PROVE  Quiet \/ \E c \in CPUs : Switch(c) \/ \E e \in Envs : Update(c, e)
<1>1. ASSUME NEW c \in CPUs, Common(c)
      PROVE  Quiet \/ Switch(c) \/ \E e \in Envs : Update(c, e)
  <2>1. CASE TimerIrq(c) \/ UserTrap(c) \/ env_pop_tf(c)
    BY <2>1 DEF TimerIrq, UserTrap, env_pop_tf, Quiet
  <2>2. CASE Resched(c) \/ Timer(c) \/ SysNoEffect(c) \/ sys_yield(c)
    BY <2>2, Yields
  <2>3. CASE ReapZombie(c)
    BY <2>3, FreesItself DEF ReapZombie
  <2>4. QED
    BY <1>1, <2>1, <2>2, <2>3, ExoforkUpdates, RecvSwitches, SendUpdates DEF Common
<1>2. ASSUME NEW c \in CPUs, NEW e \in Envs, StartChild(c, e) \/ DestroyOnce(c, e)
      PROVE  Switch(c) \/ Update(c, e)
  BY <1>2, StartUpdates, DestroyUpdates
<1>3. CASE UNCHANGED vars
  BY <1>3 DEF vars, Quiet
<1>4. QED
  BY <1>1, <1>2, <1>3 DEF Next, MonitorLoop

-----------------------------------------------------------------------------
(* A zombie changes only in the section of the CPU that it is on, which    *)
(* frees it.                                                               *)
LEMMA ZombieStep ==
    ASSUME IInv, [Next]_vars, NEW e \in Envs,
           env_status[e] = "DYING", env_status'[e] # "DYING"
    PROVE  /\ env_status'[e] = "FREE"
           /\ \E c \in CPUs : curenv[c] = e /\ mode[c] # "user" /\ curenv'[c] # e
<1>1. ~Quiet /\ \A c \in CPUs, x \in Envs : ~Update(c, x)
  BY DEF Quiet, Update, Same
<1>2. PICK c \in CPUs : Switch(c)
  BY <1>1, StepKinds
<1>3. QED
  BY <1>2 DEF Switch, Same

(* Destroyed while it runs, an environment is freed by its own CPU, for    *)
(* programs that do not destroy it again (env.c:508).                      *)
THEOREM ZombieReaped == Spec => ZombieFreedByItsCpu
<1>1. IInv /\ [Next]_vars =>
      [\A e \in Envs : env_status[e] = "DYING" /\ env_status'[e] # "DYING" =>
          /\ env_status'[e] = "FREE"
          /\ \E c \in CPUs : curenv[c] = e /\ mode[c] # "user" /\ curenv'[c] # e]_vars
  BY ZombieStep
<1>2. QED
  BY <1>1, Invariance, PTL DEF Spec, ZombieFreedByItsCpu

-----------------------------------------------------------------------------
(* The refinement mapping: an environment that is on a CPU has one.        *)
OnOne(cur, cpu, status) ==
    /\ \A e \in Envs : status[e] \in OnCpu => cpu[e] \in CPUs /\ cur[cpu[e]] = e
    /\ \A e \in Envs : status[e] \notin OnCpu => cpu[e] = None
    /\ \A e \in Envs, c \in CPUs : status[e] \in OnCpu /\ cur[c] = e => cpu[e] = c

(* CHOOSE finds that CPU.                                                  *)
LEMMA CpuOfIs ==
    ASSUME NEW cur, NEW status,
           \A c, d \in CPUs : c # d /\ cur[c] = cur[d] => cur[c] = None,
           \A e \in Envs : status[e] \in OnCpu => {c \in CPUs : cur[c] = e} # {}
    PROVE  OnOne(cur,
                 [e \in Envs |-> IF status[e] \in OnCpu /\ {c \in CPUs : cur[c] = e} # {}
                                 THEN CHOOSE c \in CPUs : cur[c] = e ELSE None],
                 status)
<1>1. None \notin Envs
  BY ConstAssumption DEF Envs
<1>2. ASSUME NEW e \in Envs, status[e] \in OnCpu
      PROVE  /\ (CHOOSE c \in CPUs : cur[c] = e) \in CPUs
             /\ cur[CHOOSE c \in CPUs : cur[c] = e] = e
             /\ \A c \in CPUs : cur[c] = e => c = (CHOOSE d \in CPUs : cur[d] = e)
  <2>1. PICK c \in CPUs : cur[c] = e
    BY <1>2
  <2>2. QED
    BY <1>1, <2>1
<1>3. QED
  BY <1>2 DEF OnOne

(* So cpuOf is the CPU that an environment is on.                          *)
LEMMA Mapping == IInv => OnOne(curenv, cpuOf, env_status)
<1> SUFFICES ASSUME IInv PROVE OnOne(curenv, cpuOf, env_status)
  OBVIOUS
<1>1. /\ \A c, d \in CPUs : c # d /\ curenv[c] = curenv[d] => curenv[c] = None
      /\ \A e \in Envs : env_status[e] \in OnCpu => {c \in CPUs : curenv[c] = e} # {}
  BY DEF IInv, SchedInv, OneCpuPerEnv, CurenvIsOnCpu, Holders
<1>2. QED
  BY <1>1, CpuOfIs DEF cpuOf, Holders

(* The same after a step.                                                  *)
LEMMA MappingNext == IInv' => OnOne(curenv, cpuOf, env_status)'
BY Mapping, PTL

(* The life of an environment is read off its slot alone.                  *)
LEMMA SameLife ==
    ASSUME NEW e \in Envs, env_status[e] \in Statuses, started[e] \in BOOLEAN, Same(e)
    PROVE  lifeOf'[e] = lifeOf[e]
<1>1. CASE env_status[e] = "FREE"
  <2>1. lifeOf[e] = "absent" /\ lifeOf'[e] = "absent"
    BY <1>1 DEF lifeOf, Same
  <2>2. QED
    BY <2>1
<1>2. CASE env_status[e] = "DYING"
  <2>1. lifeOf[e] = "zombie" /\ lifeOf'[e] = "zombie"
    BY <1>2 DEF lifeOf, Same
  <2>2. QED
    BY <2>1
<1>3. CASE env_status[e] = "RUNNABLE"
  <2>1. lifeOf[e] = "ready" /\ lifeOf'[e] = "ready"
    BY <1>3 DEF lifeOf, Same
  <2>2. QED
    BY <2>1
<1>4. CASE env_status[e] = "RUNNING"
  <2>1. lifeOf[e] = "running" /\ lifeOf'[e] = "running"
    BY <1>4 DEF lifeOf, Same
  <2>2. QED
    BY <2>1
<1>5. CASE env_status[e] = "NOT_RUNNABLE" /\ ~started[e]
  <2>1. env_status'[e] = "NOT_RUNNABLE" /\ ~started'[e]
    BY <1>5 DEF Same
  <2>2. lifeOf[e] = "embryo" /\ lifeOf'[e] = "embryo"
    BY <1>5, <2>1 DEF lifeOf
  <2>3. QED
    BY <2>2
<1>6. CASE env_status[e] = "NOT_RUNNABLE" /\ started[e]
  <2>1. env_status'[e] = "NOT_RUNNABLE" /\ started'[e]
    BY <1>6 DEF Same
  <2>2. lifeOf[e] = "blocked" /\ lifeOf'[e] = "blocked"
    BY <1>6, <2>1 DEF lifeOf
  <2>3. QED
    BY <2>2
<1>7. QED
  BY <1>1, <1>2, <1>3, <1>4, <1>5, <1>6 DEF Statuses

(* Only the environments of c and those on no CPU are affected by c.       *)
LEMMA SwitchIsLifeStep ==
    ASSUME IInv, IInv', NEW c \in CPUs, Switch(c)
    PROVE  L!CpuStep(c)
<1>1. OnOne(curenv, cpuOf, env_status) /\ OnOne(curenv, cpuOf, env_status)'
  BY Mapping, MappingNext
<1>2. /\ env_status \in [Envs -> Statuses] /\ env_status' \in [Envs -> Statuses]
      /\ started \in [Envs -> BOOLEAN]
      /\ \A e \in Envs : env_status[e] \in OnCpu => started[e]
      /\ None \notin CPUs /\ None \notin Envs
  BY ConstAssumption DEF IInv, TypeOK, SchedInv, OnCpuHasRun, Envs
<1>3. ASSUME NEW e \in Envs
      PROVE  /\ L!Stays(e) \/ L!Dispatched(c, e) \/ L!LeavesCpu(c, e)
             /\ ~L!Remote(c, e)
  <2>1. CASE e # curenv[c] /\ Same(e)
    <3>1. lifeOf'[e] = lifeOf[e]
      BY <1>2, <2>1, SameLife
    <3>2. cpuOf'[e] = cpuOf[e]
      BY <1>1, <1>2, <2>1 DEF OnOne, Same, Switch
    <3>3. QED
      BY <3>1, <3>2 DEF L!Stays, L!Remote
  <2>2. CASE env_status[e] = "RUNNABLE" /\ env_status'[e] = "RUNNING" /\ curenv'[c] = e
    <3>1. lifeOf[e] = "ready" /\ lifeOf'[e] = "running"
      BY <2>2 DEF lifeOf
    <3>2. cpuOf'[e] = c
      BY <1>1, <2>2 DEF OnOne, OnCpu
    <3>3. QED
      BY <3>1, <3>2 DEF L!Dispatched, L!Remote
  <2>3. CASE e = curenv[c] /\ env_status[e] \in OnCpu
    <3>1. cpuOf[e] = c
      BY <1>1, <2>3 DEF OnOne
    <3>2. CASE env_status[e] = "RUNNING" /\ env_status'[e] = "RUNNING" /\ curenv'[c] = e
      <4>1. lifeOf[e] = "running" /\ lifeOf'[e] = "running"
        BY <3>2 DEF lifeOf
      <4>2. cpuOf'[e] = c
        BY <1>1, <3>2 DEF OnOne, OnCpu
      <4>3. QED
        BY <3>1, <4>1, <4>2 DEF L!Stays, L!Remote
    <3>3. CASE env_status[e] = "RUNNING" /\ env_status'[e] \in {"RUNNABLE", "FREE"}
      <4>1. lifeOf[e] = "running" /\ lifeOf'[e] \in {"ready", "absent"}
        BY <3>3 DEF lifeOf
      <4>2. cpuOf'[e] = None
        BY <1>1, <3>3 DEF OnOne, OnCpu
      <4>3. QED
        BY <3>1, <4>1, <4>2 DEF L!LeavesCpu, L!Remote
    <3>4. CASE env_status[e] = "RUNNING" /\ env_status'[e] = "NOT_RUNNABLE" /\ started'[e]
      <4>1. lifeOf[e] = "running" /\ lifeOf'[e] = "blocked"
        BY <3>4 DEF lifeOf
      <4>2. cpuOf'[e] = None
        BY <1>1, <3>4 DEF OnOne, OnCpu
      <4>3. QED
        BY <3>1, <4>1, <4>2 DEF L!LeavesCpu, L!Remote
    <3>5. CASE env_status[e] = "DYING" /\ env_status'[e] = "FREE"
      <4>1. lifeOf[e] = "zombie" /\ lifeOf'[e] = "absent"
        BY <3>5 DEF lifeOf
      <4>2. cpuOf'[e] = None
        BY <1>1, <3>5 DEF OnOne, OnCpu
      <4>3. QED
        BY <3>1, <4>1, <4>2 DEF L!LeavesCpu, L!Remote
    <3>6. QED
      BY <2>3, <3>2, <3>3, <3>4, <3>5 DEF Switch
  <2>4. QED
    BY <2>1, <2>2, <2>3 DEF Switch, OnCpu
<1>4. ASSUME NEW e \in Envs, cpuOf'[e] = c PROVE curenv'[c] = e
  BY <1>1, <1>2, <1>4 DEF OnOne
<1>5. DOMAIN lifeOf' = Envs /\ DOMAIN cpuOf' = Envs
  BY DEF lifeOf, cpuOf
<1>6. QED
  BY <1>3, <1>4, <1>5 DEF L!CpuStep

(* A section that returns to its caller is a step of the life cycle too.   *)
LEMMA UpdateIsLifeStep ==
    ASSUME IInv, IInv', NEW c \in CPUs, NEW e \in Envs, Update(c, e)
    PROVE  L!CpuStep(c)
<1>0. env_status \in [Envs -> Statuses] /\ started \in [Envs -> BOOLEAN]
  BY DEF IInv, TypeOK
<1>1. OnOne(curenv, cpuOf, env_status) /\ OnOne(curenv, cpuOf, env_status)'
  BY Mapping, MappingNext
<1>2. None \notin CPUs /\ curenv' = curenv
  BY ConstAssumption DEF Update
<1>3. ASSUME NEW x \in Envs, x # e \/ Same(e) PROVE L!Stays(x) /\ ~L!Remote(c, x)
  <2>1. Same(x)
    BY <1>3 DEF Update
  <2>2. lifeOf'[x] = lifeOf[x]
    BY <1>0, <2>1, SameLife
  <2>3. cpuOf'[x] = cpuOf[x]
    BY <1>1, <1>2, <2>1 DEF OnOne, Same
  <2>4. QED
    BY <2>2, <2>3 DEF L!Stays, L!Remote
<1>4. ASSUME ~Same(e) PROVE L!Remote(c, e)
  <2>1. CASE env_status[e] \notin OnCpu /\ env_status'[e] \notin OnCpu
    <3>1. cpuOf[e] = None /\ cpuOf'[e] = None
      BY <1>1, <2>1 DEF OnOne
    <3>2. \/ lifeOf[e] = "absent" /\ lifeOf'[e] = "embryo"
          \/ lifeOf[e] \in {"embryo", "blocked"} /\ lifeOf'[e] = "ready"
          \/ lifeOf[e] \in {"embryo", "blocked", "ready"} /\ lifeOf'[e] = "absent"
      BY <1>4, <2>1 DEF Update, lifeOf, OnCpu
    <3>3. QED
      BY <1>2, <3>1, <3>2 DEF L!Remote
  <2>2. CASE env_status[e] = "RUNNING" /\ env_status'[e] = "DYING"
    <3>1. lifeOf[e] = "running" /\ lifeOf'[e] = "zombie"
      BY <2>2 DEF lifeOf
    <3>2. cpuOf[e] \in CPUs /\ curenv[cpuOf[e]] = e /\ cpuOf'[e] = cpuOf[e]
      BY <1>1, <1>2, <2>2 DEF OnOne, OnCpu
    <3>3. cpuOf[e] # c
      BY <3>2 DEF Update
    <3>4. QED
      BY <1>2, <3>1, <3>2, <3>3 DEF L!Remote
  <2>3. QED
    BY <1>4, <2>1, <2>2 DEF Update, OnCpu
<1>5. ASSUME NEW x \in Envs, cpuOf'[x] = c PROVE curenv'[c] = x
  BY <1>1, <1>2, <1>5 DEF OnOne
<1>6. DOMAIN lifeOf' = Envs /\ DOMAIN cpuOf' = Envs
  BY DEF lifeOf, cpuOf
<1>7. \A x \in Envs : L!Remote(c, x) => x = e
  BY <1>3
<1>8. QED
  BY <1>3, <1>4, <1>5, <1>6, <1>7 DEF L!CpuStep

(* The life cycle starts with environments that are absent or ready.       *)
LEMMA InitImplements == Init => L!LifeInit
<1> SUFFICES ASSUME Init PROVE L!LifeInit
  OBVIOUS
<1>1. \A e \in Envs : env_status[e] \in {"FREE", "RUNNABLE"}
  BY DEF Init
<1>2. \A e \in Envs : lifeOf[e] \in {"absent", "ready"}
  BY <1>1 DEF lifeOf
<1>3. lifeOf \in [Envs -> {"absent", "ready"}]
  BY <1>2 DEF lifeOf
<1>4. cpuOf = [e \in Envs |-> None]
  BY <1>1 DEF cpuOf, OnCpu
<1>5. QED
  BY <1>3, <1>4 DEF L!LifeInit

(* Each step of the kernel is a step of the life cycle or none.            *)
LEMMA StepImplements == IInv /\ IInv' /\ [Next]_vars => [L!LifeNext]_(L!lvars)
<1> SUFFICES ASSUME IInv, IInv', [Next]_vars PROVE [L!LifeNext]_(L!lvars)
  OBVIOUS
<1>1. CASE Quiet
  BY <1>1 DEF Quiet, L!lvars, lifeOf, cpuOf, Holders
<1>2. CASE \E c \in CPUs : Switch(c) \/ \E e \in Envs : Update(c, e)
  BY <1>2, SwitchIsLifeStep, UpdateIsLifeStep DEF L!LifeNext
<1>3. QED
  BY <1>1, <1>2, StepKinds

(* The environment code keeps to the life cycle that EnvLife describes.    *)
THEOREM ImplementsLife == Spec => Life
BY Invariance, InitImplements, StepImplements, PTL DEF Spec, Life, L!LifeSpec

=============================================================================

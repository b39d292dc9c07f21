------------------------------ MODULE EnvLife ------------------------------
(***************************************************************************)
(* What the environment code promises, without free list, locks, page      *)
(* tables or trap states: the life of an environment and the CPU it is on. *)
(* EnvSched implements it (EnvSched!Life).                                 *)
(*                                                                         *)
(*   absent -> embryo -> ready <-> running -> blocked -> ready             *)
(*                                 running -> zombie -> absent             *)
(*   and every state but zombie -> absent by a destroy.                    *)
(***************************************************************************)
CONSTANTS Envs, CPUs, None

VARIABLES
    life,     \* [Envs -> Lives]
    cpuOf     \* [Envs -> CPUs \cup {None}]: the CPU that runs it

lvars == <<life, cpuOf>>

Lives == {"absent", "embryo", "ready", "running", "zombie", "blocked"}

LifeInit ==
    /\ life \in [Envs -> {"absent", "ready"}]
    /\ cpuOf = [e \in Envs |-> None]

(* How one environment may change in a step of CPU c.                      *)
Stays(e) == life'[e] = life[e] /\ cpuOf'[e] = cpuOf[e]

Dispatched(c, e) == life[e] = "ready" /\ life'[e] = "running" /\ cpuOf'[e] = c

LeavesCpu(c, e) ==
    /\ cpuOf[e] = c /\ cpuOf'[e] = None
    /\ \/ life[e] = "running" /\ life'[e] \in {"ready", "blocked", "absent"}
       \/ life[e] = "zombie" /\ life'[e] = "absent"

(* What the running program of c does to an environment that is not on c.  *)
Remote(c, e) ==
    /\ cpuOf[e] # c
    /\ \/ /\ cpuOf[e] = None /\ cpuOf'[e] = None
          /\ \/ life[e] = "absent" /\ life'[e] = "embryo"
             \/ life[e] \in {"embryo", "blocked"} /\ life'[e] = "ready"
             \/ life[e] \in {"embryo", "blocked", "ready"} /\ life'[e] = "absent"
       \/ /\ cpuOf[e] # None /\ cpuOf'[e] = cpuOf[e]
          /\ life[e] = "running" /\ life'[e] = "zombie"

(* A step: at most one environment leaves c, one gets c, one is affected   *)
(* from outside; c runs one environment at most.                           *)
CpuStep(c) ==
    /\ DOMAIN life' = Envs /\ DOMAIN cpuOf' = Envs
    /\ \A e \in Envs : Stays(e) \/ Dispatched(c, e) \/ LeavesCpu(c, e) \/ Remote(c, e)
    /\ \A e, f \in Envs : cpuOf'[e] = c /\ cpuOf'[f] = c => e = f
    /\ \A e, f \in Envs : Remote(c, e) /\ Remote(c, f) => e = f

LifeNext == \E c \in CPUs : CpuStep(c)

LifeSpec == LifeInit /\ [][LifeNext]_lvars
=============================================================================

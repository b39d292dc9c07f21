---------------------------- MODULE Boot_proofs ----------------------------
(***************************************************************************)
(* Proofs about the kernel lock and the start of the processors, for any   *)
(* set of CPUs.  Spinlock: only the CPU inside has buffered stores, and    *)
(* they spell out where in the section it is, so that a CPU outside reads  *)
(* in lk->cpu either nobody or the CPU inside, never itself, even when     *)
(* locked and cpu come from two different moments.  Boot: the start-up     *)
(* only adds to the steps of Spinlock, so what is proved of the lock holds *)
(* of it; and the boot processor has the lock until the others are up, so  *)
(* none of them gets as far as the scheduler, where it could halt.         *)
(***************************************************************************)
EXTENDS Boot, SequenceTheorems, TLAPS

-----------------------------------------------------------------------------
(* The lock.                                                               *)

(* lk->cpu and the buffer of the CPU inside, place by place.               *)
OwnerView(c) ==
    LET b == buf[c]
    IN  /\ pc[c] = "own" => Len(b) = 0 /\ cpu = None
        /\ pc[c] \in {"crit", "chkLocked", "chkCpu", "clear"} =>
              \/ Len(b) = 1 /\ b[1] = c /\ cpu = None
              \/ Len(b) = 0 /\ cpu = c
        /\ pc[c] = "release" =>
              \/ Len(b) = 2 /\ b[1] = c /\ b[2] = None /\ cpu = None
              \/ Len(b) = 1 /\ b[1] = None /\ cpu = c
              \/ Len(b) = 0 /\ cpu = None

LockInv ==
    /\ TypeOK
    /\ MutualExclusion
    /\ NoSpuriousPanic
    /\ locked = 1 <=> \E c \in CPUs : pc[c] \in Inside
    /\ (\A c \in CPUs : pc[c] \notin Inside) => cpu = None
    /\ \A c \in CPUs : pc[c] \notin Inside => buf[c] = <<>> /\ cpu # c
    /\ \A c \in CPUs : pc[c] \in Inside => OwnerView(c)

(* The buffer operations of Spinlock on sequences of stores.               *)
LEMMA BufferOps ==
    ASSUME NEW S, NEW b \in Seq(S), NEW v \in S
    PROVE  /\ Len(b) \in Nat /\ (b = <<>> <=> Len(b) = 0)
           /\ Append(b, v) \in Seq(S) /\ Len(Append(b, v)) = Len(b) + 1
           /\ Append(b, v)[Len(b) + 1] = v
           /\ \A i \in 1..Len(b) : Append(b, v)[i] = b[i]
           /\ b # <<>> => /\ Head(b) = b[1] /\ Head(b) \in S /\ Tail(b) \in Seq(S)
                          /\ Len(Tail(b)) = Len(b) - 1
                          /\ \A i \in 1..Len(b) - 1 : Tail(b)[i] = b[i + 1]
<1>1. Len(b) \in Nat /\ (b = <<>> <=> Len(b) = 0)
  BY EmptySeq
<1>2. /\ Append(b, v) \in Seq(S) /\ Len(Append(b, v)) = Len(b) + 1
      /\ Append(b, v)[Len(b) + 1] = v
      /\ \A i \in 1..Len(b) : Append(b, v)[i] = b[i]
  OBVIOUS
<1>3. ASSUME b # <<>>
      PROVE  /\ Head(b) = b[1] /\ Head(b) \in S /\ Tail(b) \in Seq(S)
             /\ Len(Tail(b)) = Len(b) - 1
             /\ \A i \in 1..Len(b) - 1 : Tail(b)[i] = b[i + 1]
  <2>1. Head(b) = b[1]
    OBVIOUS
  <2>2. QED
    BY <1>3, <2>1, HeadTailProperties
<1>4. QED
  BY <1>1, <1>2, <1>3

LEMMA InitInv == Init => LockInv
BY NoneIsNoCpu DEF Init, LockInv, TypeOK, MutualExclusion, NoSpuriousPanic, Inside, Places

(* The steps outside, which touch neither the lock nor its fields.         *)
LEMMA OutsideSteps ==
    ASSUME LockInv, NEW c \in CPUs, Call(c) \/ TryLocked(c) \/ TryCpu(c)
    PROVE  LockInv'
<1>1. /\ UNCHANGED <<locked, cpu, buf>> /\ pc[c] \notin Inside
      /\ pc'[c] \in {"tryLocked", "tryCpu", "spin"}
      /\ \A d \in CPUs \ {c} : pc'[d] = pc[d]
      /\ pc' \in [CPUs -> Places]
  BY DEF Call, TryLocked, TryCpu, Go, LockInv, TypeOK, Inside, ReadCpu, Places
<1>2. \A d \in CPUs : pc'[d] \in Inside <=> pc[d] \in Inside
  BY <1>1 DEF Inside
<1>3. \A d \in CPUs : pc[d] \in Inside => pc'[d] = pc[d]
  BY <1>1
<1>4. \A d \in CPUs : pc[d] \in Inside => OwnerView(d)'
  BY <1>1, <1>3 DEF LockInv, OwnerView
<1>5. QED
  BY <1>1, <1>2, <1>3, <1>4 DEF LockInv, TypeOK, MutualExclusion, NoSpuriousPanic

(* Taking the lock.                                                        *)
LEMMA XchgStep ==
    ASSUME LockInv, NEW c \in CPUs, Xchg(c)
    PROVE  LockInv'
<1>1. pc[c] = "spin" /\ buf[c] = <<>> /\ pc[c] \notin Inside /\ ReadCpu(c) = cpu
  BY DEF Xchg, Go, LockInv, Inside, ReadCpu
<1>2. cpu' = cpu /\ buf' = buf /\ locked' = 1
  BY <1>1 DEF Xchg, Drain, LockInv, TypeOK
<1>3. CASE locked = 0
  <2>1. \A d \in CPUs : pc[d] \notin Inside
    BY <1>3 DEF LockInv
  <2>2. /\ pc' = [pc EXCEPT ![c] = "own"]
        /\ pc'[c] = "own" /\ \A d \in CPUs \ {c} : pc'[d] = pc[d]
    BY <1>3 DEF Xchg, Go, LockInv, TypeOK
  <2>3. TypeOK'
    BY <1>2, <2>2 DEF LockInv, TypeOK, Places
  <2>4. OwnerView(c)'
    BY <1>1, <1>2, <2>1, <2>2 DEF OwnerView, LockInv
  <2>5. MutualExclusion' /\ NoSpuriousPanic'
    BY <2>1, <2>2 DEF MutualExclusion, NoSpuriousPanic, LockInv
  <2>6. pc'[c] \in Inside
    BY <2>2 DEF Inside
  <2>7. QED
    BY <1>2, <2>1, <2>2, <2>3, <2>4, <2>5, <2>6 DEF LockInv
<1>4. CASE locked # 0
  <2>1. UNCHANGED vars
    BY <1>2, <1>4 DEF Xchg, LockInv, TypeOK, vars
  <2>2. QED
    BY <2>1 DEF vars, LockInv, TypeOK, MutualExclusion, NoSpuriousPanic, OwnerView
<1>5. QED
  BY <1>3, <1>4

(* Everything the CPU inside does before it gives the lock back, and the   *)
(* store buffer emptying itself.                                           *)
LEMMA InsideSteps ==
    ASSUME LockInv, NEW c \in CPUs,
           Own(c) \/ Leave(c) \/ ChkLocked(c) \/ ChkCpu(c) \/ Clear(c) \/ Flush(c)
    PROVE  LockInv'
<1>1. pc[c] \in Inside /\ OwnerView(c)
  BY DEF Own, Leave, ChkLocked, ChkCpu, Clear, Flush, Go, LockInv, Inside
<1>2. \A d \in CPUs \ {c} : pc[d] \notin Inside /\ buf[d] = <<>>
  BY <1>1 DEF LockInv, MutualExclusion
<1>3. locked = 1 /\ locked' = locked
  BY <1>1 DEF LockInv, Own, Leave, ChkLocked, ChkCpu, Clear, Flush
<1> DEFINE b == buf[c]
           S == CPUs \cup {None}
<1>4. b \in Seq(S) /\ c \in S /\ None \in S /\ Len(b) \in Nat /\ (b = <<>> <=> Len(b) = 0)
  BY BufferOps DEF LockInv, TypeOK
<1>5. pc[c] \in {"crit", "chkLocked", "chkCpu", "clear"} => ReadCpu(c) = c
  BY <1>1, <1>4 DEF OwnerView, ReadCpu
<1>6. /\ \A d \in CPUs \ {c} : pc'[d] = pc[d] /\ buf'[d] = buf[d]
      /\ pc' \in [CPUs -> Places] /\ buf' \in [CPUs -> Seq(S)]
      /\ pc'[c] \in Inside
      /\ OwnerView(c)'
      /\ cpu' \in {None, c}
  <2>1. CASE Own(c)
    <3>1. /\ buf' = [buf EXCEPT ![c] = Append(b, c)] /\ cpu' = cpu
          /\ pc[c] = "own" /\ pc' = [pc EXCEPT ![c] = "crit"]
      BY <2>1 DEF Own, Go, StoreCpu
    <3>2. /\ Append(b, c) \in Seq(S) /\ Len(Append(b, c)) = Len(b) + 1
          /\ Append(b, c)[Len(b) + 1] = c
          /\ \A i \in 1..Len(b) : Append(b, c)[i] = b[i]
      BY <1>4, BufferOps
    <3>3. buf'[c] = Append(b, c) /\ pc'[c] = "crit"
      BY <3>1 DEF LockInv, TypeOK
    <3>4. OwnerView(c)' /\ cpu' \in {None, c}
      <4>1. OwnerView(c) /\ b = buf[c]
        BY <1>1
      <4>2. Len(b) = 0 /\ cpu = None
        BY <3>1, <4>1 DEF OwnerView
      <4>3. Len(buf'[c]) = 1 /\ buf'[c][1] = c
        BY <3>2, <3>3, <4>2
      <4>4. QED
        BY <3>1, <3>3, <4>2, <4>3 DEF OwnerView
    <3>5. QED
      BY <3>1, <3>2, <3>3, <3>4 DEF LockInv, TypeOK, Inside, Places
  <2>2. CASE Leave(c) \/ ChkLocked(c) \/ ChkCpu(c)
    BY <1>1, <1>3, <1>5, <2>2 DEF Leave, ChkLocked, ChkCpu, Go, OwnerView, LockInv, TypeOK,
                                  Inside, Places
  <2>3. CASE Flush(c)
    <3>1. /\ b # <<>> /\ buf' = [buf EXCEPT ![c] = Tail(b)] /\ cpu' = Head(b) /\ pc' = pc
      BY <2>3 DEF Flush
    <3>2. /\ Head(b) = b[1] /\ Head(b) \in S /\ Tail(b) \in Seq(S)
          /\ Len(Tail(b)) = Len(b) - 1
          /\ \A i \in 1..Len(b) - 1 : Tail(b)[i] = b[i + 1]
      BY <1>4, <3>1, BufferOps
    <3>3. buf'[c] = Tail(b) /\ pc'[c] = pc[c]
      BY <3>1 DEF LockInv, TypeOK
    <3>4. OwnerView(c)' /\ cpu' \in {None, c}
      <4>1. OwnerView(c) /\ b = buf[c] /\ pc[c] \in Inside /\ Len(b) # 0
        BY <1>1, <1>4, <3>1
      <4> HIDE DEF b
      <4>2. CASE pc[c] = "own"
        BY <4>1, <4>2 DEF OwnerView
      <4>3. CASE pc[c] \in {"crit", "chkLocked", "chkCpu", "clear"}
        <5>1. Len(b) = 1 /\ b[1] = c
          BY <4>1, <4>3 DEF OwnerView
        <5>2. Len(buf'[c]) = 0 /\ cpu' = c
          <6>1. Len(buf'[c]) = Len(b) - 1
            BY <3>2, <3>3
          <6>2. QED
            BY <3>1, <3>2, <5>1, <6>1
        <5>3. QED
          BY <3>3, <4>3, <5>2 DEF OwnerView
      <4>4. CASE pc[c] = "release"
        <5>1. \/ Len(b) = 2 /\ b[1] = c /\ b[2] = None
              \/ Len(b) = 1 /\ b[1] = None
          BY <4>1, <4>4 DEF OwnerView
        <5>2. CASE Len(b) = 2 /\ b[1] = c /\ b[2] = None
          <6>1. Tail(b)[1] = b[2]
            <7>1. 1 \in 1..Len(b) - 1
              BY <5>2
            <7>2. \A i \in 1..Len(b) - 1 : Tail(b)[i] = b[i + 1]
              BY <3>2
            <7>3. Tail(b)[1] = b[1 + 1]
              BY ONLY <7>1, <7>2
            <7>4. 1 + 1 = 2
              OBVIOUS
            <7>5. QED
              BY ONLY <7>3, <7>4, Zenon
          <6>2. Len(buf'[c]) = 1 /\ buf'[c][1] = None /\ cpu' = c
            <7>1. Len(buf'[c]) = Len(b) - 1 /\ buf'[c][1] = Tail(b)[1]
              BY <3>2, <3>3
            <7>2. Len(buf'[c]) = 1
              BY ONLY <5>2, <7>1
            <7>3. cpu' = c
              BY <3>1, <3>2, <5>2
            <7>4. QED
              BY <5>2, <6>1, <7>1, <7>2, <7>3
          <6>3. QED
            BY <3>3, <4>4, <6>2 DEF OwnerView
        <5>3. CASE Len(b) = 1 /\ b[1] = None
          <6>1. Len(buf'[c]) = 0 /\ cpu' = None
            <7>1. Len(buf'[c]) = Len(b) - 1
              BY <3>2, <3>3
            <7>2. QED
              BY <3>1, <3>2, <5>3, <7>1
          <6>2. QED
            BY <3>3, <4>4, <6>1 DEF OwnerView
        <5>4. QED
          BY <5>1, <5>2, <5>3
      <4>5. QED
        BY <4>1, <4>2, <4>3, <4>4 DEF Inside
    <3>5. QED
      BY <1>1, <3>1, <3>2, <3>3, <3>4 DEF LockInv, TypeOK
  <2>4. CASE Clear(c)
    <3>1. /\ buf' = [buf EXCEPT ![c] = Append(b, None)] /\ cpu' = cpu
          /\ pc[c] = "clear" /\ pc' = [pc EXCEPT ![c] = "release"]
      BY <2>4 DEF Clear, Go, StoreCpu
    <3>2. /\ Append(b, None) \in Seq(S) /\ Len(Append(b, None)) = Len(b) + 1
          /\ Append(b, None)[Len(b) + 1] = None
          /\ \A i \in 1..Len(b) : Append(b, None)[i] = b[i]
      BY <1>4, BufferOps
    <3>3. buf'[c] = Append(b, None) /\ pc'[c] = "release"
      BY <3>1 DEF LockInv, TypeOK
    <3>4. OwnerView(c)' /\ cpu' \in {None, c}
      <4>1. OwnerView(c) /\ b = buf[c]
        BY <1>1
      <4>2. \/ Len(b) = 1 /\ b[1] = c /\ cpu = None
            \/ Len(b) = 0 /\ cpu = c
        BY <3>1, <4>1 DEF OwnerView
      <4>3. CASE Len(b) = 1
        <5>1. Len(buf'[c]) = 2 /\ buf'[c][1] = b[1] /\ buf'[c][2] = None
          BY <3>2, <3>3, <4>3
        <5>2. QED
          BY <3>1, <3>3, <4>2, <4>3, <5>1 DEF OwnerView
      <4>4. CASE Len(b) = 0
        <5>1. Len(buf'[c]) = 1 /\ buf'[c][1] = None
          BY <3>2, <3>3, <4>4
        <5>2. QED
          BY <3>1, <3>3, <4>2, <4>4, <5>1 DEF OwnerView
      <4>5. QED
        BY <4>2, <4>3, <4>4
    <3>5. QED
      BY <3>1, <3>2, <3>3, <3>4 DEF LockInv, TypeOK, Inside, Places
  <2>5. QED
    BY <2>1, <2>2, <2>3, <2>4
<1>7. TypeOK'
  BY <1>3, <1>6 DEF TypeOK, LockInv
<1>8. MutualExclusion' /\ NoSpuriousPanic'
  BY <1>2, <1>6 DEF MutualExclusion, NoSpuriousPanic, LockInv, Inside
<1>9. QED
  BY <1>2, <1>3, <1>6, <1>7, <1>8, NoneIsNoCpu DEF LockInv

LEMMA ReleaseStep ==
    ASSUME LockInv, NEW c \in CPUs, ReleaseXchg(c)
    PROVE  LockInv'
<1>1. pc[c] = "release" /\ pc[c] \in Inside /\ OwnerView(c)
  BY DEF ReleaseXchg, Go, LockInv, Inside
<1>2. \A d \in CPUs \ {c} : pc[d] \notin Inside /\ buf[d] = <<>>
  BY <1>1 DEF LockInv, MutualExclusion
<1>3. ReadCpu(c) = None
  <2>1. buf[c] \in Seq(CPUs \cup {None})
    BY DEF LockInv, TypeOK
  <2>2. buf[c] = <<>> <=> Len(buf[c]) = 0
    BY <2>1, BufferOps
  <2>3. QED
    BY <1>1, <2>2 DEF OwnerView, ReadCpu
<1>4. /\ locked' = 0 /\ cpu' = None
      /\ buf' = [buf EXCEPT ![c] = <<>>] /\ pc' = [pc EXCEPT ![c] = "out"]
  BY <1>3 DEF ReleaseXchg, Drain, Go
<1>5. /\ \A d \in CPUs \ {c} : pc'[d] = pc[d] /\ buf'[d] = buf[d]
      /\ pc'[c] = "out" /\ buf'[c] = <<>>
  BY <1>4 DEF LockInv, TypeOK
<1>6. TypeOK'
  BY <1>4, EmptySeq DEF LockInv, TypeOK, Places
<1>7. \A d \in CPUs : pc'[d] \notin Inside
  BY <1>2, <1>5 DEF Inside
<1>8. NoSpuriousPanic'
  BY <1>5 DEF NoSpuriousPanic, LockInv
<1>9. QED
  BY <1>2, <1>4, <1>5, <1>6, <1>7, <1>8, NoneIsNoCpu DEF LockInv, MutualExclusion

LEMMA NextInv == LockInv /\ [Next]_vars => LockInv'
<1> SUFFICES ASSUME LockInv, [Next]_vars PROVE LockInv'
  OBVIOUS
<1>1. CASE UNCHANGED vars
  BY <1>1 DEF vars, LockInv, TypeOK, MutualExclusion, NoSpuriousPanic, OwnerView
<1>2. CASE Next
  BY <1>2, OutsideSteps, XchgStep, InsideSteps, ReleaseStep DEF Next
<1>3. QED
  BY <1>1, <1>2

LEMMA Invariance == Spec => []LockInv
BY InitInv, NextInv, PTL DEF Spec

(* Mutual exclusion of the big kernel lock, for any number of CPUs.        *)
THEOREM Mutex == Spec => []MutualExclusion
<1>1. LockInv => MutualExclusion
  BY DEF LockInv
<1>2. QED
  BY <1>1, Invariance, PTL

(* The debug checks never fire by a misread of two unsynchronised fields.  *)
THEOREM NoPanic == Spec => []NoSpuriousPanic
<1>1. LockInv => NoSpuriousPanic
  BY DEF LockInv
<1>2. QED
  BY <1>1, Invariance, PTL

(* Type correctness of the lock.                                           *)
THEOREM TypeCorrect == Spec => []TypeOK
<1>1. LockInv => TypeOK
  BY DEF LockInv
<1>2. QED
  BY <1>1, Invariance, PTL

(* The holder of LockSpec is the CPU inside.                               *)
HolderIsInside ==
    /\ \A c \in CPUs : pc[c] \in Inside => holderOf = c
    /\ (\A c \in CPUs : pc[c] \notin Inside) => holderOf = None

LEMMA HolderIs == LockInv => HolderIsInside
<1> SUFFICES ASSUME LockInv PROVE HolderIsInside
  OBVIOUS
<1>1. ASSUME NEW c \in CPUs, pc[c] \in Inside PROVE holderOf = c
  <2>1. (CHOOSE d \in CPUs : pc[d] \in Inside) = c
    BY <1>1 DEF LockInv, MutualExclusion
  <2>2. QED
    BY <1>1, <2>1 DEF holderOf
<1>2. QED
  BY <1>1 DEF holderOf, HolderIsInside

(* The xchg that finds the lock free acquires it, the last one releases    *)
(* it, and every other step leaves the holder alone.                       *)
LEMMA StepIsLockStep ==
    LockInv /\ LockInv' /\ [Next]_vars => [A!LockNext]_holderOf
<1> SUFFICES ASSUME LockInv, LockInv', [Next]_vars PROVE [A!LockNext]_holderOf
  OBVIOUS
<1>1. HolderIsInside /\ HolderIsInside'
  BY HolderIs, PTL
<1>2. CASE \A c \in CPUs : pc'[c] \in Inside <=> pc[c] \in Inside
  BY <1>1, <1>2 DEF HolderIsInside
<1>3. ASSUME NEW c \in CPUs, ReleaseXchg(c) PROVE A!Release(c)
  <2>1. pc[c] \in Inside /\ \A d \in CPUs : pc'[d] \notin Inside
    BY <1>3 DEF ReleaseXchg, Go, LockInv, TypeOK, MutualExclusion, Inside
  <2>2. QED
    BY <1>1, <2>1 DEF A!Release, HolderIsInside
<1>4. ASSUME NEW c \in CPUs, Xchg(c), locked = 0 PROVE A!Acquire(c)
  <2>1. pc'[c] \in Inside
    BY <1>4 DEF Xchg, Go, LockInv, TypeOK, Inside
  <2>2. \A d \in CPUs : pc[d] \notin Inside
    BY <1>4 DEF LockInv
  <2>3. QED
    BY <1>1, <2>1, <2>2 DEF A!Acquire, HolderIsInside
<1>5. ASSUME NEW c \in CPUs,
             \/ Flush(c) \/ Call(c) \/ TryLocked(c) \/ TryCpu(c) \/ Own(c) \/ Leave(c)
             \/ ChkLocked(c) \/ ChkCpu(c) \/ Clear(c) \/ (Xchg(c) /\ locked # 0)
      PROVE  \A d \in CPUs : pc'[d] \in Inside <=> pc[d] \in Inside
  <2>1. NoSpuriousPanic'
    BY DEF LockInv
  <2>2. \A d \in CPUs \ {c} : pc'[d] = pc[d]
    BY <1>5 DEF Flush, Call, TryLocked, TryCpu, Own, Leave, ChkLocked, ChkCpu, Clear,
                Xchg, Go, LockInv, TypeOK
  <2>3. pc'[c] \in Inside <=> pc[c] \in Inside
    BY <1>5, <2>1 DEF Flush, Call, TryLocked, TryCpu, Own, Leave, ChkLocked, ChkCpu,
                      Clear, Xchg, Go, LockInv, TypeOK, Inside, NoSpuriousPanic
  <2>4. QED
    BY <2>2, <2>3
<1>6. CASE UNCHANGED vars
  BY <1>2, <1>6 DEF vars
<1>7. CASE Next
  <2>1. PICK c \in CPUs :
           \/ ReleaseXchg(c)
           \/ Xchg(c) /\ locked = 0
           \/ Flush(c) \/ Call(c) \/ TryLocked(c) \/ TryCpu(c) \/ Own(c) \/ Leave(c)
           \/ ChkLocked(c) \/ ChkCpu(c) \/ Clear(c) \/ (Xchg(c) /\ locked # 0)
    BY <1>7 DEF Next
  <2>2. A!Release(c) \/ A!Acquire(c) => A!LockNext
    BY DEF A!LockNext
  <2>3. CASE ReleaseXchg(c)
    BY <1>3, <2>2, <2>3
  <2>4. CASE Xchg(c) /\ locked = 0
    BY <1>4, <2>2, <2>4
  <2>5. CASE \/ Flush(c) \/ Call(c) \/ TryLocked(c) \/ TryCpu(c) \/ Own(c) \/ Leave(c)
             \/ ChkLocked(c) \/ ChkCpu(c) \/ Clear(c) \/ (Xchg(c) /\ locked # 0)
    BY <1>2, <1>5, <2>5
  <2>6. QED
    BY <2>1, <2>3, <2>4, <2>5
<1>8. QED
  BY <1>6, <1>7

LEMMA InitIsLockInit == Init => A!LockInit
BY DEF Init, Inside, holderOf, A!LockInit

(* The lock is one: taken when free, given back by the CPU that has it,    *)
(* whatever the store buffers hold.                                        *)
THEOREM ImplementsLockSpec == Spec => ImplementsLock
BY Invariance, InitIsLockInit, StepIsLockStep, PTL DEF Spec, ImplementsLock, A!LockAbstract

-----------------------------------------------------------------------------
(* The start of the other processors.                                      *)

BootType ==
    /\ boot \in {"lock", "tell", "wait", "done"}
    /\ entry \in [CPUs -> {"off", "entry", "setup", "up"}]
    /\ rsp \in [CPUs -> CPUs \cup {None}]
    /\ cpu_status \in [CPUs -> {"unused", "started", "halted"}]

(* Only the CPU that boot_aps waits for is between mpentry.S and mp_main.  *)
OneStarts ==
    /\ \A c \in CPUs : entry[c] = "entry" =>
          boot = "wait" /\ target = c /\ mpentry_kstack = c
    /\ \A c \in CPUs : entry[c] \in {"off", "entry", "setup"} => cpu_status[c] = "unused"

(* The boot processor is in its section all the time.                      *)
BspInside ==
    /\ entry[BSP] = "up"
    /\ boot \in {"tell", "wait"} => pc[BSP] = "crit"

(* boot_aps polls a word that the CPU, once it is up, does not change.     *)
NoneHalts == boot # "done" => \A c \in CPUs \ {BSP} : cpu_status[c] # "halted"

(* While the boot processor is on its way, the others are outside, and off *)
(* before it has the lock.                                                 *)
OthersOutside ==
    boot = "lock" => \A c \in CPUs \ {BSP} : entry[c] = "off"

BootInv == BootType /\ OneStarts /\ OwnStack /\ BspInside /\ NoneHalts /\ OthersOutside

(* A step of the start-up is a step of the lock or none.                   *)
LEMMA StepImplements == [BootNext]_<<vars, bootVars>> => [Next]_vars
<1> SUFFICES ASSUME [BootNext]_<<vars, bootVars>> PROVE [Next]_vars
  OBVIOUS
<1>1. CASE UNCHANGED <<vars, bootVars>>
  BY <1>1
<1>2. ASSUME NEW c \in CPUs, CpuStep(c) PROVE [Next]_vars
  <2>1. CASE LoadStack(c) \/ mp_main(c) \/ StartAp \/ ApIsUp
    BY <2>1 DEF LoadStack, mp_main, StartAp, ApIsUp
  <2>2. CASE LeaveKernel(c)
    BY <2>2 DEF LeaveKernel, Next
  <2>3. CASE InLock(c)
    BY <2>3 DEF InLock, Next
  <2>4. QED
    BY <1>2, <2>1, <2>2, <2>3 DEF CpuStep
<1>3. ASSUME NEW c \in CPUs, trap(c) PROVE [Next]_vars
  BY <1>3 DEF trap, Next
<1>4. ASSUME NEW c \in CPUs, Flush(c) PROVE [Next]_vars
  BY <1>4 DEF Next
<1>5. QED
  BY <1>1, <1>2, <1>3, <1>4 DEF BootNext

(* The lock, used as the start-up and the traps use it, is Spinlock.       *)
THEOREM BootImplementsSpinlock == BootSpec => Spec
<1>1. BootInit => Init
  BY DEF BootInit
<1>2. QED
  BY <1>1, StepImplements, PTL DEF BootSpec, Spec

(* Mutual exclusion holds from the first lock_kernel of i386_init on.      *)
THEOREM BootMutex == BootSpec => []MutualExclusion
BY BootImplementsSpinlock, Mutex, PTL

(* The lock's variables keep their types.                                 *)
LEMMA BootTypeOK == BootSpec => []TypeOK
BY BootImplementsSpinlock, TypeCorrect, PTL

(* No debug check of the lock fires during the start-up or after it.       *)
THEOREM BootNoPanic == BootSpec => []NoSpuriousPanic
BY BootImplementsSpinlock, NoPanic, PTL

(* Through the start-up too the lock is an abstract lock: two refinements, *)
(* one after the other.                                                    *)
THEOREM BootImplementsLock == BootSpec => ImplementsLock
BY BootImplementsSpinlock, ImplementsLockSpec, PTL

-----------------------------------------------------------------------------
(* The invariant holds at power-on.                                        *)
LEMMA BootInitInv == BootInit => BootInv
BY NoneIsNoCpu, BspIsCpu
   DEF BootInit, Init, BootInv, BootType, OneStarts, OwnStack, BspInside,
       NoneHalts, OthersOutside

(* The steps of boot_aps.                                                  *)
LEMMA BootApsInv ==
    ASSUME BootInv, StartAp \/ ApIsUp
    PROVE  BootInv'
<1> USE BspIsCpu, NoneIsNoCpu DEF BootInv
<1>1. CASE StartAp
  <2>1. PICK c \in CPUs : /\ entry[c] = "off"
                          /\ target' = c /\ mpentry_kstack' = c
                          /\ entry' = [entry EXCEPT ![c] = "entry"]
    BY <1>1 DEF StartAp
  <2>2. boot' = "wait" /\ rsp' = rsp /\ cpu_status' = cpu_status /\ pc' = pc
        /\ pc[BSP] = "crit" /\ boot \in {"lock", "tell"}
    BY <1>1 DEF StartAp, MayBoot, vars
  <2>3. c # BSP /\ (\A d \in CPUs : entry[d] # "entry")
    BY <2>1, <2>2 DEF BspInside, OneStarts
  <2>4. BootType' /\ OwnStack'
    BY <2>1, <2>2 DEF BootType, OwnStack
  <2>5. OneStarts'
    BY <2>1, <2>2, <2>3 DEF OneStarts, BootType
  <2>6. BspInside' /\ NoneHalts' /\ OthersOutside'
    BY <2>1, <2>2, <2>3 DEF BspInside, NoneHalts, OthersOutside, BootType
  <2>7. QED
    BY <2>4, <2>5, <2>6
<1>2. CASE ApIsUp
  <2>1. /\ boot = "wait" /\ boot' \in {"tell", "done"} /\ cpu_status[target] = "started"
        /\ UNCHANGED <<vars, target, mpentry_kstack, entry, rsp, cpu_status>>
    BY <1>2 DEF ApIsUp, SeenUp
  <2>2. \A d \in CPUs : entry[d] # "entry"
    BY <2>1 DEF OneStarts
  <2>3. QED
    BY <2>1, <2>2 DEF BootType, OneStarts, OwnStack, BspInside, NoneHalts,
                      OthersOutside, vars
<1>3. QED
  BY <1>1, <1>2

(* The steps of a CPU that starts.                                         *)
LEMMA EntryInv ==
    ASSUME BootInv, NEW c \in CPUs, LoadStack(c) \/ mp_main(c)
    PROVE  BootInv'
<1> USE BspIsCpu, NoneIsNoCpu DEF BootInv
<1>1. CASE LoadStack(c)
  <2>1. mpentry_kstack = c /\ c # BSP
    BY <1>1 DEF LoadStack, OneStarts, BspInside
  <2>2. QED
    BY <1>1, <2>1 DEF LoadStack, BootType, OneStarts, OwnStack, BspInside, NoneHalts,
                      OthersOutside, vars
<1>2. CASE mp_main(c)
  BY <1>2 DEF mp_main, BootType, OneStarts, OwnStack, BspInside, NoneHalts,
              OthersOutside, vars
<1>3. QED
  BY <1>1, <1>2

(* The steps of a CPU that is up.  It leaves a section only when it is     *)
(* inside, and while the boot processor is, it is not.                     *)
LEMMA UpInv ==
    ASSUME BootInv, TypeOK, MutualExclusion, NEW c \in CPUs,
           \/ entry[c] = "up" /\ (LeaveKernel(c) \/ InLock(c) \/ trap(c))
           \/ Flush(c) /\ UNCHANGED bootVars
    PROVE  BootInv'
<1> USE BspIsCpu, NoneIsNoCpu DEF BootInv
<1>1. CASE entry[c] = "up" /\ LeaveKernel(c)
  <2>1. /\ pc[c] = "crit" /\ pc' = [pc EXCEPT ![c] = "chkLocked"] /\ ~Booting(c)
        /\ \/ cpu_status' = cpu_status
           \/ cpu_status' = [cpu_status EXCEPT ![c] = "halted"]
        /\ UNCHANGED <<boot, target, mpentry_kstack, entry, rsp>>
    BY <1>1 DEF LeaveKernel, Leave, Go
  <2>2. c # BSP => boot = "done"
    BY <1>1, <2>1 DEF BootType, OthersOutside, BspInside, MutualExclusion, Inside
  <2>3. boot = "done"
    BY <2>1, <2>2 DEF Booting
  <2>4. QED
    BY <1>1, <2>1, <2>3 DEF BootType, OneStarts, OwnStack, BspInside, NoneHalts,
                            OthersOutside
<1>2. CASE entry[c] = "up" /\ InLock(c)
  <2>1. pc[c] # "crit" /\ (pc[BSP] = "crit" => pc'[BSP] = "crit") /\ UNCHANGED bootVars
    <3>1. pc[c] # "crit" /\ (pc' = pc \/ \E l \in Places : pc' = [pc EXCEPT ![c] = l])
      BY <1>2 DEF InLock, TryLocked, TryCpu, Xchg, Own, ChkLocked, ChkCpu, Clear,
                  ReleaseXchg, Go, Places
    <3>2. QED
      BY <1>2, <3>1 DEF InLock, TypeOK
  <2>2. QED
    BY <2>1 DEF BootType, OneStarts, OwnStack, BspInside, NoneHalts, OthersOutside,
                bootVars
<1>3. CASE entry[c] = "up" /\ trap(c)
  <2>1. /\ pc[c] = "out" /\ pc' = [pc EXCEPT ![c] = "tryLocked"]
        /\ cpu_status' = [cpu_status EXCEPT ![c] = "started"]
        /\ UNCHANGED <<boot, target, mpentry_kstack, entry, rsp>>
    BY <1>3 DEF trap, Call, Go
  <2>2. QED
    BY <1>3, <2>1 DEF TypeOK, BootType, OneStarts, OwnStack, BspInside, NoneHalts,
                      OthersOutside
<1>4. CASE Flush(c) /\ UNCHANGED bootVars
  BY <1>4 DEF Flush, BootType, OneStarts, OwnStack, BspInside, NoneHalts, OthersOutside,
              bootVars
<1>5. QED
  BY <1>1, <1>2, <1>3, <1>4

(* Every step keeps it, mutual exclusion given.                            *)
LEMMA BootNextInv ==
    BootInv /\ TypeOK /\ MutualExclusion /\ [BootNext]_<<vars, bootVars>> => BootInv'
<1> SUFFICES ASSUME BootInv, TypeOK, MutualExclusion, [BootNext]_<<vars, bootVars>>
             PROVE  BootInv'
  OBVIOUS
<1>1. CASE UNCHANGED <<vars, bootVars>>
  BY <1>1 DEF vars, bootVars, BootInv, BootType, OneStarts, OwnStack, BspInside,
              NoneHalts, OthersOutside
<1>2. CASE BootNext
  BY <1>2, BootApsInv, EntryInv, UpInv DEF BootNext, CpuStep
<1>3. QED
  BY <1>1, <1>2

(* So it is an invariant of the start-up.                                  *)
LEMMA BootInvariance == BootSpec => []BootInv
BY BootMutex, BootTypeOK, BootInitInv, BootNextInv, PTL DEF BootSpec

(* Every CPU runs on the stack that boot_aps wrote down for it, although   *)
(* all read it from one variable.                                          *)
THEOREM Stacks == BootSpec => []OwnStack
<1>1. BootInv => OwnStack
  BY DEF BootInv
<1>2. QED
  BY <1>1, BootInvariance, PTL

(* boot_aps does not miss a CPU: while it polls, no CPU that has come up   *)
(* takes its CPU_STARTED back, for that needs the lock.                    *)
THEOREM StartedStays == BootSpec => []NoneHalts
<1>1. BootInv => NoneHalts
  BY DEF BootInv
<1>2. QED
  BY <1>1, BootInvariance, PTL
=============================================================================

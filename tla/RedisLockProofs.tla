-------------------------- MODULE RedisLockProofs --------------------------
(***************************************************************************)
(* Proofs about RedisLock, for every set of lock objects, every assignment *)
(* of timeouts and every number of retries and crashes.                    *)
(***************************************************************************)
EXTENDS RedisLock, TLAPS

(***************************************************************************)
(* Every variable keeps its type (lock.js: the state of a Lock object, and *)
(* the key it uses).                                                       *)
(***************************************************************************)
THEOREM TypeCorrect == Spec => []TypeOK
<1> USE NoProcAssumption, TimeoutAssumption, RetryAssumption, HoldAssumption,
        CrashAssumption
<1>1. Init => TypeOK
  <2> SUFFICES ASSUME Init PROVE TypeOK
    OBVIOUS
  <2>1. overran \in BOOLEAN
    BY DEF Init
  <2> QED
    BY <2>1, SMTT(60) DEF Init, TypeOK, PCs, NoTime
<1>2. TypeOK /\ [Next]_vars => TypeOK'
  <2> SUFFICES ASSUME TypeOK, [Next]_vars PROVE TypeOK'
    OBVIOUS
  <2> USE DEF TypeOK, PCs, NoTime, redis
  <2>1. CASE Tick
    <3>1. overran' \in BOOLEAN
      BY <2>1 DEF Tick
    <3>2. UNCHANGED <<pc, iter, acquired, expiring, crashes>>
      BY <2>1 DEF Tick
    <3>3. owner' \in Procs \cup {NoProc} /\ ttl' \in Nat \cup {NoTime}
      BY <2>1 DEF Tick, CountDown
    <3>4. timer' \in [Procs -> Nat \cup {NoTime}] /\ held' \in [Procs -> Nat]
      BY <2>1 DEF Tick, CountDown
    <3> QED
      BY <3>1, <3>2, <3>3, <3>4
  <2>2. ASSUME NEW p \in Procs, Acquire(p) PROVE TypeOK'
    BY <2>2 DEF Acquire
  <2>3. ASSUME NEW p \in Procs, SetNx(p) PROVE TypeOK'
    BY <2>3 DEF SetNx, KeyFree
  <2>4. ASSUME NEW p \in Procs, Won(p) PROVE TypeOK'
    BY <2>4 DEF Won
  <2>5. ASSUME NEW p \in Procs, Lost(p) PROVE TypeOK'
    BY <2>5 DEF Lost, NextIter, AfterLastTry
  <2>6. ASSUME NEW p \in Procs, Expire(p) PROVE TypeOK'
    BY <2>6 DEF Expire, SetTTL
  <2>7. ASSUME NEW p \in Procs, Release(p) PROVE TypeOK'
    BY <2>7 DEF Release
  <2>8. ASSUME NEW p \in Procs, ReleaseRefused(p) PROVE TypeOK'
    BY <2>8 DEF ReleaseRefused
  <2>9. ASSUME NEW p \in Procs, Del(p) PROVE TypeOK'
    BY <2>9 DEF Del
  <2>10. ASSUME NEW p \in Procs, Deleted(p) PROVE TypeOK'
    BY <2>10 DEF Deleted
  <2>11. ASSUME NEW p \in Procs, Missed(p) PROVE TypeOK'
    BY <2>11 DEF Missed, KeepOnMiss
  <2>12. ASSUME NEW p \in Procs, LocalTimeout(p) PROVE TypeOK'
    BY <2>12 DEF LocalTimeout
  <2>13. ASSUME NEW p \in Procs, Crash(p) PROVE TypeOK'
    <3>1. expiring' \in [Procs -> BOOLEAN] /\ acquired' \in [Procs -> BOOLEAN]
      BY <2>13 DEF Crash
    <3>2. pc' \in [Procs -> PCs] /\ timer' \in [Procs -> Nat \cup {NoTime}]
      BY <2>13 DEF Crash
    <3>3. iter' \in [Procs -> Nat] /\ held' \in [Procs -> Nat] /\ crashes' \in Nat
      BY <2>13 DEF Crash
    <3>4. UNCHANGED redis /\ UNCHANGED overran
      BY <2>13 DEF Crash
    <3> QED
      BY <3>1, <3>2, <3>3, <3>4
  <2>14. CASE UNCHANGED vars
    BY <2>14 DEF vars
  <2>15. ASSUME NEW p \in Procs, CommandFails(p) PROVE TypeOK'
    BY <2>15 DEF CommandFails
  <2>16. ASSUME NEW p \in Procs, ExpireFails(p) PROVE TypeOK'
    BY <2>16 DEF ExpireFails
  <2> QED
    BY <2>1, <2>2, <2>3, <2>4, <2>5, <2>6, <2>7, <2>8, <2>9, <2>10, <2>11,
       <2>12, <2>13, <2>14, <2>15, <2>16 DEF Next
<1> QED
  BY <1>1, <1>2, PTL DEF Spec

(***************************************************************************)
(* A Lock object that believes it is acquired has a local timer that will  *)
(* make it forget that, also after a release that did not find the key     *)
(* (lock.js lines 82-86 and 144-152): whatever the callers do, the object  *)
(* can be used again.                                                      *)
(***************************************************************************)
THEOREM AcquiredObjects == Spec => []AcquiredObjectHasTimer
<1> USE TimeoutAssumption DEF AcquiredObjectHasTimer
<1>1. Init => AcquiredObjectHasTimer
  BY DEF Init
<1>2. TypeOK /\ AcquiredObjectHasTimer /\ [Next]_vars => AcquiredObjectHasTimer'
  <2> SUFFICES ASSUME TypeOK, AcquiredObjectHasTimer, [Next]_vars,
                      NEW q \in Procs, acquired'[q]
               PROVE  timer'[q] # NoTime
    OBVIOUS
  <2> USE DEF TypeOK, NoTime
  <2>1. CASE Tick
    BY <2>1 DEF Tick, CountDown
  <2>2. ASSUME NEW p \in Procs, Won(p) PROVE timer'[q] # NoTime
    BY <2>2 DEF Won
  <2>3. ASSUME NEW p \in Procs, Deleted(p) \/ LocalTimeout(p) \/ Crash(p)
        PROVE timer'[q] # NoTime
    BY <2>3 DEF Deleted, LocalTimeout, Crash
  <2>4. ASSUME NEW p \in Procs,
               \/ Acquire(p) \/ SetNx(p) \/ Lost(p) \/ Expire(p) \/ Release(p)
               \/ ReleaseRefused(p) \/ Del(p) \/ Missed(p) \/ CommandFails(p)
               \/ ExpireFails(p)
        PROVE timer'[q] # NoTime
    BY <2>4 DEF Acquire, SetNx, Lost, Expire, Release, ReleaseRefused, Del,
                Missed, KeepOnMiss, CommandFails, ExpireFails
  <2>5. CASE UNCHANGED vars
    BY <2>5 DEF vars
  <2> QED
    BY <2>1, <2>2, <2>3, <2>4, <2>5 DEF Next
<1> QED
  BY <1>1, <1>2, TypeCorrect, PTL DEF Spec

----------------------------------------------------------------------------
(* Mutual exclusion.                                                       *)

(***************************************************************************)
(* Redis drops the key only when its life is over, and then nobody holds   *)
(* it: time spent plus time left is at least one of the timeouts, and      *)
(* every timeout is longer than a section that has not overrun.            *)
(***************************************************************************)
LEMMA TickKeepsKey ==
    ASSUME SectionsFitTimeout, TypeOK, HolderOwnsKey, KeyLife, Tick, ~overran',
           NEW p \in Procs, Holding(p)
    PROVE  owner' = p /\ KeyOutlives(held[p])'
<1> USE TimeoutAssumption, HoldAssumption DEF TypeOK, NoTime
<1>0. ~overran /\ ~(held[p] >= HoldBound)
  BY DEF Tick
<1>1. held[p] < HoldBound /\ held[p] \in Nat /\ owner = p /\ ttl \in Nat \cup {-1}
  BY <1>0 DEF HolderOwnsKey
<1>2. \A q \in Procs : LockTimeout[q] \in Nat /\ HoldBound < LockTimeout[q]
  BY DEF SectionsFitTimeout
<1>3. KeyOutlives(held[p])
  BY <1>0 DEF KeyLife
<1>4. ttl # 1
  BY <1>1, <1>2, <1>3 DEF KeyOutlives
<1>5. held'[p] = held[p] + 1
  BY <1>1 DEF Tick
<1>6. owner' = owner /\ ttl' = CountDown(ttl)
  BY <1>4 DEF Tick
<1>7. KeyOutlives(held[p])'
  <2>1. CASE ttl = NoTime
    BY <1>6, <2>1 DEF CountDown, KeyOutlives
  <2>2. CASE ttl # NoTime
    <3>1. ttl' = ttl - 1 /\ ttl' > 0
      BY <1>1, <1>3, <1>4, <1>6, <2>2 DEF CountDown, KeyOutlives
    <3>2. PICK q \in Procs : held[p] + ttl >= LockTimeout[q]
      BY <1>3, <2>2 DEF KeyOutlives
    <3>3. held'[p] + ttl' >= LockTimeout[q]
      BY <1>1, <1>2, <1>5, <2>2, <3>1, <3>2
    <3> QED
      BY <3>1, <3>3 DEF KeyOutlives
  <2> QED
    BY <2>1, <2>2
<1> QED
  BY <1>1, <1>6, <1>7

(***************************************************************************)
(* A caller that overran stays recorded, and only the passing of time      *)
(* makes one overrun.                                                      *)
(***************************************************************************)
LEMMA OverrunIsTick ==
    ASSUME [Next]_vars
    PROVE  (overran => overran') /\ (overran' /\ ~overran => Tick)
<1>1. CASE Tick
  BY <1>1 DEF Tick
<1>2. CASE UNCHANGED vars
  BY <1>2 DEF vars
<1>3. ASSUME NEW p \in Procs,
             \/ Acquire(p) \/ SetNx(p) \/ Won(p) \/ Lost(p) \/ Expire(p)
             \/ Release(p) \/ ReleaseRefused(p) \/ Del(p) \/ Deleted(p)
             \/ Missed(p) \/ LocalTimeout(p) \/ Crash(p) \/ CommandFails(p)
             \/ ExpireFails(p)
      PROVE overran' = overran
  BY <1>3 DEF Acquire, SetNx, Won, Lost, Expire, Release, ReleaseRefused, Del,
              Deleted, Missed, LocalTimeout, Crash, CommandFails, ExpireFails
<1> QED
  BY <1>1, <1>2, <1>3 DEF Next

(***************************************************************************)
(* The time an object has held the key is counted up to HoldBound, and is  *)
(* zero while it does not hold it.                                         *)
(***************************************************************************)
LEMMA StepCountsHeld ==
    ASSUME TypeOK, HeldCounts, [Next]_vars
    PROVE  HeldCounts'
<1> USE HoldAssumption DEF HeldCounts, TypeOK
<1>1. CASE Tick
  BY <1>1 DEF Tick, Holding
<1>2. ASSUME NEW p \in Procs,
             \/ Acquire(p) \/ SetNx(p) \/ Won(p) \/ Lost(p) \/ Release(p)
             \/ Deleted(p) \/ Missed(p) \/ LocalTimeout(p) \/ Expire(p) \/ ExpireFails(p)
      PROVE HeldCounts'
  <2>1. held' = held
    BY <1>2 DEF Acquire, SetNx, Won, Lost, Release, Deleted, Missed, LocalTimeout,
                Expire, ExpireFails
  <2>2. \A q \in Procs : Holding(q) => Holding(q)'
    BY <1>2 DEF Acquire, SetNx, Won, Lost, AfterLastTry, Release, Deleted, Missed,
                LocalTimeout, Expire, ExpireFails, Holding
  <2> QED
    BY <2>1, <2>2
<1>3. ASSUME NEW p \in Procs, ReleaseRefused(p) \/ Del(p) \/ Crash(p) \/ CommandFails(p)
      PROVE HeldCounts'
  <2>1. held' = [held EXCEPT ![p] = 0]
    BY <1>3 DEF ReleaseRefused, Del, Crash, CommandFails
  <2>2. \A q \in Procs \ {p} : pc'[q] = pc[q]
    BY <1>3 DEF ReleaseRefused, Del, Crash, CommandFails
  <2> QED
    BY <2>1, <2>2 DEF Holding
<1>4. CASE UNCHANGED vars
  BY <1>4 DEF vars, Holding
<1> QED
  BY <1>1, <1>2, <1>3, <1>4 DEF Next

(***************************************************************************)
(* From SETNX to DEL the key belongs to the object that set it, provided   *)
(* that HoldBound is less than every lockTimeout used on the key and until *)
(* a section lasts longer than HoldBound (lock.js lines 52-64, 82-86 and   *)
(* 137: the DEL does not look at who set the key, so nothing else protects *)
(* the section of another object).                                         *)
(***************************************************************************)
THEOREM KeyOwnership ==
    SectionsFitTimeout => (Spec => [](HolderOwnsKey /\ KeyLife))
<1> DEFINE Inv == HolderOwnsKey /\ KeyLife
<1> SUFFICES ASSUME SectionsFitTimeout PROVE Spec => []Inv
  OBVIOUS
<1> USE NoProcAssumption, TimeoutAssumption, HoldAssumption
<1>1. Init => Inv
  BY DEF Init, HolderOwnsKey, KeyLife, HeldCounts, Holding
<1>2. TypeOK /\ Inv /\ [Next]_vars => Inv'
  <2> DEFINE Owns  == \A p \in Procs : Holding(p) => owner = p
             Lasts == \A p \in Procs : Holding(p) => KeyOutlives(held[p])
  <2> SUFFICES ASSUME TypeOK, Inv, [Next]_vars, ~overran' PROVE Owns' /\ Lasts'
    BY StepCountsHeld DEF HolderOwnsKey, KeyLife
  <2>a. ~overran /\ Owns /\ Lasts
    BY OverrunIsTick DEF HolderOwnsKey, KeyLife
  <2>0. \A p, q \in Procs : Holding(p) /\ Holding(q) => p = q
    BY <2>a
  <2>1. CASE Tick
    <3>1. \A p \in Procs : Holding(p)' = Holding(p)
      BY <2>1 DEF Tick, Holding
    <3> QED
      BY <2>1, <3>1, TickKeepsKey
  <2>2. ASSUME NEW p \in Procs, SetNx(p) PROVE Owns' /\ Lasts'
    <3>1. CASE KeyFree
      <4>1. \A q \in Procs : ~Holding(q)
        BY <2>a, <3>1 DEF KeyFree
      <4>2. \A q \in Procs : Holding(q)' => q = p
        BY <2>2, <4>1 DEF SetNx, Holding, TypeOK
      <4>3. owner' = p /\ ttl' = NoTime
        BY <2>2, <3>1 DEF SetNx
      <4> QED
        BY <4>2, <4>3 DEF KeyOutlives
    <3>2. CASE ~KeyFree
      <4>1. \A q \in Procs : Holding(q)' = Holding(q)
        BY <2>2, <3>2 DEF SetNx, Holding, TypeOK
      <4> QED
        BY <2>2, <2>a, <3>2, <4>1 DEF SetNx, KeyOutlives, redis
    <3> QED
      BY <3>1, <3>2
  \* The steps that change no key and nobody's hold on it.
  <2>3. ASSUME NEW p \in Procs,
               \/ Acquire(p) \/ Won(p) \/ Lost(p) \/ Release(p)
               \/ Deleted(p) \/ Missed(p) \/ LocalTimeout(p) \/ ExpireFails(p)
        PROVE Owns' /\ Lasts'
    <3>1. \A q \in Procs : Holding(q)' = Holding(q)
      BY <2>3 DEF Acquire, Won, Lost, AfterLastTry, Release, Deleted, Missed,
                  LocalTimeout, ExpireFails, Holding, TypeOK
    <3>2. UNCHANGED <<owner, ttl, held>>
      BY <2>3 DEF Acquire, Won, Lost, Release, Deleted, Missed, LocalTimeout,
                  ExpireFails, redis
    <3> QED
      BY <2>a, <3>1, <3>2 DEF KeyOutlives
  \* An EXPIRE, late or not, gives the key at least a whole timeout.
  <2>4. ASSUME NEW p \in Procs, Expire(p) PROVE Owns' /\ Lasts'
    <3>1. UNCHANGED <<owner, pc, held>>
      BY <2>4 DEF Expire
    <3>2. \A q \in Procs : Holding(q)' = Holding(q)
      BY <3>1 DEF Holding
    <3>3. ASSUME NEW q \in Procs, Holding(q) PROVE KeyOutlives(held[q])'
      <4>1. ttl' = LockTimeout[p] /\ held'[q] = held[q]
        BY <2>4, <2>a, <3>1, <3>3 DEF Expire, SetTTL
      <4>2. held[q] \in Nat /\ LockTimeout[p] \in Nat \ {0}
        BY DEF TypeOK
      <4>3. ttl' > 0 /\ held'[q] + ttl' >= LockTimeout[p]
        BY <4>1, <4>2
      <4> QED
        BY <4>3 DEF KeyOutlives
    <3> QED
      BY <2>a, <3>1, <3>2, <3>3
  \* An object that stops holding the key is the only one that held it.
  <2>5. ASSUME NEW p \in Procs, Del(p) PROVE Owns' /\ Lasts'
    <3>1. Holding(p) /\ ~Holding(p)'
      BY <2>5 DEF Del, Holding, TypeOK
    <3>2. \A q \in Procs \ {p} : ~Holding(q) /\ ~Holding(q)'
      BY <2>0, <2>5, <3>1 DEF Del, Holding, TypeOK
    <3> QED
      BY <3>1, <3>2
  <2>6. ASSUME NEW p \in Procs, ReleaseRefused(p) \/ Crash(p) \/ CommandFails(p)
        PROVE Owns' /\ Lasts'
    <3>1. ~Holding(p)' /\ UNCHANGED <<owner, ttl>>
      BY <2>6 DEF ReleaseRefused, Crash, CommandFails, Holding, TypeOK, redis
    <3>2. \A q \in Procs \ {p} : Holding(q)' = Holding(q) /\ held'[q] = held[q]
      BY <2>6 DEF ReleaseRefused, Crash, CommandFails, Holding, TypeOK
    <3> QED
      BY <2>a, <3>1, <3>2 DEF KeyOutlives
  <2>7. CASE UNCHANGED vars
    BY <2>7, <2>a DEF vars, KeyOutlives, Holding
  <2> QED
    BY <2>1, <2>2, <2>3, <2>4, <2>5, <2>6, <2>7 DEF Next
<1> QED
  BY <1>1, <1>2, TypeCorrect, PTL DEF Spec

(***************************************************************************)
(* At most one object is in its critical section, under the same condition *)
(* on HoldBound and until a section overruns it.                           *)
(***************************************************************************)
THEOREM AtMostOneInSection ==
    SectionsFitTimeout => (Spec => []MutualExclusion)
<1>1. HolderOwnsKey => MutualExclusion
  BY DEF HolderOwnsKey, MutualExclusion, Holding
<1> QED
  BY <1>1, KeyOwnership, PTL

(***************************************************************************)
(* Under that condition lock.js implements Mutex: an object enters its     *)
(* section only when nobody is inside; an overrun is the last thing that   *)
(* Mutex sees.                                                             *)
(***************************************************************************)
THEOREM ImplementsMutex == SectionsFitTimeout => (Spec => MutexSpec)
<1> SUFFICES ASSUME SectionsFitTimeout PROVE Spec => MutexSpec
  OBVIOUS
<1>1. Init => M!Init
  BY DEF Init, M!Init, Inside
<1>2. TypeOK /\ HolderOwnsKey /\ HolderOwnsKey' /\ [Next]_vars
        => [M!Next]_Inside
  <2> SUFFICES ASSUME TypeOK, HolderOwnsKey, HolderOwnsKey', [Next]_vars
               PROVE  M!Next \/ Inside' = Inside
    OBVIOUS
  <2> DEFINE bar == {p \in Procs : pc[p] = "cs"}
  <2> USE DEF TypeOK, M!Next, M!Enter, M!Leave
  <2>a. CASE overran'
    <3>1. Inside' = {}
      BY <2>a DEF Inside
    <3>2. CASE overran
      BY <3>1, <3>2 DEF Inside
    <3>3. CASE ~overran
      <4>1. \A p, q \in Procs : pc[p] = "cs" /\ pc[q] = "cs" => p = q
        BY <3>3 DEF HolderOwnsKey, Holding
      <4>2. Inside = bar
        BY <3>3 DEF Inside
      <4>3. CASE \E p \in Procs : pc[p] = "cs"
        <5>1. PICK p \in Procs : pc[p] = "cs"
          BY <4>3
        <5>2. Inside = {p}
          BY <4>1, <4>2, <5>1
        <5> QED
          BY <3>1, <5>2
      <4>4. CASE ~ \E p \in Procs : pc[p] = "cs"
        BY <3>1, <4>2, <4>4
      <4> QED
        BY <4>3, <4>4
    <3> QED
      BY <3>2, <3>3
  <2>b. CASE ~overran'
    <3> SUFFICES \/ \E p \in Procs : \/ bar = {} /\ bar' = {p}
                                     \/ bar = {p} /\ bar' = {}
                 \/ bar' = bar
      <4>1. ~overran
        BY <2>b, OverrunIsTick
      <4>2. Inside = bar /\ Inside' = bar'
        BY <2>b, <4>1 DEF Inside
      <4> QED
        BY <4>2
    <3>0. \A p \in Procs : (Holding(p) => owner = p) /\ (Holding(p)' => owner' = p)
      BY <2>b, OverrunIsTick DEF HolderOwnsKey
    <3>1. CASE Tick
      BY <3>1 DEF Tick
    <3>2. ASSUME NEW p \in Procs, Won(p) PROVE bar = {} /\ bar' = {p}
      <4>1. \A q \in Procs : pc[q] # "cs"
        BY <3>0, <3>2 DEF Won, Holding
      <4> QED
        BY <3>2, <4>1 DEF Won
    <3>3. ASSUME NEW p \in Procs, pc[p] = "cs",
                 pc' = [pc EXCEPT ![p] = "del"] \/ pc' = [pc EXCEPT ![p] = "idle"]
          PROVE bar = {p} /\ bar' = {}
      <4>1. \A q \in Procs : pc[q] = "cs" => q = p
        BY <3>0, <3>3 DEF Holding
      <4> QED
        BY <3>3, <4>1
    <3>4. ASSUME NEW p \in Procs, Release(p) \/ ReleaseRefused(p)
          PROVE bar = {p} /\ bar' = {}
      BY <3>3, <3>4 DEF Release, ReleaseRefused
    <3>5. ASSUME NEW p \in Procs, Crash(p) \/ CommandFails(p)
          PROVE (bar = {p} /\ bar' = {}) \/ bar' = bar
      <4>1. CASE pc[p] = "cs"
        BY <3>3, <3>5, <4>1 DEF Crash, CommandFails
      <4>2. CASE pc[p] # "cs"
        BY <3>5, <4>2 DEF Crash, CommandFails
      <4> QED
        BY <4>1, <4>2
    <3>6. ASSUME NEW p \in Procs,
                 \/ Acquire(p) \/ SetNx(p) \/ Lost(p) \/ Expire(p) \/ Del(p)
                 \/ Deleted(p) \/ Missed(p) \/ LocalTimeout(p) \/ ExpireFails(p)
          PROVE bar' = bar
      BY <3>6 DEF Acquire, SetNx, Lost, AfterLastTry, Expire, Del, Deleted, Missed,
                  LocalTimeout, ExpireFails
    <3>7. CASE UNCHANGED vars
      BY <3>7 DEF vars
    <3> QED
      BY <3>1, <3>2, <3>4, <3>5, <3>6, <3>7 DEF Next
  <2> QED
    BY <2>a, <2>b
<1> QED
  BY <1>1, <1>2, TypeCorrect, KeyOwnership, PTL DEF Spec, MutexSpec, M!Spec
=============================================================================

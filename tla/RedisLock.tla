----------------------------- MODULE RedisLock -----------------------------
(***************************************************************************)
(* The distributed lock of src/lock.js: Lock objects of several management *)
(* processes compete for one redis key.  SETNX takes the key, a separate   *)
(* EXPIRE that nobody waits for gives it a time to live, a local timer     *)
(* forgets the acquisition after the same delay, and DEL, which does not   *)
(* look at who set the key, gives the lock up.                             *)
(*                                                                         *)
(* A redis command is three steps: sent, executed, answered.  Commands of  *)
(* one process travel on pooled connections (src/redisClient.js), so the   *)
(* EXPIRE may be executed late, even after the DEL of the same object.     *)
(* Time is counted in ticks.                                               *)
(***************************************************************************)
EXTENDS Integers, FiniteSets

CONSTANTS
    Procs,          \* the lock objects that use the key
    NoProc,         \* owner of the key when it does not exist
    LockTimeout,    \* [Procs -> ticks]: the lockTimeout option of each object
    NumOfRetries,   \* the numOfRetries option
    HoldBound,      \* longest time, in ticks, that callers should keep the key
    MaxCrashes      \* how many times a process may die or a redis command fail

ASSUME NoProcAssumption  == NoProc \notin Procs
ASSUME TimeoutAssumption == LockTimeout \in [Procs -> Nat \ {0}]
ASSUME RetryAssumption   == NumOfRetries \in Nat
ASSUME HoldAssumption    == HoldBound \in Nat
ASSUME CrashAssumption   == MaxCrashes \in Nat

NoTime == -1        \* no TTL on the key, or no local timer running

VARIABLES
    owner,      \* who executed the SETNX that created the key, or NoProc
    ttl,        \* remaining life of the key, NoTime when it has none
    pc,         \* where each object is in acquire / section / release
    iter,       \* iter of acquire's retry loop
    acquired,   \* _lockAquired
    timer,      \* remaining delay of _lockTimeoutFunc
    expiring,   \* an EXPIRE of this object is on its way to redis
    held,       \* ticks since the SETNX of this object was executed, up to HoldBound
    crashes,    \* number of crashes and failures so far
    overran     \* some caller has kept the key longer than HoldBound

redis == <<owner, ttl>>
vars  == <<owner, ttl, pc, iter, acquired, timer, expiring, held, crashes, overran>>

\* idle: no call outstanding; setnx: SETNX sent; won, lost: executed, its
\* answer (1, 0) not yet read; cs: in the critical section; del: DEL sent;
\* deleted, missed: DEL executed, its answer (1, 0) not yet read.
PCs == {"idle", "setnx", "won", "lost", "cs", "del", "deleted", "missed"}

TypeOK ==
    /\ owner \in Procs \cup {NoProc}
    /\ ttl \in Nat \cup {NoTime}
    /\ pc \in [Procs -> PCs]
    /\ iter \in [Procs -> Nat]
    /\ acquired \in [Procs -> BOOLEAN]
    /\ timer \in [Procs -> Nat \cup {NoTime}]
    /\ expiring \in [Procs -> BOOLEAN]
    /\ held \in [Procs -> Nat]
    /\ crashes \in Nat
    /\ overran \in BOOLEAN

Init ==
    /\ owner = NoProc
    /\ ttl = NoTime
    /\ pc = [p \in Procs |-> "idle"]
    /\ iter = [p \in Procs |-> 0]
    /\ acquired = [p \in Procs |-> FALSE]
    /\ timer = [p \in Procs |-> NoTime]
    /\ expiring = [p \in Procs |-> FALSE]
    /\ held = [p \in Procs |-> 0]
    /\ crashes = 0
    /\ overran = FALSE

----------------------------------------------------------------------------
(* Variants of definitions below, each with a plausible mistake.          *)

KeyFreeAlways == TRUE                                       \* SET, not SETNX
NextIterStuck(p) == iter[p]                                 \* ++iter forgotten
CountDownPast(t) == t - 1                                   \* no stop at zero

----------------------------------------------------------------------------
(* Acquire. *)

\* acquire on an object that is not already acquired starts the retry loop.
\* On an acquired one it calls back with an error and changes nothing.
Acquire(p) ==
    /\ pc[p] = "idle"
    /\ ~acquired[p]
    /\ pc' = [pc EXCEPT ![p] = "setnx"]
    /\ UNCHANGED <<redis, iter, acquired, timer, expiring, held, crashes, overran>>

KeyFree == owner = NoProc

\* redis executes the SETNX.
SetNx(p) ==
    /\ pc[p] = "setnx"
    /\ \/ /\ KeyFree
          /\ owner' = p
          /\ ttl' = NoTime
          /\ pc' = [pc EXCEPT ![p] = "won"]
       \/ /\ ~KeyFree
          /\ pc' = [pc EXCEPT ![p] = "lost"]
          /\ UNCHANGED redis
    /\ UNCHANGED <<iter, acquired, timer, expiring, held, crashes, overran>>

\* The answer is 1: the object is acquired, the EXPIRE leaves without anybody
\* waiting for it, the local timer starts and the caller enters its section.
\* An object has at most one EXPIRE on its way (a bound of the model).
Won(p) ==
    /\ pc[p] = "won"
    /\ ~expiring[p]
    /\ acquired' = [acquired EXCEPT ![p] = TRUE]
    /\ expiring' = [expiring EXCEPT ![p] = TRUE]
    /\ timer' = [timer EXCEPT ![p] = LockTimeout[p]]
    /\ pc' = [pc EXCEPT ![p] = "cs"]
    /\ iter' = [iter EXCEPT ![p] = 0]
    /\ UNCHANGED <<redis, held, crashes, overran>>

NextIter(p) == iter[p] + 1
AfterLastTry == "idle"

\* The answer is 0: after waitInterval the loop tries again while
\* iter <= numOfRetries; then acquire calls back with 0.
Lost(p) ==
    /\ pc[p] = "lost"
    /\ \/ /\ NextIter(p) <= NumOfRetries
          /\ iter' = [iter EXCEPT ![p] = NextIter(p)]
          /\ pc' = [pc EXCEPT ![p] = "setnx"]
       \/ /\ NextIter(p) > NumOfRetries
          /\ iter' = [iter EXCEPT ![p] = 0]
          /\ pc' = [pc EXCEPT ![p] = AfterLastTry]
    /\ UNCHANGED <<redis, acquired, timer, expiring, held, crashes, overran>>

\* redis gives the key, whoever owns it by now, lockTimeout to live.
SetTTL(p) == ttl' = IF owner = NoProc THEN ttl ELSE LockTimeout[p]

\* redis executes the EXPIRE.
Expire(p) ==
    /\ expiring[p]
    /\ SetTTL(p)
    /\ expiring' = [expiring EXCEPT ![p] = FALSE]
    /\ UNCHANGED <<owner, pc, iter, acquired, timer, held, crashes, overran>>

----------------------------------------------------------------------------
(* Release. *)

MayRelease(p) == acquired[p]

\* The section ends and release sends the DEL.
Release(p) ==
    /\ pc[p] = "cs"
    /\ MayRelease(p)
    /\ pc' = [pc EXCEPT ![p] = "del"]
    /\ UNCHANGED <<redis, iter, acquired, timer, expiring, held, crashes, overran>>

\* The local timer fired during the section: release calls back with an
\* error and sends nothing.
ReleaseRefused(p) ==
    /\ pc[p] = "cs"
    /\ ~MayRelease(p)
    /\ pc' = [pc EXCEPT ![p] = "idle"]
    /\ held' = [held EXCEPT ![p] = 0]
    /\ UNCHANGED <<redis, iter, acquired, timer, expiring, crashes, overran>>

\* redis executes the DEL on whatever key is there.
Del(p) ==
    /\ pc[p] = "del"
    /\ pc' = [pc EXCEPT ![p] = IF owner = NoProc THEN "missed" ELSE "deleted"]
    /\ owner' = NoProc
    /\ ttl' = NoTime
    /\ held' = [held EXCEPT ![p] = 0]
    /\ UNCHANGED <<iter, acquired, timer, expiring, crashes, overran>>

\* The answer of the DEL is 1: the object may be acquired again.
Deleted(p) ==
    /\ pc[p] = "deleted"
    /\ acquired' = [acquired EXCEPT ![p] = FALSE]
    /\ timer' = [timer EXCEPT ![p] = NoTime]
    /\ pc' = [pc EXCEPT ![p] = "idle"]
    /\ UNCHANGED <<redis, iter, expiring, held, crashes, overran>>

KeepOnMiss(p) == UNCHANGED <<acquired, timer>>

\* The answer is 0: the object stays acquired, its timer keeps running.
Missed(p) ==
    /\ pc[p] = "missed"
    /\ KeepOnMiss(p)
    /\ pc' = [pc EXCEPT ![p] = "idle"]
    /\ UNCHANGED <<redis, iter, expiring, held, crashes, overran>>

----------------------------------------------------------------------------
(* Time and failures. *)

\* The callback of the local timer; the event loop may run it late.
LocalTimeout(p) ==
    /\ timer[p] = 0
    /\ acquired' = [acquired EXCEPT ![p] = FALSE]
    /\ timer' = [timer EXCEPT ![p] = NoTime]
    /\ UNCHANGED <<redis, pc, iter, expiring, held, crashes, overran>>

\* From the execution of the SETNX to that of the DEL.
Holding(p) == pc[p] \in {"won", "cs", "del"}

CountDown(t) == IF t > 0 THEN t - 1 ELSE t

\* One tick passes; redis drops the key when its life ends.
Tick ==
    /\ overran' = (overran \/ \E p \in Procs : Holding(p) /\ held[p] >= HoldBound)
    /\ \/ ttl = 1 /\ owner' = NoProc /\ ttl' = NoTime
       \/ ttl # 1 /\ ttl' = CountDown(ttl) /\ UNCHANGED owner
    /\ timer' = [p \in Procs |-> CountDown(timer[p])]
    /\ held' = [p \in Procs |-> IF Holding(p) /\ held[p] < HoldBound
                                THEN held[p] + 1 ELSE held[p]]
    /\ UNCHANGED <<pc, iter, acquired, expiring, crashes>>

\* The process dies and comes back with a new object.  A command on its way
\* may be lost with it; redis keeps the key.
Crash(p) ==
    /\ crashes < MaxCrashes
    /\ pc[p] # "idle"
    /\ crashes' = crashes + 1
    /\ pc' = [pc EXCEPT ![p] = "idle"]
    /\ iter' = [iter EXCEPT ![p] = 0]
    /\ acquired' = [acquired EXCEPT ![p] = FALSE]
    /\ timer' = [timer EXCEPT ![p] = NoTime]
    /\ \/ UNCHANGED expiring
       \/ expiring' = [expiring EXCEPT ![p] = FALSE]
    /\ held' = [held EXCEPT ![p] = 0]
    /\ UNCHANGED <<redis, overran>>

\* A SETNX or DEL is answered with an error, whether redis has executed it or
\* not: acquire and release call back with the error, and release keeps the
\* acquisition and its timer.
CommandFails(p) ==
    /\ crashes < MaxCrashes
    /\ pc[p] \in PCs \ {"idle", "cs"}
    /\ crashes' = crashes + 1
    /\ pc' = [pc EXCEPT ![p] = "idle"]
    /\ iter' = [iter EXCEPT ![p] = 0]
    /\ held' = [held EXCEPT ![p] = 0]
    /\ UNCHANGED <<redis, acquired, timer, expiring, overran>>

\* Nobody hears of an EXPIRE that fails.
ExpireFails(p) ==
    /\ crashes < MaxCrashes
    /\ expiring[p]
    /\ crashes' = crashes + 1
    /\ expiring' = [expiring EXCEPT ![p] = FALSE]
    /\ UNCHANGED <<redis, pc, iter, acquired, timer, held, overran>>

\* The steps the callbacks of an object and redis take on their own.
Progress(p) ==
    \/ SetNx(p) \/ Won(p) \/ Lost(p) \/ Expire(p)
    \/ Del(p) \/ Deleted(p) \/ Missed(p) \/ LocalTimeout(p)

Next ==
    \/ Tick
    \/ \E p \in Procs :
          \/ Acquire(p) \/ SetNx(p) \/ Won(p) \/ Lost(p) \/ Expire(p)
          \/ Release(p) \/ ReleaseRefused(p) \/ Del(p) \/ Deleted(p) \/ Missed(p)
          \/ LocalTimeout(p) \/ Crash(p) \/ CommandFails(p) \/ ExpireFails(p)

Spec == Init /\ [][Next]_vars

\* The event loop and redis make progress and time passes.  Nothing makes a
\* caller take the lock, and nothing makes it leave its section.
Fairness ==
    /\ WF_vars(Tick)
    /\ \A p \in Procs : WF_vars(Progress(p)) /\ WF_vars(Expire(p))

FairSpec == Spec /\ Fairness

----------------------------------------------------------------------------
(* Properties. *)

\* HoldBound is short enough: less than the shortest lockTimeout in use on the
\* key.  (A late EXPIRE of one object may replace the life another one asked
\* for, so its own lockTimeout is not enough.)
SectionsFitTimeout == \A p \in Procs : HoldBound < LockTimeout[p]

\* From its SETNX to its DEL the key belongs to the object that set it: it has
\* not expired, and no DEL or SETNX of another object has touched it, as long
\* as no caller has kept a key too long.
HolderOwnsKey == ~overran => \A p \in Procs : Holding(p) => owner = p

\* At most one object is between acquire and release (lock.js acquire, release),
\* also when EXPIREs are late and processes die, until a caller overruns.
MutualExclusion == ~overran => \A p, q \in Procs : pc[p] = "cs" /\ pc[q] = "cs" => p = q

\* The key outlives the section: it has no TTL yet, or time spent plus time
\* left covers one of the timeouts.
KeyOutlives(h) ==
    \/ ttl = NoTime
    \/ ttl > 0 /\ \E q \in Procs : h + ttl >= LockTimeout[q]

HeldCounts == \A p \in Procs : held[p] <= HoldBound /\ (~Holding(p) => held[p] = 0)

KeyLife ==
    /\ HeldCounts
    /\ ~overran => \A p \in Procs : Holding(p) => KeyOutlives(held[p])

\* An object that believes it is acquired has a timer that will make it forget
\* that, or is reading the answer of its DEL: no Lock object is stuck in
\* "already aquired" for ever.
AcquiredObjectHasTimer == \A p \in Procs : acquired[p] => timer[p] # NoTime

\* Every call of acquire ends, with the lock or without it.
AcquireReturns == \A p \in Procs : pc[p] = "setnx" ~> pc[p] \in {"cs", "idle"}

\* The lock as its callers see it: who is between acquire and release.
Inside == IF overran THEN {} ELSE {p \in Procs : pc[p] = "cs"}
M == INSTANCE Mutex WITH inside <- Inside

\* lock.js implements a mutex until a caller overruns: nobody enters while
\* another is inside.
MutexSpec == M!Spec
=============================================================================

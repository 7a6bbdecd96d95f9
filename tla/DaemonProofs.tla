---------------------------- MODULE DaemonProofs ------------------------------
(***************************************************************************)
(* Proofs about Daemon, for any number of masters and daemons: there is    *)
(* one daemon at a time, whatever stops, crashes or is late, and with one  *)
(* fault at most every step is a step of DaemonLife.                       *)
(***************************************************************************)
EXTENDS Daemon, FiniteSetTheorems, TLAPS

-----------------------------------------------------------------------------
(* What a step of one daemon does to the sets of daemons. *)

LEMMA OneMoves ==
    ASSUME TypeOK, NEW d \in Daemons, NEW s \in Steps, daemon' = [daemon EXCEPT ![d] = s]
    PROVE  /\ daemon' \in [Daemons -> Steps]
           /\ daemon'[d] = s /\ \A e \in Daemons \ {d} : daemon'[e] = daemon[e]
           /\ Active' \subseteq Active \cup {d} /\ Active \ {d} \subseteq Active'
           /\ Leaving' \subseteq Leaving \cup {d} /\ Leaving \ {d} \subseteq Leaving'
<1>1. daemon \in [Daemons -> Steps]
  BY DEF TypeOK
<1>2. /\ daemon' \in [Daemons -> Steps]
      /\ daemon'[d] = s /\ \A e \in Daemons \ {d} : daemon'[e] = daemon[e]
  BY <1>1
<1> QED
  BY <1>2 DEF Active, Leaving

LEMMA OneGone ==
    ASSUME TypeOK, NEW d \in Daemons, Gone(d)
    PROVE  /\ daemon' \in [Daemons -> Steps]
           /\ daemon'[d] = "none" /\ \A e \in Daemons \ {d} : daemon'[e] = daemon[e]
           /\ Active' = Active \ {d} /\ Leaving' = Leaving \ {d}
           /\ job' \subseteq Daemons
<1>1. "none" \in Steps /\ daemon' = [daemon EXCEPT ![d] = "none"]
  BY DEF Gone, Steps
<1>2. /\ daemon' \in [Daemons -> Steps]
      /\ daemon'[d] = "none" /\ \A e \in Daemons \ {d} : daemon'[e] = daemon[e]
      /\ Active' \subseteq Active \cup {d} /\ Active \ {d} \subseteq Active'
      /\ Leaving' \subseteq Leaving \cup {d} /\ Leaving \ {d} \subseteq Leaving'
  BY <1>1, OneMoves
<1>3. d \notin Active' /\ d \notin Leaving'
  BY <1>2 DEF Active, Leaving, Pinging
<1>4. job' \subseteq Daemons
  BY DEF Gone, TypeOK
<1> QED
  BY <1>2, <1>3, <1>4

\* What the handles of the masters are after a step of one of them.
LEMMA OneMaster ==
    ASSUME TypeOK, NEW m \in Masters,
           NEW r \in [at : {"idle", "check", "wait"}, child : Daemons \cup {None},
                      spawned : Daemons \cup {None}, exit : BOOLEAN],
           master' = [master EXCEPT ![m] = r]
    PROVE  /\ master' \in [Masters -> [at : {"idle", "check", "wait"}, child : Daemons \cup {None},
                                       spawned : Daemons \cup {None}, exit : BOOLEAN]]
           /\ master'[m] = r /\ \A n \in Masters \ {m} : master'[n] = master[n]
BY DEF TypeOK

-----------------------------------------------------------------------------
(* One daemon at a time. *)

LEMMA ElectionStarts == Init => ElectionInv
<1> SUFFICES ASSUME Init PROVE ElectionInv
  OBVIOUS
<1>1. Active = {}
  BY DEF Init, Active, Pinging
<1>2. TypeOK
  <2>1. \A m \in Masters : master[m].at = "idle" /\ lock # m
    BY DaemonAssumption DEF Init
  <2>2. master \in [Masters -> [at : {"idle", "check", "wait"}, child : Daemons \cup {None},
                                spawned : Daemons \cup {None}, exit : BOOLEAN]]
    BY DEF Init
  <2>3. faults \in 0..MaxFaults /\ jobs \in 0..MaxJobs /\ daemon \in [Daemons -> Steps]
    BY DaemonAssumption DEF Init, Steps
  <2> QED
    BY <2>1, <2>2, <2>3 DEF Init, TypeOK
<1>3. ActiveHasKey
  BY <1>1 DEF ActiveHasKey, Init
<1> QED
  BY <1>2, <1>3 DEF ElectionInv

\* Without a new daemon, a key that stays is enough.
LEMMA FewerActive ==
    ASSUME ActiveHasKey, Active' \subseteq Active, key' = key,
           \A d \in Daemons : daemon'[d] = "set" => daemon[d] = "set"
    PROVE  ActiveHasKey'
BY DEF ActiveHasKey

LEMMA MasterStepKeeps ==
    ASSUME ElectionInv, NEW m \in Masters, MasterStep(m)
    PROVE  ElectionInv'
<1> USE DaemonAssumption
<1> DEFINE Handle == [at : {"idle", "check", "wait"}, child : Daemons \cup {None},
                      spawned : Daemons \cup {None}, exit : BOOLEAN]
<1>0. TypeOK /\ ActiveHasKey /\ master \in [Masters -> Handle] /\ master[m] \in Handle
  BY DEF ElectionInv, TypeOK
<1>1. CASE Acquire(m)
  <2>1. [master[m] EXCEPT !.at = "check"] \in Handle
        /\ [master[m] EXCEPT !.at = "check"].at = "check"
    BY <1>0
  <2>2. master' \in [Masters -> Handle] /\ master'[m].at = "check"
        /\ \A n \in Masters \ {m} : master'[n] = master[n]
    BY <1>0, <1>1, <2>1, OneMaster DEF Acquire
  <2>3. TypeOK'
    BY <1>0, <1>1, <2>2 DEF Acquire, TypeOK, counters
  <2>4. ActiveHasKey'
    BY <1>0, <1>1 DEF Acquire, ActiveHasKey, Active
  <2> QED
    BY <2>3, <2>4 DEF ElectionInv
<1>2. CASE CheckRunning(m)
  <2>1. CASE key # "absent"
    <3>1. master' = [master EXCEPT ![m] = [master[m] EXCEPT !.at = "wait"]] /\ UNCHANGED daemon
      BY <1>2, <2>1 DEF CheckRunning
    <3>2. [master[m] EXCEPT !.at = "wait"] \in Handle /\ [master[m] EXCEPT !.at = "wait"].at = "wait"
      BY <1>0
    <3>3. master' \in [Masters -> Handle] /\ master'[m].at = "wait"
          /\ \A n \in Masters \ {m} : master'[n] = master[n]
      BY <1>0, <3>1, <3>2, OneMaster
    <3>4. TypeOK'
      BY <1>0, <1>2, <3>1, <3>3 DEF CheckRunning, TypeOK, counters
    <3>5. ActiveHasKey'
      BY <1>0, <1>2, <3>1 DEF CheckRunning, ActiveHasKey, Active
    <3> QED
      BY <3>4, <3>5 DEF ElectionInv
  <2>2. CASE key = "absent"
    <3>1. PICK d \in Daemons : /\ daemon' = [daemon EXCEPT ![d] = "spawned"]
                               /\ master' = [master EXCEPT ![m].at = "wait", ![m].spawned = d]
                               /\ daemon[d] = "none"
      BY <1>2, <2>2 DEF CheckRunning, Free
    <3> DEFINE r == [master[m] EXCEPT !.at = "wait", !.spawned = d]
    <3>2. master' = [master EXCEPT ![m] = r] /\ r \in Handle /\ r.at = "wait"
      BY <1>0, <3>1
    <3>3. master' \in [Masters -> Handle] /\ master'[m].at = "wait"
          /\ \A n \in Masters \ {m} : master'[n] = master[n]
      BY <1>0, <3>2, OneMaster
    <3>4. /\ daemon' \in [Daemons -> Steps] /\ daemon'[d] = "spawned"
          /\ Active' \subseteq Active \cup {d} /\ \A e \in Daemons \ {d} : daemon'[e] = daemon[e]
      BY <1>0, <3>1, OneMoves DEF Steps
    <3>5. TypeOK'
      BY <1>0, <1>2, <3>3, <3>4 DEF CheckRunning, TypeOK, counters
    <3>6. Active' \subseteq Active
      BY <3>4 DEF Active, Pinging
    <3>7. ActiveHasKey'
      BY <1>0, <1>2, <3>4, <3>6, FewerActive DEF CheckRunning
    <3> QED
      BY <3>5, <3>7 DEF ElectionInv
  <2> QED
    BY <2>1, <2>2
<1>3. CASE WaitEnds(m)
  <2> DEFINE new == master[m].spawned
             old == master[m].child
             r == IF new # None THEN [master[m] EXCEPT !.at = "idle", !.spawned = None, !.child = new]
                                ELSE [master[m] EXCEPT !.at = "idle"]
  <2>1. master' = [master EXCEPT ![m] = r] /\ r \in Handle /\ r.at = "idle"
    BY <1>0, <1>3 DEF WaitEnds
  <2>2. master' \in [Masters -> Handle] /\ master'[m].at = "idle"
        /\ \A n \in Masters \ {m} : master'[n] = master[n]
    BY <1>0, <2>1, OneMaster
  <2>3. UNCHANGED <<daemon, job>> \/ (old \in Daemons /\ Gone(old))
    BY <1>0, <1>3 DEF WaitEnds
  <2>4. /\ daemon' \in [Daemons -> Steps] /\ job' \subseteq Daemons /\ Active' \subseteq Active
        /\ \A d \in Daemons : daemon'[d] = "set" => daemon[d] = "set"
    <3>1. CASE UNCHANGED <<daemon, job>>
      BY <1>0, <3>1 DEF TypeOK, Active
    <3>2. CASE old \in Daemons /\ Gone(old)
      BY <1>0, <3>2, OneGone
    <3> QED
      BY <2>3, <3>1, <3>2
  <2>5. lock = m /\ lock' = None /\ UNCHANGED <<key, exiting, faults, jobs>>
    BY <1>0, <1>3 DEF WaitEnds, TypeOK, counters
  <2>6. TypeOK'
    BY <1>0, <2>2, <2>4, <2>5 DEF TypeOK
  <2>7. ActiveHasKey'
    BY <1>0, <2>4, <2>5, FewerActive
  <2> QED
    BY <2>6, <2>7 DEF ElectionInv
<1>4. CASE WaitFails(m)
  <2> DEFINE r == [master[m] EXCEPT !.at = "idle", !.spawned = None]
  <2>1. master' = [master EXCEPT ![m] = r] /\ r \in Handle /\ r.at = "idle"
    BY <1>0, <1>4 DEF WaitFails
  <2>2. master' \in [Masters -> Handle] /\ master'[m].at = "idle"
        /\ \A n \in Masters \ {m} : master'[n] = master[n]
    BY <1>0, <2>1, OneMaster
  <2>3. lock = m /\ lock' = None /\ UNCHANGED <<key, exiting, daemon, job, faults, jobs>>
    BY <1>0, <1>4 DEF WaitFails, TypeOK, counters
  <2>4. TypeOK'
    BY <1>0, <2>2, <2>3 DEF TypeOK
  <2>5. ActiveHasKey'
    BY <1>0, <2>3 DEF ActiveHasKey, Active
  <2> QED
    BY <2>4, <2>5 DEF ElectionInv
<1> QED
  BY <1>1, <1>2, <1>3, <1>4 DEF MasterStep

LEMMA SetNxKeeps ==
    ASSUME ElectionInv, NEW d \in Daemons, SetNx(d)
    PROVE  ElectionInv'
<1>0. TypeOK /\ ActiveHasKey /\ UNCHANGED <<exiting, lock, master, faults, jobs>>
  BY DEF ElectionInv, SetNx, counters
<1>1. CASE key = "absent" /\ key' = "set" /\ daemon' = [daemon EXCEPT ![d] = "set"] /\ UNCHANGED job
  <2>1. /\ daemon' \in [Daemons -> Steps] /\ daemon'[d] = "set"
        /\ Active' \subseteq Active \cup {d}
    BY <1>0, <1>1, OneMoves DEF Steps
  <2>2. Active = {}
    BY <1>0, <1>1 DEF ActiveHasKey
  <2>3. TypeOK'
    BY <1>0, <1>1, <2>1 DEF TypeOK
  <2>4. ActiveHasKey'
    BY <1>1, <2>1, <2>2 DEF ActiveHasKey
  <2> QED
    BY <2>3, <2>4 DEF ElectionInv
<1>2. CASE Gone(d) /\ UNCHANGED key
  <2>1. /\ daemon' \in [Daemons -> Steps] /\ job' \subseteq Daemons /\ Active' \subseteq Active
        /\ \A e \in Daemons : daemon'[e] = "set" => daemon[e] = "set"
    BY <1>0, <1>2, OneGone
  <2>2. TypeOK'
    BY <1>0, <1>2, <2>1 DEF TypeOK
  <2>3. ActiveHasKey'
    BY <1>0, <1>2, <2>1, FewerActive
  <2> QED
    BY <2>2, <2>3 DEF ElectionInv
<1> QED
  BY <1>1, <1>2 DEF SetNx

\* A daemon that is active goes to another active step.
LEMMA StepKeeps ==
    ASSUME ElectionInv, NEW d \in Active, NEW s \in Pinging \cup {"ping"},
           daemon' = [daemon EXCEPT ![d] = s], key' \in {key, "ttl"},
           exiting' \in BOOLEAN, job' = job, UNCHANGED <<lock, jobs>>,
           faults' \in 0..MaxFaults,
           master' \in [Masters -> [at : {"idle", "check", "wait"}, child : Daemons \cup {None},
                                    spawned : Daemons \cup {None}, exit : BOOLEAN]],
           \A m \in Masters : master'[m].at = master[m].at
    PROVE  ElectionInv'
<1>0. TypeOK /\ ActiveHasKey /\ d \in Daemons /\ s \in Steps /\ key # "absent"
  BY DEF ElectionInv, ActiveHasKey, Active, Steps
<1>1. /\ daemon' \in [Daemons -> Steps] /\ daemon'[d] = s
      /\ Active' \subseteq Active \cup {d} /\ \A e \in Daemons \ {d} : daemon'[e] = daemon[e]
  BY <1>0, OneMoves
<1>2. TypeOK'
  BY <1>0, <1>1 DEF TypeOK
<1>3. \A e \in Daemons : daemon'[e] # "set"
  <2>1. s # "set"
    BY DEF Pinging
  <2>2. \A e \in Daemons : daemon[e] = "set" => e \in Active
    BY DEF Active
  <2> QED
    BY <1>0, <1>1, <2>1, <2>2 DEF ActiveHasKey
<1>4. ActiveHasKey'
  BY <1>0, <1>1, <1>3 DEF ActiveHasKey
<1> QED
  BY <1>2, <1>4 DEF ElectionInv

\* A daemon ends, and takes the keys with it or not.
LEMMA EndKeeps ==
    ASSUME ElectionInv, NEW d \in Daemons, Gone(d),
           \/ UNCHANGED <<key, exiting>>
           \/ d \in Active /\ DeleteKeys,
           UNCHANGED <<lock, jobs>>, faults' \in 0..MaxFaults,
           master' \in [Masters -> [at : {"idle", "check", "wait"}, child : Daemons \cup {None},
                                    spawned : Daemons \cup {None}, exit : BOOLEAN]],
           \A m \in Masters : master'[m].at = master[m].at
    PROVE  ElectionInv'
<1>0. TypeOK /\ ActiveHasKey
  BY DEF ElectionInv
<1>1. /\ daemon' \in [Daemons -> Steps] /\ job' \subseteq Daemons /\ Active' = Active \ {d}
      /\ daemon'[d] = "none" /\ \A e \in Daemons \ {d} : daemon'[e] = daemon[e]
  BY <1>0, OneGone
<1>2. key' \in {"absent", "set", "ttl"} /\ exiting' \in BOOLEAN
  BY <1>0 DEF TypeOK, DeleteKeys
<1>3. TypeOK'
  BY <1>0, <1>1, <1>2 DEF TypeOK
<1>4. CASE UNCHANGED <<key, exiting>>
  BY <1>0, <1>1, <1>3, <1>4, FewerActive DEF ElectionInv
<1>5. CASE d \in Active /\ DeleteKeys
  <2>1. Active' = {}
    BY <1>0, <1>1, <1>5 DEF ActiveHasKey
  <2>2. \A e \in Daemons : daemon'[e] # "set"
    BY <2>1 DEF Active
  <2>3. ActiveHasKey'
    BY <2>1, <2>2 DEF ActiveHasKey
  <2> QED
    BY <1>3, <2>3 DEF ElectionInv
<1> QED
  BY <1>4, <1>5

LEMMA FaultsCount ==
    ASSUME TypeOK, faults < MaxFaults
    PROVE  faults + 1 \in 0..MaxFaults
BY DaemonAssumption DEF TypeOK

LEMMA DaemonStepKeeps ==
    ASSUME ElectionInv, NEW d \in Daemons, DaemonStep(d)
    PROVE  ElectionInv'
<1>0. TypeOK
  BY DEF ElectionInv
<1>1. CASE SetNx(d)
  BY <1>1, SetNxKeeps
<1>2. CASE SetExpire(d)
  <2>1. d \in Active /\ "run" \in Pinging
    BY <1>2 DEF SetExpire, Active, Pinging
  <2>2. key' \in {key, "ttl"}
    BY <1>2 DEF SetExpire
  <2> QED
    BY <1>0, <1>2, <2>1, <2>2, StepKeeps DEF SetExpire, TypeOK, counters
<1>3. CASE StopScheduler(d)
  <2>1. d \in Active
    BY <1>3 DEF StopScheduler, Active, Pinging
  <2>2. PICK s \in Pinging : daemon' = [daemon EXCEPT ![d] = s]
    BY <1>3 DEF StopScheduler, Pinging
  <2> QED
    BY <1>0, <1>3, <2>1, <2>2, StepKeeps DEF StopScheduler, TypeOK, counters
<1>4. CASE StopServices(d)
  <2>1. d \in Active
    BY <1>4 DEF StopServices, Active, Pinging
  <2> QED
    BY <1>0, <1>4, <2>1, StepKeeps DEF StopServices, TypeOK, counters
<1>5. CASE StopDaemon(d)
  <2>1. d \in Active
    BY <1>5 DEF StopDaemon, Active
  <2> QED
    BY <1>0, <1>5, <2>1, EndKeeps DEF StopDaemon, TypeOK, counters
<1> QED
  BY <1>1, <1>2, <1>3, <1>4, <1>5 DEF DaemonStep

\* SIGINT, of the daemon alone or with its master.
LEMMA SigintKeeps ==
    ASSUME ElectionInv, NEW d \in Daemons, Sigint(d), faults' \in 0..MaxFaults,
           UNCHANGED <<key, lock, jobs>>,
           master' \in [Masters -> [at : {"idle", "check", "wait"}, child : Daemons \cup {None},
                                    spawned : Daemons \cup {None}, exit : BOOLEAN]],
           \A m \in Masters : master'[m].at = master[m].at
    PROVE  ElectionInv'
<1>1. CASE daemon[d] = "run" /\ daemon' = [daemon EXCEPT ![d] = "exiting"] /\ exiting' = TRUE
           /\ UNCHANGED job
  <2>1. d \in Active /\ "exiting" \in Pinging
    BY <1>1 DEF Active, Pinging
  <2> QED
    BY <1>1, <2>1, StepKeeps
<1>2. CASE Gone(d) /\ UNCHANGED exiting
  BY <1>2, EndKeeps
<1> QED
  BY <1>1, <1>2 DEF Sigint

LEMMA DaemonEventKeeps ==
    ASSUME ElectionInv, NEW d \in Daemons, DaemonEvent(d)
    PROVE  ElectionInv'
<1>0. TypeOK /\ ActiveHasKey
  BY DEF ElectionInv
<1>1. CASE JobStarts(d)
  <2>1. jobs + 1 \in 0..MaxJobs
    BY <1>0, <1>1, DaemonAssumption DEF JobStarts, TypeOK
  <2>2. TypeOK'
    BY <1>0, <1>1, <2>1 DEF JobStarts, TypeOK
  <2>3. ActiveHasKey'
    BY <1>0, <1>1 DEF JobStarts, ActiveHasKey, Active
  <2> QED
    BY <2>2, <2>3 DEF ElectionInv
<1>2. CASE JobEnds(d)
  BY <1>0, <1>2 DEF ElectionInv, JobEnds, TypeOK, ActiveHasKey, Active, counters
<1>3. CASE Interrupt(d)
  <2>1. faults' \in 0..MaxFaults
    BY <1>0, <1>3, FaultsCount DEF Interrupt
  <2> QED
    BY <1>0, <1>3, <2>1, SigintKeeps DEF Interrupt, TypeOK
<1>4. CASE Exception(d)
  <2>1. faults' \in 0..MaxFaults
    BY <1>0, <1>4, FaultsCount DEF Exception
  <2>2. d \in Active
    BY <1>4 DEF Exception, Active
  <2> QED
    BY <1>0, <1>4, <2>1, <2>2, EndKeeps DEF Exception, TypeOK
<1>5. CASE Crash(d)
  <2>1. faults' \in 0..MaxFaults
    BY <1>0, <1>5, FaultsCount DEF Crash
  <2> QED
    BY <1>0, <1>5, <2>1, EndKeeps DEF Crash, TypeOK
<1> QED
  BY <1>1, <1>2, <1>3, <1>4, <1>5 DEF DaemonEvent

LEMMA InterruptMasterKeeps ==
    ASSUME ElectionInv, NEW m \in Masters, InterruptMaster(m)
    PROVE  ElectionInv'
<1> DEFINE Handle == [at : {"idle", "check", "wait"}, child : Daemons \cup {None},
                      spawned : Daemons \cup {None}, exit : BOOLEAN]
           r == [master[m] EXCEPT !.exit = TRUE]
<1>0. TypeOK /\ ActiveHasKey /\ master[m] \in Handle /\ faults' \in 0..MaxFaults
  BY FaultsCount DEF ElectionInv, InterruptMaster, TypeOK
<1>1. master' = [master EXCEPT ![m] = r] /\ r \in Handle /\ r.at = master[m].at
  BY <1>0 DEF InterruptMaster
<1>2. master' \in [Masters -> Handle] /\ \A n \in Masters : master'[n].at = master[n].at
  BY <1>0, <1>1, OneMaster
<1>3. UNCHANGED <<key, lock, jobs>>
  BY DEF InterruptMaster
<1>4. CASE master[m].child \in Daemons /\ Sigint(master[m].child)
  BY <1>0, <1>2, <1>3, <1>4, SigintKeeps
<1>5. CASE UNCHANGED <<daemon, exiting, job>>
  BY <1>0, <1>2, <1>3, <1>5 DEF ElectionInv, TypeOK, ActiveHasKey, Active
<1> QED
  BY <1>4, <1>5 DEF InterruptMaster

LEMMA KeyExpiresKeeps ==
    ASSUME ElectionInv, KeyExpires
    PROVE  ElectionInv'
<1>0. TypeOK /\ ActiveHasKey
  BY DEF ElectionInv
<1>1. Active = {}
  BY <1>0 DEF KeyExpires, ActiveHasKey, Active
<1>2. ActiveHasKey'
  BY <1>1 DEF KeyExpires, ActiveHasKey, Active
<1>3. TypeOK'
  BY <1>0 DEF KeyExpires, TypeOK, counters
<1> QED
  BY <1>2, <1>3 DEF ElectionInv

LEMMA ElectionHolds == Spec => []ElectionInv
<1>1. ElectionInv /\ [Next]_vars => ElectionInv'
  <2> SUFFICES ASSUME ElectionInv, [Next]_vars PROVE ElectionInv'
    OBVIOUS
  <2>1. ASSUME NEW m \in Masters, MasterStep(m) PROVE ElectionInv'
    BY <2>1, MasterStepKeeps
  <2>2. ASSUME NEW m \in Masters, InterruptMaster(m) PROVE ElectionInv'
    BY <2>2, InterruptMasterKeeps
  <2>3. ASSUME NEW d \in Daemons, DaemonStep(d) PROVE ElectionInv'
    BY <2>3, DaemonStepKeeps
  <2>4. ASSUME NEW d \in Daemons, DaemonEvent(d) PROVE ElectionInv'
    BY <2>4, DaemonEventKeeps
  <2>5. CASE KeyExpires
    BY <2>5, KeyExpiresKeeps
  <2>6. CASE UNCHANGED vars
    BY <2>6 DEF vars, counters, ElectionInv, TypeOK, ActiveHasKey, Active
  <2> QED
    BY <2>1, <2>2, <2>3, <2>4, <2>5, <2>6 DEF Next
<1> QED
  BY <1>1, ElectionStarts, PTL DEF Spec

LEMMA OneIsOne ==
    ASSUME ActiveHasKey
    PROVE  OneDaemon
<1>1. CASE Active = {}
  BY <1>1, FS_EmptySet DEF OneDaemon
<1>2. CASE Active # {}
  <2>1. PICK d : d \in Active
    BY <1>2
  <2>2. Active = {d}
    BY <2>1 DEF ActiveHasKey
  <2>3. Cardinality({d}) = 1
    BY FS_Singleton
  <2> QED
    BY <2>2, <2>3 DEF OneDaemon
<1> QED
  BY <1>1, <1>2

\* There is one daemon at a time: of the processes that masters start against
\* each other one gets past initDaemon, and it is gone before the next one does,
\* after any number of crashes, exceptions and interrupts at any step and for any
\* delay of a daemon that starts (daemonTools.js, initDaemon and stopDaemon).
THEOREM OneDaemonAtATime == Spec => []OneDaemon
<1>1. ElectionInv => OneDaemon
  BY OneIsOne DEF ElectionInv
<1> QED
  BY <1>1, ElectionHolds, PTL

-----------------------------------------------------------------------------
(* The exit.  The hypothesis is about the world and not about the code:    *)
(* with a second fault a master kills the daemon that exits, and           *)
(* DaemonExiting stays.                                                    *)

OneFault == MaxFaults <= 1

LEMMA ExitStarts == Init => ExitInv
<1> SUFFICES ASSUME Init PROVE ExitInv
  OBVIOUS
<1>1. ElectionInv /\ Leaving = {}
  BY ElectionStarts DEF Init, Leaving
<1> QED
  BY <1>1 DEF Init, ExitInv, BeforeFault, NothingToKill, ExitFlagIsTrue

LEMMA LeavingIsActive ==
    ASSUME ElectionInv
    PROVE  /\ Leaving \subseteq Active
           /\ ExitFlagIsTrue <=> (exiting => Leaving # {})
           /\ key = "absent" => Active = {} /\ Leaving = {}
BY DEF Leaving, Active, Pinging, ExitFlagIsTrue, ElectionInv, ActiveHasKey

LEMMA FlagNext == ASSUME exiting' => Leaving' # {} PROVE ExitFlagIsTrue'
BY DEF Leaving, ExitFlagIsTrue

\* The part of ExitInv that its steps have to show besides ElectionInv.
ExitPart == BeforeFault /\ NothingToKill /\ ExitFlagIsTrue

\* Steps of no daemon.
LEMMA HandlesKeep ==
    ASSUME ExitInv, UNCHANGED <<key, exiting, daemon, faults>>,
           \A m \in Masters : /\ master'[m].child = master[m].child
                              /\ master'[m].spawned # None => master'[m].spawned = master[m].spawned
    PROVE  ExitPart'
BY DEF ExitInv, ExitPart, BeforeFault, NothingToKill, ExitFlagIsTrue, Leaving, Active

LEMMA MasterStepExits ==
    ASSUME ExitInv, NEW m \in Masters, MasterStep(m)
    PROVE  ExitPart'
<1>0. /\ TypeOK /\ ElectionInv /\ BeforeFault /\ NothingToKill /\ (exiting => Leaving # {})
      /\ master \in [Masters -> [at : {"idle", "check", "wait"}, child : Daemons \cup {None},
                                 spawned : Daemons \cup {None}, exit : BOOLEAN]]
  BY LeavingIsActive DEF ExitInv, ElectionInv, TypeOK
<1>1. CASE Acquire(m)
  BY <1>0, <1>1, HandlesKeep DEF Acquire, counters
<1>2. CASE CheckRunning(m)
  <2>1. CASE key # "absent"
    BY <1>0, <1>2, <2>1, HandlesKeep DEF CheckRunning, counters
  <2>2. CASE key = "absent"
    <3>1. PICK d \in Daemons : /\ daemon' = [daemon EXCEPT ![d] = "spawned"]
                               /\ master' = [master EXCEPT ![m].at = "wait", ![m].spawned = d]
      BY <1>2, <2>2 DEF CheckRunning, Free
    <3>2. \A n \in Masters : master'[n].child = master[n].child
      BY <1>0, <3>1
    <3>3. daemon'[d] = "spawned" /\ Leaving' \subseteq Leaving \cup {d}
      BY <1>0, <3>1, OneMoves DEF Steps
    <3>4. Leaving = {} /\ Leaving' = {} /\ ~exiting
      BY <1>0, <2>2, <3>3, LeavingIsActive DEF Leaving
    <3>5. UNCHANGED <<key, exiting, faults>>
      BY <1>2 DEF CheckRunning, counters
    <3>6. BeforeFault'
      BY <1>0, <2>2, <3>2, <3>4, <3>5 DEF BeforeFault
    <3>7. NothingToKill'
      BY <1>0, <2>2, <3>2, <3>4, <3>5 DEF NothingToKill, BeforeFault
    <3> QED
      BY <3>4, <3>5, <3>6, <3>7, FlagNext DEF ExitPart
  <2> QED
    BY <2>1, <2>2
<1>3. CASE WaitEnds(m)
  <2>1. UNCHANGED <<key, exiting, faults>> /\ key # "absent"
    BY <1>3 DEF WaitEnds, counters
  <2>2. CASE master[m].spawned # None /\ master[m].child # None
    <3>1. Gone(master[m].child) /\ master[m].child \in Daemons
      BY <1>0, <1>3, <2>2 DEF WaitEnds
    <3>2. faults # 0 /\ Leaving = {}
      BY <1>0, <2>2 DEF NothingToKill
    <3>3. Leaving' = {} /\ ~exiting
      BY <1>0, <3>1, <3>2, OneGone
    <3> QED
      BY <2>1, <3>2, <3>3, FlagNext DEF ExitPart, BeforeFault, NothingToKill
  <2>3. CASE master[m].spawned # None /\ master[m].child = None
    <3>1. /\ UNCHANGED daemon /\ master'[m].spawned = None
          /\ \A n \in Masters \ {m} : master'[n] = master[n]
      BY <1>0, <1>3, <2>3 DEF WaitEnds
    <3>2. Active' = Active /\ Leaving' = Leaving
      BY <3>1 DEF Active, Leaving
    <3>3. BeforeFault'
      BY <1>0, <2>1, <3>2 DEF BeforeFault
    <3>4. NothingToKill'
      BY <1>0, <2>1, <3>1, <3>2 DEF NothingToKill
    <3> QED
      BY <1>0, <2>1, <3>2, <3>3, <3>4, FlagNext DEF ExitPart
  <2>4. CASE master[m].spawned = None
    BY <1>0, <1>3, <2>1, <2>4, HandlesKeep DEF WaitEnds
  <2> QED
    BY <2>2, <2>3, <2>4
<1>4. CASE WaitFails(m)
  BY <1>0, <1>4, HandlesKeep DEF WaitFails, counters
<1> QED
  BY <1>1, <1>2, <1>3, <1>4 DEF MasterStep

LEMMA DaemonStepExits ==
    ASSUME ExitInv, NEW d \in Daemons, DaemonStep(d)
    PROVE  ExitPart'
<1>0. /\ TypeOK /\ ElectionInv /\ BeforeFault /\ NothingToKill /\ (exiting => Leaving # {})
      /\ UNCHANGED <<master, faults>>
  BY LeavingIsActive DEF ExitInv, ElectionInv, DaemonStep, SetNx, SetExpire, StopScheduler,
     StopServices, StopDaemon, counters
<1>1. CASE SetNx(d)
  <2>1. CASE key = "absent" /\ key' = "set" /\ daemon' = [daemon EXCEPT ![d] = "set"]
    <3>1. Leaving = {} /\ ~exiting /\ exiting' = exiting
      BY <1>0, <1>1, <2>1, LeavingIsActive DEF SetNx
    <3>2. daemon'[d] = "set" /\ Leaving' \subseteq Leaving \cup {d}
      BY <1>0, <2>1, OneMoves DEF Steps
    <3>3. Leaving' = {} /\ d \in Active'
      BY <3>1, <3>2 DEF Leaving, Active
    <3> QED
      BY <1>0, <2>1, <3>1, <3>3, FlagNext DEF ExitPart, BeforeFault, NothingToKill
  <2>2. CASE key # "absent" /\ Gone(d) /\ UNCHANGED key
    <3>1. d \notin Active /\ d \notin Leaving
      BY <1>1 DEF SetNx, Active, Pinging, Leaving
    <3>2. Active' = Active /\ Leaving' = Leaving /\ exiting' = exiting
      BY <1>0, <1>1, <2>2, <3>1, OneGone DEF SetNx
    <3> QED
      BY <1>0, <2>2, <3>2, FlagNext DEF ExitPart, BeforeFault, NothingToKill
  <2> QED
    BY <1>1, <2>1, <2>2 DEF SetNx
<1>2. CASE SetExpire(d)
  <2>1. d \in Active /\ d \notin Leaving
    BY <1>2 DEF SetExpire, Active, Leaving
  <2>2. Leaving = {} /\ ~exiting /\ exiting' = exiting
    BY <1>0, <1>2, <2>1, LeavingIsActive DEF SetExpire, ElectionInv, ActiveHasKey
  <2>3. daemon'[d] = "run" /\ Leaving' \subseteq Leaving \cup {d}
    BY <1>0, <1>2, OneMoves DEF SetExpire, Steps, Pinging
  <2>4. Leaving' = {} /\ d \in Active'
    BY <2>2, <2>3 DEF Leaving, Active, Pinging
  <2>5. key # "absent" /\ key' # "absent"
    BY <1>0, <1>2, <2>1 DEF SetExpire, ElectionInv, ActiveHasKey
  <2> QED
    BY <1>0, <2>2, <2>4, <2>5, FlagNext DEF ExitPart, BeforeFault, NothingToKill
<1>3. CASE StopScheduler(d) \/ StopServices(d)
  <2>1. PICK s \in {"hung", "stopping", "ping"} : daemon' = [daemon EXCEPT ![d] = s]
    BY <1>3 DEF StopScheduler, StopServices
  <2>2. d \in Leaving
    BY <1>3 DEF StopScheduler, StopServices, Leaving
  <2>3. daemon'[d] = s
    BY <1>0, <2>1, OneMoves DEF Steps, Pinging
  <2>4. d \in Leaving'
    BY <2>3 DEF Leaving
  <2>5. faults # 0
    BY <1>0, <2>2 DEF BeforeFault
  <2> QED
    BY <1>0, <2>2, <2>4, <2>5, FlagNext DEF ExitPart, BeforeFault, NothingToKill
<1>4. CASE StopDaemon(d)
  <2>1. d \in Leaving
    BY <1>4 DEF StopDaemon, Leaving
  <2>2. Leaving = {d}
    BY <1>0, <2>1, LeavingIsActive DEF ElectionInv, ActiveHasKey
  <2>3. Leaving' = {} /\ ~exiting'
    BY <1>0, <1>4, <2>2, OneGone DEF StopDaemon, DeleteKeys
  <2>4. faults # 0
    BY <1>0, <2>1 DEF BeforeFault
  <2> QED
    BY <1>0, <2>3, <2>4, FlagNext DEF ExitPart, BeforeFault, NothingToKill
<1> QED
  BY <1>1, <1>2, <1>3, <1>4 DEF DaemonStep

\* The fault, of a daemon or of its master.
LEMMA FaultExits ==
    ASSUME ExitInv, OneFault, faults < MaxFaults, faults' = faults + 1,
           \A m \in Masters : /\ master'[m].child = master[m].child
                              /\ master'[m].spawned = master[m].spawned,
           \/ UNCHANGED <<daemon, exiting>>
           \/ \E d \in Daemons : Sigint(d)
           \/ \E d \in Daemons : Gone(d) /\ (UNCHANGED exiting \/ DeleteKeys)
    PROVE  ExitPart'
<1>1. TypeOK /\ ElectionInv /\ BeforeFault /\ NothingToKill
  BY DEF ExitInv, ElectionInv
<1>2. faults = 0 /\ faults' # 0
  BY <1>1, DaemonAssumption DEF OneFault, TypeOK
<1>3. ~exiting /\ Leaving = {}
  BY <1>1, <1>2 DEF BeforeFault
<1>4. BeforeFault' /\ NothingToKill'
  BY <1>1, <1>2 DEF BeforeFault, NothingToKill
<1>5. exiting' => Leaving' # {}
  <2>1. CASE UNCHANGED <<daemon, exiting>>
    BY <1>3, <2>1
  <2>2. CASE \E d \in Daemons : Gone(d) /\ (UNCHANGED exiting \/ DeleteKeys)
    BY <1>3, <2>2 DEF DeleteKeys
  <2>3. CASE \E d \in Daemons : Sigint(d)
    <3>1. PICK d \in Daemons : Sigint(d)
      BY <2>3
    <3>2. CASE daemon' = [daemon EXCEPT ![d] = "exiting"]
      <4>1. daemon'[d] = "exiting"
        BY <1>1, <3>2, OneMoves DEF Steps, Pinging
      <4> QED
        BY <4>1 DEF Leaving
    <3>3. CASE UNCHANGED exiting
      BY <1>3, <3>3
    <3> QED
      BY <3>1, <3>2, <3>3 DEF Sigint
  <2> QED
    BY <2>1, <2>2, <2>3
<1> QED
  BY <1>4, <1>5, FlagNext DEF ExitPart

LEMMA DaemonEventExits ==
    ASSUME ExitInv, OneFault, NEW d \in Daemons, DaemonEvent(d)
    PROVE  ExitPart'
<1>1. CASE JobStarts(d) \/ JobEnds(d)
  BY <1>1, HandlesKeep DEF JobStarts, JobEnds, counters
<1>2. CASE Interrupt(d)
  BY <1>2, FaultExits DEF Interrupt
<1>3. CASE Exception(d)
  BY <1>3, FaultExits DEF Exception
<1>4. CASE Crash(d)
  BY <1>4, FaultExits DEF Crash
<1> QED
  BY <1>1, <1>2, <1>3, <1>4 DEF DaemonEvent

LEMMA InterruptMasterExits ==
    ASSUME ExitInv, OneFault, NEW m \in Masters, InterruptMaster(m)
    PROVE  ExitPart'
<1>1. TypeOK
  BY DEF ExitInv, ElectionInv
<1>2. \A n \in Masters : master'[n].child = master[n].child /\ master'[n].spawned = master[n].spawned
  BY <1>1 DEF InterruptMaster, TypeOK
<1>3. UNCHANGED <<daemon, exiting>> \/ \E d \in Daemons : Sigint(d)
  BY DEF InterruptMaster
<1> QED
  BY <1>2, <1>3, FaultExits DEF InterruptMaster

LEMMA KeyExpiresExits ==
    ASSUME ExitInv, KeyExpires
    PROVE  ExitPart'
<1>1. ElectionInv /\ BeforeFault /\ (exiting => Leaving # {})
  BY LeavingIsActive DEF ExitInv
<1>2. Active = {} /\ key # "absent" /\ UNCHANGED <<exiting, daemon, faults>>
  BY <1>1 DEF KeyExpires, ElectionInv, ActiveHasKey, Active, counters
<1>3. Leaving = {} /\ Leaving' = {}
  BY <1>1, <1>2, LeavingIsActive DEF Leaving
<1>4. faults' # 0
  BY <1>1, <1>2 DEF BeforeFault
<1> QED
  BY <1>1, <1>2, <1>3, <1>4, FlagNext DEF ExitPart, BeforeFault, NothingToKill

LEMMA ExitStep ==
    ASSUME ExitInv, OneFault, [Next]_vars
    PROVE  ExitInv'
<1>0. ElectionInv
  BY DEF ExitInv
<1>1. ASSUME NEW m \in Masters, MasterStep(m) PROVE ExitInv'
  BY <1>0, <1>1, MasterStepKeeps, MasterStepExits DEF ExitInv, ExitPart
<1>2. ASSUME NEW m \in Masters, InterruptMaster(m) PROVE ExitInv'
  BY <1>0, <1>2, InterruptMasterKeeps, InterruptMasterExits DEF ExitInv, ExitPart
<1>3. ASSUME NEW d \in Daemons, DaemonStep(d) PROVE ExitInv'
  BY <1>0, <1>3, DaemonStepKeeps, DaemonStepExits DEF ExitInv, ExitPart
<1>4. ASSUME NEW d \in Daemons, DaemonEvent(d) PROVE ExitInv'
  BY <1>0, <1>4, DaemonEventKeeps, DaemonEventExits DEF ExitInv, ExitPart
<1>5. CASE KeyExpires
  BY <1>0, <1>5, KeyExpiresKeeps, KeyExpiresExits DEF ExitInv, ExitPart
<1>6. CASE UNCHANGED vars
  <2>1. ElectionInv'
    BY <1>0, <1>6 DEF vars, counters, ElectionInv, TypeOK, ActiveHasKey, Active
  <2>2. ExitPart'
    BY <1>6, HandlesKeep DEF vars, counters
  <2> QED
    BY <2>1, <2>2 DEF ExitInv, ExitPart
<1> QED
  BY <1>1, <1>2, <1>3, <1>4, <1>5, <1>6 DEF Next

\* The flag that stops reconnectSessions is set only while a daemon is on its
\* way out: neither an interrupt nor an exception nor a crash leaves it behind,
\* as long as no second fault hits the exit (daemon.js, the handlers of SIGINT
\* and of uncaughtException).
THEOREM ExitFlagIsAnswered ==
    ASSUME OneFault
    PROVE  Spec => []ExitFlagIsTrue
<1>1. ExitInv /\ [Next]_vars => ExitInv'
  BY ExitStep, OneFault
<1>2. ExitInv => ExitFlagIsTrue
  BY DEF ExitInv
<1> QED
  BY <1>1, <1>2, ExitStarts, PTL DEF Spec

-----------------------------------------------------------------------------
(* The election implements the life of a daemon, step by step.             *)

Left == \E m \in Masters : ~master[m].exit
LifeStep == [Life!LifeNext]_(Life!lifeVars)

\* Daemons past initDaemon.
Lives == {d \in Daemons : daemon[d] \in Pinging \cup {"ping"}}

LEMMA PhaseIs ==
    ASSUME ExitInv
    PROVE  /\ \A d \in Lives : Phase = daemon[d]
           /\ Lives = {} => Phase = "none"
<1>1. OneDaemon /\ ExitFlagIsTrue
  BY OneIsOne DEF ExitInv, ElectionInv
<1>2. Lives \subseteq Active
  BY DEF Lives, Active
<1>3. \A d, e \in Lives : d = e
  BY <1>2 DEF ExitInv, ElectionInv, ActiveHasKey
<1>4. ASSUME NEW d \in Lives PROVE Phase = daemon[d]
  <2>1. \E e \in Daemons : daemon[e] \in Pinging \cup {"ping"}
    BY <1>4 DEF Lives
  <2>2. (CHOOSE e \in Daemons : daemon[e] \in Pinging \cup {"ping"}) \in Lives
    BY <2>1 DEF Lives
  <2>3. (CHOOSE e \in Daemons : daemon[e] \in Pinging \cup {"ping"}) = d
    BY <1>3, <1>4, <2>2
  <2> QED
    BY <1>1, <2>1, <2>3 DEF Phase
<1>5. ASSUME Lives = {} PROVE Phase = "none"
  BY <1>1, <1>5 DEF Phase, Lives
<1> QED
  BY <1>4, <1>5

\* The same for the state after a step.
LEMMA OneIsOneNext ==
    ASSUME ActiveHasKey'
    PROVE  OneDaemon'
<1>1. CASE Active' = {}
  BY <1>1, FS_EmptySet DEF OneDaemon
<1>2. CASE Active' # {}
  <2>1. PICK d : d \in Active'
    BY <1>2
  <2>2. Active' = {d}
    BY <2>1 DEF ActiveHasKey
  <2>3. Cardinality({d}) = 1
    BY FS_Singleton
  <2> QED
    BY <2>2, <2>3 DEF OneDaemon
<1> QED
  BY <1>1, <1>2

LEMMA PhaseIsNext ==
    ASSUME ExitInv'
    PROVE  /\ \A d \in Lives' : Phase' = daemon'[d]
           /\ Lives' = {} => Phase' = "none"
<1>1. OneDaemon' /\ ExitFlagIsTrue'
  BY OneIsOneNext DEF ExitInv, ElectionInv
<1>2. Lives' \subseteq Active'
  BY DEF Lives, Active
<1>3. \A d, e \in Lives' : d = e
  BY <1>2 DEF ExitInv, ElectionInv, ActiveHasKey
<1>4. ASSUME NEW d \in Lives' PROVE Phase' = daemon'[d]
  <2>1. \E e \in Daemons : daemon'[e] \in Pinging \cup {"ping"}
    BY <1>4 DEF Lives
  <2>2. (CHOOSE e \in Daemons : daemon'[e] \in Pinging \cup {"ping"}) \in Lives'
    BY <2>1 DEF Lives
  <2>3. (CHOOSE e \in Daemons : daemon'[e] \in Pinging \cup {"ping"}) = d
    BY <1>3, <1>4, <2>2
  <2> QED
    BY <1>1, <2>1, <2>3 DEF Phase
<1>5. ASSUME Lives' = {} PROVE Phase' = "none"
  BY <1>1, <1>5 DEF Phase, Lives
<1> QED
  BY <1>4, <1>5

\* The phase after a step of daemon d alone.
LEMMA PhaseMoves ==
    ASSUME ExitInv, ExitInv', NEW d \in Daemons,
           \A e \in Daemons \ {d} : daemon'[e] = daemon[e]
    PROVE  /\ d \in Lives => Phase = daemon[d]
           /\ d \in Lives' => Phase' = daemon'[d]
           /\ d \in Lives /\ d \notin Lives' => Phase' = "none"
           /\ d \notin Lives /\ d \in Lives' => Phase = "none"
           /\ d \notin Lives /\ d \notin Lives' => Phase' = Phase
<1>1. Lives \ {d} = Lives' \ {d}
  BY DEF Lives
<1>2. \A e, f \in Lives : e = f
  BY DEF Lives, Active, ExitInv, ElectionInv, ActiveHasKey
<1>3. \A e, f \in Lives' : e = f
  BY DEF Lives, Active, ExitInv, ElectionInv, ActiveHasKey
<1>4. CASE d \in Lives \/ d \in Lives'
  BY <1>1, <1>2, <1>3, <1>4, PhaseIs, PhaseIsNext
<1>5. CASE d \notin Lives /\ d \notin Lives'
  <2>1. Lives = Lives' /\ \A e \in Lives : e \in Daemons \ {d}
    BY <1>1, <1>5 DEF Lives
  <2>2. CASE Lives = {}
    BY <2>1, <2>2, PhaseIs, PhaseIsNext
  <2>3. CASE Lives # {}
    BY <2>1, <2>3, PhaseIs, PhaseIsNext
  <2> QED
    BY <2>2, <2>3
<1> QED
  BY <1>4, <1>5

LEMMA PhaseStays ==
    ASSUME ExitInv, ExitInv', UNCHANGED daemon
    PROVE  Phase' = Phase
<1>1. Lives' = Lives
  BY DEF Lives
<1>2. CASE Lives = {}
  BY <1>1, <1>2, PhaseIs, PhaseIsNext
<1>3. CASE Lives # {}
  BY <1>1, <1>3, PhaseIs, PhaseIsNext
<1> QED
  BY <1>2, <1>3

\* What DaemonLife allows.
LEMMA LifeAllows ==
    ASSUME Left' = Left,
           \/ Phase' = Phase
           \/ Phase = "none" /\ Phase' = "run"
           \/ Phase = "exiting" /\ Phase' \in {"stopping", "hung"}
           \/ Phase = "stopping" /\ Phase' = "ping"
           \/ Phase \in Pinging \cup {"ping"} /\ Phase' = "none"
    PROVE  LifeStep
BY DEF LifeStep, Left, Pinging, Life!lifeVars, Life!LifeNext, Life!Start, Life!SchedulerStops,
   Life!ServicesStop, Life!Ends, Life!Dies

LEMMA LifeExits ==
    ASSUME Left' = Left \/ (Left /\ Left' = FALSE),
           \/ Phase' = Phase
           \/ Phase = "run" /\ Phase' = "exiting"
    PROVE  LifeStep
BY DEF LifeStep, Left, Life!lifeVars, Life!LifeNext, Life!LastMasterLeaves, Life!ExitWithMaster,
   Life!Exit

\* A daemon that is gone was in some phase, or in none.
LEMMA GoneIsLife ==
    ASSUME ExitInv, ExitInv', NEW d \in Daemons, Gone(d), Left' = Left
    PROVE  LifeStep
<1>1. TypeOK
  BY DEF ExitInv, ElectionInv
<1>2. daemon'[d] = "none" /\ \A e \in Daemons \ {d} : daemon'[e] = daemon[e]
  BY <1>1, OneGone
<1>3. d \notin Lives'
  BY <1>2 DEF Lives, Pinging
<1>4. CASE d \in Lives
  <2>1. Phase \in Pinging \cup {"ping"} /\ Phase' = "none"
    BY <1>2, <1>3, <1>4, PhaseMoves DEF Lives
  <2> QED
    BY <2>1, LifeAllows
<1>5. CASE d \notin Lives
  BY <1>2, <1>3, <1>5, PhaseMoves, LifeAllows
<1> QED
  BY <1>4, <1>5

LEMMA LeftStays ==
    ASSUME \A m \in Masters : master'[m].exit = master[m].exit
    PROVE  Left' = Left
BY DEF Left

LEMMA MasterStepIsLife ==
    ASSUME ExitInv, ExitInv', NEW m \in Masters, MasterStep(m)
    PROVE  LifeStep
<1>1. TypeOK
  BY DEF ExitInv, ElectionInv
<1>2. Left' = Left
  <2>1. \A n \in Masters : master'[n].exit = master[n].exit
    <3>1. CASE Acquire(m)
      BY <1>1, <3>1 DEF Acquire, TypeOK
    <3>2. CASE CheckRunning(m)
      <4>1. CASE master' = [master EXCEPT ![m].at = "wait"]
        BY <1>1, <4>1 DEF TypeOK
      <4>2. ASSUME NEW d \in Daemons,
                   master' = [master EXCEPT ![m].at = "wait", ![m].spawned = d]
            PROVE  \A n \in Masters : master'[n].exit = master[n].exit
        BY <1>1, <4>2 DEF TypeOK
      <4> QED
        BY <3>2, <4>1, <4>2 DEF CheckRunning, Free
    <3>3. CASE WaitEnds(m)
      <4> DEFINE r == IF master[m].spawned # None
                        THEN [master[m] EXCEPT !.at = "idle", !.spawned = None,
                                               !.child = master[m].spawned]
                        ELSE [master[m] EXCEPT !.at = "idle"]
      <4>1. master' = [master EXCEPT ![m] = r]
        BY <1>1, <3>3 DEF WaitEnds, TypeOK
      <4>2. r.exit = master[m].exit
        BY <1>1 DEF TypeOK
      <4> HIDE DEF r
      <4> QED
        BY <1>1, <4>1, <4>2 DEF TypeOK
    <3>4. CASE WaitFails(m)
      BY <1>1, <3>4 DEF WaitFails, TypeOK
    <3> QED
      BY <3>1, <3>2, <3>3, <3>4 DEF MasterStep
  <2> QED
    BY <2>1, LeftStays
<1>3. CASE UNCHANGED daemon
  BY <1>2, <1>3, PhaseStays, LifeAllows
<1>4. CASE \E d \in Daemons : daemon[d] = "none" /\ daemon' = [daemon EXCEPT ![d] = "spawned"]
  <2>1. PICK d \in Daemons : daemon[d] = "none" /\ daemon' = [daemon EXCEPT ![d] = "spawned"]
    BY <1>4
  <2>2. daemon'[d] = "spawned" /\ \A e \in Daemons \ {d} : daemon'[e] = daemon[e]
    BY <1>1, <2>1, OneMoves DEF Steps
  <2>3. d \notin Lives /\ d \notin Lives'
    BY <2>1, <2>2 DEF Lives, Pinging
  <2> QED
    BY <1>2, <2>2, <2>3, PhaseMoves, LifeAllows
<1>5. CASE \E d \in Daemons : Gone(d)
  BY <1>2, <1>5, GoneIsLife
<1>6. CASE Acquire(m) \/ WaitFails(m)
  BY <1>3, <1>6 DEF Acquire, WaitFails
<1>7. CASE CheckRunning(m)
  <2>1. UNCHANGED daemon
        \/ \E d \in Daemons : daemon[d] = "none" /\ daemon' = [daemon EXCEPT ![d] = "spawned"]
    BY <1>7 DEF CheckRunning, Free
  <2> QED
    BY <1>3, <1>4, <2>1
<1>8. CASE WaitEnds(m)
  <2>1. UNCHANGED daemon \/ \E d \in Daemons : Gone(d)
    BY <1>1, <1>8 DEF WaitEnds, TypeOK
  <2> QED
    BY <1>3, <1>5, <2>1
<1> QED
  BY <1>6, <1>7, <1>8 DEF MasterStep

LEMMA DaemonStepIsLife ==
    ASSUME ExitInv, ExitInv', NEW d \in Daemons, DaemonStep(d)
    PROVE  LifeStep
<1>1. TypeOK
  BY DEF ExitInv, ElectionInv
<1>2. Left' = Left
  BY DEF Left, DaemonStep, SetNx, SetExpire, StopScheduler, StopServices, StopDaemon
<1>3. ASSUME NEW s \in Steps, daemon' = [daemon EXCEPT ![d] = s]
      PROVE  daemon'[d] = s /\ \A e \in Daemons \ {d} : daemon'[e] = daemon[e]
  BY <1>1, <1>3, OneMoves
<1>4. CASE Gone(d)
  BY <1>2, <1>4, GoneIsLife
<1>5. CASE daemon[d] = "spawned" /\ daemon' = [daemon EXCEPT ![d] = "set"]
  <2>1. daemon'[d] = "set" /\ \A e \in Daemons \ {d} : daemon'[e] = daemon[e]
    BY <1>3, <1>5 DEF Steps
  <2>2. d \notin Lives /\ d \notin Lives'
    BY <1>5, <2>1 DEF Lives, Pinging
  <2> QED
    BY <1>2, <2>1, <2>2, PhaseMoves, LifeAllows
<1>6. CASE SetExpire(d)
  <2>1. daemon'[d] = "run" /\ \A e \in Daemons \ {d} : daemon'[e] = daemon[e]
    BY <1>3, <1>6 DEF SetExpire, Steps, Pinging
  <2>2. d \notin Lives /\ d \in Lives'
    BY <1>6, <2>1 DEF SetExpire, Lives, Pinging
  <2>3. Phase = "none" /\ Phase' = "run"
    BY <2>1, <2>2, PhaseMoves
  <2> QED
    BY <1>2, <2>3, LifeAllows
<1>7. CASE StopScheduler(d)
  <2>1. PICK s \in {"hung", "stopping"} : daemon' = [daemon EXCEPT ![d] = s]
    BY <1>7 DEF StopScheduler
  <2>2. daemon'[d] = s /\ \A e \in Daemons \ {d} : daemon'[e] = daemon[e]
    BY <1>3, <2>1 DEF Steps, Pinging
  <2>3. d \in Lives /\ d \in Lives'
    BY <1>7, <2>2 DEF StopScheduler, Lives, Pinging
  <2>4. Phase = "exiting" /\ Phase' = s
    BY <1>7, <2>2, <2>3, PhaseMoves DEF StopScheduler
  <2> QED
    BY <1>2, <2>4, LifeAllows
<1>8. CASE StopServices(d)
  <2>1. daemon'[d] = "ping" /\ \A e \in Daemons \ {d} : daemon'[e] = daemon[e]
    BY <1>3, <1>8 DEF StopServices, Steps
  <2>2. d \in Lives /\ d \in Lives'
    BY <1>8, <2>1 DEF StopServices, Lives, Pinging
  <2>3. Phase = "stopping" /\ Phase' = "ping"
    BY <1>8, <2>1, <2>2, PhaseMoves DEF StopServices
  <2> QED
    BY <1>2, <2>3, LifeAllows
<1> QED
  BY <1>4, <1>5, <1>6, <1>7, <1>8 DEF DaemonStep, SetNx, StopDaemon

\* SIGINT, with or without the last master.
LEMMA SigintIsLife ==
    ASSUME ExitInv, ExitInv', NEW d \in Daemons, Sigint(d), Left' = Left \/ (Left /\ Left' = FALSE)
    PROVE  LifeStep
<1>1. TypeOK
  BY DEF ExitInv, ElectionInv
<1>2. CASE daemon[d] = "run" /\ daemon' = [daemon EXCEPT ![d] = "exiting"]
  <2>1. daemon'[d] = "exiting" /\ \A e \in Daemons \ {d} : daemon'[e] = daemon[e]
    BY <1>1, <1>2, OneMoves DEF Steps, Pinging
  <2>2. d \in Lives /\ d \in Lives'
    BY <1>2, <2>1 DEF Lives, Pinging
  <2>3. Phase = "run" /\ Phase' = "exiting"
    BY <1>2, <2>1, <2>2, PhaseMoves
  <2> QED
    BY <2>3, LifeExits
<1>3. CASE daemon[d] \in {"spawned", "set"} /\ Gone(d)
  <2>1. daemon'[d] = "none" /\ \A e \in Daemons \ {d} : daemon'[e] = daemon[e]
    BY <1>1, <1>3, OneGone
  <2>2. d \notin Lives /\ d \notin Lives'
    BY <1>3, <2>1 DEF Lives, Pinging
  <2> QED
    BY <2>1, <2>2, PhaseMoves, LifeExits
<1> QED
  BY <1>2, <1>3 DEF Sigint

LEMMA DaemonEventIsLife ==
    ASSUME ExitInv, ExitInv', NEW d \in Daemons, DaemonEvent(d)
    PROVE  LifeStep
<1>1. Left' = Left
  BY DEF Left, DaemonEvent, JobStarts, JobEnds, Interrupt, Exception, Crash, counters
<1>2. CASE JobStarts(d) \/ JobEnds(d)
  BY <1>1, <1>2, PhaseStays, LifeAllows DEF JobStarts, JobEnds
<1>3. CASE Interrupt(d)
  <2>1. Left' = Left \/ (Left /\ Left' = FALSE)
    BY <1>1
  <2>2. Sigint(d)
    BY <1>3 DEF Interrupt
  <2> QED
    BY <2>1, <2>2, SigintIsLife
<1>4. CASE Exception(d) \/ Crash(d)
  BY <1>1, <1>4, GoneIsLife DEF Exception, Crash
<1> QED
  BY <1>2, <1>3, <1>4 DEF DaemonEvent

LEMMA InterruptMasterIsLife ==
    ASSUME ExitInv, ExitInv', NEW m \in Masters, InterruptMaster(m)
    PROVE  LifeStep
<1>1. Left
  BY DEF Left, InterruptMaster
<1>2. Left' = Left \/ (Left /\ Left' = FALSE)
  <2>1. Left \in BOOLEAN /\ Left' \in BOOLEAN
    BY DEF Left
  <2> QED
    BY <1>1, <2>1, Zenon
<1>3. CASE master[m].child \in Daemons /\ Sigint(master[m].child)
  BY <1>2, <1>3, SigintIsLife
<1>4. CASE UNCHANGED daemon
  BY <1>2, <1>4, PhaseStays, LifeExits
<1> QED
  BY <1>3, <1>4 DEF InterruptMaster

\* The election keeps what the services of the daemon are built on: seen as the
\* phase of one daemon and whether a master is left, every step of masters and
\* daemons is a step of DaemonLife, as long as there is no second fault
\* (daemonTools.js, daemon.js, multithreadserver.js).
THEOREM ElectionImplementsLife ==
    ASSUME OneFault
    PROVE  Spec => Life!LifeInit /\ [][Life!LifeNext]_(Life!lifeVars)
<1>1. Init => Life!LifeInit
  <2> SUFFICES ASSUME Init PROVE Life!LifeInit
    OBVIOUS
  <2>1. Lives = {} /\ Left
    BY DaemonAssumption DEF Init, Lives, Pinging, Left
  <2>2. Phase = "none"
    BY <2>1, ExitStarts, PhaseIs
  <2> QED
    BY <2>1, <2>2 DEF Life!LifeInit, Left
<1>2. ExitInv /\ [Next]_vars => ExitInv'
  BY ExitStep, OneFault
<1>3. ExitInv /\ ExitInv' /\ [Next]_vars => [Life!LifeNext]_(Life!lifeVars)
  <2> SUFFICES ASSUME ExitInv, ExitInv', [Next]_vars PROVE LifeStep
    BY DEF LifeStep
  <2>1. ASSUME NEW m \in Masters, MasterStep(m) PROVE LifeStep
    BY <2>1, MasterStepIsLife
  <2>2. ASSUME NEW m \in Masters, InterruptMaster(m) PROVE LifeStep
    BY <2>2, InterruptMasterIsLife
  <2>3. ASSUME NEW d \in Daemons, DaemonStep(d) PROVE LifeStep
    BY <2>3, DaemonStepIsLife
  <2>4. ASSUME NEW d \in Daemons, DaemonEvent(d) PROVE LifeStep
    BY <2>4, DaemonEventIsLife
  <2>5. CASE KeyExpires \/ UNCHANGED vars
    <3>1. UNCHANGED daemon /\ Left' = Left
      BY <2>5 DEF KeyExpires, vars, Left
    <3> QED
      BY <3>1, PhaseStays, LifeAllows
  <2> QED
    BY <2>1, <2>2, <2>3, <2>4, <2>5 DEF Next
<1> QED
  BY <1>1, <1>2, <1>3, ExitStarts, PTL DEF Spec
=============================================================================

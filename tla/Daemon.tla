------------------------------- MODULE Daemon -------------------------------
(***************************************************************************)
(* The one daemon of an installation (src/daemonTools.js, src/daemon.js,   *)
(* src/multithreadserver.js): masters start it under lock_daemon when the  *)
(* key DaemonRunning is missing, the daemon takes the key with SETNX,      *)
(* renews its TTL, and deletes it when it exits.                           *)
(*                                                                         *)
(* The key does not say whose it is.  lock_daemon is atomic here (module   *)
(* RedisLock shows when it is), and the TTL is an action that is enabled   *)
(* when nobody has renewed the key.                                        *)
(***************************************************************************)
EXTENDS Naturals, FiniteSets

CONSTANTS
    Masters,        \* processes that run multithreadserver.js
    Interruptable,  \* masters that an operator may stop
    Daemons,        \* process ids of daemons
    None,
    CrashPoints,    \* the steps at which a daemon may die
    SlowStart,      \* a daemon may need longer than the TTL to reach initDaemon
    MaxFaults,      \* crashes, exceptions and interrupts, together
    MaxJobs

ASSUME DaemonAssumption ==
    /\ Interruptable \subseteq Masters
    /\ Masters # {} /\ None \notin Masters \cup Daemons
    /\ SlowStart \in BOOLEAN
    /\ MaxFaults \in Nat /\ MaxJobs \in Nat

VARIABLES
    key,       \* DaemonRunning: "absent", "set" (no TTL yet) or "ttl"
    exiting,   \* DaemonExiting
    lock,      \* who has lock_daemon
    master,    \* where startDaemon is, and the handle of the last daemon it started
    daemon,    \* the step of each daemon process
    job,       \* daemons with a cron job that runs
    faults, jobs

vars == <<key, exiting, lock, master, daemon, job, faults, jobs>>
counters == <<faults, jobs>>

\* Steps after initDaemon in which pingOfLifeService runs.
Pinging == {"run", "exiting", "hung", "stopping"}
\* Steps in which the monitors of the daemon run; they are stopped after the scheduler.
Steps == Pinging \cup {"none", "spawned", "set", "ping"}

TypeOK ==
    /\ key \in {"absent", "set", "ttl"}
    /\ exiting \in BOOLEAN
    /\ lock \in Masters \cup {None}
    /\ master \in [Masters -> [at : {"idle", "check", "wait"}, child : Daemons \cup {None},
                               spawned : Daemons \cup {None}, exit : BOOLEAN]]
    /\ \A m \in Masters : master[m].at # "idle" <=> lock = m
    /\ daemon \in [Daemons -> Steps]
    /\ job \subseteq Daemons
    /\ faults \in 0..MaxFaults
    /\ jobs \in 0..MaxJobs

Init ==
    /\ key = "absent" /\ exiting = FALSE /\ lock = None
    /\ master = [m \in Masters |->
                   [at |-> "idle", child |-> None, spawned |-> None, exit |-> FALSE]]
    /\ daemon = [d \in Daemons |-> "none"]
    /\ job = {}
    /\ faults = 0 /\ jobs = 0

\* The process is gone; its id is used again when no master has a handle of it.
Gone(d) ==
    /\ daemon' = [daemon EXCEPT ![d] = "none"]
    /\ job' = job \ {d}

-----------------------------------------------------------------------------
(* Masters: the task of daemonTTLExpiredMonitorService, every 30 seconds.  *)

Acquire(m) ==
    /\ master[m].at = "idle" /\ ~master[m].exit
    /\ lock = None
    /\ lock' = m
    /\ master' = [master EXCEPT ![m].at = "check"]
    /\ UNCHANGED <<key, exiting, daemon, job, counters>>

\* Process ids that no process and no handle has.
Free == {d \in Daemons : daemon[d] = "none" /\ \A n \in Masters : master[n].child # d}

CheckRunning(m) ==
    /\ master[m].at = "check"
    /\ \/ /\ key # "absent"
          /\ master' = [master EXCEPT ![m].at = "wait"]
          /\ UNCHANGED daemon
       \/ /\ key = "absent"
          /\ Free # {}
          /\ LET d == CHOOSE d \in Free : TRUE IN
                /\ daemon' = [daemon EXCEPT ![d] = "spawned"]
                /\ master' = [master EXCEPT ![m].at = "wait", ![m].spawned = d]
    /\ UNCHANGED <<key, exiting, lock, job, counters>>

\* The key is there: the lock is released, and the master that started a
\* daemon kills the one it had started before, wherever that one is.
WaitEnds(m) ==
    LET new == master[m].spawned
        old == master[m].child
    IN
    /\ master[m].at = "wait" /\ key # "absent"
    /\ (new # None /\ old # None) => daemon[old] \notin {"set"} \ CrashPoints
    /\ lock' = None
    /\ IF new # None
         THEN /\ master' = [master EXCEPT ![m] = [@ EXCEPT !.at = "idle", !.spawned = None,
                                                           !.child = new]]
              /\ IF old # None THEN Gone(old) ELSE UNCHANGED <<daemon, job>>
         ELSE /\ master' = [master EXCEPT ![m].at = "idle"]
              /\ UNCHANGED <<daemon, job>>
    /\ UNCHANGED <<key, exiting, counters>>

\* "daemon not running!!! after starting": the handle of the new process is lost.
WaitFails(m) ==
    /\ master[m].at = "wait" /\ key = "absent"
    /\ lock' = None
    /\ master' = [master EXCEPT ![m].at = "idle", ![m].spawned = None]
    /\ UNCHANGED <<key, exiting, daemon, job, counters>>

-----------------------------------------------------------------------------
(* initDaemon: three commands, one after the other. *)

SetNx(d) ==
    /\ daemon[d] = "spawned"
    /\ \/ /\ key = "absent"
          /\ key' = "set"
          /\ daemon' = [daemon EXCEPT ![d] = "set"]
          /\ UNCHANGED job
       \/ /\ key # "absent"      \* "Daemon is already running": exit(1)
          /\ Gone(d)
          /\ UNCHANGED key
    /\ UNCHANGED <<exiting, lock, master, counters>>

\* A mutant of SetExpire: neither it nor the ping gives the key a TTL.
SetNoExpire(d) ==
    /\ daemon[d] = "set"
    /\ daemon' = [daemon EXCEPT ![d] = "run"]
    /\ UNCHANGED <<key, exiting, lock, master, job, counters>>

SetExpire(d) ==
    /\ daemon[d] = "set"
    /\ key' = IF key = "absent" THEN "absent" ELSE "ttl"
    /\ daemon' = [daemon EXCEPT ![d] = "run"]
    /\ UNCHANGED <<exiting, lock, master, job, counters>>

-----------------------------------------------------------------------------
(* Jobs of the scheduler, as far as the exit waits for them. *)

JobStarts(d) ==
    /\ daemon[d] \in {"run", "exiting"} /\ d \notin job /\ jobs < MaxJobs
    /\ job' = job \cup {d}
    /\ jobs' = jobs + 1
    /\ UNCHANGED <<key, exiting, lock, master, daemon, faults>>

JobEnds(d) ==
    /\ d \in job
    /\ job' = job \ {d}
    /\ UNCHANGED <<key, exiting, lock, master, daemon, counters>>

-----------------------------------------------------------------------------
(* The exit: SIGINT sets DaemonExiting and then stops one service after    *)
(* the other.                                                              *)

\* SIGINT of a process that has no handler yet ends it.
Sigint(d) ==
    \/ /\ daemon[d] = "run"
       /\ daemon' = [daemon EXCEPT ![d] = "exiting"]
       /\ exiting' = TRUE
       /\ UNCHANGED job
    \/ /\ daemon[d] \in {"spawned", "set"} \cap CrashPoints
       /\ Gone(d)
       /\ UNCHANGED exiting

Interrupt(d) ==
    /\ faults < MaxFaults
    /\ faults' = faults + 1
    /\ Sigint(d)
    /\ UNCHANGED <<key, lock, master, jobs>>

InterruptMaster(m) ==
    LET d == master[m].child IN
    /\ m \in Interruptable /\ ~master[m].exit
    /\ faults < MaxFaults
    /\ faults' = faults + 1
    /\ master' = [master EXCEPT ![m].exit = TRUE]
    /\ IF d \in {c \in Daemons : daemon[c] \in {"run", "spawned", "set"}}
         THEN Sigint(d)
         ELSE UNCHANGED <<daemon, exiting, job>>
    /\ UNCHANGED <<key, lock, jobs>>

\* stopScheduler: with a job that runs, the first iteration returns without its callback.
StopScheduler(d) ==
    /\ daemon[d] = "exiting"
    /\ daemon' = [daemon EXCEPT ![d] = IF d \in job THEN "hung" ELSE "stopping"]
    /\ UNCHANGED <<key, exiting, lock, master, job, counters>>

\* The services that follow call back when their current run has ended.
StopServices(d) ==
    /\ daemon[d] = "stopping"
    /\ daemon' = [daemon EXCEPT ![d] = "ping"]
    /\ UNCHANGED <<key, exiting, lock, master, job, counters>>

\* DEL of DaemonRunning, Daemon and DaemonExiting, whoever they belong to.
DeleteKeys == key' = "absent" /\ exiting' = FALSE

StopDaemon(d) ==
    /\ daemon[d] = "ping"
    /\ DeleteKeys
    /\ Gone(d)
    /\ UNCHANGED <<lock, master, counters>>

\* The handler of uncaughtException.
Exception(d) ==
    /\ daemon[d] \in Pinging \cap CrashPoints /\ faults < MaxFaults
    /\ faults' = faults + 1
    /\ DeleteKeys
    /\ Gone(d)
    /\ UNCHANGED <<lock, master, jobs>>

-----------------------------------------------------------------------------
(* Faults and time. *)

Crash(d) ==
    /\ daemon[d] \in CrashPoints /\ faults < MaxFaults
    /\ faults' = faults + 1
    /\ Gone(d)
    /\ UNCHANGED <<key, exiting, lock, master, jobs>>

\* pingOfLife renews the key of whoever has it, every 5 of 30 seconds, so any
\* daemon keeps it alive, from its EXPIRE to the DEL that follows its last ping.
\* A daemon that is only spawned now was spawned before the key was set.
KeyExpires ==
    /\ key = "ttl"
    /\ SlowStart \/ \A d \in Daemons : daemon[d] # "spawned"
    /\ \A d \in Daemons : daemon[d] \notin Pinging \cup {"ping"}
    /\ key' = "absent"
    /\ UNCHANGED <<exiting, lock, master, daemon, job, counters>>

-----------------------------------------------------------------------------
MasterStep(m) == Acquire(m) \/ CheckRunning(m) \/ WaitEnds(m) \/ WaitFails(m)

DaemonStep(d) ==
    SetNx(d) \/ SetExpire(d) \/ StopScheduler(d) \/ StopServices(d) \/ StopDaemon(d)

DaemonEvent(d) ==
    JobStarts(d) \/ JobEnds(d) \/ Interrupt(d) \/ Exception(d) \/ Crash(d)

Next ==
    \/ \E m \in Masters : MasterStep(m) \/ InterruptMaster(m)
    \/ \E d \in Daemons : DaemonStep(d) \/ DaemonEvent(d)
    \/ KeyExpires

\* Masters come round every 30 seconds (strong: they compete for the lock),
\* processes continue, redis lets a key expire.
Fairness ==
    /\ \A m \in Masters : SF_vars(Acquire(m)) /\ WF_vars(MasterStep(m))
    /\ \A d \in Daemons : WF_vars(DaemonStep(d)) /\ WF_vars(JobEnds(d))
    /\ WF_vars(KeyExpires)

Spec == Init /\ [][Next]_vars /\ Fairness

-----------------------------------------------------------------------------
\* A daemon that has started and has not yet given its key away.
Active == {d \in Daemons : daemon[d] \in Pinging \cup {"set", "ping"}}

\* One daemon: the cleaner, the scheduler and the monitors of the registries
\* are written for a single process.
OneDaemon == Cardinality(Active) <= 1

\* While DaemonExiting is set reconnectSessions does nothing; only a daemon
\* that is on its way out may have it set.
ExitFlagIsTrue ==
    exiting => \E d \in Daemons : daemon[d] \in {"exiting", "hung", "stopping", "ping"}

Phase ==
    IF ~(OneDaemon /\ ExitFlagIsTrue) THEN "broken"     \* no phase of DaemonLife
    ELSE IF \E d \in Daemons : daemon[d] \in Pinging \cup {"ping"}
           THEN daemon[CHOOSE d \in Daemons : daemon[d] \in Pinging \cup {"ping"}]
           ELSE "none"

Life == INSTANCE DaemonLife WITH phase <- Phase, left <- \E m \in Masters : ~master[m].exit

\* The election keeps what the rest of the system assumes of the daemon: one at
\* a time, one life after the other, and a new one after every end while a master
\* is left.  Several masters may start daemons at once, also when one of them is
\* slower than the five seconds that its master waits.
LifeSpec == Life!LifeSpec

-----------------------------------------------------------------------------
(* Why one daemon at a time: an active daemon has the key, and the key of  *)
(* one that is before its EXPIRE has no TTL to run out.                    *)
ActiveHasKey ==
    /\ \A d, e \in Active : d = e
    /\ Active # {} => key # "absent"
    /\ \A d \in Daemons : daemon[d] = "set" => key = "set"

ElectionInv == TypeOK /\ ActiveHasKey

\* Why the flag of the exit is true while there is one fault at most: before
\* it the key is there from the first daemon on, so nobody starts a second one
\* who has a handle of the first; and who waits for a daemon during the exit
\* has no older one to kill.
Leaving == {d \in Daemons : daemon[d] \in {"exiting", "hung", "stopping", "ping"}}

BeforeFault ==
    faults = 0 =>
        /\ ~exiting /\ Leaving = {}
        /\ key = "absent" => \A m \in Masters : master[m].child = None
        /\ key # "absent" => Active # {}

NothingToKill ==
    faults = 0 \/ Leaving # {} =>
        \A m \in Masters : master[m].spawned # None => master[m].child = None

ExitInv == ElectionInv /\ BeforeFault /\ NothingToKill /\ ExitFlagIsTrue
=============================================================================

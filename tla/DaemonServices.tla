--------------------------- MODULE DaemonServices ---------------------------
(***************************************************************************)
(* The registries and the daemon that looks after them: the monitors of    *)
(* HostRegistry and the scheduler of JobScheduler run in the daemon, stop   *)
(* at different points of its exit (src/daemon.js) and die with it.  The   *)
(* daemon is the abstract one of DaemonLife, which module Daemon           *)
(* implements.                                                             *)
(***************************************************************************)
EXTENDS DaemonLife, HostRegistry, JobScheduler

CONSTANT MaxEnds   \* how often the daemon is interrupted or dies

ASSUME ServicesAssumption == MaxEnds \in Nat

VARIABLES ends, about   \* about: the part whose users are looked at

vars == <<lifeVars, hostVars, schedulerVars, ends, about>>

besideHosts == <<lifeVars, schedulerVars, ends, about>>
besideJobs == <<lifeVars, hostVars, ends, about>>

TypeOK == LifeTypeOK /\ HostTypeOK /\ ends \in 0..MaxEnds

\* Jobs and hosts share the daemon and nothing else: a behaviour is about one
\* of them, and the other is not used.
Init == LifeInit /\ HostInit /\ SchedulerInit /\ ends = 0 /\ about \in {"hosts", "jobs"}

\* The scheduler is told to stop first; a job that still runs hangs the exit,
\* and so may one that is not in Jobs.
Stopping == /\ SchedulerStops /\ StopScheduler
            /\ stopping' = "stuck" => phase' = "hung"
            /\ UNCHANGED cleaner

\* A process that ends leaves nothing of its cleaner and its jobs behind.
OtherMoves == /\ LifeNext /\ ~SchedulerStops
              /\ IF phase' = "none" THEN cleaner' = Idle /\ SchedulerDies
                 ELSE UNCHANGED <<cleaner, schedulerVars>>

DaemonMoves ==
    /\ Stopping \/ OtherMoves
    /\ IF Dies \/ Exit THEN ends < MaxEnds /\ ends' = ends + 1 ELSE UNCHANGED ends
    /\ UNCHANGED <<frontVars, regIds, regIps, platformRegs, registrar, expiries, about>>

\* The monitor of the front ends runs until its turn to stop comes, after the scheduler.
Monitor == /\ phase \in {"run", "exiting", "hung"} /\ MonitorFrontEnds
           /\ UNCHANGED besideHosts

\* Events and the interval of the cleaner are given up when the exit begins.
FrontEndTtl(i) == FrontEndExpires(i, phase = "run") /\ UNCHANGED besideHosts

Clean == phase = "run" /\ StartCleaning /\ UNCHANGED besideHosts

Cleaning == phase # "none" /\ CleanerStep /\ UNCHANGED besideHosts

Host == about = "hosts" /\ HostStep /\ UNCHANGED besideHosts

\* Rows of jobs change at any time; the daemon reads them until it is told to stop.
ApiCall == about = "jobs" /\ JobCalls /\ UNCHANGED besideJobs
JobRound(j) == phase \in {"run", "exiting"} /\ SchedulerRound(j) /\ UNCHANGED besideJobs
JobAdding(a) == phase # "none" /\ Adding(a) /\ UNCHANGED besideJobs
JobTick == phase # "none" /\ JobTicks /\ UNCHANGED besideJobs
JobFinishes(j) == phase # "none" /\ Finish(j) /\ UNCHANGED besideJobs

Next == \/ DaemonMoves \/ Monitor \/ Clean \/ Cleaning \/ Host \/ \E i \in Indices : FrontEndTtl(i)
        \/ ApiCall \/ JobTick \/ \E j \in Jobs : JobRound(j) \/ JobFinishes(j)
        \/ \E a \in Adders : JobAdding(a)

\* The daemon as in DaemonLife; its monitors come round while it runs them
\* (strong: it comes and goes), and calls return.
Fairness ==
    /\ WF_vars(left /\ Start /\ DaemonMoves)
    /\ WF_vars(SchedulerStops /\ DaemonMoves)
    /\ WF_vars(ServicesStop /\ DaemonMoves)
    /\ WF_vars(Ends /\ DaemonMoves)
    /\ SF_vars(Monitor) /\ SF_vars(Clean) /\ SF_vars(Cleaning)
    /\ \A c \in Callers, i \in Indices :
          WF_vars(UnregisterFrontEnd(c, i) /\ UNCHANGED besideHosts)
    /\ \A j \in Jobs : WF_vars(JobRound(j)) /\ WF_vars(JobFinishes(j))
    /\ \A a \in Adders : WF_vars(JobAdding(a))

Spec == Init /\ [][Next]_vars /\ Fairness

-----------------------------------------------------------------------------
\* A front end that is not renewed leaves the list, also when the daemon that
\* would have heard of it was on its way out, died, or was replaced, and even
\* when the exit of the daemon hangs; the id of a host that is gone is free
\* again, or was taken again, unless the exit of the daemon hangs.
HostsLeave ==
    /\ \A i \in Indices : (i \in frontends \ frontendTtl) ~> (i \notin frontends \/ ~left)
    /\ \A i \in Ids :
          (i \in platformRegs /\ regIds[i] = "none")
             ~> (i \notin platformRegs \/ regIds[i] # "none" \/ phase = "hung" \/ ~left)

\* The scheduler follows isactive, also of rows that change while a statement
\* of the round before waits or while a job runs, and after a daemon died: once
\* a row stays active its job has a CronJob that ticks, and once it stays
\* inactive none.
FollowsActive ==
    \A j \in Jobs :
        /\ <>[](phase = "run" /\ table[j].there /\ table[j].active)
             => <>[](\E i \in Intervals : <<j, i>> \in cron)
        /\ <>[](phase = "run" /\ ~table[j].active)
             => <>[](\A i \in Intervals : <<j, i>> \notin cron)
=============================================================================

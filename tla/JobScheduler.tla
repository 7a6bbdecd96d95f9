----------------------------- MODULE JobScheduler ----------------------------
(* nubocronScheduler.js in the daemon, with nubocronAPI.js and nuboCronJobs.js:
   the table of jobs, the rounds of runScheduledJobs, and runningJobs with its
   CronJob objects. A handler of a round does not wait for the one before it.  *)
EXTENDS Naturals, FiniteSets

CONSTANTS Jobs, Adders,    \* jobs, and the calls of addJobToRunningJobs under way
          MaxCalls,        \* calls of nubocronAPI
          MaxRuns,         \* ticks that start a job
          SlowDb           \* TRUE: a statement may take longer than a period
ASSUME SchedulerAssumption == MaxCalls \in Nat /\ MaxRuns \in Nat /\ SlowDb \in BOOLEAN

Intervals == {1, 2}

VARIABLES table,    \* the row of each job
          entry,    \* runningJobs
          cron,     \* CronJob objects that tick, as job and interval
          runs,     \* the work of a job under way
          adder,    \* calls of addJobToRunningJobs
          stopping, \* "no", "asked" (cronSchedulerStoped), "stopped", "stuck"
          calls, ticks
schedulerVars == <<table, entry, cron, runs, adder, stopping, calls, ticks>>

NoRow == [there |-> FALSE, active |-> FALSE, interval |-> 1, now |-> FALSE, update |-> FALSE]
NoEntry == [there |-> FALSE, interval |-> 1, running |-> FALSE, stopped |-> FALSE]
NoAdder == [at |-> "idle", job |-> "none", row |-> NoRow]

AdderFree(a) == adder[a].at = "idle"
AdderGoes(a, place) == adder' = [adder EXCEPT ![a].at = place]
AdderEnds(a) == adder' = [adder EXCEPT ![a] = NoAdder]

-----------------------------------------------------------------------------
(* nubocronAPI *)
\* addJobToDB: the row is looked up and then created, or updated and marked.
AddJob(j, interval, active, now) ==
    /\ calls > 0 /\ calls' = calls - 1
    /\ table' = [table EXCEPT ![j] =
          [there |-> TRUE, active |-> active, interval |-> interval, now |-> now,
           update |-> table[j].there]]
    /\ UNCHANGED <<entry, cron, runs, adder, stopping, ticks>>

\* removeJobFromDB
RemoveJob(j) ==
    /\ calls > 0 /\ calls' = calls - 1 /\ table[j].there
    /\ table' = [table EXCEPT ![j].active = FALSE]
    /\ UNCHANGED <<entry, cron, runs, adder, stopping, ticks>>

-----------------------------------------------------------------------------
(* runScheduledJobs, for one row of those it has read *)
\* removeJobFromRunningJobs: the CronJob of the entry is stopped.
StopCron(j) ==
    /\ cron' = IF entry[j].there THEN cron \ {<<j, entry[j].interval>>} ELSE cron
    /\ entry' = IF entry[j].there THEN [entry EXCEPT ![j].stopped = TRUE] ELSE entry

\* startimmediately is cleared only of a row that has it.
NextPlace(row) == IF row.now THEN "now" ELSE "cron"

\* addJobToRunningJobs, up to its first statement.
Schedule(a, j) ==
    /\ AdderFree(a) /\ stopping = "no" /\ table[j].there /\ table[j].active
    /\ SlowDb \/ \A b \in Adders : adder[b].job # j
    /\ ~entry[j].there \/ table[j].update
    /\ IF ~table[j].update
       THEN /\ adder' = [adder EXCEPT ![a] =
                 [at |-> NextPlace(table[j]), job |-> j, row |-> table[j]]]
            /\ UNCHANGED <<entry, cron>>
       ELSE /\ StopCron(j)
            /\ IF entry[j].there /\ entry[j].running THEN UNCHANGED adder
               ELSE adder' = [adder EXCEPT ![a] = [at |-> "update", job |-> j, row |-> table[j]]]
    /\ UNCHANGED <<table, runs, stopping, calls, ticks>>

\* The row of an inactive job.
UnscheduleMutant(j) ==
    /\ stopping = "no" /\ table[j].update /\ ~table[j].active /\ StopCron(j)
    /\ UNCHANGED <<table, runs, adder, stopping, calls, ticks>>
Unschedule(j) ==
    /\ stopping = "no" /\ table[j].there /\ ~table[j].active /\ StopCron(j)
    /\ UNCHANGED <<table, runs, adder, stopping, calls, ticks>>

\* isupdate of the row is cleared, whatever was written there meanwhile.
ClearUpdate(a) ==
    /\ adder[a].at = "update" /\ AdderGoes(a, NextPlace(adder[a].row))
    /\ table' = [table EXCEPT ![adder[a].job].update = FALSE]
    /\ UNCHANGED <<entry, cron, runs, stopping, calls, ticks>>

\* startimmediately is cleared.
ClearNow(a) ==
    /\ adder[a].at = "now" /\ AdderGoes(a, "cron")
    /\ table' = [table EXCEPT ![adder[a].job].now = FALSE]
    /\ UNCHANGED <<entry, cron, runs, stopping, calls, ticks>>

\* The CronJob is made and listed, and a job that starts immediately runs.
MakeCron(a) ==
    /\ adder[a].at = "cron" /\ AdderEnds(a)
    /\ LET j == adder[a].job  r == adder[a].row
       IN  /\ cron' = cron \cup {<<j, r.interval>>}
           /\ entry' = [entry EXCEPT ![j] = [there |-> TRUE, interval |-> r.interval,
                                             running |-> r.now, stopped |-> FALSE]]
           /\ runs' = [runs EXCEPT ![j] = IF r.now THEN @ + 1 ELSE @]
    /\ UNCHANGED <<table, stopping, calls, ticks>>

-----------------------------------------------------------------------------
(* jobWork *)
\* A tick of a CronJob starts the job unless its entry is running.
MayRunMutant(j) == entry[j].there
MayRun(j) == entry[j].there /\ ~entry[j].running

CronTicks(j, i) ==
    /\ ticks > 0 /\ <<j, i>> \in cron /\ MayRun(j) /\ ticks' = ticks - 1
    /\ entry' = [entry EXCEPT ![j].running = TRUE]
    /\ runs' = [runs EXCEPT ![j] = @ + 1]
    /\ UNCHANGED <<table, cron, adder, stopping, calls>>

\* The work calls back: a stopped entry is deleted.
Finish(j) ==
    /\ runs[j] > 0 /\ runs' = [runs EXCEPT ![j] = @ - 1]
    /\ entry' = IF ~entry[j].there THEN entry
                ELSE [entry EXCEPT ![j] = IF @.stopped THEN NoEntry
                                          ELSE [@ EXCEPT !.running = FALSE]]
    /\ UNCHANGED <<table, cron, adder, stopping, calls, ticks>>

-----------------------------------------------------------------------------
(* stopScheduler: it returns only if no job runs at once. *)
StopScheduler ==
    /\ stopping = "no"
    /\ cron' = {c \in cron : ~entry[c[1]].there \/ entry[c[1]].interval # c[2]}
    /\ entry' = [j \in Jobs |-> IF entry[j].there /\ entry[j].running
                                 THEN [entry[j] EXCEPT !.stopped = TRUE] ELSE NoEntry]
    /\ stopping' = IF \A j \in Jobs : ~entry'[j].there THEN "stopped" ELSE "stuck"
    /\ UNCHANGED <<table, runs, adder, calls, ticks>>

\* A daemon starts with no jobs in memory.
SchedulerDies ==
    /\ entry' = [j \in Jobs |-> NoEntry] /\ cron' = {} /\ runs' = [j \in Jobs |-> 0]
    /\ adder' = [a \in Adders |-> NoAdder] /\ stopping' = "no"
    /\ UNCHANGED <<table, calls, ticks>>

SchedulerInit ==
    /\ table = [j \in Jobs |-> NoRow] /\ entry = [j \in Jobs |-> NoEntry] /\ cron = {}
    /\ runs = [j \in Jobs |-> 0] /\ adder = [a \in Adders |-> NoAdder] /\ stopping = "no"
    /\ calls = MaxCalls /\ ticks = MaxRuns

SchedulerRound(j) == Unschedule(j) \/ \E a \in Adders : Schedule(a, j)
Adding(a) == ClearUpdate(a) \/ ClearNow(a) \/ MakeCron(a)

\* Calls of the API, in any process.
JobCalls ==
    \E j \in Jobs :
        \/ RemoveJob(j)
        \/ \E i \in Intervals, active, now \in BOOLEAN : AddJob(j, i, active, now)

JobTicks == \E j \in Jobs, i \in Intervals : CronTicks(j, i)

-----------------------------------------------------------------------------
\* A job never runs twice at the same time in a daemon, whatever is changed
\* while it runs, as long as statements end before the next round.
OneRunAtATime == \A j \in Jobs : runs[j] <= 1

-----------------------------------------------------------------------------
(* Why it holds. *)
SchedulerTypeOK ==
    /\ table \in [Jobs -> [there : BOOLEAN, active : BOOLEAN, interval : Intervals, now : BOOLEAN, update : BOOLEAN]]
    /\ entry \in [Jobs -> [there : BOOLEAN, interval : Intervals, running : BOOLEAN, stopped : BOOLEAN]]
    /\ cron \subseteq Jobs \X Intervals
    /\ runs \in [Jobs -> Nat]
    /\ adder \in [Adders -> [at : {"idle", "update", "now", "cron"}, job : Jobs \cup {"none"},
                             row : [there : BOOLEAN, active : BOOLEAN, interval : Intervals,
                                    now : BOOLEAN, update : BOOLEAN]]]

\* Work under way has its entry, a CronJob is the one of its entry.
WorkIsListed == \A j \in Jobs : runs[j] > 0 => entry[j].there /\ entry[j].running
CronIsListed == \A c \in cron : entry[c[1]].there /\ entry[c[1]].interval = c[2] /\ ~entry[c[1]].stopped

\* While a job is being added nothing of it runs and nobody else adds it.
AddersAlone ==
    /\ \A a \in Adders : ~AdderFree(a) =>
          /\ adder[a].job \in Jobs /\ runs[adder[a].job] = 0
          /\ \A c \in cron : c[1] # adder[a].job
    /\ \A a, b \in Adders : a # b /\ ~AdderFree(a) /\ ~AdderFree(b) => adder[a].job # adder[b].job

SchedulerInv == SchedulerTypeOK /\ OneRunAtATime /\ WorkIsListed /\ CronIsListed /\ AddersAlone
=============================================================================

---------------------------- MODULE PlatformPool ----------------------------
(***************************************************************************)
(* The pool of platforms: the lists of src/platform.js and the daemon's    *)
(* services of src/platformPool.js that fill, check and empty them.        *)
(*                                                                         *)
(* A step is a redis command (or a MULTI) with what its callback does.     *)
(* Platforms are docker hosts of one domain; `platforms' and its copy      *)
(* `platforms_<domain>' are two lists, because not every write changes     *)
(* both at once.  Several processes move platforms between lists:          *)
(*   Tasks       registerPlatformNum, from poolQueue or an administrator   *)
(*   Checkers    one platform's part of checkPlatforms                     *)
(*   Sessions    the start and the end of one session on a platform        *)
(*   Admin       stopPlatform of ControlPanel/platformControl.js           *)
(*   Runners     the periodic services refresh and closePlatforms, and     *)
(*               the same functions called for a platformChannel message   *)
(*   killPlatform, at most once at a time for each platform                *)
(***************************************************************************)
EXTENDS Integers, FiniteSets, Functions

CONSTANTS
    NumPlatforms,   \* platform ids are 1..NumPlatforms (opts.min..opts.max)
    PoolTasks,      \* as many as platformParams.concurrency
    ManualTasks,    \* platforms started by an administrator at a time
    Checkers, Sessions,
    Admin, None,
    Channels,       \* the runners for platformChannel messages
    PoolSize,       \* platformParams.platformPoolSize
    FixedPool,      \* platformParams.fixedPool
    UsersPerPlatform, ChoosePool, MaxFails,
    CleanPlatformsMode,
    UpperCapacity,  \* platformParams.upperCapacityLevel, in percent
    MaxCapacity,    \* platformParams.maxCapacity
    CloseOnError,   \* Common.immediatelyClosePlatformAfterError
    Failures,       \* what may fail
    MaxFailures,    \* how many times something fails
    Requests,       \* what an administrator may ask for
    MaxRequests     \* how many times the administrator asks

Platforms  == 1..NumPlatforms
Tasks      == PoolTasks \cup ManualTasks
Procs      == Tasks \cup Checkers \cup Sessions \cup {Admin}
Refreshers == {"refresh_service"} \cup ({"refresh_channel"} \cap Channels)
Closers    == {"close_service"} \cup ({"close_channel"} \cap Channels)
Runners    == Refreshers \cup Closers
FailureKinds == {"orgs", "start", "save", "check", "attach", "late",
                 "detach", "threshold", "stop", "list"}

ASSUME PoolAssumption ==
    /\ NumPlatforms \in Nat \ {0}
    /\ PoolSize \in Nat /\ MaxFails \in Nat /\ MaxFailures \in Nat /\ MaxRequests \in Nat
    /\ UsersPerPlatform \in Nat \ {0} /\ ChoosePool \in Nat \ {0}
    /\ UpperCapacity \in Nat \ {0} /\ MaxCapacity \in Nat
    /\ {FixedPool, CleanPlatformsMode, CloseOnError} \subseteq BOOLEAN
    /\ PoolTasks \cap ManualTasks = {}
    /\ Tasks \cap (Checkers \cup Sessions) = {} /\ Checkers \cap Sessions = {}
    /\ Admin \notin Tasks \cup Checkers \cup Sessions
    /\ None \notin Procs \cup Runners
    /\ IsFiniteSet(Tasks \cup Sessions)
    /\ Failures \subseteq FailureKinds
    /\ Requests \subseteq {"start", "graceful", "close", "disable", "enable"}

VARIABLES
    running, domRunning,    \* platforms and platforms_<domain>: scores
    errs, domErrs,          \* platforms_errs and platforms_errs_<domain>
    idle, domIdle,          \* platforms_idle and platforms_idle_<domain>
    closing,                \* platforms_close
    fails,                  \* platforms_fails
    errorset,               \* platform_<id>: "none" without the hash, or
                            \* the value of errorset
    sess,                   \* platsesslist_<id>
    alive,                  \* platforms whose host runs
    finder,                 \* who holds lock_find_avalible_platform_id
    queued, drain,          \* poolQueue: tasks that wait, and whose callback
                            \* drain is
    runner,                 \* of each runner: where it is
    killing, killer,        \* of each platform: where killPlatform is, and
                            \* who waits for it
    toForce,                \* of each platform: sessions of the last SMEMBERS
                            \* that killPlatform has not told to exit yet
    messages,               \* platformChannel messages in flight
    pc, at, mem, score,     \* of each process: where it is, its platform,
                            \* its copy of errorset, the score it read
    forced,                 \* sessions with forceExit
    reports,                \* sessions whose detach failed
    failed, requests        \* counters of the bounds

lists  == <<running, domRunning, errs, domErrs, idle, domIdle, closing>>
redis  == <<lists, fails, errorset, sess>>
queue  == <<finder, queued, drain>>
kills  == <<killing, killer, toForce>>
daemon == <<runner, kills>>
local  == <<at, mem, score>>
bounds == <<failed, requests>>
vars   == <<redis, alive, queue, daemon, messages, pc, local, forced, reports, bounds>>

TaskPCs    == {"find", "mark", "mark_domain", "create", "start", "save", "run",
               "unmark", "unmark_domain"}
HoldingPCs == {"mark_domain", "create", "start", "save", "run", "score", "move", "close",
               "unmark", "unmark_domain"}
MovePCs    == {"score", "move", "close"}
SessionPCs == {"load", "incr", "incr_domain", "attach", "refer", "undo", "undo_domain",
               "active", "unrefer", "decr", "decr_domain", "gone"}
PCs == {"idle", "http"} \cup TaskPCs \cup MovePCs \cup SessionPCs

\* Sorted sets of redis.
IsZSet(z)      == \E D \in SUBSET Platforms : z \in [D -> Int]
ZEmpty         == [p \in {} |-> 0]
ZScore(z, p)   == IF p \in DOMAIN z THEN z[p] ELSE 0
ZAdd(z, p, s)  == [q \in DOMAIN z \cup {p} |-> IF q = p THEN s ELSE z[q]]
ZIncr(z, p, i) == ZAdd(z, p, ZScore(z, p) + i)
ZRem(z, p)     == Restrict(z, DOMAIN z \ {p})

ListsTypeOK ==
    /\ IsZSet(running) /\ IsZSet(domRunning) /\ IsZSet(errs) /\ IsZSet(domErrs)
    /\ {idle, domIdle, closing, alive} \subseteq SUBSET Platforms
    /\ fails \in [Platforms -> Nat]
    /\ errorset \in [Platforms -> {"none", "false", "true"}]
    /\ sess \in [Platforms -> SUBSET Sessions]

DaemonTypeOK ==
    /\ finder \in Tasks \cup {None}
    /\ queued \in Nat
    /\ drain \in Refreshers \cup {None}
    /\ runner \in [Runners -> {"idle", "orgs", "kills", "wait", "lost"}]
    /\ killing \in [Platforms -> {"no", "load", "sessions", "sessions_only", "stop", "delete"}]
    /\ killer \in [Platforms -> Runners \cup {None}]
    /\ toForce \in [Platforms -> SUBSET Sessions]
    /\ messages \subseteq {"refresh", "close"}

ProcsTypeOK ==
    /\ pc \in [Procs -> PCs]
    /\ at \in [Procs -> Platforms]
    /\ mem \in [Procs -> {"none", "false", "true"}]
    /\ \A c \in Checkers : pc[c] = "http" => mem[c] # "none"
    /\ score \in [Procs -> Int]
    /\ {forced, reports} \subseteq SUBSET Sessions
    /\ failed \in 0..MaxFailures
    /\ requests \in 0..MaxRequests

TypeOK == ListsTypeOK /\ DaemonTypeOK /\ ProcsTypeOK

Init ==
    /\ running = ZEmpty /\ domRunning = ZEmpty /\ errs = ZEmpty /\ domErrs = ZEmpty
    /\ idle = {} /\ domIdle = {} /\ closing = {}
    /\ fails = [p \in Platforms |-> 0]
    /\ errorset = [p \in Platforms |-> "none"]
    /\ sess = [p \in Platforms |-> {}]
    /\ alive = {}
    /\ finder = None /\ queued = 0 /\ drain = None
    /\ runner = [r \in Runners |-> "idle"]
    /\ killing = [p \in Platforms |-> "no"]
    /\ killer = [p \in Platforms |-> None]
    /\ toForce = [p \in Platforms |-> {}]
    /\ messages = {}
    /\ pc = [c \in Procs |-> "idle"]
    /\ at = [c \in Procs |-> 1]
    /\ mem = [c \in Procs |-> "none"]
    /\ score = [c \in Procs |-> 0]
    /\ forced = {} /\ reports = {}
    /\ failed = 0 /\ requests = 0

At(c, l)   == pc[c] = l
Goto(c, l) == pc' = [pc EXCEPT ![c] = l]
Publish(m) == messages' = messages \cup {m}

\* A call fails: at most MaxFailures times.
Fail(kind) ==
    /\ kind \in Failures /\ failed < MaxFailures
    /\ failed' = failed + 1

\* The administrator asks: at most MaxRequests times.
Ask(request) ==
    /\ request \in Requests /\ requests < MaxRequests
    /\ requests' = requests + 1

\* Back to the start of its loop; a session does not come back.
Finish(c, l) ==
    /\ Goto(c, l)
    /\ at' = [at EXCEPT ![c] = 1]
    /\ mem' = [mem EXCEPT ![c] = "none"]
    /\ score' = [score EXCEPT ![c] = 0]

-----------------------------------------------------------------------------
(* Moves between lists.                                                     *)

Available(p) ==
    /\ p \notin DOMAIN running \cup DOMAIN errs \cup idle \cup closing
    /\ fails[p] < MaxFails

\* addToErrorPlatforms with revive: a started platform that reached its
\* threshold, or an administrator's graceful stop.
Revives(c) == c = Admin \/ c \in sess[at[c]]

AfterMove(c) ==
    CASE c \in Tasks -> Goto(c, "unmark") /\ UNCHANGED local
      [] c \in Sessions /\ Revives(c) -> Goto(c, "active") /\ UNCHANGED local
      [] c \in Sessions /\ ~Revives(c) -> Finish(c, "gone")
      [] OTHER -> Finish(c, "idle")

\* addToErrorPlatforms: the score is read, then a MULTI moves the platform.
ReadScore(c) ==
    /\ At(c, "score")
    /\ score' = [score EXCEPT ![c] = ZScore(running, at[c])]
    /\ Goto(c, "move")
    /\ UNCHANGED <<redis, alive, queue, daemon, messages, at, mem, forced, reports, bounds>>

AlreadyInError(p) == p \notin idle \cup DOMAIN running /\ p \in DOMAIN errs

AddToErrors(c) ==
    LET p == at[c] IN
    /\ At(c, "move")
    /\ idle' = idle \ {p} /\ domIdle' = domIdle \ {p}
    /\ running' = ZRem(running, p) /\ domRunning' = ZRem(domRunning, p)
    /\ errs' = ZAdd(errs, p, score[c]) /\ domErrs' = ZAdd(domErrs, p, score[c])
    /\ errorset' = [errorset EXCEPT ![p] = "true"]
    /\ Publish("refresh")
    /\ IF CloseOnError /\ ~Revives(c) /\ ~AlreadyInError(p)
       THEN Goto(c, "close") /\ UNCHANGED local
       ELSE AfterMove(c)
    /\ UNCHANGED <<closing, fails, sess, alive, queue, daemon, forced, reports, bounds>>

RemoveFromLists(p) ==
    /\ idle' = idle \ {p} /\ domIdle' = domIdle \ {p}
    /\ running' = ZRem(running, p) /\ domRunning' = ZRem(domRunning, p)
    /\ errs' = ZRem(errs, p) /\ domErrs' = ZRem(domErrs, p)

AddToClose(c) ==
    /\ At(c, "close")
    /\ RemoveFromLists(at[c])
    /\ closing' = closing \cup {at[c]}
    /\ IF at[c] \in closing \ (DOMAIN running \cup DOMAIN errs \cup idle)
       THEN UNCHANGED messages ELSE Publish("close")
    /\ AfterMove(c)
    /\ UNCHANGED <<fails, errorset, sess, alive, queue, daemon, forced, reports, bounds>>

Move(c) == ReadScore(c) \/ AddToErrors(c) \/ AddToClose(c)

-----------------------------------------------------------------------------
(* registerPlatformNum: findAvaliblePlatform, then registerPlatform.        *)

PoolBusy == {t \in PoolTasks : ~At(t, "idle")}

\* The end of a task; poolQueue.drain is called when it was the last.
TaskEnds(t) ==
    /\ Finish(t, "idle")
    /\ runner' = IF PoolBusy = {t} /\ queued = 0 /\ drain # None
                 THEN [runner EXCEPT ![drain] = "idle"] ELSE runner

Dispatch(t) ==
    /\ t \in PoolTasks /\ At(t, "idle") /\ queued > 0
    /\ queued' = queued - 1
    /\ Goto(t, "find")
    /\ UNCHANGED <<redis, alive, finder, drain, daemon, messages, local, forced, reports, bounds>>

\* startPlatform of ControlPanel/platformControl.js: min = max = platID.
StartPlatform(t, p) ==
    /\ t \in ManualTasks /\ At(t, "idle") /\ Ask("start")
    /\ at' = [at EXCEPT ![t] = p]
    /\ Goto(t, "find")
    /\ UNCHANGED <<redis, alive, queue, daemon, messages, mem, score, forced, reports, failed>>

LastPlatform(t) == t \in ManualTasks \/ at[t] = NumPlatforms

\* Under lock_find_avalible_platform_id; the MULTI of one id is a step.
FindAvailable(t) ==
    /\ At(t, "find")
    /\ \/ /\ finder \in {None, t} /\ Available(at[t])
          /\ finder' = t
          /\ Goto(t, "mark")
          /\ UNCHANGED <<local, runner>>
       \/ /\ finder \in {None, t} /\ ~Available(at[t]) /\ ~LastPlatform(t)
          /\ finder' = t
          /\ at' = [at EXCEPT ![t] = @ + 1]
          /\ UNCHANGED <<pc, mem, score, runner>>
       \/ /\ finder \in {None, t} /\ ~Available(at[t]) /\ LastPlatform(t)
          /\ finder' = None
          /\ TaskEnds(t)
       \/ /\ finder \notin {None, t}       \* all the retries found the lock
          /\ TaskEnds(t)
          /\ UNCHANGED finder
    /\ UNCHANGED <<redis, alive, queued, drain, kills, messages, forced, reports, bounds>>

MarkIdle(t) ==
    /\ At(t, "mark")
    /\ idle' = idle \cup {at[t]}
    /\ Goto(t, "mark_domain")
    /\ UNCHANGED <<running, domRunning, errs, domErrs, domIdle, closing, fails, errorset, sess,
                   alive, queue, daemon, messages, local, forced, reports, bounds>>

MarkDomainIdle(t) ==
    /\ At(t, "mark_domain")
    /\ domIdle' = domIdle \cup {at[t]}
    /\ finder' = None
    /\ Goto(t, "create")
    /\ UNCHANGED <<running, domRunning, errs, domErrs, idle, closing, fails, errorset, sess,
                   alive, queued, drain, daemon, messages, local, forced, reports, bounds>>

\* new Platform with its two saves, and the save after the start.
SavePlatform(t) ==
    /\ \/ At(t, "create") /\ Goto(t, "start") /\ UNCHANGED failed
       \/ At(t, "save") /\ Goto(t, "run") /\ UNCHANGED failed
       \/ At(t, "save") /\ Fail("save") /\ Goto(t, "score")
    /\ errorset' = [errorset EXCEPT ![at[t]] = "false"]
    /\ UNCHANGED <<lists, fails, sess, alive, queue, daemon, messages, local, forced, reports, requests>>

StartHost(t) ==
    /\ At(t, "start")
    /\ \/ /\ alive' = alive \cup {at[t]}
          /\ Goto(t, "save")
          /\ UNCHANGED <<fails, failed>>
       \/ /\ Fail("start")
          /\ fails' = [fails EXCEPT ![at[t]] = @ + 1]
          /\ Goto(t, "score")
          /\ UNCHANGED alive
    /\ UNCHANGED <<lists, errorset, sess, queue, daemon, messages, local, forced, reports, requests>>

AddToRunningOnly(t) ==
    /\ At(t, "run")
    /\ domIdle' = domIdle \ {at[t]}
    /\ running' = ZAdd(running, at[t], 0) /\ domRunning' = ZAdd(domRunning, at[t], 0)
    /\ fails' = [fails EXCEPT ![at[t]] = 0]
    /\ TaskEnds(t)
    /\ UNCHANGED <<idle, errs, domErrs, closing, errorset, sess, alive, queue, kills,
                   messages, forced, reports, bounds>>

\* addToRunningPlatforms, then resetFails.
AddToRunning(t) ==
    LET p == at[t] IN
    /\ At(t, "run")
    /\ idle' = idle \ {p} /\ domIdle' = domIdle \ {p}
    /\ running' = ZAdd(running, p, 0) /\ domRunning' = ZAdd(domRunning, p, 0)
    /\ fails' = [fails EXCEPT ![p] = 0]
    /\ TaskEnds(t)
    /\ UNCHANGED <<errs, domErrs, closing, errorset, sess, alive, queue, kills,
                   messages, forced, reports, bounds>>

\* After a failed start, once more: srem of the idle lists.
Unmark(t) ==
    /\ \/ /\ At(t, "unmark")
          /\ idle' = idle \ {at[t]}
          /\ Goto(t, "unmark_domain")
          /\ UNCHANGED <<domIdle, local, runner>>
       \/ /\ At(t, "unmark_domain")
          /\ domIdle' = domIdle \ {at[t]}
          /\ TaskEnds(t)
          /\ UNCHANGED idle
    /\ UNCHANGED <<running, domRunning, errs, domErrs, closing, fails, errorset, sess, alive,
                   queue, kills, messages, forced, reports, bounds>>

Register(t) ==
    FindAvailable(t) \/ MarkIdle(t) \/ MarkDomainIdle(t) \/ SavePlatform(t)
        \/ StartHost(t) \/ AddToRunning(t) \/ Unmark(t) \/ Move(t)

-----------------------------------------------------------------------------
(* getAvailablePlatform, and the session's references to its platform.      *)

Before(p, q) ==
    LET d == domRunning[p] - domRunning[q] IN
    IF CleanPlatformsMode THEN d > 0 \/ (d = 0 /\ p > q) ELSE d < 0 \/ (d = 0 /\ p < q)

Smallest(a, b)  == IF a < b THEN a ELSE b
Largest(a, b)   == IF a > b THEN a ELSE b
CeilDiv(a, b)   == (a + b - 1) \div b

\* The half of the platforms with less (more) sessions, at most choosePool.
Candidates ==
    LET fitting == {p \in DOMAIN domRunning : domRunning[p] < UsersPerPlatform}
        front == Smallest(ChoosePool, CeilDiv(Cardinality(DOMAIN domRunning), 2))
    IN {p \in fitting : Cardinality({q \in fitting : Before(q, p)}) < front}

ChoosePlatform(s) ==
    /\ At(s, "idle")
    /\ \E p \in Candidates : at' = [at EXCEPT ![s] = p]
    /\ Goto(s, "load")
    /\ UNCHANGED <<redis, alive, queue, daemon, messages, mem, score, forced, reports, bounds>>

LoadPlatform(s) ==
    /\ At(s, "load")
    /\ IF errorset[at[s]] = "none"
       THEN Finish(s, "gone")
       ELSE /\ mem' = [mem EXCEPT ![s] = errorset[at[s]]]
            /\ Goto(s, "incr")
            /\ UNCHANGED <<at, score>>
    /\ UNCHANGED <<redis, alive, queue, daemon, messages, forced, reports, bounds>>

\* increaseReference: two commands, on the lists the loaded errorset names.
IncreaseReference(s, inc) ==
    /\ IF mem[s] = "true"
       THEN errs' = ZIncr(errs, at[s], inc) /\ UNCHANGED running
       ELSE running' = ZIncr(running, at[s], inc) /\ UNCHANGED errs
    /\ UNCHANGED <<domRunning, domErrs>>

IncreaseDomainReference(s, inc) ==
    /\ IF mem[s] = "true"
       THEN domErrs' = ZIncr(domErrs, at[s], inc) /\ UNCHANGED domRunning
       ELSE domRunning' = ZIncr(domRunning, at[s], inc) /\ UNCHANGED domErrs
    /\ UNCHANGED <<running, errs>>

\* The increase of a start, the decrease of a failed start and of an end.
Reference(s) ==
    /\ \/ At(s, "incr") /\ IncreaseReference(s, 1) /\ Goto(s, "incr_domain")
       \/ At(s, "incr_domain") /\ IncreaseDomainReference(s, 1) /\ Goto(s, "attach")
       \/ At(s, "undo") /\ IncreaseReference(s, -1) /\ Goto(s, "undo_domain")
       \/ At(s, "decr") /\ IncreaseReference(s, -1) /\ Goto(s, "decr_domain")
    /\ UNCHANGED <<idle, domIdle, closing, fails, errorset, sess, alive, queue, daemon,
                   messages, local, forced, reports, bounds>>

\* attachUser; without docker's exception a failure would report the platform.
AttachUser(s) ==
    /\ At(s, "attach")
    /\ \/ at[s] \in alive /\ Goto(s, "refer") /\ UNCHANGED failed
       \/ at[s] \notin alive /\ Goto(s, "undo") /\ UNCHANGED failed
       \/ at[s] \in alive /\ Fail("attach") /\ Goto(s, "undo")
    /\ UNCHANGED <<redis, alive, queue, daemon, messages, local, forced, reports, requests>>

\* updatePlatformReference and the rest of the start.  Its hincrby writes the
\* platform's hash again if it was deleted.  At the threshold the platform is
\* moved to the errors to be started again; a start that fails now leaves the
\* session in platsesslist.
UpdatePlatformReference(s) ==
    /\ At(s, "refer")
    /\ sess' = [sess EXCEPT ![at[s]] = @ \cup {s}]
    /\ errorset' = [errorset EXCEPT ![at[s]] = IF @ = "none" THEN "false" ELSE @]
    /\ \/ Goto(s, "active") /\ Publish("refresh") /\ UNCHANGED failed
       \/ Fail("threshold") /\ Goto(s, "score") /\ Publish("refresh")
       \/ Fail("late") /\ Goto(s, "undo") /\ UNCHANGED messages
    /\ UNCHANGED <<lists, fails, alive, queue, daemon, local, forced, reports, requests>>

\* endSession gives up when the platform cannot be loaded.
EndSession(s) ==
    /\ At(s, "active") /\ errorset[at[s]] # "none"
    /\ mem' = [mem EXCEPT ![s] = errorset[at[s]]]
    /\ Goto(s, "unrefer")
    /\ UNCHANGED <<redis, alive, queue, daemon, messages, at, score, forced, reports, bounds>>

\* detachUser and deletePlatformReference.
DeletePlatformReference(s) ==
    /\ At(s, "unrefer")
    /\ sess' = [sess EXCEPT ![at[s]] = @ \ {s}]
    /\ \/ UNCHANGED <<reports, failed>>
       \/ Fail("detach") /\ reports' = reports \cup {s}
    /\ Goto(s, "decr")
    /\ UNCHANGED <<lists, fails, errorset, alive, queue, daemon, messages, local, forced, requests>>

\* The second decrease, and the end of endSession or of the failed start.
LastReference(s) ==
    /\ pc[s] \in {"undo_domain", "decr_domain"}
    /\ IncreaseDomainReference(s, -1)
    /\ IF s \in reports THEN Goto(s, "score") /\ UNCHANGED local ELSE Finish(s, "gone")
    /\ IF At(s, "decr_domain") THEN Publish("refresh") ELSE UNCHANGED messages
    /\ UNCHANGED <<idle, domIdle, closing, fails, errorset, sess, alive, queue, daemon,
                   forced, reports, bounds>>

SessionSteps(s) ==
    LoadPlatform(s) \/ Reference(s) \/ AttachUser(s) \/ UpdatePlatformReference(s)
        \/ DeletePlatformReference(s) \/ LastReference(s) \/ Move(s)

-----------------------------------------------------------------------------
(* checkPlatforms: each listed platform is loaded and asked.                *)

CheckPlatform(c, p) ==
    /\ At(c, "idle") /\ \A d \in Checkers : At(d, "idle") \/ at[d] # p
    /\ p \in DOMAIN running /\ errorset[p] # "none"
    /\ at' = [at EXCEPT ![c] = p]
    /\ mem' = [mem EXCEPT ![c] = errorset[p]]
    /\ Goto(c, "http")
    /\ UNCHANGED <<redis, alive, queue, daemon, messages, score, forced, reports, bounds>>

\* The answer: the whole hash is saved, with the errorset read before; the
\* references of sessions that are gone are removed.
CheckAnswer(c) ==
    LET p == at[c] IN
    /\ At(c, "http")
    /\ errorset' = [errorset EXCEPT ![p] = mem[c]]
    /\ \/ /\ p \in alive
          /\ sess' = [sess EXCEPT ![p] = {s \in @ : ~At(s, "gone")}]
          /\ Finish(c, "idle")
          /\ UNCHANGED failed
       \/ /\ \/ p \notin alive /\ UNCHANGED failed
             \/ Fail("check")
          /\ Goto(c, "score")
          /\ UNCHANGED <<local, sess>>
    /\ UNCHANGED <<lists, fails, alive, queue, daemon, messages, forced, reports, requests>>

-----------------------------------------------------------------------------
(* killPlatform.                                                            *)

StartKills(r, ps) ==
    LET new == {p \in ps : killing[p] = "no"} IN
    /\ killing' = [p \in Platforms |-> IF p \in new THEN "load" ELSE killing[p]]
    /\ killer' = [p \in Platforms |-> IF p \in new THEN r ELSE killer[p]]
    /\ UNCHANGED toForce

KillStep(p, l) == killing' = [killing EXCEPT ![p] = l]
KillEnds(p)    ==
    /\ KillStep(p, "no")
    /\ killer' = [killer EXCEPT ![p] = None]
    /\ toForce' = [toForce EXCEPT ![p] = {}]

KillLoadNothing(p) ==
    /\ killing[p] = "load"
    /\ KillStep(p, "sessions_only")
    /\ UNCHANGED <<redis, alive, queue, runner, killer, toForce, messages, pc, local, forced, reports, bounds>>

KillLoad(p) ==
    /\ killing[p] = "load"
    /\ KillStep(p, IF errorset[p] = "none" THEN "sessions_only" ELSE "sessions")
    /\ UNCHANGED <<redis, alive, queue, runner, killer, toForce, messages, pc, local, forced, reports, bounds>>

\* The loop over SMEMBERS of platsesslist: it ends when the list is empty, and
\* an error of redis ends the kill.
KillListSessions(p) ==
    /\ killing[p] \in {"sessions", "sessions_only"} /\ toForce[p] = {}
    /\ \/ /\ sess[p] = {}
          /\ KillStep(p, IF killing[p] = "sessions" THEN "stop" ELSE "delete")
          /\ UNCHANGED <<killer, toForce, failed>>
       \/ /\ sess[p] # {}
          /\ toForce' = [toForce EXCEPT ![p] = sess[p]]
          /\ UNCHANGED <<killing, killer, failed>>
       \/ Fail("list") /\ KillEnds(p)
    /\ UNCHANGED <<redis, alive, queue, runner, messages, pc, local, forced, reports, requests>>

KillForceExitOnce(p) ==
    /\ toForce[p] # {}
    /\ forced' = forced \cup toForce[p]
    /\ toForce' = [toForce EXCEPT ![p] = {}]
    /\ KillStep(p, IF killing[p] = "sessions" THEN "stop" ELSE "delete")
    /\ UNCHANGED <<redis, alive, queue, runner, killer, messages, pc, local, reports, bounds>>

\* Each session of the list is loaded and gets forceExit; one that cannot be
\* loaded ends the kill.
KillForceExit(p) ==
    /\ \E s \in toForce[p] :
         \/ /\ ~At(s, "gone")
            /\ forced' = forced \cup {s}
            /\ toForce' = [toForce EXCEPT ![p] = @ \ {s}]
            /\ UNCHANGED <<killing, killer>>
         \/ At(s, "gone") /\ KillEnds(p) /\ UNCHANGED forced
    /\ UNCHANGED <<redis, alive, queue, runner, messages, pc, local, reports, bounds>>

\* stop_platform, whose error does not stop the kill.
KillStop(p) ==
    /\ killing[p] = "stop"
    /\ \/ alive' = alive \ {p} /\ UNCHANGED failed
       \/ Fail("stop") /\ UNCHANGED alive
    /\ KillStep(p, "delete")
    /\ UNCHANGED <<redis, queue, runner, killer, toForce, messages, pc, local, forced, reports, requests>>

DeletePlatform(p) ==
    /\ killing[p] = "delete"
    /\ RemoveFromLists(p)
    /\ closing' = closing \ {p}
    /\ errorset' = [errorset EXCEPT ![p] = "none"]
    /\ KillEnds(p)
    /\ UNCHANGED <<fails, sess, alive, queue, runner, messages, pc, local, forced, reports, bounds>>

KillPlatform(p) ==
    KillLoad(p) \/ KillListSessions(p) \/ KillForceExit(p) \/ KillStop(p) \/ DeletePlatform(p)

-----------------------------------------------------------------------------
(* The services refresh and closePlatforms, and their messages.             *)

Asked(r, m) == r \in {"refresh_channel", "close_channel"} => m \in messages
Taken(r, m) == messages' = IF r \in {"refresh_channel", "close_channel"} THEN messages \ {m} ELSE messages

Refresh(r) ==
    /\ r \in Refreshers /\ runner[r] = "idle" /\ Asked(r, "refresh")
    /\ Taken(r, "refresh")
    /\ runner' = [runner EXCEPT ![r] = IF PoolBusy = {} THEN "orgs" ELSE "idle"]
    /\ UNCHANGED <<redis, alive, queue, kills, pc, local, forced, reports, bounds>>

Suspended == {p \in DOMAIN errs : errs[p] <= 0}

\* The query of the organizations; its failure never calls back.
\* removeSuspendedPlatforms kills the platforms in error without sessions.
FindOrganizations(r) ==
    /\ r \in Refreshers /\ runner[r] = "orgs"
    /\ \/ /\ StartKills(r, Suspended)
          /\ runner' = [runner EXCEPT ![r] = "kills"]
          /\ UNCHANGED failed
       \/ /\ Fail("orgs")
          /\ runner' = [runner EXCEPT ![r] = IF r = "refresh_service" THEN "lost" ELSE "idle"]
          /\ UNCHANGED kills
    /\ UNCHANGED <<redis, alive, queue, messages, pc, local, forced, reports, requests>>

RequiredSigned == PoolSize - Cardinality(DOMAIN domRunning) - queued - Cardinality(PoolBusy)

\* How many platforms refreshHelper starts.
Required ==
    LET nRunning  == Cardinality(DOMAIN domRunning)
        nSessions == Cardinality({s \in Sessions : pc[s] \in {"active", "unrefer", "decr", "decr_domain"}})
        inQueue   == queued + Cardinality(PoolBusy)
        byDefault == PoolSize - nRunning - inQueue
                        - (IF FixedPool THEN Cardinality(DOMAIN domErrs) ELSE 0)
        above     == nRunning > 0 /\ nSessions * 100 > UpperCapacity * UsersPerPlatform * nRunning
        total     == Smallest(CeilDiv(nSessions * 100, UpperCapacity * UsersPerPlatform),
                              CeilDiv(MaxCapacity, UsersPerPlatform))
    IN IF byDefault > 0 THEN byDefault
       ELSE IF above THEN Largest(total - nRunning - inQueue, 0)
       ELSE 0

\* The counts, the new tasks, and the callback of the pool's drain, which
\* replaces the one that waits for it.
FillPool(r) ==
    /\ r \in Refreshers /\ runner[r] = "kills" /\ \A p \in Platforms : killer[p] # r
    /\ queued' = queued + Required
    /\ IF queued' = 0 /\ PoolBusy = {}
       THEN runner' = [runner EXCEPT ![r] = "idle"] /\ UNCHANGED drain
       ELSE /\ drain' = r
            /\ runner' = [q \in Runners |->
                 IF q = r THEN "wait"
                 ELSE IF q = drain /\ runner[q] = "wait"
                 THEN IF q = "refresh_service" THEN "lost" ELSE "idle"
                 ELSE runner[q]]
    /\ UNCHANGED <<redis, alive, finder, kills, messages, pc, local, forced, reports, bounds>>

ClosePlatforms(r) ==
    /\ r \in Closers /\ runner[r] = "idle" /\ Asked(r, "close")
    /\ Taken(r, "close")
    /\ StartKills(r, closing)
    /\ runner' = [runner EXCEPT ![r] = IF closing = {} THEN "idle" ELSE "kills"]
    /\ UNCHANGED <<redis, alive, queue, pc, local, forced, reports, bounds>>

CloseReturns(r) ==
    /\ r \in Closers /\ runner[r] = "kills" /\ \A p \in Platforms : killer[p] # r
    /\ runner' = [runner EXCEPT ![r] = "idle"]
    /\ UNCHANGED <<redis, alive, queue, kills, messages, pc, local, forced, reports, bounds>>

Serve(r) == Refresh(r) \/ FindOrganizations(r) \/ FillPool(r) \/ ClosePlatforms(r) \/ CloseReturns(r)

\* refresh returns at once while poolQueue runs tasks.
RefreshDropped ==
    /\ "refresh" \in messages /\ PoolBusy # {}
    /\ messages' = messages \ {"refresh"}
    /\ UNCHANGED <<redis, alive, queue, daemon, pc, local, forced, reports, bounds>>

-----------------------------------------------------------------------------
(* stopPlatform, disablePlatform and enablePlatform of                      *)
(* ControlPanel/platformControl.js.                                         *)

StopPlatform(p) ==
    /\ At(Admin, "idle") /\ errorset[p] # "none"
    /\ at' = [at EXCEPT ![Admin] = p]
    /\ \/ Ask("graceful") /\ Goto(Admin, "score")
       \/ Ask("close") /\ Goto(Admin, "close")
    /\ UNCHANGED <<redis, alive, queue, daemon, messages, mem, score, forced, reports, failed>>

\* Disabled, a platform has failed too often to be chosen again.
SetFails(p) ==
    /\ \/ Ask("disable") /\ fails' = [fails EXCEPT ![p] = MaxFails]
       \/ Ask("enable") /\ fails' = [fails EXCEPT ![p] = 0]
    /\ UNCHANGED <<lists, errorset, sess, alive, queue, daemon, messages, pc, local,
                   forced, reports, failed>>

-----------------------------------------------------------------------------
Next ==
    \/ \E t \in Tasks : Dispatch(t) \/ Register(t)
    \/ \E t \in Tasks, p \in Platforms : StartPlatform(t, p)
    \/ \E s \in Sessions : ChoosePlatform(s) \/ EndSession(s) \/ SessionSteps(s)
    \/ \E c \in Checkers : CheckAnswer(c) \/ Move(c) \/ \E p \in Platforms : CheckPlatform(c, p)
    \/ \E p \in Platforms : KillPlatform(p) \/ StopPlatform(p) \/ SetFails(p)
    \/ \E r \in Runners : Serve(r)
    \/ Move(Admin)
    \/ RefreshDropped

Spec == Init /\ [][Next]_vars

\* Calls return, services are called again, and a session with forceExit is
\* ended; each round of checkPlatforms asks every listed platform.  Nobody has to choose a platform,
\* or to end a session without forceExit.
Fairness ==
    /\ \A t \in Tasks : WF_vars(Dispatch(t)) /\ WF_vars(Register(t))
    /\ \A s \in Sessions : WF_vars(SessionSteps(s)) /\ WF_vars(s \in forced /\ EndSession(s))
    /\ \A c \in Checkers : WF_vars(CheckAnswer(c) \/ Move(c))
    /\ \A p \in Platforms : WF_vars(KillPlatform(p))
    /\ \A p \in Platforms : SF_vars(\E c \in Checkers : CheckPlatform(c, p))
    /\ \A r \in Runners : WF_vars(Serve(r))
    /\ WF_vars(Move(Admin))

FairSpec == Spec /\ Fairness

-----------------------------------------------------------------------------
(* Properties.                                                              *)

Resting(c) == pc[c] \in {"idle", "active", "gone"}
Quiet(p)   == \A c \in Procs : at[c] = p => Resting(c)
Users(p)   == {s \in Sessions : At(s, "active") /\ at[s] = p}

\* While nobody works on a platform it is in one list at most, and in the
\* domain's copy of that list: the moves of addToRunningPlatforms,
\* addToErrorPlatforms and registerPlatform's clean-up leave nothing behind.
InOneList == \A p \in Platforms : Quiet(p) =>
    /\ Cardinality({l \in {DOMAIN running, DOMAIN errs, idle, closing} : p \in l}) <= 1
    /\ p \in DOMAIN running <=> p \in DOMAIN domRunning
    /\ p \in DOMAIN errs <=> p \in DOMAIN domErrs
    /\ p \in idle <=> p \in domIdle

\* While nobody works on a platform, its score in both lists is the number
\* of its sessions: every way a start fails gives its reference back once.
ScoreMatches == \A p \in Platforms : Quiet(p) =>
    /\ ZScore(running, p) + ZScore(errs, p) = Cardinality(Users(p))
    /\ ZScore(domRunning, p) + ZScore(domErrs, p) = Cardinality(Users(p))

\* Both: what redis says of a platform is true whenever nobody works on it.
ListsSound == InOneList /\ ScoreMatches

\* A host that runs is in a list, being started or being killed: none is
\* forgotten when a start fails after start_platform.
NoOrphan == \A p \in alive :
    \/ p \in DOMAIN running \cup DOMAIN errs \cup idle \cup closing
    \/ killing[p] # "no"
    \/ \E t \in Tasks : at[t] = p /\ ~At(t, "idle")

\* An id is never left in platforms_idle: it has a task of
\* registerPlatformNum that is still going to take it out, whatever else
\* moves, kills or starts the platform meanwhile.
IdleHasTask == \A p \in Platforms :
    /\ p \in idle => \E t \in Tasks : at[t] = p /\ pc[t] \in HoldingPCs \ {"unmark_domain"}
    /\ p \in domIdle => \E t \in Tasks : at[t] = p /\ pc[t] \in HoldingPCs \ {"mark_domain"}

\* killPlatform takes neither the host nor the hash of a platform from a
\* session it told to exit: without the host the session's user is cut off,
\* and without the hash endSession gives up and the session stays for ever.
ForcedLeaveFirst ==
    [][\A s \in forced : At(s, "active") =>
          /\ at[s] \in alive => at[s] \in alive'
          /\ errorset[at[s]] # "none" => errorset'[at[s]] # "none"]_vars


=============================================================================

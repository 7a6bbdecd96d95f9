------------------------- MODULE SessionController -------------------------
(***************************************************************************)
(* src/SessionController.js: startSessionImp and endSession, run by several*)
(* request handlers at the same time, with the other writers of a session: *)
(* the gateway's suspend updates (src/redisGateway.js), killPlatform's     *)
(* forced exits (src/platform.js), the administrator's kill                *)
(* (src/ControlPanel/killDeviceSession.js) and the cleaner (src/cleaner.js)*)
(*                                                                         *)
(* A step is an await with what is done before the next one; the commands  *)
(* that list a session in a set are taken with the save they follow, and   *)
(* the two halves of updateGWSessionScore together.  Both operations hold  *)
(* the lock of the user and device, whose exclusion RedisLock establishes. *)
(* Platforms are docker hosts (no platform lock); platforms and gateways   *)
(* stay registered.                                                        *)
(***************************************************************************)
EXTENDS SessionStore

CONSTANTS
    Workers,        \* request handlers
    Cleaner,        \* the one that runs the cleaner service
    Dead,           \* holder of a lock whose process died
    LimitOne,       \* Common.limitOneSessionPerUser
    Failures,       \* calls that may fail, conditions that may arise
    Others,         \* the other writers that are active
    MaxStarts,      \* how many times a session start is requested
    MaxCrashes      \* how many times a process dies

FailureKinds == {"place", "attach", "gl", "localid", "threshold", "db", "plugin",
                 "nfs", "detach", "activation", "gwlock", "enddb"}
OtherKinds == {"gateway", "kill", "admin"}

ASSUME ControllerAssumption ==
    /\ Cleaner \in Workers
    /\ {None, Dead} \cap Workers = {} /\ None # Dead
    /\ LimitOne \in BOOLEAN
    /\ Failures \subseteq FailureKinds
    /\ Others \subseteq OtherKinds
    /\ MaxStarts \in Nat /\ MaxCrashes \in Nat

VARIABLES
    lock,       \* lock_<email>_<deviceid>: holder, None or Dead
    attached,   \* sessions whose user is attached on the platform
    errs,       \* platforms reported by addToErrorPlatforms
    connected,  \* user_devices rows with a platform and a gateway
    dcSet,      \* users whose data center is recorded
    pc, dev, cur, plugin, mem, built,   \* of each handler: where it is, the
                \* device, the session, the session type, its copy of the
                \* hash, and buildStatus
    oPc, oSess, oMem,                   \* the same for the other writers
    starts, crashes                     \* counters of the bounds

outside == <<attached, errs, connected, dcSet>>
own     == <<dev, cur, plugin, mem, built>>
other   == <<oPc, oSess, oMem>>
bounds  == <<starts, crashes>>
vars    == <<store, lock, outside, pc, own, other, bounds>>

StartPCs == {"start_lock", "lookup", "join", "limit", "create", "pointer", "userset",
             "suspend", "place", "attach", "gateway", "platref", "save", "dc",
             "connect", "started", "clean_plat", "clean_user", "clean_gw", "discard"}
EndPCs == {"kill_lock", "kill_load", "end_lock", "reload", "mark", "detach", "unref", "platdec", "activation",
           "gwunref", "delete", "report", "disconnect", "lastdevice", "cleardc"}
LastPCs == {"unlock", "revive", "forget"}
PCs == {"idle"} \cup StartPCs \cup EndPCs \cup LastPCs
BuildStatus == {"platref", "attached", "gwref", "revive", "platerr", "kill", "failed"}
Writers == {"gateway", "kill"}

SharedTypeOK ==
    /\ lock \in [Devices -> Workers \cup {None, Dead}]
    /\ attached \in SUBSET Sessions
    /\ errs \in SUBSET Platforms
    /\ connected \in SUBSET Devices
    /\ dcSet \in SUBSET Users
    /\ starts \in 0..MaxStarts
    /\ crashes \in 0..MaxCrashes

HandlerTypeOK ==
    /\ pc \in [Workers -> PCs]
    /\ dev \in [Workers -> Devices \cup {None}]
    /\ cur \in [Workers -> Sessions \cup {None}]
    /\ plugin \in [Workers -> BOOLEAN]
    /\ mem \in [Workers -> SUBSET Fields]
    /\ built \in [Workers -> SUBSET BuildStatus]

WriterTypeOK ==
    /\ oPc \in [Writers -> {"idle", "loaded", "saved"}]
    /\ oSess \in [Writers -> Sessions \cup {None}]
    /\ oMem \in [Writers -> SUBSET Fields]

TypeOK == StoreTypeOK /\ SharedTypeOK /\ HandlerTypeOK /\ WriterTypeOK

Init ==
    /\ StoreInit
    /\ lock = [d \in Devices |-> None]
    /\ attached = {} /\ errs = {} /\ connected = {} /\ dcSet = {}
    /\ pc = [w \in Workers |-> "idle"]
    /\ dev = [w \in Workers |-> None]
    /\ cur = [w \in Workers |-> None]
    /\ plugin = [w \in Workers |-> FALSE]
    /\ mem = [w \in Workers |-> {}]
    /\ built = [w \in Workers |-> {}]
    /\ oPc = [o \in Writers |-> "idle"]
    /\ oSess = [o \in Writers |-> None]
    /\ oMem = [o \in Writers |-> {}]
    /\ starts = 0 /\ crashes = 0

Goto(w, l)   == pc' = [pc EXCEPT ![w] = l]
At(w, l)     == pc[w] = l
Note(w, b)   == built' = [built EXCEPT ![w] = @ \cup b]
Fails(kind)  == kind \in Failures
Me(w)        == UserOf[dev[w]]

----------------------------------------------------------------------------
(* startSessionImp: the lock and the session of the device.                *)

\* A client asks for a type; a device is known to run the mobile one.
StartSessionFromClient(w) == \E kind \in BOOLEAN : plugin' = [plugin EXCEPT ![w] = kind]
StartSessionByDevice(w) == plugin' = [plugin EXCEPT ![w] = FALSE]

StartRequest(w, d) ==
    /\ At(w, "idle") /\ w # Cleaner
    /\ starts < MaxStarts
    /\ starts' = starts + 1
    /\ StartSessionFromClient(w) \/ StartSessionByDevice(w)
    /\ dev' = [dev EXCEPT ![w] = d]
    /\ Goto(w, "start_lock")
    /\ UNCHANGED <<store, lock, outside, cur, mem, built, other, crashes>>

LockAlwaysFree(d) == TRUE
LockFree(d) == lock[d] = None

Lock(w) ==
    /\ \/ At(w, "start_lock") /\ LockFree(dev[w]) /\ Goto(w, "lookup")
       \/ At(w, "end_lock") /\ LockFree(dev[w]) /\ Goto(w, "reload")
    /\ lock' = [lock EXCEPT ![dev[w]] = w]
    /\ UNCHANGED <<store, outside, own, other, bounds>>

Reset(w) ==
    /\ Goto(w, "idle")
    /\ dev' = [dev EXCEPT ![w] = None]
    /\ cur' = [cur EXCEPT ![w] = None]
    /\ plugin' = [plugin EXCEPT ![w] = FALSE]
    /\ mem' = [mem EXCEPT ![w] = {}]
    /\ built' = [built EXCEPT ![w] = {}]

\* All the retries of acquire found the key: the operation fails.
LockRefused(w) ==
    /\ pc[w] \in {"start_lock", "end_lock"}
    /\ ~LockFree(dev[w])
    /\ IF "kill" \in built[w] THEN Goto(w, "forget") /\ UNCHANGED own ELSE Reset(w)
    /\ UNCHANGED <<store, lock, outside, other, bounds>>

\* A session that is being deleted, forced to exit, or of another type is
\* not joined.
Joinable(w, s) ==
    /\ hash[s] \cap {"deleteFlag", "forceExit"} = {}
    /\ plugin[w] <=> "plugin" \in hash[s]

\* getSessionOfUserDevice, and the checks on the session that is found.  A
\* pointer to a hash that does not exist is an error.
Lookup(w) ==
    /\ At(w, "lookup")
    /\ LET s == SessionOfUserDevice(dev[w]) IN
       \/ /\ s = None
          /\ Goto(w, "limit")
          /\ UNCHANGED <<cur, mem>>
       \/ /\ s # None /\ Exists(s) /\ Joinable(w, s)
          /\ cur' = [cur EXCEPT ![w] = s]
          /\ mem' = [mem EXCEPT ![w] = hash[s]]
          /\ Goto(w, "join")
       \/ /\ s # None /\ ~(Exists(s) /\ Joinable(w, s))
          /\ Goto(w, "unlock")
          /\ UNCHANGED <<cur, mem>>
    /\ UNCHANGED <<store, lock, outside, dev, plugin, built, other, bounds>>

\* The session is joined: the platform is loaded, a new login token is
\* written, a plugin is told, and the copy read by Lookup is saved over the
\* hash.  The plugin may fail, and is unknown in a session half built.
Join(w) ==
    /\ At(w, "join")
    /\ \/ /\ plugin[w] => "placed" \in mem[w]
          /\ Save(cur[w], mem[w])
          /\ Goto(w, "started")
       \/ /\ plugin[w]
          /\ Fails("plugin") \/ "placed" \notin mem[w]
          /\ \E token \in SUBSET {"active"} : hash' = [hash EXCEPT ![cur[w]] = @ \cup token]
          /\ Goto(w, "unlock")
    /\ UNCHANGED <<usersess, userset, listed, unlisted, suspended, refs, ids>>
    /\ UNCHANGED <<lock, outside, own, other, bounds>>

----------------------------------------------------------------------------
(* startSessionImp: a new session.                                         *)

\* limitOneSessionPerUser counts the sessions of the user; then the session
\* object gets a new id.
Limit(w) ==
    /\ At(w, "limit")
    /\ \/ /\ LimitOne /\ userset[Me(w)] # {}
          /\ Goto(w, "unlock")
          /\ UNCHANGED <<cur, mem, deviceOf>>
       \/ /\ ~(LimitOne /\ userset[Me(w)] # {})
          /\ \E s \in Sessions :
                /\ deviceOf[s] = None
                /\ deviceOf' = [deviceOf EXCEPT ![s] = dev[w]]
                /\ cur' = [cur EXCEPT ![w] = s]
          /\ mem' = [mem EXCEPT ![w] = {"active", "device"}
                        \cup (IF plugin[w] THEN {"plugin"} ELSE {})]
          /\ Goto(w, "create")
    /\ UNCHANGED <<keys, refs, platOf, gwOf, lock, outside, dev, plugin, built, other, bounds>>

CreateSession(w) ==
    /\ At(w, "create")
    /\ Create(cur[w], mem[w])
    /\ Goto(w, "pointer")
    /\ UNCHANGED <<usersess, userset, suspended, refs, ids>>
    /\ UNCHANGED <<lock, outside, own, other, bounds>>

SetPointer(w) ==
    /\ At(w, "pointer")
    /\ usersess' = [usersess EXCEPT ![dev[w]] = cur[w]]
    /\ Goto(w, "userset")
    /\ UNCHANGED <<hash, userset, listed, unlisted, suspended, refs, ids>>
    /\ UNCHANGED <<lock, outside, own, other, bounds>>

AddToUser(w) ==
    /\ At(w, "userset")
    /\ userset' = [userset EXCEPT ![Me(w)] = @ \cup {cur[w]}]
    /\ Goto(w, "suspend")
    /\ UNCHANGED <<hash, usersess, listed, unlisted, suspended, refs, ids>>
    /\ UNCHANGED <<lock, outside, own, other, bounds>>

\* Suspended until the first connection; from here on an error deletes it.
SuspendNew(w) ==
    /\ At(w, "suspend")
    /\ mem' = [mem EXCEPT ![w] = @ \cup {"suspend"}]
    /\ Suspend(cur[w], mem'[w])
    /\ Goto(w, "place")
    /\ UNCHANGED <<usersess, userset, listed, unlisted, refs, ids>>
    /\ UNCHANGED <<lock, outside, dev, cur, plugin, built, other, bounds>>

\* allowconnect is read from the promise of Orgs.findOne, which is not awaited:
\* it is undefined, never 0.
OrgRefuses(u) == FALSE

\* A plugin session is started by its plugin.  Otherwise the folders and the
\* nfs are found, platDomain is set and a platform takes the session.
Place(w) ==
    /\ At(w, "place")
    /\ \/ /\ ~OrgRefuses(Me(w)) /\ plugin[w]
          /\ Goto(w, "save")
          /\ UNCHANGED <<platScore, platOf, mem, built>>
       \/ /\ ~OrgRefuses(Me(w)) /\ ~plugin[w]
          /\ \E p \in Platforms \ errs :
                /\ platOf' = [platOf EXCEPT ![cur[w]] = p]
                /\ platScore' = [platScore EXCEPT ![p] = @ + 1]
          /\ mem' = [mem EXCEPT ![w] = @ \cup {"domain"}]
          /\ Note(w, {"platref"})
          /\ Goto(w, "attach")
       \/ /\ ~plugin[w]
          /\ Fails("place") \/ Platforms = errs
          /\ mem' = [mem EXCEPT ![w] = @ \cup {"domain"}]
          /\ Goto(w, "clean_plat")
          /\ UNCHANGED <<platScore, platOf, built>>
       \/ /\ OrgRefuses(Me(w)) \/ Fails(IF plugin[w] THEN "plugin" ELSE "place")
          /\ Goto(w, "clean_plat")
          /\ UNCHANGED <<platScore, platOf, mem, built>>
    /\ UNCHANGED <<keys, platlist, gwlist, gwScore, deviceOf, gwOf>>
    /\ UNCHANGED <<lock, outside, dev, cur, plugin, other, bounds>>

findGateway(s) == \E g \in Gateways : gwOf' = [gwOf EXCEPT ![s] = g]

\* A gateway is chosen and the user is attached on the platform.
Attach(w) ==
    /\ At(w, "attach")
    /\ \/ /\ findGateway(cur[w])
          /\ attached' = attached \cup {cur[w]}
          /\ Note(w, {"attached"})
          /\ Goto(w, "gateway")
       \/ /\ Fails("attach")
          /\ Goto(w, "clean_plat")
          /\ UNCHANGED <<gwOf, attached, built>>
    /\ UNCHANGED <<keys, refs, deviceOf, platOf, lock, errs, connected, dcSet>>
    /\ UNCHANGED <<dev, cur, plugin, mem, other, bounds>>

\* startNuboGL may fail; then the gateway counts the session.
CountOnGateway(w) ==
    /\ At(w, "gateway")
    /\ \/ /\ UpdateGWSessionScore(cur[w], 1)
          /\ Note(w, {"gwref"})
          /\ Goto(w, "platref")
       \/ Fails("gl") /\ Goto(w, "clean_plat") /\ UNCHANGED <<gwlist, gwScore, built>>
    /\ UNCHANGED <<keys, platlist, platScore, ids, lock, outside>>
    /\ UNCHANGED <<dev, cur, plugin, mem, other, bounds>>

\* updatePlatformReference; it fails when the platform returned no localid.
\* A platform that created too many sessions is to be restarted.
ListOnPlatform(w) ==
    /\ At(w, "platref")
    /\ \/ /\ platlist' = [platlist EXCEPT ![platOf[cur[w]]] = @ \cup {cur[w]}]
          /\ Note(w, {}) \/ (Fails("threshold") /\ Note(w, {"revive"}))
          /\ Goto(w, "save")
       \/ Fails("localid") /\ Goto(w, "clean_plat") /\ UNCHANGED <<platlist, built>>
    /\ UNCHANGED <<keys, platScore, gwlist, gwScore, ids, lock, outside>>
    /\ UNCHANGED <<dev, cur, plugin, mem, other, bounds>>

SaveSession(w) ==
    /\ At(w, "save")
    /\ mem' = [mem EXCEPT ![w] = @ \cup {"placed"}]
    /\ Save(cur[w], mem'[w])
    /\ Goto(w, "dc")
    /\ UNCHANGED <<usersess, userset, listed, unlisted, suspended, refs, ids>>
    /\ UNCHANGED <<lock, outside, dev, cur, plugin, built, other, bounds>>

\* The data center of the user is recorded.
RecordDataCenter(w) ==
    /\ At(w, "dc")
    /\ \/ dcSet' = dcSet \cup {Me(w)} /\ Goto(w, "connect")
       \/ Fails("db") /\ Goto(w, "clean_plat") /\ UNCHANGED dcSet
    /\ UNCHANGED <<store, lock, attached, errs, connected, own, other, bounds>>

RowOfSession(w) == IF plugin[w] THEN {} ELSE {cur[w]}
\* The row of a plugin session gets no platform.
ConnectedRow(w) == IF plugin[w] THEN {} ELSE {dev[w]}

\* updateUserConnectedDevice
Connect(w) ==
    /\ At(w, "connect")
    /\ \/ /\ connected' = connected \cup ConnectedRow(w)
          /\ Goto(w, "started")
       \/ Fails("db") /\ Goto(w, "clean_plat") /\ UNCHANGED connected
    /\ UNCHANGED <<store, lock, attached, errs, dcSet, own, other, bounds>>

----------------------------------------------------------------------------
(* startSessionImp: the error path.                                        *)

\* What buildStatus says was done is undone.  The entry in platsesslist is left
\* to the platform check.
CleanNothing(w) == UNCHANGED platScore

CleanReference(w) ==
    IF "platref" \in built[w] THEN IncreaseReference(cur[w], -1) ELSE UNCHANGED platScore

CleanPlatform(w) ==
    /\ At(w, "clean_plat")
    /\ CleanReference(w)
    /\ Goto(w, "clean_user")
    /\ UNCHANGED <<keys, platlist, gwlist, gwScore, ids, lock, outside, own, other, bounds>>

\* An error of detachUser is only logged.
CleanUser(w) ==
    /\ At(w, "clean_user")
    /\ \/ attached' = IF "attached" \in built[w] THEN attached \ {cur[w]} ELSE attached
       \/ Fails("detach") /\ UNCHANGED attached
    /\ Goto(w, "clean_gw")
    /\ UNCHANGED <<store, lock, errs, connected, dcSet, own, other, bounds>>

CleanGateway(w) ==
    /\ At(w, "clean_gw")
    /\ IF "gwref" \in built[w]
       THEN UpdateGWSessionScore(cur[w], 1) ELSE UNCHANGED <<gwlist, gwScore>>
    /\ Goto(w, "discard")
    /\ UNCHANGED <<keys, platlist, platScore, ids, lock, outside, own, other, bounds>>

Discard(w) ==
    /\ At(w, "discard")
    /\ Del(cur[w], mem[w])
    /\ Goto(w, "unlock")
    /\ UNCHANGED <<refs, ids, lock, outside, own, other, bounds>>

\* release: the DEL takes the key away whoever has it.
Unlock(w) ==
    /\ pc[w] \in {"unlock", "started"}
    /\ lock' = [lock EXCEPT ![dev[w]] = None]
    /\ \/ "revive" \in built[w] /\ Goto(w, "revive") /\ UNCHANGED own
       \/ {"kill", "failed"} \subseteq built[w] /\ Goto(w, "forget") /\ UNCHANGED own
       \/ "revive" \notin built[w] /\ ~({"kill", "failed"} \subseteq built[w]) /\ Reset(w)
    /\ UNCHANGED <<store, outside, other, bounds>>

\* A platform to be restarted is reported after the lock is released.
Revive(w) ==
    /\ At(w, "revive")
    /\ errs' = errs \cup {platOf[cur[w]]}
    /\ Reset(w)
    /\ UNCHANGED <<store, lock, attached, connected, dcSet, other, bounds>>

----------------------------------------------------------------------------
(* endSession.                                                             *)

\* The callers: a device logs out or an administrator's action closes its session,
\* a client closes all sessions of the user, and the cleaner takes those whose
\* time is over.  The session is loaded for the name of its lock.
\* The daemon also ends, for a platform, those that are on its list and, when it was
\* asked, not among the sessions it runs.
OnSomePlatform(s) == \E p \in Platforms : s \in platlist[p]

LogoutUser(s) == SessionOfUserDevice(deviceOf[s]) = s
CloseOtherSessions(s) == s \in SessionsOfUser(UserOfSession(s))

EndRequest(w, s) ==
    /\ At(w, "idle")
    /\ "device" \in hash[s]
    /\ IF w = Cleaner THEN suspended[s] = "due"
       ELSE LogoutUser(s) \/ CloseOtherSessions(s) \/ OnSomePlatform(s)
    /\ cur' = [cur EXCEPT ![w] = s]
    /\ dev' = [dev EXCEPT ![w] = deviceOf[s]]
    /\ Goto(w, "end_lock")
    /\ UNCHANGED <<store, lock, outside, plugin, mem, built, other, bounds>>

\* killDeviceSession: the pointer of the device is read ...
FindKilled(w, d) ==
    /\ At(w, "idle") /\ w # Cleaner
    /\ dev' = [dev EXCEPT ![w] = d]
    /\ LET s == SessionOfUserDevice(d) IN
       \/ s = None /\ Goto(w, "forget") /\ UNCHANGED <<cur, built>>
       \/ /\ s # None
          /\ cur' = [cur EXCEPT ![w] = s]
          /\ Note(w, {"kill"})
          /\ Goto(w, "kill_lock")
    /\ UNCHANGED <<lock, plugin>>

\* ... the lock of the device is removed, whoever has it ...
RemoveLock(w, d) ==
    /\ At(w, "kill_lock") /\ dev[w] = d
    /\ lock' = [lock EXCEPT ![d] = None]
    /\ Goto(w, "kill_load")
    /\ UNCHANGED own

\* ... and endSession loads the session for the name of its lock.
LoadKilled(w, d) ==
    /\ At(w, "kill_load") /\ dev[w] = d
    /\ Goto(w, IF "device" \in hash[cur[w]] THEN "end_lock" ELSE "forget")
    /\ UNCHANGED <<lock, own>>

\* A session that is not found, here or under the lock, is an error ...
AdminKill(w, d) ==
    /\ "admin" \in Others
    /\ FindKilled(w, d) \/ RemoveLock(w, d) \/ LoadKilled(w, d)
    /\ UNCHANGED <<store, outside, mem, other, bounds>>

\* ... and after an error the row of the device is cleared.
ForgetDevice(w) ==
    /\ At(w, "forget")
    /\ connected' = connected \ {dev[w]}
    /\ Reset(w)
    /\ UNCHANGED <<store, lock, attached, errs, dcSet, other, bounds>>

MayEndStale(s) == "placed" \in hash[s] \/ platOf[s] # None
MayEndActive(s) == "placed" \in hash[s] /\ "suspend" \notin hash[s]
MayEnd(s) == "placed" \in hash[s]

\* The session is loaded again under the lock: it must still be there, with the
\* name of its plugin or else with a platform; the nfs may not be found.
Reload(w) ==
    /\ At(w, "reload")
    /\ LET s == cur[w] IN
       \/ /\ MayEnd(s)
          /\ mem' = [mem EXCEPT ![w] = hash[s]]
          /\ plugin' = [plugin EXCEPT ![w] = "plugin" \in hash[s]]
          /\ Goto(w, "mark")
          /\ UNCHANGED built
       \/ /\ ~MayEnd(s) \/ ("plugin" \notin hash[s] /\ Fails("nfs"))
          /\ Note(w, {"failed"})
          /\ Goto(w, "unlock")
          /\ UNCHANGED <<mem, plugin>>
    /\ UNCHANGED <<store, lock, outside, dev, cur, other, bounds>>

MarkDeleted(w) ==
    /\ At(w, "mark")
    /\ mem' = [mem EXCEPT ![w] = @ \cup {"deleteFlag"}]
    /\ Save(cur[w], mem'[w])
    /\ Goto(w, IF plugin[w] THEN "activation" ELSE "detach")
    /\ UNCHANGED <<usersess, userset, listed, unlisted, suspended, refs, ids>>
    /\ UNCHANGED <<lock, outside, dev, cur, plugin, built, other, bounds>>

\* A platform known to be unreachable is not asked; an error of detachUser is
\* logged and may report the platform.
Detach(w) ==
    /\ At(w, "detach")
    /\ \/ attached' = attached \ {cur[w]} /\ UNCHANGED built
       \/ /\ Fails("detach")
          /\ \E report \in SUBSET {"platerr"} : Note(w, report)
          /\ UNCHANGED attached
    /\ Goto(w, "unref")
    /\ UNCHANGED <<store, lock, errs, connected, dcSet, dev, cur, plugin, mem, other, bounds>>

\* deletePlatformReference, then increaseReference(-1).
UnrefPlatform(w) ==
    /\ At(w, "unref")
    /\ platlist' = [platlist EXCEPT ![platOf[cur[w]]] = @ \ {cur[w]}]
    /\ Goto(w, "platdec")
    /\ UNCHANGED <<keys, platScore, gwlist, gwScore, ids, lock, outside, own, other, bounds>>

DecreasePlatform(w) ==
    /\ At(w, "platdec")
    /\ IncreaseReference(cur[w], -1)
    /\ Goto(w, "activation")
    /\ UNCHANGED <<keys, platlist, gwlist, gwScore, ids, lock, outside, own, other, bounds>>

\* The activation's online status; an error skips the gateway.
UpdateActivation(w) ==
    /\ At(w, "activation")
    /\ \/ Goto(w, IF plugin[w] THEN "delete" ELSE "gwunref")
       \/ Fails("activation") /\ Goto(w, "delete")
    /\ UNCHANGED <<store, lock, outside, own, other, bounds>>

\* The lock of the gateway may be refused; then the gateway is skipped too.
UnrefGateway(w) ==
    /\ At(w, "gwunref")
    /\ \/ UpdateGWSessionScore(cur[w], -1)
       \/ Fails("gwlock") /\ UNCHANGED <<gwlist, gwScore>>
    /\ Goto(w, "delete")
    /\ UNCHANGED <<keys, platlist, platScore, ids, lock, outside, own, other, bounds>>

\* The session object goes, and a platform that failed is reported.
DeleteSession(w) ==
    /\ At(w, "delete")
    /\ Del(cur[w], mem[w])
    /\ Goto(w, IF "platerr" \in built[w] THEN "report" ELSE "disconnect")
    /\ UNCHANGED <<refs, ids, lock, outside, own, other, bounds>>

ReportPlatform(w) ==
    /\ At(w, "report")
    /\ errs' = errs \cup {platOf[cur[w]]}
    /\ Goto(w, "disconnect")
    /\ UNCHANGED <<store, lock, attached, connected, dcSet, own, other, bounds>>

Disconnect(w) ==
    /\ At(w, "disconnect")
    /\ \/ connected' = connected \ {dev[w]} /\ Goto(w, "lastdevice") /\ UNCHANGED built
       \/ Fails("enddb") /\ Goto(w, "unlock") /\ Note(w, {"failed"}) /\ UNCHANGED connected
    /\ UNCHANGED <<store, lock, attached, errs, dcSet, dev, cur, plugin, mem, other, bounds>>

\* The connected devices of the user are counted ...
UserConnectedDevices(u) == {d \in connected : UserOf[d] = u}
LastDevice(w) ==
    /\ At(w, "lastdevice")
    /\ Goto(w, IF UserConnectedDevices(Me(w)) # {} THEN "unlock" ELSE "cleardc")
    /\ UNCHANGED <<store, lock, outside, own, other, bounds>>

\* ... and with none left the data center of the user is forgotten.
ClearDataCenter(w) ==
    /\ At(w, "cleardc")
    /\ dcSet' = dcSet \ {Me(w)}
    /\ Goto(w, "unlock")
    /\ UNCHANGED <<store, lock, attached, errs, connected, own, other, bounds>>

----------------------------------------------------------------------------
(* The other writers of a session, which take no lock.                     *)

\* What is written later: all the fields, or those the gateway reports.
Copy(o, s, suspend) == IF o = "kill" THEN hash[s] \cup {"forceExit"} ELSE suspend

\* validateUpdSession and killPlatform read the hash ...
OtherLoad(o, s) ==
    /\ o \in Others
    /\ oPc[o] = "idle"
    /\ "device" \in hash[s]
    /\ o = "kill" => OnSomePlatform(s)
    /\ \E suspend \in SUBSET {"suspend"} :
          oMem' = [oMem EXCEPT ![o] = Copy(o, s, suspend)]
    /\ oSess' = [oSess EXCEPT ![o] = s]
    /\ oPc' = [oPc EXCEPT ![o] = "loaded"]
    /\ UNCHANGED <<store, lock, outside, pc, own, bounds>>

\* ... write it: the gateway its own fields, killPlatform all of them ...
OtherSave(o) ==
    /\ oPc[o] = "loaded"
    /\ LET s == oSess[o] IN
       \/ o = "kill" /\ Save(s, oMem[o])
       \/ /\ o = "gateway"
          /\ hash' = [hash EXCEPT ![s] = (@ \ {"suspend"}) \cup {"active"} \cup oMem[o]]
    /\ oPc' = [oPc EXCEPT ![o] = "saved"]
    /\ UNCHANGED <<usersess, userset, listed, unlisted, suspended, refs, ids>>
    /\ UNCHANGED <<lock, outside, pc, own, oSess, oMem, bounds>>

\* ... and set its place in suspend_sessions.
OtherSchedule(o) ==
    /\ oPc[o] = "saved"
    /\ suspended' = [suspended EXCEPT ![oSess[o]] =
                        IF o = "kill" THEN "due"
                        ELSE IF oMem[o] = {} THEN "no" ELSE "later"]
    /\ oPc' = [oPc EXCEPT ![o] = "idle"]
    /\ oSess' = [oSess EXCEPT ![o] = None]
    /\ oMem' = [oMem EXCEPT ![o] = {}]
    /\ UNCHANGED <<hash, usersess, userset, listed, unlisted, refs, ids>>
    /\ UNCHANGED <<lock, outside, pc, own, bounds>>

\* The score of a suspended session passes.
SuspendTimeout(s) ==
    /\ suspended[s] = "later"
    /\ suspended' = [suspended EXCEPT ![s] = "due"]
    /\ UNCHANGED <<hash, usersess, userset, listed, unlisted, refs, ids>>
    /\ UNCHANGED <<lock, outside, pc, own, other, bounds>>

\* The process of a handler dies; its lock lives until redis drops it.
Crash(w) ==
    /\ crashes < MaxCrashes
    /\ ~At(w, "idle")
    /\ crashes' = crashes + 1
    /\ lock' = [d \in Devices |-> IF lock[d] = w THEN Dead ELSE lock[d]]
    /\ Reset(w)
    /\ UNCHANGED <<store, outside, other, starts>>

LockExpires(d) ==
    /\ lock[d] = Dead
    /\ lock' = [lock EXCEPT ![d] = None]
    /\ UNCHANGED <<store, outside, pc, own, other, bounds>>

----------------------------------------------------------------------------
StartStep(w) ==
    \/ Lookup(w) \/ Join(w) \/ Limit(w) \/ CreateSession(w) \/ SetPointer(w)
    \/ AddToUser(w) \/ SuspendNew(w) \/ Place(w) \/ Attach(w)
    \/ CountOnGateway(w) \/ ListOnPlatform(w) \/ SaveSession(w)
    \/ RecordDataCenter(w) \/ Connect(w)
    \/ CleanPlatform(w) \/ CleanUser(w) \/ CleanGateway(w) \/ Discard(w)

EndStep(w) ==
    \/ Reload(w) \/ MarkDeleted(w) \/ Detach(w) \/ UnrefPlatform(w)
    \/ DecreasePlatform(w) \/ UpdateActivation(w) \/ UnrefGateway(w)
    \/ DeleteSession(w) \/ ReportPlatform(w) \/ Disconnect(w) \/ LastDevice(w) \/ ClearDataCenter(w)

WorkerStep(w) ==
    \/ Lock(w) \/ LockRefused(w) \/ StartStep(w) \/ EndStep(w)
    \/ Unlock(w) \/ Revive(w) \/ ForgetDevice(w)

OtherStep(o) == OtherSave(o) \/ OtherSchedule(o)

Next ==
    \/ \E w \in Workers :
          \/ WorkerStep(w) \/ Crash(w)
          \/ \E d \in Devices : StartRequest(w, d) \/ AdminKill(w, d)
          \/ \E s \in Sessions : EndRequest(w, s)
    \/ \E o \in Writers : OtherStep(o) \/ \E s \in Sessions : OtherLoad(o, s)
    \/ \E s \in Sessions : SuspendTimeout(s)
    \/ \E d \in Devices : LockExpires(d)

Spec == Init /\ [][Next]_vars

\* Handlers run to their end and a dead holder's lock expires.  Nothing makes
\* a client ask for a session, but the cleaner's rounds go through every
\* session that is due: it takes each again and again.
Fairness ==
    /\ \A w \in Workers : WF_vars(WorkerStep(w) \/ (~At(w, "idle") /\ \E d \in Devices : AdminKill(w, d)))
    /\ \A o \in Writers : WF_vars(OtherStep(o))
    /\ \A d \in Devices : WF_vars(LockExpires(d))
    /\ \A s \in Sessions : SF_vars(EndRequest(Cleaner, s))

FairSpec == Spec /\ Fairness

----------------------------------------------------------------------------
(* Properties.                                                             *)

Quiet == (\A w \in Workers : At(w, "idle")) /\ (\A o \in Writers : oPc[o] = "idle")

\* A device's pointer leads to a session that exists and is its own: otherwise
\* every start on the device fails at getSessionOfUserDevice.
NoDanglingPointer ==
    \A d \in Devices : usersess[d] # None =>
        Exists(usersess[d]) /\ deviceOf[usersess[d]] = d

\* A device has at most one session hash, whatever start, failure and end
\* operations overlap.
OneSessionPerDevice ==
    \A s, t \in Sessions :
        {"device"} \subseteq hash[s] \cap hash[t] /\ deviceOf[s] = deviceOf[t] => s = t

\* A start that reports success hands out a session that is complete: it is
\* the one of the device, attached, and counted on platform and gateway.
StartedIsComplete ==
    \A w \in Workers : At(w, "started") =>
        LET s == cur[w] IN
        /\ usersess[dev[w]] = s /\ s \in userset[Me(w)] /\ "device" \in hash[s]
        /\ "plugin" \notin hash[s] =>
              /\ "placed" \in hash[s]
              /\ s \in attached
              /\ s \in platlist[platOf[s]] /\ s \in gwlist[gwOf[s]]

\* With no operation running, a platform's score is the number of its sessions.
PlatformScoreMatches ==
    Quiet => \A p \in Platforms :
        platScore[p] = Cardinality({s \in Sessions : platOf[s] = p /\ "placed" \in hash[s]})

\* The same for a gateway, and the set of its sessions has nothing else.
GatewayScoreMatches ==
    Quiet => \A g \in Gateways :
        /\ gwlist[g] = {s \in Sessions : gwOf[s] = g /\ "placed" \in hash[s]}
        /\ gwScore[g] = Cardinality(gwlist[g])

Gone(s) == deviceOf[s] # None /\ ~Exists(s)

\* A session that is gone has left the platform, the user and the cleaner.
GoneIsForgotten ==
    Quiet => \A s \in Sessions : Gone(s) =>
        /\ s \notin attached /\ s \notin listed
        /\ \A u \in Users : s \notin userset[u]
        /\ suspended[s] = "no"

\* A start and an end are all or nothing, also when one of their steps fails:
\* what was handed out is complete, what is over is nowhere, and the counters
\* of the gateways say so.
AllOrNothing == StartedIsComplete /\ GatewayScoreMatches /\ GoneIsForgotten

\* A session hash appears only when startSessionImp creates it: no late write
\* brings a deleted session back.
NoResurrection ==
    [][\A s \in Sessions : ~Exists(s) /\ Exists(s)'
            => \E w \in Workers : At(w, "create") /\ cur[w] = s]_vars

\* limitOneSessionPerUser: a user has at most one session.  Not true when two
\* devices of the user start at the same time.
AtMostOneSessionPerUser ==
    \A s, t \in Sessions :
        /\ LimitOne /\ {"device"} \subseteq hash[s] \cap hash[t]
        /\ UserOfSession(s) = UserOfSession(t)
        => s = t

\* A session that is due ends, unless the gateway resumes it.
DueSessionEnds ==
    \A s \in Sessions : suspended[s] = "due" ~> (suspended[s] # "due" \/ Gone(s))

----------------------------------------------------------------------------
(* What TypeOK and NoDanglingPointer rest on; see SessionProofs.           *)

\* A session that was created belongs to a device; a pointer is to a session
\* of the device, which has at least its sticky fields.
StoreSound ==
    /\ \A s \in Sessions : Exists(s) \/ platOf[s] # None => deviceOf[s] # None
    /\ \A d \in Devices : usersess[d] # None =>
          deviceOf[usersess[d]] = d /\ "active" \in hash[usersess[d]]

\* The fields of a session that is placed, and is not a plugin's, name a platform.
PlacedOn(fields, s) ==
    "placed" \in fields /\ "plugin" \notin fields => platOf[s] \in Platforms

PlacedSound ==
    /\ \A s \in Sessions : PlacedOn(hash[s], s)
    /\ \A w \in Workers : cur[w] # None => PlacedOn(mem[w], cur[w])
    /\ \A o \in Writers : oSess[o] # None => PlacedOn(oMem[o], oSess[o])

\* A handler works on a session of its device, and reports a platform only
\* when the session has one.
WorkerSound ==
    \A w \in Workers :
        /\ At(w, "idle") => cur[w] = None /\ mem[w] = {} /\ built[w] = {}
        /\ ~At(w, "idle") => dev[w] \in Devices
        /\ pc[w] \in {"start_lock", "lookup", "limit"} => built[w] = {} /\ cur[w] = None
        /\ pc[w] \notin {"idle", "start_lock", "lookup", "limit", "unlock", "forget"}
              => cur[w] \in Sessions
        /\ cur[w] # None => deviceOf[cur[w]] = dev[w]
        /\ At(w, "report") => "platerr" \in built[w]
        /\ At(w, "revive") => "revive" \in built[w]
        /\ {"platerr", "revive"} \cap built[w] # {}
              => cur[w] \in Sessions /\ platOf[cur[w]] \in Platforms
        /\ pc[w] \in {"create", "pointer", "userset", "suspend", "place"}
              => (plugin[w] => "plugin" \in mem[w])
        /\ pc[w] \in {"attach", "gateway", "platref", "unref", "platdec"} => platOf[cur[w]] \in Platforms
        /\ At(w, "save") => "plugin" \in mem[w] \/ platOf[cur[w]] \in Platforms
        /\ pc[w] \in {"mark", "detach"}
              => "placed" \in mem[w] /\ ("plugin" \in mem[w] => plugin[w])
        /\ At(w, "detach") => ~plugin[w]

\* The other writers have read a session that was created.
OtherSound ==
    \A o \in Writers :
        /\ oPc[o] = "idle" => oSess[o] = None
        /\ oPc[o] # "idle" => oSess[o] \in Sessions
        /\ oSess[o] # None => deviceOf[oSess[o]] # None

\* Until the pointer of the device is set, nobody else can do more with a new
\* session than find that it cannot be ended.
Fresh(w) ==
    /\ "active" \in mem[w] /\ "placed" \notin mem[w]
    /\ "placed" \notin hash[cur[w]] /\ platOf[cur[w]] = None
    /\ At(w, "pointer") => "active" \in hash[cur[w]]
    /\ \A d \in Devices : usersess[d] # cur[w]
    /\ \A x \in Workers \ {w} : cur[x] = cur[w] =>
          pc[x] \in {"end_lock", "reload", "unlock", "forget"}
    /\ \A o \in Writers : oSess[o] = cur[w] => "placed" \notin oMem[o]

FreshSound == \A w \in Workers : pc[w] \in {"create", "pointer"} => Fresh(w)

SessionInv ==
    StoreSound /\ PlacedSound /\ WorkerSound /\ OtherSound /\ FreshSound

----------------------------------------------------------------------------
(* What the properties of locked sessions rest on.  No process dies, and   *)
(* nobody but the gateway writes to a session without its lock.            *)

LockRespected == MaxCrashes = 0 /\ Others \subseteq {"gateway"}
NobodyElse    == MaxCrashes = 0 /\ Others = {}

\* Failures after which a counter of a gateway is wrong, or a user attached.
UncleanFailures == {"localid", "db", "detach", "activation", "gwlock"}

\* Places under the lock; those of a new session; those of one that ends; those
\* where the device's pointer leads to the session of the handler, and among them
\* those where the session is not complete.
LockedPCs  == (PCs \ {"idle", "start_lock", "end_lock", "kill_lock", "kill_load", "revive", "forget"})
NewPCs     == {"create", "pointer", "userset", "suspend", "place", "attach", "gateway",
               "platref", "save", "dc", "connect", "clean_plat", "clean_user", "clean_gw",
               "discard"}
EndingPCs  == {"mark", "detach", "unref", "platdec", "activation", "gwunref", "delete"}
PartialPCs == (NewPCs \ {"create", "pointer"}) \cup EndingPCs
PointedPCs == PartialPCs \cup {"join", "started"}

\* A lock has the handler that is inside.
LockKept == \A w \in Workers : pc[w] \in LockedPCs => lock[dev[w]] = w

\* What a handler knows of the pointer of its device stays so.
PointerKept ==
    \A w \in Workers :
        /\ pc[w] \in {"limit", "create", "pointer"} => usersess[dev[w]] = None
        /\ pc[w] \in PointedPCs => usersess[dev[w]] = cur[w]

\* A session with the fields of a device is the one of the device, or about to be;
\* no session has the fields that decide without them.
Core(fields) == fields \cap {"device", "plugin", "placed"}
DeviceKept ==
    /\ \A d \in Devices : usersess[d] # None => "device" \in hash[usersess[d]]
    /\ \A s \in Sessions : "device" \in hash[s] =>
          \/ usersess[deviceOf[s]] = s
          \/ \E w \in Workers : At(w, "pointer") /\ cur[w] = s
    /\ \A s \in Sessions : "device" \notin hash[s] => Core(hash[s]) = {}

\* A handler's copy has the fields of the hash that decide.
CopyKept ==
    \A w \in Workers :
        /\ At(w, "create") => Core(mem[w]) \subseteq {"device", "plugin"}
        /\ pc[w] \in NewPCs \cup PointedPCs => "device" \in mem[w]
        /\ pc[w] \in {"pointer"} \cup PointedPCs => Core(mem[w]) = Core(hash[cur[w]])
        /\ pc[w] \in NewPCs \cup EndingPCs => (plugin[w] <=> "plugin" \in mem[w])

\* The gateway reports whether the session is suspended, and nothing else.
GatewayKept ==
    /\ \A o \in Writers : oPc[o] # "idle" => o \in Others
    /\ oMem["gateway"] \subseteq {"suspend"}

LockInv == LockKept /\ PointerKept /\ DeviceKept /\ CopyKept /\ GatewayKept

\* A session that can be handed out.
OnPlatform(s) == platOf[s] \in Platforms /\ s \in platlist[platOf[s]]
OnGateway(s)  == gwOf[s] \in Gateways /\ s \in gwlist[gwOf[s]]
Complete(s) ==
    /\ s \in userset[UserOfSession(s)]
    /\ "plugin" \notin hash[s] =>
          "placed" \in hash[s] /\ s \in attached /\ OnPlatform(s) /\ OnGateway(s)

\* What a start has done so far.
BuiltKept ==
    \A w \in Workers :
        /\ pc[w] \in {"create", "pointer", "userset", "suspend", "place"} => platOf[cur[w]] = None
        /\ pc[w] \in {"create", "pointer", "userset", "suspend", "place", "attach"} => gwOf[cur[w]] = None
        /\ pc[w] \in NewPCs => ("platref" \in built[w] <=> platOf[cur[w]] # None)
        /\ pc[w] \in PartialPCs /\ "userset" # pc[w] => cur[w] \in userset[Me(w)]
        /\ pc[w] \in {"dc", "connect"} => "placed" \in mem[w]
        /\ ~plugin[w] =>
              /\ pc[w] \in {"gateway", "platref", "save", "dc", "connect"} => cur[w] \in attached
              /\ pc[w] \in {"platref", "save", "dc", "connect"} => OnGateway(cur[w])
              /\ pc[w] \in {"save", "dc", "connect"} => OnPlatform(cur[w])
        /\ pc[w] = "gateway" => gwOf[cur[w]] \in Gateways

\* A plugin's session is on no platform; a platform comes before all else.
PluginApart ==
    /\ \A s \in Sessions : "plugin" \in hash[s] => platOf[s] = None /\ gwOf[s] = None
    /\ \A s \in Sessions : s \in attached \/ gwOf[s] # None => platOf[s] # None
    /\ \A w \in Workers : pc[w] \in NewPCs /\ plugin[w] => platOf[cur[w]] = None /\ gwOf[cur[w]] = None

\* A session that nobody is starting or ending can be handed out.
CompleteKept ==
    \A d \in Devices :
        usersess[d] # None /\ (\A w \in Workers : dev[w] = d => pc[w] \notin PartialPCs)
        => Complete(usersess[d])

CompleteInv == BuiltKept /\ PluginApart /\ CompleteKept

\* The sessions a platform's score counts: not those whose handler has taken
\* them off.
OffPCs == {"clean_user", "clean_gw", "discard", "activation", "gwunref", "delete"}
Counted(p) ==
    {s \in Sessions : /\ platOf[s] = p /\ "device" \in hash[s]
                      /\ \A w \in Workers : pc[w] \in OffPCs => cur[w] # s}
ScoreKept == \A p \in Platforms : platScore[p] = Cardinality(Counted(p))

\* The set of a gateway has its sessions, and what a handler does not undo is not done.
GatewaySetKept ==
    /\ \A g \in Gateways : gwScore[g] = Cardinality(gwlist[g])
    /\ \A g \in Gateways : \A s \in gwlist[g] : gwOf[s] = g /\ "device" \in hash[s]
    /\ \A w \in Workers :
          /\ pc[w] \in {"gateway", "clean_plat", "clean_user", "clean_gw", "discard", "delete"}
                => \A g \in Gateways : cur[w] \notin gwlist[g]
          /\ pc[w] \in NewPCs \ {"platref", "save", "dc", "connect"} => "gwref" \notin built[w]
          /\ pc[w] \in EndingPCs \ {"delete"} /\ ~plugin[w] => OnGateway(cur[w])

\* Who is gone is nowhere, and who goes has been detached.
GoneKept ==
    /\ \A s \in listed : Exists(s)
    /\ \A u \in Users : \A s \in userset[u] : Exists(s) /\ UserOfSession(s) = u
    /\ \A s \in Sessions : suspended[s] # "no" => Exists(s)
    /\ \A s \in attached : Exists(s)
    /\ \A w \in Workers :
          /\ pc[w] \in NewPCs /\ cur[w] \in attached => "attached" \in built[w]
          /\ pc[w] \in {"clean_gw", "discard", "unref", "platdec", "activation", "gwunref", "delete"}
                => cur[w] \notin attached

CleanInv == GatewaySetKept /\ GoneKept
=============================================================================

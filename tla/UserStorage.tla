---------------------------- MODULE UserStorage -----------------------------
(* The folders of one user (userUtils.js): a data folder for each device, the
   user's media folder, the image of a device on docker platforms with the lock
   of lock-async.js, and the settings files that wait in the data folder. Only
   the start and the end of a session hold the lock of the device.            *)
EXTENDS Naturals, FiniteSets

CONSTANTS
    StorageDevices,
    DeviceKind,     \* "docker" and "tar": a mobile device there; "desktop"
    Configured,     \* what the user has of "account", "telephony" and "appstore"
    StorageThreads,
    StorageBudgets

Params == {"account", "telephony", "appstore"}
StorageOps == {"start", "approve", "settings", "end", "delete", "general", "fault", "slow", "overlap"}

ASSUME StorageAssumption ==
    /\ StorageDevices # {}
    /\ DeviceKind \in [StorageDevices -> {"docker", "tar", "desktop"}]
    /\ Configured \subseteq Params
    /\ "free" \notin StorageThreads
    /\ StorageBudgets \subseteq [StorageOps -> Nat]

VARIABLES
    folder,         \* data folders that exist
    filled,         \* with the whole new user archive extracted
    system,         \* with user.img or the folder user
    data,           \* what is in them: "none", "fresh" or "used" by a session
    media,          \* storage/media exists
    enabled,        \* devices whose apps are in device_apps
    files, listed,  \* settings files of a device, and those in updates.json
    session,        \* devices with a running session
    attached,       \* devices whose data a platform has mounted
    clinging,       \* history: those whose data a session left attached when it ended
    held,           \* lock_<email>_<device>
    imageLock,      \* lock_mount_<image>
    job,            \* what each thread does
    excused,        \* devices with a flaw that README lists
    storageLeft     \* what may still be asked
storageVars == <<folder, filled, system, data, media, enabled, files, listed, session, attached,
                 clinging, held, imageLock, job, excused, storageLeft>>
disk == <<folder, filled, system, data, media>>
settings == <<files, listed>>
platforms == <<attached, clinging>>
locks == <<held, imageLock>>

-----------------------------------------------------------------------------
NoJob == [at |-> "idle", dev |-> CHOOSE d \in StorageDevices : TRUE, exist |-> FALSE, over |-> FALSE,
          todo |-> {}, list |-> {}, param |-> "", then |-> "", rest |-> {}]
JobDev(t) == job[t].dev
JobAt(t, place) == job[t].at = place
JobIdle(t) == JobAt(t, "idle")
JobGoes(t, place) == job' = [job EXCEPT ![t].at = place]
JobEnds(t) == job' = [job EXCEPT ![t] = NoJob]
IsDocker(d) == DeviceKind[d] = "docker"
IsMobile(d) == DeviceKind[d] # "desktop"

StorageQuiet == \A t \in StorageThreads : JobIdle(t)

\* The devices whose folders a call may touch: a call on a device that another
\* one is at work on is excused.
Concerned(t) == IF job[t].then \in {"device", "all", "wipe"} THEN job[t].todo ELSE {JobDev(t)}
BusyWith(ds) == {d \in ds : \E t \in StorageThreads : ~JobIdle(t) /\ d \in Concerned(t)}
ExcuseDevices(ds) == excused' = excused \cup ds

\* A call begins; calls at the same time need a budget.
BeginJob(t, op, new) ==
    /\ JobIdle(t) /\ storageLeft[op] > 0 /\ (StorageQuiet \/ storageLeft["overlap"] > 0)
    /\ storageLeft' = [storageLeft EXCEPT ![op] = @ - 1, !["overlap"] = IF StorageQuiet THEN @ ELSE @ - 1]
    /\ job' = [job EXCEPT ![t] = new]
StorageFault == storageLeft["fault"] > 0 /\ storageLeft' = [storageLeft EXCEPT !["fault"] = @ - 1]

-----------------------------------------------------------------------------
(* Who asks for folders. *)
\* validateUserFolders
ValidFoldersMutant(d) == d \in folder /\ (IsMobile(d) => media)
ValidFolders(d) == d \in folder /\ (IsMobile(d) => d \in system /\ media)

\* startSessionImp holds the lock of the device, and creates what is not valid.
StartSession(t, d) ==
    /\ d \notin session /\ held[d] = "free"
    /\ BeginJob(t, "start", [NoJob EXCEPT !.dev = d, !.over = TRUE, !.then = "attach",
                                       !.at = IF ValidFolders(d) THEN "attach" ELSE "home"])
    /\ held' = [held EXCEPT ![d] = t]
    /\ ExcuseDevices(BusyWith({d}))
    /\ UNCHANGED <<disk, settings, enabled, platforms, session, imageLock>>

\* The approval of an activation creates folders that do not exist.
ApproveDevice(t, d) ==
    /\ BeginJob(t, "approve", [NoJob EXCEPT !.dev = d, !.at = "home"])
    /\ ExcuseDevices(BusyWith({d}))
    /\ UNCHANGED <<disk, settings, enabled, platforms, session, locks>>

\* addSettingsToDevices. The folder is created for the settings, and is then
\* taken for the one of a device whose user folders were made.
AddSettings(t, d, p) ==
    /\ BeginJob(t, "settings", [NoJob EXCEPT !.dev = d, !.at = "mount", !.todo = {p}])
    /\ ExcuseDevices(BusyWith({d}) \cup IF ~IsDocker(d) /\ d \notin folder THEN {d} ELSE {})
    /\ UNCHANGED <<disk, settings, enabled, platforms, session, locks>>

UpdateUserAccount(t, d) == AddSettings(t, d, "account")
UpdateTelephony(t, d) == AddSettings(t, d, "telephony")

\* What createUserFolders adds for a new device.
AccountSettings == Configured \cap {"account"}
TelephonySettings == Configured \cap {"telephony"}
StoreSettings == Configured \cap {"appstore"}
NewDeviceSettings == AccountSettings \cup TelephonySettings \cup StoreSettings

-----------------------------------------------------------------------------
(* createUserFolders *)
MakeFolders(t) ==
    /\ JobAt(t, "home")
    /\ media' = (media \/ IsMobile(JobDev(t)))
    /\ folder' = folder \cup {JobDev(t)}
    /\ job' = [job EXCEPT ![t].at = "fill", ![t].exist = JobDev(t) \in folder]
    /\ UNCHANGED <<filled, system, data, settings, enabled, platforms, session, locks, excused, storageLeft>>

\* A folder that existed before is left as it is, unless the caller overwrites.
KeepsMutant(t) == FALSE
Keeps(t) == job[t].exist /\ ~job[t].over

\* The archive is extracted; on docker the platform makes the image later.
Fill(t) ==
    /\ JobAt(t, "fill")
    /\ LET d == JobDev(t)
       IN  IF Keeps(t) \/ IsDocker(d) THEN UNCHANGED <<filled, system, data>>
           ELSE /\ filled' = filled \cup {d}
                /\ system' = IF IsMobile(d) THEN system \cup {d} ELSE system
                /\ data' = [data EXCEPT ![d] = "fresh"]
    /\ job' = [job EXCEPT ![t].at = IF Keeps(t) THEN "mount" ELSE "apps",
                          ![t].todo = NewDeviceSettings]
    /\ UNCHANGED <<folder, media, settings, enabled, platforms, session, locks, excused, storageLeft>>

\* enableNewDeviceApps
EnableApps(t) ==
    /\ JobAt(t, "apps") /\ JobGoes(t, "mount")
    /\ enabled' = enabled \cup {JobDev(t)}
    /\ UNCHANGED <<disk, settings, platforms, session, locks, excused, storageLeft>>

\* A step fails: tar may have written a part, and the caller gives up.
CreateFails(t) ==
    /\ JobAt(t, "home") \/ JobAt(t, "fill") \/ JobAt(t, "apps")
    /\ StorageFault /\ JobEnds(t)
    /\ LET d == JobDev(t)
       IN  /\ system' \in IF JobAt(t, "fill") /\ DeviceKind[d] = "tar" THEN {system, system \cup {d}}
                          ELSE {system}
           /\ ExcuseDevices(IF IsDocker(d) THEN {} ELSE {d})
           /\ held' = IF held[d] = t THEN [held EXCEPT ![d] = "free"] ELSE held
    /\ UNCHANGED <<folder, filled, data, media, settings, enabled, platforms, session, imageLock>>

-----------------------------------------------------------------------------
(* addSettingsToSpecificDevice, saveSettingsUpdateFile: updates.json is read,
   the file is written, and the list with it is written back.                *)
Mount(t) ==
    /\ JobAt(t, "mount")
    /\ IF job[t].todo = {}
       THEN /\ IF job[t].then = "attach" THEN JobGoes(t, "attach") ELSE JobEnds(t)
            /\ UNCHANGED folder
       ELSE /\ \E p \in job[t].todo :
                  job' = [job EXCEPT ![t].at = "save", ![t].list = listed[JobDev(t)],
                                     ![t].param = p, ![t].todo = @ \ {p}]
            /\ folder' = IF DeviceKind[JobDev(t)] = "tar" THEN folder ELSE folder \cup {JobDev(t)}
    /\ UNCHANGED <<filled, system, data, media, settings, enabled, platforms, session, locks, excused, storageLeft>>

Written(t) ==
    /\ JobGoes(t, "unmount")
    /\ files' = [files EXCEPT ![JobDev(t)] = @ \cup {job[t].param}]
    /\ UNCHANGED <<filled, data, media, listed, enabled, platforms, session, locks, excused, storageLeft>>

\* saveSettingsUpdateFile: without docker the file lies in the folder user.
SaveFile(t) ==
    /\ JobAt(t, "save") /\ ~(IsDocker(JobDev(t)) /\ job[t].param # "account") /\ Written(t)
    /\ IF DeviceKind[JobDev(t)] = "tar" 
       THEN folder' = folder \cup {JobDev(t)} /\ system' = system \cup {JobDev(t)}
       ELSE UNCHANGED <<folder, system>>

\* addAppRestrictionsToDevice
SaveRestrictions(t) ==
    /\ JobAt(t, "save") /\ IsDocker(JobDev(t)) /\ job[t].param # "account" /\ Written(t)
    /\ UNCHANGED <<folder, system>>

\* unMountUserData
Unmount(t) ==
    /\ JobAt(t, "unmount") /\ JobGoes(t, "mount")
    /\ listed' = [listed EXCEPT ![JobDev(t)] = job[t].list \cup {job[t].param}]
    /\ UNCHANGED <<disk, files, enabled, platforms, session, locks, excused, storageLeft>>

-----------------------------------------------------------------------------
(* The session. *)
\* attachUser: the platform mounts the data folder, and makes a missing image.
Attach(t) ==
    /\ JobAt(t, "attach") /\ JobEnds(t)
    /\ session' = session \cup {JobDev(t)}
    /\ attached' = attached \cup {JobDev(t)}
    /\ system' = IF IsDocker(JobDev(t)) THEN system \cup {JobDev(t)} ELSE system
    /\ data' = [data EXCEPT ![JobDev(t)] = "used"]
    /\ held' = [held EXCEPT ![JobDev(t)] = "free"]
    /\ UNCHANGED <<folder, filled, media, settings, enabled, clinging, imageLock, excused, storageLeft>>

EndSession(t, d) ==
    /\ d \in session /\ held[d] = "free"
    /\ BeginJob(t, "end", [NoJob EXCEPT !.dev = d, !.at = "detach"])
    /\ held' = [held EXCEPT ![d] = t]
    /\ ExcuseDevices(BusyWith({d}))
    /\ UNCHANGED <<disk, settings, enabled, platforms, session, imageLock>>

\* The platform lets go of the data of the device. A platform with a connection
\* error is not asked, and one that fails is passed over; so is one when an
\* earlier step of the end throws. The end goes on, and the data stays attached.
Detach(t) ==
    /\ JobAt(t, "detach") /\ JobGoes(t, "drop")
    /\ \/ /\ attached' = attached \ ({JobDev(t)} \ clinging)
          /\ UNCHANGED <<clinging, storageLeft>>
       \/ /\ StorageFault
          /\ clinging' = clinging \cup {JobDev(t)}
          /\ UNCHANGED attached
    /\ UNCHANGED <<disk, settings, enabled, session, locks, excused>>

AfterDrop(t) == IF IsDocker(JobDev(t)) THEN "lock" ELSE "release"
DropMutant(t) ==
    /\ JobAt(t, "drop") /\ JobGoes(t, AfterDrop(t))
    /\ session' = session \ {JobDev(t)} /\ held' = [held EXCEPT ![JobDev(t)] = "free"]
    /\ UNCHANGED <<disk, settings, enabled, platforms, imageLock, excused, storageLeft>>

\* The session is deleted; that redis fails here is left to SessionController.
DropSession(t) ==
    /\ JobAt(t, "drop") /\ JobGoes(t, AfterDrop(t))
    /\ session' = session \ {JobDev(t)}
    /\ UNCHANGED <<disk, settings, enabled, platforms, locks, excused, storageLeft>>

\* LockAsync.acquire; without the lock the image is not resized.
LockImage(t) ==
    /\ JobAt(t, "lock")
    /\ IF imageLock[JobDev(t)] = "free"
       THEN imageLock' = [imageLock EXCEPT ![JobDev(t)] = t] /\ JobGoes(t, "resize")
       ELSE UNCHANGED imageLock /\ JobGoes(t, "release")
    /\ UNCHANGED <<disk, settings, enabled, platforms, session, held, excused, storageLeft>>

\* The lock expires while a large image is resized.
ExpireImageLock(d) ==
    /\ imageLock[d] # "free" /\ storageLeft["slow"] > 0
    /\ storageLeft' = [storageLeft EXCEPT !["slow"] = @ - 1]
    /\ imageLock' = [imageLock EXCEPT ![d] = "free"]
    /\ UNCHANGED <<disk, settings, enabled, platforms, session, held, job, excused>>

\* resizeUserData, which does not wait for LockAsync.release: that throws when
\* the token is not its own.
Resize(t) ==
    /\ JobAt(t, "resize") /\ JobGoes(t, "unlock")
    /\ UNCHANGED <<disk, settings, enabled, platforms, session, locks, excused, storageLeft>>

UnlockImage(t) ==
    /\ JobAt(t, "unlock") /\ JobGoes(t, "release")
    /\ imageLock' = IF imageLock[JobDev(t)] = t THEN [imageLock EXCEPT ![JobDev(t)] = "free"]
                    ELSE imageLock
    /\ UNCHANGED <<disk, settings, enabled, platforms, session, held, excused, storageLeft>>

\* The device's lock is released, and a deletion goes on with the next session.
ReleaseDevice(t) ==
    /\ JobAt(t, "release")
    /\ held' = [held EXCEPT ![JobDev(t)] = "free"]
    /\ IF job[t].then = "" THEN JobEnds(t) ELSE JobGoes(t, "sessions")
    /\ UNCHANGED <<disk, settings, enabled, platforms, session, imageLock, excused, storageLeft>>

-----------------------------------------------------------------------------
(* deleteUserDeviceStorage, deleteAllUserStorage, wipeUserDevice: the sessions
   are ended one after the other, and then the folders are removed.          *)
SessionsToEnd(ds) == session \cap ds

EndAndDelete(t, ds, op) ==
    /\ BeginJob(t, "delete", [NoJob EXCEPT !.at = "sessions", !.then = op, !.todo = ds,
                                        !.rest = SessionsToEnd(ds)])
    /\ ExcuseDevices(BusyWith(ds))
    /\ UNCHANGED <<disk, settings, enabled, platforms, session, locks>>

DeleteDeviceStorage(t, d) == EndAndDelete(t, {d}, "device")
DeleteAll(t) == EndAndDelete(t, StorageDevices, "all")
WipeDevice(t) == EndAndDelete(t, StorageDevices, "wipe")

\* A session that cannot be ended is left to run, and stops only a wipe.
EndNext(t) ==
    /\ JobAt(t, "sessions") /\ job[t].rest # {}
    /\ \E d \in job[t].rest :
          IF d \in session /\ held[d] = "free"
          THEN /\ job' = [job EXCEPT ![t].at = "detach", ![t].dev = d, ![t].rest = @ \ {d}]
               /\ held' = [held EXCEPT ![d] = t]
          ELSE /\ IF job[t].then = "wipe" THEN JobEnds(t)
                  ELSE job' = [job EXCEPT ![t].rest = @ \ {d}]
               /\ UNCHANGED held
    /\ UNCHANGED <<disk, settings, enabled, platforms, session, imageLock, excused, storageLeft>>

RemoveFolders(t) ==
    /\ JobAt(t, "sessions") /\ job[t].rest = {} /\ JobEnds(t)
    /\ LET gone == job[t].todo
       IN  /\ folder' = folder \ gone /\ filled' = filled \ gone /\ system' = system \ gone
           /\ data' = [d \in StorageDevices |-> IF d \in gone THEN "none" ELSE data[d]]
           /\ files' = [d \in StorageDevices |-> IF d \in gone THEN {} ELSE files[d]]
           /\ listed' = [d \in StorageDevices |-> IF d \in gone THEN {} ELSE listed[d]]
           /\ media' = (media /\ job[t].then = "device")
    /\ UNCHANGED <<enabled, platforms, session, locks, excused, storageLeft>>

\* deleteUserGeneralStorage. The next start then finds folders that are not
\* valid and extracts the archive over the data of a tar platform.
RemoveMedia == media' = FALSE
DeleteGeneral ==
    /\ storageLeft["general"] > 0 /\ storageLeft' = [storageLeft EXCEPT !["general"] = @ - 1]
    /\ RemoveMedia
    /\ excused' = excused \cup {d \in StorageDevices : DeviceKind[d] = "tar"}
    /\ UNCHANGED <<folder, filled, system, data, settings, enabled, platforms, session, locks, job>>

-----------------------------------------------------------------------------
StorageInit ==
    /\ folder = {} /\ filled = {} /\ system = {} /\ media = FALSE /\ enabled = {}
    /\ data = [d \in StorageDevices |-> "none"]
    /\ files = [d \in StorageDevices |-> {}] /\ listed = [d \in StorageDevices |-> {}]
    /\ session = {} /\ attached = {} /\ clinging = {} /\ excused = {}
    /\ held = [d \in StorageDevices |-> "free"] /\ imageLock = [d \in StorageDevices |-> "free"]
    /\ job = [t \in StorageThreads |-> NoJob] /\ storageLeft \in StorageBudgets

StorageNext ==
    \/ \E t \in StorageThreads :
          \/ MakeFolders(t) \/ Fill(t) \/ EnableApps(t) \/ CreateFails(t)
          \/ Mount(t) \/ SaveFile(t) \/ SaveRestrictions(t) \/ Unmount(t)
          \/ Attach(t) \/ Detach(t) \/ DropSession(t) \/ LockImage(t) \/ Resize(t)
          \/ UnlockImage(t) \/ ReleaseDevice(t)
          \/ EndNext(t) \/ RemoveFolders(t) \/ DeleteAll(t) \/ WipeDevice(t)
          \/ \E d \in StorageDevices :
                \/ StartSession(t, d) \/ ApproveDevice(t, d) \/ EndSession(t, d)
                \/ DeleteDeviceStorage(t, d) \/ UpdateUserAccount(t, d) \/ UpdateTelephony(t, d)
    \/ \E d \in StorageDevices : ExpireImageLock(d)
    \/ DeleteGeneral

-----------------------------------------------------------------------------
\* A session runs on a folder that is whole and was given its apps and settings,
\* whatever failed or was deleted before; excused are README's known flaws.
SessionHasItsFolder ==
    \A d \in session \ excused :
        /\ d \in folder /\ d \in enabled
        /\ IsDocker(d) \/ d \in filled
        /\ IsDocker(d) => Configured \subseteq listed[d] \cap files[d]

\* An image is resized by one at a time and never while a session uses it, also
\* when the resizing outlives its own lock: the lock of the device guards it.
\* No platform has it attached either, unless one did not let go of it when a
\* session of the device ended, which is README's known flaw.
ImageIsFree ==
    \A t \in StorageThreads : JobAt(t, "resize") =>
        /\ JobDev(t) \notin session
        /\ JobDev(t) \in attached => JobDev(t) \in clinging
        /\ \A u \in StorageThreads \ {t} : JobAt(u, "resize") => JobDev(u) # JobDev(t)

\* What a user did on a device is never replaced by a new user's files: only a
\* deletion, which is asked for, removes it.
DataStays ==
    [][\A d \in StorageDevices \ excused : data[d] = "used" => data'[d] # "fresh"]_storageVars
-----------------------------------------------------------------------------
(* Why they hold. *)
Deletions == {"device", "all", "wipe"}
EndingPlaces == {"detach", "drop", "lock", "resize", "unlock", "release"}
SettingPlaces == {"mount", "save", "unmount"}
StorageJobs ==
    [at : {"idle", "home", "fill", "apps", "attach", "sessions"} \cup SettingPlaces \cup EndingPlaces,
     dev : StorageDevices, exist : BOOLEAN, over : BOOLEAN, todo : SUBSET (StorageDevices \cup Params),
     list : SUBSET Params, param : Params \cup {""}, then : {"", "attach"} \cup Deletions,
     rest : SUBSET StorageDevices]

StorageTypeOK ==
    /\ folder \subseteq StorageDevices /\ filled \subseteq StorageDevices /\ system \subseteq StorageDevices
    /\ enabled \subseteq StorageDevices /\ session \subseteq StorageDevices /\ excused \subseteq StorageDevices
    /\ data \in [StorageDevices -> {"none", "fresh", "used"}]
    /\ media \in BOOLEAN
    /\ files \in [StorageDevices -> SUBSET Params] /\ listed \in [StorageDevices -> SUBSET Params]
    /\ held \in [StorageDevices -> StorageThreads \cup {"free"}]
    /\ imageLock \in [StorageDevices -> StorageThreads \cup {"free"}]
    /\ job \in [StorageThreads -> StorageJobs]
    /\ storageLeft \in [StorageOps -> Nat]

\* What a job is for says where it may be.
PlaceFits(t) ==
    /\ JobAt(t, "attach") => job[t].then = "attach"
    /\ job[t].over <=> job[t].then = "attach"
    /\ job[t].then = "attach" => job[t].at \notin EndingPlaces \cup {"idle", "sessions"}
    /\ JobAt(t, "sessions") => job[t].then \in Deletions
    /\ job[t].then \in Deletions =>
          /\ job[t].at \in EndingPlaces \cup {"sessions"}
          /\ job[t].rest \subseteq job[t].todo /\ job[t].todo \subseteq StorageDevices
          /\ job[t].at \in EndingPlaces => JobDev(t) \in job[t].todo
          /\ job[t].then # "device" => job[t].todo = StorageDevices
    /\ job[t].at \in SettingPlaces \cup {"apps"} => job[t].todo \subseteq Params
    /\ job[t].at \in {"save", "unmount"} => job[t].param \in Params
PlacesFit == \A t \in StorageThreads : PlaceFits(t)

\* A start and an end hold the lock of their device, and nobody else does.
Holds(t) == job[t].then = "attach" \/ job[t].at \in EndingPlaces
DevicesHeld ==
    /\ \A t \in StorageThreads : Holds(t) => held[JobDev(t)] = t
    /\ \A d \in StorageDevices : held[d] # "free" => Holds(held[d]) /\ JobDev(held[d]) = d

SessionIsOver == \A t \in StorageThreads :
    job[t].at \in EndingPlaces \ {"detach", "drop"} => JobDev(t) \notin session

HeldInv == StorageTypeOK /\ PlacesFit /\ DevicesHeld /\ SessionIsOver

\* One job at a time is at work on a device that is not excused.
OneAtWork == \A t, u \in StorageThreads :
    t # u /\ ~JobIdle(t) /\ ~JobIdle(u) => Concerned(t) \cap Concerned(u) \subseteq excused

Made(d) ==
    /\ d \in folder /\ d \in filled /\ d \in enabled
    /\ DeviceKind[d] = "tar" => d \in system /\ media

HasSettings(d) == Configured \subseteq listed[d] \cap files[d]

\* Folders that platforms do not make themselves are whole as soon as they are
\* there, or a job is about to make them so; what a session used stays valid.
BeingMade(t, d) ==
    /\ JobDev(t) = d
    /\ DeviceKind[d] = "tar" => media
    /\ \/ JobAt(t, "fill") /\ ~Keeps(t)
       \/ JobAt(t, "apps") /\ d \in filled /\ (DeviceKind[d] = "tar" => d \in system)
MakerFits(t, d) ==
    /\ job[t].at \in SettingPlaces \cup {"attach"} => Made(d)
    /\ JobAt(t, "fill") => d \in folder /\ (Keeps(t) => Made(d))
    /\ JobAt(t, "apps") => d \in folder
    /\ data[d] = "used" => /\ job[t].at \in {"home", "fill"} => ~job[t].over
                           /\ JobAt(t, "fill") => job[t].exist
MadeDevice(d) ==
    /\ d \in folder => Made(d) \/ \E t \in StorageThreads : BeingMade(t, d)
    /\ data[d] = "used" \/ d \in session => Made(d)
    /\ \A t \in StorageThreads : JobDev(t) = d => MakerFits(t, d)
MadeAtOnce == \A d \in StorageDevices \ excused : ~IsDocker(d) => MadeDevice(d)

\* The folder of a device on docker has all its settings once it has an image.
Foreseen(t, d) ==
    (listed[d] \cap files[d]) \cup (IF JobAt(t, "attach") THEN {} ELSE job[t].todo)
       \cup (IF job[t].at \in {"save", "unmount"} THEN {job[t].param} ELSE {})
SetterFits(t, d) ==
    /\ job[t].at \in {"fill", "apps"} => d \in folder
    /\ JobAt(t, "apps") => Configured \subseteq job[t].todo
    /\ job[t].at \in {"save", "unmount"} => job[t].list = listed[d] /\ d \in folder
    /\ JobAt(t, "unmount") => job[t].param \in files[d]
    /\ job[t].then = "attach" /\ job[t].at \in SettingPlaces \cup {"attach"} =>
          d \in folder /\ d \in enabled /\ Configured \subseteq Foreseen(t, d)
ImageDevice(d) ==
    /\ d \in system \cup session => d \in folder /\ d \in enabled /\ HasSettings(d)
    /\ \A t \in StorageThreads : JobDev(t) = d => SetterFits(t, d)
ImageHasSettings == \A d \in StorageDevices \ excused : IsDocker(d) => ImageDevice(d)

\* A deletion has ended the sessions before it removes the folders.
EndedBefore == \A t \in StorageThreads : job[t].then \in Deletions =>
    (session \cap job[t].todo) \ excused
       \subseteq job[t].rest \cup (IF job[t].at \in {"detach", "drop"} THEN {JobDev(t)} ELSE {})

\* Before a session is deleted its platform lets go of the data, or clings to it.
LetGo ==
    /\ attached \subseteq StorageDevices /\ clinging \subseteq StorageDevices
    /\ \A t \in StorageThreads :
          job[t].at \in EndingPlaces \ {"detach"} => JobDev(t) \notin attached \ clinging

StorageInv == HeldInv /\ OneAtWork /\ MadeAtOnce /\ ImageHasSettings /\ EndedBefore
=============================================================================

---------------------------- MODULE AccountsProofs ---------------------------
(***************************************************************************)
(* Proofs about Accounts, for any number of keys, users, devices, tokens,  *)
(* groups, apps and handlers: who is active on a device, what a login has  *)
(* earned, which apps stay private or are owed, and the folders of users.  *)
(***************************************************************************)
EXTENDS Accounts, FiniteSetTheorems, TLAPS

-----------------------------------------------------------------------------
(* The storage of users. A lemma for a step says first what becomes of the
   job, and then why each part of the invariant stays.                     *)

LEMMA StorageStart == StorageInit => StorageInv
<1> SUFFICES ASSUME StorageInit PROVE StorageInv
  OBVIOUS
<1> USE StorageAssumption
<1>1. (CHOOSE d \in StorageDevices : TRUE) \in StorageDevices
  OBVIOUS
<1>2. HeldInv
  BY <1>1 DEF StorageInit, HeldInv, StorageTypeOK, StorageJobs, PlacesFit, PlaceFits, DevicesHeld, SessionIsOver,
     NoJob, Holds, JobAt, JobIdle, JobDev, Deletions, EndingPlaces, SettingPlaces, Params
<1>3. OneAtWork
  BY DEF StorageInit, OneAtWork, JobIdle, JobAt, NoJob
<1>4. MadeAtOnce /\ ImageHasSettings /\ EndedBefore
  BY DEF StorageInit, MadeAtOnce, MadeDevice, MakerFits, ImageHasSettings, ImageDevice, SetterFits, EndedBefore, NoJob, JobAt, JobDev, Deletions,
     EndingPlaces, SettingPlaces
<1> QED
  BY <1>2, <1>3, <1>4 DEF StorageInv

-----------------------------------------------------------------------------
(* The storage of users: jobs. *)
JobPlaces == {"idle", "home", "fill", "apps", "attach", "sessions"} \cup SettingPlaces \cup EndingPlaces
JobsTyped == job' \in [StorageThreads -> StorageJobs]
OthersStay(t) == \A u \in StorageThreads \ {t} : job'[u] = job[u]
SameAim(t) ==
    /\ job'[t].dev = job[t].dev /\ job'[t].over = job[t].over
    /\ job'[t].then = job[t].then /\ job'[t].rest = job[t].rest

\* A thread gets another job.
LEMMA JobSet ==
    ASSUME StorageTypeOK, NEW t \in StorageThreads, NEW j \in StorageJobs, job' = [job EXCEPT ![t] = j]
    PROVE  JobsTyped /\ OthersStay(t) /\ job'[t] = j
BY DEF StorageTypeOK, JobsTyped, OthersStay

\* A job goes to another place.
LEMMA JobMoves ==
    ASSUME StorageTypeOK, NEW t \in StorageThreads, NEW place \in JobPlaces, JobGoes(t, place)
    PROVE  /\ JobsTyped /\ OthersStay(t) /\ SameAim(t) /\ job'[t].at = place
           /\ job'[t].exist = job[t].exist /\ job'[t].todo = job[t].todo
           /\ job'[t].list = job[t].list /\ job'[t].param = job[t].param
<1> DEFINE j == [job[t] EXCEPT !.at = place]
<1>1. job[t] \in StorageJobs
  BY DEF StorageTypeOK
<1>2. /\ j \in StorageJobs /\ j.at = place /\ j.dev = job[t].dev /\ j.exist = job[t].exist
      /\ j.over = job[t].over /\ j.todo = job[t].todo /\ j.list = job[t].list
      /\ j.param = job[t].param /\ j.then = job[t].then /\ j.rest = job[t].rest
  BY <1>1 DEF StorageJobs, JobPlaces
<1>3. job' = [job EXCEPT ![t] = j]
  BY DEF JobGoes
<1> HIDE DEF j
<1> QED
  BY <1>2, <1>3, JobSet DEF SameAim

\* A job is over.
LEMMA NoJobTyped ==
    /\ NoJob \in StorageJobs /\ NoJob.at = "idle" /\ NoJob.over = FALSE /\ NoJob.exist = FALSE
    /\ NoJob.then = "" /\ NoJob.rest = {} /\ NoJob.todo = {} /\ NoJob.dev \in StorageDevices
    /\ NoJob.list = {} /\ NoJob.param = ""
<1>1. (CHOOSE d \in StorageDevices : TRUE) \in StorageDevices
  BY StorageAssumption
<1> QED
  BY <1>1 DEF NoJob, StorageJobs

LEMMA JobOver ==
    ASSUME StorageTypeOK, NEW t \in StorageThreads, JobEnds(t)
    PROVE  JobsTyped /\ OthersStay(t) /\ job'[t].at = "idle" /\ job'[t].then = "" /\ job'[t].over = FALSE
BY NoJobTyped, JobSet DEF JobEnds

\* Nobody takes or gives back the lock of a device.
LEMMA HeldStays ==
    ASSUME StorageTypeOK, DevicesHeld, held' = held,
           \A u \in StorageThreads : /\ Holds(u)' <=> Holds(u)
                                     /\ Holds(u) => job'[u].dev = job[u].dev
    PROVE  DevicesHeld'
BY DEF DevicesHeld, StorageTypeOK, JobDev

-----------------------------------------------------------------------------
\* Nobody turns to another device.
LEMMA WorkStays ==
    ASSUME OneAtWork, excused \subseteq excused',
           \A u \in StorageThreads : ~JobIdle(u)' => ~JobIdle(u) /\ Concerned(u)' \subseteq Concerned(u)
    PROVE  OneAtWork'
BY DEF OneAtWork

\* One who is at work on a device that is not excused is alone there.
LEMMA AloneThere ==
    ASSUME OneAtWork, NEW t \in StorageThreads, ~JobIdle(t),
           NEW d \in Concerned(t) \ excused, NEW u \in StorageThreads \ {t}, JobDev(u) = d,
           StorageInv
    PROVE  job[u].at \in {"idle", "sessions"} \cup EndingPlaces
BY DEF OneAtWork, Concerned, JobIdle, JobAt, StorageInv, HeldInv, PlacesFit, PlaceFits, Deletions

\* What is kept for a device stays when neither it nor the jobs on it change.
LEMMA MadeStays ==
    ASSUME NEW d \in StorageDevices, MadeDevice(d), media => media',
           d \in folder' <=> d \in folder, d \in filled' <=> d \in filled,
           d \in system' <=> d \in system, d \in enabled' <=> d \in enabled,
           d \in session' <=> d \in session, data'[d] = data[d],
           \A u \in StorageThreads :
              \/ job'[u] = job[u]
              \/ /\ job[u].dev # d \/ job[u].at \in {"idle", "sessions"} \cup EndingPlaces
                 /\ job'[u].dev # d \/ job'[u].at \in {"idle", "sessions"} \cup EndingPlaces
    PROVE  MadeDevice(d)'
BY DEF MadeDevice, BeingMade, MakerFits, Made, Keeps, JobDev, JobAt, SettingPlaces, EndingPlaces

LEMMA ImageStays ==
    ASSUME NEW d \in StorageDevices, ImageDevice(d), 
           d \in folder' <=> d \in folder, d \in system' <=> d \in system,
           d \in enabled' <=> d \in enabled, d \in session' <=> d \in session,
           files'[d] = files[d], listed'[d] = listed[d],
           \A u \in StorageThreads :
              \/ job'[u] = job[u]
              \/ /\ job[u].dev # d \/ job[u].at \in {"idle", "sessions", "home"} \cup EndingPlaces
                 /\ job'[u].dev # d \/ job'[u].at \in {"idle", "sessions", "home"} \cup EndingPlaces
    PROVE  ImageDevice(d)'
BY DEF ImageDevice, SetterFits, HasSettings, Foreseen, JobDev, JobAt, SettingPlaces, EndingPlaces

\* Who holds the lock of its device, and what becomes of it.
LEMMA HolderIs ==
    ASSUME StorageTypeOK, DevicesHeld, NEW t \in StorageThreads
    PROVE  /\ Holds(t) <=> held[JobDev(t)] = t
           /\ JobDev(t) \in StorageDevices /\ t # "free"
           /\ held \in [StorageDevices -> StorageThreads \cup {"free"}]
<1>1. JobDev(t) \in StorageDevices /\ t # "free"
  BY StorageAssumption DEF StorageTypeOK, StorageJobs, JobDev
<1>2. held[JobDev(t)] = t => Holds(t)
  BY <1>1 DEF DevicesHeld
<1>3. Holds(t) => held[JobDev(t)] = t
  BY DEF DevicesHeld
<1> QED
  BY <1>1, <1>2, <1>3 DEF StorageTypeOK

LEMMA HeldGivenBack ==
    ASSUME StorageTypeOK, DevicesHeld, NEW t \in StorageThreads, OthersStay(t), ~Holds(t)',
           held' = IF Holds(t) THEN [held EXCEPT ![JobDev(t)] = "free"] ELSE held
    PROVE  DevicesHeld'
<1>1. \A u \in StorageThreads \ {t} : (Holds(u)' <=> Holds(u)) /\ JobDev(u)' = JobDev(u)
  BY DEF Holds, OthersStay, JobDev
<1>2. \A u \in StorageThreads : Holds(u)' => held[JobDev(u)] = u /\ u # t
  BY <1>1, HolderIs
<1>3. \A u \in StorageThreads : Holds(u)' => held'[JobDev(u)'] = u
  BY <1>1, <1>2, HolderIs
<1>4. ASSUME NEW d \in StorageDevices, held'[d] # "free"
      PROVE  (Holds(held[d]) /\ JobDev(held[d]) = d)'
  <2>1. PICK u \in StorageThreads \ {t} : held'[d] = u /\ held[d] = u /\ Holds(u) /\ JobDev(u) = d
    BY <1>4, HolderIs DEF DevicesHeld
  <2>2. Holds(u)' /\ JobDev(u)' = d
    BY <1>1, <2>1
  <2> QED
    BY <2>1, <2>2 DEF Holds, JobDev
<1> QED
  BY <1>3, <1>4 DEF DevicesHeld

LEMMA HeldTaken ==
    ASSUME StorageTypeOK, DevicesHeld, NEW t \in StorageThreads, OthersStay(t), ~Holds(t), Holds(t)',
           NEW d \in StorageDevices, held[d] = "free", job'[t].dev = d, held' = [held EXCEPT ![d] = t]
    PROVE  DevicesHeld'
<1>1. \A u \in StorageThreads \ {t} : (Holds(u)' <=> Holds(u)) /\ JobDev(u)' = JobDev(u)
  BY DEF Holds, OthersStay, JobDev
<1>2. \A u \in StorageThreads \ {t} : Holds(u)' => held'[JobDev(u)'] = u
  BY <1>1, HolderIs
<1>3. held'[JobDev(t)'] = t
  BY HolderIs DEF JobDev
<1>4. ASSUME NEW e \in StorageDevices, held'[e] # "free"
      PROVE  (Holds(held[e]) /\ JobDev(held[e]) = e)'
  <2>1. PICK u \in StorageThreads : held'[e] = u /\ Holds(u)' /\ JobDev(u)' = e
    BY <1>1, <1>4, HolderIs DEF DevicesHeld, JobDev
  <2> QED
    BY <2>1 DEF Holds, JobDev
<1> QED
  BY <1>2, <1>3, <1>4 DEF DevicesHeld

\* Nobody else is where a call begins, or the device is excused.
LEMMA NobodyThere ==
    ASSUME StorageInv, NEW ds, NEW d \in ds \ BusyWith(ds), NEW u \in StorageThreads, JobDev(u) = d
    PROVE  job[u].at \in {"idle", "sessions"} \cup EndingPlaces
BY DEF BusyWith, Concerned, JobIdle, JobAt, StorageInv, HeldInv, PlacesFit, PlaceFits, Deletions

LEMMA WorkBegins ==
    ASSUME OneAtWork, NEW t \in StorageThreads, OthersStay(t), NEW ds,
           excused \cup BusyWith(ds) \subseteq excused', Concerned(t)' \subseteq ds
    PROVE  OneAtWork'
<1>1. \A u \in StorageThreads \ {t} : (Concerned(u)' = Concerned(u)) /\ (JobIdle(u)' <=> JobIdle(u))
  BY DEF OthersStay, Concerned, JobIdle, JobAt, JobDev
<1>2. \A u \in StorageThreads \ {t} : ~JobIdle(u) => Concerned(t)' \cap Concerned(u) \subseteq BusyWith(ds)
  BY DEF BusyWith
<1> QED
  BY <1>1, <1>2 DEF OneAtWork

\* A thread that has begun a call was idle.
LEMMA JobBegins ==
    ASSUME StorageTypeOK, NEW t \in StorageThreads, NEW op \in StorageOps, NEW j \in StorageJobs,
           BeginJob(t, op, j)
    PROVE  /\ JobsTyped /\ OthersStay(t) /\ job'[t] = j /\ job[t].at = "idle"
           /\ storageLeft' \in [StorageOps -> Nat]
<1>1. job' = [job EXCEPT ![t] = j] /\ job[t].at = "idle"
  BY DEF BeginJob, JobIdle, JobAt
<1>2. storageLeft' \in [StorageOps -> Nat]
  BY DEF BeginJob, StorageTypeOK, StorageOps
<1> QED
  BY <1>1, <1>2, JobSet

-----------------------------------------------------------------------------
LEMMA MakeFoldersStep ==
    ASSUME StorageInv, NEW t \in StorageThreads, MakeFolders(t)
    PROVE  StorageInv'
<1> USE StorageAssumption DEF StorageInv, HeldInv, JobAt, JobIdle, JobDev, IsDocker
<1>1. /\ JobsTyped /\ OthersStay(t) /\ SameAim(t) /\ job[t].at = "home" /\ job'[t].at = "fill"
      /\ job'[t].exist = (JobDev(t) \in folder) /\ job'[t].todo = job[t].todo
  <2> DEFINE e == JobDev(t) \in folder
             j == [job[t] EXCEPT !.at = "fill", !.exist = e]
  <2>1. job[t] \in StorageJobs /\ e \in BOOLEAN
    BY DEF StorageTypeOK
  <2>3. job' = [job EXCEPT ![t] = j] /\ job[t].at = "home"
    BY DEF MakeFolders, StorageTypeOK
  <2> HIDE DEF e
  <2>2. /\ j \in StorageJobs /\ j.at = "fill" /\ j.exist = e /\ j.dev = job[t].dev
        /\ j.over = job[t].over /\ j.then = job[t].then /\ j.rest = job[t].rest /\ j.todo = job[t].todo
    BY <2>1 DEF StorageJobs, SettingPlaces, EndingPlaces
  <2> HIDE DEF j
  <2> QED
    BY <2>2, <2>3, JobSet DEF SameAim, e
<1>2. /\ media' = (media \/ IsMobile(JobDev(t))) /\ folder' = folder \cup {JobDev(t)}
      /\ UNCHANGED <<filled, system, data, files, listed, enabled, session, held, imageLock, excused, storageLeft>>
  BY DEF MakeFolders, settings, locks
<1>3. JobDev(t) \in Concerned(t) \cap StorageDevices
  BY <1>1, <1>2 DEF Concerned, PlacesFit, PlaceFits, Deletions, EndingPlaces, StorageTypeOK, StorageJobs
<1>4. StorageTypeOK'
  BY <1>1, <1>2, <1>3 DEF StorageTypeOK, JobsTyped
<1>5. PlacesFit'
  BY <1>1, <1>2, <1>3 DEF PlacesFit, PlaceFits, SameAim, OthersStay, Deletions, EndingPlaces,
     SettingPlaces
<1>6. DevicesHeld'
  BY <1>1, <1>2, <1>3, HeldStays DEF Holds, SameAim, OthersStay, EndingPlaces
<1>7. SessionIsOver'
  BY <1>1, <1>2, <1>3 DEF SessionIsOver, SameAim, OthersStay, Deletions, EndingPlaces,
     SettingPlaces
<1>8. OneAtWork'
  BY <1>1, <1>2, <1>3 DEF OneAtWork, Concerned, SameAim, OthersStay, Deletions, EndingPlaces,
     SettingPlaces
<1>9. MadeAtOnce'
  <2>1. SUFFICES ASSUME NEW d \in StorageDevices \ excused', ~IsDocker(d) PROVE MadeDevice(d)'
    BY DEF MadeAtOnce
  <2>2. MadeDevice(d) /\ d \notin excused
    BY <2>1, <1>1, <1>2, <1>3 DEF MadeAtOnce
  <2>3. CASE d # JobDev(t)
    BY <1>1, <1>2, <1>3, <2>2, <2>3, MadeStays DEF SameAim, OthersStay, StorageTypeOK
  <2>4. CASE d = JobDev(t)
    <3>1. \A u \in StorageThreads \ {t} :
             /\ job'[u] = job[u]
             /\ job[u].dev = d => job[u].at \in {"idle", "sessions"} \cup EndingPlaces
      BY <1>1, <1>2, <1>3, <2>1, <2>2, <2>4, AloneThere DEF OthersStay
    <3>2. \A u \in StorageThreads \ {t} : JobDev(u)' = d => MakerFits(u, d)'
      BY <3>1 DEF MakerFits, SettingPlaces, EndingPlaces
    <3> QED
      BY <1>1, <1>2, <1>3, <2>2, <2>4, <3>1, <3>2 DEF MadeDevice, BeingMade, MakerFits, Made, Keeps, IsMobile, SameAim, SettingPlaces, EndingPlaces
  <2> QED
    BY <2>3, <2>4
<1>10. ImageHasSettings'
  BY <1>1, <1>2, <1>3 DEF ImageHasSettings, ImageDevice, SetterFits, Foreseen, HasSettings,
     SameAim, OthersStay, Deletions, EndingPlaces, SettingPlaces
<1>11. EndedBefore'
  BY <1>1, <1>2, <1>3 DEF EndedBefore, SameAim, OthersStay, Deletions, EndingPlaces, SettingPlaces
<1> QED
  BY <1>4, <1>5, <1>6, <1>7, <1>8, <1>9, <1>10, <1>11

LEMMA FillStep ==
    ASSUME StorageInv, NEW t \in StorageThreads, Fill(t)
    PROVE  StorageInv'
<1> USE StorageAssumption DEF StorageInv, HeldInv, JobAt, JobIdle, JobDev, IsDocker
<1>1. NewDeviceSettings \in SUBSET (Configured \cap Params)
  BY DEF NewDeviceSettings, AccountSettings, TelephonySettings, StoreSettings
<1>2. NewDeviceSettings = Configured
  BY DEF NewDeviceSettings, AccountSettings, TelephonySettings, StoreSettings, Params
<1>3. job[t].at = "fill"
  BY DEF Fill
<1>4. /\ JobsTyped /\ OthersStay(t) /\ SameAim(t)
      /\ job'[t].at = (IF Keeps(t) THEN "mount" ELSE "apps") /\ job'[t].exist = job[t].exist
      /\ job'[t].todo = NewDeviceSettings /\ job'[t].list = job[t].list
      /\ job'[t].param = job[t].param
  <2> DEFINE j == [job[t] EXCEPT !.at = (IF Keeps(t) THEN "mount" ELSE "apps"), !.todo = NewDeviceSettings]
  <2>1. job[t] \in StorageJobs
    BY DEF StorageTypeOK
  <2>2. /\ j \in StorageJobs
        /\ j.at = (IF Keeps(t) THEN "mount" ELSE "apps") /\ j.dev = job[t].dev
        /\ j.exist = job[t].exist /\ j.over = job[t].over /\ j.todo = NewDeviceSettings
        /\ j.list = job[t].list /\ j.param = job[t].param /\ j.then = job[t].then
        /\ j.rest = job[t].rest
    BY <2>1, <1>1 DEF StorageJobs, SettingPlaces, EndingPlaces
  <2>3. job' = [job EXCEPT ![t] = j]
    BY DEF Fill, StorageTypeOK
  <2> HIDE DEF j
  <2> QED
    BY <2>2, <2>3, JobSet DEF SameAim
<1>5. /\ JobDev(t) \in StorageDevices /\ job[t].then \notin Deletions
      /\ Concerned(t) = {JobDev(t)} /\ Concerned(t)' = {JobDev(t)}
  BY <1>1, <1>2, <1>3, <1>4 DEF Concerned, PlacesFit, PlaceFits, Deletions, EndingPlaces, StorageTypeOK, StorageJobs, SettingPlaces, SameAim
<1>6. /\ filled' = (IF Keeps(t) \/ IsDocker(JobDev(t)) THEN filled ELSE filled \cup {JobDev(t)})
      /\ system' = (IF Keeps(t) \/ IsDocker(JobDev(t)) \/ ~IsMobile(JobDev(t)) THEN system
                    ELSE system \cup {JobDev(t)})
      /\ data' = (IF Keeps(t) \/ IsDocker(JobDev(t)) THEN data ELSE [data EXCEPT ![JobDev(t)] = "fresh"])
      /\ UNCHANGED <<folder, media, enabled, files, listed, session, held, imageLock, excused, storageLeft>>
  BY DEF Fill, disk, settings, locks
<1>7. StorageTypeOK'
  BY <1>1, <1>2, <1>3, <1>4, <1>5, <1>6 DEF StorageTypeOK, JobsTyped
<1>8. PlacesFit'
  BY <1>1, <1>2, <1>3, <1>4, <1>5, <1>6 DEF PlacesFit, PlaceFits, SameAim, OthersStay, Deletions,
     EndingPlaces, SettingPlaces
<1>9. DevicesHeld'
  BY <1>1, <1>2, <1>3, <1>4, <1>5, <1>6, HeldStays DEF Holds, SameAim, OthersStay, EndingPlaces
<1>10. SessionIsOver'
  BY <1>1, <1>2, <1>3, <1>4, <1>5, <1>6 DEF SessionIsOver, SameAim, OthersStay, Deletions,
     EndingPlaces, SettingPlaces
<1>11. OneAtWork'
  BY <1>1, <1>2, <1>3, <1>4, <1>5, <1>6, WorkStays DEF OthersStay, Concerned, SameAim
<1>12. MadeAtOnce'
  <2>1. SUFFICES ASSUME NEW d \in StorageDevices \ excused', ~IsDocker(d) PROVE MadeDevice(d)'
    BY DEF MadeAtOnce
  <2>2. MadeDevice(d) /\ d \notin excused
    BY <2>1, <1>1, <1>2, <1>3, <1>4, <1>5, <1>6 DEF MadeAtOnce
  <2>3. CASE d # JobDev(t)
    BY <1>1, <1>2, <1>3, <1>4, <1>5, <1>6, <2>2, <2>3, MadeStays DEF SameAim, OthersStay, StorageTypeOK
  <2>4. CASE d = JobDev(t)
    <3>1. \A u \in StorageThreads \ {t} :
             /\ job'[u] = job[u]
             /\ job[u].dev = d => job[u].at \in {"idle", "sessions"} \cup EndingPlaces
      BY <1>1, <1>2, <1>3, <1>4, <1>5, <1>6, <2>1, <2>2, <2>4, AloneThere DEF OthersStay
    <3>2. \A u \in StorageThreads \ {t} : JobDev(u)' = d => MakerFits(u, d)'
      BY <3>1 DEF MakerFits, SettingPlaces, EndingPlaces
    <3> QED
      BY SMTT(120), <1>1, <1>2, <1>3, <1>4, <1>5, <1>6, <2>1, <2>2, <2>4, <3>1, <3>2 DEF MadeDevice, BeingMade, MakerFits, Made, Keeps, IsMobile, SameAim, SettingPlaces, EndingPlaces, StorageTypeOK, PlacesFit, PlaceFits
  <2> QED
    BY <2>3, <2>4
<1>13. ImageHasSettings'
  <2>1. SUFFICES ASSUME NEW d \in StorageDevices \ excused', IsDocker(d) PROVE ImageDevice(d)'
    BY DEF ImageHasSettings
  <2>2. ImageDevice(d) /\ d \notin excused
    BY <2>1, <1>1, <1>2, <1>3, <1>4, <1>5, <1>6 DEF ImageHasSettings
  <2>3. CASE d # JobDev(t)
    BY <1>1, <1>2, <1>3, <1>4, <1>5, <1>6, <2>2, <2>3, ImageStays DEF SameAim, OthersStay, StorageTypeOK
  <2>4. CASE d = JobDev(t)
    <3>1. \A u \in StorageThreads \ {t} :
             /\ job'[u] = job[u]
             /\ job[u].dev = d => job[u].at \in {"idle", "sessions"} \cup EndingPlaces
      BY <1>1, <1>2, <1>3, <1>4, <1>5, <1>6, <2>1, <2>2, <2>4, AloneThere DEF OthersStay
    <3>2. \A u \in StorageThreads \ {t} : JobDev(u)' = d => SetterFits(u, d)'
      BY <3>1 DEF SetterFits, SettingPlaces, EndingPlaces
    <3> QED
      BY SMTT(60), <1>1, <1>2, <1>3, <1>4, <1>5, <1>6, <2>1, <2>2, <2>4, <3>1, <3>2 DEF ImageDevice, SetterFits, Foreseen, HasSettings, SameAim, SettingPlaces, EndingPlaces, Keeps, PlacesFit, PlaceFits, StorageTypeOK
  <2> QED
    BY <2>3, <2>4
<1>14. EndedBefore'
  BY <1>1, <1>2, <1>3, <1>4, <1>5, <1>6 DEF EndedBefore, SameAim, OthersStay, Deletions,
     EndingPlaces, SettingPlaces
<1> QED
  BY <1>7, <1>8, <1>9, <1>10, <1>11, <1>12, <1>13, <1>14

LEMMA EnableAppsStep ==
    ASSUME StorageInv, NEW t \in StorageThreads, EnableApps(t)
    PROVE  StorageInv'
<1> USE StorageAssumption DEF StorageInv, HeldInv, JobAt, JobIdle, JobDev, IsDocker
<1>1. /\ JobsTyped /\ OthersStay(t) /\ SameAim(t) /\ job[t].at = "apps" /\ job'[t].at = "mount"
      /\ job'[t].exist = job[t].exist /\ job'[t].todo = job[t].todo
      /\ job'[t].list = job[t].list /\ job'[t].param = job[t].param
  BY JobMoves DEF EnableApps, JobPlaces, SettingPlaces, EndingPlaces
<1>2. /\ JobDev(t) \in StorageDevices /\ job[t].then \notin Deletions
      /\ Concerned(t) = {JobDev(t)} /\ Concerned(t)' = {JobDev(t)}
  BY <1>1 DEF Concerned, PlacesFit, PlaceFits, Deletions, EndingPlaces, StorageTypeOK, StorageJobs, SettingPlaces, SameAim
<1>3. /\ enabled' = enabled \cup {JobDev(t)}
      /\ UNCHANGED <<folder, filled, system, data, media, files, listed, session, held, imageLock, excused, storageLeft>>
  BY DEF EnableApps, disk, settings, locks
<1>4. StorageTypeOK'
  BY <1>1, <1>2, <1>3 DEF StorageTypeOK, JobsTyped
<1>5. PlacesFit'
  BY <1>1, <1>2, <1>3 DEF PlacesFit, PlaceFits, SameAim, OthersStay, Deletions, EndingPlaces,
     SettingPlaces
<1>6. DevicesHeld'
  BY <1>1, <1>2, <1>3, HeldStays DEF Holds, SameAim, OthersStay, EndingPlaces
<1>7. SessionIsOver'
  BY <1>1, <1>2, <1>3 DEF SessionIsOver, SameAim, OthersStay, Deletions, EndingPlaces,
     SettingPlaces
<1>8. OneAtWork'
  BY <1>1, <1>2, <1>3, WorkStays DEF OthersStay, Concerned, SameAim
<1>9. MadeAtOnce'
  <2>1. SUFFICES ASSUME NEW d \in StorageDevices \ excused', ~IsDocker(d) PROVE MadeDevice(d)'
    BY DEF MadeAtOnce
  <2>2. MadeDevice(d) /\ d \notin excused
    BY <2>1, <1>1, <1>2, <1>3 DEF MadeAtOnce
  <2>3. CASE d # JobDev(t)
    BY <1>1, <1>2, <1>3, <2>2, <2>3, MadeStays DEF SameAim, OthersStay, StorageTypeOK
  <2>4. CASE d = JobDev(t)
    <3>1. \A u \in StorageThreads \ {t} :
             /\ job'[u] = job[u]
             /\ job[u].dev = d => job[u].at \in {"idle", "sessions"} \cup EndingPlaces
      BY <1>1, <1>2, <1>3, <2>1, <2>2, <2>4, AloneThere DEF OthersStay
    <3>2. \A u \in StorageThreads \ {t} : JobDev(u)' = d => MakerFits(u, d)'
      BY <3>1 DEF MakerFits, SettingPlaces, EndingPlaces
    <3> QED
      BY <1>1, <1>2, <1>3, <2>1, <2>2, <2>4, <3>1, <3>2 DEF MadeDevice, BeingMade, MakerFits, Made, Keeps, IsMobile, SameAim, SettingPlaces, EndingPlaces, StorageTypeOK, PlacesFit, PlaceFits
  <2> QED
    BY <2>3, <2>4
<1>10. ImageHasSettings'
  <2>1. SUFFICES ASSUME NEW d \in StorageDevices \ excused', IsDocker(d) PROVE ImageDevice(d)'
    BY DEF ImageHasSettings
  <2>2. ImageDevice(d) /\ d \notin excused
    BY <2>1, <1>1, <1>2, <1>3 DEF ImageHasSettings
  <2>3. CASE d # JobDev(t)
    BY <1>1, <1>2, <1>3, <2>2, <2>3, ImageStays DEF SameAim, OthersStay, StorageTypeOK
  <2>4. CASE d = JobDev(t)
    <3>1. \A u \in StorageThreads \ {t} :
             /\ job'[u] = job[u]
             /\ job[u].dev = d => job[u].at \in {"idle", "sessions"} \cup EndingPlaces
      BY <1>1, <1>2, <1>3, <2>1, <2>2, <2>4, AloneThere DEF OthersStay
    <3>2. \A u \in StorageThreads \ {t} : JobDev(u)' = d => SetterFits(u, d)'
      BY <3>1 DEF SetterFits, SettingPlaces, EndingPlaces
    <3> QED
      BY <1>1, <1>2, <1>3, <2>1, <2>2, <2>4, <3>1, <3>2 DEF ImageDevice, SetterFits, Foreseen, HasSettings, SameAim, SettingPlaces, EndingPlaces, Keeps, PlacesFit, PlaceFits, StorageTypeOK
  <2> QED
    BY <2>3, <2>4
<1>11. EndedBefore'
  BY <1>1, <1>2, <1>3 DEF EndedBefore, SameAim, OthersStay, Deletions, EndingPlaces, SettingPlaces
<1> QED
  BY <1>4, <1>5, <1>6, <1>7, <1>8, <1>9, <1>10, <1>11

LEMMA CreateFailsStep ==
    ASSUME StorageInv, NEW t \in StorageThreads, CreateFails(t)
    PROVE  StorageInv'
<1> USE StorageAssumption DEF StorageInv, HeldInv, JobAt, JobIdle, JobDev, IsDocker
<1>1. /\ JobsTyped /\ OthersStay(t) /\ job'[t].at = "idle" /\ job'[t].then = "" /\ job'[t].over = FALSE
      /\ job[t].at \in {"home", "fill", "apps"}
  BY JobOver DEF CreateFails
<1>2. /\ JobDev(t) \in StorageDevices /\ job[t].then \notin Deletions /\ t # "free"
      /\ Concerned(t) = {JobDev(t)}
  BY <1>1 DEF Concerned, PlacesFit, PlaceFits, Deletions, EndingPlaces, StorageTypeOK, StorageJobs
<1>3. /\ UNCHANGED <<folder, filled, data, media, files, listed, enabled, session, imageLock>>
      /\ excused' = excused \cup (IF IsDocker(JobDev(t)) THEN {} ELSE {JobDev(t)})
      /\ held' = (IF held[JobDev(t)] = t THEN [held EXCEPT ![JobDev(t)] = "free"] ELSE held)
  BY DEF CreateFails, ExcuseDevices, settings
<1>4. storageLeft' \in [StorageOps -> Nat]
  BY DEF CreateFails, StorageFault, StorageTypeOK, StorageOps
<1>5. /\ IsDocker(JobDev(t)) => system' = system
      /\ \A d \in StorageDevices : d # JobDev(t) => (d \in system' <=> d \in system)
      /\ system' \subseteq StorageDevices
  BY ZenonT(60), <1>1, <1>2, <1>3, <1>4 DEF CreateFails, StorageTypeOK
<1>6. StorageTypeOK'
  BY <1>1, <1>2, <1>3, <1>4, <1>5 DEF StorageTypeOK, JobsTyped
<1>7. PlacesFit'
  BY ZenonT(60), <1>1, <1>2, <1>3, <1>4, <1>5 DEF PlacesFit, PlaceFits, SameAim, OthersStay, Deletions,
     EndingPlaces, SettingPlaces
<1>8. DevicesHeld'
  BY <1>1, <1>2, <1>3, <1>4, <1>5, HeldGivenBack, HolderIs DEF Holds, EndingPlaces
<1>9. SessionIsOver'
  BY <1>1, <1>2, <1>3, <1>4, <1>5 DEF SessionIsOver, SameAim, OthersStay, Deletions, EndingPlaces,
     SettingPlaces
<1>10. OneAtWork'
  BY <1>1, <1>2, <1>3, <1>4, <1>5, WorkStays DEF OthersStay, Concerned, SameAim
<1>11. MadeAtOnce'
  <2>1. SUFFICES ASSUME NEW d \in StorageDevices \ excused', ~IsDocker(d) PROVE MadeDevice(d)'
    BY DEF MadeAtOnce
  <2>2. MadeDevice(d) /\ d \notin excused
    BY <2>1, <1>1, <1>2, <1>3, <1>4, <1>5 DEF MadeAtOnce
  <2>3. CASE d # JobDev(t)
    BY <1>1, <1>2, <1>3, <1>4, <1>5, <2>2, <2>3, MadeStays DEF SameAim, OthersStay, StorageTypeOK
  <2>4. CASE d = JobDev(t)
    BY <1>1, <1>2, <1>3, <1>4, <1>5, <2>1, <2>4
  <2> QED
    BY <2>3, <2>4
<1>12. ImageHasSettings'
  <2>1. SUFFICES ASSUME NEW d \in StorageDevices \ excused', IsDocker(d) PROVE ImageDevice(d)'
    BY DEF ImageHasSettings
  <2>2. ImageDevice(d) /\ d \notin excused
    BY <2>1, <1>1, <1>2, <1>3, <1>4, <1>5 DEF ImageHasSettings
  <2>3. CASE d # JobDev(t)
    BY <1>1, <1>2, <1>3, <1>4, <1>5, <2>2, <2>3, ImageStays DEF SameAim, OthersStay, StorageTypeOK
  <2>4. CASE d = JobDev(t)
    <3>1. \A u \in StorageThreads \ {t} :
             /\ job'[u] = job[u]
             /\ job[u].dev = d => job[u].at \in {"idle", "sessions"} \cup EndingPlaces
      BY <1>1, <1>2, <1>3, <1>4, <1>5, <2>1, <2>2, <2>4, AloneThere DEF OthersStay
    <3>2. \A u \in StorageThreads \ {t} : JobDev(u)' = d => SetterFits(u, d)'
      BY <3>1 DEF SetterFits, SettingPlaces, EndingPlaces
    <3> QED
      BY <1>1, <1>2, <1>3, <1>4, <1>5, <2>2, <2>4, <3>1, <3>2 DEF ImageDevice, SetterFits, Foreseen, HasSettings, SameAim, SettingPlaces, EndingPlaces
  <2> QED
    BY <2>3, <2>4
<1>13. EndedBefore'
  BY <1>1, <1>2, <1>3, <1>4, <1>5 DEF EndedBefore, SameAim, OthersStay, Deletions, EndingPlaces,
     SettingPlaces
<1> QED
  BY <1>6, <1>7, <1>8, <1>9, <1>10, <1>11, <1>12, <1>13

LEMMA MountAttaches ==
    ASSUME StorageInv, NEW t \in StorageThreads, Mount(t), job[t].todo = {}, job[t].then = "attach"
    PROVE  StorageInv'
<1> USE StorageAssumption DEF StorageInv, HeldInv, JobAt, JobIdle, JobDev, IsDocker
<1>1. /\ JobsTyped /\ OthersStay(t) /\ SameAim(t) /\ job[t].at = "mount" /\ job'[t].at = "attach"
      /\ job'[t].exist = job[t].exist /\ job'[t].todo = job[t].todo
      /\ job'[t].list = job[t].list /\ job'[t].param = job[t].param
  BY JobMoves DEF Mount, JobPlaces, SettingPlaces, EndingPlaces
<1>2. /\ JobDev(t) \in StorageDevices /\ job[t].then \notin Deletions
      /\ Concerned(t) = {JobDev(t)} /\ Concerned(t)' = {JobDev(t)}
  BY <1>1 DEF Concerned, PlacesFit, PlaceFits, Deletions, EndingPlaces, StorageTypeOK, StorageJobs, SettingPlaces, SameAim
<1>3. /\ UNCHANGED <<folder, filled, system, data, media, enabled, files, listed, session, held, imageLock, excused, storageLeft>>
  BY DEF Mount, disk, settings, locks
<1>4. StorageTypeOK'
  BY <1>1, <1>2, <1>3 DEF StorageTypeOK, JobsTyped
<1>5. PlacesFit'
  BY <1>1, <1>2, <1>3 DEF PlacesFit, PlaceFits, SameAim, OthersStay, Deletions, EndingPlaces,
     SettingPlaces
<1>6. DevicesHeld'
  BY <1>1, <1>2, <1>3, HeldStays DEF Holds, SameAim, OthersStay, EndingPlaces
<1>7. SessionIsOver'
  BY <1>1, <1>2, <1>3 DEF SessionIsOver, SameAim, OthersStay, Deletions, EndingPlaces,
     SettingPlaces
<1>8. OneAtWork'
  BY <1>1, <1>2, <1>3, WorkStays DEF OthersStay, Concerned, SameAim
<1>9. MadeAtOnce'
  <2>1. SUFFICES ASSUME NEW d \in StorageDevices \ excused', ~IsDocker(d) PROVE MadeDevice(d)'
    BY DEF MadeAtOnce
  <2>2. MadeDevice(d) /\ d \notin excused
    BY <2>1, <1>1, <1>2, <1>3 DEF MadeAtOnce
  <2>3. CASE d # JobDev(t)
    BY <1>1, <1>2, <1>3, <2>2, <2>3, MadeStays DEF SameAim, OthersStay, StorageTypeOK
  <2>4. CASE d = JobDev(t)
    <3>1. \A u \in StorageThreads \ {t} :
             /\ job'[u] = job[u]
             /\ job[u].dev = d => job[u].at \in {"idle", "sessions"} \cup EndingPlaces
      BY <1>1, <1>2, <1>3, <2>1, <2>2, <2>4, AloneThere DEF OthersStay
    <3>2. \A u \in StorageThreads \ {t} : JobDev(u)' = d => MakerFits(u, d)'
      BY <3>1 DEF MakerFits, SettingPlaces, EndingPlaces
    <3> QED
      BY <1>1, <1>2, <1>3, <2>1, <2>2, <2>4, <3>1, <3>2 DEF MadeDevice, BeingMade, MakerFits, Made, Keeps, IsMobile, SameAim, SettingPlaces, EndingPlaces, StorageTypeOK, PlacesFit, PlaceFits
  <2> QED
    BY <2>3, <2>4
<1>10. ImageHasSettings'
  <2>1. SUFFICES ASSUME NEW d \in StorageDevices \ excused', IsDocker(d) PROVE ImageDevice(d)'
    BY DEF ImageHasSettings
  <2>2. ImageDevice(d) /\ d \notin excused
    BY <2>1, <1>1, <1>2, <1>3 DEF ImageHasSettings
  <2>3. CASE d # JobDev(t)
    BY <1>1, <1>2, <1>3, <2>2, <2>3, ImageStays DEF SameAim, OthersStay, StorageTypeOK
  <2>4. CASE d = JobDev(t)
    <3>1. \A u \in StorageThreads \ {t} :
             /\ job'[u] = job[u]
             /\ job[u].dev = d => job[u].at \in {"idle", "sessions"} \cup EndingPlaces
      BY <1>1, <1>2, <1>3, <2>1, <2>2, <2>4, AloneThere DEF OthersStay
    <3>2. \A u \in StorageThreads \ {t} : JobDev(u)' = d => SetterFits(u, d)'
      BY <3>1 DEF SetterFits, SettingPlaces, EndingPlaces
    <3> QED
      BY <1>1, <1>2, <1>3, <2>1, <2>2, <2>4, <3>1, <3>2 DEF ImageDevice, SetterFits, Foreseen, HasSettings, SameAim, SettingPlaces, EndingPlaces, Keeps, PlacesFit, PlaceFits, StorageTypeOK
  <2> QED
    BY <2>3, <2>4
<1>11. EndedBefore'
  BY <1>1, <1>2, <1>3 DEF EndedBefore, SameAim, OthersStay, Deletions, EndingPlaces, SettingPlaces
<1> QED
  BY <1>4, <1>5, <1>6, <1>7, <1>8, <1>9, <1>10, <1>11

LEMMA MountEnds ==
    ASSUME StorageInv, NEW t \in StorageThreads, Mount(t), job[t].todo = {}, job[t].then # "attach"
    PROVE  StorageInv'
<1> USE StorageAssumption DEF StorageInv, HeldInv, JobAt, JobIdle, JobDev, IsDocker
<1>1. /\ JobsTyped /\ OthersStay(t) /\ job'[t].at = "idle" /\ job'[t].then = "" /\ job'[t].over = FALSE
      /\ job[t].at = "mount"
  BY JobOver DEF Mount
<1>2. /\ JobDev(t) \in StorageDevices /\ job[t].then \notin Deletions
      /\ Concerned(t) = {JobDev(t)}
  BY <1>1 DEF Concerned, PlacesFit, PlaceFits, Deletions, EndingPlaces, StorageTypeOK, StorageJobs, SettingPlaces
<1>3. /\ UNCHANGED <<folder, filled, system, data, media, enabled, files, listed, session, held, imageLock, excused, storageLeft>>
  BY DEF Mount, disk, settings, locks
<1>4. StorageTypeOK'
  BY <1>1, <1>2, <1>3 DEF StorageTypeOK, JobsTyped
<1>5. PlacesFit'
  BY ZenonT(60), <1>1, <1>2, <1>3 DEF PlacesFit, PlaceFits, SameAim, OthersStay, Deletions, EndingPlaces,
     SettingPlaces
<1>6. DevicesHeld'
  BY <1>1, <1>2, <1>3, HeldStays DEF Holds, OthersStay, EndingPlaces
<1>7. SessionIsOver'
  BY <1>1, <1>2, <1>3 DEF SessionIsOver, SameAim, OthersStay, Deletions, EndingPlaces,
     SettingPlaces
<1>8. OneAtWork'
  BY <1>1, <1>2, <1>3, WorkStays DEF OthersStay, Concerned, SameAim
<1>9. MadeAtOnce'
  <2>1. SUFFICES ASSUME NEW d \in StorageDevices \ excused', ~IsDocker(d) PROVE MadeDevice(d)'
    BY DEF MadeAtOnce
  <2>2. MadeDevice(d) /\ d \notin excused
    BY <2>1, <1>1, <1>2, <1>3 DEF MadeAtOnce
  <2>3. CASE d # JobDev(t)
    BY <1>1, <1>2, <1>3, <2>2, <2>3, MadeStays DEF SameAim, OthersStay, StorageTypeOK
  <2>4. CASE d = JobDev(t)
    <3>1. \A u \in StorageThreads \ {t} :
             /\ job'[u] = job[u]
             /\ job[u].dev = d => job[u].at \in {"idle", "sessions"} \cup EndingPlaces
      BY <1>1, <1>2, <1>3, <2>1, <2>2, <2>4, AloneThere DEF OthersStay
    <3>2. \A u \in StorageThreads \ {t} : JobDev(u)' = d => MakerFits(u, d)'
      BY <3>1 DEF MakerFits, SettingPlaces, EndingPlaces
    <3> QED
      BY <1>1, <1>2, <1>3, <2>1, <2>2, <2>4, <3>1, <3>2 DEF MadeDevice, BeingMade, MakerFits, Made, Keeps, IsMobile, SameAim, SettingPlaces, EndingPlaces, StorageTypeOK, PlacesFit, PlaceFits
  <2> QED
    BY <2>3, <2>4
<1>10. ImageHasSettings'
  <2>1. SUFFICES ASSUME NEW d \in StorageDevices \ excused', IsDocker(d) PROVE ImageDevice(d)'
    BY DEF ImageHasSettings
  <2>2. ImageDevice(d) /\ d \notin excused
    BY <2>1, <1>1, <1>2, <1>3 DEF ImageHasSettings
  <2>3. CASE d # JobDev(t)
    BY <1>1, <1>2, <1>3, <2>2, <2>3, ImageStays DEF SameAim, OthersStay, StorageTypeOK
  <2>4. CASE d = JobDev(t)
    <3>1. \A u \in StorageThreads \ {t} :
             /\ job'[u] = job[u]
             /\ job[u].dev = d => job[u].at \in {"idle", "sessions"} \cup EndingPlaces
      BY <1>1, <1>2, <1>3, <2>1, <2>2, <2>4, AloneThere DEF OthersStay
    <3>2. \A u \in StorageThreads \ {t} : JobDev(u)' = d => SetterFits(u, d)'
      BY <3>1 DEF SetterFits, SettingPlaces, EndingPlaces
    <3> QED
      BY <1>1, <1>2, <1>3, <2>1, <2>2, <2>4, <3>1, <3>2 DEF ImageDevice, SetterFits, Foreseen, HasSettings, SameAim, SettingPlaces, EndingPlaces, Keeps, PlacesFit, PlaceFits, StorageTypeOK
  <2> QED
    BY <2>3, <2>4
<1>11. EndedBefore'
  BY <1>1, <1>2, <1>3 DEF EndedBefore, SameAim, OthersStay, Deletions, EndingPlaces, SettingPlaces
<1> QED
  BY <1>4, <1>5, <1>6, <1>7, <1>8, <1>9, <1>10, <1>11

LEMMA MountTakes ==
    ASSUME StorageInv, NEW t \in StorageThreads, Mount(t), job[t].todo # {}
    PROVE  StorageInv'
<1> USE StorageAssumption DEF StorageInv, HeldInv, JobAt, JobIdle, JobDev, IsDocker
<1>1. PICK p \in job[t].todo : job' = [job EXCEPT ![t].at = "save", ![t].list = listed[JobDev(t)],
                                             ![t].param = p, ![t].todo = @ \ {p}]
  BY DEF Mount
<1>2. /\ JobsTyped /\ OthersStay(t) /\ SameAim(t) /\ job[t].at = "mount" /\ job'[t].at = "save"
      /\ job'[t].exist = job[t].exist /\ job'[t].todo = job[t].todo \ {p} /\ job'[t].param = p
      /\ job'[t].list = listed[JobDev(t)] /\ job[t].todo \subseteq Params
      /\ p \in job[t].todo /\ p \in Params
  <2> DEFINE j == [job[t] EXCEPT !.at = "save", !.list = listed[JobDev(t)], !.param = p, !.todo = @ \ {p}]
  <2>1. job[t] \in StorageJobs /\ job[t].at = "mount"
    BY DEF StorageTypeOK, Mount
  <2>2. listed[JobDev(t)] \in SUBSET Params /\ job[t].todo \subseteq Params
    BY <2>1 DEF StorageTypeOK, StorageJobs, PlacesFit, PlaceFits, SettingPlaces
  <2>3. /\ j \in StorageJobs /\ j.at = "save" /\ j.list = listed[JobDev(t)] /\ j.param = p
        /\ j.todo = job[t].todo \ {p} /\ j.exist = job[t].exist /\ j.dev = job[t].dev
        /\ j.over = job[t].over /\ j.then = job[t].then /\ j.rest = job[t].rest
    BY <1>1, <2>1, <2>2 DEF StorageJobs, SettingPlaces, EndingPlaces
  <2>4. job' = [job EXCEPT ![t] = j]
    BY <1>1 DEF StorageTypeOK
  <2> HIDE DEF j
  <2> QED
    BY ZenonT(60), <2>1, <2>2, <2>3, <2>4, JobSet DEF SameAim
<1>3. /\ JobDev(t) \in StorageDevices /\ job[t].then \notin Deletions
      /\ Concerned(t) = {JobDev(t)} /\ Concerned(t)' = {JobDev(t)}
  BY <1>1, <1>2 DEF Concerned, PlacesFit, PlaceFits, Deletions, EndingPlaces, StorageTypeOK, StorageJobs, SettingPlaces, SameAim
<1>4. /\ folder' = (IF DeviceKind[JobDev(t)] = "tar" THEN folder ELSE folder \cup {JobDev(t)})
      /\ UNCHANGED <<filled, system, data, media, enabled, files, listed, session, held, imageLock, excused, storageLeft>>
  BY DEF Mount, disk, settings, locks
<1>5. StorageTypeOK'
  BY <1>2, <1>3, <1>4 DEF StorageTypeOK, JobsTyped
<1>6. PlacesFit'
  BY <1>2, <1>3, <1>4 DEF PlacesFit, PlaceFits, SameAim, OthersStay, Deletions, EndingPlaces,
     SettingPlaces
<1>7. DevicesHeld'
  BY <1>2, <1>3, <1>4, HeldStays DEF Holds, SameAim, OthersStay, EndingPlaces
<1>8. SessionIsOver'
  BY <1>2, <1>3, <1>4 DEF SessionIsOver, SameAim, OthersStay, Deletions, EndingPlaces,
     SettingPlaces
<1>9. OneAtWork'
  BY <1>2, <1>3, <1>4, WorkStays DEF OthersStay, Concerned, SameAim
<1>10. MadeAtOnce'
  <2>1. SUFFICES ASSUME NEW d \in StorageDevices \ excused', ~IsDocker(d) PROVE MadeDevice(d)'
    BY DEF MadeAtOnce
  <2>2. MadeDevice(d) /\ d \notin excused
    BY <2>1, <1>2, <1>3, <1>4 DEF MadeAtOnce
  <2>3. CASE d # JobDev(t)
    BY <1>2, <1>3, <1>4, <2>2, <2>3, MadeStays DEF SameAim, OthersStay, StorageTypeOK
  <2>4. CASE d = JobDev(t)
    <3>1. \A u \in StorageThreads \ {t} :
             /\ job'[u] = job[u]
             /\ job[u].dev = d => job[u].at \in {"idle", "sessions"} \cup EndingPlaces
      BY <1>2, <1>3, <1>4, <2>1, <2>2, <2>4, AloneThere DEF OthersStay
    <3>2. \A u \in StorageThreads \ {t} : JobDev(u)' = d => MakerFits(u, d)'
      BY <3>1 DEF MakerFits, SettingPlaces, EndingPlaces
    <3> QED
      BY <1>2, <1>3, <1>4, <2>1, <2>2, <2>4, <3>1, <3>2 DEF MadeDevice, BeingMade, MakerFits, Made, Keeps, IsMobile, SameAim, SettingPlaces, EndingPlaces, StorageTypeOK, PlacesFit, PlaceFits
  <2> QED
    BY <2>3, <2>4
<1>11. ImageHasSettings'
  <2>1. SUFFICES ASSUME NEW d \in StorageDevices \ excused', IsDocker(d) PROVE ImageDevice(d)'
    BY DEF ImageHasSettings
  <2>2. ImageDevice(d) /\ d \notin excused
    BY <2>1, <1>2, <1>3, <1>4 DEF ImageHasSettings
  <2>3. CASE d # JobDev(t)
    BY <1>2, <1>3, <1>4, <2>2, <2>3, ImageStays DEF SameAim, OthersStay, StorageTypeOK
  <2>4. CASE d = JobDev(t)
    <3>1. \A u \in StorageThreads \ {t} :
             /\ job'[u] = job[u]
             /\ job[u].dev = d => job[u].at \in {"idle", "sessions"} \cup EndingPlaces
      BY <1>2, <1>3, <1>4, <2>1, <2>2, <2>4, AloneThere DEF OthersStay
    <3>2. \A u \in StorageThreads \ {t} : JobDev(u)' = d => SetterFits(u, d)'
      BY <3>1 DEF SetterFits, SettingPlaces, EndingPlaces
    <3> QED
      BY SMTT(60), <1>2, <1>3, <1>4, <2>1, <2>2, <2>4, <3>1, <3>2 DEF ImageDevice, SetterFits, Foreseen, HasSettings, SameAim, SettingPlaces, EndingPlaces, Keeps, PlacesFit, PlaceFits, StorageTypeOK
  <2> QED
    BY <2>3, <2>4
<1>12. EndedBefore'
  BY <1>2, <1>3, <1>4 DEF EndedBefore, SameAim, OthersStay, Deletions, EndingPlaces, SettingPlaces
<1> QED
  BY <1>5, <1>6, <1>7, <1>8, <1>9, <1>10, <1>11, <1>12

LEMMA SaveFileStep ==
    ASSUME StorageInv, NEW t \in StorageThreads, SaveFile(t)
    PROVE  StorageInv'
<1> USE StorageAssumption DEF StorageInv, HeldInv, JobAt, JobIdle, JobDev, IsDocker
<1>1. /\ JobsTyped /\ OthersStay(t) /\ SameAim(t) /\ job[t].at = "save" /\ job'[t].at = "unmount"
      /\ job'[t].exist = job[t].exist /\ job'[t].todo = job[t].todo
      /\ job'[t].list = job[t].list /\ job'[t].param = job[t].param
  BY JobMoves DEF SaveFile, JobPlaces, SettingPlaces, EndingPlaces, Written
<1>2. /\ JobDev(t) \in StorageDevices /\ job[t].then \notin Deletions
      /\ Concerned(t) = {JobDev(t)} /\ Concerned(t)' = {JobDev(t)}
      /\ job[t].param \in Params
  BY <1>1 DEF Concerned, PlacesFit, PlaceFits, Deletions, EndingPlaces, StorageTypeOK, StorageJobs, SettingPlaces, SameAim
<1>3. /\ files' = [files EXCEPT ![JobDev(t)] = @ \cup {job[t].param}]
      /\ folder' = (IF DeviceKind[JobDev(t)] = "tar" THEN folder \cup {JobDev(t)} ELSE folder)
      /\ system' = (IF DeviceKind[JobDev(t)] = "tar" THEN system \cup {JobDev(t)} ELSE system)
      /\ UNCHANGED <<filled, data, media, enabled, listed, session, held, imageLock, excused, storageLeft>>
  BY DEF SaveFile, disk, settings, locks, Written
<1>4. StorageTypeOK'
  BY <1>1, <1>2, <1>3 DEF StorageTypeOK, JobsTyped
<1>5. PlacesFit'
  BY <1>1, <1>2, <1>3 DEF PlacesFit, PlaceFits, SameAim, OthersStay, Deletions, EndingPlaces,
     SettingPlaces
<1>6. DevicesHeld'
  BY <1>1, <1>2, <1>3, HeldStays DEF Holds, SameAim, OthersStay, EndingPlaces
<1>7. SessionIsOver'
  BY <1>1, <1>2, <1>3 DEF SessionIsOver, SameAim, OthersStay, Deletions, EndingPlaces,
     SettingPlaces
<1>8. OneAtWork'
  BY <1>1, <1>2, <1>3, WorkStays DEF OthersStay, Concerned, SameAim
<1>9. MadeAtOnce'
  <2>1. SUFFICES ASSUME NEW d \in StorageDevices \ excused', ~IsDocker(d) PROVE MadeDevice(d)'
    BY DEF MadeAtOnce
  <2>2. MadeDevice(d) /\ d \notin excused
    BY <2>1, <1>1, <1>2, <1>3 DEF MadeAtOnce
  <2>3. CASE d # JobDev(t)
    BY <1>1, <1>2, <1>3, <2>2, <2>3, MadeStays DEF SameAim, OthersStay, StorageTypeOK
  <2>4. CASE d = JobDev(t)
    <3>1. \A u \in StorageThreads \ {t} :
             /\ job'[u] = job[u]
             /\ job[u].dev = d => job[u].at \in {"idle", "sessions"} \cup EndingPlaces
      BY <1>1, <1>2, <1>3, <2>1, <2>2, <2>4, AloneThere DEF OthersStay
    <3>2. \A u \in StorageThreads \ {t} : JobDev(u)' = d => MakerFits(u, d)'
      BY <3>1 DEF MakerFits, SettingPlaces, EndingPlaces
    <3> QED
      BY <1>1, <1>2, <1>3, <2>1, <2>2, <2>4, <3>1, <3>2 DEF MadeDevice, BeingMade, MakerFits, Made, Keeps, IsMobile, SameAim, SettingPlaces, EndingPlaces, StorageTypeOK, PlacesFit, PlaceFits
  <2> QED
    BY <2>3, <2>4
<1>10. ImageHasSettings'
  <2>1. SUFFICES ASSUME NEW d \in StorageDevices \ excused', IsDocker(d) PROVE ImageDevice(d)'
    BY DEF ImageHasSettings
  <2>2. ImageDevice(d) /\ d \notin excused
    BY <2>1, <1>1, <1>2, <1>3 DEF ImageHasSettings
  <2>3. CASE d # JobDev(t)
    BY <1>1, <1>2, <1>3, <2>2, <2>3, ImageStays DEF SameAim, OthersStay, StorageTypeOK
  <2>4. CASE d = JobDev(t)
    <3>1. \A u \in StorageThreads \ {t} :
             /\ job'[u] = job[u]
             /\ job[u].dev = d => job[u].at \in {"idle", "sessions"} \cup EndingPlaces
      BY <1>1, <1>2, <1>3, <2>1, <2>2, <2>4, AloneThere DEF OthersStay
    <3>2. \A u \in StorageThreads \ {t} : JobDev(u)' = d => SetterFits(u, d)'
      BY <3>1 DEF SetterFits, SettingPlaces, EndingPlaces
    <3> QED
      BY SMTT(60), <1>1, <1>2, <1>3, <2>1, <2>2, <2>4, <3>1, <3>2 DEF ImageDevice, SetterFits, Foreseen, HasSettings, SameAim, SettingPlaces, EndingPlaces, Keeps, PlacesFit, PlaceFits, StorageTypeOK
  <2> QED
    BY <2>3, <2>4
<1>11. EndedBefore'
  BY <1>1, <1>2, <1>3 DEF EndedBefore, SameAim, OthersStay, Deletions, EndingPlaces, SettingPlaces
<1> QED
  BY <1>4, <1>5, <1>6, <1>7, <1>8, <1>9, <1>10, <1>11

LEMMA SaveRestrictionsStep ==
    ASSUME StorageInv, NEW t \in StorageThreads, SaveRestrictions(t)
    PROVE  StorageInv'
<1> USE StorageAssumption DEF StorageInv, HeldInv, JobAt, JobIdle, JobDev, IsDocker
<1>1. /\ JobsTyped /\ OthersStay(t) /\ SameAim(t) /\ job[t].at = "save" /\ job'[t].at = "unmount"
      /\ job'[t].exist = job[t].exist /\ job'[t].todo = job[t].todo
      /\ job'[t].list = job[t].list /\ job'[t].param = job[t].param
  BY JobMoves DEF SaveRestrictions, JobPlaces, SettingPlaces, EndingPlaces, Written
<1>2. /\ JobDev(t) \in StorageDevices /\ job[t].then \notin Deletions
      /\ Concerned(t) = {JobDev(t)} /\ Concerned(t)' = {JobDev(t)}
      /\ job[t].param \in Params /\ IsDocker(JobDev(t))
  BY <1>1 DEF Concerned, PlacesFit, PlaceFits, Deletions, EndingPlaces, StorageTypeOK, StorageJobs, SettingPlaces, SameAim, SaveRestrictions
<1>3. /\ files' = [files EXCEPT ![JobDev(t)] = @ \cup {job[t].param}]
      /\ UNCHANGED <<folder, filled, system, data, media, enabled, listed, session, held, imageLock, excused, storageLeft>>
  BY DEF SaveRestrictions, disk, settings, locks, Written
<1>4. StorageTypeOK'
  BY <1>1, <1>2, <1>3 DEF StorageTypeOK, JobsTyped
<1>5. PlacesFit'
  BY <1>1, <1>2, <1>3 DEF PlacesFit, PlaceFits, SameAim, OthersStay, Deletions, EndingPlaces,
     SettingPlaces
<1>6. DevicesHeld'
  BY <1>1, <1>2, <1>3, HeldStays DEF Holds, SameAim, OthersStay, EndingPlaces
<1>7. SessionIsOver'
  BY <1>1, <1>2, <1>3 DEF SessionIsOver, SameAim, OthersStay, Deletions, EndingPlaces,
     SettingPlaces
<1>8. OneAtWork'
  BY <1>1, <1>2, <1>3, WorkStays DEF OthersStay, Concerned, SameAim
<1>9. MadeAtOnce'
  <2>1. SUFFICES ASSUME NEW d \in StorageDevices \ excused', ~IsDocker(d) PROVE MadeDevice(d)'
    BY DEF MadeAtOnce
  <2>2. MadeDevice(d) /\ d \notin excused
    BY <2>1, <1>1, <1>2, <1>3 DEF MadeAtOnce
  <2>3. CASE d # JobDev(t)
    BY <1>1, <1>2, <1>3, <2>2, <2>3, MadeStays DEF SameAim, OthersStay, StorageTypeOK
  <2>4. CASE d = JobDev(t)
    <3>1. \A u \in StorageThreads \ {t} :
             /\ job'[u] = job[u]
             /\ job[u].dev = d => job[u].at \in {"idle", "sessions"} \cup EndingPlaces
      BY <1>1, <1>2, <1>3, <2>1, <2>2, <2>4, AloneThere DEF OthersStay
    <3>2. \A u \in StorageThreads \ {t} : JobDev(u)' = d => MakerFits(u, d)'
      BY <3>1 DEF MakerFits, SettingPlaces, EndingPlaces
    <3> QED
      BY <1>1, <1>2, <1>3, <2>1, <2>2, <2>4, <3>1, <3>2 DEF MadeDevice, BeingMade, MakerFits, Made, Keeps, IsMobile, SameAim, SettingPlaces, EndingPlaces, StorageTypeOK, PlacesFit, PlaceFits
  <2> QED
    BY <2>3, <2>4
<1>10. ImageHasSettings'
  <2>1. SUFFICES ASSUME NEW d \in StorageDevices \ excused', IsDocker(d) PROVE ImageDevice(d)'
    BY DEF ImageHasSettings
  <2>2. ImageDevice(d) /\ d \notin excused
    BY <2>1, <1>1, <1>2, <1>3 DEF ImageHasSettings
  <2>3. CASE d # JobDev(t)
    BY <1>1, <1>2, <1>3, <2>2, <2>3, ImageStays DEF SameAim, OthersStay, StorageTypeOK
  <2>4. CASE d = JobDev(t)
    <3>1. \A u \in StorageThreads \ {t} :
             /\ job'[u] = job[u]
             /\ job[u].dev = d => job[u].at \in {"idle", "sessions"} \cup EndingPlaces
      BY <1>1, <1>2, <1>3, <2>1, <2>2, <2>4, AloneThere DEF OthersStay
    <3>2. \A u \in StorageThreads \ {t} : JobDev(u)' = d => SetterFits(u, d)'
      BY <3>1 DEF SetterFits, SettingPlaces, EndingPlaces
    <3> QED
      BY SMTT(60), <1>1, <1>2, <1>3, <2>1, <2>2, <2>4, <3>1, <3>2 DEF ImageDevice, SetterFits, Foreseen, HasSettings, SameAim, SettingPlaces, EndingPlaces, Keeps, PlacesFit, PlaceFits, StorageTypeOK
  <2> QED
    BY <2>3, <2>4
<1>11. EndedBefore'
  BY <1>1, <1>2, <1>3 DEF EndedBefore, SameAim, OthersStay, Deletions, EndingPlaces, SettingPlaces
<1> QED
  BY <1>4, <1>5, <1>6, <1>7, <1>8, <1>9, <1>10, <1>11

LEMMA UnmountStep ==
    ASSUME StorageInv, NEW t \in StorageThreads, Unmount(t)
    PROVE  StorageInv'
<1> USE StorageAssumption DEF StorageInv, HeldInv, JobAt, JobIdle, JobDev, IsDocker
<1>1. /\ JobsTyped /\ OthersStay(t) /\ SameAim(t) /\ job[t].at = "unmount" /\ job'[t].at = "mount"
      /\ job'[t].exist = job[t].exist /\ job'[t].todo = job[t].todo
      /\ job'[t].list = job[t].list /\ job'[t].param = job[t].param
  BY JobMoves DEF Unmount, JobPlaces, SettingPlaces, EndingPlaces
<1>2. /\ JobDev(t) \in StorageDevices /\ job[t].then \notin Deletions
      /\ Concerned(t) = {JobDev(t)} /\ Concerned(t)' = {JobDev(t)}
      /\ job[t].param \in Params /\ job[t].list \in SUBSET Params
  BY <1>1 DEF Concerned, PlacesFit, PlaceFits, Deletions, EndingPlaces, StorageTypeOK, StorageJobs, SettingPlaces, SameAim
<1>3. /\ listed' = [listed EXCEPT ![JobDev(t)] = job[t].list \cup {job[t].param}]
      /\ UNCHANGED <<folder, filled, system, data, media, enabled, files, session, held, imageLock, excused, storageLeft>>
  BY DEF Unmount, disk, settings, locks
<1>4. StorageTypeOK'
  BY <1>1, <1>2, <1>3 DEF StorageTypeOK, JobsTyped
<1>5. PlacesFit'
  BY <1>1, <1>2, <1>3 DEF PlacesFit, PlaceFits, SameAim, OthersStay, Deletions, EndingPlaces,
     SettingPlaces
<1>6. DevicesHeld'
  BY <1>1, <1>2, <1>3, HeldStays DEF Holds, SameAim, OthersStay, EndingPlaces
<1>7. SessionIsOver'
  BY <1>1, <1>2, <1>3 DEF SessionIsOver, SameAim, OthersStay, Deletions, EndingPlaces,
     SettingPlaces
<1>8. OneAtWork'
  BY <1>1, <1>2, <1>3, WorkStays DEF OthersStay, Concerned, SameAim
<1>9. MadeAtOnce'
  <2>1. SUFFICES ASSUME NEW d \in StorageDevices \ excused', ~IsDocker(d) PROVE MadeDevice(d)'
    BY DEF MadeAtOnce
  <2>2. MadeDevice(d) /\ d \notin excused
    BY <2>1, <1>1, <1>2, <1>3 DEF MadeAtOnce
  <2>3. CASE d # JobDev(t)
    BY <1>1, <1>2, <1>3, <2>2, <2>3, MadeStays DEF SameAim, OthersStay, StorageTypeOK
  <2>4. CASE d = JobDev(t)
    <3>1. \A u \in StorageThreads \ {t} :
             /\ job'[u] = job[u]
             /\ job[u].dev = d => job[u].at \in {"idle", "sessions"} \cup EndingPlaces
      BY <1>1, <1>2, <1>3, <2>1, <2>2, <2>4, AloneThere DEF OthersStay
    <3>2. \A u \in StorageThreads \ {t} : JobDev(u)' = d => MakerFits(u, d)'
      BY <3>1 DEF MakerFits, SettingPlaces, EndingPlaces
    <3> QED
      BY <1>1, <1>2, <1>3, <2>1, <2>2, <2>4, <3>1, <3>2 DEF MadeDevice, BeingMade, MakerFits, Made, Keeps, IsMobile, SameAim, SettingPlaces, EndingPlaces, StorageTypeOK, PlacesFit, PlaceFits
  <2> QED
    BY <2>3, <2>4
<1>10. ImageHasSettings'
  <2>1. SUFFICES ASSUME NEW d \in StorageDevices \ excused', IsDocker(d) PROVE ImageDevice(d)'
    BY DEF ImageHasSettings
  <2>2. ImageDevice(d) /\ d \notin excused
    BY <2>1, <1>1, <1>2, <1>3 DEF ImageHasSettings
  <2>3. CASE d # JobDev(t)
    BY <1>1, <1>2, <1>3, <2>2, <2>3, ImageStays DEF SameAim, OthersStay, StorageTypeOK
  <2>4. CASE d = JobDev(t)
    <3>1. \A u \in StorageThreads \ {t} :
             /\ job'[u] = job[u]
             /\ job[u].dev = d => job[u].at \in {"idle", "sessions"} \cup EndingPlaces
      BY <1>1, <1>2, <1>3, <2>1, <2>2, <2>4, AloneThere DEF OthersStay
    <3>2. \A u \in StorageThreads \ {t} : JobDev(u)' = d => SetterFits(u, d)'
      BY <3>1 DEF SetterFits, SettingPlaces, EndingPlaces
    <3> QED
      BY SMTT(60), <1>1, <1>2, <1>3, <2>1, <2>2, <2>4, <3>1, <3>2 DEF ImageDevice, SetterFits, Foreseen, HasSettings, SameAim, SettingPlaces, EndingPlaces, Keeps, PlacesFit, PlaceFits, StorageTypeOK
  <2> QED
    BY <2>3, <2>4
<1>11. EndedBefore'
  BY <1>1, <1>2, <1>3 DEF EndedBefore, SameAim, OthersStay, Deletions, EndingPlaces, SettingPlaces
<1> QED
  BY <1>4, <1>5, <1>6, <1>7, <1>8, <1>9, <1>10, <1>11

LEMMA AttachStep ==
    ASSUME StorageInv, NEW t \in StorageThreads, Attach(t)
    PROVE  StorageInv'
<1> USE StorageAssumption DEF StorageInv, HeldInv, JobAt, JobIdle, JobDev, IsDocker
<1>1. /\ JobsTyped /\ OthersStay(t) /\ job'[t].at = "idle" /\ job'[t].then = "" /\ job'[t].over = FALSE
      /\ job[t].at = "attach"
  BY JobOver DEF Attach
<1>2. /\ JobDev(t) \in StorageDevices /\ job[t].then \notin Deletions /\ Holds(t)
      /\ Concerned(t) = {JobDev(t)}
  BY <1>1 DEF Concerned, PlacesFit, PlaceFits, Deletions, EndingPlaces, StorageTypeOK, StorageJobs, SettingPlaces, Holds
<1>3. /\ session' = session \cup {JobDev(t)} /\ data' = [data EXCEPT ![JobDev(t)] = "used"]
      /\ system' = (IF IsDocker(JobDev(t)) THEN system \cup {JobDev(t)} ELSE system)
      /\ held' = [held EXCEPT ![JobDev(t)] = "free"]
      /\ UNCHANGED <<folder, filled, media, enabled, files, listed, imageLock, excused, storageLeft>>
  BY DEF Attach, disk, settings, locks
<1>4. StorageTypeOK'
  BY <1>1, <1>2, <1>3 DEF StorageTypeOK, JobsTyped
<1>5. PlacesFit'
  BY ZenonT(60), <1>1, <1>2, <1>3 DEF PlacesFit, PlaceFits, SameAim, OthersStay, Deletions, EndingPlaces,
     SettingPlaces
<1>6. DevicesHeld'
  BY <1>1, <1>2, <1>3, HeldGivenBack, HolderIs DEF Holds, EndingPlaces, SettingPlaces
<1>7. SessionIsOver'
  <2>1. SUFFICES ASSUME NEW u \in StorageThreads, job'[u].at \in EndingPlaces \ {"detach", "drop"}
                 PROVE  job'[u].dev \notin session'
    BY DEF SessionIsOver
  <2>2. u # t /\ job'[u] = job[u]
    BY <2>1, <1>1, <1>2, <1>3 DEF OthersStay, EndingPlaces
  <2>3. Holds(u) /\ held[JobDev(u)] = u /\ held[JobDev(t)] = t
    BY <2>1, <2>2, <1>2, HolderIs DEF Holds
  <2> QED
    BY <2>1, <2>2, <2>3, <1>1, <1>2, <1>3 DEF SessionIsOver
<1>8. OneAtWork'
  BY <1>1, <1>2, <1>3, WorkStays DEF OthersStay, Concerned, SameAim
<1>9. MadeAtOnce'
  <2>1. SUFFICES ASSUME NEW d \in StorageDevices \ excused', ~IsDocker(d) PROVE MadeDevice(d)'
    BY DEF MadeAtOnce
  <2>2. MadeDevice(d) /\ d \notin excused
    BY <2>1, <1>1, <1>2, <1>3 DEF MadeAtOnce
  <2>3. CASE d # JobDev(t)
    BY <1>1, <1>2, <1>3, <2>2, <2>3, MadeStays DEF SameAim, OthersStay, StorageTypeOK
  <2>4. CASE d = JobDev(t)
    <3>1. \A u \in StorageThreads \ {t} :
             /\ job'[u] = job[u]
             /\ job[u].dev = d => job[u].at \in {"idle", "sessions"} \cup EndingPlaces
      BY <1>1, <1>2, <1>3, <2>1, <2>2, <2>4, AloneThere DEF OthersStay
    <3>2. \A u \in StorageThreads \ {t} : JobDev(u)' = d => MakerFits(u, d)'
      BY <3>1 DEF MakerFits, SettingPlaces, EndingPlaces
    <3> QED
      BY <1>1, <1>2, <1>3, <2>1, <2>2, <2>4, <3>1, <3>2 DEF MadeDevice, BeingMade, MakerFits, Made, Keeps, IsMobile, SameAim, SettingPlaces, EndingPlaces, StorageTypeOK, PlacesFit, PlaceFits
  <2> QED
    BY <2>3, <2>4
<1>10. ImageHasSettings'
  <2>1. SUFFICES ASSUME NEW d \in StorageDevices \ excused', IsDocker(d) PROVE ImageDevice(d)'
    BY DEF ImageHasSettings
  <2>2. ImageDevice(d) /\ d \notin excused
    BY <2>1, <1>1, <1>2, <1>3 DEF ImageHasSettings
  <2>3. CASE d # JobDev(t)
    BY <1>1, <1>2, <1>3, <2>2, <2>3, ImageStays DEF SameAim, OthersStay, StorageTypeOK
  <2>4. CASE d = JobDev(t)
    <3>1. \A u \in StorageThreads \ {t} :
             /\ job'[u] = job[u]
             /\ job[u].dev = d => job[u].at \in {"idle", "sessions"} \cup EndingPlaces
      BY <1>1, <1>2, <1>3, <2>1, <2>2, <2>4, AloneThere DEF OthersStay
    <3>2. \A u \in StorageThreads \ {t} : JobDev(u)' = d => SetterFits(u, d)'
      BY <3>1 DEF SetterFits, SettingPlaces, EndingPlaces
    <3> QED
      BY ZenonT(60), <1>1, <1>2, <1>3, <2>1, <2>2, <2>4, <3>1, <3>2 DEF ImageDevice, SetterFits, Foreseen, HasSettings, SameAim, SettingPlaces, EndingPlaces, Keeps, PlacesFit, PlaceFits, StorageTypeOK
  <2> QED
    BY <2>3, <2>4
<1>11. EndedBefore'
  <2>1. SUFFICES ASSUME NEW u \in StorageThreads, job'[u].then \in Deletions
                 PROVE  (session' \cap job'[u].todo) \ excused'
                           \subseteq job'[u].rest \cup (IF job'[u].at \in {"detach", "drop"} THEN {JobDev(u)'} ELSE {})
    BY DEF EndedBefore
  <2>2. u # t /\ job'[u] = job[u]
    BY <2>1, <1>1, <1>2, <1>3 DEF OthersStay, Deletions
  <2>3. JobDev(t) \in job[u].todo => JobDev(t) \in excused
    BY <2>1, <2>2, <1>1, <1>2, <1>3 DEF OneAtWork, Concerned, PlacesFit, PlaceFits, Deletions, EndingPlaces
  <2> QED
    BY <2>1, <2>2, <2>3, <1>1, <1>2, <1>3 DEF EndedBefore
<1> QED
  BY <1>4, <1>5, <1>6, <1>7, <1>8, <1>9, <1>10, <1>11

\* The end of a session goes on to its next place: the session is deleted
\* before the image is touched.
LEMMA EndingGoesOn ==
    ASSUME StorageInv, NEW t \in StorageThreads, NEW place \in EndingPlaces \ {"detach"},
           job[t].at \in EndingPlaces, JobGoes(t, place),
           \/ session' = session /\ (job[t].at \in {"detach", "drop"} => place = "drop")
           \/ session' = session \ {JobDev(t)} /\ job[t].at = "drop",
           imageLock' \in [StorageDevices -> StorageThreads \cup {"free"}],
           storageLeft' \in [StorageOps -> Nat],
           UNCHANGED <<folder, filled, system, data, media, enabled, files, listed, held, excused>>
    PROVE  StorageInv'
<1> USE StorageAssumption DEF StorageInv, HeldInv, JobAt, JobIdle, JobDev, IsDocker
<1>1. /\ JobsTyped /\ OthersStay(t) /\ SameAim(t) /\ job[t].at \in EndingPlaces /\ job'[t].at = place
      /\ job'[t].exist = job[t].exist /\ job'[t].todo = job[t].todo
      /\ job'[t].list = job[t].list /\ job'[t].param = job[t].param
  BY JobMoves DEF JobPlaces
<1>2. JobDev(t) \in StorageDevices /\ JobDev(t) \in Concerned(t) /\ Concerned(t)' = Concerned(t)
  BY <1>1 DEF Concerned, PlacesFit, PlaceFits, Deletions, EndingPlaces, StorageTypeOK, StorageJobs, SettingPlaces, SameAim
<1>0. job[t].at # "idle"
  BY <1>1 DEF EndingPlaces
<1>3. /\ session' \in {session, session \ {JobDev(t)}}
      /\ UNCHANGED <<folder, filled, system, data, media, enabled, files, listed, held, excused>>
  OBVIOUS
<1>4. StorageTypeOK'
  BY <1>1, <1>2, <1>3 DEF StorageTypeOK, JobsTyped
<1>5. PlacesFit'
  BY <1>1, <1>2, <1>3 DEF PlacesFit, PlaceFits, SameAim, OthersStay, Deletions, EndingPlaces,
     SettingPlaces
<1>6. DevicesHeld'
  BY <1>1, <1>2, <1>3, HeldStays DEF Holds, SameAim, OthersStay, EndingPlaces
<1>7. SessionIsOver'
  BY <1>1, <1>2, <1>3 DEF SessionIsOver, SameAim, OthersStay, Deletions, EndingPlaces,
     SettingPlaces
<1>8. OneAtWork'
  BY <1>0, <1>1, <1>2, <1>3, WorkStays DEF OthersStay, Concerned, SameAim
<1>9. MadeAtOnce'
  <2>1. SUFFICES ASSUME NEW d \in StorageDevices \ excused', ~IsDocker(d) PROVE MadeDevice(d)'
    BY DEF MadeAtOnce
  <2>2. MadeDevice(d) /\ d \notin excused
    BY <2>1, <1>1, <1>2, <1>3 DEF MadeAtOnce
  <2>3. CASE d # JobDev(t)
    BY <1>1, <1>2, <1>3, <2>2, <2>3, MadeStays DEF SameAim, OthersStay, StorageTypeOK
  <2>4. CASE d = JobDev(t)
    <3>1. \A u \in StorageThreads \ {t} :
             /\ job'[u] = job[u]
             /\ job[u].dev = d => job[u].at \in {"idle", "sessions"} \cup EndingPlaces
      BY <1>0, <1>1, <1>2, <1>3, <2>1, <2>2, <2>4, AloneThere DEF OthersStay
    <3>2. \A u \in StorageThreads \ {t} : JobDev(u)' = d => MakerFits(u, d)'
      BY <3>1 DEF MakerFits, SettingPlaces, EndingPlaces
    <3> QED
      BY <1>1, <1>2, <1>3, <2>1, <2>2, <2>4, <3>1, <3>2 DEF MadeDevice, BeingMade, MakerFits, Made, Keeps, IsMobile, SameAim, SettingPlaces, EndingPlaces, StorageTypeOK, PlacesFit, PlaceFits, EndingPlaces
  <2> QED
    BY <2>3, <2>4
<1>10. ImageHasSettings'
  <2>1. SUFFICES ASSUME NEW d \in StorageDevices \ excused', IsDocker(d) PROVE ImageDevice(d)'
    BY DEF ImageHasSettings
  <2>2. ImageDevice(d) /\ d \notin excused
    BY <2>1, <1>1, <1>2, <1>3 DEF ImageHasSettings
  <2>3. CASE d # JobDev(t)
    BY <1>1, <1>2, <1>3, <2>2, <2>3, ImageStays DEF SameAim, OthersStay, StorageTypeOK
  <2>4. CASE d = JobDev(t)
    <3>1. \A u \in StorageThreads \ {t} :
             /\ job'[u] = job[u]
             /\ job[u].dev = d => job[u].at \in {"idle", "sessions"} \cup EndingPlaces
      BY <1>0, <1>1, <1>2, <1>3, <2>1, <2>2, <2>4, AloneThere DEF OthersStay
    <3>2. \A u \in StorageThreads \ {t} : JobDev(u)' = d => SetterFits(u, d)'
      BY <3>1 DEF SetterFits, SettingPlaces, EndingPlaces
    <3> QED
      BY <1>1, <1>2, <1>3, <2>1, <2>2, <2>4, <3>1, <3>2 DEF ImageDevice, SetterFits, Foreseen, HasSettings, SameAim, SettingPlaces, EndingPlaces, Keeps, PlacesFit, PlaceFits, StorageTypeOK
  <2> QED
    BY <2>3, <2>4
<1>11. EndedBefore'
  BY <1>1, <1>2, <1>3 DEF EndedBefore, SameAim, OthersStay, Deletions, EndingPlaces, SettingPlaces
<1> QED
  BY <1>4, <1>5, <1>6, <1>7, <1>8, <1>9, <1>10, <1>11

LEMMA DetachStep ==
    ASSUME StorageInv, NEW t \in StorageThreads, Detach(t)
    PROVE  StorageInv'
<1>1. storageLeft' \in [StorageOps -> Nat] /\ imageLock' \in [StorageDevices -> StorageThreads \cup {"free"}]
  BY DEF Detach, StorageFault, StorageInv, HeldInv, StorageTypeOK, StorageOps, locks
<1> QED
  BY <1>1, EndingGoesOn DEF Detach, JobAt, EndingPlaces, disk, settings, locks

LEMMA DropStep ==
    ASSUME StorageInv, NEW t \in StorageThreads, DropSession(t)
    PROVE  StorageInv'
BY EndingGoesOn DEF DropSession, AfterDrop, JobAt, EndingPlaces, disk, settings, locks, StorageInv, HeldInv, StorageTypeOK

LEMMA LockImageStep ==
    ASSUME StorageInv, NEW t \in StorageThreads, LockImage(t)
    PROVE  StorageInv'
<1>1. imageLock' \in [StorageDevices -> StorageThreads \cup {"free"}]
  BY DEF LockImage, StorageInv, HeldInv, StorageTypeOK
<1> QED
  BY <1>1, EndingGoesOn DEF LockImage, JobAt, EndingPlaces, disk, settings, StorageInv, HeldInv, StorageTypeOK

LEMMA ResizeStep ==
    ASSUME StorageInv, NEW t \in StorageThreads, Resize(t)
    PROVE  StorageInv'
BY EndingGoesOn DEF Resize, JobAt, EndingPlaces, disk, settings, locks, StorageInv, HeldInv, StorageTypeOK

LEMMA UnlockImageStep ==
    ASSUME StorageInv, NEW t \in StorageThreads, UnlockImage(t)
    PROVE  StorageInv'
<1>1. imageLock' \in [StorageDevices -> StorageThreads \cup {"free"}]
  BY DEF UnlockImage, StorageInv, HeldInv, StorageTypeOK
<1> QED
  BY <1>1, EndingGoesOn DEF UnlockImage, JobAt, EndingPlaces, disk, settings, StorageInv, HeldInv, StorageTypeOK

LEMMA ReleaseEnds ==
    ASSUME StorageInv, NEW t \in StorageThreads, ReleaseDevice(t), job[t].then = ""
    PROVE  StorageInv'
<1> USE StorageAssumption DEF StorageInv, HeldInv, JobAt, JobIdle, JobDev, IsDocker
<1>1. /\ JobsTyped /\ OthersStay(t) /\ job'[t].at = "idle" /\ job'[t].then = "" /\ job'[t].over = FALSE
      /\ job[t].at = "release"
  BY JobOver DEF ReleaseDevice
<1>2. JobDev(t) \in StorageDevices /\ Holds(t)
  BY <1>1 DEF Concerned, PlacesFit, PlaceFits, Deletions, EndingPlaces, StorageTypeOK, StorageJobs, SettingPlaces, Holds
<1>3. /\ held' = [held EXCEPT ![JobDev(t)] = "free"]
      /\ UNCHANGED <<folder, filled, system, data, media, enabled, files, listed, session, imageLock, excused, storageLeft>>
  BY DEF ReleaseDevice, disk, settings, locks
<1>4. StorageTypeOK'
  BY <1>1, <1>2, <1>3 DEF StorageTypeOK, JobsTyped
<1>5. PlacesFit'
  BY ZenonT(60), <1>1, <1>2, <1>3 DEF PlacesFit, PlaceFits, SameAim, OthersStay, Deletions, EndingPlaces,
     SettingPlaces
<1>6. DevicesHeld'
  BY <1>1, <1>2, <1>3, HeldGivenBack, HolderIs DEF Holds, EndingPlaces, SettingPlaces
<1>7. SessionIsOver'
  BY <1>1, <1>2, <1>3 DEF SessionIsOver, SameAim, OthersStay, Deletions, EndingPlaces,
     SettingPlaces
<1>8. OneAtWork'
  BY <1>1, <1>2, <1>3, WorkStays DEF OthersStay, Concerned
<1>9. MadeAtOnce'
  <2>1. SUFFICES ASSUME NEW d \in StorageDevices \ excused', ~IsDocker(d) PROVE MadeDevice(d)'
    BY DEF MadeAtOnce
  <2>2. MadeDevice(d) /\ d \notin excused
    BY <2>1, <1>1, <1>2, <1>3 DEF MadeAtOnce
  <2>3. CASE d # JobDev(t)
    BY <1>1, <1>2, <1>3, <2>2, <2>3, MadeStays DEF SameAim, OthersStay, StorageTypeOK
  <2>4. CASE d = JobDev(t)
    BY <1>1, <1>2, <1>3, <2>2, <2>4, MadeStays DEF SameAim, OthersStay, EndingPlaces, StorageTypeOK
  <2> QED
    BY <2>3, <2>4
<1>10. ImageHasSettings'
  <2>1. SUFFICES ASSUME NEW d \in StorageDevices \ excused', IsDocker(d) PROVE ImageDevice(d)'
    BY DEF ImageHasSettings
  <2>2. ImageDevice(d) /\ d \notin excused
    BY <2>1, <1>1, <1>2, <1>3 DEF ImageHasSettings
  <2>3. CASE d # JobDev(t)
    BY <1>1, <1>2, <1>3, <2>2, <2>3, ImageStays DEF SameAim, OthersStay, StorageTypeOK
  <2>4. CASE d = JobDev(t)
    BY <1>1, <1>2, <1>3, <2>2, <2>4, ImageStays DEF SameAim, OthersStay, EndingPlaces, StorageTypeOK
  <2> QED
    BY <2>3, <2>4
<1>11. EndedBefore'
  BY <1>1, <1>2, <1>3 DEF EndedBefore, SameAim, OthersStay, Deletions, EndingPlaces, SettingPlaces
<1> QED
  BY <1>4, <1>5, <1>6, <1>7, <1>8, <1>9, <1>10, <1>11

LEMMA ReleaseGoesOn ==
    ASSUME StorageInv, NEW t \in StorageThreads, ReleaseDevice(t), job[t].then # ""
    PROVE  StorageInv'
<1> USE StorageAssumption DEF StorageInv, HeldInv, JobAt, JobIdle, JobDev, IsDocker
<1>1. /\ JobsTyped /\ OthersStay(t) /\ SameAim(t) /\ job[t].at = "release" /\ job'[t].at = "sessions"
      /\ job'[t].exist = job[t].exist /\ job'[t].todo = job[t].todo
      /\ job'[t].list = job[t].list /\ job'[t].param = job[t].param
  BY JobMoves DEF ReleaseDevice, JobPlaces, SettingPlaces, EndingPlaces
<1>2. JobDev(t) \in StorageDevices /\ Concerned(t)' = Concerned(t) /\ Holds(t) /\ job[t].then \in Deletions
  BY <1>1 DEF Concerned, PlacesFit, PlaceFits, Deletions, EndingPlaces, StorageTypeOK, StorageJobs, SettingPlaces, SameAim, Holds
<1>3. /\ held' = [held EXCEPT ![JobDev(t)] = "free"]
      /\ UNCHANGED <<folder, filled, system, data, media, enabled, files, listed, session, imageLock, excused, storageLeft>>
  BY DEF ReleaseDevice, disk, settings, locks
<1>4. StorageTypeOK'
  BY <1>1, <1>2, <1>3 DEF StorageTypeOK, JobsTyped
<1>5. PlacesFit'
  <2>1. SUFFICES ASSUME NEW u \in StorageThreads PROVE PlaceFits(u)'
    BY DEF PlacesFit
  <2>2. CASE u # t
    BY ZenonT(60), <1>1, <1>2, <1>3, <2>2 DEF PlacesFit, PlaceFits, OthersStay
  <2>3. CASE u = t
    BY <1>1, <1>2, <1>3, <2>3 DEF PlacesFit, PlaceFits, SameAim, Deletions, EndingPlaces, SettingPlaces
  <2> QED
    BY <2>2, <2>3
<1>6. DevicesHeld'
  BY <1>1, <1>2, <1>3, HeldGivenBack, HolderIs DEF Holds, EndingPlaces, SameAim, Deletions
<1>7. SessionIsOver'
  BY <1>1, <1>2, <1>3 DEF SessionIsOver, SameAim, OthersStay, Deletions, EndingPlaces,
     SettingPlaces
<1>8. OneAtWork'
  BY <1>1, <1>2, <1>3, WorkStays DEF OthersStay, Concerned, SameAim
<1>9. MadeAtOnce'
  <2>1. SUFFICES ASSUME NEW d \in StorageDevices \ excused', ~IsDocker(d) PROVE MadeDevice(d)'
    BY DEF MadeAtOnce
  <2>2. MadeDevice(d) /\ d \notin excused
    BY <2>1, <1>1, <1>2, <1>3 DEF MadeAtOnce
  <2>3. CASE d # JobDev(t)
    BY <1>1, <1>2, <1>3, <2>2, <2>3, MadeStays DEF SameAim, OthersStay, StorageTypeOK
  <2>4. CASE d = JobDev(t)
    BY <1>1, <1>2, <1>3, <2>2, <2>4, MadeStays DEF SameAim, OthersStay, EndingPlaces, StorageTypeOK
  <2> QED
    BY <2>3, <2>4
<1>10. ImageHasSettings'
  <2>1. SUFFICES ASSUME NEW d \in StorageDevices \ excused', IsDocker(d) PROVE ImageDevice(d)'
    BY DEF ImageHasSettings
  <2>2. ImageDevice(d) /\ d \notin excused
    BY <2>1, <1>1, <1>2, <1>3 DEF ImageHasSettings
  <2>3. CASE d # JobDev(t)
    BY <1>1, <1>2, <1>3, <2>2, <2>3, ImageStays DEF SameAim, OthersStay, StorageTypeOK
  <2>4. CASE d = JobDev(t)
    BY <1>1, <1>2, <1>3, <2>2, <2>4, ImageStays DEF SameAim, OthersStay, EndingPlaces, StorageTypeOK
  <2> QED
    BY <2>3, <2>4
<1>11. EndedBefore'
  BY <1>1, <1>2, <1>3 DEF EndedBefore, SameAim, OthersStay, Deletions, EndingPlaces, SettingPlaces
<1> QED
  BY <1>4, <1>5, <1>6, <1>7, <1>8, <1>9, <1>10, <1>11

LEMMA StartSessionStep ==
    ASSUME StorageInv, NEW t \in StorageThreads, NEW e \in StorageDevices, StartSession(t, e)
    PROVE  StorageInv'
<1> USE StorageAssumption DEF StorageInv, HeldInv, JobAt, JobIdle, JobDev, IsDocker
<1>1. /\ JobsTyped /\ OthersStay(t) /\ job[t].at = "idle"
      /\ job'[t].at = (IF ValidFolders(e) THEN "attach" ELSE "home") /\ job'[t].dev = e
      /\ job'[t].exist = FALSE /\ job'[t].over = TRUE /\ job'[t].todo = {}
      /\ job'[t].list = {} /\ job'[t].param = "" /\ job'[t].then = "attach"
      /\ job'[t].rest = {}
      /\ storageLeft' \in [StorageOps -> Nat]
  <2> DEFINE j == [NoJob EXCEPT !.dev = e, !.over = TRUE, !.then = "attach", !.at = (IF ValidFolders(e) THEN "attach" ELSE "home")]
  <2>1. /\ j \in StorageJobs
        /\ j.at = (IF ValidFolders(e) THEN "attach" ELSE "home") /\ j.dev = e /\ j.exist = FALSE
        /\ j.over = TRUE /\ j.todo = {} /\ j.list = {} /\ j.param = "" /\ j.then = "attach"
        /\ j.rest = {}
    BY NoJobTyped DEF StorageJobs, SettingPlaces, EndingPlaces, Deletions
  <2>2. BeginJob(t, "start", j)
    BY DEF StartSession
  <2> HIDE DEF j
  <2>3. "start" \in StorageOps
    BY DEF StorageOps
  <2>4. /\ JobsTyped /\ OthersStay(t) /\ job'[t] = j /\ job[t].at = "idle"
        /\ storageLeft' \in [StorageOps -> Nat]
    BY <2>1, <2>2, <2>3, JobBegins
  <2> QED
    BY <2>1, <2>4
<1>2. ~Holds(t)
  BY <1>1 DEF Holds, PlacesFit, PlaceFits, EndingPlaces
<1>3. /\ excused' = excused \cup BusyWith({e}) /\ e \notin session
      /\ held[e] = "free" /\ held' = [held EXCEPT ![e] = t]
      /\ UNCHANGED <<folder, filled, system, data, media, enabled, files, listed, session, imageLock>>
  BY DEF StartSession, ExcuseDevices, disk, settings, locks
<1>4. Concerned(t)' = {e} /\ Holds(t)'
  BY <1>1, <1>2, <1>3 DEF Concerned, Deletions, Holds
<1>5. StorageTypeOK'
  BY <1>1, <1>2, <1>3, <1>4 DEF StorageTypeOK, JobsTyped, BusyWith
<1>6. PlacesFit'
  <2>1. SUFFICES ASSUME NEW u \in StorageThreads PROVE PlaceFits(u)'
    BY DEF PlacesFit
  <2>2. CASE u # t
    BY ZenonT(60), <1>1, <1>2, <1>3, <1>4, <2>2 DEF PlacesFit, PlaceFits, OthersStay
  <2>3. CASE u = t
    BY <1>1, <1>2, <1>3, <1>4, <2>3 DEF PlacesFit, PlaceFits, Deletions, EndingPlaces, SettingPlaces, StorageTypeOK, StorageJobs
  <2> QED
    BY <2>2, <2>3
<1>7. DevicesHeld'
  BY <1>1, <1>2, <1>3, <1>4, HeldTaken
<1>8. SessionIsOver'
  BY <1>1, <1>2, <1>3, <1>4 DEF SessionIsOver, SameAim, OthersStay, Deletions, EndingPlaces,
     SettingPlaces
<1>9. OneAtWork'
  BY <1>1, <1>2, <1>3, <1>4, WorkBegins
<1>10. MadeAtOnce'
  <2>1. SUFFICES ASSUME NEW d \in StorageDevices \ excused', ~IsDocker(d) PROVE MadeDevice(d)'
    BY DEF MadeAtOnce
  <2>2. MadeDevice(d) /\ d \notin excused
    BY <2>1, <1>1, <1>2, <1>3, <1>4 DEF MadeAtOnce
  <2>3. CASE d # e
    BY <1>1, <1>2, <1>3, <1>4, <2>2, <2>3, MadeStays DEF SameAim, OthersStay, StorageTypeOK
  <2>4. CASE d = e
    <3>1. \A u \in StorageThreads \ {t} :
             /\ job'[u] = job[u]
             /\ job[u].dev = d => job[u].at \in {"idle", "sessions"} \cup EndingPlaces
      BY <1>1, <1>2, <1>3, <1>4, <2>1, <2>2, <2>4, NobodyThere DEF OthersStay
    <3>2. \A u \in StorageThreads \ {t} : JobDev(u)' = d => MakerFits(u, d)'
      BY <3>1 DEF MakerFits, SettingPlaces, EndingPlaces
    <3>3. d \in folder => Made(d)
      BY <1>1, <1>2, <1>3, <1>4, <2>2, <3>1 DEF MadeDevice, BeingMade, EndingPlaces
    <3>4. (Made(d) => ValidFolders(d)) /\ (ValidFolders(d) => d \in folder)
      BY <2>1, <2>4 DEF Made, ValidFolders, IsMobile
    <3>5. Made(d)' <=> Made(d)
      BY <1>1, <1>2, <1>3, <1>4 DEF Made
    <3>6. MakerFits(t, d)'
      BY <1>1, <1>2, <1>3, <1>4, <2>2, <2>4, <3>3, <3>4, <3>5 DEF MadeDevice, MakerFits, SettingPlaces
    <3> QED
      BY <1>1, <1>2, <1>3, <1>4, <2>2, <3>2, <3>3, <3>5, <3>6 DEF MadeDevice
  <2> QED
    BY <2>3, <2>4
<1>11. ImageHasSettings'
  <2>1. SUFFICES ASSUME NEW d \in StorageDevices \ excused', IsDocker(d) PROVE ImageDevice(d)'
    BY DEF ImageHasSettings
  <2>2. ImageDevice(d) /\ d \notin excused
    BY <2>1, <1>1, <1>2, <1>3, <1>4 DEF ImageHasSettings
  <2>3. CASE d # e
    BY <1>1, <1>2, <1>3, <1>4, <2>2, <2>3, ImageStays DEF SameAim, OthersStay, StorageTypeOK
  <2>4. CASE d = e
    <3>1. \A u \in StorageThreads \ {t} :
             /\ job'[u] = job[u]
             /\ job[u].dev = d => job[u].at \in {"idle", "sessions"} \cup EndingPlaces
      BY <1>1, <1>2, <1>3, <1>4, <2>1, <2>2, <2>4, NobodyThere DEF OthersStay
    <3>2. \A u \in StorageThreads \ {t} : JobDev(u)' = d => SetterFits(u, d)'
      BY <3>1 DEF SetterFits, SettingPlaces, EndingPlaces
    <3> QED
      BY ZenonT(60), <1>1, <1>2, <1>3, <1>4, <2>1, <2>2, <2>4, <3>1, <3>2 DEF ImageDevice, SetterFits, Foreseen, HasSettings, SameAim, SettingPlaces, EndingPlaces, Keeps, PlacesFit, PlaceFits, StorageTypeOK, ValidFolders, IsMobile
  <2> QED
    BY <2>3, <2>4
<1>12. EndedBefore'
  BY <1>1, <1>2, <1>3, <1>4 DEF EndedBefore, SameAim, OthersStay, Deletions, EndingPlaces,
     SettingPlaces
<1> QED
  BY <1>5, <1>6, <1>7, <1>8, <1>9, <1>10, <1>11, <1>12

LEMMA ApproveStep ==
    ASSUME StorageInv, NEW t \in StorageThreads, NEW e \in StorageDevices, ApproveDevice(t, e)
    PROVE  StorageInv'
<1> USE StorageAssumption DEF StorageInv, HeldInv, JobAt, JobIdle, JobDev, IsDocker
<1>1. /\ JobsTyped /\ OthersStay(t) /\ job[t].at = "idle"
      /\ job'[t].at = "home" /\ job'[t].dev = e /\ job'[t].exist = FALSE
      /\ job'[t].over = FALSE /\ job'[t].todo = {} /\ job'[t].list = {} /\ job'[t].param = ""
      /\ job'[t].then = "" /\ job'[t].rest = {}
      /\ storageLeft' \in [StorageOps -> Nat]
  <2> DEFINE j == [NoJob EXCEPT !.dev = e, !.at = "home"]
  <2>1. /\ j \in StorageJobs
        /\ j.at = "home" /\ j.dev = e /\ j.exist = FALSE /\ j.over = FALSE /\ j.todo = {}
        /\ j.list = {} /\ j.param = "" /\ j.then = "" /\ j.rest = {}
    BY NoJobTyped DEF StorageJobs, SettingPlaces, EndingPlaces, Deletions
  <2>2. BeginJob(t, "approve", j)
    BY DEF ApproveDevice
  <2> HIDE DEF j
  <2>3. "approve" \in StorageOps
    BY DEF StorageOps
  <2>4. /\ JobsTyped /\ OthersStay(t) /\ job'[t] = j /\ job[t].at = "idle"
        /\ storageLeft' \in [StorageOps -> Nat]
    BY <2>1, <2>2, <2>3, JobBegins
  <2> QED
    BY <2>1, <2>4
<1>2. ~Holds(t)
  BY <1>1 DEF Holds, PlacesFit, PlaceFits, EndingPlaces
<1>3. /\ excused' = excused \cup BusyWith({e})
      /\ UNCHANGED <<folder, filled, system, data, media, enabled, files, listed, session, held, imageLock>>
  BY DEF ApproveDevice, ExcuseDevices, disk, settings, locks
<1>4. Concerned(t)' = {e} /\ ~Holds(t)'
  BY <1>1, <1>2, <1>3 DEF Concerned, Deletions, Holds, EndingPlaces
<1>5. StorageTypeOK'
  BY <1>1, <1>2, <1>3, <1>4 DEF StorageTypeOK, JobsTyped, BusyWith
<1>6. PlacesFit'
  <2>1. SUFFICES ASSUME NEW u \in StorageThreads PROVE PlaceFits(u)'
    BY DEF PlacesFit
  <2>2. CASE u # t
    BY <1>1, <1>2, <1>3, <1>4, <2>2 DEF PlacesFit, PlaceFits, OthersStay
  <2>3. CASE u = t
    BY <1>1, <1>2, <1>3, <1>4, <2>3 DEF PlacesFit, PlaceFits, Deletions, EndingPlaces, SettingPlaces, StorageTypeOK, StorageJobs
  <2> QED
    BY <2>2, <2>3
<1>7. DevicesHeld'
  BY <1>1, <1>2, <1>3, <1>4, HeldStays DEF OthersStay, Holds
<1>8. SessionIsOver'
  BY <1>1, <1>2, <1>3, <1>4 DEF SessionIsOver, SameAim, OthersStay, Deletions, EndingPlaces,
     SettingPlaces
<1>9. OneAtWork'
  BY <1>1, <1>2, <1>3, <1>4, WorkBegins
<1>10. MadeAtOnce'
  <2>1. SUFFICES ASSUME NEW d \in StorageDevices \ excused', ~IsDocker(d) PROVE MadeDevice(d)'
    BY DEF MadeAtOnce
  <2>2. MadeDevice(d) /\ d \notin excused
    BY <2>1, <1>1, <1>2, <1>3, <1>4 DEF MadeAtOnce
  <2>3. CASE d # e
    BY <1>1, <1>2, <1>3, <1>4, <2>2, <2>3, MadeStays DEF SameAim, OthersStay, StorageTypeOK
  <2>4. CASE d = e
    <3>1. \A u \in StorageThreads \ {t} :
             /\ job'[u] = job[u]
             /\ job[u].dev = d => job[u].at \in {"idle", "sessions"} \cup EndingPlaces
      BY <1>1, <1>2, <1>3, <1>4, <2>1, <2>2, <2>4, NobodyThere DEF OthersStay
    <3>2. \A u \in StorageThreads \ {t} : JobDev(u)' = d => MakerFits(u, d)'
      BY <3>1 DEF MakerFits, SettingPlaces, EndingPlaces
    <3>3. d \in folder => Made(d)
      BY <1>1, <1>2, <1>3, <1>4, <2>2, <3>1 DEF MadeDevice, BeingMade, EndingPlaces
    <3> QED
      BY <1>1, <1>2, <1>3, <1>4, <2>1, <2>2, <2>4, <3>1, <3>2, <3>3 DEF MadeDevice, BeingMade, MakerFits, Made, Keeps, IsMobile, SameAim, SettingPlaces, EndingPlaces, StorageTypeOK, PlacesFit, PlaceFits
  <2> QED
    BY <2>3, <2>4
<1>11. ImageHasSettings'
  <2>1. SUFFICES ASSUME NEW d \in StorageDevices \ excused', IsDocker(d) PROVE ImageDevice(d)'
    BY DEF ImageHasSettings
  <2>2. ImageDevice(d) /\ d \notin excused
    BY <2>1, <1>1, <1>2, <1>3, <1>4 DEF ImageHasSettings
  <2>3. CASE d # e
    BY <1>1, <1>2, <1>3, <1>4, <2>2, <2>3, ImageStays DEF SameAim, OthersStay, StorageTypeOK
  <2>4. CASE d = e
    <3>1. \A u \in StorageThreads \ {t} :
             /\ job'[u] = job[u]
             /\ job[u].dev = d => job[u].at \in {"idle", "sessions"} \cup EndingPlaces
      BY <1>1, <1>2, <1>3, <1>4, <2>1, <2>2, <2>4, NobodyThere DEF OthersStay
    <3>2. \A u \in StorageThreads \ {t} : JobDev(u)' = d => SetterFits(u, d)'
      BY <3>1 DEF SetterFits, SettingPlaces, EndingPlaces
    <3> QED
      BY ZenonT(60), <1>1, <1>2, <1>3, <1>4, <2>1, <2>2, <2>4, <3>1, <3>2 DEF ImageDevice, SetterFits, Foreseen, HasSettings, SameAim, SettingPlaces, EndingPlaces, Keeps, PlacesFit, PlaceFits, StorageTypeOK
  <2> QED
    BY <2>3, <2>4
<1>12. EndedBefore'
  BY <1>1, <1>2, <1>3, <1>4 DEF EndedBefore, SameAim, OthersStay, Deletions, EndingPlaces,
     SettingPlaces
<1> QED
  BY <1>5, <1>6, <1>7, <1>8, <1>9, <1>10, <1>11, <1>12

LEMMA AddSettingsStep ==
    ASSUME StorageInv, NEW t \in StorageThreads, NEW e \in StorageDevices, NEW p \in Params, AddSettings(t, e, p)
    PROVE  StorageInv'
<1> USE StorageAssumption DEF StorageInv, HeldInv, JobAt, JobIdle, JobDev, IsDocker
<1>1. /\ JobsTyped /\ OthersStay(t) /\ job[t].at = "idle"
      /\ job'[t].at = "mount" /\ job'[t].dev = e /\ job'[t].exist = FALSE
      /\ job'[t].over = FALSE /\ job'[t].todo = {p} /\ job'[t].list = {} /\ job'[t].param = ""
      /\ job'[t].then = "" /\ job'[t].rest = {}
      /\ storageLeft' \in [StorageOps -> Nat]
  <2> DEFINE j == [NoJob EXCEPT !.dev = e, !.at = "mount", !.todo = {p}]
  <2>1. /\ j \in StorageJobs
        /\ j.at = "mount" /\ j.dev = e /\ j.exist = FALSE /\ j.over = FALSE /\ j.todo = {p}
        /\ j.list = {} /\ j.param = "" /\ j.then = "" /\ j.rest = {}
    BY NoJobTyped DEF StorageJobs, SettingPlaces, EndingPlaces, Deletions
  <2>2. BeginJob(t, "settings", j)
    BY DEF AddSettings
  <2> HIDE DEF j
  <2>3. "settings" \in StorageOps
    BY DEF StorageOps
  <2>4. /\ JobsTyped /\ OthersStay(t) /\ job'[t] = j /\ job[t].at = "idle"
        /\ storageLeft' \in [StorageOps -> Nat]
    BY <2>1, <2>2, <2>3, JobBegins
  <2> QED
    BY <2>1, <2>4
<1>2. ~Holds(t)
  BY <1>1 DEF Holds, PlacesFit, PlaceFits, EndingPlaces
<1>3. /\ excused' = excused \cup BusyWith({e}) \cup (IF ~IsDocker(e) /\ e \notin folder THEN {e} ELSE {})
      /\ UNCHANGED <<folder, filled, system, data, media, enabled, files, listed, session, held, imageLock>>
  BY DEF AddSettings, ExcuseDevices, disk, settings, locks
<1>4. Concerned(t)' = {e} /\ ~Holds(t)'
  BY <1>1, <1>2, <1>3 DEF Concerned, Deletions, Holds, EndingPlaces
<1>5. StorageTypeOK'
  BY <1>1, <1>2, <1>3, <1>4 DEF StorageTypeOK, JobsTyped, BusyWith
<1>6. PlacesFit'
  <2>1. SUFFICES ASSUME NEW u \in StorageThreads PROVE PlaceFits(u)'
    BY DEF PlacesFit
  <2>2. CASE u # t
    BY <1>1, <1>2, <1>3, <1>4, <2>2 DEF PlacesFit, PlaceFits, OthersStay
  <2>3. CASE u = t
    BY <1>1, <1>2, <1>3, <1>4, <2>3 DEF PlacesFit, PlaceFits, Deletions, EndingPlaces, SettingPlaces, StorageTypeOK, StorageJobs
  <2> QED
    BY <2>2, <2>3
<1>7. DevicesHeld'
  BY <1>1, <1>2, <1>3, <1>4, HeldStays DEF OthersStay, Holds
<1>8. SessionIsOver'
  BY <1>1, <1>2, <1>3, <1>4 DEF SessionIsOver, SameAim, OthersStay, Deletions, EndingPlaces,
     SettingPlaces
<1>9. OneAtWork'
  BY <1>1, <1>2, <1>3, <1>4, WorkBegins
<1>10. MadeAtOnce'
  <2>1. SUFFICES ASSUME NEW d \in StorageDevices \ excused', ~IsDocker(d) PROVE MadeDevice(d)'
    BY DEF MadeAtOnce
  <2>2. MadeDevice(d) /\ d \notin excused
    BY <2>1, <1>1, <1>2, <1>3, <1>4 DEF MadeAtOnce
  <2>3. CASE d # e
    BY <1>1, <1>2, <1>3, <1>4, <2>2, <2>3, MadeStays DEF SameAim, OthersStay, StorageTypeOK
  <2>4. CASE d = e
    <3>1. \A u \in StorageThreads \ {t} :
             /\ job'[u] = job[u]
             /\ job[u].dev = d => job[u].at \in {"idle", "sessions"} \cup EndingPlaces
      BY <1>1, <1>2, <1>3, <1>4, <2>1, <2>2, <2>4, NobodyThere DEF OthersStay
    <3>2. \A u \in StorageThreads \ {t} : JobDev(u)' = d => MakerFits(u, d)'
      BY <3>1 DEF MakerFits, SettingPlaces, EndingPlaces
    <3>3. d \in folder => Made(d)
      BY <1>1, <1>2, <1>3, <1>4, <2>2, <3>1 DEF MadeDevice, BeingMade, EndingPlaces
    <3> QED
      BY <1>1, <1>2, <1>3, <1>4, <2>1, <2>2, <2>4, <3>1, <3>2, <3>3 DEF MadeDevice, BeingMade, MakerFits, Made, Keeps, IsMobile, SameAim, SettingPlaces, EndingPlaces, StorageTypeOK, PlacesFit, PlaceFits
  <2> QED
    BY <2>3, <2>4
<1>11. ImageHasSettings'
  <2>1. SUFFICES ASSUME NEW d \in StorageDevices \ excused', IsDocker(d) PROVE ImageDevice(d)'
    BY DEF ImageHasSettings
  <2>2. ImageDevice(d) /\ d \notin excused
    BY <2>1, <1>1, <1>2, <1>3, <1>4 DEF ImageHasSettings
  <2>3. CASE d # e
    BY <1>1, <1>2, <1>3, <1>4, <2>2, <2>3, ImageStays DEF SameAim, OthersStay, StorageTypeOK
  <2>4. CASE d = e
    <3>1. \A u \in StorageThreads \ {t} :
             /\ job'[u] = job[u]
             /\ job[u].dev = d => job[u].at \in {"idle", "sessions"} \cup EndingPlaces
      BY <1>1, <1>2, <1>3, <1>4, <2>1, <2>2, <2>4, NobodyThere DEF OthersStay
    <3>2. \A u \in StorageThreads \ {t} : JobDev(u)' = d => SetterFits(u, d)'
      BY <3>1 DEF SetterFits, SettingPlaces, EndingPlaces
    <3> QED
      BY ZenonT(60), <1>1, <1>2, <1>3, <1>4, <2>1, <2>2, <2>4, <3>1, <3>2 DEF ImageDevice, SetterFits, Foreseen, HasSettings, SameAim, SettingPlaces, EndingPlaces, Keeps, PlacesFit, PlaceFits, StorageTypeOK
  <2> QED
    BY <2>3, <2>4
<1>12. EndedBefore'
  BY <1>1, <1>2, <1>3, <1>4 DEF EndedBefore, SameAim, OthersStay, Deletions, EndingPlaces,
     SettingPlaces
<1> QED
  BY <1>5, <1>6, <1>7, <1>8, <1>9, <1>10, <1>11, <1>12

LEMMA EndSessionStep ==
    ASSUME StorageInv, NEW t \in StorageThreads, NEW e \in StorageDevices, EndSession(t, e)
    PROVE  StorageInv'
<1> USE StorageAssumption DEF StorageInv, HeldInv, JobAt, JobIdle, JobDev, IsDocker
<1>1. /\ JobsTyped /\ OthersStay(t) /\ job[t].at = "idle"
      /\ job'[t].at = "detach" /\ job'[t].dev = e /\ job'[t].exist = FALSE
      /\ job'[t].over = FALSE /\ job'[t].todo = {} /\ job'[t].list = {} /\ job'[t].param = ""
      /\ job'[t].then = "" /\ job'[t].rest = {}
      /\ storageLeft' \in [StorageOps -> Nat]
  <2> DEFINE j == [NoJob EXCEPT !.dev = e, !.at = "detach"]
  <2>1. /\ j \in StorageJobs
        /\ j.at = "detach" /\ j.dev = e /\ j.exist = FALSE /\ j.over = FALSE /\ j.todo = {}
        /\ j.list = {} /\ j.param = "" /\ j.then = "" /\ j.rest = {}
    BY NoJobTyped DEF StorageJobs, SettingPlaces, EndingPlaces, Deletions
  <2>2. BeginJob(t, "end", j)
    BY DEF EndSession
  <2> HIDE DEF j
  <2>3. "end" \in StorageOps
    BY DEF StorageOps
  <2>4. /\ JobsTyped /\ OthersStay(t) /\ job'[t] = j /\ job[t].at = "idle"
        /\ storageLeft' \in [StorageOps -> Nat]
    BY <2>1, <2>2, <2>3, JobBegins
  <2> QED
    BY <2>1, <2>4
<1>2. ~Holds(t)
  BY <1>1 DEF Holds, PlacesFit, PlaceFits, EndingPlaces
<1>3. /\ excused' = excused \cup BusyWith({e})
      /\ held[e] = "free" /\ held' = [held EXCEPT ![e] = t]
      /\ UNCHANGED <<folder, filled, system, data, media, enabled, files, listed, session, imageLock>>
  BY DEF EndSession, ExcuseDevices, disk, settings, locks
<1>4. Concerned(t)' = {e} /\ Holds(t)'
  BY <1>1, <1>2, <1>3 DEF Concerned, Deletions, Holds, EndingPlaces
<1>5. StorageTypeOK'
  BY <1>1, <1>2, <1>3, <1>4 DEF StorageTypeOK, JobsTyped, BusyWith
<1>6. PlacesFit'
  <2>1. SUFFICES ASSUME NEW u \in StorageThreads PROVE PlaceFits(u)'
    BY DEF PlacesFit
  <2>2. CASE u # t
    BY <1>1, <1>2, <1>3, <1>4, <2>2 DEF PlacesFit, PlaceFits, OthersStay
  <2>3. CASE u = t
    BY <1>1, <1>2, <1>3, <1>4, <2>3 DEF PlacesFit, PlaceFits, Deletions, EndingPlaces, SettingPlaces, StorageTypeOK, StorageJobs
  <2> QED
    BY <2>2, <2>3
<1>7. DevicesHeld'
  BY <1>1, <1>2, <1>3, <1>4, HeldTaken
<1>8. SessionIsOver'
  BY <1>1, <1>2, <1>3, <1>4 DEF SessionIsOver, SameAim, OthersStay, Deletions, EndingPlaces,
     SettingPlaces
<1>9. OneAtWork'
  BY <1>1, <1>2, <1>3, <1>4, WorkBegins
<1>10. MadeAtOnce'
  <2>1. SUFFICES ASSUME NEW d \in StorageDevices \ excused', ~IsDocker(d) PROVE MadeDevice(d)'
    BY DEF MadeAtOnce
  <2>2. MadeDevice(d) /\ d \notin excused
    BY <2>1, <1>1, <1>2, <1>3, <1>4 DEF MadeAtOnce
  <2>3. CASE d # e
    BY <1>1, <1>2, <1>3, <1>4, <2>2, <2>3, MadeStays DEF SameAim, OthersStay, StorageTypeOK
  <2>4. CASE d = e
    <3>1. \A u \in StorageThreads \ {t} :
             /\ job'[u] = job[u]
             /\ job[u].dev = d => job[u].at \in {"idle", "sessions"} \cup EndingPlaces
      BY <1>1, <1>2, <1>3, <1>4, <2>1, <2>2, <2>4, NobodyThere DEF OthersStay
    <3>2. \A u \in StorageThreads \ {t} : JobDev(u)' = d => MakerFits(u, d)'
      BY <3>1 DEF MakerFits, SettingPlaces, EndingPlaces
    <3>3. d \in folder => Made(d)
      BY <1>1, <1>2, <1>3, <1>4, <2>2, <3>1 DEF MadeDevice, BeingMade, EndingPlaces
    <3> QED
      BY <1>1, <1>2, <1>3, <1>4, <2>1, <2>2, <2>4, <3>1, <3>2, <3>3 DEF MadeDevice, BeingMade, MakerFits, Made, Keeps, IsMobile, SameAim, SettingPlaces, EndingPlaces, StorageTypeOK, PlacesFit, PlaceFits
  <2> QED
    BY <2>3, <2>4
<1>11. ImageHasSettings'
  <2>1. SUFFICES ASSUME NEW d \in StorageDevices \ excused', IsDocker(d) PROVE ImageDevice(d)'
    BY DEF ImageHasSettings
  <2>2. ImageDevice(d) /\ d \notin excused
    BY <2>1, <1>1, <1>2, <1>3, <1>4 DEF ImageHasSettings
  <2>3. CASE d # e
    BY <1>1, <1>2, <1>3, <1>4, <2>2, <2>3, ImageStays DEF SameAim, OthersStay, StorageTypeOK
  <2>4. CASE d = e
    <3>1. \A u \in StorageThreads \ {t} :
             /\ job'[u] = job[u]
             /\ job[u].dev = d => job[u].at \in {"idle", "sessions"} \cup EndingPlaces
      BY <1>1, <1>2, <1>3, <1>4, <2>1, <2>2, <2>4, NobodyThere DEF OthersStay
    <3>2. \A u \in StorageThreads \ {t} : JobDev(u)' = d => SetterFits(u, d)'
      BY <3>1 DEF SetterFits, SettingPlaces, EndingPlaces
    <3> QED
      BY ZenonT(60), <1>1, <1>2, <1>3, <1>4, <2>1, <2>2, <2>4, <3>1, <3>2 DEF ImageDevice, SetterFits, Foreseen, HasSettings, SameAim, SettingPlaces, EndingPlaces, Keeps, PlacesFit, PlaceFits, StorageTypeOK
  <2> QED
    BY <2>3, <2>4
<1>12. EndedBefore'
  BY <1>1, <1>2, <1>3, <1>4 DEF EndedBefore, SameAim, OthersStay, Deletions, EndingPlaces,
     SettingPlaces
<1> QED
  BY <1>5, <1>6, <1>7, <1>8, <1>9, <1>10, <1>11, <1>12

LEMMA EndAndDeleteStep ==
    ASSUME StorageInv, NEW t \in StorageThreads, NEW ds \in SUBSET StorageDevices, NEW op \in Deletions,
           op # "device" => ds = StorageDevices, EndAndDelete(t, ds, op)
    PROVE  StorageInv'
<1> USE StorageAssumption DEF StorageInv, HeldInv, JobAt, JobIdle, JobDev, IsDocker
<1>0. SessionsToEnd(ds) = session \cap ds /\ SessionsToEnd(ds) \in SUBSET StorageDevices
  BY DEF SessionsToEnd, StorageTypeOK
<1>1. /\ JobsTyped /\ OthersStay(t) /\ job[t].at = "idle"
      /\ job'[t].at = "sessions" /\ job'[t].exist = FALSE /\ job'[t].over = FALSE
      /\ job'[t].todo = ds /\ job'[t].list = {} /\ job'[t].param = "" /\ job'[t].then = op
      /\ job'[t].rest = SessionsToEnd(ds)
      /\ storageLeft' \in [StorageOps -> Nat]
  <2> DEFINE j == [NoJob EXCEPT !.at = "sessions", !.then = op, !.todo = ds, !.rest = SessionsToEnd(ds)]
  <2>1. /\ j \in StorageJobs
        /\ j.at = "sessions" /\ j.exist = FALSE /\ j.over = FALSE /\ j.todo = ds /\ j.list = {}
        /\ j.param = "" /\ j.then = op /\ j.rest = SessionsToEnd(ds)
    BY NoJobTyped, <1>0 DEF StorageJobs, SettingPlaces, EndingPlaces, Deletions
  <2>2. BeginJob(t, "delete", j)
    BY DEF EndAndDelete
  <2> HIDE DEF j
  <2>3. "delete" \in StorageOps
    BY DEF StorageOps
  <2>4. /\ JobsTyped /\ OthersStay(t) /\ job'[t] = j /\ job[t].at = "idle"
        /\ storageLeft' \in [StorageOps -> Nat]
    BY <2>1, <2>2, <2>3, JobBegins
  <2> QED
    BY <2>1, <2>4
<1>2. ~Holds(t)
  BY <1>1 DEF Holds, PlacesFit, PlaceFits, EndingPlaces
<1>3. /\ excused' = excused \cup BusyWith(ds)
      /\ UNCHANGED <<folder, filled, system, data, media, enabled, files, listed, session, held, imageLock>>
  BY DEF EndAndDelete, ExcuseDevices, disk, settings, locks
<1>4. Concerned(t)' = ds /\ ~Holds(t)'
  BY <1>0, <1>1, <1>2, <1>3 DEF Concerned, Deletions, Holds, EndingPlaces
<1>5. StorageTypeOK'
  BY <1>0, <1>1, <1>2, <1>3, <1>4 DEF StorageTypeOK, JobsTyped, BusyWith
<1>6. PlacesFit'
  <2>1. SUFFICES ASSUME NEW u \in StorageThreads PROVE PlaceFits(u)'
    BY DEF PlacesFit
  <2>2. CASE u # t
    BY <1>0, <1>1, <1>2, <1>3, <1>4, <2>2 DEF PlacesFit, PlaceFits, OthersStay
  <2>3. CASE u = t
    BY ZenonT(60), <1>0, <1>1, <1>2, <1>3, <1>4, <2>3 DEF PlacesFit, PlaceFits, Deletions, EndingPlaces, SettingPlaces, StorageTypeOK, StorageJobs
  <2> QED
    BY <2>2, <2>3
<1>7. DevicesHeld'
  BY <1>0, <1>1, <1>2, <1>3, <1>4, HeldStays DEF OthersStay, Holds
<1>8. SessionIsOver'
  BY <1>0, <1>1, <1>2, <1>3, <1>4 DEF SessionIsOver, SameAim, OthersStay, Deletions, EndingPlaces,
     SettingPlaces
<1>9. OneAtWork'
  BY <1>0, <1>1, <1>2, <1>3, <1>4, WorkBegins
<1>10. MadeAtOnce'
  <2>1. SUFFICES ASSUME NEW d \in StorageDevices \ excused', ~IsDocker(d) PROVE MadeDevice(d)'
    BY DEF MadeAtOnce
  <2>2. MadeDevice(d) /\ d \notin excused
    BY <2>1, <1>1, <1>2, <1>3, <1>4 DEF MadeAtOnce
  <2>3. CASE d # JobDev(t)
    BY <1>0, <1>1, <1>2, <1>3, <1>4, <2>2, <2>3, MadeStays DEF OthersStay, EndingPlaces, StorageTypeOK
  <2>4. CASE d = JobDev(t)
    BY <1>0, <1>1, <1>2, <1>3, <1>4, <2>2, <2>4, MadeStays DEF OthersStay, EndingPlaces, StorageTypeOK
  <2> QED
    BY <2>3, <2>4
<1>11. ImageHasSettings'
  <2>1. SUFFICES ASSUME NEW d \in StorageDevices \ excused', IsDocker(d) PROVE ImageDevice(d)'
    BY DEF ImageHasSettings
  <2>2. ImageDevice(d) /\ d \notin excused
    BY <2>1, <1>1, <1>2, <1>3, <1>4 DEF ImageHasSettings
  <2>3. CASE d # JobDev(t)
    BY <1>0, <1>1, <1>2, <1>3, <1>4, <2>2, <2>3, ImageStays DEF OthersStay, EndingPlaces, StorageTypeOK
  <2>4. CASE d = JobDev(t)
    BY <1>0, <1>1, <1>2, <1>3, <1>4, <2>2, <2>4, ImageStays DEF OthersStay, EndingPlaces, StorageTypeOK
  <2> QED
    BY <2>3, <2>4
<1>12. EndedBefore'
  <2>1. SUFFICES ASSUME NEW u \in StorageThreads, job'[u].then \in Deletions
                 PROVE  (session' \cap job'[u].todo) \ excused'
                           \subseteq job'[u].rest \cup (IF job'[u].at \in {"detach", "drop"} THEN {JobDev(u)'} ELSE {})
    BY DEF EndedBefore
  <2>2. CASE u # t
    BY <1>0, <1>1, <1>2, <1>3, <1>4, <2>1, <2>2 DEF EndedBefore, OthersStay
  <2>3. CASE u = t
    BY <1>0, <1>1, <1>2, <1>3, <1>4, <2>1, <2>3 DEF EndedBefore, Deletions
  <2> QED
    BY <2>2, <2>3
<1> QED
  BY <1>5, <1>6, <1>7, <1>8, <1>9, <1>10, <1>11, <1>12

\* What EndNext makes of its job: it ends the session of e, or leaves it out.
GoesToEnd(t, e) == job' = [job EXCEPT ![t].at = "detach", ![t].dev = e, ![t].rest = @ \ {e}]
LeavesOut(t, e) == job' = [job EXCEPT ![t].rest = @ \ {e}]

LEMMA EndNextTakes ==
    ASSUME StorageInv, NEW t \in StorageThreads, NEW e \in job[t].rest, JobAt(t, "sessions"), held[e] = "free",
           GoesToEnd(t, e), held' = [held EXCEPT ![e] = t],
           UNCHANGED <<disk, settings, enabled, session, imageLock, excused, storageLeft>>
    PROVE  StorageInv'
<1> USE StorageAssumption DEF StorageInv, HeldInv, JobAt, JobIdle, JobDev, IsDocker
<1>1. /\ JobsTyped /\ OthersStay(t) /\ job[t].at = "sessions" /\ job'[t].at = "detach" /\ job'[t].dev = e
      /\ job'[t].rest = job[t].rest \ {e} /\ job'[t].then = job[t].then
      /\ job'[t].todo = job[t].todo /\ job'[t].over = job[t].over /\ e \in StorageDevices
      /\ job[t].then \in Deletions
  <2> DEFINE j == [job[t] EXCEPT !.at = "detach", !.dev = e, !.rest = @ \ {e}]
  <2>1. job[t] \in StorageJobs /\ job[t].then \in Deletions
    BY DEF StorageTypeOK, PlacesFit, PlaceFits
  <2>2. /\ j \in StorageJobs /\ j.at = "detach" /\ j.dev = e /\ j.rest = job[t].rest \ {e}
        /\ j.then = job[t].then /\ j.todo = job[t].todo /\ j.over = job[t].over /\ e \in StorageDevices
    BY <2>1 DEF StorageJobs, SettingPlaces, EndingPlaces
  <2>3. job' = [job EXCEPT ![t] = j]
    BY DEF StorageTypeOK, GoesToEnd
  <2> HIDE DEF j
  <2> QED
    BY <2>1, <2>2, <2>3, JobSet
<1>2. Concerned(t)' = Concerned(t) /\ ~Holds(t) /\ Holds(t)'
  BY <1>1 DEF Concerned, Holds, EndingPlaces, Deletions
<1>3. UNCHANGED <<folder, filled, system, data, media, enabled, files, listed, session, imageLock, excused, storageLeft>>
  BY DEF disk, settings
<1>4. StorageTypeOK'
  BY <1>1, <1>2, <1>3 DEF StorageTypeOK, JobsTyped
<1>5. PlacesFit'
  <2>1. SUFFICES ASSUME NEW u \in StorageThreads PROVE PlaceFits(u)'
    BY DEF PlacesFit
  <2>2. CASE u # t
    BY <1>1, <1>2, <1>3, <2>2 DEF PlacesFit, PlaceFits, OthersStay
  <2>3. CASE u = t
    BY <1>1, <1>2, <1>3, <2>3 DEF PlacesFit, PlaceFits, Deletions, EndingPlaces, SettingPlaces, StorageTypeOK, StorageJobs
  <2> QED
    BY <2>2, <2>3
<1>6. DevicesHeld'
  BY <1>1, <1>2, <1>3, HeldTaken
<1>7. SessionIsOver'
  BY <1>1, <1>2, <1>3 DEF SessionIsOver, SameAim, OthersStay, Deletions, EndingPlaces,
     SettingPlaces
<1>8. OneAtWork'
  BY <1>1, <1>2, <1>3, WorkStays DEF OthersStay, Concerned
<1>9. MadeAtOnce'
  <2>1. SUFFICES ASSUME NEW d \in StorageDevices \ excused', ~IsDocker(d) PROVE MadeDevice(d)'
    BY DEF MadeAtOnce
  <2>2. MadeDevice(d) /\ d \notin excused
    BY <2>1, <1>1, <1>2, <1>3 DEF MadeAtOnce
  <2>3. CASE d # e
    BY <1>1, <1>2, <1>3, <2>2, <2>3, MadeStays DEF OthersStay, EndingPlaces, StorageTypeOK
  <2>4. CASE d = e
    BY <1>1, <1>2, <1>3, <2>2, <2>4, MadeStays DEF OthersStay, EndingPlaces, StorageTypeOK
  <2> QED
    BY <2>3, <2>4
<1>10. ImageHasSettings'
  <2>1. SUFFICES ASSUME NEW d \in StorageDevices \ excused', IsDocker(d) PROVE ImageDevice(d)'
    BY DEF ImageHasSettings
  <2>2. ImageDevice(d) /\ d \notin excused
    BY <2>1, <1>1, <1>2, <1>3 DEF ImageHasSettings
  <2>3. CASE d # e
    BY <1>1, <1>2, <1>3, <2>2, <2>3, ImageStays DEF OthersStay, EndingPlaces, StorageTypeOK
  <2>4. CASE d = e
    BY <1>1, <1>2, <1>3, <2>2, <2>4, ImageStays DEF OthersStay, EndingPlaces, StorageTypeOK
  <2> QED
    BY <2>3, <2>4
<1>11. EndedBefore'
  <2>1. SUFFICES ASSUME NEW u \in StorageThreads, job'[u].then \in Deletions
                 PROVE  (session' \cap job'[u].todo) \ excused'
                           \subseteq job'[u].rest \cup (IF job'[u].at \in {"detach", "drop"} THEN {JobDev(u)'} ELSE {})
    BY DEF EndedBefore
  <2>2. CASE u # t
    BY <1>1, <1>2, <1>3, <2>1, <2>2 DEF EndedBefore, OthersStay
  <2>3. CASE u = t
    BY <1>1, <1>2, <1>3, <2>1, <2>3 DEF EndedBefore, Deletions
  <2> QED
    BY <2>2, <2>3
<1> QED
  BY <1>4, <1>5, <1>6, <1>7, <1>8, <1>9, <1>10, <1>11

LEMMA EndNextSkips ==
    ASSUME StorageInv, NEW t \in StorageThreads, NEW e \in job[t].rest, JobAt(t, "sessions"), ~(e \in session /\ held[e] = "free"),
           LeavesOut(t, e),
           UNCHANGED <<disk, settings, enabled, session, held, imageLock, excused, storageLeft>>
    PROVE  StorageInv'
<1> USE StorageAssumption DEF StorageInv, HeldInv, JobAt, JobIdle, JobDev, IsDocker
<1>1. /\ JobsTyped /\ OthersStay(t) /\ job[t].at = "sessions" /\ job'[t].at = "sessions"
      /\ job'[t].dev = job[t].dev /\ job'[t].rest = job[t].rest \ {e} /\ job'[t].then = job[t].then
      /\ job'[t].todo = job[t].todo /\ job'[t].over = job[t].over /\ e \in StorageDevices
      /\ job[t].then \in Deletions
  <2> DEFINE j == [job[t] EXCEPT !.rest = @ \ {e}]
  <2>1. job[t] \in StorageJobs /\ job[t].then \in Deletions
    BY DEF StorageTypeOK, PlacesFit, PlaceFits
  <2>2. /\ j \in StorageJobs /\ j.at = job[t].at /\ j.dev = job[t].dev /\ j.rest = job[t].rest \ {e}
        /\ j.then = job[t].then /\ j.todo = job[t].todo /\ j.over = job[t].over /\ e \in StorageDevices
    BY <2>1 DEF StorageJobs, SettingPlaces, EndingPlaces
  <2>3. job' = [job EXCEPT ![t] = j]
    BY DEF StorageTypeOK, LeavesOut
  <2> HIDE DEF j
  <2> QED
    BY <2>1, <2>2, <2>3, JobSet
<1>2. Concerned(t)' = Concerned(t) /\ (Holds(t)' <=> Holds(t)) /\ ~Holds(t)
  BY <1>1 DEF Concerned, Holds, EndingPlaces, Deletions
<1>3. UNCHANGED <<folder, filled, system, data, media, enabled, files, listed, session, held, imageLock, excused, storageLeft>>
  BY DEF disk, settings
<1>4. StorageTypeOK'
  BY <1>1, <1>2, <1>3 DEF StorageTypeOK, JobsTyped
<1>5. PlacesFit'
  <2>1. SUFFICES ASSUME NEW u \in StorageThreads PROVE PlaceFits(u)'
    BY DEF PlacesFit
  <2>2. CASE u # t
    BY <1>1, <1>2, <1>3, <2>2 DEF PlacesFit, PlaceFits, OthersStay
  <2>3. CASE u = t
    BY <1>1, <1>2, <1>3, <2>3 DEF PlacesFit, PlaceFits, Deletions, EndingPlaces, SettingPlaces, StorageTypeOK, StorageJobs
  <2> QED
    BY <2>2, <2>3
<1>6. DevicesHeld'
  BY <1>1, <1>2, <1>3, HeldStays DEF OthersStay, Holds
<1>7. SessionIsOver'
  BY <1>1, <1>2, <1>3 DEF SessionIsOver, SameAim, OthersStay, Deletions, EndingPlaces,
     SettingPlaces
<1>8. OneAtWork'
  BY <1>1, <1>2, <1>3, WorkStays DEF OthersStay, Concerned
<1>9. MadeAtOnce'
  <2>1. SUFFICES ASSUME NEW d \in StorageDevices \ excused', ~IsDocker(d) PROVE MadeDevice(d)'
    BY DEF MadeAtOnce
  <2>2. MadeDevice(d) /\ d \notin excused
    BY <2>1, <1>1, <1>2, <1>3 DEF MadeAtOnce
  <2>3. CASE d # e
    BY <1>1, <1>2, <1>3, <2>2, <2>3, MadeStays DEF OthersStay, EndingPlaces, StorageTypeOK
  <2>4. CASE d = e
    BY <1>1, <1>2, <1>3, <2>2, <2>4, MadeStays DEF OthersStay, EndingPlaces, StorageTypeOK
  <2> QED
    BY <2>3, <2>4
<1>10. ImageHasSettings'
  <2>1. SUFFICES ASSUME NEW d \in StorageDevices \ excused', IsDocker(d) PROVE ImageDevice(d)'
    BY DEF ImageHasSettings
  <2>2. ImageDevice(d) /\ d \notin excused
    BY <2>1, <1>1, <1>2, <1>3 DEF ImageHasSettings
  <2>3. CASE d # e
    BY <1>1, <1>2, <1>3, <2>2, <2>3, ImageStays DEF OthersStay, EndingPlaces, StorageTypeOK
  <2>4. CASE d = e
    BY <1>1, <1>2, <1>3, <2>2, <2>4, ImageStays DEF OthersStay, EndingPlaces, StorageTypeOK
  <2> QED
    BY <2>3, <2>4
<1>11. EndedBefore'
  <2>1. SUFFICES ASSUME NEW u \in StorageThreads, job'[u].then \in Deletions
                 PROVE  (session' \cap job'[u].todo) \ excused'
                           \subseteq job'[u].rest \cup (IF job'[u].at \in {"detach", "drop"} THEN {JobDev(u)'} ELSE {})
    BY DEF EndedBefore
  <2>2. CASE u # t
    BY <1>1, <1>2, <1>3, <2>1, <2>2 DEF EndedBefore, OthersStay
  <2>3. CASE u = t
    <3>1. e \in session => e \in excused
      <4>1. SUFFICES ASSUME e \in session PROVE e \in excused
        OBVIOUS
      <4>2. PICK v \in StorageThreads : held[e] = v /\ Holds(v) /\ JobDev(v) = e
        BY <4>1, <1>1, <1>2, <1>3 DEF DevicesHeld, StorageTypeOK
      <4>3. v # t /\ job[v].at # "idle" /\ e \in Concerned(v)
        BY <4>2, <1>1, <1>2, <1>3 DEF Holds, PlacesFit, PlaceFits, EndingPlaces, Deletions, Concerned
      <4>4. e \in Concerned(t)
        BY <1>1, <1>2, <1>3 DEF Concerned, Deletions, PlacesFit, PlaceFits
      <4> QED
        BY <4>3, <4>4, <1>1, <1>2, <1>3 DEF OneAtWork
    <3> QED
      BY <1>1, <1>2, <1>3, <2>1, <2>3, <3>1 DEF EndedBefore
  <2> QED
    BY <2>2, <2>3
<1> QED
  BY <1>4, <1>5, <1>6, <1>7, <1>8, <1>9, <1>10, <1>11

LEMMA EndNextEnds ==
    ASSUME StorageInv, NEW t \in StorageThreads, JobAt(t, "sessions"), JobEnds(t),
           UNCHANGED <<disk, settings, enabled, session, held, imageLock, excused, storageLeft>>
    PROVE  StorageInv'
<1> USE StorageAssumption DEF StorageInv, HeldInv, JobAt, JobIdle, JobDev, IsDocker
<1>1. /\ JobsTyped /\ OthersStay(t) /\ job'[t].at = "idle" /\ job'[t].then = "" /\ job'[t].over = FALSE
      /\ job[t].at = "sessions" /\ job[t].then \in Deletions
  BY JobOver DEF PlacesFit, PlaceFits
<1>2. ~Holds(t) /\ ~Holds(t)'
  BY <1>1 DEF Holds, EndingPlaces, Deletions
<1>3. UNCHANGED <<folder, filled, system, data, media, enabled, files, listed, session, held, imageLock, excused, storageLeft>>
  BY DEF disk, settings
<1>4. StorageTypeOK'
  BY <1>1, <1>2, <1>3 DEF StorageTypeOK, JobsTyped
<1>5. PlacesFit'
  BY ZenonT(60), <1>1, <1>2, <1>3 DEF PlacesFit, PlaceFits, SameAim, OthersStay, Deletions, EndingPlaces,
     SettingPlaces
<1>6. DevicesHeld'
  BY <1>1, <1>2, <1>3, HeldStays DEF OthersStay, Holds
<1>7. SessionIsOver'
  BY <1>1, <1>2, <1>3 DEF SessionIsOver, SameAim, OthersStay, Deletions, EndingPlaces,
     SettingPlaces
<1>8. OneAtWork'
  BY <1>1, <1>2, <1>3, WorkStays DEF OthersStay, Concerned
<1>9. MadeAtOnce'
  <2>1. SUFFICES ASSUME NEW d \in StorageDevices \ excused', ~IsDocker(d) PROVE MadeDevice(d)'
    BY DEF MadeAtOnce
  <2>2. MadeDevice(d) /\ d \notin excused
    BY <2>1, <1>1, <1>2, <1>3 DEF MadeAtOnce
  <2>3. CASE d # JobDev(t)
    BY <1>1, <1>2, <1>3, <2>2, <2>3, MadeStays DEF OthersStay, EndingPlaces, StorageTypeOK
  <2>4. CASE d = JobDev(t)
    BY <1>1, <1>2, <1>3, <2>2, <2>4, MadeStays DEF OthersStay, EndingPlaces, StorageTypeOK
  <2> QED
    BY <2>3, <2>4
<1>10. ImageHasSettings'
  <2>1. SUFFICES ASSUME NEW d \in StorageDevices \ excused', IsDocker(d) PROVE ImageDevice(d)'
    BY DEF ImageHasSettings
  <2>2. ImageDevice(d) /\ d \notin excused
    BY <2>1, <1>1, <1>2, <1>3 DEF ImageHasSettings
  <2>3. CASE d # JobDev(t)
    BY <1>1, <1>2, <1>3, <2>2, <2>3, ImageStays DEF OthersStay, EndingPlaces, StorageTypeOK
  <2>4. CASE d = JobDev(t)
    BY <1>1, <1>2, <1>3, <2>2, <2>4, ImageStays DEF OthersStay, EndingPlaces, StorageTypeOK
  <2> QED
    BY <2>3, <2>4
<1>11. EndedBefore'
  BY <1>1, <1>2, <1>3 DEF EndedBefore, SameAim, OthersStay, Deletions, EndingPlaces, SettingPlaces
<1> QED
  BY <1>4, <1>5, <1>6, <1>7, <1>8, <1>9, <1>10, <1>11

LEMMA EndNextStep ==
    ASSUME StorageInv, NEW t \in StorageThreads, EndNext(t)
    PROVE  StorageInv'
<1>1. PICK e \in job[t].rest :
         IF e \in session /\ held[e] = "free"
         THEN /\ job' = [job EXCEPT ![t].at = "detach", ![t].dev = e, ![t].rest = @ \ {e}]
              /\ held' = [held EXCEPT ![e] = t]
         ELSE /\ IF job[t].then = "wipe" THEN JobEnds(t) ELSE job' = [job EXCEPT ![t].rest = @ \ {e}]
              /\ UNCHANGED held
  BY DEF EndNext
<1>2. /\ JobAt(t, "sessions")
      /\ UNCHANGED <<disk, settings, enabled, session, imageLock, excused, storageLeft>>
  BY DEF EndNext
<1>3. CASE e \in session /\ held[e] = "free"
  BY <1>1, <1>2, <1>3, EndNextTakes DEF GoesToEnd
<1>4. CASE ~(e \in session /\ held[e] = "free") /\ job[t].then = "wipe"
  BY <1>1, <1>2, <1>4, EndNextEnds
<1>5. CASE ~(e \in session /\ held[e] = "free") /\ job[t].then # "wipe"
  BY <1>1, <1>2, <1>5, EndNextSkips DEF LeavesOut
<1> QED
  BY <1>3, <1>4, <1>5

LEMMA RemoveFoldersStep ==
    ASSUME StorageInv, NEW t \in StorageThreads, RemoveFolders(t)
    PROVE  StorageInv'
<1> USE StorageAssumption DEF StorageInv, HeldInv, JobAt, JobIdle, JobDev, IsDocker
<1>1. /\ JobsTyped /\ OthersStay(t) /\ job'[t].at = "idle" /\ job'[t].then = "" /\ job'[t].over = FALSE
      /\ job[t].at = "sessions" /\ job[t].rest = {}
  BY JobOver DEF RemoveFolders
<1>2. /\ job[t].then \in Deletions /\ job[t].todo \subseteq StorageDevices
      /\ Concerned(t) = job[t].todo /\ ~Holds(t) /\ ~Holds(t)'
      /\ (job[t].then # "device" => job[t].todo = StorageDevices)
  BY <1>1 DEF PlacesFit, PlaceFits, Concerned, Deletions, Holds, EndingPlaces
<1>3. /\ folder' = folder \ job[t].todo /\ filled' = filled \ job[t].todo
      /\ system' = system \ job[t].todo /\ media' = (media /\ job[t].then = "device")
      /\ data' = [d \in StorageDevices |-> IF d \in job[t].todo THEN "none" ELSE data[d]]
      /\ files' = [d \in StorageDevices |-> IF d \in job[t].todo THEN {} ELSE files[d]]
      /\ listed' = [d \in StorageDevices |-> IF d \in job[t].todo THEN {} ELSE listed[d]]
      /\ UNCHANGED <<enabled, session, held, imageLock, excused, storageLeft>>
  BY DEF RemoveFolders, locks
<1>4. StorageTypeOK'
  BY <1>1, <1>2, <1>3 DEF StorageTypeOK, JobsTyped
<1>5. PlacesFit'
  BY ZenonT(60), <1>1, <1>2, <1>3 DEF PlacesFit, PlaceFits, SameAim, OthersStay, Deletions, EndingPlaces,
     SettingPlaces
<1>6. DevicesHeld'
  BY <1>1, <1>2, <1>3, HeldStays DEF OthersStay, Holds
<1>7. SessionIsOver'
  BY <1>1, <1>2, <1>3 DEF SessionIsOver, SameAim, OthersStay, Deletions, EndingPlaces,
     SettingPlaces
<1>8. OneAtWork'
  BY <1>1, <1>2, <1>3, WorkStays DEF OthersStay, Concerned
<1>9. MadeAtOnce'
  <2>1. SUFFICES ASSUME NEW d \in StorageDevices \ excused', ~IsDocker(d) PROVE MadeDevice(d)'
    BY DEF MadeAtOnce
  <2>2. MadeDevice(d) /\ d \notin excused
    BY <2>1, <1>1, <1>2, <1>3 DEF MadeAtOnce
  <2>3. CASE d \notin job[t].todo
    BY <1>1, <1>2, <1>3, <2>2, <2>3, MadeStays DEF OthersStay, EndingPlaces, StorageTypeOK, PlacesFit, PlaceFits, Deletions
  <2>4. CASE d \in job[t].todo
    <3>1. \A u \in StorageThreads \ {t} :
             /\ job'[u] = job[u]
             /\ job[u].dev = d => job[u].at \in {"idle", "sessions"} \cup EndingPlaces
      BY <1>1, <1>2, <1>3, <2>1, <2>2, <2>4, AloneThere DEF OthersStay
    <3>2. \A u \in StorageThreads : JobDev(u)' = d => MakerFits(u, d)'
      BY <1>1, <1>2, <1>3, <3>1 DEF MakerFits, SettingPlaces, EndingPlaces
    <3>3. d \notin session
      BY <1>1, <1>2, <1>3, <2>2, <2>4 DEF EndedBefore
    <3> QED
      BY <1>1, <1>2, <1>3, <2>1, <2>4, <3>2, <3>3 DEF MadeDevice
  <2> QED
    BY <2>3, <2>4
<1>10. ImageHasSettings'
  <2>1. SUFFICES ASSUME NEW d \in StorageDevices \ excused', IsDocker(d) PROVE ImageDevice(d)'
    BY DEF ImageHasSettings
  <2>2. ImageDevice(d) /\ d \notin excused
    BY <2>1, <1>1, <1>2, <1>3 DEF ImageHasSettings
  <2>3. CASE d \notin job[t].todo
    BY <1>1, <1>2, <1>3, <2>2, <2>3, ImageStays DEF OthersStay, EndingPlaces, StorageTypeOK, PlacesFit, PlaceFits, Deletions
  <2>4. CASE d \in job[t].todo
    <3>1. \A u \in StorageThreads \ {t} :
             /\ job'[u] = job[u]
             /\ job[u].dev = d => job[u].at \in {"idle", "sessions"} \cup EndingPlaces
      BY <1>1, <1>2, <1>3, <2>1, <2>2, <2>4, AloneThere DEF OthersStay
    <3>2. \A u \in StorageThreads : JobDev(u)' = d => SetterFits(u, d)'
      BY <1>1, <1>2, <1>3, <3>1 DEF SetterFits, SettingPlaces, EndingPlaces
    <3>3. d \notin session
      BY <1>1, <1>2, <1>3, <2>2, <2>4 DEF EndedBefore
    <3> QED
      BY <1>1, <1>2, <1>3, <2>1, <2>4, <3>2, <3>3 DEF ImageDevice
  <2> QED
    BY <2>3, <2>4
<1>11. EndedBefore'
  BY <1>1, <1>2, <1>3 DEF EndedBefore, SameAim, OthersStay, Deletions, EndingPlaces, SettingPlaces
<1> QED
  BY <1>4, <1>5, <1>6, <1>7, <1>8, <1>9, <1>10, <1>11

LEMMA ExpireStep ==
    ASSUME StorageInv, NEW d \in StorageDevices, ExpireImageLock(d)
    PROVE  StorageInv'
<1>1. /\ imageLock' = [imageLock EXCEPT ![d] = "free"]
      /\ UNCHANGED <<folder, filled, system, data, media, files, listed, enabled, session, held, job, excused>>
  BY DEF ExpireImageLock, disk, settings
<1>2. storageLeft' \in [StorageOps -> Nat]
  BY DEF ExpireImageLock, StorageInv, HeldInv, StorageTypeOK, StorageOps
<1>3. StorageTypeOK'
  BY <1>1, <1>2 DEF StorageInv, HeldInv, StorageTypeOK
<1>4. PlacesFit' /\ DevicesHeld' /\ SessionIsOver'
  BY <1>1 DEF StorageInv, HeldInv, PlacesFit, PlaceFits, DevicesHeld, Holds, SessionIsOver, JobAt, JobDev
<1>5. OneAtWork' /\ EndedBefore'
  BY <1>1 DEF StorageInv, OneAtWork, Concerned, EndedBefore, JobAt, JobDev, JobIdle
<1>6. MadeAtOnce' /\ ImageHasSettings'
  BY <1>1 DEF StorageInv, MadeAtOnce, MadeDevice, BeingMade, MakerFits, Made, Keeps, ImageHasSettings,
     ImageDevice, SetterFits, Foreseen, HasSettings, IsDocker, JobAt, JobDev
<1> QED
  BY <1>3, <1>4, <1>5, <1>6 DEF StorageInv, HeldInv

LEMMA DeleteGeneralStep ==
    ASSUME StorageInv, DeleteGeneral
    PROVE  StorageInv'
<1>1. /\ media' = FALSE /\ excused' = excused \cup {d \in StorageDevices : DeviceKind[d] = "tar"}
      /\ UNCHANGED <<folder, filled, system, data, files, listed, enabled, session, held, imageLock, job>>
  BY DEF DeleteGeneral, RemoveMedia, settings, locks
<1>2. storageLeft' \in [StorageOps -> Nat]
  BY DEF DeleteGeneral, StorageInv, HeldInv, StorageTypeOK, StorageOps
<1>3. StorageTypeOK'
  BY <1>1, <1>2 DEF StorageInv, HeldInv, StorageTypeOK
<1>4. PlacesFit' /\ DevicesHeld' /\ SessionIsOver'
  BY <1>1 DEF StorageInv, HeldInv, PlacesFit, PlaceFits, DevicesHeld, Holds, SessionIsOver, JobAt, JobDev
<1>5. OneAtWork' /\ EndedBefore'
  BY <1>1 DEF StorageInv, OneAtWork, Concerned, EndedBefore, JobAt, JobDev, JobIdle
<1>6. MadeAtOnce' /\ ImageHasSettings'
  BY <1>1 DEF StorageInv, MadeAtOnce, MadeDevice, BeingMade, MakerFits, Made, Keeps, ImageHasSettings,
     ImageDevice, SetterFits, Foreseen, HasSettings, IsDocker, JobAt, JobDev
<1> QED
  BY <1>3, <1>4, <1>5, <1>6 DEF StorageInv, HeldInv

LEMMA StorageStays ==
    ASSUME StorageInv, UNCHANGED storageVars
    PROVE  StorageInv'
<1>1. UNCHANGED <<folder, filled, system, data, media, files, listed, enabled, session, held, imageLock,
                  job, excused, storageLeft>>
  BY DEF storageVars
<1>2. HeldInv'
  BY <1>1 DEF StorageInv, HeldInv, StorageTypeOK, PlacesFit, PlaceFits, DevicesHeld, Holds, SessionIsOver, JobAt, JobDev
<1>3. OneAtWork' /\ EndedBefore'
  BY <1>1 DEF StorageInv, OneAtWork, Concerned, EndedBefore, JobAt, JobDev, JobIdle
<1>4. MadeAtOnce' /\ ImageHasSettings'
  BY <1>1 DEF StorageInv, MadeAtOnce, MadeDevice, BeingMade, MakerFits, Made, Keeps, ImageHasSettings,
     ImageDevice, SetterFits, Foreseen, HasSettings, IsDocker, JobAt, JobDev
<1> QED
  BY <1>2, <1>3, <1>4 DEF StorageInv

-----------------------------------------------------------------------------
\* Every step keeps the invariant.
LEMMA StorageStep ==
    ASSUME StorageInv, [StorageNext]_storageVars
    PROVE  StorageInv'
<1>1. CASE UNCHANGED storageVars
  BY <1>1, StorageStays
<1>2. CASE DeleteGeneral
  BY <1>2, DeleteGeneralStep
<1>3. ASSUME NEW d \in StorageDevices, ExpireImageLock(d) PROVE StorageInv'
  BY <1>3, ExpireStep
<1>4. ASSUME NEW t \in StorageThreads,
             \/ MakeFolders(t) \/ Fill(t) \/ EnableApps(t) \/ CreateFails(t)
             \/ Mount(t) \/ SaveFile(t) \/ SaveRestrictions(t) \/ Unmount(t)
      PROVE  StorageInv'
  <2>1. Mount(t) => StorageInv'
    BY MountAttaches, MountEnds, MountTakes
  <2> QED
    BY <1>4, <2>1, MakeFoldersStep, FillStep, EnableAppsStep, CreateFailsStep, SaveFileStep,
       SaveRestrictionsStep, UnmountStep
<1>5. ASSUME NEW t \in StorageThreads,
             \/ Attach(t) \/ Detach(t) \/ DropSession(t) \/ LockImage(t) \/ Resize(t)
             \/ UnlockImage(t) \/ ReleaseDevice(t) \/ EndNext(t) \/ RemoveFolders(t)
      PROVE  StorageInv'
  <2>1. ReleaseDevice(t) => StorageInv'
    BY ReleaseEnds, ReleaseGoesOn
  <2> QED
    BY <1>5, <2>1, AttachStep, DetachStep, DropStep, LockImageStep, ResizeStep, UnlockImageStep,
       EndNextStep, RemoveFoldersStep
<1>6. ASSUME NEW t \in StorageThreads, DeleteAll(t) \/ WipeDevice(t)
      PROVE  StorageInv'
  BY <1>6, EndAndDeleteStep DEF DeleteAll, WipeDevice, Deletions
<1>7. ASSUME NEW t \in StorageThreads, NEW d \in StorageDevices,
             \/ StartSession(t, d) \/ ApproveDevice(t, d) \/ EndSession(t, d)
             \/ DeleteDeviceStorage(t, d) \/ UpdateUserAccount(t, d) \/ UpdateTelephony(t, d)
      PROVE  StorageInv'
  <2>1. DeleteDeviceStorage(t, d) => StorageInv'
    BY EndAndDeleteStep DEF DeleteDeviceStorage, Deletions
  <2>2. UpdateUserAccount(t, d) \/ UpdateTelephony(t, d) => StorageInv'
    BY AddSettingsStep DEF UpdateUserAccount, UpdateTelephony, Params
  <2> QED
    BY <1>7, <2>1, <2>2, StartSessionStep, ApproveStep, EndSessionStep
<1> QED
  BY <1>1, <1>2, <1>3, <1>4, <1>5, <1>6, <1>7 DEF StorageNext

-----------------------------------------------------------------------------
(* What the invariant says of the sessions. *)
\* A platform lets go of the data, or clings to it, before the session is
\* deleted, and no other job attaches it while the lock of the device is held.
LEMMA LetGoStep ==
    ASSUME StorageInv, LetGo, [StorageNext]_storageVars
    PROVE  LetGo'
<1> DEFINE Past(t) == job[t].at \in EndingPlaces \ {"detach"}
<1> USE DEF StorageInv, HeldInv
<1>1. ASSUME NEW t \in StorageThreads, Detach(t) PROVE LetGo'
  <2>1. /\ OthersStay(t) /\ SameAim(t) /\ JobDev(t) \in StorageDevices
        /\ \/ attached' = attached \ ({JobDev(t)} \ clinging) /\ clinging' = clinging
           \/ attached' = attached /\ clinging' = clinging \cup {JobDev(t)}
    <3>1. JobGoes(t, "drop") /\ "drop" \in JobPlaces
      BY <1>1 DEF Detach, JobPlaces, EndingPlaces
    <3> QED
      BY <1>1, <3>1, JobMoves, HolderIs DEF Detach
  <2>2. \A u \in StorageThreads \ {t} : job'[u] = job[u]
    BY <2>1 DEF OthersStay
  <2>3. JobDev(t)' = JobDev(t)
    BY <2>1 DEF SameAim, JobDev
  <2> QED
    BY <2>1, <2>2, <2>3 DEF LetGo, JobDev
<1>2. ASSUME NEW t \in StorageThreads, Attach(t) PROVE LetGo'
  <2>1. /\ attached' = attached \cup {JobDev(t)} /\ clinging' = clinging
        /\ job' = [job EXCEPT ![t] = NoJob] /\ Holds(t)
    BY <1>2 DEF Attach, JobEnds, JobAt, Holds, PlacesFit, PlaceFits
  <2>2. job'[t].at = "idle" /\ \A u \in StorageThreads \ {t} : job'[u] = job[u]
    BY <2>1 DEF StorageTypeOK, NoJob
  <2>3. \A u \in StorageThreads \ {t} : Past(u) => JobDev(u) # JobDev(t)
    BY <2>1, HolderIs DEF Holds
  <2>4. JobDev(t) \in StorageDevices
    BY HolderIs
  <2> QED
    BY <2>1, <2>2, <2>3, <2>4 DEF LetGo, JobDev, EndingPlaces
<1>3. ASSUME UNCHANGED platforms, NEW t \in StorageThreads,
             \A u \in StorageThreads \ {t} : job'[u] = job[u],
             job'[t].at \in EndingPlaces \ {"detach"} => Past(t) /\ JobDev(t)' = JobDev(t)
      PROVE  LetGo'
  BY <1>3 DEF LetGo, platforms, JobDev
<1>4. ASSUME NEW t \in StorageThreads, NEW place \in JobPlaces, JobGoes(t, place), UNCHANGED platforms,
             place \in EndingPlaces \ {"detach"} => Past(t)
      PROVE  LetGo'
  BY <1>3, <1>4, JobMoves DEF OthersStay, SameAim, JobDev
<1>5. ASSUME NEW t \in StorageThreads, JobEnds(t), UNCHANGED platforms PROVE LetGo'
  BY <1>3, <1>5, JobOver DEF OthersStay, EndingPlaces
<1>6. ASSUME NEW t \in StorageThreads, NEW j, job' = [job EXCEPT ![t] = j], UNCHANGED platforms,
             j.at \notin EndingPlaces \ {"detach"}
      PROVE  LetGo'
  BY <1>3, <1>6 DEF StorageTypeOK
<1>7. ASSUME NEW t \in StorageThreads,
             \/ EnableApps(t) \/ SaveFile(t) \/ SaveRestrictions(t) \/ Unmount(t) \/ DropSession(t)
             \/ LockImage(t) \/ Resize(t) \/ UnlockImage(t)
      PROVE  LetGo'
  BY <1>4, <1>7 DEF EnableApps, SaveFile, SaveRestrictions, Written, Unmount, DropSession, AfterDrop, LockImage,
     Resize, UnlockImage, JobAt, JobPlaces, EndingPlaces, SettingPlaces, platforms
<1>8. ASSUME NEW t \in StorageThreads,
             CreateFails(t) \/ ReleaseDevice(t) \/ RemoveFolders(t)
      PROVE  LetGo'
  BY <1>4, <1>5, <1>8 DEF CreateFails, ReleaseDevice, RemoveFolders, JobPlaces, EndingPlaces, platforms
<1>9. ASSUME NEW t \in StorageThreads, MakeFolders(t) \/ Fill(t) \/ Mount(t) \/ EndNext(t) PROVE LetGo'
  <2>1. CASE JobEnds(t) /\ UNCHANGED platforms
    BY <1>5, <2>1
  <2>2. CASE JobGoes(t, "attach") /\ UNCHANGED platforms
    BY <1>4, <2>2 DEF JobPlaces, EndingPlaces
  <2>0. job \in [StorageThreads -> StorageJobs]
    BY DEF StorageTypeOK
  <2>3. CASE MakeFolders(t)
    <3>1. job'[t].at = "fill" /\ UNCHANGED platforms
          /\ \A u \in StorageThreads \ {t} : job'[u] = job[u]
      BY <2>0, <2>3 DEF MakeFolders, StorageJobs
    <3> QED
      BY <1>3, <3>1 DEF EndingPlaces
  <2>4. CASE Fill(t)
    <3>1. job'[t].at \in {"mount", "apps"} /\ UNCHANGED platforms
          /\ \A u \in StorageThreads \ {t} : job'[u] = job[u]
      BY <2>0, <2>4 DEF Fill, StorageJobs
    <3> QED
      BY <1>3, <3>1 DEF EndingPlaces
  <2>5. ASSUME NEW p, UNCHANGED platforms,
               job' = [job EXCEPT ![t].at = "save", ![t].list = listed[JobDev(t)],
                                  ![t].param = p, ![t].todo = @ \ {p}]
        PROVE  LetGo'
    <3>1. job'[t].at = "save" /\ \A u \in StorageThreads \ {t} : job'[u] = job[u]
      BY <2>0, <2>5 DEF StorageJobs
    <3> QED
      BY <1>3, <2>5, <3>1 DEF EndingPlaces
  <2>6. CASE Mount(t)
    BY <2>1, <2>2, <2>5, <2>6 DEF Mount
  <2>7. ASSUME NEW d, UNCHANGED platforms,
               \/ job' = [job EXCEPT ![t].at = "detach", ![t].dev = d, ![t].rest = @ \ {d}]
               \/ job[t].at = "sessions" /\ job' = [job EXCEPT ![t].rest = @ \ {d}]
        PROVE  LetGo'
    <3>1. job'[t].at \in {"detach", "sessions"} /\ \A u \in StorageThreads \ {t} : job'[u] = job[u]
      BY <2>0, <2>7 DEF StorageJobs
    <3> QED
      BY <1>3, <2>7, <3>1 DEF EndingPlaces
  <2>8. CASE EndNext(t)
    BY <2>1, <2>7, <2>8 DEF EndNext, JobAt
  <2> QED
    BY <1>9, <2>3, <2>4, <2>6, <2>8
<1>10. ASSUME NEW t \in StorageThreads, NEW op, NEW j, BeginJob(t, op, j), UNCHANGED platforms,
              j.at \notin EndingPlaces \ {"detach"}
       PROVE  LetGo'
  BY <1>6, <1>10 DEF BeginJob
<1>11. ASSUME NEW t \in StorageThreads, NEW ds, NEW op, EndAndDelete(t, ds, op) PROVE LetGo'
  BY <1>10, <1>11 DEF EndAndDelete, NoJob, EndingPlaces
<1>12. ASSUME NEW t \in StorageThreads, NEW d \in StorageDevices,
             \/ StartSession(t, d) \/ ApproveDevice(t, d) \/ EndSession(t, d)
             \/ DeleteDeviceStorage(t, d) \/ UpdateUserAccount(t, d) \/ UpdateTelephony(t, d)
      PROVE  LetGo'
  <2>1. CASE StartSession(t, d)
    <3>1. PICK place \in {"attach", "home"} :
             BeginJob(t, "start", [NoJob EXCEPT !.dev = d, !.over = TRUE, !.then = "attach", !.at = place])
      BY <2>1 DEF StartSession
    <3> QED
      BY <1>10, <2>1, <3>1 DEF StartSession, NoJob, EndingPlaces
  <2>2. CASE ApproveDevice(t, d)
    BY <1>10, <2>2 DEF ApproveDevice, NoJob, EndingPlaces
  <2>3. CASE EndSession(t, d)
    BY <1>10, <2>3 DEF EndSession, NoJob, EndingPlaces
  <2>4. ASSUME NEW p, AddSettings(t, d, p) PROVE LetGo'
    BY <1>10, <2>4 DEF AddSettings, NoJob, EndingPlaces
  <2> QED
    BY <1>11, <1>12, <2>1, <2>2, <2>3, <2>4 DEF DeleteDeviceStorage, UpdateUserAccount, UpdateTelephony
<1>13. (\E d \in StorageDevices : ExpireImageLock(d)) \/ DeleteGeneral \/ UNCHANGED storageVars => LetGo'
  BY DEF ExpireImageLock, DeleteGeneral, storageVars, platforms, LetGo, JobDev
<1> QED
  BY <1>1, <1>2, <1>7, <1>8, <1>9, <1>11, <1>12, <1>13 DEF StorageNext, DeleteAll, WipeDevice
\* The lock of the device is held over the resizing, so the image is free.
LEMMA ImageFree ==
    ASSUME HeldInv, LetGo PROVE ImageIsFree
<1>1. ASSUME NEW t \in StorageThreads, job[t].at = "resize"
      PROVE  Holds(t) /\ JobDev(t) \notin session /\ JobDev(t) \notin attached \ clinging
  BY <1>1 DEF HeldInv, SessionIsOver, LetGo, Holds, EndingPlaces, JobDev
<1>2. ASSUME NEW t \in StorageThreads, NEW u \in StorageThreads \ {t},
             job[t].at = "resize", job[u].at = "resize"
      PROVE  JobDev(u) # JobDev(t)
  <2>1. held[JobDev(t)] = t /\ held[JobDev(u)] = u
    BY <1>1, <1>2 DEF HeldInv, DevicesHeld
  <2> QED
    BY <2>1
<1> QED
  BY <1>1, <1>2 DEF ImageIsFree, JobAt

\* A session of a device that is not excused has its folders and its settings.
LEMMA FolderWhole ==
    ASSUME StorageInv PROVE SessionHasItsFolder
<1> SUFFICES ASSUME NEW d \in session \ excused
             PROVE  /\ d \in folder /\ d \in enabled
                    /\ IsDocker(d) \/ d \in filled
                    /\ IsDocker(d) => Configured \subseteq listed[d] \cap files[d]
  BY DEF SessionHasItsFolder
<1>1. d \in StorageDevices
  BY DEF StorageInv, HeldInv, StorageTypeOK
<1>2. CASE IsDocker(d)
  BY <1>1, <1>2 DEF StorageInv, ImageHasSettings, ImageDevice, HasSettings
<1>3. CASE ~IsDocker(d)
  BY <1>1, <1>3 DEF StorageInv, MadeAtOnce, MadeDevice, Made
<1> QED
  BY <1>2, <1>3

\* A folder that a session used is not filled again: whoever fills without
\* being told to overwrite keeps what exists, and a start finds it valid.
LEMMA UsedStays ==
    ASSUME StorageInv, [StorageNext]_storageVars, NEW d \in StorageDevices \ excused, data[d] = "used"
    PROVE  data'[d] # "fresh"
<1> USE DEF StorageInv, HeldInv, StorageTypeOK
<1>1. ASSUME NEW t \in StorageThreads, Fill(t) PROVE data'[d] # "fresh"
  <2>1. CASE JobDev(t) = d /\ ~IsDocker(d)
    <3>1. Keeps(t)
      BY <1>1, <2>1 DEF MadeAtOnce, MadeDevice, MakerFits, Fill, Keeps, JobAt
    <3> QED
      BY <1>1, <3>1 DEF Fill
  <2>2. CASE JobDev(t) # d \/ IsDocker(d)
    BY <1>1, <2>2 DEF Fill
  <2> QED
    BY <2>1, <2>2
<1>2. ASSUME NEW t \in StorageThreads, Attach(t) \/ RemoveFolders(t) PROVE data'[d] # "fresh"
  BY <1>2 DEF Attach, RemoveFolders
<1>3. ASSUME NEW t \in StorageThreads,
             \/ MakeFolders(t) \/ EnableApps(t) \/ CreateFails(t)
             \/ Mount(t) \/ SaveFile(t) \/ SaveRestrictions(t) \/ Unmount(t)
      PROVE  data' = data
  BY <1>3 DEF MakeFolders, EnableApps, CreateFails, Mount, SaveFile, SaveRestrictions, Written, Unmount, disk
<1>4. ASSUME NEW t \in StorageThreads,
             \/ Detach(t) \/ DropSession(t) \/ LockImage(t) \/ Resize(t) \/ UnlockImage(t)
             \/ ReleaseDevice(t) \/ EndNext(t) \/ DeleteAll(t) \/ WipeDevice(t)
      PROVE  data' = data
  BY <1>4 DEF Detach, DropSession, LockImage, Resize, UnlockImage, ReleaseDevice, EndNext, DeleteAll, WipeDevice,
     EndAndDelete, disk
<1>5. ASSUME NEW t \in StorageThreads, NEW e \in StorageDevices,
             \/ StartSession(t, e) \/ ApproveDevice(t, e) \/ EndSession(t, e)
             \/ DeleteDeviceStorage(t, e) \/ UpdateUserAccount(t, e) \/ UpdateTelephony(t, e)
      PROVE  data' = data
  BY <1>5 DEF StartSession, ApproveDevice, EndSession, DeleteDeviceStorage, EndAndDelete,
     UpdateUserAccount, UpdateTelephony, AddSettings, disk
<1>6. (\E e \in StorageDevices : ExpireImageLock(e)) \/ DeleteGeneral \/ UNCHANGED storageVars => data' = data
  BY DEF ExpireImageLock, DeleteGeneral, storageVars, disk
<1> QED
  BY <1>1, <1>2, <1>3, <1>4, <1>5, <1>6 DEF StorageNext

-----------------------------------------------------------------------------
(* Requests. *)
Posts == {"rows", "others", "load", "write", "enrol", "activate"}
ReqTyped == req' \in [Requests -> [at : Places, key : Keys \cup {Idle.key}, mem : Words]]
OthersWait(r) == \A q \in Requests \ {r} : req'[q] = req[q]

LEMMA IdleRequest ==
    Idle \in [at : Places, key : Keys \cup {Idle.key}, mem : Words] /\ Idle.at = "idle"
BY DEF Idle, Places, LoginWork, Words

LEMMA GotoMoves ==
    ASSUME RowTypeOK, NEW r \in Requests, NEW place \in Places, Goto(r, place)
    PROVE  /\ ReqTyped /\ OthersWait(r)
           /\ req'[r].at = place /\ req'[r].key = req[r].key /\ req'[r].mem = req[r].mem
BY DEF RowTypeOK, ReqTyped, OthersWait, Goto

LEMMA DoneMoves ==
    ASSUME RowTypeOK, NEW r \in Requests, Done(r)
    PROVE  ReqTyped /\ OthersWait(r) /\ req'[r].at = "idle"
BY IdleRequest DEF RowTypeOK, ReqTyped, OthersWait, Done

LEMMA BeginMoves ==
    ASSUME RowTypeOK, NEW r \in Requests, NEW k \in Keys, NEW place \in Places, NEW mem \in Words,
           Begin(r, k, place, mem)
    PROVE  /\ ReqTyped /\ OthersWait(r) /\ req[r].at = "idle"
           /\ req'[r].at = place /\ (place # "idle" => req'[r].key = k /\ req'[r].mem = mem)
<1>1. CASE place = "idle"
  BY <1>1, IdleRequest DEF RowTypeOK, ReqTyped, OthersWait, Begin, At
<1>2. CASE place # "idle"
  BY <1>2 DEF RowTypeOK, ReqTyped, OthersWait, Begin, At
<1> QED
  BY <1>1, <1>2

-----------------------------------------------------------------------------
(* Rows. *)
Live == {"ok"} \cup Resets

\* A row keeps its status, expires or goes, or was active before; one that
\* had expired and is revived is broken.
Wanes(k) ==
    \/ act'[k].status = act[k].status
    \/ act[k].status # "none" /\ act[k].status # "gone" /\ act'[k].status = "expired"
    \/ act[k].status # "none" /\ act'[k].status = "gone"
    \/ act[k].status \in Live /\ act'[k].status \in Live
    \/ act[k].status = "expired" /\ act'[k].status \in Live /\ k \in broken'
RowsWane == broken \subseteq broken' /\ \A k \in Keys : Wanes(k)

Onward == /\ broken \subseteq broken'
          /\ \A k \in Keys : (Known(k) => Known(k)') /\ (Settled(k) => Settled(k)')
NoneStays(r) == \A k \in Keys :
    act[k].status = "none" /\ ~(At(r, "insert") /\ Key(r) = k) => act'[k].status = "none"
KeepsActive == \A k \in Keys :
    /\ Active(k)' => Active(k)
    /\ Known(k) /\ (Exists(k) /\ k \notin broken)' => Exists(k)
KeepsDevices == /\ \A a \in Accounts : device[a].row => device'[a].row
                /\ user \subseteq user'
KeepsPosts == \A q \in Requests :
    req'[q] = req[q] \/ (req[q].at \notin {"rows", "others", "load", "write"} /\ req'[q].at \notin Posts)
KeepsErasers == \A w \in Workers :
    Op(w) = "erase" => Op(w)' = "erase" /\ work'[w].person = work[w].person

LEMMA WaneOnward ==
    ASSUME RowsWane
    PROVE  Onward /\ KeepsActive /\ \A r : NoneStays(r)
<1>1. Onward
  BY DEF RowsWane, Wanes, Onward, Known, Settled, Live, Resets
<1>2. KeepsActive
  BY DEF RowsWane, Wanes, KeepsActive, Known, Active, Exists, Live, Resets
<1>3. ASSUME NEW r PROVE NoneStays(r)
  BY DEF RowsWane, Wanes, NoneStays, Live, Resets
<1> QED
  BY <1>1, <1>2, <1>3

\* A statement on one row.
LEMMA SetRowWanes ==
    ASSUME act \in [Keys -> Rows], NEW k \in Keys, NEW row \in Rows, SetRow(k, row)
    PROVE  /\ act' \in [Keys -> Rows] /\ (Exists(k) => act'[k] = row) /\ (~Exists(k) => act'[k] = act[k])
           /\ \A j \in Keys \ {k} : act'[j] = act[j]
BY DEF SetRow

\* What is active stays alone on its device, and has its device and its user.
LEMMA RowsStay ==
    ASSUME ActiveAlone, DeviceThere, UserThere, Onward, KeepsActive, KeepsDevices, KeepsErasers, KeepsPosts,
           RequestsFit
    PROVE  ActiveAlone' /\ DeviceThere' /\ UserThere'
<1>1. \A u : Erased(u) => Erased(u)'
  BY DEF KeepsErasers, Erased
<1>2. \A k \in Keys : Owner[k] \in Accounts
  BY ActivationAssumption
<1>3. ActiveAlone'
  BY DEF ActiveAlone, KeepsActive, KeepsPosts, At, Key
<1>4. DeviceThere'
  <2>1. ASSUME NEW k \in Keys, Active(k)'
        PROVE  (\/ device[Owner[k]].row \/ Erased(Owner[k][1])
                \/ \E r \in Requests : Making(r, k) \/ (At(r, "rows") /\ Of(r) = Owner[k]))'
    <3>1. Active(k)
      BY <2>1 DEF KeepsActive
    <3>2. CASE \E r \in Requests : Making(r, k) \/ (At(r, "rows") /\ Of(r) = Owner[k])
      BY <3>2 DEF Making, KeepsPosts, At, Key, Of
    <3>3. CASE device[Owner[k]].row \/ Erased(Owner[k][1])
      BY <1>1, <1>2, <3>3 DEF KeepsDevices
    <3> QED
      BY <3>1, <3>2, <3>3 DEF DeviceThere
  <2> QED
    BY <2>1 DEF DeviceThere
<1>5. UserThere'
  <2>1. ASSUME NEW k \in Keys, Active(k)' PROVE Owner[k][1] \in user' \/ Erased(Owner[k][1])'
    BY <1>1, <2>1 DEF UserThere, KeepsActive, KeepsDevices
  <2>2. ASSUME NEW r \in Requests, req'[r].at \in {"enrol", "activate"}, (Exists(Key(r)) /\ Key(r) \notin broken)',
               req'[r].key \in Keys
        PROVE  Of(r)'[1] \in user' \/ Erased(Of(r)[1])'
    <3>1. req'[r] = req[r]
      BY <2>2 DEF KeepsPosts, Posts
    <3>2. Exists(Key(r)) /\ Key(r) \notin broken
      BY <2>2, <3>1 DEF KeepsActive, Key, Exists, Onward, RequestsFit, RequestFits
    <3> QED
      BY <1>1, <2>2, <3>1, <3>2 DEF UserThere, KeepsDevices, Of, Key
  <2> QED
    BY <2>1, <2>2 DEF UserThere, Key, RequestsFit, RequestFits, At, KeepsPosts, Posts
<1> QED
  BY <1>3, <1>4, <1>5

-----------------------------------------------------------------------------
(* What a step leaves alone. *)
\* Places that say something of the login.
LoginPlaces == {"pright", "sclear", "token", "second", "vuser", "venrol", "vdevice", "vsave"}

LEMMA FitsStays ==
    ASSUME RequestsFit, NEW r \in Requests, OthersWait(r), Onward, NoneStays(r),
           \A q \in Requests \ {r} : copy'[q] = copy[q],
           RequestFits(r)',
           At(r, "insert")' => \A q \in Requests \ {r} : At(q, "insert") => Key(q) # Key(r)'
    PROVE  RequestsFit'
<1>1. ASSUME NEW q \in Requests \ {r} PROVE RequestFits(q)'
  <2>1. RequestFits(q) /\ req'[q] = req[q] /\ copy'[q] = copy[q]
    BY DEF RequestsFit, OthersWait
  <2>2. At(q, "insert") => act'[Key(q)].status = "none"
    BY <2>1 DEF RequestsFit, RequestFits, NoneStays, At, Key
  <2>3. /\ Known(Key(q)) => Known(Key(q))'
        /\ Settled(Key(q)) => Settled(Key(q))'
        /\ Settled(Row(q)) => Settled(Row(q))'
    BY <2>1 DEF Onward, Known, Settled, Key, Row
  <2> QED
    BY <2>1, <2>2, <2>3 DEF RequestFits, At, Key
<1>2. \A p, q \in Requests : p # q /\ At(p, "insert")' /\ At(q, "insert")' => Key(p)' # Key(q)'
  BY DEF RequestsFit, OthersWait, At, Key
<1> QED
  BY <1>1, <1>2 DEF RequestsFit

LEMMA LoginsStay ==
    ASSUME LoginsNameRows, Onward, UNCHANGED <<login, copy>>
    PROVE  LoginsNameRows'
<1>1. \A k : Settled(k) => Settled(k)'
  BY DEF Onward, Settled
<1> QED
  BY <1>1 DEF LoginsNameRows

LEMMA EnrolStays ==
    ASSUME RequestsOnlyEnrol, NEW r \in Requests, OthersWait(r), req[r].at \notin {"enrol", "venrol"},
           UNCHANGED work
    PROVE  RequestsOnlyEnrol'
BY DEF RequestsOnlyEnrol, OthersWait, Op, Free

LEMMA ErasersStay ==
    ASSUME ErasersWalk, UNCHANGED work
    PROVE  ErasersWalk'
BY DEF ErasersWalk, Op, Free

LEMMA FactorsStay ==
    ASSUME FactorsEarned, UNCHANGED <<login, copy, given>>,
           \A r \in Requests : req'[r].at = req[r].at \/ req'[r].at \notin LoginPlaces
    PROVE  FactorsEarned'
BY DEF FactorsEarned, Earned, LoginPlaces

LEMMA PackagesStay ==
    ASSUME PackagesLocked, UNCHANGED <<work, packageLocks, userApp>>
    PROVE  PackagesLocked'
BY DEF PackagesLocked, Locked, Package, In, Free, Op

RowsTyped == act' \in [Keys -> Rows]
DevicesTyped == device' \in [Accounts -> [row : BOOLEAN, active : BOOLEAN, attempts : Nat]]

\* A handler takes a step that neither makes a row active nor takes a device
\* away; what it does to logins is told.
LEMMA HandlerStep ==
    ASSUME AccountInv, NEW r \in Requests,
           ReqTyped, OthersWait(r), req[r].at \notin {"enrol", "venrol"},
           req[r].at \notin {"rows", "others", "load", "write"}, req'[r].at \notin Posts,
           RowsTyped, Onward, KeepsActive, NoneStays(r), DevicesTyped, KeepsDevices, user' \subseteq Users, broken' \subseteq Keys,
           \A q \in Requests \ {r} : copy'[q] = copy[q],
           RequestFits(r)',
           At(r, "insert")' => \A q \in Requests \ {r} : At(q, "insert") => Key(q) # Key(r)',
           LoginTypeOK', LoginsNameRows', FactorsEarned', UNCHANGED directoryVars
    PROVE  AccountInv'
<1> USE DEF AccountInv, RowsInv, KeysInv
<1>1. UNCHANGED <<member, groupApps, catalog, userApp, work, packageLocks>>
  BY DEF directoryVars
<1>2. RowTypeOK' /\ DirectoryTypeOK'
  BY <1>1 DEF RowTypeOK, DirectoryTypeOK, RowsTyped, DevicesTyped, ReqTyped
<1>4. RequestsFit'
  BY FitsStays
<1>5. RequestsOnlyEnrol' /\ ErasersWalk'
  BY <1>1, EnrolStays, ErasersStay
<1>6. KeepsErasers /\ KeepsPosts
  BY <1>1 DEF KeepsErasers, KeepsPosts, OthersWait, Op
<1>7. ActiveAlone' /\ DeviceThere' /\ UserThere'
  BY <1>4, <1>6, RowsStay
<1>8. PackagesLocked'
  BY <1>1, PackagesStay
<1> QED
  BY <1>2, <1>4, <1>5, <1>7, <1>8

\* A handler of Activation leaves the logins alone.
LEMMA CalmStep ==
    ASSUME AccountInv, NEW r \in Requests,
           ReqTyped, OthersWait(r), req[r].at \notin {"enrol", "venrol"},
           req[r].at \notin {"rows", "others", "load", "write"}, req'[r].at \notin Posts \cup LoginPlaces,
           RowsTyped, Onward, KeepsActive, NoneStays(r), DevicesTyped, KeepsDevices, user' \subseteq Users, broken' \subseteq Keys,
           RequestFits(r)',
           At(r, "insert")' => \A q \in Requests \ {r} : At(q, "insert") => Key(q) # Key(r)',
           UNCHANGED loginVars, UNCHANGED directoryVars
    PROVE  AccountInv'
<1>1. UNCHANGED <<login, copy, given>>
  BY DEF loginVars
<1>2. LoginTypeOK'
  BY <1>1 DEF LoginTypeOK, AccountInv, RowsInv, KeysInv
<1>3. LoginsNameRows'
  BY <1>1, LoginsStay DEF AccountInv, RowsInv, KeysInv
<1>4. FactorsEarned'
  BY <1>1, FactorsStay DEF OthersWait, AccountInv
<1> QED
  BY <1>1, <1>2, <1>3, <1>4, HandlerStep

LEMMA FitsQuiet ==
    ASSUME RequestsFit, RowsWane, UNCHANGED <<req, copy>>
    PROVE  RequestsFit'
<1>1. Onward
  BY WaneOnward
<1>2. ASSUME NEW q \in Requests PROVE RequestFits(q)'
  <2>1. RequestFits(q)
    BY DEF RequestsFit
  <2>2. At(q, "insert") => act'[Key(q)].status = "none"
    BY <2>1 DEF RequestFits, RowsWane, Wanes, Live, Resets, At, Key
  <2>3. /\ Known(Key(q)) => Known(Key(q))'
        /\ Settled(Key(q)) => Settled(Key(q))'
        /\ Settled(Row(q)) => Settled(Row(q))'
    BY <1>1 DEF Onward, Known, Settled, Key, Row
  <2> QED
    BY <2>1, <2>2, <2>3 DEF RequestFits, At, Key
<1> QED
  BY <1>2 DEF RequestsFit, At, Key

\* The same when no handler moves.
LEMMA QuietStep ==
    ASSUME AccountInv, RowsTyped, RowsWane, DevicesTyped, KeepsDevices, user' \subseteq Users,
           broken' \subseteq Keys, UNCHANGED <<req, login, copy, given>>, UNCHANGED directoryVars
    PROVE  AccountInv'
<1> USE DEF AccountInv, RowsInv, KeysInv
<1>1. UNCHANGED <<login, copy, given, member, groupApps, catalog, userApp, work, packageLocks>>
  BY DEF directoryVars
<1>2. RowTypeOK' /\ LoginTypeOK' /\ DirectoryTypeOK'
  BY <1>1 DEF RowTypeOK, LoginTypeOK, DirectoryTypeOK, RowsTyped, DevicesTyped
<1>3. Onward /\ KeepsActive /\ \A r : NoneStays(r)
  BY WaneOnward
<1>4. RequestsFit'
  BY <1>1, FitsQuiet
<1>5. LoginsNameRows' /\ RequestsOnlyEnrol' /\ ErasersWalk'
  BY <1>1, <1>3, LoginsStay, ErasersStay DEF RequestsOnlyEnrol, Op, Free
<1>6. KeepsErasers /\ KeepsPosts
  BY <1>1 DEF KeepsErasers, KeepsPosts, Op
<1>7. ActiveAlone' /\ DeviceThere' /\ UserThere'
  BY <1>3, <1>4, <1>6, RowsStay
<1>8. FactorsEarned' /\ PackagesLocked'
  BY <1>1, FactorsStay, PackagesStay
<1> QED
  BY <1>2, <1>4, <1>5, <1>7, <1>8

-----------------------------------------------------------------------------
(* The steps of Activation. *)
LEMMA SendCodeKeeps ==
    ASSUME AccountInv, NEW r \in Requests, SendCode(r),
           UNCHANGED loginVars, UNCHANGED directoryVars
    PROVE  AccountInv'
<1> USE ActivationAssumption DEF AccountInv, RowsInv, KeysInv
<1>1. /\ ReqTyped /\ OthersWait(r) /\ req[r].at = "code"
      /\ req'[r].at = "idle"
  BY DoneMoves DEF SendCode, At, Places, LoginWork, Words
<1>2. RowsTyped /\ RowsWane /\ broken' \subseteq Keys
  <2> DEFINE k == Key(r)
             row == [act[Key(r)] EXCEPT !.link = TRUE]
  <2>1. k \in Keys
    BY <1>1 DEF RequestsFit, RequestFits, At
  <2>2. act[k] \in Rows
    BY <2>1 DEF RowTypeOK
  <2>3. row \in Rows /\ row.status = act[k].status
    BY <1>1, <2>2 DEF Rows
  <2>4. SetRow(k, row)
    BY DEF SendCode
  <2> HIDE DEF k, row
  <2>5. /\ RowsTyped /\ (Exists(k) => act'[k] = row) /\ (~Exists(k) => act'[k] = act[k])
        /\ \A j \in Keys \ {k} : act'[j] = act[j]
    BY <2>1, <2>3, <2>4, SetRowWanes DEF RowsTyped, RowTypeOK
  <2>6. broken \subseteq broken' /\ broken' \subseteq Keys
    BY <2>1 DEF SendCode, RowTypeOK
  <2> QED
    BY <2>1, <2>3, <2>5, <2>6 DEF RowsWane, Wanes
<1>3. DevicesTyped /\ KeepsDevices /\ user' \subseteq Users
  BY DEF SendCode, DevicesTyped, KeepsDevices, RowTypeOK
<1>4. RequestFits(r)'
  BY <1>1, <1>2, WaneOnward DEF RequestsFit, RequestFits, LoginWork, At, Key, Known, Settled, Onward
<1> QED
  BY <1>1, <1>2, <1>3, <1>4, WaneOnward, CalmStep DEF Posts, LoginPlaces, At, Key

LEMMA WipeKeeps ==
    ASSUME AccountInv, NEW r \in Requests, Wipe(r),
           UNCHANGED loginVars, UNCHANGED directoryVars
    PROVE  AccountInv'
<1> USE ActivationAssumption DEF AccountInv, RowsInv, KeysInv
<1>1. /\ ReqTyped /\ OthersWait(r) /\ req[r].at = "wipe"
      /\ req'[r].at = "confirm" /\ req'[r].key = req[r].key /\ req'[r].mem = req[r].mem
  BY GotoMoves DEF Wipe, At, Places, LoginWork, Words
<1>2. RowsTyped /\ RowsWane /\ broken' \subseteq Keys
  BY DEF Wipe, RowsTyped, RowsWane, Wanes, RowTypeOK
<1>3. DevicesTyped /\ KeepsDevices /\ user' \subseteq Users
  BY DEF Wipe, DevicesTyped, KeepsDevices, RowTypeOK
<1>4. RequestFits(r)'
  BY <1>1, <1>2, WaneOnward DEF RequestsFit, RequestFits, LoginWork, At, Key, Known, Settled, Onward
<1> QED
  BY <1>1, <1>2, <1>3, <1>4, WaneOnward, CalmStep DEF Posts, LoginPlaces, At, Key

LEMMA UnlockByLinkKeeps ==
    ASSUME AccountInv, NEW r \in Requests, UnlockByLink(r),
           UNCHANGED loginVars, UNCHANGED directoryVars
    PROVE  AccountInv'
<1> USE ActivationAssumption DEF AccountInv, RowsInv, KeysInv
<1>1. /\ ReqTyped /\ OthersWait(r) /\ req[r].at = "unlock"
      /\ req'[r].at = "idle"
  BY DoneMoves DEF UnlockByLink, At, Places, LoginWork, Words
<1>2. RowsTyped /\ RowsWane /\ broken' \subseteq Keys
  BY DEF UnlockByLink, RowsTyped, RowsWane, Wanes, RowTypeOK
<1>3. DevicesTyped /\ KeepsDevices /\ user' \subseteq Users
  BY DEF UnlockByLink, DevicesTyped, KeepsDevices, RowTypeOK
<1>4. RequestFits(r)'
  BY <1>1, <1>2, WaneOnward DEF RequestsFit, RequestFits, LoginWork, At, Key, Known, Settled, Onward
<1> QED
  BY <1>1, <1>2, <1>3, <1>4, WaneOnward, CalmStep DEF Posts, LoginPlaces, At, Key

LEMMA FindRowKeeps ==
    ASSUME AccountInv, NEW r \in Requests, FindRow(r),
           UNCHANGED loginVars, UNCHANGED directoryVars
    PROVE  AccountInv'
<1> USE ActivationAssumption DEF AccountInv, RowsInv, KeysInv
<1>1. /\ ReqTyped /\ OthersWait(r) /\ req[r].at = "find"
      /\ (req'[r].at = "idle" \/ (req'[r].at = Found(Key(r)) /\ Found(Key(r)) # "idle"
                               /\ req'[r].key = Key(r) /\ req'[r].mem = Kind(Key(r))))
  <2>1. CASE Found(Key(r)) = "idle"
    BY <2>1, IdleRequest DEF FindRow, At, RowTypeOK, ReqTyped, OthersWait
  <2>2. CASE Found(Key(r)) # "idle"
    <3>1. Found(Key(r)) \in Places /\ Kind(Key(r)) \in Words /\ Key(r) \in Keys
      BY DEF FindRow, RequestsFit, RequestFits, Found, Kind, Places, LoginWork, Words, At
    <3> QED
      BY <2>2, <3>1 DEF FindRow, At, RowTypeOK, ReqTyped, OthersWait
  <2> QED
    BY <2>1, <2>2
<1>2. RowsTyped /\ RowsWane /\ broken' \subseteq Keys
  BY DEF FindRow, RowsTyped, RowsWane, Wanes, RowTypeOK
<1>3. DevicesTyped /\ KeepsDevices /\ user' \subseteq Users
  BY DEF FindRow, DevicesTyped, KeepsDevices, RowTypeOK
<1>4. RequestFits(r)'
  BY <1>1, <1>2, WaneOnward DEF RequestsFit, RequestFits, LoginWork, At, Key, Known, Settled, Onward, Found, Kind, Resets
<1> QED
  BY <1>1, <1>2, <1>3, <1>4, WaneOnward, CalmStep DEF Posts, LoginPlaces, At, Key, Found

LEMMA InsertKeeps ==
    ASSUME AccountInv, NEW r \in Requests, Insert(r), UNCHANGED loginVars, UNCHANGED directoryVars
    PROVE  AccountInv'
<1> USE ActivationAssumption DEF AccountInv, RowsInv, KeysInv
<1>1. /\ ReqTyped /\ OthersWait(r) /\ req[r].at = "insert"
      /\ req'[r].at = "expire" /\ req'[r].key = req[r].key /\ Key(r) \in Keys /\ act[Key(r)].status = "none"
  BY GotoMoves DEF Insert, At, Key, Places, LoginWork, RequestsFit, RequestFits
<1>2. RowsTyped /\ act' = [act EXCEPT ![Key(r)] = NewRow] /\ NewRow.status = "pending"
  BY DEF Insert, NewRow, NoRow, RowsTyped, RowTypeOK, Rows
<1>3. DevicesTyped /\ KeepsDevices /\ UNCHANGED <<device, user, broken>>
  BY DEF Insert, DevicesTyped, RowTypeOK, KeepsDevices
<1>4. Onward /\ KeepsActive /\ NoneStays(r)
  BY <1>1, <1>2, <1>3 DEF Onward, KeepsActive, NoneStays, Known, Settled, Active, Exists, Resets, RowTypeOK, At
<1>5. RequestFits(r)'
  BY <1>1 DEF RequestFits, LoginWork, At, Key
<1>6. user' \subseteq Users /\ broken' \subseteq Keys
  BY <1>3 DEF RowTypeOK
<1> QED
  BY <1>1, <1>2, <1>3, <1>4, <1>5, <1>6, CalmStep DEF Posts, LoginPlaces, At

LEMMA ActivateKeeps ==
    ASSUME AccountInv, NEW r \in Requests, NEW k \in Keys,
           Activate(r, k),
           UNCHANGED loginVars, UNCHANGED directoryVars
    PROVE  AccountInv'
<1> USE ActivationAssumption DEF AccountInv, RowsInv, KeysInv
<1>1. /\ ReqTyped /\ OthersWait(r) /\ req[r].at = "idle"
      /\ req'[r].at = "insert" /\ req'[r].key = k /\ req'[r].mem = ""
  <2>1. Begin(r, k, "insert", "")
    BY DEF Activate
  <2>2. "insert" \in Places /\ "" \in Words
    BY DEF Places, LoginWork, Words, Resets
  <2> QED
    BY <2>1, <2>2, BeginMoves
<1>2. RowsTyped /\ RowsWane /\ broken' \subseteq Keys
  BY DEF Activate, RowsTyped, RowsWane, Wanes, RowTypeOK
<1>3. DevicesTyped /\ KeepsDevices /\ user' \subseteq Users
  BY DEF Activate, DevicesTyped, KeepsDevices, RowTypeOK
<1>4. RequestFits(r)'
  BY <1>1, <1>2, WaneOnward DEF Activate, RequestFits, LoginWork, At, Key, Known, Settled, Onward
<1> QED
  BY <1>1, <1>2, <1>3, <1>4, WaneOnward, CalmStep DEF Posts, LoginPlaces, At, Key, Activate

LEMMA LinkKeeps ==
    ASSUME AccountInv, NEW r \in Requests, NEW k \in Keys,
           Link(r, k),
           UNCHANGED loginVars, UNCHANGED directoryVars
    PROVE  AccountInv'
<1> USE ActivationAssumption DEF AccountInv, RowsInv, KeysInv
<1>1. /\ ReqTyped /\ OthersWait(r) /\ req[r].at = "idle" /\ req'[r].at = Found(k)
      /\ (Found(k) # "idle" => req'[r].key = k /\ req'[r].mem = Kind(k))
  <2>1. Found(k) \in Places /\ Kind(k) \in Words
    BY DEF Found, Kind, Places, LoginWork, Words, Resets
  <2> QED
    BY <2>1, BeginMoves DEF Link
<1>2. RowsTyped /\ RowsWane /\ broken' \subseteq Keys
  BY DEF Link, RowsTyped, RowsWane, Wanes, RowTypeOK
<1>3. DevicesTyped /\ KeepsDevices /\ user' \subseteq Users
  BY DEF Link, DevicesTyped, KeepsDevices, RowTypeOK
<1>4. RequestFits(r)'
  BY <1>1, <1>2, WaneOnward DEF Link, RequestFits, LoginWork, At, Key, Known, Settled, Onward, Found, Kind, Resets
<1> QED
  BY <1>1, <1>2, <1>3, <1>4, WaneOnward, CalmStep DEF Posts, LoginPlaces, At, Key, Found

LEMMA ApproveKeeps ==
    ASSUME AccountInv, NEW r \in Requests, NEW k \in Keys,
           Approve(r, k),
           UNCHANGED loginVars, UNCHANGED directoryVars
    PROVE  AccountInv'
<1> USE ActivationAssumption DEF AccountInv, RowsInv, KeysInv
<1>1. /\ ReqTyped /\ OthersWait(r) /\ req[r].at = "idle"
      /\ req'[r].at = "find" /\ req'[r].key = k /\ req'[r].mem = ""
  <2>1. Begin(r, k, "find", "")
    BY DEF Approve
  <2>2. "find" \in Places /\ "" \in Words
    BY DEF Places, LoginWork, Words, Resets
  <2> QED
    BY <2>1, <2>2, BeginMoves
<1>2. RowsTyped /\ RowsWane /\ broken' \subseteq Keys
  BY DEF Approve, RowsTyped, RowsWane, Wanes, RowTypeOK
<1>3. DevicesTyped /\ KeepsDevices /\ user' \subseteq Users
  BY DEF Approve, DevicesTyped, KeepsDevices, RowTypeOK
<1>4. RequestFits(r)'
  BY <1>1, <1>2, WaneOnward DEF Approve, RequestFits, LoginWork, At, Key, Known, Settled, Onward
<1> QED
  BY <1>1, <1>2, <1>3, <1>4, WaneOnward, CalmStep DEF Posts, LoginPlaces, At, Key

LEMMA CancelResetKeeps ==
    ASSUME AccountInv, NEW r \in Requests, NEW k \in Keys,
           CancelReset(r, k),
           UNCHANGED loginVars, UNCHANGED directoryVars
    PROVE  AccountInv'
<1> USE ActivationAssumption DEF AccountInv, RowsInv, KeysInv
<1>1. /\ ReqTyped /\ OthersWait(r) /\ req[r].at = "idle"
      /\ req'[r].at = "restore" /\ req'[r].key = k /\ req'[r].mem = ""
  <2>1. Begin(r, k, "restore", "")
    BY DEF CancelReset
  <2>2. "restore" \in Places /\ "" \in Words
    BY DEF Places, LoginWork, Words, Resets
  <2> QED
    BY <2>1, <2>2, BeginMoves
<1>2. RowsTyped /\ RowsWane /\ broken' \subseteq Keys
  BY DEF CancelReset, RowsTyped, RowsWane, Wanes, RowTypeOK
<1>3. DevicesTyped /\ KeepsDevices /\ user' \subseteq Users
  BY DEF CancelReset, DevicesTyped, KeepsDevices, RowTypeOK
<1>4. RequestFits(r)'
  BY <1>1, <1>2, WaneOnward DEF CancelReset, RequestFits, LoginWork, At, Key, Known, Settled, Onward, Resets
<1> QED
  BY <1>1, <1>2, <1>3, <1>4, WaneOnward, CalmStep DEF Posts, LoginPlaces, At, Key

LEMMA AddDeviceKeeps ==
    ASSUME AccountInv, NEW r \in Requests, NEW k \in Keys,
           AddDevice(r, k),
           UNCHANGED loginVars, UNCHANGED directoryVars
    PROVE  AccountInv'
<1> USE ActivationAssumption DEF AccountInv, RowsInv, KeysInv
<1>1. /\ ReqTyped /\ OthersWait(r) /\ req[r].at = "idle"
      /\ req'[r].at = "create" /\ req'[r].key = k /\ req'[r].mem = ""
  <2>1. Begin(r, k, "create", "")
    BY DEF AddDevice
  <2>2. "create" \in Places /\ "" \in Words
    BY DEF Places, LoginWork, Words, Resets
  <2> QED
    BY <2>1, <2>2, BeginMoves
<1>2. RowsTyped /\ RowsWane /\ broken' \subseteq Keys
  BY DEF AddDevice, RowsTyped, RowsWane, Wanes, RowTypeOK
<1>3. DevicesTyped /\ KeepsDevices /\ user' \subseteq Users
  BY DEF AddDevice, DevicesTyped, KeepsDevices, RowTypeOK
<1>4. RequestFits(r)'
  BY <1>1, <1>2, WaneOnward DEF AddDevice, RequestFits, LoginWork, At, Key, Known, Settled, Onward
<1> QED
  BY <1>1, <1>2, <1>3, <1>4, WaneOnward, CalmStep DEF Posts, LoginPlaces, At, Key

LEMMA EnableDeviceKeeps ==
    ASSUME AccountInv, NEW r \in Requests, NEW k \in Keys, NEW yes \in BOOLEAN,
           EnableDevice(r, k, yes),
           UNCHANGED loginVars, UNCHANGED directoryVars
    PROVE  AccountInv'
<1> USE ActivationAssumption DEF AccountInv, RowsInv, KeysInv
<1>1. /\ ReqTyped /\ OthersWait(r) /\ req[r].at = "idle"
      /\ req'[r].at = "active" /\ req'[r].key = k /\ req'[r].mem = (IF yes THEN "yes" ELSE "no")
  <2>1. Begin(r, k, "active", (IF yes THEN "yes" ELSE "no"))
    BY DEF EnableDevice
  <2>2. "active" \in Places /\ (IF yes THEN "yes" ELSE "no") \in Words
    BY DEF Places, LoginWork, Words, Resets
  <2> QED
    BY <2>1, <2>2, BeginMoves
<1>2. RowsTyped /\ RowsWane /\ broken' \subseteq Keys
  BY DEF EnableDevice, RowsTyped, RowsWane, Wanes, RowTypeOK
<1>3. DevicesTyped /\ KeepsDevices /\ user' \subseteq Users
  BY DEF EnableDevice, DevicesTyped, KeepsDevices, RowTypeOK
<1>4. RequestFits(r)'
  BY <1>1, <1>2, WaneOnward DEF EnableDevice, RequestFits, LoginWork, At, Key, Known, Settled, Onward
<1> QED
  BY <1>1, <1>2, <1>3, <1>4, WaneOnward, CalmStep DEF Posts, LoginPlaces, At, Key

LEMMA ResetPasscodeKeeps ==
    ASSUME AccountInv, NEW r \in Requests, NEW k \in Keys, NEW kind \in Resets,
           ResetPasscode(r, k, kind), Settled(k),
           UNCHANGED loginVars, UNCHANGED directoryVars
    PROVE  AccountInv'
<1> USE ActivationAssumption DEF AccountInv, RowsInv, KeysInv
<1>1. /\ ReqTyped /\ OthersWait(r) /\ req[r].at = "idle"
      /\ req'[r].at = "mark" /\ req'[r].key = k /\ req'[r].mem = kind
  <2>1. Begin(r, k, "mark", kind)
    BY DEF ResetPasscode
  <2>2. "mark" \in Places /\ kind \in Words
    BY DEF Places, LoginWork, Words, Resets
  <2> QED
    BY <2>1, <2>2, BeginMoves
<1>2. RowsTyped /\ RowsWane /\ broken' \subseteq Keys
  BY DEF ResetPasscode, RowsTyped, RowsWane, Wanes, RowTypeOK
<1>3. DevicesTyped /\ KeepsDevices /\ user' \subseteq Users
  BY DEF ResetPasscode, DevicesTyped, KeepsDevices, RowTypeOK
<1>4. RequestFits(r)'
  BY <1>1, <1>2, WaneOnward DEF ResetPasscode, RequestFits, LoginWork, At, Key, Known, Settled, Onward
<1> QED
  BY <1>1, <1>2, <1>3, <1>4, WaneOnward, CalmStep DEF Posts, LoginPlaces, At, Key

LEMMA AskResetKeeps ==
    ASSUME AccountInv, NEW r \in Requests, NEW t \in Tokens, NEW kind \in Resets, AskReset(r, t, kind),
           UNCHANGED loginVars, UNCHANGED directoryVars
    PROVE  AccountInv'
<1>1. Settled(login[t].key) /\ login[t].key \in Keys
  BY DEF AskReset, AccountInv, RowsInv, KeysInv, LoginsNameRows, Settled
<1> QED
  BY <1>1, ResetPasscodeKeeps DEF AskReset

LEMMA ExpireOwnKeeps ==
    ASSUME AccountInv, NEW r \in Requests, ExpireOwn(r),
           UNCHANGED loginVars, UNCHANGED directoryVars
    PROVE  AccountInv'
<1> USE ActivationAssumption DEF AccountInv, RowsInv, KeysInv
<1>1. /\ ReqTyped /\ OthersWait(r) /\ req[r].at = "expire"
      /\ req'[r].at \in {"idle", "find", "code"} /\ (req'[r].at # "idle" => req'[r].key = req[r].key)
  BY DoneMoves, GotoMoves DEF ExpireOwn, At, Places, LoginWork, Words
<1>2. RowsTyped /\ RowsWane /\ broken' \subseteq Keys
  <2> DEFINE K == {k \in Keys \ {Key(r)} : Exists(k) /\ Owner[k] = Of(r)}
  <2>1. Expire(K) /\ K \subseteq Keys /\ broken' = broken
    BY DEF ExpireOwn
  <2>2. \A k \in K : act[k].status # "none" /\ act[k].status # "gone"
    BY DEF Exists
  <2> HIDE DEF K
  <2>3. RowsTyped /\ \A k \in Keys : IF k \in K THEN act'[k].status = "expired" ELSE act'[k] = act[k]
    BY ZenonT(60), <2>1 DEF Expire, RowsTyped, RowTypeOK, Rows
  <2> QED
    BY <2>1, <2>2, <2>3 DEF RowsWane, Wanes, RowTypeOK
<1>3. DevicesTyped /\ KeepsDevices /\ user' \subseteq Users
  BY DEF ExpireOwn, DevicesTyped, KeepsDevices, RowTypeOK
<1>4. RequestFits(r)'
  BY <1>1, <1>2, WaneOnward DEF RequestsFit, RequestFits, LoginWork, At, Key, Known, Settled, Onward
<1> QED
  BY <1>1, <1>2, <1>3, <1>4, WaneOnward, CalmStep DEF Posts, LoginPlaces, At, Key

LEMMA ConfirmKeeps ==
    ASSUME AccountInv, NEW r \in Requests, Confirm(r),
           UNCHANGED loginVars, UNCHANGED directoryVars
    PROVE  AccountInv'
<1> USE ActivationAssumption DEF AccountInv, RowsInv, KeysInv
<1>1. /\ ReqTyped /\ OthersWait(r) /\ req[r].at = "confirm"
      /\ req'[r].at = "idle"
  BY DoneMoves DEF Confirm, At, Places, LoginWork, Words
<1>2. RowsTyped /\ RowsWane /\ broken' \subseteq Keys
  <2> DEFINE k == Key(r)
             row == Approved(act[k], req[r].mem)
  <2>1. k \in Keys /\ req[r].mem \in Resets
    BY <1>1 DEF RequestsFit, RequestFits, At
  <2>2. act[k] \in Rows
    BY <2>1 DEF RowTypeOK
  <2>3. row \in Rows /\ row.status = "ok"
    BY <2>1, <2>2 DEF Rows, Approved
  <2>4. UNCHANGED act \/ (act[k].status \in Resets /\ SetRow(k, row))
    BY <2>1 DEF Confirm
  <2>5. broken' = broken /\ broken \subseteq Keys /\ act \in [Keys -> Rows]
    BY DEF Confirm, RowTypeOK
  <2> HIDE DEF k, row
  <2>6. CASE UNCHANGED act
    BY <2>5, <2>6 DEF RowsTyped, RowsWane, Wanes
  <2>7. CASE act[k].status \in Resets /\ SetRow(k, row)
    <3>1. /\ RowsTyped /\ (Exists(k) => act'[k] = row) /\ (~Exists(k) => act'[k] = act[k])
          /\ \A j \in Keys \ {k} : act'[j] = act[j]
      BY <2>1, <2>3, <2>5, <2>7, SetRowWanes DEF RowsTyped
    <3> QED
      BY <2>1, <2>3, <2>5, <2>7, <3>1 DEF RowsWane, Wanes, Live
  <2> QED
    BY <2>4, <2>6, <2>7
<1>3. DevicesTyped /\ KeepsDevices /\ user' \subseteq Users
  BY DEF Confirm, DevicesTyped, KeepsDevices, RowTypeOK
<1>4. RequestFits(r)'
  BY <1>1, <1>2, WaneOnward DEF RequestsFit, RequestFits, LoginWork, At, Key, Known, Settled, Onward
<1> QED
  BY <1>1, <1>2, <1>3, <1>4, WaneOnward, CalmStep DEF Posts, LoginPlaces, At, Key

LEMMA RestoreKeeps ==
    ASSUME AccountInv, NEW r \in Requests, Restore(r),
           UNCHANGED loginVars, UNCHANGED directoryVars
    PROVE  AccountInv'
<1> USE ActivationAssumption DEF AccountInv, RowsInv, KeysInv
<1>1. /\ ReqTyped /\ OthersWait(r) /\ req[r].at = "restore"
      /\ req'[r].at = "idle"
  BY DoneMoves DEF Restore, At, Places, LoginWork, Words
<1>2. RowsTyped /\ RowsWane /\ broken' \subseteq Keys
  <2> DEFINE k == Key(r)
             row == [act[Key(r)] EXCEPT !.status = "ok", !.link = FALSE, !.reset = FALSE]
  <2>1. k \in Keys
    BY <1>1 DEF RequestsFit, RequestFits, At, Settled
  <2>2. act[k] \in Rows
    BY <2>1 DEF RowTypeOK
  <2>3. row \in Rows /\ row.status = "ok"
    BY <1>1, <2>2 DEF Rows
  <2>4. SetRow(k, row)
    BY DEF Restore
  <2> HIDE DEF k, row
  <2>5. /\ RowsTyped /\ (Exists(k) => act'[k] = row) /\ (~Exists(k) => act'[k] = act[k])
        /\ \A j \in Keys \ {k} : act'[j] = act[j]
    BY <2>1, <2>3, <2>4, SetRowWanes DEF RowsTyped, RowTypeOK
  <2>7. act[k].status # "none" /\ act[k].status # "pending"
    BY <1>1 DEF RequestsFit, RequestFits, At, Settled, k
  <2>6. broken \subseteq broken' /\ broken' \subseteq Keys /\ (act[k].status = "expired" => k \in broken')
    BY <2>1 DEF Restore, RowTypeOK, k
  <2> QED
    BY <2>1, <2>3, <2>2, <2>5, <2>6, <2>7 DEF RowsWane, Wanes, Live, Rows, Exists
<1>3. DevicesTyped /\ KeepsDevices /\ user' \subseteq Users
  BY DEF Restore, DevicesTyped, KeepsDevices, RowTypeOK
<1>4. RequestFits(r)'
  BY <1>1, <1>2, WaneOnward DEF RequestsFit, RequestFits, LoginWork, At, Key, Known, Settled, Onward
<1> QED
  BY <1>1, <1>2, <1>3, <1>4, WaneOnward, CalmStep DEF Posts, LoginPlaces, At, Key

LEMMA MarkResetKeeps ==
    ASSUME AccountInv, NEW r \in Requests, MarkReset(r),
           UNCHANGED loginVars, UNCHANGED directoryVars
    PROVE  AccountInv'
<1> USE ActivationAssumption DEF AccountInv, RowsInv, KeysInv
<1>1. /\ ReqTyped /\ OthersWait(r) /\ req[r].at = "mark"
      /\ (req'[r].at = "idle" \/ (req'[r].at = "code" /\ req'[r].key = req[r].key))
  BY DoneMoves, GotoMoves DEF MarkReset, At, Places, LoginWork, Words
<1>2. RowsTyped /\ RowsWane /\ broken' \subseteq Keys
  <2> DEFINE k == Key(r)
  <2>1. k \in Keys /\ act[k].status # "none" /\ act[k].status # "pending" /\ req[r].mem \in Resets
    BY <1>1 DEF RequestsFit, RequestFits, At, Settled
  <2>2. act[k] \in Rows
    BY <2>1 DEF RowTypeOK
  <2>3. \E row \in Rows : row.status \in Resets /\ SetRow(k, row)
    <3>1. PICK wipe \in BOOLEAN : SetRow(k, [act[k] EXCEPT !.status = req[r].mem, !.link = TRUE, !.reset = FALSE, !.wipe = wipe])
      BY DEF MarkReset
    <3> DEFINE row == [act[k] EXCEPT !.status = req[r].mem, !.link = TRUE, !.reset = FALSE, !.wipe = wipe]
    <3>2. row \in Rows /\ row.status = req[r].mem
      BY <2>1, <2>2 DEF Rows
    <3> HIDE DEF row
    <3>3. SetRow(k, row)
      BY <3>1 DEF row
    <3> QED
      BY <2>1, <3>2, <3>3
  <2>4. broken \subseteq broken' /\ broken' \subseteq Keys /\ (act[k].status = "expired" => k \in broken')
    BY <2>1 DEF MarkReset, RowTypeOK
  <2> HIDE DEF k
  <2>5. PICK row \in Rows : row.status \in Resets /\ SetRow(k, row)
    BY <2>3
  <2>6. /\ RowsTyped /\ (Exists(k) => act'[k] = row) /\ (~Exists(k) => act'[k] = act[k])
        /\ \A j \in Keys \ {k} : act'[j] = act[j]
    BY <2>1, <2>5, SetRowWanes DEF RowsTyped, RowTypeOK
  <2> QED
    BY <2>1, <2>2, <2>4, <2>5, <2>6 DEF RowsWane, Wanes, Live, Rows, Exists
<1>3. DevicesTyped /\ KeepsDevices /\ user' \subseteq Users
  BY DEF MarkReset, DevicesTyped, KeepsDevices, RowTypeOK
<1>4. RequestFits(r)'
  BY <1>1, <1>2, WaneOnward DEF RequestsFit, RequestFits, LoginWork, At, Key, Known, Settled, Onward
<1> QED
  BY <1>1, <1>2, <1>3, <1>4, WaneOnward, CalmStep DEF Posts, LoginPlaces, At, Key

LEMMA CreateDeviceKeeps ==
    ASSUME AccountInv, NEW r \in Requests, CreateDevice(r),
           UNCHANGED loginVars, UNCHANGED directoryVars
    PROVE  AccountInv'
<1> USE ActivationAssumption DEF AccountInv, RowsInv, KeysInv
<1>1. /\ ReqTyped /\ OthersWait(r) /\ req[r].at = "create"
      /\ req'[r].at = "idle"
  BY DoneMoves DEF CreateDevice, At, Places, LoginWork, Words
<1>2. RowsTyped /\ RowsWane /\ broken' \subseteq Keys
  BY DEF CreateDevice, RowsTyped, RowsWane, Wanes, RowTypeOK
<1>3. DevicesTyped /\ KeepsDevices /\ user' \subseteq Users
  <2>1. NewDevice \in [row : BOOLEAN, active : BOOLEAN, attempts : Nat] /\ NewDevice.row
    BY DEF NewDevice, NoDevice
  <2> QED
    BY <2>1 DEF CreateDevice, DevicesTyped, KeepsDevices, RowTypeOK
<1>4. RequestFits(r)'
  BY <1>1, <1>2, WaneOnward DEF RequestsFit, RequestFits, LoginWork, At, Key, Known, Settled, Onward
<1> QED
  BY <1>1, <1>2, <1>3, <1>4, WaneOnward, CalmStep DEF Posts, LoginPlaces, At, Key

LEMMA SetActiveKeeps ==
    ASSUME AccountInv, NEW r \in Requests, SetActive(r),
           UNCHANGED loginVars, UNCHANGED directoryVars
    PROVE  AccountInv'
<1> USE ActivationAssumption DEF AccountInv, RowsInv, KeysInv
<1>1. /\ ReqTyped /\ OthersWait(r) /\ req[r].at = "active"
      /\ req'[r].at = "idle"
  BY DoneMoves DEF SetActive, At, Places, LoginWork, Words
<1>2. RowsTyped /\ RowsWane /\ broken' \subseteq Keys
  BY DEF SetActive, RowsTyped, RowsWane, Wanes, RowTypeOK
<1>3. DevicesTyped /\ KeepsDevices /\ user' \subseteq Users
  <2> DEFINE e == req[r].mem = "yes"
             d == [device[Of(r)] EXCEPT !.active = e]
  <2>1. CASE ~device[Of(r)].row
    BY <2>1 DEF SetActive, DevicesTyped, KeepsDevices, RowTypeOK
  <2>2. CASE device[Of(r)].row
    <3>1. device' = [device EXCEPT ![Of(r)] = d]
      BY <2>2 DEF SetActive
    <3>2. Of(r) \in Accounts
      BY <1>1 DEF RequestsFit, RequestFits, At, Of, Key
    <3>3. e \in BOOLEAN
      OBVIOUS
    <3> HIDE DEF e
    <3>4. d \in [row : BOOLEAN, active : BOOLEAN, attempts : Nat] /\ d.row
      BY <2>2, <3>2, <3>3 DEF RowTypeOK
    <3> HIDE DEF d
    <3> QED
      BY <3>1, <3>2, <3>4 DEF SetActive, DevicesTyped, KeepsDevices, RowTypeOK
  <2> QED
    BY <2>1, <2>2
<1>4. RequestFits(r)'
  BY <1>1, <1>2, WaneOnward DEF RequestsFit, RequestFits, LoginWork, At, Key, Known, Settled, Onward
<1> QED
  BY <1>1, <1>2, <1>3, <1>4, WaneOnward, CalmStep DEF Posts, LoginPlaces, At, Key

LEMMA DenyKeeps ==
    ASSUME AccountInv, NEW a, Deny(a), UNCHANGED loginVars, UNCHANGED directoryVars
    PROVE  AccountInv'
<1> USE DEF AccountInv, RowsInv, KeysInv
<1>1. RowsTyped /\ RowsWane
  <2> DEFINE K == {k \in Keys : act[k].status = "pending" /\ Owner[k] = a}
  <2>1. Expire(K) /\ broken' = broken
    BY DEF Deny
  <2>2. \A k \in K : act[k].status # "none" /\ act[k].status # "gone"
    OBVIOUS
  <2> HIDE DEF K
  <2>3. RowsTyped /\ \A k \in Keys : IF k \in K THEN act'[k].status = "expired" ELSE act'[k] = act[k]
    BY SMTT(60), <2>1 DEF Expire, RowsTyped, RowTypeOK, Rows
  <2> QED
    BY <2>1, <2>2, <2>3 DEF RowsWane, Wanes, RowTypeOK
<1>2. DevicesTyped /\ KeepsDevices
  BY DEF Deny, DevicesTyped, KeepsDevices, RowTypeOK
<1>3. user' \subseteq Users /\ broken' \subseteq Keys /\ UNCHANGED <<req, login, copy, given>>
  BY DEF loginVars, Deny, RowTypeOK
<1> QED
  BY <1>1, <1>2, <1>3, QuietStep

LEMMA DenyAllKeeps ==
    ASSUME AccountInv, DenyAll, UNCHANGED loginVars, UNCHANGED directoryVars
    PROVE  AccountInv'
<1> USE DEF AccountInv, RowsInv, KeysInv
<1>1. RowsTyped /\ RowsWane
  <2> DEFINE K == {k \in Keys : act[k].status = "pending"}
  <2>1. Expire(K) /\ broken' = broken
    BY DEF DenyAll
  <2>2. \A k \in K : act[k].status # "none" /\ act[k].status # "gone"
    OBVIOUS
  <2> HIDE DEF K
  <2>3. RowsTyped /\ \A k \in Keys : IF k \in K THEN act'[k].status = "expired" ELSE act'[k] = act[k]
    BY SMTT(60), <2>1 DEF Expire, RowsTyped, RowTypeOK, Rows
  <2> QED
    BY <2>1, <2>2, <2>3 DEF RowsWane, Wanes, RowTypeOK
<1>2. DevicesTyped /\ KeepsDevices
  BY DEF DenyAll, DevicesTyped, KeepsDevices, RowTypeOK
<1>3. user' \subseteq Users /\ broken' \subseteq Keys /\ UNCHANGED <<req, login, copy, given>>
  BY DEF loginVars, DenyAll, RowTypeOK
<1> QED
  BY <1>1, <1>2, <1>3, QuietStep

LEMMA AnswerResetKeeps ==
    ASSUME AccountInv, NEW a, NEW kind \in Resets, NEW yes \in BOOLEAN, AnswerReset(a, kind, yes), UNCHANGED loginVars, UNCHANGED directoryVars
    PROVE  AccountInv'
<1> USE DEF AccountInv, RowsInv, KeysInv
<1>1. RowsTyped /\ RowsWane
  <2>1. broken' = broken
    BY DEF AnswerReset
  <2>2. \A k \in Keys : IF act[k].status = kind /\ Owner[k] = a
          THEN act'[k] \in Rows /\ act'[k].status = "ok" ELSE act'[k] = act[k]
    <3>1. ASSUME NEW k \in Keys, act[k].status = kind, Owner[k] = a
          PROVE  act'[k] \in Rows /\ act'[k].status = "ok"
      <4> DEFINE refused == [act[k] EXCEPT !.status = "ok", !.link = FALSE, !.reset = IF kind = "passcode" THEN FALSE ELSE @]
                 approved == [Approved(act[k], kind) EXCEPT !.link = FALSE]
      <4>1. act[k] \in Rows
        BY DEF RowTypeOK
      <4>2. refused \in Rows /\ refused.status = "ok"
        BY <4>1 DEF Rows
      <4>3. Approved(act[k], kind) \in Rows /\ Approved(act[k], kind).status = "ok"
        BY <4>1 DEF Rows, Approved
      <4>4. approved \in Rows /\ approved.status = "ok"
        BY <4>3 DEF Rows
      <4>5. act'[k] = IF yes THEN approved ELSE refused
        BY <3>1 DEF AnswerReset
      <4> QED
        BY <4>2, <4>4, <4>5
    <3>2. ASSUME NEW k \in Keys, ~(act[k].status = kind /\ Owner[k] = a)
          PROVE  act'[k] = act[k]
      BY <3>2 DEF AnswerReset
    <3> QED
      BY <3>1, <3>2
  <2>3. RowsTyped
    BY <2>2 DEF AnswerReset, RowsTyped, RowTypeOK
  <2> QED
    BY <2>1, <2>2, <2>3 DEF RowsWane, Wanes, Live
<1>2. DevicesTyped /\ KeepsDevices
  BY DEF AnswerReset, DevicesTyped, KeepsDevices, RowTypeOK
<1>3. user' \subseteq Users /\ broken' \subseteq Keys /\ UNCHANGED <<req, login, copy, given>>
  BY DEF loginVars, AnswerReset, RowTypeOK
<1> QED
  BY <1>1, <1>2, <1>3, QuietStep

LEMMA UnlockUserKeeps ==
    ASSUME AccountInv, NEW a, UnlockUser(a), UNCHANGED loginVars, UNCHANGED directoryVars
    PROVE  AccountInv'
<1> USE DEF AccountInv, RowsInv, KeysInv
<1>1. RowsTyped /\ RowsWane
  BY DEF UnlockUser, RowsTyped, RowsWane, Wanes, RowTypeOK
<1>2. DevicesTyped /\ KeepsDevices
  BY DEF UnlockUser, DevicesTyped, KeepsDevices, RowTypeOK
<1>3. user' \subseteq Users /\ broken' \subseteq Keys /\ UNCHANGED <<req, login, copy, given>>
  BY DEF loginVars, UnlockUser, RowTypeOK
<1> QED
  BY <1>1, <1>2, <1>3, QuietStep

LEMMA LinkExpiresKeeps ==
    ASSUME AccountInv, NEW k \in Keys, LinkExpires(k), UNCHANGED loginVars, UNCHANGED directoryVars
    PROVE  AccountInv'
<1> USE DEF AccountInv, RowsInv, KeysInv
<1>1. RowsTyped /\ RowsWane
  <2>1. [act[k] EXCEPT !.link = FALSE] \in Rows
    BY ZenonT(60) DEF RowTypeOK, Rows
  <2> QED
    BY <2>1 DEF LinkExpires, RowsTyped, RowsWane, Wanes, RowTypeOK
<1>2. DevicesTyped /\ KeepsDevices
  BY DEF LinkExpires, DevicesTyped, KeepsDevices, RowTypeOK
<1>3. user' \subseteq Users /\ broken' \subseteq Keys /\ UNCHANGED <<req, login, copy, given>>
  BY DEF loginVars, LinkExpires, RowTypeOK
<1> QED
  BY <1>1, <1>2, <1>3, QuietStep

-----------------------------------------------------------------------------
(* The steps that make a row active or take away what it needs. *)

\* The three parts that such a step has to show itself.
LEMMA RowStep ==
    ASSUME AccountInv, NEW r \in Requests,
           ReqTyped, OthersWait(r), req[r].at \notin {"enrol", "venrol"}, req'[r].at \notin LoginPlaces,
           RowsTyped, Onward, NoneStays(r), DevicesTyped, user' \subseteq Users, broken' \subseteq Keys,
           RequestFits(r)', ~At(r, "insert")',
           ActiveAlone', DeviceThere', UserThere',
           UNCHANGED loginVars, UNCHANGED directoryVars
    PROVE  AccountInv'
<1> USE DEF AccountInv, RowsInv, KeysInv
<1>1. UNCHANGED <<login, copy, given, member, groupApps, catalog, userApp, work, packageLocks>>
  BY DEF loginVars, directoryVars
<1>2. RowTypeOK' /\ LoginTypeOK' /\ DirectoryTypeOK'
  BY <1>1 DEF RowTypeOK, LoginTypeOK, DirectoryTypeOK, RowsTyped, DevicesTyped, ReqTyped
<1>3. RequestsFit'
  BY <1>1, FitsStays
<1>4. LoginsNameRows' /\ RequestsOnlyEnrol' /\ ErasersWalk'
  BY <1>1, LoginsStay, EnrolStays, ErasersStay
<1>5. FactorsEarned' /\ PackagesLocked'
  BY <1>1, FactorsStay, PackagesStay DEF OthersWait
<1> QED
  BY <1>2, <1>3, <1>4, <1>5

LEMMA AloneMoves ==
    ASSUME ActiveAlone, NEW r \in Requests, OthersWait(r), req[r].at # "others",
           \A k \in Keys : Active(k)' => Active(k)
    PROVE  ActiveAlone'
BY DEF ActiveAlone, OthersWait, At, Key

LEMMA ThereMoves ==
    ASSUME DeviceThere, NEW r \in Requests, OthersWait(r), \A u : Erased(u)' <=> Erased(u),
           \A k \in Keys : Active(k)' => Active(k),
           \A k \in Keys : Active(k)' /\ (Making(r, k) \/ (At(r, "rows") /\ Of(r) = Owner[k])) =>
               device'[Owner[k]].row \/ Making(r, k)',
           \A k \in Keys : device[Owner[k]].row => device'[Owner[k]].row \/ (At(r, "rows") /\ Of(r) = Owner[k])'
    PROVE  DeviceThere'
<1>1. ASSUME NEW k \in Keys, Active(k)'
      PROVE  (\/ device[Owner[k]].row \/ Erased(Owner[k][1])
              \/ \E q \in Requests : Making(q, k) \/ (At(q, "rows") /\ Of(q) = Owner[k]))'
  <2>1. CASE device[Owner[k]].row
    BY <2>1
  <2>2. CASE Erased(Owner[k][1])
    BY <2>2
  <2>3. ASSUME NEW q \in Requests, Making(q, k) \/ (At(q, "rows") /\ Of(q) = Owner[k])
        PROVE  device'[Owner[k]].row \/ (Making(q, k) \/ (At(q, "rows") /\ Of(q) = Owner[k]))'
    <3>1. CASE q = r
      BY <1>1, <2>3, <3>1
    <3>2. CASE q # r
      BY <2>3, <3>2 DEF OthersWait, Making, At, Key, Of
    <3> QED
      BY <3>1, <3>2
  <2> QED
    BY <1>1, <2>1, <2>2, <2>3 DEF DeviceThere
<1> QED
  BY <1>1 DEF DeviceThere

LEMMA UsersMove ==
    ASSUME UserThere, NEW r \in Requests, OthersWait(r), \A u : Erased(u)' <=> Erased(u), user \subseteq user',
           \A k \in Keys : (Active(k)' => Active(k)) /\ (Exists(k)' /\ k \notin broken' => Exists(k) /\ k \notin broken),
           RequestsFit, req'[r].at \notin {"enrol", "activate"}
    PROVE  UserThere'
<1>1. ASSUME NEW k \in Keys, Active(k)' PROVE Owner[k][1] \in user' \/ Erased(Owner[k][1])'
  BY <1>1 DEF UserThere
<1>2. ASSUME NEW q \in Requests, req'[q].at \in {"enrol", "activate"}, (Exists(Key(q)) /\ Key(q) \notin broken)'
      PROVE  Of(q)'[1] \in user' \/ Erased(Of(q)[1])'
  <2>1. q # r /\ req'[q] = req[q]
    BY <1>2 DEF OthersWait
  <2>2. Key(q) \in Keys /\ Key(q)' = Key(q)
    BY <1>2, <2>1 DEF RequestsFit, RequestFits, At, Key
  <2>3. Exists(Key(q)) /\ Key(q) \notin broken
    BY <1>2, <2>2 DEF Exists
  <2> QED
    BY <1>2, <2>1, <2>3 DEF UserThere, Of
<1> QED
  BY <1>1, <1>2 DEF UserThere

LEMMA CreateUserKeeps ==
    ASSUME AccountInv, NEW r \in Requests, CreateUser(r), UNCHANGED loginVars, UNCHANGED directoryVars
    PROVE  AccountInv'
<1> USE ActivationAssumption DEF AccountInv, RowsInv, KeysInv
<1>1. /\ ReqTyped /\ OthersWait(r) /\ req[r].at = "user"
      /\ req'[r].at \in {"activate", "enrol"} /\ req'[r].key = req[r].key
  BY GotoMoves DEF CreateUser, At, Places, LoginWork, Words
<1>2. RowsTyped /\ Onward /\ NoneStays(r) /\ broken' \subseteq Keys
  BY <1>1 DEF CreateUser, RowsTyped, Onward, NoneStays, Known, Settled, RowTypeOK
<1>3. DevicesTyped /\ user' \subseteq Users
  BY <1>1 DEF CreateUser, DevicesTyped, RowTypeOK, RequestsFit, RequestFits, At, Of, Key, Accounts
<1>4. \A u : Erased(u)' <=> Erased(u)
  BY DEF directoryVars, Erased, Op
<1>5. ActiveAlone'
  BY <1>1 DEF CreateUser, ActiveAlone, Active, OthersWait, At, Key
<1>6. DeviceThere'
  <2>1. UNCHANGED <<act, broken, device>>
    BY DEF CreateUser
  <2>2. ~At(r, "rows") /\ \A k : ~Making(r, k)
    BY <1>1 DEF Making, At
  <2> QED
    BY <1>1, <1>4, <2>1, <2>2, ThereMoves DEF Active
<1>7. UserThere'
  BY <1>1, <1>4 DEF CreateUser, UserThere, Active, OthersWait, At, Key, Of, Exists
<1>8. RequestFits(r)' /\ ~At(r, "insert")' /\ req'[r].at \notin LoginPlaces
  BY <1>1, <1>2 DEF RequestsFit, RequestFits, LoginWork, At, Key, Known, Settled, Onward, LoginPlaces
<1> QED
  BY <1>1, <1>2, <1>3, <1>5, <1>6, <1>7, <1>8, RowStep

LEMMA LoadDeviceKeeps ==
    ASSUME AccountInv, NEW r \in Requests, LoadDevice(r), UNCHANGED loginVars, UNCHANGED directoryVars
    PROVE  AccountInv'
<1> USE ActivationAssumption DEF AccountInv, RowsInv, KeysInv
<1>1. /\ ReqTyped /\ OthersWait(r) /\ req[r].at = "load"
      /\ req'[r].at = "write" /\ req'[r].key = req[r].key
      /\ (~device[Of(r)].row => req'[r].mem = "")
  <2>1. (IF device[Of(r)].row THEN "found" ELSE "") \in Words
    BY DEF Words
  <2> QED
    BY ZenonT(60), <2>1 DEF LoadDevice, At, Places, LoginWork, RowTypeOK, ReqTyped, OthersWait
<1>2. RowsTyped /\ Onward /\ NoneStays(r) /\ broken' \subseteq Keys
  BY <1>1 DEF LoadDevice, RowsTyped, Onward, NoneStays, Known, Settled, RowTypeOK
<1>3. DevicesTyped /\ user' \subseteq Users
  BY DEF LoadDevice, DevicesTyped, RowTypeOK
<1>4. \A u : Erased(u)' <=> Erased(u)
  BY DEF directoryVars, Erased, Op
<1>5. ActiveAlone'
  <2>1. UNCHANGED <<act, broken>>
    BY DEF LoadDevice
  <2> QED
    BY <1>1, <2>1, AloneMoves DEF Active
<1>6. DeviceThere'
  <2>1. UNCHANGED <<act, broken, device>>
    BY DEF LoadDevice
  <2>2. ~At(r, "rows") /\ \A k : Making(r, k) => Of(r) = Owner[k] /\ (~device[Of(r)].row => Making(r, k)')
    BY <1>1 DEF Making, At, Key, Of
  <2>3. \A k \in Keys : Active(k)' => Active(k)
    BY <2>1 DEF Active
  <2> QED
    BY <1>1, <1>4, <2>1, <2>2, <2>3, ThereMoves
<1>7. UserThere'
  <2>1. UNCHANGED <<act, broken, user>>
    BY DEF LoadDevice
  <2> QED
    BY <1>1, <1>4, <2>1, UsersMove DEF Active, Exists
<1>8. RequestFits(r)' /\ ~At(r, "insert")' /\ req'[r].at \notin LoginPlaces
  BY <1>1, <1>2 DEF RequestsFit, RequestFits, LoginWork, At, Key, Known, Settled, Onward, LoginPlaces
<1> QED
  BY <1>1, <1>2, <1>3, <1>5, <1>6, <1>7, <1>8, RowStep

LEMMA WriteDeviceKeeps ==
    ASSUME AccountInv, NEW r \in Requests, WriteDevice(r), UNCHANGED loginVars, UNCHANGED directoryVars
    PROVE  AccountInv'
<1> USE ActivationAssumption DEF AccountInv, RowsInv, KeysInv
<1>1. /\ ReqTyped /\ OthersWait(r) /\ req[r].at = "write"
      /\ req'[r].at = "idle"
  BY DoneMoves DEF WriteDevice, At
<1>2. RowsTyped /\ Onward /\ NoneStays(r) /\ broken' \subseteq Keys
  BY <1>1 DEF WriteDevice, RowsTyped, Onward, NoneStays, Known, Settled, RowTypeOK
<1>3. DevicesTyped /\ user' \subseteq Users
  <2>1. NewDevice \in [row : BOOLEAN, active : BOOLEAN, attempts : Nat]
    BY DEF NewDevice, NoDevice
  <2> QED
    BY <2>1 DEF WriteDevice, DevicesTyped, RowTypeOK
<1>4. \A u : Erased(u)' <=> Erased(u)
  BY DEF directoryVars, Erased, Op
<1>5. ActiveAlone'
  <2>1. UNCHANGED <<act, broken>>
    BY DEF WriteDevice
  <2> QED
    BY <1>1, <2>1, AloneMoves DEF Active
<1>6. DeviceThere'
  <2>1. NewDevice.row /\ Of(r) \in Accounts
    BY <1>1 DEF NewDevice, NoDevice, RequestsFit, RequestFits, At, Of, Key
  <2>2. \A a \in Accounts : device[a].row => device'[a].row
    BY <2>1 DEF WriteDevice, RowTypeOK
  <2>3. req[r].mem = "" => device'[Of(r)].row
    BY <2>1 DEF WriteDevice, RowTypeOK
  <2> QED
    <3>1. UNCHANGED <<act, broken>>
      BY DEF WriteDevice
    <3>2. ~At(r, "rows") /\ \A k : Making(r, k) => Of(r) = Owner[k] /\ req[r].mem = ""
      BY <1>1 DEF Making, At, Key, Of
    <3>3. \A k \in Keys : (Active(k)' => Active(k)) /\ Owner[k] \in Accounts
      BY <3>1 DEF Active
    <3> QED
      BY <1>1, <1>4, <2>2, <2>3, <3>2, <3>3, ThereMoves
<1>7. UserThere'
  <2>1. UNCHANGED <<act, broken, user>>
    BY DEF WriteDevice
  <2> QED
    BY <1>1, <1>4, <2>1, UsersMove DEF Active, Exists
<1>8. RequestFits(r)' /\ ~At(r, "insert")' /\ req'[r].at \notin LoginPlaces
  BY <1>1, <1>2 DEF RequestsFit, RequestFits, LoginWork, At, Key, Known, Settled, Onward, LoginPlaces
<1> QED
  BY <1>1, <1>2, <1>3, <1>5, <1>6, <1>7, <1>8, RowStep

LEMMA SetOkKeeps ==
    ASSUME AccountInv, NEW r \in Requests, SetOk(r), UNCHANGED loginVars, UNCHANGED directoryVars
    PROVE  AccountInv'
<1> USE ActivationAssumption DEF AccountInv, RowsInv, KeysInv
<1>1. /\ ReqTyped /\ OthersWait(r) /\ req[r].at = "activate"
      /\ req'[r].at = "others" /\ req'[r].key = req[r].key
  BY GotoMoves DEF SetOk, At, Places, LoginWork, Words
<1>2. RowsTyped /\ Onward /\ NoneStays(r) /\ broken' \subseteq Keys
  <2> DEFINE k == Key(r)
             row == [act[Key(r)] EXCEPT !.status = "ok"]
  <2>1. k \in Keys
    BY <1>1 DEF RequestsFit, RequestFits, At
  <2>2. act[k] \in Rows
    BY <2>1 DEF RowTypeOK
  <2>3. row \in Rows /\ row.status = "ok"
    BY <1>1, <2>2 DEF Rows
  <2>4. SetRow(k, row)
    BY DEF SetOk
  <2> HIDE DEF k, row
  <2>5. /\ RowsTyped /\ (Exists(k) => act'[k] = row) /\ (~Exists(k) => act'[k] = act[k])
        /\ \A j \in Keys \ {k} : act'[j] = act[j]
    BY <2>1, <2>3, <2>4, SetRowWanes DEF RowsTyped, RowTypeOK
  <2>6. broken' = broken /\ broken' \subseteq Keys
    BY <2>1 DEF SetOk, RowTypeOK
  <2> QED
    BY <2>1, <2>3, <2>5, <2>6 DEF Onward, NoneStays, Known, Settled, Exists
<1>3. DevicesTyped /\ user' \subseteq Users
  BY DEF SetOk, DevicesTyped, RowTypeOK
<1>4. \A u : Erased(u)' <=> Erased(u)
  BY DEF directoryVars, Erased, Op
<1>5. ActiveAlone'
  <2>2. \A j \in Keys \ {Key(r)} : act'[j] = act[j]
    BY DEF SetOk, SetRow, RowTypeOK
  <2>3. broken' = broken
    BY DEF SetOk
  <2> QED
    BY <1>1, <2>2, <2>3 DEF ActiveAlone, Active, OthersWait, At, Key
<1>6. DeviceThere'
  <2>2. \A j \in Keys \ {Key(r)} : act'[j] = act[j]
    BY DEF SetOk, SetRow, RowTypeOK
  <2>3. broken' = broken /\ device' = device
    BY DEF SetOk
  <2>4. \A k \in Keys : (k # Key(r) /\ Active(k)' => Active(k)) /\ (k = Key(r) => Making(r, k)')
    BY <1>1, <2>2, <2>3 DEF Active, Making, Key
  <2>5. \A q \in Requests \ {r} : req'[q] = req[q]
    BY <1>1 DEF OthersWait
  <2>6. ASSUME NEW k \in Keys, Active(k)', k # Key(r)
        PROVE  (\/ device[Owner[k]].row \/ Erased(Owner[k][1])
                \/ \E q \in Requests : Making(q, k) \/ (At(q, "rows") /\ Of(q) = Owner[k]))'
    <3>1. ASSUME NEW q \in Requests, Making(q, k) \/ (At(q, "rows") /\ Of(q) = Owner[k])
          PROVE  (Making(q, k) \/ (At(q, "rows") /\ Of(q) = Owner[k]))'
      BY <1>1, <2>5, <3>1 DEF Making, At, Key, Of
    <3> QED
      BY <1>4, <2>3, <2>4, <2>6, <3>1 DEF DeviceThere
  <2> QED
    BY <2>4, <2>6 DEF DeviceThere
<1>7. UserThere'
  <2>2. \A j \in Keys \ {Key(r)} : act'[j] = act[j]
    BY DEF SetOk, SetRow, RowTypeOK
  <2>3. broken' = broken /\ user' = user
    BY DEF SetOk
  <2>4. Exists(Key(r)) <=> Exists(Key(r))'
    BY <1>1 DEF SetOk, SetRow, RowTypeOK, Exists, Key
  <2>5. Active(Key(r))' => Exists(Key(r)) /\ Key(r) \notin broken
    BY <1>1, <2>3, <2>4 DEF Active, Exists, Key, Resets
  <2>6. ASSUME NEW k \in Keys, Active(k)' PROVE Owner[k][1] \in user' \/ Erased(Owner[k][1])'
    BY <1>1, <1>4, <2>2, <2>3, <2>5, <2>6 DEF UserThere, Active, Of, Key
  <2>7. ASSUME NEW q \in Requests, (req[q].at \in {"enrol", "activate"} /\ Exists(Key(q)) /\ Key(q) \notin broken)'
        PROVE  Of(q)'[1] \in user' \/ Erased(Of(q)[1])'
    <3>1. q # r /\ req'[q] = req[q] /\ Key(q) \in Keys
      BY <1>1, <2>7 DEF OthersWait, RequestsFit, RequestFits, At
    <3>2. Exists(Key(q))
      BY <1>1, <2>2, <2>4, <2>7, <3>1 DEF Exists, Key
    <3> QED
      BY <1>1, <1>4, <2>3, <2>7, <3>1, <3>2 DEF UserThere, Of, Key
  <2> QED
    BY <2>6, <2>7 DEF UserThere
<1>8. RequestFits(r)' /\ ~At(r, "insert")' /\ req'[r].at \notin LoginPlaces
  BY <1>1, <1>2 DEF RequestsFit, RequestFits, LoginWork, At, Key, Known, Settled, Onward, LoginPlaces, Exists
<1> QED
  BY <1>1, <1>2, <1>3, <1>5, <1>6, <1>7, <1>8, RowStep

LEMMA DeleteDeviceKeeps ==
    ASSUME AccountInv, NEW r \in Requests, NEW k \in Keys, DeleteDevice(r, k), UNCHANGED loginVars, UNCHANGED directoryVars
    PROVE  AccountInv'
<1> USE ActivationAssumption DEF AccountInv, RowsInv, KeysInv
<1>1. /\ ReqTyped /\ OthersWait(r) /\ req[r].at = "idle"
      /\ req'[r].at = "rows" /\ req'[r].key = k
  <2>1. Begin(r, k, "rows", "")
    BY DEF DeleteDevice
  <2>2. "rows" \in Places /\ "" \in Words
    BY DEF Places, LoginWork, Words
  <2> QED
    BY ZenonT(60), <2>1, <2>2, BeginMoves
<1>2. RowsTyped /\ Onward /\ NoneStays(r) /\ broken' \subseteq Keys
  BY <1>1 DEF DeleteDevice, RowsTyped, Onward, NoneStays, Known, Settled, RowTypeOK
<1>3. DevicesTyped /\ user' \subseteq Users
  <2>1. NoDevice \in [row : BOOLEAN, active : BOOLEAN, attempts : Nat]
    BY DEF NoDevice
  <2> QED
    BY <2>1 DEF DeleteDevice, DevicesTyped, RowTypeOK
<1>4. \A u : Erased(u)' <=> Erased(u)
  BY DEF directoryVars, Erased, Op
<1>5. ActiveAlone'
  <2>1. UNCHANGED <<act, broken>>
    BY DEF DeleteDevice
  <2> QED
    BY <1>1, <2>1, AloneMoves DEF Active
<1>6. DeviceThere'
  <2>1. \A a \in Accounts \ {Owner[k]} : device'[a] = device[a]
    BY DEF DeleteDevice, RowTypeOK
  <2>2. Of(r)' = Owner[k]
    BY <1>1 DEF Of
  <2>3. \A q \in Requests \ {r} : req'[q] = req[q]
    BY <1>1 DEF OthersWait
  <2>4. UNCHANGED <<act, broken>>
    BY DEF DeleteDevice
  <2> QED
    <3>1. \A j \in Keys : (Active(j)' => Active(j)) /\ Owner[j] \in Accounts
      BY <2>4 DEF Active
    <3>2. At(r, "rows")' /\ ~At(r, "rows") /\ \A j : ~Making(r, j)
      BY <1>1 DEF Making, At
    <3> QED
      BY <1>1, <1>4, <2>1, <2>2, <3>1, <3>2, ThereMoves
<1>7. UserThere'
  <2>1. UNCHANGED <<act, broken, user>>
    BY DEF DeleteDevice
  <2> QED
    BY <1>1, <1>4, <2>1, UsersMove DEF Active, Exists
<1>8. RequestFits(r)' /\ ~At(r, "insert")' /\ req'[r].at \notin LoginPlaces
  BY <1>1, <1>2 DEF RequestsFit, RequestFits, LoginWork, At, Key, Known, Settled, Onward, LoginPlaces
<1> QED
  BY <1>1, <1>2, <1>3, <1>5, <1>6, <1>7, <1>8, RowStep

LEMMA DeleteRowsKeeps ==
    ASSUME AccountInv, NEW r \in Requests, DeleteRows(r), UNCHANGED loginVars, UNCHANGED directoryVars
    PROVE  AccountInv'
<1> USE ActivationAssumption DEF AccountInv, RowsInv, KeysInv
<1>1. /\ ReqTyped /\ OthersWait(r) /\ req[r].at = "rows"
      /\ req'[r].at = "idle"
  BY DoneMoves DEF DeleteRows, At
<1>2. RowsTyped /\ Onward /\ NoneStays(r) /\ broken' \subseteq Keys
  <2>1. [NoRow EXCEPT !.status = "gone"] \in Rows
    BY DEF NoRow, Rows
  <2>2. \A k \in Keys : IF Exists(k) /\ Owner[k] = Of(r) THEN act'[k].status = "gone" ELSE act'[k] = act[k]
    BY DEF DeleteRows, NoRow
  <2> QED
    BY <1>1, <2>1, <2>2 DEF DeleteRows, RowsTyped, Onward, NoneStays, Known, Settled, Exists, RowTypeOK
<1>3. DevicesTyped /\ user' \subseteq Users
  BY DEF DeleteRows, DevicesTyped, RowTypeOK
<1>4. \A u : Erased(u)' <=> Erased(u)
  BY DEF directoryVars, Erased, Op
<1>5. ActiveAlone'
  <2>2. \A k \in Keys : Active(k)' => Active(k)
    BY DEF DeleteRows, NoRow, Active, Resets, RowTypeOK
  <2> QED
    BY <1>1, <2>2 DEF ActiveAlone, OthersWait, At, Key
<1>6. DeviceThere'
  <2>2. \A k \in Keys : Active(k)' => Active(k) /\ Owner[k] # Of(r)
    BY DEF DeleteRows, NoRow, Active, Resets, RowTypeOK, Exists
  <2>3. device' = device
    BY DEF DeleteRows
  <2>5. \A k : ~Making(r, k)
    BY <1>1 DEF Making, At
  <2> QED
    BY <1>1, <1>4, <2>2, <2>3, <2>5, ThereMoves
<1>7. UserThere'
  <2>2. \A k \in Keys : (Active(k)' => Active(k)) /\ (Exists(k)' => Exists(k))
    BY DEF DeleteRows, NoRow, Active, Resets, RowTypeOK, Exists
  <2>3. UNCHANGED <<user, broken>>
    BY DEF DeleteRows
  <2>4. \A q \in Requests : req'[q].at \in {"enrol", "activate"} => req'[q] = req[q] /\ req[q].key \in Keys
    BY <1>1 DEF OthersWait, RequestsFit, RequestFits, LoginWork, At, Key
  <2>5. \A q \in Requests : req'[q].at \in {"enrol", "activate"} /\ (Exists(Key(q)))' => Exists(Key(q))
    BY <2>2, <2>4 DEF Key, Exists
  <2> QED
    BY <1>1, <1>4, <2>2, <2>3, <2>4, <2>5 DEF UserThere, Of, Key
<1>8. RequestFits(r)' /\ ~At(r, "insert")' /\ req'[r].at \notin LoginPlaces
  BY <1>1, <1>2 DEF RequestsFit, RequestFits, LoginWork, At, Key, Known, Settled, Onward, LoginPlaces
<1> QED
  BY <1>1, <1>2, <1>3, <1>5, <1>6, <1>7, <1>8, RowStep

\* Each other row of the device expires, or is broken.
LEMMA OthersExpire ==
    ASSUME RowTypeOK, NEW r \in Requests, ExpireOthers(r)
    PROVE  /\ broken \subseteq broken'
           /\ \A k \in Keys : \/ act'[k] = act[k] /\ (k \in OnSameDevice(r) => k \in broken')
                              \/ Exists(k) /\ act[k].status # "none" /\ act'[k].status = "expired"
<1>1. ASSUME NEW k \in Keys
      PROVE  \/ act'[k] = act[k] /\ (k \in OnSameDevice(r) => k \in broken')
             \/ k \in OnSameDevice(r) /\ act'[k] = [act[k] EXCEPT !.status = "expired", !.push = FALSE]
  BY DEF ExpireOthers
<1>2. \A k \in Keys : [act[k] EXCEPT !.status = "expired", !.push = FALSE].status = "expired"
  BY DEF RowTypeOK, Rows
<1>3. \A k \in OnSameDevice(r) : Exists(k)
  BY DEF OnSameDevice
<1>4. broken \subseteq broken'
  BY DEF ExpireOthers
<1> QED
  BY <1>1, <1>2, <1>3, <1>4 DEF Exists

LEMMA ExpireOthersKeeps ==
    ASSUME AccountInv, NEW r \in Requests, ExpireOthers(r), UNCHANGED loginVars, UNCHANGED directoryVars
    PROVE  AccountInv'
<1> USE ActivationAssumption DEF AccountInv, RowsInv, KeysInv
<1>1. /\ ReqTyped /\ OthersWait(r) /\ req[r].at = "others"
      /\ req'[r].at = "load" /\ req'[r].key = req[r].key
  BY GotoMoves DEF ExpireOthers, At, Places, LoginWork, Words
<1>2. RowsTyped /\ Onward /\ NoneStays(r) /\ broken' \subseteq Keys
  <2> DEFINE K == OnSameDevice(r)
  <2>1. \A k \in K : k \in Keys /\ act[k].status # "none" /\ act[k].status # "gone"
    BY DEF OnSameDevice, Exists
  <2> HIDE DEF K
  <2>2. RowsTyped /\ \A k \in Keys : act'[k] = act[k] \/ (k \in K /\ act'[k].status = "expired")
    <3>1. \A k \in Keys : act'[k] = act[k] \/ (k \in K /\ act'[k] = [act[k] EXCEPT !.status = "expired", !.push = FALSE])
      BY DEF ExpireOthers, K, RowTypeOK
    <3>2. \A k \in Keys : [act[k] EXCEPT !.status = "expired", !.push = FALSE] \in Rows
                          /\ [act[k] EXCEPT !.status = "expired", !.push = FALSE].status = "expired"
      BY ZenonT(60) DEF RowTypeOK, Rows
    <3>5. \A k \in Keys : act'[k] \in Rows
      BY ZenonT(60), <3>1, <3>2 DEF RowTypeOK
    <3>3. \A k \in Keys : act'[k] = act[k] \/ (k \in K /\ act'[k].status = "expired")
      BY <3>1, <3>2
    <3>4. act' = [k \in Keys |-> act'[k]]
      BY DEF ExpireOthers, RowTypeOK
    <3> QED
      BY <3>3, <3>4, <3>5 DEF RowsTyped
  <2>3. broken \subseteq broken' /\ broken' \subseteq Keys
    BY DEF ExpireOthers, RowTypeOK, OnSameDevice
  <2> QED
    BY <1>1, <2>1, <2>2, <2>3 DEF Onward, NoneStays, Known, Settled, RowTypeOK
<1>3. DevicesTyped /\ user' \subseteq Users
  BY DEF ExpireOthers, DevicesTyped, RowTypeOK
<1>4. \A u : Erased(u)' <=> Erased(u)
  BY DEF directoryVars, Erased, Op
<1>5. ActiveAlone'
  <2>1. \A k \in Keys : (Active(k)' => Active(k)) /\ (Active(k)' => k \notin OnSameDevice(r))
    BY OthersExpire DEF Active, Resets
  <2>2. ASSUME ~AllowMultipleUsersPerDevice, NEW j \in Keys, NEW k \in Keys, j # k, Active(j)', Active(k)',
               Owner[j][2] = Owner[k][2]
        PROVE  \E q \in Requests : At(q, "others")' /\ Key(q)' \in {j, k}
    <3>1. Active(j) /\ Active(k)
      BY <2>1, <2>2
    <3>2. PICK q \in Requests : At(q, "others") /\ Key(q) \in {j, k}
      BY <2>2, <3>1 DEF ActiveAlone
    <3>3. CASE q = r
      <4>1. j \in OnSameDevice(r) \/ k \in OnSameDevice(r)
        BY <2>2, <3>1, <3>2, <3>3 DEF OnSameDevice, Active, Exists, Resets, Of, Key
      <4> QED
        BY <2>1, <2>2, <4>1
    <3>4. CASE q # r
      BY <1>1, <3>2, <3>4 DEF OthersWait, At, Key
    <3> QED
      BY <3>3, <3>4
  <2> QED
    BY <2>2 DEF ActiveAlone
<1>6. DeviceThere'
  <2>1. \A k \in Keys : Active(k)' => Active(k)
    BY OthersExpire DEF Active, Resets
  <2>2. device' = device
    BY DEF ExpireOthers
  <2>3. ~At(r, "rows") /\ \A k : Making(r, k) => Making(r, k)'
    BY <1>1 DEF Making, At, Key
  <2> QED
    BY <1>1, <1>4, <2>1, <2>2, <2>3, ThereMoves
<1>7. UserThere'
  <2>1. \A k \in Keys : (Active(k)' => Active(k)) /\ (Exists(k)' /\ k \notin broken' => Exists(k) /\ k \notin broken)
    BY OthersExpire DEF Active, Exists, Resets
  <2>3. user' = user
    BY DEF ExpireOthers
  <2>4. \A q \in Requests : req'[q].at \in {"enrol", "activate"} => req'[q] = req[q] /\ req[q].key \in Keys
    BY <1>1 DEF OthersWait, RequestsFit, RequestFits, LoginWork, At, Key
  <2>5. \A q \in Requests : req'[q].at \in {"enrol", "activate"} /\ (Exists(Key(q)) /\ Key(q) \notin broken)'
                               => Exists(Key(q)) /\ Key(q) \notin broken
    BY <2>1, <2>4 DEF Key, Exists
  <2> QED
    BY <1>1, <1>4, <2>1, <2>3, <2>4, <2>5 DEF UserThere, Of, Key
<1>8. RequestFits(r)' /\ ~At(r, "insert")' /\ req'[r].at \notin LoginPlaces
  BY <1>1, <1>2 DEF RequestsFit, RequestFits, LoginWork, At, Key, Known, Settled, Onward, LoginPlaces
<1> QED
  BY <1>1, <1>2, <1>3, <1>5, <1>6, <1>7, <1>8, RowStep

-----------------------------------------------------------------------------
(* The steps of Login. *)
CopyRec == [token : Tokens \cup {Nothing.token}, login : Logins, attempts : Nat, right : BOOLEAN]

\* A login names a row that was active once, and a copy has what was given.
Named(l) == (l.key # "none" => Settled(l.key)) /\ (l.live => l.key # "none")
CopyFine(r) ==
    /\ Named(copy[r].login)
    /\ copy[r].token \in Tokens =>
          /\ Earned(copy[r].login, copy[r].token)
          /\ req[r].at \in {"pright", "sclear"} => "passcode" \in given[copy[r].token]
          /\ req[r].at \in {"token", "second"} => "second" \in given[copy[r].token]
    /\ req[r].at \in {"vuser", "venrol", "vdevice", "vsave"} =>
          ~copy[r].login.password /\ ~copy[r].login.second

\* What a step does to the logins, to the copy of its handler, to the history,
\* to the rows and to the place of its handler.
LoginsFine ==
    /\ login' \in [Tokens -> Logins]
    /\ \A t \in Tokens : Named(login[t])' /\ Earned(login[t], t)'
CopiesFine(r) ==
    /\ copy' \in [Requests -> CopyRec]
    /\ \A q \in Requests \ {r} : copy'[q] = copy[q]
    /\ CopyFine(r)'
GivenFine ==
    /\ given' \in [Tokens -> SUBSET {"passcode", "second"}]
    /\ \A t \in Tokens : given[t] \subseteq given'[t]
RowsFine(r) ==
    /\ RowsTyped /\ Onward /\ KeepsActive /\ NoneStays(r)
    /\ DevicesTyped /\ KeepsDevices /\ user' \subseteq Users /\ broken' \subseteq Keys
Moves(r) == ReqTyped /\ OthersWait(r) /\ RequestFits(r)' /\ req'[r].at \notin Posts \cup {"insert"}

LEMMA LoginMoves ==
    ASSUME AccountInv, NEW r \in Requests, req[r].at \notin Posts \cup {"venrol"},
           LoginsFine, CopiesFine(r), GivenFine, RowsFine(r), Moves(r), UNCHANGED directoryVars
    PROVE  AccountInv'
<1>1. LoginTypeOK'
  BY DEF LoginsFine, CopiesFine, GivenFine, LoginTypeOK, CopyRec
<1>2. ASSUME NEW q \in Requests PROVE CopyFine(q)'
  <2>1. CASE q = r
    BY <2>1 DEF CopiesFine
  <2>2. CASE q # r
    <3>1. CopyFine(q)
      BY DEF CopyFine, Named, AccountInv, RowsInv, KeysInv, LoginsNameRows, FactorsEarned
    <3>2. copy'[q] = copy[q] /\ req'[q] = req[q]
      BY <2>2 DEF CopiesFine, Moves, OthersWait
    <3>3. \A k : Settled(k) => Settled(k)'
      BY DEF RowsFine, Onward, Settled
    <3> QED
      BY <3>1, <3>2, <3>3 DEF CopyFine, Named, Earned, GivenFine
  <2> QED
    BY <2>1, <2>2
<1>3. LoginsNameRows' /\ FactorsEarned'
  BY <1>2 DEF LoginsFine, CopyFine, Named, LoginsNameRows, FactorsEarned
<1>4. req[r].at \notin {"enrol", "venrol"} /\ req[r].at \notin {"rows", "others", "load", "write"}
      /\ req'[r].at \notin Posts /\ ~At(r, "insert")'
  BY DEF Moves, Posts, At
<1> QED
  BY <1>1, <1>3, <1>4, HandlerStep DEF CopiesFine, RowsFine, Moves

\* What holds of a handler that works on a login.
LEMMA CopyIs ==
    ASSUME AccountInv, NEW r \in Requests, req[r].at \in LoginWork
    PROVE  /\ copy[r] \in CopyRec /\ copy \in [Requests -> CopyRec] /\ CopyFine(r)
           /\ Settled(Row(r)) /\ Row(r) \in Keys /\ Account(r) \in Accounts /\ User(r) \in Users
           /\ Key(r) \in Keys
<1>1. copy \in [Requests -> CopyRec]
  BY DEF AccountInv, RowsInv, KeysInv, LoginTypeOK, CopyRec
<1>2. CopyFine(r)
  BY DEF CopyFine, Named, AccountInv, RowsInv, KeysInv, LoginsNameRows, FactorsEarned
<1>3. Settled(Row(r)) /\ Row(r) \in Keys /\ Key(r) \in Keys
  BY DEF AccountInv, RowsInv, KeysInv, RequestsFit, RequestFits, Settled, LoginWork, At
<1>4. Account(r) \in Accounts /\ User(r) \in Users
  BY <1>3, ActivationAssumption DEF Accounts, Account, User, Row
<1> QED
  BY <1>1, <1>2, <1>3, <1>4

\* Rows.
LEMMA NoRowMoves ==
    ASSUME AccountInv, UNCHANGED act, UNCHANGED broken, DevicesTyped, KeepsDevices, user' \subseteq Users
    PROVE  \A r : RowsFine(r)
BY DEF RowsFine, RowsTyped, Onward, KeepsActive, NoneStays, Known, Settled, Active, Exists,
       AccountInv, RowsInv, KeysInv, RowTypeOK

LEMMA SameRowsFine ==
    ASSUME AccountInv, UNCHANGED <<act, device, user, broken>>
    PROVE  \A r : RowsFine(r)
BY NoRowMoves DEF DevicesTyped, KeepsDevices, AccountInv, RowsInv, KeysInv, RowTypeOK

LEMMA DetailsSet ==
    ASSUME AccountInv, NEW k \in Keys, NEW row \in Rows, row.status = act[k].status, SetRow(k, row),
           UNCHANGED <<device, user, broken>>
    PROVE  \A r : RowsFine(r)
<1> USE DEF AccountInv, RowsInv, KeysInv
<1>1. /\ RowsTyped /\ (Exists(k) => act'[k] = row) /\ (~Exists(k) => act'[k] = act[k])
      /\ \A j \in Keys \ {k} : act'[j] = act[j]
  BY SetRowWanes DEF RowsTyped, RowTypeOK
<1>2. RowsWane
  BY <1>1 DEF RowsWane, Wanes
<1> QED
  BY <1>1, <1>2, WaneOnward DEF RowsFine, DevicesTyped, KeepsDevices, RowTypeOK

LEMMA AttemptsSet ==
    ASSUME AccountInv, NEW a, NEW n \in Nat, device' = [device EXCEPT ![a].attempts = n],
           UNCHANGED <<act, user, broken>>
    PROVE  \A r : RowsFine(r)
<1> USE DEF AccountInv, RowsInv, KeysInv
<1>1. DevicesTyped /\ KeepsDevices
  BY DEF DevicesTyped, KeepsDevices, RowTypeOK
<1> QED
  BY <1>1, NoRowMoves DEF RowTypeOK

\* The history.
LEMMA NoneGiven ==
    ASSUME AccountInv, UNCHANGED given
    PROVE  GivenFine
BY DEF GivenFine, AccountInv, RowsInv, KeysInv, LoginTypeOK

LEMMA OneGiven ==
    ASSUME AccountInv, NEW r \in Requests, NEW factor \in {"passcode", "second"}, Give(r, factor)
    PROVE  GivenFine /\ (copy[r].token \in Tokens => factor \in given'[copy[r].token])
BY DEF GivenFine, Give, AccountInv, RowsInv, KeysInv, LoginTypeOK

\* Hashes.
LEMMA LoginsLeft ==
    ASSUME AccountInv, Onward, GivenFine, UNCHANGED login
    PROVE  LoginsFine
<1>1. \A k : Settled(k) => Settled(k)'
  BY DEF Onward, Settled
<1> QED
  BY <1>1 DEF LoginsFine, Named, Earned, GivenFine, AccountInv, RowsInv, KeysInv, LoginTypeOK, LoginsNameRows,
              FactorsEarned

LEMMA LoginSet ==
    ASSUME AccountInv, Onward, GivenFine, NEW t, NEW l \in Logins, login' = [login EXCEPT ![t] = l],
           t \in Tokens => Named(l)' /\ Earned(l, t)'
    PROVE  LoginsFine
<1>1. \A k : Settled(k) => Settled(k)'
  BY DEF Onward, Settled
<1>2. login \in [Tokens -> Logins]
  BY DEF AccountInv, RowsInv, KeysInv, LoginTypeOK
<1>3. login' \in [Tokens -> Logins]
  BY <1>2
<1>4. ASSUME NEW s \in Tokens PROVE Named(login[s])' /\ Earned(login[s], s)'
  <2>1. CASE s = t
    BY <1>2, <2>1 DEF Named, Earned
  <2>2. CASE s # t
    <3>1. login'[s] = login[s]
      BY <1>2, <2>2
    <3>2. Named(login[s]) /\ Earned(login[s], s)
      BY DEF Named, AccountInv, RowsInv, KeysInv, LoginsNameRows, FactorsEarned
    <3> QED
      BY <1>1, <3>1, <3>2 DEF Named, Earned, GivenFine
  <2> QED
    BY <2>1, <2>2
<1> QED
  BY <1>3, <1>4 DEF LoginsFine

LEMMA LoginDeleted ==
    ASSUME AccountInv, Onward, GivenFine, NEW t, login' = [login EXCEPT ![t].live = FALSE]
    PROVE  LoginsFine
<1>1. \A k : Settled(k) => Settled(k)'
  BY DEF Onward, Settled
<1>2. login \in [Tokens -> Logins]
  BY DEF AccountInv, RowsInv, KeysInv, LoginTypeOK
<1>3. CASE t \in Tokens
  <2>5. [login[t] EXCEPT !.live = FALSE] \in Logins
    BY <1>2, <1>3 DEF Logins
  <2>6. PICK l \in Logins : l = [login[t] EXCEPT !.live = FALSE]
    BY <2>5
  <2>1. l \in Logins /\ l.key = login[t].key /\ ~l.live /\ l.password = login[t].password /\ l.second = login[t].second
    BY <1>2, <1>3, <2>6 DEF Logins
  <2>2. login' = [login EXCEPT ![t] = l]
    BY <2>6
  <2>3. Named(login[t]) /\ Earned(login[t], t)
    BY <1>3 DEF Named, AccountInv, RowsInv, KeysInv, LoginsNameRows, FactorsEarned
  <2>4. Named(l)' /\ Earned(l, t)'
    BY <1>1, <1>3, <2>1, <2>3 DEF Named, Earned, GivenFine
  <2> QED
    BY <2>1, <2>2, <2>4, LoginSet
<1>4. CASE t \notin Tokens
  <2>1. login' = login
    BY <1>2, <1>4
  <2> QED
    BY <2>1, LoginsLeft
<1> QED
  BY <1>3, <1>4

\* Copies and places.
LEMMA Ends ==
    ASSUME AccountInv, NEW r \in Requests, End(r)
    PROVE  CopiesFine(r) /\ Moves(r)
<1>1. ReqTyped /\ OthersWait(r) /\ req'[r].at = "idle"
  BY DoneMoves DEF End, AccountInv, RowsInv, KeysInv
<1>2. copy \in [Requests -> CopyRec] /\ copy' = [copy EXCEPT ![r] = Nothing]
  BY DEF End, AccountInv, RowsInv, KeysInv, LoginTypeOK, CopyRec
<1>3. Nothing \in CopyRec /\ Nothing.login = NoLogin
  BY DEF Nothing, NoLogin, CopyRec, Logins
<1>4. CopiesFine(r)
  BY <1>1, <1>2, <1>3 DEF CopiesFine, CopyFine, Named, Earned, NoLogin
<1>5. RequestFits(r)'
  BY <1>1 DEF RequestFits, LoginWork, At
<1> QED
  BY <1>1, <1>4, <1>5 DEF Moves, Posts

LEMMA Goes ==
    ASSUME AccountInv, NEW r \in Requests, req[r].at \in LoginWork, NEW place \in LoginWork,
           Goto(r, place), CopiesFine(r), copy'[r].login.key = Row(r), Onward
    PROVE  Moves(r)
<1>1. ReqTyped /\ OthersWait(r) /\ req'[r].at = place /\ req'[r].key = req[r].key
  BY GotoMoves DEF AccountInv, RowsInv, KeysInv, Places, LoginWork
<1>2. Settled(Row(r))' /\ Key(r) \in Keys
  BY CopyIs DEF Onward, Settled, Row
<1>3. RequestFits(r)'
  BY <1>1, <1>2 DEF RequestFits, LoginWork, At, Key
<1> QED
  BY <1>1, <1>3 DEF Moves, Posts, LoginWork

LEMMA CopySet ==
    ASSUME AccountInv, NEW r \in Requests, req[r].at \in LoginWork, Onward, GivenFine,
           NEW c \in CopyRec, copy' = [copy EXCEPT ![r] = c],
           c.token = copy[r].token, c.login.key = Row(r), c.login.live = copy[r].login.live,
           copy[r].token \in Tokens =>
               /\ c.login.password => copy[r].login.password \/ "passcode" \in given'[copy[r].token]
               /\ c.login.second => copy[r].login.second \/ "second" \in given'[copy[r].token]
               /\ req'[r].at \in {"pright", "sclear"} => "passcode" \in given'[copy[r].token]
               /\ req'[r].at \in {"token", "second"} => "second" \in given'[copy[r].token],
           req'[r].at \in {"vuser", "venrol", "vdevice", "vsave"} => ~c.login.password /\ ~c.login.second
    PROVE  CopiesFine(r) /\ copy'[r].login.key = Row(r) /\ copy'[r] = c
<1>1. copy \in [Requests -> CopyRec] /\ CopyFine(r) /\ Settled(Row(r))
  BY CopyIs
<1>2. copy' \in [Requests -> CopyRec] /\ copy'[r] = c /\ \A q \in Requests \ {r} : copy'[q] = copy[q]
  BY <1>1
<1>3. Settled(Row(r)) => Settled(c.login.key)'
  BY DEF Onward, Settled
<1>4. CopyFine(r)'
  BY <1>1, <1>2, <1>3 DEF CopyFine, Named, Earned, GivenFine, Row
<1> QED
  BY <1>2, <1>4 DEF CopiesFine

LEMMA CopyLeft ==
    ASSUME AccountInv, NEW r \in Requests, req[r].at \in LoginWork, Onward, GivenFine, UNCHANGED copy,
           copy[r].token \in Tokens =>
               /\ req'[r].at \in {"pright", "sclear"} => "passcode" \in given'[copy[r].token]
               /\ req'[r].at \in {"token", "second"} => "second" \in given'[copy[r].token],
           req'[r].at \in {"vuser", "venrol", "vdevice", "vsave"} =>
               req[r].at \in {"vuser", "venrol", "vdevice", "vsave"}
    PROVE  CopiesFine(r) /\ copy'[r].login.key = Row(r)
<1>1. copy \in [Requests -> CopyRec] /\ copy[r] \in CopyRec /\ CopyFine(r)
  BY CopyIs
<1>2. copy' = [copy EXCEPT ![r] = copy[r]]
  BY <1>1
<1> QED
  BY <1>1, <1>2, CopySet DEF Row, CopyFine

\* A handler begins with a copy of a login.
LEMMA Loads ==
    ASSUME AccountInv, NEW r \in Requests, NEW t \in Tokens, NEW place \in LoginWork \ LoginPlaces,
           NEW mem \in Words, NEW right \in BOOLEAN, Load(r, t, place, mem, right),
           UNCHANGED <<act, device, user, broken, login, given>>, UNCHANGED directoryVars
    PROVE  AccountInv'
<1>1. Settled(login[t].key) /\ login[t].key \in Keys /\ Named(login[t]) /\ Earned(login[t], t) /\ login[t] \in Logins
  BY DEF Load, AccountInv, RowsInv, KeysInv, LoginsNameRows, Settled, Named, FactorsEarned, LoginTypeOK
<1>2. /\ ReqTyped /\ OthersWait(r) /\ req[r].at = "idle" /\ req'[r].at = place /\ req'[r].key = login[t].key
  <2>1. place \in Places /\ place # "idle"
    BY DEF Places, LoginWork, LoginWork
  <2> QED
    BY <1>1, <2>1, BeginMoves DEF Load, AccountInv, RowsInv, KeysInv
<1>3. RowsFine(r) /\ GivenFine /\ LoginsFine
  BY SameRowsFine, NoneGiven, LoginsLeft DEF RowsFine
<1> DEFINE c == [Nothing EXCEPT !.token = t, !.login = login[t], !.right = right]
<1>4. c \in CopyRec /\ c.token = t /\ c.login = login[t]
  BY <1>1 DEF Nothing, CopyRec
<1>5. copy' = [copy EXCEPT ![r] = c] /\ copy \in [Requests -> CopyRec]
  BY DEF Load, AccountInv, RowsInv, KeysInv, LoginTypeOK, CopyRec
<1> HIDE DEF c
<1>6. \A k : Settled(k) => Settled(k)'
  BY <1>3 DEF RowsFine, Onward, Settled
<1>7. copy' \in [Requests -> CopyRec] /\ copy'[r] = c /\ \A q \in Requests \ {r} : copy'[q] = copy[q]
  BY <1>4, <1>5
<1>8. CopiesFine(r)
  <2>1. place \notin {"pright", "sclear", "token", "second", "vuser", "venrol", "vdevice", "vsave"}
    BY DEF LoginPlaces
  <2>2. UNCHANGED given
    OBVIOUS
  <2> QED
    BY <1>1, <1>2, <1>4, <1>6, <1>7, <2>1, <2>2 DEF CopiesFine, CopyFine, Named, Earned
<1>9. RequestFits(r)'
  BY <1>1, <1>2, <1>4, <1>6, <1>7 DEF RequestFits, LoginWork, At, Key, Row
<1>10. Moves(r) /\ req[r].at \notin Posts \cup {"venrol"}
  BY <1>2, <1>9 DEF Moves, Posts, LoginWork
<1> QED
  BY <1>3, <1>8, <1>10, LoginMoves

LEMMA Saves ==
    ASSUME AccountInv, NEW r \in Requests, req[r].at \in LoginWork, Onward, GivenFine,
           NEW l \in Logins, Save(r, l), l.key = Row(r), l.live = copy[r].login.live,
           copy[r].token \in Tokens =>
               /\ l.password => copy[r].login.password \/ "passcode" \in given'[copy[r].token]
               /\ l.second => copy[r].login.second \/ "second" \in given'[copy[r].token]
    PROVE  LoginsFine
<1>1. CopyFine(r) /\ Settled(Row(r))
  BY CopyIs
<1>2. PICK t : t = copy[r].token
  OBVIOUS
<1>3. login' = [login EXCEPT ![t] = l]
  BY <1>2 DEF Save
<1>4. Settled(l.key)' /\ (l.live => l.key # "none")
  BY <1>1 DEF Onward, Settled, CopyFine, Named, Row
<1>5. t \in Tokens => Named(l)' /\ Earned(l, t)'
  BY <1>1, <1>2, <1>4 DEF Named, Earned, CopyFine, GivenFine
<1> QED
  BY <1>3, <1>5, LoginSet

LEMMA CopySaved ==
    ASSUME AccountInv, NEW r \in Requests, req[r].at \in LoginWork, Onward, GivenFine, Save(r, copy[r].login)
    PROVE  LoginsFine
<1>1. copy[r].login \in Logins
  BY CopyIs DEF CopyRec
<1> QED
  BY <1>1, Saves DEF Row

LEMMA Refuses ==
    ASSUME AccountInv, NEW r \in Requests, req[r].at \in {"factor", "sms"}, Onward, GivenFine, Refuse(r)
    PROVE  CopiesFine(r) /\ Moves(r)
<1>1. CASE End(r)
  BY <1>1, Ends
<1>2. CASE Goto(r, "pwrong") /\ UNCHANGED copy
  <2>1. req'[r].at = "pwrong" /\ "pwrong" \in LoginWork /\ req[r].at \in LoginWork
    BY <1>2, GotoMoves DEF Places, LoginWork, LoginWork, AccountInv, RowsInv, KeysInv
  <2>2. CopiesFine(r) /\ copy'[r].login.key = Row(r)
    BY <1>2, <2>1, CopyLeft
  <2> QED
    BY <1>2, <2>1, <2>2, Goes
<1> QED
  BY <1>1, <1>2 DEF Refuse

LEMMA ValidateUserKeeps ==
    ASSUME AccountInv, NEW r \in Requests, ValidateUser(r), UNCHANGED directoryVars
    PROVE  AccountInv'
<1>1. req[r].at = "vuser" /\ req[r].at \in LoginWork /\ req[r].at \notin Posts \cup {"venrol"}
  BY DEF ValidateUser, At, LoginWork, Posts
<1>2. RowsFine(r)
  <2>1. User(r) \in Users
    BY <1>1, CopyIs
  <2> QED
    BY <2>1, NoRowMoves DEF ValidateUser, DevicesTyped, KeepsDevices, AccountInv, RowsInv, KeysInv, RowTypeOK
<1>3. GivenFine
  BY NoneGiven DEF ValidateUser
<1>4. LoginsFine
  BY <1>2, <1>3, LoginsLeft DEF ValidateUser, RowsFine
<1>5. CopiesFine(r) /\ Moves(r)
  <2>1. CASE User(r) \in user \cap disabled
    <3>1. End(r)
      BY <2>1 DEF ValidateUser, End
    <3> QED
      BY <3>1, Ends
  <2>2. CASE User(r) \notin user \cap disabled
    <3>1. PICK place \in {"venrol", "vdevice"} : Goto(r, place)
      BY <2>2 DEF ValidateUser
    <3>2. req'[r].at = place /\ place \in LoginWork
      BY <3>1, GotoMoves DEF Places, LoginWork, LoginWork, AccountInv, RowsInv, KeysInv
    <3> DEFINE e == copy[r].login.pend \/ User(r) \notin passcode
               l == [copy[r].login EXCEPT !.pend = e]
               c == [copy[r] EXCEPT !.login = l]
    <3>3. copy[r] \in CopyRec /\ CopyFine(r)
      BY <1>1, CopyIs
    <3>4. copy' = [copy EXCEPT ![r] = c]
      BY <2>2 DEF ValidateUser
    <3>5. e \in BOOLEAN
      OBVIOUS
    <3> HIDE DEF e
    <3>6. /\ l \in Logins /\ l.key = Row(r) /\ l.live = copy[r].login.live
          /\ l.password = copy[r].login.password /\ l.second = copy[r].login.second
      BY <3>3, <3>5 DEF CopyRec, Logins, Row
    <3> HIDE DEF l
    <3>7. c \in CopyRec /\ c.login = l /\ c.token = copy[r].token
      BY <3>3, <3>6 DEF CopyRec
    <3> HIDE DEF c
    <3>8. ~l.password /\ ~l.second
      BY <1>1, <3>3, <3>6 DEF CopyFine
    <3>9. CopiesFine(r) /\ copy'[r].login.key = Row(r)
      BY <1>1, <1>2, <1>3, <3>2, <3>4, <3>6, <3>7, <3>8, CopySet DEF RowsFine
    <3> QED
      BY <1>1, <1>2, <3>1, <3>2, <3>9, Goes DEF RowsFine
  <2> QED
    BY <2>1, <2>2
<1> QED
  BY <1>1, <1>2, <1>3, <1>4, <1>5, LoginMoves

LEMMA ValidateDeviceKeeps ==
    ASSUME AccountInv, NEW r \in Requests, ValidateDevice(r), UNCHANGED directoryVars
    PROVE  AccountInv'
<1>1. req[r].at = "vdevice" /\ req[r].at \in LoginWork /\ req[r].at \notin Posts \cup {"venrol"}
  BY DEF ValidateDevice, At, LoginWork, Posts
<1>2. RowsFine(r)
  BY SameRowsFine DEF ValidateDevice, SameRows
<1>3. GivenFine
  BY NoneGiven DEF ValidateDevice
<1>4. LoginsFine
  BY <1>2, <1>3, LoginsLeft DEF ValidateDevice, RowsFine
<1>5. CopiesFine(r) /\ Moves(r)
  <2>3. CASE End(r)
    BY <2>3, Ends
  <2>4. CASE Goto(r, "vsave") /\ UNCHANGED copy
    <3>1. Goto(r, "vsave") /\ "vsave" \in LoginWork /\ req'[r].at = "vsave"
      BY <2>4, GotoMoves, <1>1 DEF ValidateDevice, LoginWork, Places, LoginWork, AccountInv, RowsInv, KeysInv
    <3>2. CopiesFine(r) /\ copy'[r].login.key = Row(r)
      BY <2>4, <1>1, <1>2, <1>3, <3>1, CopyLeft DEF ValidateDevice, RowsFine
    <3> QED
      BY <1>1, <1>2, <3>1, <3>2, Goes DEF RowsFine
  <2> QED
    BY <2>3, <2>4 DEF ValidateDevice
<1> QED
  BY <1>1, <1>2, <1>3, <1>4, <1>5, LoginMoves

LEMMA CreateLoginKeeps ==
    ASSUME AccountInv, NEW r \in Requests, CreateLogin(r), UNCHANGED directoryVars
    PROVE  AccountInv'
<1>1. req[r].at = "vsave" /\ req[r].at \in LoginWork /\ req[r].at \notin Posts \cup {"venrol"}
  BY DEF CreateLogin, At, LoginWork, Posts
<1>2. RowsFine(r)
  BY SameRowsFine DEF CreateLogin, SameRows
<1>3. GivenFine
  BY NoneGiven DEF CreateLogin
<1>4. LoginsFine
  <2> DEFINE t == CHOOSE s \in Unused : TRUE
  <2>1. copy[r] \in CopyRec /\ CopyFine(r) /\ Settled(Row(r)) /\ Row(r) \in Keys
    BY <1>1, CopyIs
  <2>2. [copy[r].login EXCEPT !.live = TRUE] \in Logins
    BY <2>1 DEF CopyRec, Logins
  <2>3. PICK l \in Logins : l = [copy[r].login EXCEPT !.live = TRUE]
    BY <2>2
  <2>4. l.key = Row(r) /\ ~l.password /\ ~l.second
    BY <1>1, <2>1, <2>3 DEF CopyRec, Logins, Row, CopyFine
  <2>5. login' = [login EXCEPT ![t] = l]
    BY <2>3 DEF CreateLogin
  <2>6. Settled(l.key)' /\ l.key # "none"
    BY <1>2, <2>1, <2>4, LoginAssumption DEF RowsFine, Onward, Settled
  <2>7. Named(l)' /\ Earned(l, t)'
    BY <2>4, <2>6 DEF Named, Earned
  <2> HIDE DEF t
  <2> QED
    BY <1>2, <1>3, <2>5, <2>6, <2>4, LoginSet DEF RowsFine, Named, Earned
<1>5. CopiesFine(r) /\ Moves(r)
  BY Ends DEF CreateLogin
<1> QED
  BY <1>1, <1>2, <1>3, <1>4, <1>5, LoginMoves

LEMMA UpdatePushKeeps ==
    ASSUME AccountInv, NEW r \in Requests, UpdatePush(r), UNCHANGED directoryVars
    PROVE  AccountInv'
<1>1. req[r].at = "push" /\ req[r].at \in LoginWork /\ req[r].at \notin Posts \cup {"venrol"}
  BY DEF UpdatePush, At, LoginWork, Posts
<1>2. RowsFine(r)
  <2> DEFINE row == [act[Row(r)] EXCEPT !.push = TRUE]
  <2>1. Row(r) \in Keys
    BY <1>1, CopyIs
  <2>2. act[Row(r)] \in Rows
    BY <2>1 DEF AccountInv, RowsInv, KeysInv, RowTypeOK
  <2>3. row \in Rows /\ row.status = act[Row(r)].status
    BY <2>2 DEF Rows
  <2> QED
    BY <2>1, <2>3, DetailsSet DEF UpdatePush
<1>3. GivenFine
  BY NoneGiven DEF UpdatePush
<1>4. LoginsFine
  BY <1>2, <1>3, LoginsLeft DEF UpdatePush, RowsFine
<1>5. CopiesFine(r) /\ Moves(r)
  <2>1. Goto(r, "save") /\ "save" \in LoginWork /\ req'[r].at = "save"
    BY GotoMoves, <1>1 DEF UpdatePush, LoginWork, Places, LoginWork, AccountInv, RowsInv, KeysInv
  <2>2. CopiesFine(r) /\ copy'[r].login.key = Row(r)
    BY <1>1, <1>2, <1>3, <2>1, CopyLeft DEF UpdatePush, RowsFine
  <2> QED
    BY <1>1, <1>2, <2>1, <2>2, Goes DEF RowsFine
<1> QED
  BY <1>1, <1>2, <1>3, <1>4, <1>5, LoginMoves

LEMMA SaveConfKeeps ==
    ASSUME AccountInv, NEW r \in Requests, SaveConf(r), UNCHANGED directoryVars
    PROVE  AccountInv'
<1>1. req[r].at = "save" /\ req[r].at \in LoginWork /\ req[r].at \notin Posts \cup {"venrol"}
  BY DEF SaveConf, At, LoginWork, Posts
<1>2. RowsFine(r)
  BY SameRowsFine DEF SaveConf, SameRows
<1>3. GivenFine
  BY NoneGiven DEF SaveConf
<1>4. LoginsFine
  <2>1. UNCHANGED login \/ Save(r, copy[r].login)
    BY DEF SaveConf
  <2> QED
    BY <1>1, <1>2, <1>3, <2>1, LoginsLeft, CopySaved DEF RowsFine
<1>5. CopiesFine(r) /\ Moves(r)
  BY Ends DEF SaveConf
<1> QED
  BY <1>1, <1>2, <1>3, <1>4, <1>5, LoginMoves

LEMMA PasscodeDoneKeeps ==
    ASSUME AccountInv, NEW r \in Requests, PasscodeDone(r), UNCHANGED directoryVars
    PROVE  AccountInv'
<1>1. req[r].at = "pdone" /\ req[r].at \in LoginWork /\ req[r].at \notin Posts \cup {"venrol"}
  BY DEF PasscodeDone, At, LoginWork, Posts
<1>2. RowsFine(r)
  BY SameRowsFine DEF PasscodeDone, SameRows
<1>3. GivenFine
  BY NoneGiven DEF PasscodeDone
<1>4. LoginsFine
  <2>1. UNCHANGED login \/ Save(r, copy[r].login)
    BY DEF PasscodeDone
  <2> QED
    BY <1>1, <1>2, <1>3, <2>1, LoginsLeft, CopySaved DEF RowsFine
<1>5. CopiesFine(r) /\ Moves(r)
  BY Ends DEF PasscodeDone
<1> QED
  BY <1>1, <1>2, <1>3, <1>4, <1>5, LoginMoves

LEMMA PasscodeUserKeeps ==
    ASSUME AccountInv, NEW r \in Requests, PasscodeUser(r), UNCHANGED directoryVars
    PROVE  AccountInv'
<1>1. req[r].at = "puser" /\ req[r].at \in LoginWork /\ req[r].at \notin Posts \cup {"venrol"}
  BY DEF PasscodeUser, At, LoginWork, Posts
<1>2. RowsFine(r)
  BY SameRowsFine DEF PasscodeUser, SameRows
<1>3. GivenFine
  BY NoneGiven DEF PasscodeUser
<1>4. LoginsFine
  <2>1. UNCHANGED login \/ Del(r)
    BY DEF PasscodeUser
  <2> QED
    BY <1>2, <1>3, <2>1, LoginsLeft, LoginDeleted DEF RowsFine, Del
<1>5. CopiesFine(r) /\ Moves(r)
  <2>1. CASE User(r) \notin user
    BY <2>1, Ends DEF PasscodeUser
  <2>2. CASE User(r) \in user
    <3>1. /\ ReqTyped /\ OthersWait(r) /\ req'[r].at = "pdevice" /\ req'[r].key = req[r].key
      <4> DEFINE m == IF User(r) \in disabled THEN "no" ELSE ""
      <4>1. m \in Words /\ "pdevice" \in Places
        BY DEF Words, Places, LoginWork
      <4>2. req' = [req EXCEPT ![r].at = "pdevice", ![r].mem = m]
        BY <2>2 DEF PasscodeUser
      <4> HIDE DEF m
      <4> QED
        BY <4>1, <4>2 DEF ReqTyped, OthersWait, AccountInv, RowsInv, KeysInv, RowTypeOK
    <3>2. CopiesFine(r) /\ copy'[r].login.key = Row(r)
      <4> DEFINE e == copy[r].right /\ User(r) \in passcode
                 c == [copy[r] EXCEPT !.right = e]
      <4>1. copy[r] \in CopyRec /\ CopyFine(r)
        BY <1>1, CopyIs
      <4>2. copy' = [copy EXCEPT ![r] = c]
        BY <2>2 DEF PasscodeUser
      <4>3. e \in BOOLEAN
        OBVIOUS
      <4> HIDE DEF e
      <4>4. c \in CopyRec /\ c.login = copy[r].login /\ c.token = copy[r].token
        BY <4>1, <4>3 DEF CopyRec
      <4> HIDE DEF c
      <4> QED
        BY <1>1, <1>2, <1>3, <3>1, <4>1, <4>2, <4>4, CopySet DEF RowsFine, Row, CopyFine
    <3>3. Settled(Row(r))' /\ Key(r) \in Keys
      BY <1>1, <1>2, CopyIs, <3>2 DEF RowsFine, Onward, Settled, Row
    <3>4. RequestFits(r)'
      BY <3>1, <3>3 DEF RequestFits, LoginWork, At, Key
    <3> QED
      BY <3>1, <3>2, <3>4 DEF Moves, Posts
  <2> QED
    BY <2>1, <2>2
<1> QED
  BY <1>1, <1>2, <1>3, <1>4, <1>5, LoginMoves

LEMMA PasscodeDeviceKeeps ==
    ASSUME AccountInv, NEW r \in Requests, PasscodeDevice(r), UNCHANGED directoryVars
    PROVE  AccountInv'
<1>1. req[r].at = "pdevice" /\ req[r].at \in LoginWork /\ req[r].at \notin Posts \cup {"venrol"}
  BY DEF PasscodeDevice, At, LoginWork, Posts
<1>2. RowsFine(r)
  BY SameRowsFine DEF PasscodeDevice, SameRows
<1>3. GivenFine
  <2>1. Give(r, "passcode") \/ UNCHANGED given
    BY DEF PasscodeDevice
  <2> QED
    BY <2>1, OneGiven, NoneGiven
<1>4. LoginsFine
  <2>1. UNCHANGED login \/ Del(r)
    BY DEF PasscodeDevice
  <2> QED
    BY <1>2, <1>3, <2>1, LoginsLeft, LoginDeleted DEF RowsFine, Del
<1>5. CopiesFine(r) /\ Moves(r)
  <2>1. CASE End(r)
    BY <2>1, Ends
  <2>2. CASE ~End(r)
    <3> DEFINE n == device[Account(r)].attempts
               c == [copy[r] EXCEPT !.attempts = n]
    <3>1. PICK place \in {"pright", "pwrong"} :
              Goto(r, place) /\ (place = "pright" => Give(r, "passcode"))
      BY <2>2 DEF PasscodeDevice
    <3>2. copy' = [copy EXCEPT ![r] = c]
      BY <2>2 DEF PasscodeDevice
    <3>3. copy[r] \in CopyRec /\ CopyFine(r) /\ Account(r) \in Accounts
      BY <1>1, CopyIs
    <3>4. n \in Nat
      BY <3>3 DEF AccountInv, RowsInv, KeysInv, RowTypeOK
    <3> HIDE DEF n
    <3>5. c \in CopyRec /\ c.login = copy[r].login /\ c.token = copy[r].token
      BY <3>3, <3>4 DEF CopyRec
    <3> HIDE DEF c
    <3>6. req'[r].at = place /\ place \in LoginWork
      BY <3>1, GotoMoves DEF Places, LoginWork, LoginWork, AccountInv, RowsInv, KeysInv
    <3>7. place = "pright" /\ copy[r].token \in Tokens => "passcode" \in given'[copy[r].token]
      BY <3>1, OneGiven
    <3>8. CopiesFine(r) /\ copy'[r].login.key = Row(r)
      BY <1>1, <1>2, <1>3, <3>2, <3>3, <3>5, <3>6, <3>7, CopySet DEF RowsFine, Row
    <3> QED
      BY <1>1, <1>2, <3>1, <3>6, <3>8, Goes DEF RowsFine
  <2> QED
    BY <2>1, <2>2
<1> QED
  BY <1>1, <1>2, <1>3, <1>4, <1>5, LoginMoves

LEMMA PasscodeRightKeeps ==
    ASSUME AccountInv, NEW r \in Requests, PasscodeRight(r), UNCHANGED directoryVars
    PROVE  AccountInv'
<1>1. req[r].at = "pright" /\ req[r].at \in LoginWork /\ req[r].at \notin Posts \cup {"venrol"}
  BY DEF PasscodeRight, At, LoginWork, Posts
<1>2. RowsFine(r)
  BY SameRowsFine DEF PasscodeRight, SameRows
<1>3. GivenFine
  BY NoneGiven DEF PasscodeRight
<1>4. LoginsFine
  <2> DEFINE l == [copy[r].login EXCEPT !.password = TRUE]
  <2>1. copy[r] \in CopyRec /\ CopyFine(r)
    BY <1>1, CopyIs
  <2>2. l \in Logins /\ l.key = Row(r) /\ l.live = copy[r].login.live /\ l.second = copy[r].login.second
    BY <2>1 DEF CopyRec, Logins, Row
  <2>3. Save(r, l)
    BY DEF PasscodeRight
  <2>4. copy[r].token \in Tokens => "passcode" \in given'[copy[r].token]
    BY <1>1, <1>3, <2>1 DEF CopyFine, GivenFine
  <2> HIDE DEF l
  <2> QED
    BY <1>1, <1>2, <1>3, <2>2, <2>3, <2>4, Saves DEF RowsFine
<1>5. CopiesFine(r) /\ Moves(r)
  <2>1. PICK place \in {"pdone", "preset"} : Goto(r, place)
    BY DEF PasscodeRight
  <2>2. req'[r].at = place /\ place \in LoginWork
    BY <2>1, GotoMoves DEF Places, LoginWork, LoginWork, AccountInv, RowsInv, KeysInv
  <2> DEFINE l == [copy[r].login EXCEPT !.password = TRUE]
             c == [copy[r] EXCEPT !.login = l]
  <2>3. copy[r] \in CopyRec /\ CopyFine(r)
    BY <1>1, CopyIs
  <2>4. copy' = [copy EXCEPT ![r] = c]
    BY DEF PasscodeRight
  <2>5. l \in Logins /\ l.key = Row(r) /\ l.live = copy[r].login.live /\ l.second = copy[r].login.second
    BY <2>3 DEF CopyRec, Logins, Row
  <2>6. copy[r].token \in Tokens => "passcode" \in given'[copy[r].token]
    BY <1>1, <1>3, <2>3 DEF CopyFine, GivenFine
  <2> HIDE DEF l
  <2>7. c \in CopyRec /\ c.login = l /\ c.token = copy[r].token
    BY <2>3, <2>5 DEF CopyRec
  <2> HIDE DEF c
  <2>8. CopiesFine(r) /\ copy'[r].login.key = Row(r)
    BY <1>1, <1>2, <1>3, <2>2, <2>4, <2>5, <2>6, <2>7, CopySet DEF RowsFine
  <2> QED
    BY <1>1, <1>2, <2>1, <2>2, <2>8, Goes DEF RowsFine
<1> QED
  BY <1>1, <1>2, <1>3, <1>4, <1>5, LoginMoves

LEMMA ResetAttemptsKeeps ==
    ASSUME AccountInv, NEW r \in Requests, ResetAttempts(r), UNCHANGED directoryVars
    PROVE  AccountInv'
<1>1. req[r].at = "preset" /\ req[r].at \in LoginWork /\ req[r].at \notin Posts \cup {"venrol"}
  BY DEF ResetAttempts, At, LoginWork, Posts
<1>2. RowsFine(r)
  BY AttemptsSet DEF ResetAttempts
<1>3. GivenFine
  BY NoneGiven DEF ResetAttempts
<1>4. LoginsFine
  <2>1. UNCHANGED login \/ Del(r)
    BY DEF ResetAttempts
  <2> QED
    BY <1>2, <1>3, <2>1, LoginsLeft, LoginDeleted DEF RowsFine, Del
<1>5. CopiesFine(r) /\ Moves(r)
  <2>1. CASE End(r)
    BY <2>1, Ends
  <2>2. CASE Goto(r, "pdone") /\ UNCHANGED copy
    <3>1. Goto(r, "pdone") /\ "pdone" \in LoginWork /\ req'[r].at = "pdone"
      BY <2>2, GotoMoves, <1>1 DEF ResetAttempts, LoginWork, Places, LoginWork, AccountInv, RowsInv, KeysInv
    <3>2. CopiesFine(r) /\ copy'[r].login.key = Row(r)
      BY <2>2, <1>1, <1>2, <1>3, <3>1, CopyLeft DEF ResetAttempts, RowsFine
    <3> QED
      BY <1>1, <1>2, <3>1, <3>2, Goes DEF RowsFine
  <2> QED
    BY <2>1, <2>2 DEF ResetAttempts
<1> QED
  BY <1>1, <1>2, <1>3, <1>4, <1>5, LoginMoves

LEMMA ReadAttemptsKeeps ==
    ASSUME AccountInv, NEW r \in Requests, ReadAttempts(r), UNCHANGED directoryVars
    PROVE  AccountInv'
<1>1. req[r].at = "pwrong" /\ req[r].at \in LoginWork /\ req[r].at \notin Posts \cup {"venrol"}
  BY DEF ReadAttempts, At, LoginWork, Posts
<1>2. RowsFine(r)
  BY SameRowsFine DEF ReadAttempts, SameRows
<1>3. GivenFine
  BY NoneGiven DEF ReadAttempts
<1>4. LoginsFine
  <2>1. UNCHANGED login \/ Del(r)
    BY DEF ReadAttempts
  <2> QED
    BY <1>2, <1>3, <2>1, LoginsLeft, LoginDeleted DEF RowsFine, Del
<1>5. CopiesFine(r) /\ Moves(r)
  <2>1. CASE ~device[Account(r)].row
    BY <2>1, Ends DEF ReadAttempts
  <2>2. CASE device[Account(r)].row
    <3> DEFINE n == device[Account(r)].attempts
               c == [copy[r] EXCEPT !.attempts = n]
    <3>1. Goto(r, "pcount")
      BY <2>2 DEF ReadAttempts
    <3>2. copy' = [copy EXCEPT ![r] = c]
      BY <2>2 DEF ReadAttempts
    <3>3. copy[r] \in CopyRec /\ CopyFine(r) /\ Account(r) \in Accounts
      BY <1>1, CopyIs
    <3>4. n \in Nat
      BY <3>3 DEF AccountInv, RowsInv, KeysInv, RowTypeOK
    <3> HIDE DEF n
    <3>5. c \in CopyRec /\ c.login = copy[r].login /\ c.token = copy[r].token
      BY <3>3, <3>4 DEF CopyRec
    <3> HIDE DEF c
    <3>6. req'[r].at = "pcount" /\ "pcount" \in LoginWork
      BY <3>1, GotoMoves DEF Places, LoginWork, LoginWork, AccountInv, RowsInv, KeysInv
    <3>7. CopiesFine(r) /\ copy'[r].login.key = Row(r)
      BY <1>1, <1>2, <1>3, <3>2, <3>3, <3>5, <3>6, CopySet DEF RowsFine, Row
    <3> QED
      BY <1>1, <1>2, <3>1, <3>6, <3>7, Goes DEF RowsFine
  <2> QED
    BY <2>1, <2>2
<1> QED
  BY <1>1, <1>2, <1>3, <1>4, <1>5, LoginMoves

LEMMA CountAttemptKeeps ==
    ASSUME AccountInv, NEW r \in Requests, CountAttempt(r), UNCHANGED directoryVars
    PROVE  AccountInv'
<1>1. req[r].at = "pcount" /\ req[r].at \in LoginWork /\ req[r].at \notin Posts \cup {"venrol"}
  BY DEF CountAttempt, At, LoginWork, Posts
<1>2. RowsFine(r)
  <2>1. copy[r].attempts + 1 \in Nat
    BY <1>1, CopyIs DEF CopyRec
  <2>2. CASE device[Account(r)].row
    BY <2>1, <2>2, AttemptsSet DEF CountAttempt
  <2>3. CASE ~device[Account(r)].row
    BY <2>3, SameRowsFine DEF CountAttempt
  <2> QED
    BY <2>2, <2>3
<1>3. GivenFine
  BY NoneGiven DEF CountAttempt
<1>4. LoginsFine
  BY <1>2, <1>3, LoginsLeft DEF CountAttempt, RowsFine
<1>5. CopiesFine(r) /\ Moves(r)
  <2>1. CASE End(r)
    BY <2>1, Ends
  <2>2. CASE Goto(r, "plock") /\ UNCHANGED copy
    <3>1. Goto(r, "plock") /\ "plock" \in LoginWork /\ req'[r].at = "plock"
      BY <2>2, GotoMoves, <1>1 DEF CountAttempt, LoginWork, Places, LoginWork, AccountInv, RowsInv, KeysInv
    <3>2. CopiesFine(r) /\ copy'[r].login.key = Row(r)
      BY <2>2, <1>1, <1>2, <1>3, <3>1, CopyLeft DEF CountAttempt, RowsFine
    <3> QED
      BY <1>1, <1>2, <3>1, <3>2, Goes DEF RowsFine
  <2> QED
    BY <2>1, <2>2 DEF CountAttempt
<1> QED
  BY <1>1, <1>2, <1>3, <1>4, <1>5, LoginMoves

LEMMA LockNotificationKeeps ==
    ASSUME AccountInv, NEW r \in Requests, LockNotification(r), UNCHANGED directoryVars
    PROVE  AccountInv'
<1>1. req[r].at = "plock" /\ req[r].at \in LoginWork /\ req[r].at \notin Posts \cup {"venrol"}
  BY DEF LockNotification, At, LoginWork, Posts
<1>2. RowsFine(r)
  <2> DEFINE row == [act[Row(r)] EXCEPT !.link = TRUE]
  <2>1. Row(r) \in Keys
    BY <1>1, CopyIs
  <2>2. act[Row(r)] \in Rows
    BY <2>1 DEF AccountInv, RowsInv, KeysInv, RowTypeOK
  <2>3. row \in Rows /\ row.status = act[Row(r)].status
    BY <2>2 DEF Rows
  <2> QED
    BY <2>1, <2>3, DetailsSet, SameRowsFine DEF LockNotification
<1>3. GivenFine
  BY NoneGiven DEF LockNotification
<1>4. LoginsFine
  <2>1. UNCHANGED login \/ Del(r)
    BY DEF LockNotification
  <2> QED
    BY <1>2, <1>3, <2>1, LoginsLeft, LoginDeleted DEF RowsFine, Del
<1>5. CopiesFine(r) /\ Moves(r)
  BY Ends DEF LockNotification
<1> QED
  BY <1>1, <1>2, <1>3, <1>4, <1>5, LoginMoves

LEMMA SetPasscodeUserKeeps ==
    ASSUME AccountInv, NEW r \in Requests, SetPasscodeUser(r), UNCHANGED directoryVars
    PROVE  AccountInv'
<1>1. req[r].at = "suser" /\ req[r].at \in LoginWork /\ req[r].at \notin Posts \cup {"venrol"}
  BY DEF SetPasscodeUser, At, LoginWork, Posts
<1>2. RowsFine(r)
  BY SameRowsFine DEF SetPasscodeUser, SameRows
<1>3. GivenFine
  BY NoneGiven DEF SetPasscodeUser
<1>4. LoginsFine
  BY <1>2, <1>3, LoginsLeft DEF SetPasscodeUser, RowsFine
<1>5. CopiesFine(r) /\ Moves(r)
  <2>1. CASE End(r)
    BY <2>1, Ends
  <2>2. CASE Goto(r, "swrite") /\ UNCHANGED copy
    <3>1. Goto(r, "swrite") /\ "swrite" \in LoginWork /\ req'[r].at = "swrite"
      BY <2>2, GotoMoves, <1>1 DEF SetPasscodeUser, LoginWork, Places, LoginWork, AccountInv, RowsInv, KeysInv
    <3>2. CopiesFine(r) /\ copy'[r].login.key = Row(r)
      BY <2>2, <1>1, <1>2, <1>3, <3>1, CopyLeft DEF SetPasscodeUser, RowsFine
    <3> QED
      BY <1>1, <1>2, <3>1, <3>2, Goes DEF RowsFine
  <2> QED
    BY <2>1, <2>2 DEF SetPasscodeUser
<1> QED
  BY <1>1, <1>2, <1>3, <1>4, <1>5, LoginMoves

LEMMA WritePasscodeKeeps ==
    ASSUME AccountInv, NEW r \in Requests, WritePasscode(r), UNCHANGED directoryVars
    PROVE  AccountInv'
<1>1. req[r].at = "swrite" /\ req[r].at \in LoginWork /\ req[r].at \notin Posts \cup {"venrol"}
  BY DEF WritePasscode, At, LoginWork, Posts
<1>2. RowsFine(r)
  BY SameRowsFine DEF WritePasscode, SameRows
<1>3. GivenFine
  BY OneGiven DEF WritePasscode
<1>4. LoginsFine
  BY <1>2, <1>3, LoginsLeft DEF WritePasscode, RowsFine
<1>5. CopiesFine(r) /\ Moves(r)
  <2>1. Goto(r, "sclear") /\ "sclear" \in LoginWork /\ req'[r].at = "sclear"
    BY GotoMoves, <1>1 DEF WritePasscode, LoginWork, Places, LoginWork, AccountInv, RowsInv, KeysInv
  <2>2. CopiesFine(r) /\ copy'[r].login.key = Row(r)
    <3>1. copy[r].token \in Tokens => "passcode" \in given'[copy[r].token]
      BY OneGiven DEF WritePasscode
    <3>2. UNCHANGED copy
      BY DEF WritePasscode
    <3> QED
      BY <1>1, <1>2, <1>3, <2>1, <3>1, <3>2, CopyLeft DEF RowsFine
  <2> QED
    BY <1>1, <1>2, <2>1, <2>2, Goes DEF RowsFine
<1> QED
  BY <1>1, <1>2, <1>3, <1>4, <1>5, LoginMoves

LEMMA ClearResetKeeps ==
    ASSUME AccountInv, NEW r \in Requests, ClearReset(r), UNCHANGED directoryVars
    PROVE  AccountInv'
<1>1. req[r].at = "sclear" /\ req[r].at \in LoginWork /\ req[r].at \notin Posts \cup {"venrol"}
  BY DEF ClearReset, At, LoginWork, Posts
<1>2. RowsFine(r)
  <2> DEFINE row == [act[Row(r)] EXCEPT !.reset = FALSE]
  <2>1. Row(r) \in Keys
    BY <1>1, CopyIs
  <2>2. act[Row(r)] \in Rows
    BY <2>1 DEF AccountInv, RowsInv, KeysInv, RowTypeOK
  <2>3. row \in Rows /\ row.status = act[Row(r)].status
    BY <2>2 DEF Rows
  <2> QED
    BY <2>1, <2>3, DetailsSet DEF ClearReset
<1>3. GivenFine
  BY NoneGiven DEF ClearReset
<1>4. LoginsFine
  BY <1>2, <1>3, LoginsLeft DEF ClearReset, RowsFine
<1>5. CopiesFine(r) /\ Moves(r)
  <2>1. Goto(r, "save") /\ req'[r].at = "save" /\ "save" \in LoginWork
    BY GotoMoves, <1>1 DEF ClearReset, LoginWork, Places, LoginWork, AccountInv, RowsInv, KeysInv
  <2> DEFINE l == [copy[r].login EXCEPT !.pend = FALSE, !.password = TRUE]
             c == [copy[r] EXCEPT !.login = l]
  <2>3. copy[r] \in CopyRec /\ CopyFine(r) /\ copy \in [Requests -> CopyRec]
    BY <1>1, CopyIs
  <2>4. copy' = [copy EXCEPT ![r] = c]
    BY <2>3 DEF ClearReset, CopyRec, Logins
  <2>5. l \in Logins /\ l.key = Row(r) /\ l.live = copy[r].login.live /\ l.second = copy[r].login.second
    BY <2>3 DEF CopyRec, Logins, Row
  <2>6. copy[r].token \in Tokens => "passcode" \in given'[copy[r].token]
    BY <1>1, <1>3, <2>3 DEF CopyFine, GivenFine
  <2> HIDE DEF l
  <2>7. c \in CopyRec /\ c.login = l /\ c.token = copy[r].token
    BY <2>3, <2>5 DEF CopyRec
  <2> HIDE DEF c
  <2>8. CopiesFine(r) /\ copy'[r].login.key = Row(r)
    BY <1>1, <1>2, <1>3, <2>1, <2>4, <2>5, <2>6, <2>7, CopySet DEF RowsFine
  <2> QED
    BY <1>1, <1>2, <2>1, <2>8, Goes DEF RowsFine
<1> QED
  BY <1>1, <1>2, <1>3, <1>4, <1>5, LoginMoves

LEMMA ReadSecondKeeps ==
    ASSUME AccountInv, NEW r \in Requests, ReadSecond(r), UNCHANGED directoryVars
    PROVE  AccountInv'
<1>1. req[r].at = "factor" /\ req[r].at \in LoginWork /\ req[r].at \notin Posts \cup {"venrol"}
  BY DEF ReadSecond, At, LoginWork, Posts
<1>2. RowsFine(r)
  BY SameRowsFine DEF ReadSecond, SameRows
<1>3. GivenFine
  <2>1. Give(r, "second") \/ UNCHANGED given
    BY DEF ReadSecond
  <2> QED
    BY <2>1, OneGiven, NoneGiven
<1>4. LoginsFine
  BY <1>2, <1>3, LoginsLeft DEF ReadSecond, RowsFine
<1>5. CopiesFine(r) /\ Moves(r)
  <2>1. CASE Refuse(r)
    BY <1>1, <1>2, <1>3, <2>1, Refuses DEF RowsFine
  <2>2. CASE ~Refuse(r)
    <3>1. PICK place \in {"token", "second"} : Goto(r, place)
      BY <2>2 DEF ReadSecond
    <3>2. Give(r, "second") /\ UNCHANGED copy
      BY <2>2 DEF ReadSecond
    <3>3. req'[r].at = place /\ place \in LoginWork
      BY <3>1, GotoMoves DEF Places, LoginWork, LoginWork, AccountInv, RowsInv, KeysInv
    <3>4. copy[r].token \in Tokens => "second" \in given'[copy[r].token]
      BY <3>2, OneGiven
    <3>5. CopiesFine(r) /\ copy'[r].login.key = Row(r)
      BY <1>1, <1>2, <1>3, <3>2, <3>3, <3>4, CopyLeft DEF RowsFine
    <3> QED
      BY <1>1, <1>2, <3>1, <3>3, <3>5, Goes DEF RowsFine
  <2> QED
    BY <2>1, <2>2
<1> QED
  BY <1>1, <1>2, <1>3, <1>4, <1>5, LoginMoves

LEMMA WriteTokenKeeps ==
    ASSUME AccountInv, NEW r \in Requests, WriteToken(r), UNCHANGED directoryVars
    PROVE  AccountInv'
<1>1. req[r].at = "token" /\ req[r].at \in LoginWork /\ req[r].at \notin Posts \cup {"venrol"}
  BY DEF WriteToken, At, LoginWork, Posts
<1>2. RowsFine(r)
  <2> DEFINE row == [act[Row(r)] EXCEPT !.factors = act[Row(r)].factors \cup {req[r].mem}]
  <2>1. Row(r) \in Keys /\ req[r].mem \in Words
    BY <1>1, CopyIs DEF AccountInv, RowsInv, KeysInv, RowTypeOK
  <2>2. act[Row(r)] \in Rows
    BY <2>1 DEF AccountInv, RowsInv, KeysInv, RowTypeOK
  <2>3. row \in Rows /\ row.status = act[Row(r)].status
    BY <2>1, <2>2 DEF Rows
  <2>4. SetRow(Row(r), row)
    BY DEF WriteToken
  <2> QED
    BY <2>1, <2>3, <2>4, DetailsSet DEF WriteToken
<1>3. GivenFine
  BY NoneGiven DEF WriteToken
<1>4. LoginsFine
  BY <1>2, <1>3, LoginsLeft DEF WriteToken, RowsFine
<1>5. CopiesFine(r) /\ Moves(r)
  <2>1. Goto(r, "second") /\ "second" \in LoginWork /\ req'[r].at = "second"
    BY GotoMoves, <1>1 DEF WriteToken, LoginWork, Places, LoginWork, AccountInv, RowsInv, KeysInv
  <2>2. CopiesFine(r) /\ copy'[r].login.key = Row(r)
    <3>1. copy[r].token \in Tokens => "second" \in given'[copy[r].token]
      BY <1>1, <1>3, CopyIs DEF CopyFine, GivenFine
    <3>2. UNCHANGED copy
      BY DEF WriteToken
    <3> QED
      BY <1>1, <1>2, <1>3, <2>1, <3>1, <3>2, CopyLeft DEF RowsFine
  <2> QED
    BY <1>1, <1>2, <2>1, <2>2, Goes DEF RowsFine
<1> QED
  BY <1>1, <1>2, <1>3, <1>4, <1>5, LoginMoves

LEMMA CheckSmsKeeps ==
    ASSUME AccountInv, NEW r \in Requests, CheckSms(r), UNCHANGED directoryVars
    PROVE  AccountInv'
<1>1. req[r].at = "sms" /\ req[r].at \in LoginWork /\ req[r].at \notin Posts \cup {"venrol"}
  BY DEF CheckSms, At, LoginWork, Posts
<1>2. RowsFine(r)
  BY SameRowsFine DEF CheckSms, SameRows
<1>3. GivenFine
  <2>1. Give(r, "second") \/ UNCHANGED given
    BY DEF CheckSms
  <2> QED
    BY <2>1, OneGiven, NoneGiven
<1>4. LoginsFine
  <2>1. UNCHANGED login \/ Save(r, copy[r].login)
    BY DEF CheckSms
  <2> QED
    BY <1>1, <1>2, <1>3, <2>1, LoginsLeft, CopySaved DEF RowsFine
<1>5. CopiesFine(r) /\ Moves(r)
  <2>1. CASE Refuse(r)
    BY <1>1, <1>2, <1>3, <2>1, Refuses DEF RowsFine
  <2>2. CASE ~Refuse(r)
    <3>1. Goto(r, "second") /\ Give(r, "second") /\ UNCHANGED copy
      BY <2>2 DEF CheckSms
    <3>3. req'[r].at = "second" /\ "second" \in LoginWork
      BY <3>1, GotoMoves DEF Places, LoginWork, LoginWork, AccountInv, RowsInv, KeysInv
    <3>4. copy[r].token \in Tokens => "second" \in given'[copy[r].token]
      BY <3>1, OneGiven
    <3>5. CopiesFine(r) /\ copy'[r].login.key = Row(r)
      BY <1>1, <1>2, <1>3, <3>1, <3>3, <3>4, CopyLeft DEF RowsFine
    <3> QED
      BY <1>1, <1>2, <3>1, <3>3, <3>5, Goes DEF RowsFine
  <2> QED
    BY <2>1, <2>2
<1> QED
  BY <1>1, <1>2, <1>3, <1>4, <1>5, LoginMoves

LEMMA SaveSecondKeeps ==
    ASSUME AccountInv, NEW r \in Requests, SaveSecond(r), UNCHANGED directoryVars
    PROVE  AccountInv'
<1>1. req[r].at = "second" /\ req[r].at \in LoginWork /\ req[r].at \notin Posts \cup {"venrol"}
  BY DEF SaveSecond, At, LoginWork, Posts
<1>2. RowsFine(r)
  BY SameRowsFine DEF SaveSecond, SameRows
<1>3. GivenFine
  BY NoneGiven DEF SaveSecond
<1>4. LoginsFine
  <2> DEFINE l == [copy[r].login EXCEPT !.second = TRUE]
  <2>1. copy[r] \in CopyRec /\ CopyFine(r)
    BY <1>1, CopyIs
  <2>2. l \in Logins /\ l.key = Row(r) /\ l.live = copy[r].login.live /\ l.password = copy[r].login.password
    BY <2>1 DEF CopyRec, Logins, Row
  <2>3. Save(r, l)
    BY DEF SaveSecond
  <2>4. copy[r].token \in Tokens => "second" \in given'[copy[r].token]
    BY <1>1, <1>3, <2>1 DEF CopyFine, GivenFine
  <2> HIDE DEF l
  <2> QED
    BY <1>1, <1>2, <1>3, <2>2, <2>3, <2>4, Saves DEF RowsFine
<1>5. CopiesFine(r) /\ Moves(r)
  <2>1. CASE End(r)
    BY <2>1, Ends
  <2>2. CASE Goto(r, "preset") /\ UNCHANGED copy
    <3>1. Goto(r, "preset") /\ "preset" \in LoginWork /\ req'[r].at = "preset"
      BY <2>2, GotoMoves, <1>1 DEF SaveSecond, LoginWork, Places, LoginWork, AccountInv, RowsInv, KeysInv
    <3>2. CopiesFine(r) /\ copy'[r].login.key = Row(r)
      BY <2>2, <1>1, <1>2, <1>3, <3>1, CopyLeft DEF SaveSecond, RowsFine
    <3> QED
      BY <1>1, <1>2, <3>1, <3>2, Goes DEF RowsFine
  <2> QED
    BY <2>1, <2>2 DEF SaveSecond
<1> QED
  BY <1>1, <1>2, <1>3, <1>4, <1>5, LoginMoves

LEMMA GetClientConfKeeps ==
    ASSUME AccountInv, NEW r \in Requests, NEW t \in Tokens, GetClientConf(r, t), UNCHANGED directoryVars
    PROVE  AccountInv'
<1>1. PICK place \in LoginWork \ LoginPlaces, mem \in Words, ok \in BOOLEAN : Load(r, t, place, mem, ok)
  <2>1. {"push", "save"} \subseteq LoginWork \ LoginPlaces
    BY DEF LoginWork, LoginPlaces
  <2>2. "" \in Words
    BY LoginAssumption DEF Words, Resets
  <2> QED
    BY <2>1, <2>2 DEF GetClientConf
<1> QED
  BY <1>1, Loads DEF GetClientConf

LEMMA CheckPasscodeKeeps ==
    ASSUME AccountInv, NEW r \in Requests, NEW t \in Tokens, NEW right \in BOOLEAN, CheckPasscode(r, t, right), UNCHANGED directoryVars
    PROVE  AccountInv'
<1>1. PICK place \in LoginWork \ LoginPlaces, mem \in Words, ok \in BOOLEAN : Load(r, t, place, mem, ok)
  <2>1. "puser" \in LoginWork \ LoginPlaces
    BY DEF LoginWork, LoginPlaces
  <2>2. "" \in Words
    BY LoginAssumption DEF Words, Resets
  <2> QED
    BY <2>1, <2>2 DEF CheckPasscode
<1> QED
  BY <1>1, Loads DEF CheckPasscode

LEMMA SetPasscodeKeeps ==
    ASSUME AccountInv, NEW r \in Requests, NEW t \in Tokens, NEW old \in BOOLEAN, SetPasscode(r, t, old), UNCHANGED directoryVars
    PROVE  AccountInv'
<1>1. PICK place \in LoginWork \ LoginPlaces, mem \in Words, ok \in BOOLEAN : Load(r, t, place, mem, ok)
  <2>1. "suser" \in LoginWork \ LoginPlaces
    BY DEF LoginWork, LoginPlaces
  <2>2. "" \in Words
    BY LoginAssumption DEF Words, Resets
  <2> QED
    BY <2>1, <2>2 DEF SetPasscode
<1> QED
  BY <1>1, Loads DEF SetPasscode

LEMMA CheckSecondKeeps ==
    ASSUME AccountInv, NEW r \in Requests, NEW t \in Tokens, NEW kind \in SecondMethods, NEW right \in BOOLEAN, CheckSecond(r, t, kind, right), UNCHANGED directoryVars
    PROVE  AccountInv'
<1>1. PICK place \in LoginWork \ LoginPlaces, mem \in Words, ok \in BOOLEAN : Load(r, t, place, mem, ok)
  <2>1. (IF kind = "sms" THEN "sms" ELSE "factor") \in LoginWork \ LoginPlaces
    BY DEF LoginWork, LoginPlaces
  <2>2. kind \in Words
    BY LoginAssumption DEF Words, Resets
  <2> QED
    BY <2>1, <2>2 DEF CheckSecond
<1> QED
  BY <1>1, Loads DEF CheckSecond

LEMMA ValidateKeeps ==
    ASSUME AccountInv, NEW r \in Requests, NEW k \in Keys, Validate(r, k), UNCHANGED directoryVars
    PROVE  AccountInv'
<1>1. ReqTyped /\ OthersWait(r) /\ req[r].at = "idle" /\ req'[r].at = "vuser" /\ req'[r].key = k
  <2>1. "vuser" \in Places /\ "" \in Words
    BY DEF Places, LoginWork, LoginWork, Words
  <2>2. Begin(r, k, "vuser", "")
    BY DEF Validate
  <2> QED
    BY <2>1, <2>2, BeginMoves DEF AccountInv, RowsInv, KeysInv
<1>2. RowsFine(r) /\ GivenFine /\ LoginsFine
  <2>1. UNCHANGED <<act, device, user, broken, login, given>>
    BY DEF Validate
  <2> QED
    BY <2>1, SameRowsFine, NoneGiven, LoginsLeft DEF RowsFine
<1> DEFINE l == [NoLogin EXCEPT !.key = k, !.pend = act[k].reset]
           c == [copy[r] EXCEPT !.login = l]
<1>3. copy \in [Requests -> CopyRec] /\ act[k] \in Rows
  BY DEF AccountInv, RowsInv, KeysInv, LoginTypeOK, RowTypeOK, CopyRec
<1>4. l \in Logins /\ l.key = k /\ ~l.live /\ ~l.password /\ ~l.second
  BY <1>3 DEF NoLogin, Logins, Rows
<1>5. copy' = [copy EXCEPT ![r] = c]
  BY DEF Validate
<1> HIDE DEF l
<1>6. c \in CopyRec /\ c.login = l
  BY <1>3, <1>4 DEF CopyRec
<1> HIDE DEF c
<1>7. copy' \in [Requests -> CopyRec] /\ copy'[r] = c /\ \A q \in Requests \ {r} : copy'[q] = copy[q]
  BY <1>3, <1>5, <1>6
<1>8. Settled(k)'
  BY DEF Validate, Settled
<1>9. copy'[r].login.key = k /\ ~copy'[r].login.live /\ ~copy'[r].login.password /\ ~copy'[r].login.second
  BY <1>4, <1>6, <1>7
<1>10. CopiesFine(r)
  BY <1>1, <1>7, <1>8, <1>9 DEF CopiesFine, CopyFine, Named, Earned
<1>11. RequestFits(r)'
  BY <1>1, <1>8, <1>9 DEF RequestFits, LoginWork, At, Key, Row
<1>12. Moves(r) /\ req[r].at \notin Posts \cup {"venrol"}
  BY <1>1, <1>11 DEF Moves, Posts
<1> QED
  BY <1>2, <1>10, <1>12, LoginMoves

LEMMA ResendUnlockLinkKeeps ==
    ASSUME AccountInv, NEW k \in Keys, ResendUnlockLink(k), UNCHANGED directoryVars
    PROVE  AccountInv'
<1> USE DEF AccountInv, RowsInv, KeysInv
<1>1. RowsTyped /\ RowsWane
  BY DEF ResendUnlockLink, RowsTyped, RowsWane, Wanes, RowTypeOK
<1>2. DevicesTyped /\ KeepsDevices
  BY DEF ResendUnlockLink, DevicesTyped, KeepsDevices, RowTypeOK
<1>3. user' \subseteq Users /\ broken' \subseteq Keys /\ UNCHANGED <<req, login, copy, given>>
  BY DEF loginVars, ResendUnlockLink, RowTypeOK
<1> QED
  BY <1>1, <1>2, <1>3, QuietStep

LEMMA UnlockPasswordKeeps ==
    ASSUME AccountInv, NEW u \in Users, UnlockPassword(u), UNCHANGED directoryVars
    PROVE  AccountInv'
<1> USE DEF AccountInv, RowsInv, KeysInv
<1>1. RowsTyped /\ RowsWane
  BY DEF UnlockPassword, RowsTyped, RowsWane, Wanes, RowTypeOK
<1>2. DevicesTyped /\ KeepsDevices
  BY DEF UnlockPassword, DevicesTyped, KeepsDevices, RowTypeOK
<1>3. user' \subseteq Users /\ broken' \subseteq Keys /\ UNCHANGED <<req, login, copy, given>>
  BY DEF loginVars, UnlockPassword, RowTypeOK
<1> QED
  BY <1>1, <1>2, <1>3, QuietStep

LEMMA LoginExpiresKeeps ==
    ASSUME AccountInv, NEW t \in Tokens, LoginExpires(t), UNCHANGED directoryVars
    PROVE  AccountInv'
<1> USE DEF AccountInv, RowsInv, KeysInv
<1>1. UNCHANGED <<act, device, user, req, broken, copy, given, member, groupApps, catalog, userApp, work, packageLocks>>
  BY DEF LoginExpires, directoryVars
<1>2. GivenFine /\ Onward
  BY <1>1, NoneGiven DEF Onward, Known, Settled
<1>3. LoginsFine
  BY <1>2, LoginDeleted DEF LoginExpires
<1>4. RowTypeOK' /\ LoginTypeOK' /\ DirectoryTypeOK'
  BY <1>1, <1>3 DEF RowTypeOK, LoginTypeOK, DirectoryTypeOK, LoginsFine
<1>5. RequestsFit' /\ RequestsOnlyEnrol' /\ ErasersWalk'
  BY <1>1 DEF RequestsFit, RequestFits, RequestsOnlyEnrol, ErasersWalk, At, Key, Known, Settled, Row, Op, Free
<1>6. LoginsNameRows' /\ FactorsEarned'
  BY <1>1, <1>3 DEF LoginsFine, Named, Earned, LoginsNameRows, FactorsEarned, Settled
<1>7. ActiveAlone' /\ DeviceThere' /\ UserThere'
  <2>1. KeepsActive /\ KeepsDevices /\ KeepsErasers /\ KeepsPosts
    BY <1>1 DEF KeepsActive, KeepsDevices, KeepsErasers, KeepsPosts, Active, Exists, Op
  <2> QED
    BY <1>2, <2>1, RowsStay
<1>8. PackagesLocked'
  BY <1>1, PackagesStay
<1> QED
  BY <1>4, <1>5, <1>6, <1>7, <1>8

-----------------------------------------------------------------------------
(* The steps of Directory. *)
Erasing == {"apps of", "devices of", "groups of", "rows of"}
UnderLock == {"look", "groups", "having", "private", "copied", "none", "unlock"}
SameHandlers == UNCHANGED <<act, device, user, req, broken, login, copy, given>>

LEMMA NoWorkIs ==
    NoWork \in Works /\ NoWork.op = "none" /\ NoWork.at = ""
BY DirectoryAssumption DEF NoWork, Works, Calls, WorkPlaces

\* A step of a call that leaves rows, handlers and logins alone.
LEMMA CallStep ==
    ASSUME AccountInv, SameHandlers, DirectoryTypeOK', RequestsOnlyEnrol', ErasersWalk', KeepsErasers, PackagesLocked'
    PROVE  AccountInv'
<1> USE DEF AccountInv, RowsInv, KeysInv
<1>1. RowTypeOK' /\ LoginTypeOK'
  BY DEF SameHandlers, RowTypeOK, LoginTypeOK
<1>2. RequestsFit' /\ LoginsNameRows'
  BY DEF SameHandlers, RequestsFit, RequestFits, LoginsNameRows, At, Key, Known, Settled, Row
<1>3. Onward /\ KeepsActive /\ KeepsDevices /\ KeepsPosts
  BY DEF SameHandlers, Onward, KeepsActive, KeepsDevices, KeepsPosts, Known, Settled, Active, Exists
<1>4. ActiveAlone' /\ DeviceThere' /\ UserThere'
  BY <1>3, RowsStay
<1>5. FactorsEarned'
  BY DEF SameHandlers, FactorsEarned, Earned
<1> QED
  BY <1>1, <1>2, <1>4, <1>5

\* A call that is under way does its next step.
WalksOn(w, c) ==
    /\ work' = [work EXCEPT ![w] = c]
    /\ ~Free(w) /\ c.op = Op(w)
    /\ Op(w) = "erase" => c.person = work[w].person /\ c.at \in Erasing
    /\ Op(w) # "erase" => c.at \notin Erasing

LEMMA Walks ==
    ASSUME AccountInv, NEW w \in Workers, NEW c \in Works, WalksOn(w, c), UNCHANGED req
    PROVE  /\ work' \in [Workers -> Works] /\ work'[w] = c /\ \A v \in Workers \ {w} : work'[v] = work[v]
           /\ RequestsOnlyEnrol' /\ ErasersWalk' /\ KeepsErasers
<1> USE DEF AccountInv, RowsInv, KeysInv
<1>1. work' \in [Workers -> Works] /\ work'[w] = c /\ \A v \in Workers \ {w} : work'[v] = work[v]
  BY DEF WalksOn, DirectoryTypeOK
<1>2. c.op = Op(w) /\ c.op # "none" /\ ~Free(w)
  BY DEF WalksOn, Free, Op
<1>3. RequestsOnlyEnrol'
  <2>1. ASSUME NEW r \in Requests PROVE (Op(r) \in {"none", "join"} /\ (~Free(r) => req[r].at \in {"enrol", "venrol"}))'
    <3>1. r \in Workers /\ Op(r) \in {"none", "join"} /\ (~Free(r) => req[r].at \in {"enrol", "venrol"})
      BY DEF RequestsOnlyEnrol, Workers
    <3>2. work'[r].op = work[r].op
      BY <1>1, <1>2, <3>1 DEF Op
    <3> QED
      BY <3>1, <3>2 DEF Op, Free
  <2> QED
    BY <2>1 DEF RequestsOnlyEnrol
<1>4. ErasersWalk'
  BY <1>1, <1>2 DEF ErasersWalk, WalksOn, Op, Free, Erasing
<1>5. KeepsErasers
  BY <1>1, <1>2 DEF KeepsErasers, WalksOn, Op
<1> QED
  BY <1>1, <1>3, <1>4, <1>5

\* A call begins.
LEMMA Begun ==
    ASSUME AccountInv, NEW w \in Workers, NEW c \in Works, Free(w), work' = [work EXCEPT ![w] = c],
           c.op # "none", c.op = "erase" <=> c.at \in Erasing,
           w \in Requests => c.op = "join" /\ req[w].at \in {"enrol", "venrol"}, UNCHANGED req
    PROVE  /\ work' \in [Workers -> Works] /\ work'[w] = c /\ \A v \in Workers \ {w} : work'[v] = work[v]
           /\ RequestsOnlyEnrol' /\ ErasersWalk' /\ KeepsErasers
<1> USE DEF AccountInv, RowsInv, KeysInv
<1>1. work' \in [Workers -> Works] /\ work'[w] = c /\ \A v \in Workers \ {w} : work'[v] = work[v]
  BY DEF DirectoryTypeOK
<1>2. RequestsOnlyEnrol'
  <2>1. ASSUME NEW r \in Requests PROVE (Op(r) \in {"none", "join"} /\ (~Free(r) => req[r].at \in {"enrol", "venrol"}))'
    <3>1. r \in Workers /\ Op(r) \in {"none", "join"} /\ (~Free(r) => req[r].at \in {"enrol", "venrol"})
      BY DEF RequestsOnlyEnrol, Workers
    <3>2. CASE r = w
      BY <1>1, <3>2 DEF Op, Free
    <3>3. CASE r # w
      BY <1>1, <3>1, <3>3 DEF Op, Free
    <3> QED
      BY <3>2, <3>3
  <2> QED
    BY <2>1 DEF RequestsOnlyEnrol
<1>3. ErasersWalk'
  BY <1>1 DEF ErasersWalk, Op, Free, Erasing
<1>4. KeepsErasers
  BY <1>1 DEF KeepsErasers, Op, Free
<1> QED
  BY <1>1, <1>2, <1>3, <1>4

\* A call that held no package and takes none.
LEMMA NoPackage ==
    ASSUME PackagesLocked, NEW w \in Workers, \A v \in Workers \ {w} : work'[v] = work[v],
           work'[w].at \notin UnderLock \/ work'[w].op = "none",
           packageLocks' = packageLocks,
           \A p : userApp[p] # "private" => userApp'[p] # "private"
    PROVE  PackagesLocked'
<1>1. ~Locked(w)'
  BY DEF Locked, UnderLock, Free
<1>2. \A v \in Workers \ {w} : /\ Locked(v)' <=> Locked(v)
                               /\ Package(v)' = Package(v) /\ Op(v)' = Op(v) /\ work'[v].at = work[v].at
  BY DEF Locked, Free, Package, Op
<1> QED
  BY <1>1, <1>2 DEF PackagesLocked

\* A call goes to its next place, also when it leaves the rest of an app out.
Steps(w, place) ==
    /\ work' \in [Workers -> Works] /\ \A v \in Workers \ {w} : work'[v] = work[v]
    /\ work'[w].at = place /\ work'[w].op = Op(w) /\ Package(w)' = Package(w)
    /\ RequestsOnlyEnrol' /\ ErasersWalk' /\ KeepsErasers

LEMMA NextPlace ==
    ASSUME AccountInv, NEW w \in Workers, NEW place \in WorkPlaces, Next_(w, place), ~Free(w), UNCHANGED req,
           Op(w) = "erase" <=> place \in Erasing
    PROVE  Steps(w, place)
<1> DEFINE c == [work[w] EXCEPT !.at = place]
<1>1. work[w] \in Works
  BY DEF AccountInv, RowsInv, KeysInv, DirectoryTypeOK
<1>2. c \in Works /\ c.op = Op(w) /\ c.at = place /\ c.person = work[w].person /\ c.app = work[w].app
  BY <1>1 DEF Works, Op
<1>3. work' = [work EXCEPT ![w] = c]
  BY DEF Next_
<1> HIDE DEF c
<1>4. WalksOn(w, c)
  BY <1>2, <1>3 DEF WalksOn
<1> QED
  BY <1>2, <1>4, Walks DEF Steps, Package

LEMMA FailedPlace ==
    ASSUME AccountInv, NEW w \in Workers, Failed(w), ~Free(w), UNCHANGED req, Op(w) # "erase"
    PROVE  Steps(w, "next")
<1> DEFINE c == [work[w] EXCEPT !.at = "next", !.todo = {}, !.failed = TRUE]
<1>1. work[w] \in Works /\ work \in [Workers -> Works]
  BY DEF AccountInv, RowsInv, KeysInv, DirectoryTypeOK
<1>2. c \in Works /\ c.op = Op(w) /\ c.at = "next" /\ c.person = work[w].person /\ c.app = work[w].app
  BY <1>1 DEF Works, Op, WorkPlaces
<1>3. work' = [work EXCEPT ![w] = c]
  BY <1>1 DEF Failed, Works
<1> HIDE DEF c
<1>4. WalksOn(w, c)
  BY <1>2, <1>3 DEF WalksOn, Erasing
<1> QED
  BY <1>2, <1>4, Walks DEF Steps, Package

\* The step of a call that holds no package afterwards, nor before.
LEMMA CallWalks ==
    ASSUME AccountInv, NEW w \in Workers, NEW place \in WorkPlaces \ UnderLock, Steps(w, place), SameHandlers,
           member' \subseteq Users \X Groups, groupApps' \subseteq Groups \X Apps, catalog' \subseteq Apps,
           UNCHANGED <<userApp, packageLocks>>
    PROVE  AccountInv'
<1>1. DirectoryTypeOK'
  BY DEF Steps, DirectoryTypeOK, AccountInv, RowsInv, KeysInv
<1>2. PackagesLocked'
  BY NoPackage DEF Steps, AccountInv
<1> QED
  BY <1>1, <1>2, CallStep DEF Steps

LEMMA NotErasing ==
    ASSUME AccountInv, NEW w \in Workers, work[w].at \notin Erasing
    PROVE  Op(w) # "erase"
BY DEF AccountInv, RowsInv, KeysInv, ErasersWalk, Erasing

\* A call ends.
LEMMA CallEnds ==
    ASSUME AccountInv, NEW w \in Workers, ~Free(w), Op(w) # "erase", Finished(w),
           member' \subseteq Users \X Groups, groupApps' \subseteq Groups \X Apps, catalog' \subseteq Apps,
           UNCHANGED <<userApp, packageLocks>>
    PROVE  AccountInv'
<1> USE DEF AccountInv, RowsInv, KeysInv
<1>1. work' \in [Workers -> Works] /\ work'[w] = NoWork /\ \A v \in Workers \ {w} : work'[v] = work[v]
  BY NoWorkIs DEF Finished, DirectoryTypeOK
<1>2. DirectoryTypeOK'
  BY <1>1 DEF DirectoryTypeOK
<1>3. PackagesLocked'
  BY <1>1, NoWorkIs, NoPackage
<1>4. ErasersWalk' /\ KeepsErasers
  BY <1>1, NoWorkIs DEF ErasersWalk, KeepsErasers, Op, Free
<1>5. CASE w \notin Requests
  <2>1. SameHandlers
    BY <1>5 DEF Finished, SameHandlers, loginVars
  <2>2. RequestsOnlyEnrol'
    BY <1>1, <1>5, <2>1 DEF RequestsOnlyEnrol, SameHandlers, Workers, Op, Free
  <2> QED
    BY <1>2, <1>3, <1>4, <2>1, <2>2, CallStep
<1>6. CASE w \in Requests
  <2>1. UNCHANGED <<act, device, user, broken, login, copy, given>>
    BY DEF Finished, loginVars
  <2>2. req[w].at \in {"enrol", "venrol"}
    BY <1>6 DEF RequestsOnlyEnrol
  <2>3. /\ ReqTyped /\ OthersWait(w) /\ req'[w].key = req[w].key
        /\ req'[w].at = IF req[w].at = "enrol" THEN "activate" ELSE "vdevice"
    <3>1. PICK place \in {"activate", "vdevice"} :
              Goto(w, place) /\ place = IF req[w].at = "enrol" THEN "activate" ELSE "vdevice"
      BY <1>6, <2>2 DEF Finished, At
    <3>2. place \in Places
      BY DEF Places, LoginWork, LoginWork
    <3> QED
      BY <1>6, <3>1, <3>2, GotoMoves
  <2>4. Onward /\ NoneStays(w) /\ KeepsActive
    BY <2>1 DEF Onward, NoneStays, KeepsActive, Known, Settled, Active, Exists
  <2>5. RequestFits(w)'
    BY <1>6, <2>1, <2>2, <2>3, <2>4 DEF RequestsFit, RequestFits, LoginWork, At, Key, Known, Settled, Row
  <2>6. RequestsFit'
    BY <1>6, <2>1, <2>3, <2>4, <2>5, FitsStays DEF At
  <2>7. RequestsOnlyEnrol'
    <3>1. ASSUME NEW r \in Requests PROVE (Op(r) \in {"none", "join"} /\ (~Free(r) => req[r].at \in {"enrol", "venrol"}))'
      <4>1. CASE r = w
        BY <1>1, <4>1, NoWorkIs DEF Op, Free
      <4>2. CASE r # w
        <5>1. work'[r] = work[r] /\ req'[r] = req[r]
          BY <1>1, <2>3, <4>2 DEF OthersWait, Workers
        <5> QED
          BY <5>1 DEF RequestsOnlyEnrol, Op, Free
      <4> QED
        BY <4>1, <4>2
    <3> QED
      BY <3>1 DEF RequestsOnlyEnrol
  <2>8. \A u : Erased(u)' <=> Erased(u)
    BY <1>1, NoWorkIs DEF Erased, Op
  <2>9. ActiveAlone' /\ DeviceThere'
    <3>1. \A k \in Keys : Active(k)' => Active(k)
      BY <2>4 DEF KeepsActive
    <3>2. req[w].at # "others" /\ ~At(w, "rows") /\ \A k : ~Making(w, k)
      BY <2>2 DEF At, Making
    <3> QED
      BY <1>6, <2>1, <2>3, <2>8, <3>1, <3>2, AloneMoves, ThereMoves
  <2>10. UserThere'
    <3>1. ASSUME NEW k \in Keys, Active(k)' PROVE Owner[k][1] \in user' \/ Erased(Owner[k][1])'
      BY <2>1, <2>4, <2>8, <3>1 DEF UserThere, KeepsActive
    <3>2. ASSUME NEW q \in Requests, req'[q].at \in {"enrol", "activate"}, (Exists(Key(q)) /\ Key(q) \notin broken)'
          PROVE  Of(q)'[1] \in user' \/ Erased(Of(q)[1])'
      <4>1. req[q].at \in {"enrol", "activate"} /\ req'[q].key = req[q].key
        BY <2>2, <2>3, <3>2 DEF OthersWait
      <4>2. Exists(Key(q)) /\ Key(q) \notin broken
        BY <2>1, <3>2, <4>1 DEF Exists, Key
      <4> QED
        BY <2>1, <2>8, <4>1, <4>2 DEF UserThere, Of, Key
    <3> QED
      BY <3>1, <3>2 DEF UserThere
  <2>11. LoginTypeOK' /\ LoginsNameRows'
    BY <2>1, <2>4, LoginsStay DEF LoginTypeOK
  <2>12. FactorsEarned'
    BY <2>1, <2>2, <2>3 DEF FactorsEarned, Earned, OthersWait
  <2>13. RowTypeOK'
    BY <2>1, <2>3 DEF RowTypeOK, ReqTyped
  <2> QED
    BY <1>2, <1>3, <1>4, <2>6, <2>7, <2>9, <2>10, <2>11, <2>12, <2>13
<1> QED
  BY <1>5, <1>6

LEMMA ReadAppsKeeps ==
    ASSUME AccountInv, NEW w \in Workers, ReadApps(w)
    PROVE  AccountInv'
<1> USE DEF AccountInv, RowsInv, KeysInv
<1>1. ~Free(w) /\ work[w].at = "apps" /\ work[w] \in Works /\ work \in [Workers -> Works]
  BY DEF ReadApps, In, DirectoryTypeOK
<1>2. Op(w) # "erase"
  BY <1>1, NotErasing DEF Erasing
<1>3. SameHandlers
  BY DEF ReadApps, SameAccounts, activationVars, loginVars, SameHandlers
<1>4. /\ member' \subseteq Users \X Groups /\ groupApps' \subseteq Groups \X Apps /\ catalog' \subseteq Apps
      /\ UNCHANGED <<userApp, packageLocks>>
  BY <1>1 DEF ReadApps, SameTables, DirectoryTypeOK, Works
<1>5. Steps(w, "next")
  <2> DEFINE c == [work[w] EXCEPT !.at = "next", !.apps = AppsOf(work[w].group)]
  <2>1. c \in Works /\ c.op = Op(w) /\ c.at = "next" /\ c.person = work[w].person /\ c.app = work[w].app
    BY <1>1 DEF Works, Op, WorkPlaces, AppsOf
  <2>2. work' = [work EXCEPT ![w] = c]
    BY <1>1 DEF ReadApps, Works
  <2> HIDE DEF c
  <2>3. WalksOn(w, c)
    BY <1>1, <1>2, <2>1, <2>2 DEF WalksOn, Erasing
  <2> QED
    BY <1>3, <2>1, <2>3, Walks DEF Steps, Package, SameHandlers
<1> QED
  BY <1>1, <1>3, <1>4, <1>5, CallWalks DEF WorkPlaces, UnderLock

LEMMA WriteGroupAppKeeps ==
    ASSUME AccountInv, NEW w \in Workers, WriteGroupApp(w)
    PROVE  AccountInv'
<1> USE DEF AccountInv, RowsInv, KeysInv
<1>1. ~Free(w) /\ work[w].at = "group" /\ work[w] \in Works /\ work \in [Workers -> Works]
  BY DEF WriteGroupApp, In, DirectoryTypeOK
<1>2. Op(w) # "erase"
  BY <1>1, NotErasing DEF Erasing
<1>3. SameHandlers
  BY DEF WriteGroupApp, SameAccounts, activationVars, loginVars, SameHandlers
<1>4. /\ member' \subseteq Users \X Groups /\ groupApps' \subseteq Groups \X Apps /\ catalog' \subseteq Apps
      /\ UNCHANGED <<userApp, packageLocks>>
  BY <1>1 DEF WriteGroupApp, SameTables, DirectoryTypeOK, Works
<1>5. Steps(w, "members")
  BY <1>1, <1>2, <1>3, NextPlace DEF WriteGroupApp, SameHandlers, WorkPlaces, Erasing
<1> QED
  BY <1>1, <1>3, <1>4, <1>5, CallWalks DEF WorkPlaces, UnderLock

LEMMA ReadMembersKeeps ==
    ASSUME AccountInv, NEW w \in Workers, ReadMembers(w)
    PROVE  AccountInv'
<1> USE DEF AccountInv, RowsInv, KeysInv
<1>1. ~Free(w) /\ work[w].at = "members" /\ work[w] \in Works /\ work \in [Workers -> Works]
  BY DEF ReadMembers, In, DirectoryTypeOK
<1>2. Op(w) # "erase"
  BY <1>1, NotErasing DEF Erasing
<1>3. SameHandlers
  BY DEF ReadMembers, SameAccounts, activationVars, loginVars, SameHandlers
<1>4. /\ member' \subseteq Users \X Groups /\ groupApps' \subseteq Groups \X Apps /\ catalog' \subseteq Apps
      /\ UNCHANGED <<userApp, packageLocks>>
  BY <1>1 DEF ReadMembers, SameTables, DirectoryTypeOK, Works
<1>5. Steps(w, "next")
  <2> DEFINE P == {m[1] : m \in {n \in member : Name[n[2]] = Name[work[w].group]}}
  <2>4. P \subseteq Users
    BY DEF DirectoryTypeOK
  <2> DEFINE c == [work[w] EXCEPT !.at = "next",
                      !.people = P,
                      !.apps = @ \cap catalog]
  <2>1. c \in Works /\ c.op = Op(w) /\ c.at = "next" /\ c.person = work[w].person /\ c.app = work[w].app
    <3> HIDE DEF P
    <3> QED
      BY <1>1, <2>4 DEF Works, Op, WorkPlaces
  <2>2. work' = [work EXCEPT ![w] = c]
    BY <1>1 DEF ReadMembers, Works
  <2> HIDE DEF c
  <2>3. WalksOn(w, c)
    BY <1>1, <1>2, <2>1, <2>2 DEF WalksOn, Erasing
  <2> QED
    BY <1>3, <2>1, <2>3, Walks DEF Steps, Package, SameHandlers
<1> QED
  BY <1>1, <1>3, <1>4, <1>5, CallWalks DEF WorkPlaces, UnderLock

LEMMA NextPersonKeeps ==
    ASSUME AccountInv, NEW w \in Workers, NextPerson(w)
    PROVE  AccountInv'
<1> USE DEF AccountInv, RowsInv, KeysInv
<1>1. ~Free(w) /\ work[w].at = "next" /\ work[w] \in Works /\ work \in [Workers -> Works]
  BY DEF NextPerson, In, DirectoryTypeOK
<1>2. Op(w) # "erase"
  BY <1>1, NotErasing DEF Erasing
<1>3. SameHandlers
  BY DEF NextPerson, SameAccounts, activationVars, loginVars, SameHandlers
<1>4. PICK u \in work[w].people :
         /\ member' = CASE Op(w) = "join" -> member \cup {<<u, work[w].group>>}
                        [] Op(w) \in {"leave", "drop"} -> member \ {<<u, work[w].group>>}
                        [] OTHER -> member
         /\ \E again \in BOOLEAN :
               work' = [work EXCEPT ![w].person = u,
                                    ![w].people = IF again THEN {} ELSE @ \ {u},
                                    ![w].todo = IF again THEN {} ELSE work[w].apps]
  BY DEF NextPerson
<1>5. PICK again \in BOOLEAN :
         work' = [work EXCEPT ![w].person = u,
                              ![w].people = IF again THEN {} ELSE @ \ {u},
                              ![w].todo = IF again THEN {} ELSE work[w].apps]
  BY <1>4
<1>6. /\ member' \subseteq Users \X Groups /\ groupApps' \subseteq Groups \X Apps /\ catalog' \subseteq Apps
      /\ UNCHANGED <<userApp, packageLocks>>
  <2>1. <<u, work[w].group>> \in Users \X Groups
    BY <1>1, <1>4 DEF Works
  <2>2. member' \subseteq member \cup {<<u, work[w].group>>}
    BY <1>4
  <2> QED
    BY <2>1, <2>2 DEF NextPerson, DirectoryTypeOK
<1> DEFINE c == [work[w] EXCEPT !.person = u,
                                !.people = IF again THEN {} ELSE @ \ {u},
                                !.todo = IF again THEN {} ELSE work[w].apps]
<1>7. c \in Works /\ c.op = Op(w) /\ c.at = "next"
  BY <1>1, <1>4 DEF Works, Op
<1>8. work' = [work EXCEPT ![w] = c]
  BY <1>1, <1>5 DEF Works
<1> HIDE DEF c
<1>9. WalksOn(w, c)
  BY <1>1, <1>2, <1>7, <1>8 DEF WalksOn, Erasing
<1>10. /\ work' \in [Workers -> Works] /\ work'[w] = c /\ \A v \in Workers \ {w} : work'[v] = work[v]
       /\ RequestsOnlyEnrol' /\ ErasersWalk' /\ KeepsErasers
  BY <1>3, <1>7, <1>9, Walks DEF SameHandlers
<1>11. DirectoryTypeOK'
  BY <1>6, <1>10 DEF DirectoryTypeOK
<1>12. PackagesLocked'
  BY <1>6, <1>7, <1>10, NoPackage DEF UnderLock
<1> QED
  BY <1>3, <1>10, <1>11, <1>12, CallStep

LEMMA NextAppKeeps ==
    ASSUME AccountInv, NEW w \in Workers, NextApp(w)
    PROVE  AccountInv'
<1> USE DEF AccountInv, RowsInv, KeysInv
<1>1. ~Free(w) /\ work[w].at = "next" /\ work[w] \in Works /\ work \in [Workers -> Works]
  BY DEF NextApp, In, DirectoryTypeOK
<1>2. Op(w) # "erase"
  BY <1>1, NotErasing DEF Erasing
<1>3. SameHandlers
  BY DEF NextApp, SameAccounts, activationVars, loginVars, SameHandlers
<1>4. PICK a \in work[w].todo, place \in {"lock", "check"} :
         work' = [work EXCEPT ![w].app = a, ![w].todo = @ \ {a}, ![w].at = place]
  BY DEF NextApp
<1>5. /\ member' \subseteq Users \X Groups /\ groupApps' \subseteq Groups \X Apps /\ catalog' \subseteq Apps
      /\ UNCHANGED <<userApp, packageLocks>>
  BY DEF NextApp, SameTables, DirectoryTypeOK
<1> DEFINE c == [work[w] EXCEPT !.app = a, !.todo = @ \ {a}, !.at = place]
<1>7. c \in Works /\ c.op = Op(w) /\ c.at = place
  BY <1>1, <1>4 DEF Works, Op, WorkPlaces
<1>8. work' = [work EXCEPT ![w] = c]
  BY <1>1, <1>4 DEF Works
<1> HIDE DEF c
<1>9. WalksOn(w, c)
  BY <1>1, <1>2, <1>7, <1>8 DEF WalksOn, Erasing
<1>10. /\ work' \in [Workers -> Works] /\ work'[w] = c /\ \A v \in Workers \ {w} : work'[v] = work[v]
       /\ RequestsOnlyEnrol' /\ ErasersWalk' /\ KeepsErasers
  BY <1>3, <1>7, <1>9, Walks DEF SameHandlers
<1>11. DirectoryTypeOK'
  BY <1>5, <1>10 DEF DirectoryTypeOK
<1>12. PackagesLocked'
  BY <1>5, <1>7, <1>10, NoPackage DEF UnderLock
<1> QED
  BY <1>3, <1>10, <1>11, <1>12, CallStep

LEMMA CheckKeeps ==
    ASSUME AccountInv, NEW w \in Workers, Check(w)
    PROVE  AccountInv'
<1> USE DEF AccountInv, RowsInv, KeysInv
<1>1. ~Free(w) /\ work[w].at = "check" /\ work[w] \in Works /\ work \in [Workers -> Works]
  BY DEF Check, In, DirectoryTypeOK
<1>2. Op(w) # "erase"
  BY <1>1, NotErasing DEF Erasing
<1>3. SameHandlers
  BY DEF Check, SameAccounts, activationVars, loginVars, SameHandlers
<1>4. /\ member' \subseteq Users \X Groups /\ groupApps' \subseteq Groups \X Apps /\ catalog' \subseteq Apps
      /\ UNCHANGED <<userApp, packageLocks>>
  BY <1>1 DEF Check, SameTables, DirectoryTypeOK, Works
<1>5. CASE Failed(w)
  <2>1. Steps(w, "next")
    BY <1>1, <1>2, <1>3, <1>5, FailedPlace DEF SameHandlers
  <2> QED
    BY <1>3, <1>4, <2>1, CallWalks DEF WorkPlaces, UnderLock
<1>6. CASE \E place \in {"next", "lock"} : Next_(w, place)
  <2>1. PICK place \in {"next", "lock"} : Next_(w, place)
    BY <1>6
  <2>2. place \in WorkPlaces \ UnderLock /\ place \notin Erasing
    BY DEF WorkPlaces, UnderLock, Erasing
  <2>3. Steps(w, place)
    BY <1>1, <1>2, <1>3, <2>1, <2>2, NextPlace DEF SameHandlers
  <2> QED
    BY <1>3, <1>4, <2>2, <2>3, CallWalks
<1> QED
  BY <1>5, <1>6 DEF Check

LEMMA GiveUpKeeps ==
    ASSUME AccountInv, NEW w \in Workers, GiveUp(w)
    PROVE  AccountInv'
<1> USE DEF AccountInv, RowsInv, KeysInv
<1>1. ~Free(w) /\ work[w].at = "lock" /\ work[w] \in Works /\ work \in [Workers -> Works]
  BY DEF GiveUp, In, DirectoryTypeOK
<1>2. Op(w) # "erase"
  BY <1>1, NotErasing DEF Erasing
<1>3. SameHandlers
  BY DEF GiveUp, SameAccounts, activationVars, loginVars, SameHandlers
<1>4. /\ member' \subseteq Users \X Groups /\ groupApps' \subseteq Groups \X Apps /\ catalog' \subseteq Apps
      /\ UNCHANGED <<userApp, packageLocks>>
  BY <1>1 DEF GiveUp, SameTables, DirectoryTypeOK, Works
<1>5. Steps(w, "next")
  <2>1. "next" \in WorkPlaces /\ "next" \notin Erasing
    BY DEF WorkPlaces, Erasing
  <2> QED
    BY <1>1, <1>2, <1>3, <2>1, FailedPlace, NextPlace DEF GiveUp, SameHandlers
<1> QED
  BY <1>3, <1>4, <1>5, CallWalks DEF WorkPlaces, UnderLock

\* What the step of one call means for the packages of the others.
LEMMA PackagesMove ==
    ASSUME PackagesLocked, NEW w \in Workers, NEW place, Steps(w, place),
           \A v \in Workers \ {w} : Locked(v) => Package(v) \in packageLocks',
           \A v \in Workers \ {w} : Locked(v) => userApp'[Package(v)] = userApp[Package(v)],
           place \in UnderLock => /\ Package(w) \in packageLocks'
                                  /\ \A v \in Workers \ {w} : Locked(v) => Package(v) # Package(w),
           place \in {"groups", "having", "copied", "none"} /\ Op(w) # "take" /\ Package(w) \in Users \X Apps =>
               userApp'[Package(w)] # "private"
    PROVE  PackagesLocked'
<1>1. \A v \in Workers \ {w} : /\ Locked(v)' <=> Locked(v)
                               /\ Package(v)' = Package(v) /\ Op(v)' = Op(v) /\ work'[v].at = work[v].at
  BY DEF Steps, Locked, Free, Package, Op
<1>2. Package(w)' = Package(w) /\ work'[w].at = place /\ Op(w)' = Op(w) /\ (Locked(w)' => place \in UnderLock)
  BY DEF Steps, Locked, UnderLock, Op
<1> QED
  BY <1>1, <1>2 DEF PackagesLocked

LEMMA LockKeeps ==
    ASSUME AccountInv, NEW w \in Workers, Lock(w)
    PROVE  AccountInv'
<1> USE DEF AccountInv, RowsInv, KeysInv
<1>1. ~Free(w) /\ work[w].at = "lock" /\ work[w] \in Works /\ work \in [Workers -> Works]
  BY DEF Lock, In, DirectoryTypeOK
<1>2. Op(w) # "erase"
  BY <1>1, NotErasing DEF Erasing
<1>3. SameHandlers
  BY DEF Lock, SameAccounts, activationVars, loginVars, SameHandlers
<1>4. Steps(w, "look")
  BY <1>1, <1>2, <1>3, NextPlace DEF Lock, SameHandlers, WorkPlaces, Erasing
<1>5. DirectoryTypeOK'
  BY <1>1, <1>4 DEF Lock, SameTables, Steps, DirectoryTypeOK
<1>6. PackagesLocked'
  <2>1. packageLocks' = packageLocks \cup {Package(w)} /\ Package(w) \notin packageLocks /\ userApp' = userApp
    BY DEF Lock, SameTables
  <2>2. \A v \in Workers \ {w} : Locked(v) => Package(v) \in packageLocks
    BY DEF PackagesLocked
  <2> QED
    BY <1>4, <2>1, <2>2, PackagesMove
<1> QED
  BY <1>3, <1>4, <1>5, <1>6, CallStep DEF Steps

LEMMA LookKeeps ==
    ASSUME AccountInv, NEW w \in Workers, Look(w)
    PROVE  AccountInv'
<1> USE DEF AccountInv, RowsInv, KeysInv
<1>1. ~Free(w) /\ work[w].at = "look" /\ work[w] \in Works /\ work \in [Workers -> Works]
  BY DEF Look, In, DirectoryTypeOK
<1>2. Op(w) # "erase"
  BY <1>1, NotErasing DEF Erasing
<1>3. SameHandlers
  BY DEF Look, SameAccounts, activationVars, loginVars, SameHandlers
<1>4. PICK place \in {"unlock", "groups", "private", "copied", "none"} :
         /\ Next_(w, place)
         /\ place \in {"groups", "having", "copied", "none"} /\ Op(w) # "take" => userApp[Package(w)] # "private"
  <2>1. CASE userApp[Package(w)] = "private" /\ ~Private(w)
    BY <2>1 DEF Look
  <2>2. CASE ~(userApp[Package(w)] = "private" /\ ~Private(w))
    BY <2>2 DEF Look, Private, Installs
  <2> QED
    BY <2>1, <2>2
<1>5. place \in WorkPlaces /\ place \notin Erasing
  BY DEF WorkPlaces, Erasing
<1>6. Steps(w, place)
  BY <1>1, <1>2, <1>3, <1>4, <1>5, NextPlace DEF SameHandlers
<1>7. DirectoryTypeOK'
  BY <1>6 DEF Look, SameTables, Steps, DirectoryTypeOK
<1>8. PackagesLocked'
  <2>1. Package(w) \in packageLocks /\ \A v \in Workers \ {w} : Locked(v) => Package(v) \in packageLocks /\ Package(v) # Package(w)
    BY <1>1 DEF PackagesLocked, Locked
  <2>2. UNCHANGED <<userApp, packageLocks>>
    BY DEF Look, SameTables
  <2> QED
    BY <1>4, <1>6, <2>1, <2>2, PackagesMove
<1> QED
  BY <1>3, <1>6, <1>7, <1>8, CallStep DEF Steps

\* A step under the lock that reads and writes nothing but the call's own state.
ReadsOn(w, from, place, joined) ==
    /\ In(w, from)
    /\ work' = [work EXCEPT ![w].at = place, ![w].joined = joined]
    /\ SameTables /\ SameAccounts /\ UNCHANGED packageLocks

LEMMA ReadsUnderLock ==
    ASSUME AccountInv, NEW w \in Workers, NEW from \in {"groups", "having"},
           NEW place \in {"having", "copied", "none"}, NEW joined \in SUBSET Groups,
           ReadsOn(w, from, place, joined)
    PROVE  AccountInv'
<1> USE DEF ReadsOn
<1> USE DEF AccountInv, RowsInv, KeysInv
<1>1. ~Free(w) /\ work[w].at = from /\ work[w] \in Works /\ work \in [Workers -> Works]
  BY DEF In, DirectoryTypeOK
<1>2. Op(w) # "erase"
  BY <1>1, NotErasing DEF Erasing
<1>3. SameHandlers
  BY DEF SameAccounts, activationVars, loginVars, SameHandlers
<1>4. Steps(w, place)
  <2> DEFINE c == [work[w] EXCEPT !.at = place, !.joined = joined]
  <2>1. c \in Works /\ c.op = Op(w) /\ c.at = place /\ c.person = work[w].person /\ c.app = work[w].app
    BY <1>1 DEF Works, Op, WorkPlaces
  <2>2. work' = [work EXCEPT ![w] = c]
    BY <1>1 DEF Works
  <2> HIDE DEF c
  <2>3. WalksOn(w, c)
    BY <1>1, <1>2, <2>1, <2>2 DEF WalksOn, Erasing
  <2> QED
    BY <1>3, <2>1, <2>3, Walks DEF Steps, Package, SameHandlers
<1>5. DirectoryTypeOK'
  BY <1>4 DEF SameTables, Steps, DirectoryTypeOK
<1>6. PackagesLocked'
  <2>1. Package(w) \in packageLocks /\ \A v \in Workers \ {w} : Locked(v) => Package(v) \in packageLocks /\ Package(v) # Package(w)
    BY <1>1 DEF PackagesLocked, Locked
  <2>2. UNCHANGED <<userApp, packageLocks>>
    BY DEF SameTables
  <2>3. Op(w) # "take" /\ Package(w) \in Users \X Apps => userApp[Package(w)] # "private"
    BY <1>1 DEF PackagesLocked, Locked
  <2> QED
    BY <1>4, <2>1, <2>2, <2>3, PackagesMove
<1> QED
  BY <1>3, <1>4, <1>5, <1>6, CallStep DEF Steps

LEMMA ReadGroupsKeeps ==
    ASSUME AccountInv, NEW w \in Workers, ReadGroups(w)
    PROVE  AccountInv'
<1> DEFINE joined == {g \in Groups : <<work[w].person, g>> \in member}
<1>1. joined \in SUBSET Groups
  OBVIOUS
<1>2. ReadsOn(w, "groups", "having", joined)
  BY DEF ReadGroups, ReadsOn
<1> HIDE DEF joined
<1> QED
  BY <1>1, <1>2, ReadsUnderLock

LEMMA LookForAppKeeps ==
    ASSUME AccountInv, NEW w \in Workers, LookForApp(w)
    PROVE  AccountInv'
<1>1. PICK place \in {"copied", "none"} : ReadsOn(w, "having", place, {})
  BY DEF LookForApp, ReadsOn
<1> QED
  BY <1>1, ReadsUnderLock

LEMMA WriteKeeps ==
    ASSUME AccountInv, NEW w \in Workers, Write(w)
    PROVE  AccountInv'
<1> USE DEF AccountInv, RowsInv, KeysInv
<1>1. ~Free(w) /\ work[w].at \in {"private", "copied", "none"} /\ work[w] \in Works
  BY DEF Write, DirectoryTypeOK
<1>2. Op(w) # "erase"
  BY <1>1, NotErasing DEF Erasing
<1>3. SameHandlers
  BY DEF Write, SameAccounts, activationVars, loginVars, SameHandlers
<1>4. Steps(w, "unlock")
  BY <1>1, <1>2, <1>3, NextPlace DEF Write, SameHandlers, WorkPlaces, Erasing
<1>5. DirectoryTypeOK'
  <2>1. userApp' \in [Users \X Apps -> {"none", "copied", "private"}]
    BY <1>1 DEF Write, DirectoryTypeOK
  <2> QED
    BY <1>4, <2>1 DEF Write, Steps, DirectoryTypeOK
<1>6. PackagesLocked'
  <2>1. Package(w) \in packageLocks /\ \A v \in Workers \ {w} : Locked(v) => Package(v) \in packageLocks /\ Package(v) # Package(w)
    BY <1>1 DEF PackagesLocked, Locked
  <2>2. packageLocks' = packageLocks /\ \A p : p # Package(w) => userApp'[p] = userApp[p]
    BY DEF Write, DirectoryTypeOK
  <2> QED
    BY <1>4, <2>1, <2>2, PackagesMove
<1> QED
  BY <1>3, <1>4, <1>5, <1>6, CallStep DEF Steps

LEMMA UnlockKeeps ==
    ASSUME AccountInv, NEW w \in Workers, Unlock(w)
    PROVE  AccountInv'
<1> USE DEF AccountInv, RowsInv, KeysInv
<1>1. ~Free(w) /\ work[w].at = "unlock" /\ work[w] \in Works /\ work \in [Workers -> Works]
  BY DEF Unlock, In, DirectoryTypeOK
<1>2. Op(w) # "erase"
  BY <1>1, NotErasing DEF Erasing
<1>3. SameHandlers
  BY DEF Unlock, SameAccounts, activationVars, loginVars, SameHandlers
<1>4. Steps(w, "next")
  BY <1>1, <1>2, <1>3, NextPlace DEF Unlock, SameHandlers, WorkPlaces, Erasing
<1>5. DirectoryTypeOK'
  BY <1>1, <1>4 DEF Unlock, SameTables, Steps, DirectoryTypeOK
<1>6. PackagesLocked'
  <2>1. Package(w) \in packageLocks /\ \A v \in Workers \ {w} : Locked(v) => Package(v) \in packageLocks /\ Package(v) # Package(w)
    BY <1>1 DEF PackagesLocked, Locked
  <2>2. packageLocks' = packageLocks \ {Package(w)} /\ userApp' = userApp
    BY DEF Unlock, SameTables
  <2>3. "next" \notin UnderLock \cup {"copied", "none"}
    BY DEF UnderLock
  <2> QED
    BY <1>4, <2>1, <2>2, <2>3, PackagesMove
<1> QED
  BY <1>3, <1>4, <1>5, <1>6, CallStep DEF Steps

LEMMA WalkEndsKeeps ==
    ASSUME AccountInv, NEW w \in Workers, WalkEnds(w)
    PROVE  AccountInv'
<1> USE DEF AccountInv, RowsInv, KeysInv
<1>1. ~Free(w) /\ work[w].at = "next" /\ work[w] \in Works
  BY DEF WalkEnds, In, DirectoryTypeOK
<1>2. Op(w) # "erase"
  BY <1>1, NotErasing DEF Erasing
<1>3. /\ member' \subseteq Users \X Groups /\ groupApps' \subseteq Groups \X Apps /\ catalog' \subseteq Apps
      /\ UNCHANGED <<userApp, packageLocks>>
  BY <1>1 DEF WalkEnds, SameTables, DirectoryTypeOK, Works
<1>4. CASE Finished(w)
  BY <1>1, <1>2, <1>3, <1>4, CallEnds
<1>5. CASE Next_(w, "row") /\ SameAccounts
  <2>1. SameHandlers
    BY <1>5 DEF SameAccounts, activationVars, loginVars, SameHandlers
  <2>2. Steps(w, "row")
    BY <1>1, <1>2, <1>5, <2>1, NextPlace DEF SameHandlers, WorkPlaces, Erasing
  <2> QED
    BY <1>3, <2>1, <2>2, CallWalks DEF WorkPlaces, UnderLock
<1> QED
  BY <1>4, <1>5 DEF WalkEnds

LEMMA DeleteGroupRowKeeps ==
    ASSUME AccountInv, NEW w \in Workers, DeleteGroupRow(w)
    PROVE  AccountInv'
<1> USE DEF AccountInv, RowsInv, KeysInv
<1>1. ~Free(w) /\ work[w].at = "row" /\ work[w] \in Works
  BY DEF DeleteGroupRow, In, DirectoryTypeOK
<1>2. Op(w) # "erase"
  BY <1>1, NotErasing DEF Erasing
<1>3. /\ member' \subseteq Users \X Groups /\ groupApps' \subseteq Groups \X Apps /\ catalog' \subseteq Apps
      /\ UNCHANGED <<userApp, packageLocks>>
  BY <1>1 DEF DeleteGroupRow, SameTables, DirectoryTypeOK, Works
<1> QED
  BY <1>1, <1>2, <1>3, CallEnds DEF DeleteGroupRow

LEMMA DeleteEntryKeeps ==
    ASSUME AccountInv, NEW w \in Workers, DeleteEntry(w)
    PROVE  AccountInv'
<1> USE DEF AccountInv, RowsInv, KeysInv
<1>1. ~Free(w) /\ work[w].at = "entry" /\ work[w] \in Works
  BY DEF DeleteEntry, In, DirectoryTypeOK
<1>2. Op(w) # "erase"
  BY <1>1, NotErasing DEF Erasing
<1>3. /\ member' \subseteq Users \X Groups /\ groupApps' \subseteq Groups \X Apps /\ catalog' \subseteq Apps
      /\ UNCHANGED <<userApp, packageLocks>>
  BY <1>1 DEF DeleteEntry, SameTables, DirectoryTypeOK, Works
<1> QED
  BY <1>1, <1>2, <1>3, CallEnds DEF DeleteEntry

LEMMA LookForOwnersKeeps ==
    ASSUME AccountInv, NEW w \in Workers, LookForOwners(w)
    PROVE  AccountInv'
<1> USE DEF AccountInv, RowsInv, KeysInv
<1>1. ~Free(w) /\ work[w].at = "owners" /\ work[w] \in Works
  BY DEF LookForOwners, In, DirectoryTypeOK
<1>2. Op(w) # "erase"
  BY <1>1, NotErasing DEF Erasing
<1>3. /\ member' \subseteq Users \X Groups /\ groupApps' \subseteq Groups \X Apps /\ catalog' \subseteq Apps
      /\ UNCHANGED <<userApp, packageLocks>>
  BY <1>1 DEF LookForOwners, SameTables, DirectoryTypeOK, Works
<1>4. CASE Finished(w)
  BY <1>1, <1>2, <1>3, <1>4, CallEnds
<1>5. CASE Next_(w, "entry") /\ SameAccounts
  <2>1. SameHandlers
    BY <1>5 DEF SameAccounts, activationVars, loginVars, SameHandlers
  <2>2. Steps(w, "entry")
    BY <1>1, <1>2, <1>5, <2>1, NextPlace DEF SameHandlers, WorkPlaces, Erasing
  <2> QED
    BY <1>3, <2>1, <2>2, CallWalks DEF WorkPlaces, UnderLock
<1> QED
  BY <1>4, <1>5 DEF LookForOwners

LEMMA DeleteUserAppsKeeps ==
    ASSUME AccountInv, NEW w \in Workers, DeleteUserApps(w)
    PROVE  AccountInv'
<1> USE DEF AccountInv, RowsInv, KeysInv
<1>1. ~Free(w) /\ work[w].at = "apps of" /\ work[w] \in Works
  BY DEF DeleteUserApps, In, DirectoryTypeOK
<1>2. Op(w) = "erase"
  BY <1>1 DEF ErasersWalk
<1>3. SameHandlers
  BY DEF DeleteUserApps, SameAccounts, activationVars, loginVars, SameHandlers
<1>4. Steps(w, "devices of")
  BY <1>1, <1>2, <1>3, NextPlace DEF DeleteUserApps, SameHandlers, WorkPlaces, Erasing
<1>5. DirectoryTypeOK'
  <2>1. userApp' \in [Users \X Apps -> {"none", "copied", "private"}]
    BY DEF DeleteUserApps, DirectoryTypeOK
  <2> QED
    BY <1>4, <2>1 DEF DeleteUserApps, Steps, DirectoryTypeOK
<1>6. PackagesLocked'
  <2>1. packageLocks' = packageLocks /\ \A p \in Users \X Apps : userApp'[p] = userApp[p] \/ userApp'[p] = "none"
    BY DEF DeleteUserApps, DirectoryTypeOK
  <2>2. ~Locked(w)'
    BY <1>4 DEF Steps, Locked, Free
  <2>3. \A v \in Workers \ {w} : /\ Locked(v)' <=> Locked(v)
                                 /\ Package(v)' = Package(v) /\ Op(v)' = Op(v) /\ work'[v].at = work[v].at
    BY <1>4 DEF Steps, Locked, Free, Package, Op
  <2> QED
    BY <2>1, <2>2, <2>3 DEF PackagesLocked
<1> QED
  BY <1>3, <1>4, <1>5, <1>6, CallStep DEF Steps

LEMMA DeleteUserGroupsKeeps ==
    ASSUME AccountInv, NEW w \in Workers, DeleteUserGroups(w)
    PROVE  AccountInv'
<1> USE DEF AccountInv, RowsInv, KeysInv
<1>1. ~Free(w) /\ work[w].at = "groups of" /\ work[w] \in Works
  BY DEF DeleteUserGroups, In, DirectoryTypeOK
<1>2. Op(w) = "erase"
  BY <1>1 DEF ErasersWalk
<1>3. SameHandlers
  BY DEF DeleteUserGroups, SameAccounts, activationVars, loginVars, SameHandlers
<1>4. Steps(w, "rows of")
  BY <1>1, <1>2, <1>3, NextPlace DEF DeleteUserGroups, SameHandlers, WorkPlaces, Erasing
<1>5. /\ member' \subseteq Users \X Groups /\ groupApps' \subseteq Groups \X Apps /\ catalog' \subseteq Apps
      /\ UNCHANGED <<userApp, packageLocks>>
  BY DEF DeleteUserGroups, DirectoryTypeOK
<1> QED
  BY <1>3, <1>4, <1>5, CallWalks DEF WorkPlaces, UnderLock

\* A call changes rows, and no handler moves.
LEMMA CallOnRows ==
    ASSUME AccountInv, RowsTyped, RowsWane, DevicesTyped, user' \subseteq Users, broken' \subseteq Keys,
           UNCHANGED <<req, login, copy, given>>,
           DirectoryTypeOK', RequestsOnlyEnrol', ErasersWalk', PackagesLocked', DeviceThere', UserThere'
    PROVE  AccountInv'
<1> USE DEF AccountInv, RowsInv, KeysInv
<1>1. RowTypeOK' /\ LoginTypeOK'
  BY DEF RowTypeOK, LoginTypeOK, RowsTyped, DevicesTyped
<1>2. Onward /\ KeepsActive
  BY WaneOnward
<1>3. RequestsFit'
  BY FitsQuiet
<1>4. LoginsNameRows'
  BY <1>2, LoginsStay
<1>5. ActiveAlone'
  BY <1>2 DEF ActiveAlone, KeepsActive, At, Key
<1>6. FactorsEarned'
  BY DEF FactorsEarned, Earned
<1> QED
  BY <1>1, <1>3, <1>4, <1>5, <1>6

LEMMA DeleteUserDevicesKeeps ==
    ASSUME AccountInv, NEW w \in Workers, DeleteUserDevices(w)
    PROVE  AccountInv'
<1> USE DEF AccountInv, RowsInv, KeysInv
<1>1. ~Free(w) /\ work[w].at = "devices of" /\ work[w] \in Works
  BY DEF DeleteUserDevices, In, DirectoryTypeOK
<1>2. Op(w) = "erase"
  BY <1>1 DEF ErasersWalk
<1>3. UNCHANGED <<act, user, req, broken, login, copy, given, userApp, packageLocks, member, groupApps, catalog>>
  BY DEF DeleteUserDevices, SameTables, loginVars
<1>4. Steps(w, "groups of")
  BY <1>1, <1>2, <1>3, NextPlace DEF DeleteUserDevices, WorkPlaces, Erasing
<1>5. DirectoryTypeOK'
  BY <1>3, <1>4 DEF Steps, DirectoryTypeOK
<1>6. PackagesLocked'
  BY <1>3, <1>4, NoPackage DEF Steps, UnderLock
<1>7. RowsTyped /\ RowsWane /\ user' \subseteq Users /\ broken' \subseteq Keys
  BY <1>3 DEF RowsTyped, RowsWane, Wanes, RowTypeOK
<1>8. DevicesTyped
  <2>1. NoDevice \in [row : BOOLEAN, active : BOOLEAN, attempts : Nat]
    BY DEF NoDevice
  <2> QED
    BY <2>1 DEF DeleteUserDevices, DevicesTyped, RowTypeOK
<1>9. \A u : Erased(u) => Erased(u)'
  BY <1>4 DEF Steps, KeepsErasers, Erased
<1>10. DeviceThere'
  <2>1. ASSUME NEW k \in Keys, Active(k)'
        PROVE  (\/ device[Owner[k]].row \/ Erased(Owner[k][1])
                \/ \E r \in Requests : Making(r, k) \/ (At(r, "rows") /\ Of(r) = Owner[k]))'
    <3>1. Active(k)
      BY <1>3, <2>1 DEF Active
    <3>2. CASE \E r \in Requests : Making(r, k) \/ (At(r, "rows") /\ Of(r) = Owner[k])
      BY <1>3, <3>2 DEF Making, At, Key, Of
    <3>3. CASE Erased(Owner[k][1])
      BY <1>9, <3>3
    <3>4. CASE device[Owner[k]].row
      <4>1. Owner[k] \in Accounts
        BY ActivationAssumption
      <4>2. device'[Owner[k]] = device[Owner[k]] \/ Owner[k][1] = work[w].person
        BY <4>1 DEF DeleteUserDevices
      <4>3. Erased(work[w].person)
        BY <1>2 DEF Erased
      <4> QED
        BY <1>9, <3>4, <4>2, <4>3
    <3> QED
      BY <3>1, <3>2, <3>3, <3>4 DEF DeviceThere
  <2> QED
    BY <2>1 DEF DeviceThere
<1>11. UserThere'
  BY <1>3, <1>9 DEF UserThere, Active, Exists, Key, Of
<1> QED
  BY <1>3, <1>4, <1>5, <1>6, <1>7, <1>8, <1>10, <1>11, CallOnRows DEF Steps

LEMMA DeleteUserActivationsKeeps ==
    ASSUME AccountInv, NEW w \in Workers, DeleteUserActivations(w)
    PROVE  AccountInv'
<1> USE DEF AccountInv, RowsInv, KeysInv
<1>1. ~Free(w) /\ work[w].at = "rows of" /\ work[w] \in Works
  BY DEF DeleteUserActivations, In, DirectoryTypeOK
<1>2. Op(w) = "erase"
  BY <1>1 DEF ErasersWalk
<1>3. UNCHANGED <<device, user, req, broken, login, copy, given, userApp, packageLocks, member, groupApps, catalog>>
  BY DEF DeleteUserActivations, SameTables, loginVars
<1>4. work' \in [Workers -> Works] /\ work'[w] = NoWork /\ \A v \in Workers \ {w} : work'[v] = work[v]
  BY NoWorkIs DEF DeleteUserActivations, DirectoryTypeOK
<1>5. DirectoryTypeOK'
  BY <1>3, <1>4 DEF DirectoryTypeOK
<1>6. PackagesLocked'
  BY <1>3, <1>4, NoWorkIs, NoPackage
<1>7. ErasersWalk'
  BY <1>4, NoWorkIs DEF ErasersWalk, Op, Free
<1>8. RequestsOnlyEnrol'
  <2>1. w \notin Requests
    BY <1>2 DEF RequestsOnlyEnrol
  <2> QED
    BY <1>3, <1>4, <2>1 DEF RequestsOnlyEnrol, Workers, Op, Free
<1>9. \A k \in Keys : IF Exists(k) /\ Owner[k][1] = work[w].person THEN act'[k].status = "gone" ELSE act'[k] = act[k]
  BY DEF DeleteUserActivations, NoRow
<1>10. RowsTyped
  <2>1. [NoRow EXCEPT !.status = "gone"] \in Rows
    BY DEF NoRow, Rows
  <2> QED
    BY <2>1 DEF DeleteUserActivations, RowsTyped, RowTypeOK
<1>11. RowsWane /\ user' \subseteq Users /\ broken' \subseteq Keys /\ DevicesTyped
  BY <1>3, <1>9 DEF RowsWane, Wanes, RowTypeOK, Exists, DevicesTyped
<1>12. \A u : u # work[w].person /\ Erased(u) => Erased(u)'
  BY <1>4 DEF Erased, Op
<1>13. \A k \in Keys : /\ Active(k)' => Active(k) /\ Owner[k][1] # work[w].person
                       /\ Exists(k)' => Exists(k) /\ Owner[k][1] # work[w].person
  BY <1>3, <1>9 DEF Active, Exists, Resets
<1>14. DeviceThere'
  <2>1. ASSUME NEW k \in Keys, Active(k)'
        PROVE  (\/ device[Owner[k]].row \/ Erased(Owner[k][1])
                \/ \E r \in Requests : Making(r, k) \/ (At(r, "rows") /\ Of(r) = Owner[k]))'
    <3>1. \/ device[Owner[k]].row \/ Erased(Owner[k][1])
          \/ \E r \in Requests : Making(r, k) \/ (At(r, "rows") /\ Of(r) = Owner[k])
      BY <1>13, <2>1 DEF DeviceThere
    <3>2. CASE \E r \in Requests : Making(r, k) \/ (At(r, "rows") /\ Of(r) = Owner[k])
      BY <1>3, <3>2 DEF Making, At, Key, Of
    <3> QED
      BY <1>3, <1>12, <1>13, <2>1, <3>1, <3>2
  <2> QED
    BY <2>1 DEF DeviceThere
<1>15. UserThere'
  <2>1. ASSUME NEW k \in Keys, Active(k)' PROVE Owner[k][1] \in user' \/ Erased(Owner[k][1])'
    BY <1>3, <1>12, <1>13, <2>1 DEF UserThere
  <2>2. ASSUME NEW q \in Requests, req'[q].at \in {"enrol", "activate"}, (Exists(Key(q)) /\ Key(q) \notin broken)'
        PROVE  Of(q)'[1] \in user' \/ Erased(Of(q)[1])'
    <3>1. req'[q] = req[q] /\ Key(q)' = Key(q) /\ Of(q)' = Owner[Key(q)]
      BY <1>3 DEF Key, Of
    <3>2. Key(q) \in Keys
      BY <2>2, <3>1 DEF RequestsFit, RequestFits, At, Key
    <3>3. Exists(Key(q)) /\ Key(q) \notin broken /\ Owner[Key(q)][1] # work[w].person
      BY <1>3, <1>13, <2>2, <3>1, <3>2 DEF Exists
    <3>4. Owner[Key(q)][1] \in user \/ Erased(Owner[Key(q)][1])
      BY <2>2, <3>1, <3>3 DEF UserThere, Of, Key
    <3> QED
      BY <1>3, <1>12, <3>1, <3>3, <3>4
  <2> QED
    BY <2>1, <2>2 DEF UserThere
<1> QED
  BY <1>3, <1>5, <1>6, <1>7, <1>8, <1>10, <1>11, <1>14, <1>15, CallOnRows

\* A call of the control panel begins.
LEMMA BeginsIs ==
    ASSUME NEW w, Begins(w)
    PROVE  w \in Admins /\ w \in Workers /\ w \notin Requests /\ Free(w)
BY DirectoryAssumption DEF Begins, Workers

LEMMA JoinIs ==
    ASSUME NEW g \in Groups, NEW people \in SUBSET Users
    PROVE  [NoWork EXCEPT !.op = "join", !.at = "apps", !.group = g, !.people = people] \in Works
BY NoWorkIs DEF Works, Calls, Installs, WorkPlaces

LEMMA CallBegins ==
    ASSUME AccountInv, NEW w, NEW op \in Calls \ {"none", "erase"}, NEW place \in {"apps", "group", "next", "owners"},
           NEW g \in Groups, NEW people \in SUBSET Users, NEW apps \in SUBSET Apps,
           Call(w, op, place, g, people, apps)
    PROVE  AccountInv'
<1> USE DEF AccountInv, RowsInv, KeysInv
<1>1. w \in Workers /\ w \notin Requests /\ Free(w)
  BY BeginsIs DEF Call
<1>2. SameHandlers
  BY DEF Call, SameHandlers, loginVars
<1> DEFINE c == [NoWork EXCEPT !.op = op, !.at = place, !.group = g, !.people = people, !.apps = apps]
<1>3. c \in Works /\ c.op = op /\ c.at = place
  BY NoWorkIs DEF Works, WorkPlaces
<1>4. work' = [work EXCEPT ![w] = c]
  BY DEF Call
<1> HIDE DEF c
<1>5. c.op # "none" /\ (c.op = "erase" <=> c.at \in Erasing) /\ c.at \notin UnderLock
  BY <1>3 DEF Erasing, UnderLock
<1>6. /\ work' \in [Workers -> Works] /\ work'[w] = c /\ \A v \in Workers \ {w} : work'[v] = work[v]
      /\ RequestsOnlyEnrol' /\ ErasersWalk' /\ KeepsErasers
  BY <1>1, <1>2, <1>3, <1>4, <1>5, Begun DEF SameHandlers
<1>7. UNCHANGED <<member, groupApps, userApp, catalog, packageLocks>>
  BY DEF Call, SameTables
<1>8. DirectoryTypeOK'
  BY <1>6, <1>7 DEF DirectoryTypeOK
<1>9. PackagesLocked'
  BY <1>1, <1>5, <1>6, <1>7, NoPackage
<1> QED
  BY <1>2, <1>6, <1>8, <1>9, CallStep

\* The calls that begin so.
LEMMA JoinsKeep ==
    ASSUME AccountInv, NEW w, NEW g \in Groups, NEW people \in SUBSET user,
           JoinGroup(w, g, people) \/ LeaveGroup(w, g, people)
    PROVE  AccountInv'
<1>1. /\ user \subseteq Users /\ \A p \in SUBSET user : p \in SUBSET Users
      /\ \A v \in user : {v} \in SUBSET Users
      /\ \A b \in Apps : {b} \in SUBSET Apps
      /\ {} \in SUBSET Users /\ {} \in SUBSET Apps
  BY DEF AccountInv, RowsInv, KeysInv, RowTypeOK
<1>2. AllGroup \in Groups /\ \A h : {v \in Users : <<v, h>> \in member} \in SUBSET Users
  BY DirectoryAssumption
<1>3. {"join", "leave", "drop", "install", "strip", "give", "take", "delete"} \subseteq Calls \ {"none", "erase"}
  BY DEF Calls, Installs, Removals
<1>4. CASE JoinGroup(w, g, people)
  BY <1>1, <1>2, <1>3, <1>4, CallBegins DEF JoinGroup
<1>5. CASE LeaveGroup(w, g, people)
  BY <1>1, <1>2, <1>3, <1>5, CallBegins DEF LeaveGroup
<1> QED
  BY <1>4, <1>5

LEMMA DropsKeep ==
    ASSUME AccountInv, NEW w, NEW g \in Groups,
           DropGroup(w, g)
    PROVE  AccountInv'
<1>1. /\ user \subseteq Users /\ \A p \in SUBSET user : p \in SUBSET Users
      /\ \A v \in user : {v} \in SUBSET Users
      /\ \A b \in Apps : {b} \in SUBSET Apps
      /\ {} \in SUBSET Users /\ {} \in SUBSET Apps
  BY DEF AccountInv, RowsInv, KeysInv, RowTypeOK
<1>2. AllGroup \in Groups /\ \A h : {v \in Users : <<v, h>> \in member} \in SUBSET Users
  BY DirectoryAssumption
<1>3. {"join", "leave", "drop", "install", "strip", "give", "take", "delete"} \subseteq Calls \ {"none", "erase"}
  BY DEF Calls, Installs, Removals
<1>4. CASE DropGroup(w, g)
  BY <1>1, <1>2, <1>3, <1>4, CallBegins DEF DropGroup
<1> QED
  BY <1>4

LEMMA InstallsKeep ==
    ASSUME AccountInv, NEW w, NEW g \in Groups, NEW a \in Apps,
           InstallToGroup(w, g, a) \/ StripGroup(w, g, a)
    PROVE  AccountInv'
<1>1. /\ user \subseteq Users /\ \A p \in SUBSET user : p \in SUBSET Users
      /\ \A v \in user : {v} \in SUBSET Users
      /\ \A b \in Apps : {b} \in SUBSET Apps
      /\ {} \in SUBSET Users /\ {} \in SUBSET Apps
  BY DEF AccountInv, RowsInv, KeysInv, RowTypeOK
<1>2. AllGroup \in Groups /\ \A h : {v \in Users : <<v, h>> \in member} \in SUBSET Users
  BY DirectoryAssumption
<1>3. {"join", "leave", "drop", "install", "strip", "give", "take", "delete"} \subseteq Calls \ {"none", "erase"}
  BY DEF Calls, Installs, Removals
<1>4. CASE InstallToGroup(w, g, a)
  BY <1>1, <1>2, <1>3, <1>4, CallBegins DEF InstallToGroup
<1>5. CASE StripGroup(w, g, a)
  BY <1>1, <1>2, <1>3, <1>5, CallBegins DEF StripGroup
<1> QED
  BY <1>4, <1>5

LEMMA GivesKeep ==
    ASSUME AccountInv, NEW w, NEW u \in user, NEW a \in Apps,
           GiveApp(w, u, a) \/ TakeApp(w, u, a)
    PROVE  AccountInv'
<1>1. /\ user \subseteq Users /\ \A p \in SUBSET user : p \in SUBSET Users
      /\ \A v \in user : {v} \in SUBSET Users
      /\ \A b \in Apps : {b} \in SUBSET Apps
      /\ {} \in SUBSET Users /\ {} \in SUBSET Apps
  BY DEF AccountInv, RowsInv, KeysInv, RowTypeOK
<1>2. AllGroup \in Groups /\ \A h : {v \in Users : <<v, h>> \in member} \in SUBSET Users
  BY DirectoryAssumption
<1>3. {"join", "leave", "drop", "install", "strip", "give", "take", "delete"} \subseteq Calls \ {"none", "erase"}
  BY DEF Calls, Installs, Removals
<1>4. CASE GiveApp(w, u, a)
  BY <1>1, <1>2, <1>3, <1>4, CallBegins DEF GiveApp
<1>5. CASE TakeApp(w, u, a)
  BY <1>1, <1>2, <1>3, <1>5, CallBegins DEF TakeApp
<1> QED
  BY <1>4, <1>5

LEMMA DeleteAppKeeps ==
    ASSUME AccountInv, NEW w, NEW a \in Apps,
           DeleteApp(w, a)
    PROVE  AccountInv'
<1>1. /\ user \subseteq Users /\ \A p \in SUBSET user : p \in SUBSET Users
      /\ \A v \in user : {v} \in SUBSET Users
      /\ \A b \in Apps : {b} \in SUBSET Apps
      /\ {} \in SUBSET Users /\ {} \in SUBSET Apps
  BY DEF AccountInv, RowsInv, KeysInv, RowTypeOK
<1>2. AllGroup \in Groups /\ \A h : {v \in Users : <<v, h>> \in member} \in SUBSET Users
  BY DirectoryAssumption
<1>3. {"join", "leave", "drop", "install", "strip", "give", "take", "delete"} \subseteq Calls \ {"none", "erase"}
  BY DEF Calls, Installs, Removals
<1>4. CASE DeleteApp(w, a)
  BY <1>1, <1>2, <1>3, <1>4, CallBegins DEF DeleteApp
<1> QED
  BY <1>4

LEMMA CreateGroupKeeps ==
    ASSUME AccountInv, NEW w, NEW g \in Groups, NEW people \in SUBSET user, CreateGroup(w, g, people)
    PROVE  AccountInv'
<1> USE DEF AccountInv, RowsInv, KeysInv
<1>1. w \in Workers /\ w \notin Requests /\ Free(w) /\ people \in SUBSET Users
  BY BeginsIs DEF CreateGroup, RowTypeOK
<1>2. SameHandlers
  BY DEF CreateGroup, SameHandlers, loginVars
<1> DEFINE c == [NoWork EXCEPT !.op = "join", !.at = "apps", !.group = g, !.people = people]
<1>3. c \in Works
  BY <1>1, JoinIs
<1>5. c.op = "join" /\ c.at = "apps"
  BY DEF NoWork
<1>4. work' = [work EXCEPT ![w] = c]
  BY DEF CreateGroup
<1> HIDE DEF c
<1>6. /\ work' \in [Workers -> Works] /\ work'[w] = c /\ \A v \in Workers \ {w} : work'[v] = work[v]
      /\ RequestsOnlyEnrol' /\ ErasersWalk' /\ KeepsErasers
  BY <1>1, <1>2, <1>3, <1>4, <1>5, Begun DEF SameHandlers, Erasing
<1>7. UNCHANGED <<member, groupApps, userApp, catalog, packageLocks>>
  BY DEF CreateGroup
<1>8. DirectoryTypeOK'
  BY <1>6, <1>7 DEF DirectoryTypeOK
<1>9. PackagesLocked'
  BY <1>1, <1>5, <1>6, <1>7, NoPackage DEF UnderLock
<1> QED
  BY <1>2, <1>6, <1>8, <1>9, CallStep

LEMMA EnrolKeeps ==
    ASSUME AccountInv, NEW w \in Workers, Enrol(w)
    PROVE  AccountInv'
<1> USE DEF AccountInv, RowsInv, KeysInv
<1> DEFINE u == IF At(w, "enrol") THEN Of(w)[1] ELSE User(w)
<1>1. w \in Requests /\ Free(w) /\ req[w].at \in {"enrol", "venrol"}
  BY DEF Enrol, At
<1>2. u \in Users
  <2>1. CASE At(w, "enrol")
    <3>1. Key(w) \in Keys
      BY <1>1, <2>1 DEF RequestsFit, RequestFits, At
    <3> QED
      BY <2>1, <3>1, ActivationAssumption DEF Of, Key, Accounts
  <2>2. CASE ~At(w, "enrol")
    BY <1>1, <2>2, CopyIs DEF LoginWork, At
  <2> QED
    BY <2>1, <2>2
<1>3. SameHandlers
  BY DEF Enrol, SameAccounts, activationVars, loginVars, SameHandlers
<1> DEFINE c == [NoWork EXCEPT !.op = "join", !.at = "apps", !.people = {u}]
<1>4. work' = [work EXCEPT ![w] = c]
  BY DEF Enrol
<1> HIDE DEF u
<1>5. c \in Works /\ c.op = "join" /\ c.at = "apps"
  BY <1>2, NoWorkIs DEF Works, Calls, Installs, WorkPlaces
<1> HIDE DEF c
<1>6. /\ work' \in [Workers -> Works] /\ work'[w] = c /\ \A v \in Workers \ {w} : work'[v] = work[v]
      /\ RequestsOnlyEnrol' /\ ErasersWalk' /\ KeepsErasers
  BY <1>1, <1>3, <1>4, <1>5, Begun DEF SameHandlers, Erasing
<1>7. UNCHANGED <<member, groupApps, userApp, catalog, packageLocks>>
  BY DEF Enrol, SameTables
<1>8. DirectoryTypeOK'
  BY <1>6, <1>7 DEF DirectoryTypeOK
<1>9. PackagesLocked'
  BY <1>5, <1>6, <1>7, NoPackage DEF UnderLock
<1> QED
  BY <1>3, <1>6, <1>8, <1>9, CallStep

LEMMA AddProfileKeeps ==
    ASSUME AccountInv, NEW w, NEW u \in Users, NEW password \in BOOLEAN, AddProfile(w, u, password)
    PROVE  AccountInv'
<1> USE DEF AccountInv, RowsInv, KeysInv
<1>1. w \in Workers /\ w \notin Requests /\ Free(w)
  BY BeginsIs DEF AddProfile
<1>2. UNCHANGED <<act, device, req, broken, login, copy, given, member, groupApps, userApp, catalog, packageLocks>>
  BY DEF AddProfile, SameTables
<1>3. user' = user \cup {u}
  BY DEF AddProfile
<1> DEFINE c == [NoWork EXCEPT !.op = "join", !.at = "apps", !.people = {u}]
<1>4. work' = [work EXCEPT ![w] = c]
  BY DEF AddProfile
<1>5. c \in Works /\ c.op = "join" /\ c.at = "apps"
  BY NoWorkIs DEF Works, Calls, Installs, WorkPlaces
<1> HIDE DEF c
<1>6. /\ work' \in [Workers -> Works] /\ work'[w] = c /\ \A v \in Workers \ {w} : work'[v] = work[v]
      /\ RequestsOnlyEnrol' /\ ErasersWalk' /\ KeepsErasers
  BY <1>1, <1>2, <1>4, <1>5, Begun DEF Erasing
<1>8. DirectoryTypeOK'
  BY <1>2, <1>6 DEF DirectoryTypeOK
<1>9. PackagesLocked'
  BY <1>1, <1>2, <1>5, <1>6, NoPackage DEF UnderLock
<1>10. RowsTyped /\ RowsWane /\ DevicesTyped /\ user' \subseteq Users /\ broken' \subseteq Keys
  BY <1>2, <1>3 DEF RowsTyped, RowsWane, Wanes, DevicesTyped, RowTypeOK
<1>11. Onward /\ KeepsActive /\ KeepsDevices /\ KeepsPosts
  BY <1>2, <1>3, <1>10, WaneOnward DEF KeepsDevices, KeepsPosts
<1>12. DeviceThere' /\ UserThere'
  BY <1>6, <1>11, RowsStay
<1> QED
  BY <1>2, <1>6, <1>8, <1>9, <1>10, <1>12, CallOnRows

LEMMA DeleteProfileKeeps ==
    ASSUME AccountInv, NEW w, NEW u \in user, DeleteProfile(w, u)
    PROVE  AccountInv'
<1> USE DEF AccountInv, RowsInv, KeysInv
<1>1. w \in Workers /\ w \notin Requests /\ Free(w) /\ u \in Users
  BY BeginsIs DEF DeleteProfile, RowTypeOK
<1>2. UNCHANGED <<act, device, req, broken, login, copy, given, member, groupApps, userApp, catalog, packageLocks>>
  BY DEF DeleteProfile, SameTables
<1>3. user' = user \ {u}
  BY DEF DeleteProfile
<1> DEFINE c == [NoWork EXCEPT !.op = "erase", !.at = "apps of", !.person = u]
<1>4. work' = [work EXCEPT ![w] = c]
  BY DEF DeleteProfile
<1>5. c \in Works /\ c.op = "erase" /\ c.at = "apps of" /\ c.person = u
  BY <1>1, NoWorkIs DEF Works, Calls, WorkPlaces
<1> HIDE DEF c
<1>6. /\ work' \in [Workers -> Works] /\ work'[w] = c /\ \A v \in Workers \ {w} : work'[v] = work[v]
      /\ RequestsOnlyEnrol' /\ ErasersWalk' /\ KeepsErasers
  BY <1>1, <1>2, <1>4, <1>5, Begun DEF Erasing
<1>8. DirectoryTypeOK'
  BY <1>2, <1>6 DEF DirectoryTypeOK
<1>9. PackagesLocked'
  BY <1>1, <1>2, <1>5, <1>6, NoPackage DEF UnderLock
<1>10. RowsTyped /\ RowsWane /\ DevicesTyped /\ user' \subseteq Users /\ broken' \subseteq Keys
  BY <1>2, <1>3 DEF RowsTyped, RowsWane, Wanes, DevicesTyped, RowTypeOK
<1>11. Erased(u)' /\ \A x : Erased(x) => Erased(x)'
  BY <1>1, <1>5, <1>6 DEF KeepsErasers, Erased, Op
<1>12. DeviceThere'
  <2>1. ASSUME NEW k \in Keys, Active(k)'
        PROVE  (\/ device[Owner[k]].row \/ Erased(Owner[k][1])
                \/ \E r \in Requests : Making(r, k) \/ (At(r, "rows") /\ Of(r) = Owner[k]))'
    <3>1. Active(k)
      BY <1>2, <2>1 DEF Active
    <3>2. CASE \E r \in Requests : Making(r, k) \/ (At(r, "rows") /\ Of(r) = Owner[k])
      BY <1>2, <3>2 DEF Making, At, Key, Of
    <3> QED
      BY <1>2, <1>11, <3>1, <3>2 DEF DeviceThere
  <2> QED
    BY <2>1 DEF DeviceThere
<1>13. UserThere'
  BY <1>2, <1>3, <1>11 DEF UserThere, Active, Exists, Key, Of
<1> QED
  BY <1>2, <1>6, <1>8, <1>9, <1>10, <1>12, <1>13, CallOnRows

LEMMA ActivateProfileKeeps ==
    ASSUME AccountInv, NEW u, NEW yes, ActivateProfile(u, yes)
    PROVE  AccountInv'
<1> USE DEF AccountInv, RowsInv, KeysInv
<1>1. RowsTyped /\ RowsWane
  BY DEF ActivateProfile, RowsTyped, RowsWane, Wanes, RowTypeOK
<1>2. DevicesTyped /\ KeepsDevices
  BY DEF ActivateProfile, DevicesTyped, KeepsDevices, RowTypeOK
<1>3. user' \subseteq Users /\ broken' \subseteq Keys /\ UNCHANGED <<req, login, copy, given>>
      /\ UNCHANGED directoryVars
  BY DEF ActivateProfile, RowTypeOK
<1> QED
  BY <1>1, <1>2, <1>3, QuietStep

LEMMA AddAppKeeps ==
    ASSUME AccountInv, NEW a \in Apps, AddApp(a)
    PROVE  AccountInv'
<1> USE DEF AccountInv, RowsInv, KeysInv
<1>1. UNCHANGED <<act, device, user, req, broken, login, copy, given, member, groupApps, userApp, packageLocks, work>>
  BY DEF AddApp, loginVars
<1>2. DirectoryTypeOK'
  BY <1>1 DEF AddApp, DirectoryTypeOK
<1>3. RequestsOnlyEnrol' /\ ErasersWalk' /\ KeepsErasers
  BY <1>1 DEF RequestsOnlyEnrol, ErasersWalk, KeepsErasers, Op, Free
<1>4. PackagesLocked'
  BY <1>1, PackagesStay
<1> QED
  BY <1>1, <1>2, <1>3, <1>4, CallStep DEF SameHandlers

LEMMA CallLostKeeps ==
    ASSUME AccountInv, NEW w, CallLost(w)
    PROVE  AccountInv'
<1> USE DEF AccountInv, RowsInv, KeysInv
<1>1. w \in Workers /\ w \notin Requests
  BY DirectoryAssumption DEF CallLost, Workers
<1>2. UNCHANGED <<act, device, user, req, login, copy, given, member, groupApps, userApp, catalog, packageLocks>>
  BY DEF CallLost, SameTables, loginVars
<1>3. work' \in [Workers -> Works] /\ work'[w] = NoWork /\ \A v \in Workers \ {w} : work'[v] = work[v]
  BY <1>1, NoWorkIs DEF CallLost, DirectoryTypeOK
<1>4. DirectoryTypeOK'
  BY <1>2, <1>3 DEF DirectoryTypeOK
<1>5. PackagesLocked'
  BY <1>1, <1>2, <1>3, NoWorkIs, NoPackage
<1>6. RequestsOnlyEnrol' /\ ErasersWalk'
  BY <1>1, <1>2, <1>3, NoWorkIs DEF RequestsOnlyEnrol, ErasersWalk, Workers, Op, Free
<1>7. RowsTyped /\ RowsWane /\ DevicesTyped /\ user' \subseteq Users /\ broken' \subseteq Keys
  BY <1>2 DEF CallLost, RowsTyped, RowsWane, Wanes, DevicesTyped, RowTypeOK
<1>8. \A k \in Keys : Active(k)' \/ (Exists(k) /\ k \notin broken)' =>
          (Op(w) = "erase" => Owner[k][1] # work[w].person)
  BY DEF CallLost, Active
<1>9. \A x : Erased(x) => Erased(x)' \/ (Op(w) = "erase" /\ work[w].person = x)
  BY <1>3 DEF Erased, Op
<1>10. KeepsActive
  BY <1>7, WaneOnward
<1>11. DeviceThere'
  <2>1. ASSUME NEW k \in Keys, Active(k)'
        PROVE  (\/ device[Owner[k]].row \/ Erased(Owner[k][1])
                \/ \E r \in Requests : Making(r, k) \/ (At(r, "rows") /\ Of(r) = Owner[k]))'
    <3>1. Active(k)
      BY <1>10, <2>1 DEF KeepsActive
    <3>2. CASE \E r \in Requests : Making(r, k) \/ (At(r, "rows") /\ Of(r) = Owner[k])
      BY <1>2, <3>2 DEF Making, At, Key, Of
    <3> QED
      BY <1>2, <1>8, <1>9, <2>1, <3>1, <3>2 DEF DeviceThere
  <2> QED
    BY <2>1 DEF DeviceThere
<1>12. UserThere'
  <2>1. ASSUME NEW k \in Keys, Active(k)' PROVE Owner[k][1] \in user' \/ Erased(Owner[k][1])'
    BY <1>2, <1>8, <1>9, <1>10, <2>1 DEF UserThere, KeepsActive
  <2>2. ASSUME NEW q \in Requests, req'[q].at \in {"enrol", "activate"}, (Exists(Key(q)) /\ Key(q) \notin broken)'
        PROVE  Of(q)'[1] \in user' \/ Erased(Of(q)[1])'
    <3>1. req'[q] = req[q] /\ Key(q)' = Key(q) /\ Of(q)' = Owner[Key(q)]
      BY <1>2 DEF Key, Of
    <3>2. Key(q) \in Keys
      BY <2>2, <3>1 DEF RequestsFit, RequestFits, At, Key
    <3>3. Exists(Key(q)) /\ Key(q) \notin broken /\ (Op(w) = "erase" => Owner[Key(q)][1] # work[w].person)
      BY <1>2, <1>7, <1>8, <2>2, <3>1, <3>2 DEF Exists, RowsWane
    <3>4. Owner[Key(q)][1] \in user \/ Erased(Owner[Key(q)][1])
      BY <2>2, <3>1, <3>3 DEF UserThere, Of, Key
    <3> QED
      BY <1>2, <1>9, <3>1, <3>3, <3>4
  <2> QED
    BY <2>1, <2>2 DEF UserThere
<1> QED
  BY <1>2, <1>4, <1>5, <1>6, <1>7, <1>11, <1>12, CallOnRows

\* A request is cut off: what it had begun on rows is broken.
LEMMA RequestLostKeeps ==
    ASSUME AccountInv, NEW r \in Requests, RequestLost(r)
    PROVE  AccountInv'
<1> USE DEF AccountInv, RowsInv, KeysInv
<1>1. /\ ReqTyped /\ OthersWait(r) /\ req'[r].at = "idle" /\ r \in Workers
  BY DoneMoves DEF RequestLost, Interrupted, Workers
<1>2. UNCHANGED <<act, device, user, login, given, member, groupApps, userApp, catalog, packageLocks>>
  BY DEF RequestLost, Interrupted
<1>3. work' \in [Workers -> Works] /\ work'[r] = NoWork /\ \A v \in Workers \ {r} : work'[v] = work[v]
  BY <1>1, NoWorkIs DEF RequestLost, DirectoryTypeOK
<1>4. /\ copy' \in [Requests -> CopyRec] /\ copy'[r] = Nothing
      /\ \A q \in Requests \ {r} : copy'[q] = copy[q]
      /\ Nothing \in CopyRec /\ Nothing.login = NoLogin
  <2>1. copy \in [Requests -> CopyRec] /\ copy' = [copy EXCEPT ![r] = Nothing]
    BY DEF RequestLost, LoginTypeOK, CopyRec
  <2>2. Nothing \in CopyRec /\ Nothing.login = NoLogin
    BY DEF Nothing, NoLogin, CopyRec, Logins
  <2> QED
    BY <2>1, <2>2
<1>5. /\ broken \subseteq broken' /\ broken' \subseteq Keys
      /\ req[r].at \in {"others", "load", "write", "rows"} => KeysOf(Of(r)) \subseteq broken'
  BY DEF RequestLost, Interrupted, RowTypeOK, KeysOf, OnSameDevice
<1>6. DirectoryTypeOK' /\ RowTypeOK' /\ LoginTypeOK'
  BY <1>1, <1>2, <1>3, <1>4, <1>5 DEF DirectoryTypeOK, RowTypeOK, ReqTyped, LoginTypeOK, CopyRec
<1>7. PackagesLocked'
  BY <1>1, <1>2, <1>3, NoWorkIs, NoPackage
<1>8. RequestsOnlyEnrol'
  <2>1. ASSUME NEW q \in Requests PROVE (Op(q) \in {"none", "join"} /\ (~Free(q) => req[q].at \in {"enrol", "venrol"}))'
    <3>1. CASE q = r
      BY <1>3, <3>1, NoWorkIs DEF Op, Free
    <3>2. CASE q # r
      BY <1>1, <1>3, <3>2 DEF RequestsOnlyEnrol, OthersWait, Workers, Op, Free
    <3> QED
      BY <3>1, <3>2
  <2> QED
    BY <2>1 DEF RequestsOnlyEnrol
<1>9. Op(r) # "erase"
  BY DEF RequestsOnlyEnrol
<1>10. ErasersWalk' /\ \A u : Erased(u)' <=> Erased(u)
  BY <1>1, <1>3, <1>9, NoWorkIs DEF ErasersWalk, Erased, Op, Free
<1>11. Onward /\ NoneStays(r) /\ \A k \in Keys : (Active(k)' => Active(k)) /\ (Exists(k)' <=> Exists(k))
  BY <1>2, <1>5 DEF Onward, NoneStays, Known, Settled, Active, Exists
<1>12. RequestsFit'
  <2>1. RequestFits(r)' /\ ~At(r, "insert")'
    BY <1>1 DEF RequestFits, LoginWork, At
  <2> QED
    BY <1>1, <1>4, <1>11, <2>1, FitsStays
<1>13. LoginsNameRows'
  <2>1. \A k : Settled(k) => Settled(k)'
    BY <1>11 DEF Onward, Settled
  <2>2. \A q \in Requests : copy'[q] = copy[q] \/ copy'[q].login = NoLogin
    BY <1>4
  <2> QED
    BY <1>2, <2>1, <2>2 DEF LoginsNameRows, NoLogin
<1>14. FactorsEarned'
  <2>1. ASSUME NEW q \in Requests PROVE CopyFine(q)'
    <3>1. CASE q = r
      BY <1>1, <1>4, <3>1 DEF CopyFine, Named, Earned, NoLogin
    <3>2. CASE q # r
      <4>1. CopyFine(q)
        BY DEF CopyFine, Named, LoginsNameRows, FactorsEarned
      <4>2. \A k : Settled(k) => Settled(k)'
        BY <1>11 DEF Onward, Settled
      <4> QED
        BY <1>1, <1>2, <1>4, <3>2, <4>1, <4>2 DEF CopyFine, Named, Earned, OthersWait
    <3> QED
      BY <3>1, <3>2
  <2>2. \A t \in Tokens : Earned(login[t], t)'
    BY <1>2 DEF FactorsEarned, Earned
  <2> QED
    BY <2>1, <2>2 DEF CopyFine, FactorsEarned
<1>15. \A k \in Keys : Active(k)' /\ req[r].at \in {"others", "load", "write", "rows"} => Owner[k] # Of(r) /\ Key(r) # k
  BY <1>5 DEF Active, KeysOf, Of, Key
<1>16. ActiveAlone'
  BY <1>1, <1>11, <1>15 DEF ActiveAlone, OthersWait, At, Key
<1>17. DeviceThere'
  <2>1. ASSUME NEW k \in Keys, Active(k)' PROVE ~Making(r, k) /\ ~(At(r, "rows") /\ Of(r) = Owner[k])
    BY <1>15, <2>1 DEF Making, At
  <2> QED
    BY <1>1, <1>2, <1>10, <1>11, <2>1, ThereMoves
<1>18. UserThere'
  BY <1>1, <1>2, <1>5, <1>10, <1>11, UsersMove
<1> QED
  BY <1>6, <1>7, <1>8, <1>10, <1>12, <1>13, <1>14, <1>16, <1>17, <1>18

-----------------------------------------------------------------------------
(* Every step keeps AccountInv. *)
LEMMA RequestStepKeeps ==
    ASSUME AccountInv, NEW r \in Requests, RequestStep(r), UNCHANGED loginVars, UNCHANGED directoryVars
    PROVE  AccountInv'
<1>1. CASE Insert(r)
  BY <1>1, InsertKeeps
<1>2. CASE ExpireOwn(r)
  BY <1>2, ExpireOwnKeeps
<1>3. CASE SendCode(r)
  BY <1>3, SendCodeKeeps
<1>4. CASE FindRow(r)
  BY <1>4, FindRowKeeps
<1>5. CASE CreateUser(r)
  BY <1>5, CreateUserKeeps
<1>6. CASE SetOk(r)
  BY <1>6, SetOkKeeps
<1>7. CASE ExpireOthers(r)
  BY <1>7, ExpireOthersKeeps
<1>8. CASE LoadDevice(r)
  BY <1>8, LoadDeviceKeeps
<1>9. CASE WriteDevice(r)
  BY <1>9, WriteDeviceKeeps
<1>10. CASE Wipe(r)
  BY <1>10, WipeKeeps
<1>11. CASE Confirm(r)
  BY <1>11, ConfirmKeeps
<1>12. CASE UnlockByLink(r)
  BY <1>12, UnlockByLinkKeeps
<1>13. CASE MarkReset(r)
  BY <1>13, MarkResetKeeps
<1>14. CASE Restore(r)
  BY <1>14, RestoreKeeps
<1>15. CASE DeleteRows(r)
  BY <1>15, DeleteRowsKeeps
<1>16. CASE CreateDevice(r)
  BY <1>16, CreateDeviceKeeps
<1>17. CASE SetActive(r)
  BY <1>17, SetActiveKeeps
<1> QED
  BY <1>1, <1>2, <1>3, <1>4, <1>5, <1>6, <1>7, <1>8, <1>9, <1>10, <1>11, <1>12, <1>13, <1>14, <1>15, <1>16, <1>17 DEF RequestStep

LEMMA LoginStepKeeps ==
    ASSUME AccountInv, NEW r \in Requests, LoginStep(r), UNCHANGED directoryVars
    PROVE  AccountInv'
<1>1. CASE ValidateUser(r)
  BY <1>1, ValidateUserKeeps
<1>2. CASE ValidateDevice(r)
  BY <1>2, ValidateDeviceKeeps
<1>3. CASE CreateLogin(r)
  BY <1>3, CreateLoginKeeps
<1>4. CASE UpdatePush(r)
  BY <1>4, UpdatePushKeeps
<1>5. CASE SaveConf(r)
  BY <1>5, SaveConfKeeps
<1>6. CASE PasscodeUser(r)
  BY <1>6, PasscodeUserKeeps
<1>7. CASE PasscodeDevice(r)
  BY <1>7, PasscodeDeviceKeeps
<1>8. CASE PasscodeRight(r)
  BY <1>8, PasscodeRightKeeps
<1>9. CASE ResetAttempts(r)
  BY <1>9, ResetAttemptsKeeps
<1>10. CASE PasscodeDone(r)
  BY <1>10, PasscodeDoneKeeps
<1>11. CASE ReadAttempts(r)
  BY <1>11, ReadAttemptsKeeps
<1>12. CASE CountAttempt(r)
  BY <1>12, CountAttemptKeeps
<1>13. CASE LockNotification(r)
  BY <1>13, LockNotificationKeeps
<1>14. CASE SetPasscodeUser(r)
  BY <1>14, SetPasscodeUserKeeps
<1>15. CASE WritePasscode(r)
  BY <1>15, WritePasscodeKeeps
<1>16. CASE ClearReset(r)
  BY <1>16, ClearResetKeeps
<1>17. CASE ReadSecond(r)
  BY <1>17, ReadSecondKeeps
<1>18. CASE WriteToken(r)
  BY <1>18, WriteTokenKeeps
<1>19. CASE CheckSms(r)
  BY <1>19, CheckSmsKeeps
<1>20. CASE SaveSecond(r)
  BY <1>20, SaveSecondKeeps
<1> QED
  BY <1>1, <1>2, <1>3, <1>4, <1>5, <1>6, <1>7, <1>8, <1>9, <1>10, <1>11, <1>12, <1>13, <1>14, <1>15, <1>16, <1>17, <1>18, <1>19, <1>20 DEF LoginStep

LEMMA DirectoryStepKeeps ==
    ASSUME AccountInv, NEW w \in Workers, DirectoryStep(w)
    PROVE  AccountInv'
<1>1. CASE ReadApps(w)
  BY <1>1, ReadAppsKeeps
<1>2. CASE WriteGroupApp(w)
  BY <1>2, WriteGroupAppKeeps
<1>3. CASE ReadMembers(w)
  BY <1>3, ReadMembersKeeps
<1>4. CASE NextPerson(w)
  BY <1>4, NextPersonKeeps
<1>5. CASE NextApp(w)
  BY <1>5, NextAppKeeps
<1>6. CASE Check(w)
  BY <1>6, CheckKeeps
<1>7. CASE Lock(w)
  BY <1>7, LockKeeps
<1>8. CASE GiveUp(w)
  BY <1>8, GiveUpKeeps
<1>9. CASE Look(w) \/ ReadGroups(w) \/ LookForApp(w)
  BY <1>9, LookKeeps, ReadGroupsKeeps, LookForAppKeeps
<1>10. CASE Write(w)
  BY <1>10, WriteKeeps
<1>11. CASE Unlock(w)
  BY <1>11, UnlockKeeps
<1>12. CASE WalkEnds(w)
  BY <1>12, WalkEndsKeeps
<1>13. CASE DeleteGroupRow(w)
  BY <1>13, DeleteGroupRowKeeps
<1>14. CASE LookForOwners(w)
  BY <1>14, LookForOwnersKeeps
<1>15. CASE DeleteEntry(w)
  BY <1>15, DeleteEntryKeeps
<1>16. CASE DeleteUserApps(w)
  BY <1>16, DeleteUserAppsKeeps
<1>17. CASE DeleteUserDevices(w)
  BY <1>17, DeleteUserDevicesKeeps
<1>18. CASE DeleteUserGroups(w)
  BY <1>18, DeleteUserGroupsKeeps
<1>19. CASE DeleteUserActivations(w)
  BY <1>19, DeleteUserActivationsKeeps
<1>20. CASE Enrol(w)
  BY <1>20, EnrolKeeps
<1> QED
  BY <1>1, <1>2, <1>3, <1>4, <1>5, <1>6, <1>7, <1>8, <1>9, <1>10, <1>11, <1>12, <1>13, <1>14, <1>15, <1>16, <1>17, <1>18, <1>19, <1>20 DEF DirectoryStep

LEMMA AskedKeeps ==
    ASSUME AccountInv, Asked, UNCHANGED loginVars, UNCHANGED directoryVars
    PROVE  AccountInv'
<1>1. ASSUME NEW r \in Requests, NEW k \in Keys,
             Activate(r, k) \/ Link(r, k) \/ CancelReset(r, k) \/ Approve(r, k)
      PROVE  AccountInv'
  BY <1>1, ActivateKeeps, LinkKeeps, CancelResetKeeps, ApproveKeeps
<1>2. ASSUME NEW r \in Requests, NEW k \in Keys,
             \/ DeleteDevice(r, k) \/ AddDevice(r, k)
             \/ \E yes \in BOOLEAN : EnableDevice(r, k, yes)
      PROVE  AccountInv'
  BY <1>2, DeleteDeviceKeeps, AddDeviceKeeps, EnableDeviceKeeps
<1>3. ASSUME NEW k \in Keys,
             \/ Deny(Owner[k]) \/ UnlockUser(Owner[k])
             \/ \E kind \in Resets, yes \in BOOLEAN : AnswerReset(Owner[k], kind, yes)
      PROVE  AccountInv'
  <2>1. PICK a : a = Owner[k]
    OBVIOUS
  <2>2. Deny(a) \/ UnlockUser(a) \/ \E kind \in Resets, yes \in BOOLEAN : AnswerReset(a, kind, yes)
    BY <1>3, <2>1
  <2> QED
    BY <2>2, DenyKeeps, UnlockUserKeeps, AnswerResetKeeps
<1>4. CASE DenyAll
  BY <1>4, DenyAllKeeps
<1>5. ASSUME NEW k \in Keys, LinkExpires(k) PROVE AccountInv'
  BY <1>5, LinkExpiresKeeps
<1> QED
  BY <1>1, <1>2, <1>3, <1>4, <1>5 DEF Asked

LEMMA LoginAskedKeeps ==
    ASSUME AccountInv, LoginAsked, UNCHANGED directoryVars
    PROVE  AccountInv'
<1>1. ASSUME NEW r \in Requests, NEW k \in Keys, Validate(r, k) PROVE AccountInv'
  BY <1>1, ValidateKeeps
<1>2. ASSUME NEW r \in Requests, NEW t \in Tokens,
             \/ GetClientConf(r, t)
             \/ \E yes \in BOOLEAN : CheckPasscode(r, t, yes) \/ SetPasscode(r, t, yes)
             \/ \E kind \in SecondMethods, right \in BOOLEAN : CheckSecond(r, t, kind, right)
      PROVE  AccountInv'
  BY <1>2, GetClientConfKeeps, CheckPasscodeKeeps, SetPasscodeKeeps, CheckSecondKeeps
<1>3. ASSUME NEW k \in Keys, ResendUnlockLink(k) PROVE AccountInv'
  BY <1>3, ResendUnlockLinkKeeps
<1>4. ASSUME NEW u \in Users, UnlockPassword(u) PROVE AccountInv'
  BY <1>4, UnlockPasswordKeeps
<1>5. ASSUME NEW t \in Tokens, LoginExpires(t) PROVE AccountInv'
  BY <1>5, LoginExpiresKeeps
<1> QED
  BY <1>1, <1>2, <1>3, <1>4, <1>5 DEF LoginAsked

LEMMA DirectoryAskedKeeps ==
    ASSUME AccountInv, DirectoryAsked
    PROVE  AccountInv'
<1>1. ASSUME NEW w \in Admins, NEW g \in Groups, NEW people \in SUBSET user,
             CreateGroup(w, g, people) \/ JoinGroup(w, g, people) \/ LeaveGroup(w, g, people)
      PROVE  AccountInv'
  BY <1>1, CreateGroupKeeps, JoinsKeep
<1>2. ASSUME NEW w \in Admins, NEW g \in Groups, DropGroup(w, g) PROVE AccountInv'
  BY <1>2, DropsKeep
<1>3. ASSUME NEW w \in Admins, NEW g \in Groups, NEW a \in Apps, InstallToGroup(w, g, a) \/ StripGroup(w, g, a)
      PROVE  AccountInv'
  BY <1>3, InstallsKeep
<1>4. ASSUME NEW w \in Admins, NEW a \in Apps, DeleteApp(w, a) PROVE AccountInv'
  BY <1>4, DeleteAppKeeps
<1>5. ASSUME NEW w \in Admins, NEW a \in Apps, NEW u \in user, GiveApp(w, u, a) \/ TakeApp(w, u, a)
      PROVE  AccountInv'
  BY <1>5, GivesKeep
<1>6. ASSUME NEW w \in Admins, NEW u \in Users, NEW password \in BOOLEAN, AddProfile(w, u, password)
      PROVE  AccountInv'
  BY <1>6, AddProfileKeeps
<1>7. ASSUME NEW w \in Admins, NEW u \in user, DeleteProfile(w, u) PROVE AccountInv'
  BY <1>7, DeleteProfileKeeps
<1>8. ASSUME NEW u \in user, NEW yes \in BOOLEAN, ActivateProfile(u, yes) PROVE AccountInv'
  BY <1>8, ActivateProfileKeeps
<1>9. ASSUME NEW a \in Apps, AddApp(a) PROVE AccountInv'
  BY <1>9, AddAppKeeps
<1> QED
  BY <1>1, <1>2, <1>3, <1>4, <1>5, <1>6, <1>7, <1>8, <1>9 DEF DirectoryAsked

LEMMA AccountStays ==
    ASSUME AccountInv, UNCHANGED accountVars
    PROVE  AccountInv'
<1> USE DEF AccountInv, RowsInv, KeysInv
<1>1. /\ UNCHANGED <<act, device, user, req, broken, login, copy, given>>
      /\ UNCHANGED directoryVars
  BY DEF accountVars, activationVars, loginVars
<1>2. RowsTyped /\ RowsWane /\ DevicesTyped /\ KeepsDevices /\ user' \subseteq Users /\ broken' \subseteq Keys
  BY <1>1 DEF RowsTyped, RowsWane, Wanes, DevicesTyped, KeepsDevices, RowTypeOK
<1> QED
  BY <1>1, <1>2, QuietStep

LEMMA AccountStep ==
    ASSUME AccountInv, [Next]_vars
    PROVE  AccountInv'
<1>1. ASSUME NEW r \in Requests, RequestStep(r), UNCHANGED loginVars, UNCHANGED directoryVars PROVE AccountInv'
  BY <1>1, RequestStepKeeps
<1>2. ASSUME NEW r \in Requests, LoginStep(r), UNCHANGED directoryVars PROVE AccountInv'
  BY <1>2, LoginStepKeeps
<1>3. ASSUME NEW w \in Workers, DirectoryStep(w) PROVE AccountInv'
  BY <1>3, DirectoryStepKeeps
<1>4. CASE Asked /\ UNCHANGED loginVars /\ UNCHANGED directoryVars
  BY <1>4, AskedKeeps
<1>5. ASSUME NEW r \in Requests, NEW t \in Tokens, NEW kind \in Resets,
             AskReset(r, t, kind), UNCHANGED loginVars, UNCHANGED directoryVars
      PROVE  AccountInv'
  BY <1>5, AskResetKeeps
<1>6. CASE LoginAsked /\ UNCHANGED directoryVars
  BY <1>6, LoginAskedKeeps
<1>7. CASE DirectoryAsked
  BY <1>7, DirectoryAskedKeeps
<1>8. ASSUME NEW r \in Requests, RequestLost(r) PROVE AccountInv'
  BY <1>8, RequestLostKeeps
<1>9. ASSUME NEW w \in Admins, CallLost(w) PROVE AccountInv'
  BY <1>9, CallLostKeeps
<1>10. CASE UNCHANGED accountVars
  BY <1>10, AccountStays
<1>11. CASE AccountNext
  BY <1>1, <1>2, <1>3, <1>4, <1>5, <1>6, <1>7, <1>8, <1>9, <1>11 DEF AccountNext
<1> QED
  BY <1>10, <1>11 DEF Next, vars

LEMMA AccountStart == Init => AccountInv
<1> SUFFICES ASSUME Init PROVE AccountInv
  OBVIOUS
<1> USE DEF Init, ActivationInit, LoginInit, DirectoryInit
<1>1. NoRow \in Rows /\ NoRow.status = "none"
  BY DEF NoRow, Rows
<1>2. NoDevice \in [row : BOOLEAN, active : BOOLEAN, attempts : Nat]
  BY DEF NoDevice
<1>3. RowTypeOK
  BY <1>1, <1>2, IdleRequest DEF RowTypeOK
<1>4. NoLogin \in Logins /\ Nothing \in CopyRec /\ Nothing.login = NoLogin
  BY DEF NoLogin, Nothing, Logins, CopyRec
<1>5. LoginTypeOK
  BY <1>4 DEF LoginTypeOK, CopyRec
<1>6. DirectoryTypeOK
  BY NoWorkIs DEF DirectoryTypeOK
<1>7. \A r \in Requests : req[r].at = "idle" /\ copy[r].login = NoLogin
  BY <1>4, IdleRequest
<1>8. \A w \in Workers : work[w].op = "none"
  BY NoWorkIs
<1>9. RequestsFit
  BY <1>7 DEF RequestsFit, RequestFits, LoginWork, At
<1>10. LoginsNameRows
  BY <1>7 DEF LoginsNameRows, NoLogin
<1>11. RequestsOnlyEnrol /\ ErasersWalk
  BY <1>8 DEF RequestsOnlyEnrol, ErasersWalk, Workers, Op, Free
<1>12. \A k \in Keys : ~Active(k)
  BY <1>1 DEF Active, Resets
<1>13. ActiveAlone /\ DeviceThere /\ UserThere
  BY <1>7, <1>12 DEF ActiveAlone, DeviceThere, UserThere
<1>14. FactorsEarned
  BY <1>7 DEF FactorsEarned, Earned, NoLogin
<1>15. PackagesLocked
  BY <1>8 DEF PackagesLocked, Locked, Free
<1> QED
  BY <1>3, <1>5, <1>6, <1>9, <1>10, <1>11, <1>13, <1>14, <1>15 DEF AccountInv, RowsInv, KeysInv

-----------------------------------------------------------------------------
(* What AccountInv says at rest. *)
LEMMA DeviceAtRest == AccountInv => ActiveHasDevice
<1> SUFFICES ASSUME AccountInv, AtRest, NEW k \in Keys, Active(k)
             PROVE  device[Owner[k]].row /\ Owner[k][1] \in user
  BY DEF ActiveHasDevice
<1>1. ~Erased(Owner[k][1])
  BY DEF AtRest, Erased, Free, Op
<1>2. \A r \in Requests : ~Making(r, k) /\ ~At(r, "rows")
  BY DEF AtRest, Making, At
<1> QED
  BY <1>1, <1>2 DEF AccountInv, RowsInv, DeviceThere, UserThere

LEMMA AloneAtRest == AccountInv => OneAccountPerDevice
<1> SUFFICES ASSUME AccountInv, AtRest, ~AllowMultipleUsersPerDevice, NEW j \in Keys, NEW k \in Keys,
                    act[j].status = "ok", act[k].status = "ok", j \notin broken, k \notin broken,
                    Owner[j][2] = Owner[k][2]
             PROVE  j = k
  BY DEF OneAccountPerDevice
<1>1. Active(j) /\ Active(k)
  BY DEF Active
<1>2. \A r \in Requests : ~At(r, "others")
  BY DEF AtRest, At
<1> QED
  BY <1>1, <1>2 DEF AccountInv, RowsInv, ActiveAlone

LEMMA FactorsPaid == AccountInv => NoFactorForFree
<1> SUFFICES ASSUME AccountInv, NEW t \in Tokens,
                    NEW type \in {"password", "second", "both", "either"}, NEW adminLogin \in BOOLEAN,
                    Valid(login[t], type, adminLogin)
             PROVE  GivenFor(t, type, adminLogin)
  BY DEF NoFactorForFree
<1>1. Earned(login[t], t)
  BY DEF AccountInv, FactorsEarned
<1>2. CASE adminLogin
  BY <1>1, <1>2 DEF Earned, Valid, GivenFor
<1>3. CASE ~adminLogin /\ type = "password"
  BY <1>1, <1>3 DEF Earned, Valid, GivenFor
<1>4. CASE ~adminLogin /\ type = "second"
  BY <1>1, <1>4 DEF Earned, Valid, GivenFor
<1>5. CASE ~adminLogin /\ type = "both"
  BY <1>1, <1>5 DEF Earned, Valid, GivenFor
<1>6. CASE ~adminLogin /\ type = "either"
  BY <1>1, <1>6 DEF Earned, Valid, GivenFor
<1> QED
  BY <1>2, <1>3, <1>4, <1>5, <1>6

\* Only a walk under the lock of the package and the deletion of a user write
\* the apps of users.
LEMMA AppWriters ==
    ASSUME [Next]_vars
    PROVE  userApp' = userApp \/ \E w \in Workers : Write(w) \/ DeleteUserApps(w)
<1>1. ASSUME UNCHANGED directoryVars PROVE userApp' = userApp
  BY <1>1 DEF directoryVars
<1>2. ASSUME NEW w \in Workers, DirectoryStep(w), ~Write(w), ~DeleteUserApps(w) PROVE userApp' = userApp
  BY <1>2 DEF DirectoryStep, SameTables, ReadApps, WriteGroupApp, ReadMembers, NextPerson, NextApp, Check, Lock,
              GiveUp, Look, ReadGroups, LookForApp, Unlock, WalkEnds, DeleteGroupRow, LookForOwners, DeleteEntry, DeleteUserDevices,
              DeleteUserGroups, DeleteUserActivations, Enrol
<1>3. ASSUME NEW w, NEW op, NEW place, NEW g, NEW people, NEW apps, Call(w, op, place, g, people, apps)
      PROVE  userApp' = userApp
  BY <1>3 DEF Call, SameTables
<1>4. CASE DirectoryAsked
  BY ZenonT(60), <1>1, <1>3, <1>4 DEF DirectoryAsked, SameTables, CreateGroup, JoinGroup, LeaveGroup, DropGroup, InstallToGroup,
                     StripGroup, GiveApp, TakeApp, DeleteApp, AddProfile, DeleteProfile, ActivateProfile, AddApp
<1>5. ASSUME NEW r \in Requests, RequestLost(r) PROVE userApp' = userApp
  BY <1>5 DEF RequestLost
<1>6. ASSUME NEW w \in Admins, CallLost(w) PROVE userApp' = userApp
  BY <1>6 DEF CallLost, SameTables
<1>7. CASE AccountNext
  BY <1>1, <1>2, <1>4, <1>5, <1>6, <1>7 DEF AccountNext
<1>8. CASE UNCHANGED accountVars
  BY <1>1, <1>8 DEF accountVars
<1> QED
  BY <1>7, <1>8 DEF Next, vars

LEMMA PrivateKept ==
    ASSUME AccountInv, [Next]_vars, NEW u \in Users, NEW a \in Apps,
           userApp[<<u, a>>] = "private", userApp'[<<u, a>>] # "private"
    PROVE  \E w \in Workers : work[w].person = u /\ (Op(w) = "erase" \/ Op(w) = "take")
<1> USE DEF AccountInv, RowsInv, KeysInv
<1>1. PICK w \in Workers : Write(w) \/ DeleteUserApps(w)
  BY AppWriters
<1>2. userApp \in [Users \X Apps -> {"none", "copied", "private"}] /\ <<u, a>> \in Users \X Apps
  BY DEF DirectoryTypeOK
<1>3. CASE DeleteUserApps(w)
  <2>1. Op(w) = "erase"
    BY <1>3 DEF DeleteUserApps, In, ErasersWalk
  <2>2. work[w].person = u
    BY <1>2, <1>3 DEF DeleteUserApps
  <2> QED
    BY <2>1, <2>2
<1>4. CASE Write(w)
  <2>1. ~Free(w) /\ work[w].at \in {"private", "copied", "none"} /\ userApp' = [userApp EXCEPT ![Package(w)] = work[w].at]
    BY <1>4 DEF Write
  <2>2. Package(w) = <<u, a>> /\ work[w].at # "private"
    BY <1>2, <2>1
  <2>3. Locked(w) /\ work[w].at \in {"copied", "none"}
    BY <2>1, <2>2 DEF Locked
  <2>4. Op(w) = "take"
    BY <1>2, <2>2, <2>3 DEF PackagesLocked
  <2>5. work[w].person = u
    BY <2>2 DEF Package
  <2> QED
    BY <2>4, <2>5
<1> QED
  BY <1>1, <1>3, <1>4

-----------------------------------------------------------------------------
(* The theorems. *)
LEMMA AccountsHold == Spec => []AccountInv
<1>1. Init => AccountInv
  BY AccountStart
<1>2. AccountInv /\ [Next]_vars => AccountInv'
  BY AccountStep
<1> QED
  BY <1>1, <1>2, PTL DEF Spec

LEMMA StorageMoves == [Next]_vars => [StorageNext]_storageVars
BY DEF Next, vars

LEMMA StorageHolds == Spec => []StorageInv
<1>1. Init => StorageInv
  BY StorageStart DEF Init
<1>2. StorageInv /\ [Next]_vars => StorageInv'
  BY StorageMoves, StorageStep
<1> QED
  BY <1>1, <1>2, PTL DEF Spec

\* At rest an active row has its device and its user, however activations,
\* deletions, resets and interruptions were mixed (activateDevice.js,
\* activationLink.js, the deletions of the control panel).
THEOREM EveryActiveRowHasItsDevice == Spec => []ActiveHasDevice
BY AccountsHold, DeviceAtRest, PTL

\* At rest no device is active for two accounts, unless a handler was cut off
\* between the two statements of activationLink.js or the option is set.
THEOREM DevicesHaveOneAccount == Spec => []OneAccountPerDevice
BY AccountsHold, AloneAtRest, PTL

\* Whatever stale copies of a login are saved, it never passes checkValidLogin
\* (login.js) with a factor nobody gave.
THEOREM FactorsAreGiven == Spec => []NoFactorForFree
BY AccountsHold, FactorsPaid, PTL

\* No call for a group takes a private app away (addAppsToProfiles.js): the lock
\* of the package covers the look and the write.
THEOREM PrivateAppsAreKept == Spec => PrivateAppsStay
<1>1. AccountInv /\ [Next]_vars =>
          [\A u \in Users, a \in Apps :
              userApp[<<u, a>>] = "private" /\ userApp'[<<u, a>>] # "private" =>
                  \E w \in Workers : work[w].person = u /\ (Op(w) = "erase" \/ Op(w) = "take")]_vars
  BY PrivateKept
<1> QED
  BY <1>1, AccountsHold, PTL DEF Spec, PrivateAppsStay

\* Nobody resizes or deletes the image of a session that runs, and no two at
\* once (userUtils.js, lock.js).
THEOREM ImagesAreFree == Spec => []ImageIsFree
<1>1. Init => LetGo
  BY StorageAssumption DEF Init, StorageInit, LetGo, NoJob, EndingPlaces
<1>2. StorageInv /\ LetGo /\ [Next]_vars => LetGo'
  BY StorageMoves, LetGoStep
<1>3. StorageInv /\ LetGo => ImageIsFree
  BY ImageFree DEF StorageInv
<1> QED
  BY <1>1, <1>2, <1>3, StorageHolds, PTL DEF Spec

\* A session runs only where the folder of the user is whole (userUtils.js,
\* startSession.js), except where the history excuses it.
THEOREM SessionsHaveTheirFolder == Spec => []SessionHasItsFolder
<1>1. StorageInv => SessionHasItsFolder
  BY FolderWhole
<1> QED
  BY <1>1, StorageHolds, PTL

\* What a user did on a device is never replaced by the files of a new user.
THEOREM UsedDataStays == Spec => DataStays
<1>1. StorageInv /\ [Next]_vars =>
          [\A d \in StorageDevices \ excused : data[d] = "used" => data'[d] # "fresh"]_storageVars
  <2> SUFFICES ASSUME StorageInv, [Next]_vars, NEW d \in StorageDevices \ excused, data[d] = "used"
               PROVE  data'[d] # "fresh"
    OBVIOUS
  <2> QED
    BY StorageMoves, UsedStays
<1> QED
  BY <1>1, StorageHolds, PTL DEF Spec, DataStays

-----------------------------------------------------------------------------
(* AppsAreOwed: how far the one call that is under way has come. *)
Typed(w) == /\ work[w] \in Works /\ member \subseteq Users \X Groups /\ groupApps \subseteq Groups \X Apps
            /\ userApp \in [Users \X Apps -> {"none", "copied", "private"}]

LEMMA WorkTyped ==
    ASSUME AccountInv, NEW w \in Workers
    PROVE  Typed(w)
BY DEF AccountInv, RowsInv, KeysInv, DirectoryTypeOK, Typed

\* In one domain the name of a group is its own.
LEMMA NamesDiffer ==
    ASSUME OneDomain, NEW g \in Groups, NEW h \in Groups
    PROVE  Name[g] = Name[h] <=> g = h
BY DirectoryAssumption DEF OneDomain

\* The groups of a user that have an app by their name have it themselves.
LEMMA HaveIsOwed ==
    ASSUME OneDomain, NEW u, NEW a
    PROVE  HaveApp({g \in Groups : <<u, g>> \in member}, a) <=> Owed(u, a)
BY NamesDiffer DEF HaveApp, Owed

\* isAppBelongsToOtherGroupsOfTheUser counts the groups with the app, and the
\* group at hand is one of them.
LEMMA InOtherIsOwed ==
    ASSUME OneDomain, NEW u, NEW a, NEW g \in Groups, <<g, a>> \in groupApps
    PROVE  InOtherGroup(u, a, g) <=> OwedElse(u, a, g)
<1> DEFINE having == {h \in Groups : AdDomain[h] = AdDomain[g] /\ <<h, a>> \in groupApps}
<1>1. having = {h \in Groups : <<h, a>> \in groupApps} /\ IsFiniteSet(having) /\ Cardinality(having) \in Nat
  <2>1. having = {h \in Groups : <<h, a>> \in groupApps}
    BY DEF OneDomain
  <2>2. having \subseteq Groups /\ IsFiniteSet(Groups)
    BY DirectoryAssumption
  <2> QED
    BY <2>1, <2>2, FS_Subset, FS_CardinalityType
<1>2. InOtherGroup(u, a, g) <=> Cardinality(having) > 1 /\ \E h \in having : Name[h] # Name[g] /\ <<u, h>> \in member
  BY DEF InOtherGroup
<1> HIDE DEF having
<1>3. ASSUME InOtherGroup(u, a, g) PROVE OwedElse(u, a, g)
  BY <1>1, <1>2, <1>3, NamesDiffer DEF OwedElse
<1>4. ASSUME OwedElse(u, a, g) PROVE InOtherGroup(u, a, g)
  <2>1. PICK h \in Groups \ {g} : <<u, h>> \in member /\ <<h, a>> \in groupApps
    BY <1>4 DEF OwedElse
  <2>2. h \in having /\ g \in having
    BY <1>1, <2>1
  <2>3. Cardinality(having) > 1
    <3>1. having \ {h} \subseteq having /\ IsFiniteSet(having \ {h}) /\ g \in having \ {h}
      BY <1>1, <2>1, <2>2, FS_Subset
    <3>2. Cardinality(having \ {h}) = Cardinality(having) - 1 /\ Cardinality(having \ {h}) \in Nat
      BY <1>1, <2>2, <3>1, FS_RemoveElement, FS_CardinalityType
    <3>3. Cardinality(having \ {h}) # 0
      BY <3>1, FS_EmptySet
    <3> QED
      BY <1>1, <3>2, <3>3
  <2> QED
    BY <1>2, <2>1, <2>2, <2>3, NamesDiffer
<1> QED
  BY <1>3, <1>4

LEMMA OwedSplits ==
    ASSUME NEW u, NEW a, NEW g \in Groups
    PROVE  Owed(u, a) <=> (<<u, g>> \in member /\ <<g, a>> \in groupApps) \/ OwedElse(u, a, g)
BY DEF Owed, OwedElse

\* The tables of apps as they were.
SameApps == UNCHANGED <<member, groupApps, userApp>>
LEMMA OwedStays ==
    ASSUME UNCHANGED <<member, groupApps>>, NEW u, NEW a
    PROVE  (Owed(u, a)' <=> Owed(u, a)) /\ \A g : OwedElse(u, a, g)' <=> OwedElse(u, a, g)
BY DEF Owed, OwedElse

LEMMA HasOwedStays ==
    ASSUME SameApps, NEW u, NEW a
    PROVE  HasOwed(u, a)' <=> HasOwed(u, a)
BY OwedStays DEF HasOwed, SameApps

\* What w does next, with the fields of its call that stay.
MovesTo(w, place) ==
    /\ \A v \in Workers \ {w} : work'[v] = work[v]
    /\ work'[w].at = place
    /\ work'[w].op = work[w].op /\ work'[w].group = work[w].group /\ work'[w].people = work[w].people
    /\ work'[w].apps = work[w].apps /\ work'[w].person = work[w].person /\ work'[w].todo = work[w].todo
    /\ work'[w].app = work[w].app /\ work'[w].failed = work[w].failed

LEMMA MovesOn ==
    ASSUME AccountInv, NEW w \in Workers, NEW place, Next_(w, place)
    PROVE  MovesTo(w, place)
<1>1. work[w] \in Works /\ work \in [Workers -> Works]
  BY DEF AccountInv, RowsInv, KeysInv, DirectoryTypeOK
<1>2. work' = [work EXCEPT ![w] = [work[w] EXCEPT !.at = place]]
  BY DEF Next_
<1> DEFINE c == [work[w] EXCEPT !.at = place]
<1>3. /\ c.at = place /\ c.op = work[w].op /\ c.group = work[w].group /\ c.people = work[w].people
      /\ c.apps = work[w].apps /\ c.person = work[w].person /\ c.todo = work[w].todo
      /\ c.app = work[w].app /\ c.failed = work[w].failed
  BY <1>1 DEF Works
<1>4. work'[w] = c /\ \A v \in Workers \ {w} : work'[v] = work[v]
  BY <1>1, <1>2
<1> HIDE DEF c
<1> QED
  BY <1>3, <1>4 DEF MovesTo

LEMMA QuietStays ==
    ASSUME NEW w, Quiet(w), \A v \in Workers \ {w} : work'[v] = work[v]
    PROVE  Quiet(w)'
BY DEF Quiet, Free

\* The worker of a step is the one whose call is under way.
LEMMA CallIs ==
    ASSUME AppsInv, orderly, NEW w \in Workers, ~Free(w)
    PROVE  GroupsHaveEntries /\ CallFits(w)
BY DEF AppsInv, NoCallFits, CallFits, Quiet

LEMMA NobodyIs ==
    ASSUME AppsInv, orderly, \A w \in Workers : Free(w)
    PROVE  GroupsHaveEntries /\ NoCallFits
BY DEF AppsInv, CallFits

\* A call ends: no lock is left.
LEMMA LastStep ==
    ASSUME AccountInv, NEW w \in Workers, GroupsHaveEntries, GroupsHaveEntries', CallFits(w), ~Locked(w),
           work' = [work EXCEPT ![w] = NoWork],
           packageLocks' = packageLocks, \A u \in Users, a \in Apps : HasOwed(u, a)'
    PROVE  AppsInv'
<1>1. work' = [work EXCEPT ![w] = NoWork] /\ work \in [Workers -> Works]
  BY DEF AccountInv, RowsInv, KeysInv, DirectoryTypeOK
<1>2. \A v \in Workers : Free(v)'
  <2>1. NoWork.op = "none"
    BY NoWorkIs
  <2> QED
    BY <1>1, <2>1 DEF CallFits, Quiet, Free
<1>3. packageLocks' = {}
  BY DEF CallFits
<1> QED
  BY <1>2, <1>3 DEF AppsInv, NoCallFits

\* A call goes on.
LEMMA NextStep ==
    ASSUME NEW w \in Workers, CallFits(w), work'[w].op = work[w].op, \A v \in Workers \ {w} : work'[v] = work[v],
           GroupsHaveEntries', \A p \in packageLocks' : Locked(w)' /\ p = Package(w)',
           WalkFits(w)', \A u \in Users, a \in Apps : PairFits(w, u, a)'
    PROVE  AppsInv'
<1>1. ~Free(w)' /\ Quiet(w)'
  BY QuietStays DEF CallFits, Free
<1>2. CallFits(w)'
  BY <1>1 DEF CallFits
<1> QED
  BY <1>2 DEF AppsInv

\* One that holds no lock before nor after.
LEMMA Unlocked ==
    ASSUME NEW w, CallFits(w), ~Locked(w), packageLocks' = packageLocks
    PROVE  \A p \in packageLocks' : Locked(w)' /\ p = Package(w)'
BY DEF CallFits

LEMMA ReadAppsFits ==
    ASSUME AccountInv, AppsInv, orderly, NEW w \in Workers, ReadApps(w)
    PROVE  AppsInv'
<1>1. ~Free(w) /\ work[w].at = "apps" /\ SameTables /\ packageLocks' = packageLocks
  BY DEF ReadApps, In
<1>2. CallFits(w) /\ GroupsHaveEntries /\ Typed(w)
  BY <1>1, CallIs, WorkTyped
<1>3. work' = [work EXCEPT ![w].at = "next", ![w].apps = AppsOf(work[w].group)]
  BY DEF ReadApps
<1> DEFINE c == [work[w] EXCEPT !.at = "next", !.apps = AppsOf(work[w].group)]
<1>4. work'[w] = c /\ \A v \in Workers \ {w} : work'[v] = work[v]
  BY <1>3 DEF AccountInv, RowsInv, KeysInv, DirectoryTypeOK
<1>5. /\ c.at = "next" /\ c.op = work[w].op /\ c.group = work[w].group /\ c.people = work[w].people
      /\ c.apps = AppsOf(work[w].group) /\ c.person = work[w].person /\ c.todo = work[w].todo
      /\ c.app = work[w].app /\ c.failed = work[w].failed
  BY <1>2 DEF Typed, Works
<1> HIDE DEF c
<1>6. SameApps /\ UNCHANGED catalog
  BY <1>1 DEF SameTables, SameApps
<1>7. AppsOf(work[w].group)' = AppsOf(work[w].group) /\ GroupsHaveEntries' 
  BY <1>2, <1>4, <1>5, <1>6 DEF SameApps, AppsOf, GroupsHaveEntries
<1>8. Op(w) \in {"join", "leave", "drop"} /\ WalkFits(w)
  BY <1>1, <1>2 DEF CallFits, WalkFits, PlacesOf
<1>9. WalkFits(w)'
  BY <1>1, <1>2, <1>4, <1>5, <1>6, <1>7, <1>8 DEF WalkFits, AppPlaces, PlacesOf, Op, SameApps, Removals
<1>10. ASSUME NEW u \in Users, NEW a \in Apps PROVE PairFits(w, u, a)'
  <2>1. PairFits(w, u, a)
    BY <1>2 DEF CallFits
  <2>2. ~HalfDone(w, u, a) /\ ~HalfDone(w, u, a)'
    BY <1>1, <1>4, <1>5, <1>8 DEF HalfDone, Visits, AppPlaces, WalkFits, Op
  <2> QED
    BY <1>6, <2>1, <2>2, HasOwedStays DEF PairFits
<1>11. ~Locked(w)
  BY <1>1 DEF Locked
<1> QED
  BY <1>1, <1>2, <1>4, <1>5, <1>7, <1>9, <1>10, <1>11, NextStep, Unlocked

LEMMA WriteGroupAppFits ==
    ASSUME AccountInv, AppsInv, orderly, NEW w \in Workers, WriteGroupApp(w)
    PROVE  AppsInv'
<1>1. ~Free(w) /\ work[w].at = "group" /\ UNCHANGED <<member, userApp, catalog, packageLocks>>
  BY DEF WriteGroupApp, In
<1>2. CallFits(w) /\ GroupsHaveEntries /\ Typed(w)
  BY <1>1, CallIs, WorkTyped
<1>3. MovesTo(w, "members")
  BY MovesOn DEF WriteGroupApp
<1>4. Op(w) = "install" /\ Op(w)' = "install" /\ WalkFits(w)
  BY <1>1, <1>2, <1>3 DEF CallFits, WalkFits, PlacesOf, MovesTo, Op
<1>5. groupApps' = groupApps \cup {<<work[w].group, a>> : a \in work[w].apps}
  BY DEF WriteGroupApp
<1>6. work[w].apps \subseteq catalog /\ work[w].todo = {} /\ work[w].people = {}
  BY <1>1, <1>4 DEF WalkFits
<1>7. /\ work'[w].at = "members" /\ work'[w].group = work[w].group /\ work'[w].people = {} /\ work'[w].todo = {}
      /\ work'[w].apps = work[w].apps /\ work'[w].failed = work[w].failed /\ work'[w].op = work[w].op
      /\ \A v \in Workers \ {w} : work'[v] = work[v]
  BY <1>3, <1>6 DEF MovesTo
<1>8. GroupsHaveEntries'
  BY <1>1, <1>2, <1>5, <1>6 DEF GroupsHaveEntries
<1>9. work[w].apps \subseteq Apps /\ work[w].apps \subseteq AppsOf(work[w].group)'
  BY <1>2, <1>5, <1>7 DEF Typed, Works, AppsOf
<1>10. WalkFits(w)'
  BY <1>4, <1>6, <1>7, <1>9 DEF WalkFits, AppPlaces, PlacesOf, Op, AppsOf, Removals
<1>11. ASSUME NEW u \in Users, NEW a \in Apps PROVE PairFits(w, u, a)'
  <2>1. PairFits(w, u, a) /\ ~HalfDone(w, u, a)
    BY <1>1, <1>2, <1>4, <1>6 DEF CallFits, HalfDone, Visits, AppPlaces
  <2>2. HasOwed(u, a)
    BY <2>1 DEF PairFits
  <2> DEFINE new == <<u, work[w].group>> \in member /\ a \in work[w].apps
  <2>3. HalfDone(w, u, a)' <=> new
    BY <1>1, <1>4, <1>6, <1>7 DEF HalfDone, Visits, AppPlaces
  <2>4. work[w].group \in Groups
    BY <1>2 DEF Typed, Works
  <2>5. CASE new
    <3>1. Owed(u, a)'
      BY <1>1, <1>5, <2>4, <2>5 DEF Owed
    <3> QED
      BY <1>4, <2>3, <2>5, <3>1 DEF PairFits, HalfSound
  <2>6. CASE ~new
    <3>1. Owed(u, a)' <=> Owed(u, a)
      BY <1>1, <1>5, <2>4, <2>6 DEF Owed
    <3> QED
      BY <1>1, <2>2, <2>3, <2>6, <3>1 DEF PairFits, HasOwed
  <2> QED
    BY <2>5, <2>6
<1>12. ~Locked(w)
  BY <1>1 DEF Locked
<1> QED
  BY <1>1, <1>2, <1>7, <1>8, <1>10, <1>11, <1>12, NextStep, Unlocked

LEMMA ReadMembersFits ==
    ASSUME OneDomain, AccountInv, AppsInv, orderly, NEW w \in Workers, ReadMembers(w)
    PROVE  AppsInv'
<1>1. ~Free(w) /\ work[w].at = "members" /\ SameTables /\ packageLocks' = packageLocks
  BY DEF ReadMembers, In
<1>2. CallFits(w) /\ GroupsHaveEntries /\ Typed(w)
  BY <1>1, CallIs, WorkTyped
<1> DEFINE P == {m[1] : m \in {n \in member : Name[n[2]] = Name[work[w].group]}}
<1>3. work' = [work EXCEPT ![w].at = "next", ![w].people = P, ![w].apps = @ \cap catalog]
  BY DEF ReadMembers
<1>4. \A u : u \in P <=> <<u, work[w].group>> \in member
  <2>1. \A n \in member : n = <<n[1], n[2]>> /\ n[2] \in Groups
    BY <1>2 DEF Typed
  <2>2. work[w].group \in Groups
    BY <1>2 DEF Typed, Works
  <2>3. \A n \in member : Name[n[2]] = Name[work[w].group] <=> n[2] = work[w].group
    BY <2>1, <2>2, NamesDiffer
  <2>4. \A u : u \in P <=> \E n \in member : n[2] = work[w].group /\ n[1] = u
    BY <2>3
  <2> QED
    BY <2>1, <2>4
<1> HIDE DEF P
<1> DEFINE c == [work[w] EXCEPT !.at = "next", !.people = P, !.apps = @ \cap catalog]
<1>5. work'[w] = c /\ \A v \in Workers \ {w} : work'[v] = work[v]
  BY <1>3 DEF AccountInv, RowsInv, KeysInv, DirectoryTypeOK
<1>6. /\ c.at = "next" /\ c.op = work[w].op /\ c.group = work[w].group /\ c.people = P
      /\ c.apps = work[w].apps \cap catalog /\ c.person = work[w].person /\ c.todo = work[w].todo
      /\ c.app = work[w].app /\ c.failed = work[w].failed
  BY <1>2 DEF Typed, Works
<1> HIDE DEF c
<1>7. SameApps /\ UNCHANGED catalog
  BY <1>1 DEF SameTables, SameApps
<1>8. Op(w) = "install" /\ WalkFits(w)
  BY <1>1, <1>2 DEF CallFits, WalkFits, PlacesOf
<1>9. work[w].apps \subseteq AppsOf(work[w].group) /\ work[w].todo = {} /\ work[w].people = {}
  BY <1>1, <1>8 DEF WalkFits
<1>10. work[w].apps \cap catalog = work[w].apps
  BY <1>2, <1>9 DEF AppsOf, GroupsHaveEntries
<1>11. AppsOf(work[w].group)' = AppsOf(work[w].group) /\ GroupsHaveEntries'
  BY <1>2, <1>5, <1>6, <1>7 DEF SameApps, AppsOf, GroupsHaveEntries
<1>12. WalkFits(w)'
  <2>1. \A v \in P : <<v, work[w].group>> \in member'
    BY <1>4, <1>7 DEF SameApps
  <2> QED
    BY <1>5, <1>6, <1>8, <1>9, <1>10, <1>11, <2>1 DEF WalkFits, AppPlaces, PlacesOf, Op, Removals
<1>13. ASSUME NEW u \in Users, NEW a \in Apps PROVE PairFits(w, u, a)'
  <2>1. PairFits(w, u, a)
    BY <1>2 DEF CallFits
  <2>2. HalfDone(w, u, a)' <=> HalfDone(w, u, a)
    BY <1>1, <1>4, <1>5, <1>6, <1>7, <1>8, <1>9, <1>10 DEF HalfDone, Visits, AppPlaces, Op, SameApps
  <2>3. HasOwed(u, a)' <=> HasOwed(u, a)
    BY <1>7, HasOwedStays
  <2>4. HalfSound(w, u, a)' <=> HalfSound(w, u, a)
    BY <1>5, <1>6, <1>7, <1>8, OwedStays DEF HalfSound, Op, SameApps
  <2> QED
    BY <2>1, <2>2, <2>3, <2>4 DEF PairFits
<1>14. ~Locked(w)
  BY <1>1 DEF Locked
<1> QED
  BY <1>1, <1>2, <1>5, <1>6, <1>11, <1>12, <1>13, <1>14, NextStep, Unlocked

LEMMA NextPersonFits ==
    ASSUME AccountInv, AppsInv, orderly, NEW w \in Workers, NextPerson(w)
    PROVE  AppsInv'
<1>1. ~Free(w) /\ work[w].at = "next" /\ work[w].todo = {} /\ UNCHANGED <<groupApps, userApp, catalog, packageLocks>>
  BY DEF NextPerson, In
<1>2. CallFits(w) /\ GroupsHaveEntries /\ Typed(w)
  BY <1>1, CallIs, WorkTyped
<1>3. PICK u \in work[w].people, again \in BOOLEAN :
         /\ again <=> Op(w) = "join" /\ <<u, work[w].group>> \in member
         /\ member' = CASE Op(w) = "join" -> member \cup {<<u, work[w].group>>}
                        [] Op(w) \in {"leave", "drop"} -> member \ {<<u, work[w].group>>}
                        [] OTHER -> member
         /\ work' = [work EXCEPT ![w].person = u,
                                 ![w].people = IF again THEN {} ELSE @ \ {u},
                                 ![w].todo = IF again THEN {} ELSE work[w].apps]
  BY DEF NextPerson
<1> DEFINE c == [work[w] EXCEPT !.person = u,
                                !.people = IF again THEN {} ELSE @ \ {u},
                                !.todo = IF again THEN {} ELSE work[w].apps]
<1>4. work'[w] = c /\ \A v \in Workers \ {w} : work'[v] = work[v]
  BY <1>3 DEF AccountInv, RowsInv, KeysInv, DirectoryTypeOK
<1>5. /\ c.at = work[w].at /\ c.op = work[w].op /\ c.group = work[w].group /\ c.person = u
      /\ c.people = (IF again THEN {} ELSE work[w].people \ {u})
      /\ c.todo = (IF again THEN {} ELSE work[w].apps)
      /\ c.apps = work[w].apps /\ c.app = work[w].app /\ c.failed = work[w].failed
  BY <1>2 DEF Typed, Works
<1> HIDE DEF c
<1> DEFINE g == work[w].group  apps == work[w].apps
<1>6. /\ work'[w].at = "next" /\ work'[w].op = Op(w) /\ work'[w].group = g /\ work'[w].person = u
      /\ work'[w].people = (IF again THEN {} ELSE work[w].people \ {u})
      /\ work'[w].todo = (IF again THEN {} ELSE apps)
      /\ work'[w].apps = apps /\ work'[w].failed = work[w].failed
  BY <1>1, <1>4, <1>5 DEF Op
<1>7. Op(w) \in {"join", "leave", "drop", "install", "strip", "give", "take"} /\ WalkFits(w)
  <2>1. Op(w) \in Calls /\ WalkFits(w) /\ "next" \in PlacesOf(Op(w)) /\ Op(w) # "none"
    BY <1>1, <1>2 DEF CallFits, WalkFits, Op, Typed, Works, Free
  <2> QED
    BY <2>1 DEF PlacesOf, Calls, Installs, Removals
<1>8. g \in Groups /\ u \in Users /\ GroupsHaveEntries' /\ AppsOf(g)' = AppsOf(g)
  BY <1>1, <1>2, <1>6 DEF Typed, Works, GroupsHaveEntries, AppsOf
<1>9. ASSUME NEW x, NEW a PROVE Visits(w, x, a)' <=> ~again /\ x = u /\ a \in apps
  BY <1>6 DEF Visits, AppPlaces
<1>10. \A x, a : ~Visits(w, x, a)
  BY <1>1 DEF Visits, AppPlaces
<1>11. ASSUME NEW x, x # u \/ Op(w) \notin {"join", "leave", "drop"}, NEW h
       PROVE  <<x, h>> \in member' <=> <<x, h>> \in member
  BY <1>3, <1>7, <1>11
<1>12. \A h : h # g => (<<u, h>> \in member' <=> <<u, h>> \in member)
  BY <1>3
<1>13. ASSUME Op(w) = "join" PROVE WalkFits(w)' /\ \A x \in Users, a \in Apps : PairFits(w, x, a)'
  <2>1. apps = AppsOf(g)
    BY <1>1, <1>7, <1>13 DEF WalkFits
  <2>2. WalkFits(w)'
    BY <1>1, <1>6, <1>7, <1>8, <1>13, <2>1 DEF WalkFits, AppPlaces, PlacesOf, Op, Removals
  <2>3. ASSUME NEW x \in Users, NEW a \in Apps PROVE PairFits(w, x, a)'
    <3>1. HasOwed(x, a)
      BY <1>2, <1>10, <1>13 DEF CallFits, PairFits, HalfDone
    <3>2. HalfDone(w, x, a)' <=> ~again /\ x = u /\ a \in apps
      BY <1>6, <1>9, <1>13 DEF HalfDone, Op
    <3>3. CASE HalfDone(w, x, a)'
      <4>1. <<x, g>> \in member' /\ <<g, a>> \in groupApps'
        BY <1>1, <1>3, <1>13, <2>1, <3>2, <3>3 DEF AppsOf
      <4>2. Owed(x, a)'
        BY <1>8, <4>1 DEF Owed
      <4> QED
        BY <1>6, <1>13, <3>3, <4>2 DEF PairFits, HalfSound, Op
    <3>4. CASE ~HalfDone(w, x, a)'
      <4>1. \A h \in Groups : <<h, a>> \in groupApps => (<<x, h>> \in member' <=> <<x, h>> \in member)
        BY <1>3, <1>11, <1>12, <1>13, <2>1, <3>2, <3>4 DEF AppsOf
      <4>2. Owed(x, a)' <=> Owed(x, a)
        BY <1>1, <4>1 DEF Owed
      <4> QED
        BY <1>1, <3>1, <3>4, <4>2 DEF PairFits, HasOwed
    <3> QED
      BY <3>3, <3>4
  <2> QED
    BY <2>2, <2>3
<1>14. ASSUME Op(w) \in {"leave", "drop"} PROVE WalkFits(w)' /\ \A x \in Users, a \in Apps : PairFits(w, x, a)'
  <2>1. apps = AppsOf(g) /\ ~again /\ member' = member \ {<<u, g>>}
    BY <1>1, <1>3, <1>7, <1>14 DEF WalkFits
  <2>2. WalkFits(w)'
    <3>1. Op(w) = "drop" => \A v \in Users : <<v, g>> \in member' => v \in work'[w].people
      BY <1>1, <1>6, <1>7, <2>1 DEF WalkFits
    <3> QED
      BY <1>1, <1>6, <1>7, <1>8, <1>14, <2>1, <3>1 DEF WalkFits, AppPlaces, PlacesOf, Op, Removals
  <2>3. ASSUME NEW x \in Users, NEW a \in Apps PROVE PairFits(w, x, a)'
    <3>1. HasOwed(x, a)
      BY <1>2, <1>10, <1>14 DEF CallFits, PairFits, HalfDone
    <3>2. HalfDone(w, x, a)' <=> x = u /\ a \in apps
      BY <1>6, <1>9, <1>14, <2>1 DEF HalfDone, Op
    <3>3. CASE HalfDone(w, x, a)'
      <4>1. <<x, g>> \notin member' /\ (Owed(x, a)' => Owed(x, a))
        BY <1>1, <2>1, <3>2, <3>3 DEF Owed
      <4>2. Owed(x, a)' => userApp'[<<x, a>>] # "none"
        BY <1>1, <3>1, <4>1 DEF HasOwed
      <4> QED
        BY <1>6, <1>14, <3>3, <4>1, <4>2 DEF PairFits, HalfSound, Op
    <3>4. CASE ~HalfDone(w, x, a)'
      <4>1. \A h \in Groups : <<h, a>> \in groupApps => (<<x, h>> \in member' <=> <<x, h>> \in member)
        BY <1>11, <1>12, <2>1, <3>2, <3>4 DEF AppsOf
      <4>2. Owed(x, a)' <=> Owed(x, a)
        BY <1>1, <4>1 DEF Owed
      <4> QED
        BY <1>1, <3>1, <3>4, <4>2 DEF PairFits, HasOwed
    <3> QED
      BY <3>3, <3>4
  <2> QED
    BY <2>2, <2>3
<1>15. ASSUME Op(w) \in {"install", "strip", "give", "take"} PROVE WalkFits(w)' /\ \A x \in Users, a \in Apps : PairFits(w, x, a)'
  <2>1. SameApps /\ ~again
    BY <1>1, <1>3, <1>15 DEF SameApps
  <2>2. WalkFits(w)'
    <3>1. Op(w) \in {"install", "strip"} => \A v \in work'[w].people : <<v, g>> \in member'
      BY <1>6, <1>7, <2>1 DEF WalkFits, AppPlaces, SameApps
    <3> QED
      BY <1>1, <1>6, <1>7, <1>8, <1>15, <3>1 DEF WalkFits, AppPlaces, PlacesOf, Op, Removals
  <2>3. ASSUME NEW x \in Users, NEW a \in Apps PROVE PairFits(w, x, a)'
    <3>1. PairFits(w, x, a)
      BY <1>2 DEF CallFits
    <3>2. HalfDone(w, x, a)' <=> HalfDone(w, x, a)
      BY <1>1, <1>6, <1>9, <1>10, <1>15, <2>1 DEF HalfDone, Op, SameApps
    <3>3. HasOwed(x, a)' <=> HasOwed(x, a)
      BY <2>1, HasOwedStays
    <3>4. ASSUME HalfDone(w, x, a) PROVE HalfSound(w, x, a)' <=> HalfSound(w, x, a)
      <4>1. Op(w) \in {"install", "strip"} /\ a \in apps
        BY <1>1, <1>10, <1>15, <3>4 DEF HalfDone
      <4>2. x \in work'[w].people \/ Visits(w, x, a)' <=> x \in work[w].people \/ Visits(w, x, a)
        BY <1>6, <1>9, <1>10, <2>1, <4>1
      <4>3. Owed(x, a)' <=> Owed(x, a)
        BY <2>1, OwedStays DEF SameApps
      <4>4. OwedElse(x, a, g)' <=> OwedElse(x, a, g)
        BY <1>6, <2>1 DEF SameApps, OwedElse
      <4> QED
        BY <1>1, <1>6, <4>1, <4>2, <4>3, <4>4 DEF HalfSound, Op
    <3> QED
      BY <3>1, <3>2, <3>3, <3>4 DEF PairFits
  <2> QED
    BY <2>2, <2>3
<1>16. WalkFits(w)' /\ \A x \in Users, a \in Apps : PairFits(w, x, a)'
  BY <1>7, <1>13, <1>14, <1>15
<1>17. ~Locked(w)
  BY <1>1 DEF Locked
<1> QED
  BY <1>1, <1>2, <1>4, <1>6, <1>8, <1>16, <1>17, NextStep, Unlocked DEF Op

LEMMA NextAppFits ==
    ASSUME AccountInv, AppsInv, orderly, NEW w \in Workers, NextApp(w)
    PROVE  AppsInv'
<1>1. ~Free(w) /\ work[w].at = "next" /\ SameTables /\ packageLocks' = packageLocks
  BY DEF NextApp, In
<1>2. CallFits(w) /\ GroupsHaveEntries /\ Typed(w)
  BY <1>1, CallIs, WorkTyped
<1>3. PICK b \in work[w].todo, place \in {"lock", "check"} :
         /\ work' = [work EXCEPT ![w].app = b, ![w].todo = @ \ {b}, ![w].at = place]
         /\ place = IF Op(w) \in {"install", "give"} THEN "lock" ELSE "check"
  BY DEF NextApp
<1> DEFINE c == [work[w] EXCEPT !.app = b, !.todo = @ \ {b}, !.at = place]
<1>4. work'[w] = c /\ \A v \in Workers \ {w} : work'[v] = work[v]
  BY <1>3 DEF AccountInv, RowsInv, KeysInv, DirectoryTypeOK
<1>5. /\ c.at = place /\ c.op = work[w].op /\ c.group = work[w].group /\ c.person = work[w].person
      /\ c.people = work[w].people /\ c.todo = work[w].todo \ {b}
      /\ c.apps = work[w].apps /\ c.app = b /\ c.failed = work[w].failed
  BY <1>2 DEF Typed, Works
<1> HIDE DEF c
<1>6. SameApps /\ UNCHANGED catalog
  BY <1>1 DEF SameTables, SameApps
<1>7. Op(w) \in {"join", "leave", "drop", "install", "strip", "give", "take"} /\ WalkFits(w)
  <2>1. Op(w) \in Calls /\ WalkFits(w) /\ "next" \in PlacesOf(Op(w)) /\ Op(w) # "none"
    BY <1>1, <1>2 DEF CallFits, WalkFits, Op, Typed, Works, Free
  <2> QED
    BY <2>1 DEF PlacesOf, Calls, Installs, Removals
<1>8. GroupsHaveEntries' /\ AppsOf(work[w].group)' = AppsOf(work[w].group)
  BY <1>2, <1>4, <1>5, <1>6 DEF GroupsHaveEntries, AppsOf, SameApps
<1>9. place \in PlacesOf(Op(w)) /\ (place = "lock" => Op(w) \notin Removals)
  BY <1>3, <1>7 DEF PlacesOf, Removals
<1>10. WalkFits(w)'
  BY <1>1, <1>4, <1>5, <1>6, <1>7, <1>8, <1>9 DEF WalkFits, AppPlaces, Op, SameApps
<1>11. ASSUME NEW x, NEW a PROVE Visits(w, x, a)' <=> Visits(w, x, a)
  BY <1>1, <1>3, <1>4, <1>5 DEF Visits, AppPlaces
<1>12. ASSUME NEW x \in Users, NEW a \in Apps PROVE PairFits(w, x, a)'
  <2>1. PairFits(w, x, a)
    BY <1>2 DEF CallFits
  <2>2. HalfDone(w, x, a)' <=> HalfDone(w, x, a)
    BY <1>1, <1>4, <1>5, <1>6, <1>7, <1>11 DEF HalfDone, Op, SameApps
  <2>3. HasOwed(x, a)' <=> HasOwed(x, a)
    BY <1>6, HasOwedStays
  <2>4. HalfSound(w, x, a)' <=> HalfSound(w, x, a)
    <3>1. (Owed(x, a)' <=> Owed(x, a)) /\ (OwedElse(x, a, work[w].group)' <=> OwedElse(x, a, work[w].group))
      BY <1>4, <1>5, <1>6 DEF SameApps, Owed, OwedElse
    <3> QED
      BY <1>4, <1>5, <1>6, <1>11, <3>1 DEF HalfSound, Op, SameApps
  <2> QED
    BY <2>1, <2>2, <2>3, <2>4 DEF PairFits
<1>13. ~Locked(w)
  BY <1>1 DEF Locked
<1> QED
  BY <1>1, <1>2, <1>4, <1>5, <1>8, <1>10, <1>12, <1>13, NextStep, Unlocked

\* What is so of the app that the walk is at.
LEMMA WalkedApp ==
    ASSUME NEW w \in Workers, CallFits(w), Typed(w), work[w].at \in AppPlaces
    PROVE  /\ Op(w) \in {"join", "install", "leave", "drop", "strip", "give", "take"} /\ WalkFits(w)
           /\ work[w].at \in PlacesOf(Op(w))
           /\ work[w].app \in Apps /\ work[w].group \in Groups
           /\ work[w].app \in work[w].apps /\ work[w].app \notin work[w].todo
           /\ work[w].person \notin work[w].people
           /\ \A p \in packageLocks : p = Package(w)
           /\ \A x \in Users, a \in Apps : PairFits(w, x, a)
           /\ Op(w) \in {"join", "leave", "drop", "strip"} => <<work[w].group, work[w].app>> \in groupApps
<1>1. /\ Op(w) \in Calls /\ WalkFits(w) /\ work[w].at \in PlacesOf(Op(w)) /\ Op(w) # "none"
      /\ work[w].apps \subseteq Apps /\ work[w].todo \subseteq work[w].apps /\ work[w].group \in Groups
  BY DEF CallFits, WalkFits, Op, Typed, Works, Free
<1>2. Op(w) \in {"join", "install", "leave", "drop", "strip", "give", "take"}
  BY <1>1 DEF PlacesOf, Calls, Installs, Removals, AppPlaces
<1>3. /\ work[w].app \in work[w].apps /\ work[w].app \notin work[w].todo /\ work[w].person \notin work[w].people
      /\ Op(w) \in {"join", "leave", "drop", "strip"} => work[w].apps \subseteq AppsOf(work[w].group)
  BY <1>1 DEF WalkFits, AppPlaces
<1>4. Op(w) \in {"join", "leave", "drop", "strip"} => <<work[w].group, work[w].app>> \in groupApps
  BY <1>3 DEF AppsOf
<1> QED
  BY <1>1, <1>2, <1>3, <1>4 DEF CallFits

\* The call goes on with the same app, or leaves it.
LEMMA SamePairs ==
    ASSUME NEW w, NEW place \in AppPlaces, MovesTo(w, place), work[w].at \in AppPlaces, SameApps,
           NEW x, NEW a, PairFits(w, x, a)
    PROVE  PairFits(w, x, a)'
<1>1. Visits(w, x, a)' <=> Visits(w, x, a)
  BY DEF Visits, MovesTo
<1>2. HalfDone(w, x, a)' <=> HalfDone(w, x, a)
  BY <1>1 DEF HalfDone, MovesTo, AppPlaces, Op, SameApps
<1>3. HasOwed(x, a)' <=> HasOwed(x, a)
  BY HasOwedStays
<1>4. (Owed(x, a)' <=> Owed(x, a)) /\ (OwedElse(x, a, work[w].group)' <=> OwedElse(x, a, work[w].group))
  BY DEF SameApps, Owed, OwedElse, MovesTo
<1>5. HalfSound(w, x, a)' <=> HalfSound(w, x, a)
  BY <1>1, <1>4 DEF HalfSound, MovesTo, Op, SameApps
<1> QED
  BY <1>2, <1>3, <1>5 DEF PairFits

LEMMA OtherPairs ==
    ASSUME NEW w, NEW place \in {"next", "unlock"}, MovesTo(w, place),
           work[w].at \in AppPlaces \cup {"private", "unlock"}, UNCHANGED <<member, groupApps>>,
           NEW x, NEW a, x # work[w].person \/ a # work[w].app \/ work[w].at \in {"private", "unlock"},
           userApp'[<<x, a>>] = userApp[<<x, a>>], PairFits(w, x, a)
    PROVE  PairFits(w, x, a)'
<1>1. Visits(w, x, a)' <=> Visits(w, x, a)
  BY DEF Visits, MovesTo, AppPlaces
<1>2. HalfDone(w, x, a)' <=> HalfDone(w, x, a)
  BY <1>1 DEF HalfDone, MovesTo, AppPlaces, Op
<1>3. (Owed(x, a)' <=> Owed(x, a)) /\ (OwedElse(x, a, work[w].group)' <=> OwedElse(x, a, work[w].group))
  BY DEF Owed, OwedElse, MovesTo
<1>4. HasOwed(x, a)' <=> HasOwed(x, a)
  BY <1>3 DEF HasOwed
<1>5. HalfSound(w, x, a)' <=> HalfSound(w, x, a)
  BY <1>1, <1>3 DEF HalfSound, MovesTo, Op
<1> QED
  BY <1>2, <1>4, <1>5 DEF PairFits

\* The app that is left: only a group that is being stripped of it is still
\* half-done with it.
LEMMA AppLeft ==
    ASSUME NEW w \in Workers, NEW place \in {"next", "unlock"}, MovesTo(w, place), CallFits(w), Typed(w),
           work[w].at \in AppPlaces, UNCHANGED <<member, groupApps>>
    PROVE  LET x == work[w].person  a == work[w].app  g == work[w].group IN
           /\ HalfDone(w, x, a)' <=> Op(w) = "strip" /\ <<x, g>> \in member
           /\ HalfDone(w, x, a) <=> \/ Op(w) \in {"join", "install", "leave", "drop"}
                                    \/ Op(w) = "strip" /\ <<x, g>> \in member
           /\ Op(w) = "strip" => (HalfSound(w, x, a)' <=> (userApp'[<<x, a>>] # "private" =>
                                      (userApp'[<<x, a>>] = "copied" <=> OwedElse(x, a, g))))
           /\ Visits(w, x, a) /\ (Owed(x, a)' <=> Owed(x, a))
           /\ Owed(x, a) <=> (<<x, g>> \in member /\ <<g, a>> \in groupApps) \/ OwedElse(x, a, g)
<1> DEFINE x == work[w].person  a == work[w].app  g == work[w].group
<1>1. /\ Op(w) \in {"join", "install", "leave", "drop", "strip", "give", "take"}
      /\ a \in work[w].apps /\ a \notin work[w].todo /\ x \notin work[w].people /\ g \in Groups
  BY WalkedApp
<1>2. Visits(w, x, a)
  BY DEF Visits
<1>3. /\ work'[w].person = x /\ work'[w].app = a /\ work'[w].group = g /\ work'[w].op = Op(w) /\ work'[w].at = place
      /\ work'[w].apps = work[w].apps /\ work'[w].todo = work[w].todo /\ work'[w].people = work[w].people
  BY DEF MovesTo, Op
<1>4. ASSUME NEW y, NEW b, y = x, b = a PROVE ~Visits(w, y, b)'
  BY <1>1, <1>3, <1>4 DEF Visits, AppPlaces
<1>5. ASSUME NEW y, NEW b, y = x, b = a
      PROVE  /\ HalfDone(w, y, b)' <=> Op(w) = "strip" /\ <<x, g>> \in member
             /\ Op(w) = "strip" => (HalfSound(w, y, b)' <=> (userApp'[<<y, b>>] # "private" =>
                                       (userApp'[<<y, b>>] = "copied" <=> OwedElse(y, b, g))))
             /\ Owed(y, b)' <=> Owed(y, b)
  <2>1. HalfDone(w, y, b)' <=> Op(w) = "strip" /\ <<x, g>> \in member
    BY <1>1, <1>3, <1>4, <1>5 DEF HalfDone, Op
  <2>2. ASSUME NEW h, h = g PROVE OwedElse(y, b, h)' <=> OwedElse(y, b, h)
    BY DEF OwedElse
  <2>3. Op(w) = "strip" => (HalfSound(w, y, b)' <=> (userApp'[<<y, b>>] # "private" =>
                               (userApp'[<<y, b>>] = "copied" <=> OwedElse(y, b, g))))
    BY <1>1, <1>3, <1>4, <1>5, <2>2 DEF HalfSound, Op
  <2>4. Owed(y, b)' <=> Owed(y, b)
    BY DEF Owed
  <2> QED
    BY <2>1, <2>3, <2>4
<1>6. HalfDone(w, x, a) <=> \/ Op(w) \in {"join", "install", "leave", "drop"}
                            \/ Op(w) = "strip" /\ <<x, g>> \in member
  BY <1>1, <1>2 DEF HalfDone, AppPlaces
<1>7. Owed(x, a) <=> (<<x, g>> \in member /\ <<g, a>> \in groupApps) \/ OwedElse(x, a, g)
  BY <1>1, OwedSplits
<1> QED
  BY <1>2, <1>3, <1>5, <1>6, <1>7

\* Left as it is: it is private, or another group of the user has it.
LEMMA LeftAsItIs ==
    ASSUME NEW w \in Workers, NEW place \in {"next", "unlock"}, MovesTo(w, place), CallFits(w), Typed(w),
           work[w].at \in AppPlaces, SameApps, PairFits(w, work[w].person, work[w].app),
           Op(w) # "take",
           userApp[<<work[w].person, work[w].app>>] \in {"none", "copied", "private"},
           \/ userApp[<<work[w].person, work[w].app>>] = "private"
           \/ Op(w) \in Removals /\ OwedElse(work[w].person, work[w].app, work[w].group)
    PROVE  PairFits(w, work[w].person, work[w].app)'
<1> DEFINE x == work[w].person  a == work[w].app  g == work[w].group
<1>1. UNCHANGED <<member, groupApps>> /\ userApp'[<<x, a>>] = userApp[<<x, a>>] /\ x' = x /\ a' = a /\ g' = g
  BY DEF SameApps, MovesTo
<1>2. /\ HalfDone(w, x, a)' <=> Op(w) = "strip" /\ <<x, g>> \in member
      /\ HalfDone(w, x, a) <=> \/ Op(w) \in {"join", "install", "leave", "drop"}
                               \/ Op(w) = "strip" /\ <<x, g>> \in member
      /\ Op(w) = "strip" => (HalfSound(w, x, a)' <=> (userApp'[<<x, a>>] # "private" =>
                                 (userApp'[<<x, a>>] = "copied" <=> OwedElse(x, a, g))))
      /\ Visits(w, x, a) /\ (Owed(x, a)' <=> Owed(x, a))
      /\ Owed(x, a) <=> (<<x, g>> \in member /\ <<g, a>> \in groupApps) \/ OwedElse(x, a, g)
  BY <1>1, AppLeft
<1>3. CASE userApp[<<x, a>>] = "private"
  BY <1>1, <1>2, <1>3 DEF PairFits, HasOwed
<1>4. CASE userApp[<<x, a>>] # "private"
  <2>1. Op(w) \in Removals /\ OwedElse(x, a, g) /\ Owed(x, a)
    BY <1>2, <1>4
  <2>2. userApp[<<x, a>>] # "none"
    <3>1. CASE HalfDone(w, x, a)
      BY <1>2, <1>4, <2>1, <3>1 DEF PairFits, HalfSound, Removals
    <3>2. CASE ~HalfDone(w, x, a)
      BY <1>4, <2>1, <3>2 DEF PairFits, HasOwed
    <3> QED
      BY <3>1, <3>2
  <2>3. userApp'[<<x, a>>] = "copied"
    BY <1>1, <1>4, <2>2
  <2> QED
    BY <1>1, <1>2, <2>1, <2>3 DEF PairFits, HasOwed
<1> QED
  BY <1>3, <1>4

\* The walk goes on, with its app or without.
LEMMA WalkNext ==
    ASSUME NEW w, NEW place \in {"next", "unlock"}, MovesTo(w, place), WalkFits(w), SameApps,
           Op(w) \in {"join", "install", "leave", "drop", "strip", "give", "take"}, work[w].at \in AppPlaces
    PROVE  WalkFits(w)'
<1>1. place \in PlacesOf(Op(w))
  BY DEF PlacesOf
<1>2. AppsOf(work[w].group)' = AppsOf(work[w].group)
  BY DEF AppsOf, SameApps, MovesTo
<1> QED
  BY <1>1, <1>2 DEF WalkFits, AppPlaces, MovesTo, Op, SameApps

LEMMA WalkOn ==
    ASSUME NEW w, MovesTo(w, "look"), WalkFits(w), SameApps, work[w].at = "lock"
    PROVE  WalkFits(w)'
<1>1. "look" \in PlacesOf(Op(w))
  BY DEF PlacesOf, WalkFits
<1>2. AppsOf(work[w].group)' = AppsOf(work[w].group)
  BY DEF AppsOf, SameApps, MovesTo
<1>3. OwedElse(work[w].person, work[w].app, work[w].group)' <=> OwedElse(work[w].person, work[w].app, work[w].group)
  BY DEF OwedElse, SameApps, MovesTo
<1> QED
  BY <1>1, <1>2, <1>3 DEF WalkFits, AppPlaces, MovesTo, Op, SameApps

LEMMA CheckFits ==
    ASSUME OneDomain, AccountInv, AppsInv, orderly, NEW w \in Workers, Check(w)
    PROVE  AppsInv'
<1>1. ~Free(w) /\ work[w].at = "check" /\ SameTables /\ packageLocks' = packageLocks
  BY DEF Check, In
<1>2. CallFits(w) /\ GroupsHaveEntries /\ Typed(w)
  BY <1>1, CallIs, WorkTyped
<1> DEFINE x == work[w].person  a == work[w].app  g == work[w].group
           keep == \/ Op(w) # "take" /\ userApp[Package(w)] = "private"
                   \/ Op(w) \in Removals /\ InOtherGroup(x, a, g)
<1>3. IF keep THEN Next_(w, "next")
      ELSE IF a \in catalog THEN Next_(w, "lock")
      ELSE IF Op(w) \in Installs THEN Next_(w, "next") ELSE Failed(w)
  BY DEF Check
<1>4. SameApps /\ UNCHANGED catalog /\ GroupsHaveEntries'
  BY <1>1, <1>2 DEF SameTables, SameApps, GroupsHaveEntries
<1>5. /\ Op(w) \in {"join", "leave", "drop", "strip", "take"} /\ WalkFits(w) /\ a \in Apps /\ g \in Groups
      /\ \A y \in Users, b \in Apps : PairFits(w, y, b)
      /\ Op(w) # "take" => <<g, a>> \in groupApps
  <2>1. "check" \in PlacesOf(Op(w)) /\ Op(w) \in {"join", "install", "leave", "drop", "strip", "give", "take"}
    BY <1>1, <1>2, WalkedApp DEF AppPlaces
  <2>2. Op(w) \in {"join", "leave", "drop", "strip", "take"}
    BY <2>1 DEF PlacesOf
  <2> QED
    BY <1>1, <1>2, <2>2, WalkedApp DEF AppPlaces
<1>6. ~Locked(w)
  BY <1>1 DEF Locked
<1>7. Package(w) = <<x, a>>
  BY DEF Package
<1>8. Op(w) # "take" => (InOtherGroup(x, a, g) <=> OwedElse(x, a, g))
  BY <1>5, InOtherIsOwed
<1> HIDE DEF keep
<1>9. CASE keep
  <2>1. MovesTo(w, "next")
    BY <1>3, <1>9, MovesOn
  <2>2. Op(w) # "take" /\ (userApp[<<x, a>>] = "private" \/ (Op(w) \in Removals /\ OwedElse(x, a, g)))
    BY <1>5, <1>7, <1>8, <1>9 DEF keep, Removals
  <2>3. WalkFits(w)'
    BY <1>1, <1>4, <1>5, <2>1, WalkNext DEF AppPlaces
  <2>4. ASSUME NEW y \in Users, NEW b \in Apps PROVE PairFits(w, y, b)'
    <3>1. CASE y # x \/ b # a
      BY <1>1, <1>4, <1>5, <2>1, <3>1, OtherPairs DEF AppPlaces, SameApps
    <3>2. CASE y = x /\ b = a
      <4>1. PairFits(w, x, a) /\ userApp[<<x, a>>] \in {"none", "copied", "private"}
        BY <1>2, <1>5, <3>2 DEF Typed
      <4>2. PairFits(w, x, a)'
        BY <1>1, <1>2, <1>4, <1>5, <2>1, <2>2, <4>1, LeftAsItIs DEF AppPlaces
      <4>3. x' = x /\ a' = a
        BY <2>1 DEF MovesTo
      <4> QED
        BY <3>2, <4>2, <4>3
    <3> QED
      BY <3>1, <3>2
  <2> QED
    BY <1>1, <1>2, <1>4, <1>6, <2>1, <2>3, <2>4, NextStep, Unlocked DEF MovesTo
<1>10. CASE ~keep /\ a \in catalog
  <2>1. MovesTo(w, "lock")
    BY <1>3, <1>10, MovesOn
  <2>2. Op(w) \in Removals => ~OwedElse(x, a, g)
    BY <1>5, <1>8, <1>10 DEF keep, Removals
  <2>3. WalkFits(w)'
    <3>1. OwedElse(x, a, g)' <=> OwedElse(x, a, g)
      BY <1>4, <2>1 DEF OwedElse, SameApps, MovesTo
    <3>2. AppsOf(g)' = AppsOf(g) /\ "lock" \in PlacesOf(Op(w))
      BY <1>4, <1>5, <2>1 DEF AppsOf, SameApps, MovesTo, PlacesOf
    <3> QED
      BY <1>1, <1>4, <1>5, <2>1, <2>2, <3>1, <3>2 DEF WalkFits, AppPlaces, MovesTo, Op, SameApps
  <2>4. ASSUME NEW y \in Users, NEW b \in Apps PROVE PairFits(w, y, b)'
    BY <1>1, <1>4, <1>5, <2>1, SamePairs DEF AppPlaces
  <2> QED
    BY <1>1, <1>2, <1>4, <1>6, <2>1, <2>3, <2>4, NextStep, Unlocked DEF MovesTo
<1>11. CASE ~keep /\ a \notin catalog
  <2>1. Op(w) = "take"
    BY <1>2, <1>5, <1>11 DEF GroupsHaveEntries
  <2>2. Failed(w)
    BY <1>3, <1>11, <2>1 DEF Installs
  <2> DEFINE c == [work[w] EXCEPT !.at = "next", !.todo = {}, !.failed = TRUE]
  <2>3. work'[w] = c /\ \A v \in Workers \ {w} : work'[v] = work[v]
    BY <2>2 DEF Failed, AccountInv, RowsInv, KeysInv, DirectoryTypeOK
  <2>4. /\ c.at = "next" /\ c.op = work[w].op /\ c.group = work[w].group /\ c.person = work[w].person
        /\ c.people = work[w].people /\ c.todo = {} /\ c.apps = work[w].apps /\ c.app = work[w].app
    BY <1>2 DEF Typed, Works
  <2> HIDE DEF c
  <2>5. WalkFits(w)'
    BY <2>1, <2>3, <2>4 DEF WalkFits, PlacesOf, AppPlaces, Op, Removals
  <2>6. ASSUME NEW y \in Users, NEW b \in Apps PROVE PairFits(w, y, b)'
    <3>1. ~HalfDone(w, y, b) /\ ~HalfDone(w, y, b)'
      BY <2>1, <2>3, <2>4 DEF HalfDone, Op
    <3> QED
      BY <1>4, <1>5, <3>1, HasOwedStays DEF PairFits
  <2> QED
    BY <1>1, <1>2, <1>4, <1>6, <2>3, <2>4, <2>5, <2>6, NextStep, Unlocked
<1> QED
  BY <1>9, <1>10, <1>11

\* Alone, a call finds every lock free.
LEMMA GiveUpFits ==
    ASSUME AccountInv, AppsInv, orderly, NEW w \in Workers, GiveUp(w)
    PROVE  AppsInv'
<1>1. ~Free(w) /\ work[w].at = "lock" /\ Package(w) \in packageLocks
  BY DEF GiveUp, In
<1>2. Locked(w)
  BY <1>1, CallIs DEF CallFits
<1> QED
  BY <1>1, <1>2 DEF Locked

LEMMA LockFits ==
    ASSUME AccountInv, AppsInv, orderly, NEW w \in Workers, Lock(w)
    PROVE  AppsInv'
<1>1. /\ ~Free(w) /\ work[w].at = "lock" /\ SameTables /\ Next_(w, "look")
      /\ packageLocks' = packageLocks \cup {Package(w)}
  BY DEF Lock, In
<1>2. CallFits(w) /\ GroupsHaveEntries /\ Typed(w) /\ MovesTo(w, "look")
  BY <1>1, CallIs, WorkTyped, MovesOn
<1>3. SameApps /\ UNCHANGED catalog /\ GroupsHaveEntries'
  BY <1>1, <1>2 DEF SameTables, SameApps, GroupsHaveEntries
<1>4. WalkFits(w)'
  BY <1>1, <1>2, <1>3, WalkOn DEF CallFits
<1>5. ASSUME NEW y \in Users, NEW b \in Apps PROVE PairFits(w, y, b)'
  BY <1>1, <1>2, <1>3, SamePairs DEF AppPlaces, CallFits
<1>6. \A p \in packageLocks' : Locked(w)' /\ p = Package(w)'
  <2>1. packageLocks = {}
    BY <1>1, <1>2 DEF CallFits, Locked
  <2>2. Package(w)' = Package(w) /\ Locked(w)'
    BY <1>1, <1>2 DEF MovesTo, Package, Locked, Free
  <2> QED
    BY <1>1, <2>1, <2>2
<1> QED
  BY <1>1, <1>2, <1>3, <1>4, <1>5, <1>6, NextStep DEF MovesTo

LEMMA LookFits ==
    ASSUME OneDomain, AccountInv, AppsInv, orderly, NEW w \in Workers, Look(w)
    PROVE  AppsInv'
<1> DEFINE x == work[w].person  a == work[w].app  g == work[w].group
<1>1. /\ ~Free(w) /\ work[w].at = "look" /\ SameTables /\ packageLocks' = packageLocks
  BY DEF Look, In
<1>2. CallFits(w) /\ GroupsHaveEntries /\ Typed(w)
  BY <1>1, CallIs, WorkTyped
<1>3. SameApps /\ UNCHANGED catalog /\ GroupsHaveEntries'
  BY <1>1, <1>2 DEF SameTables, SameApps, GroupsHaveEntries
<1>4. /\ Op(w) \in {"join", "install", "leave", "drop", "strip", "give", "take"} /\ WalkFits(w)
      /\ \A y \in Users, b \in Apps : PairFits(w, y, b)
  BY <1>1, <1>2, WalkedApp DEF AppPlaces
<1>5. Package(w) = <<x, a>>
  BY DEF Package
<1>7. PICK place \in {"unlock", "private", "copied", "groups", "none"} :
         /\ Next_(w, place)
         /\ place = "unlock" => userApp[<<x, a>>] = "private" /\ Op(w) \notin {"give", "take"}
         /\ place = "private" <=> Op(w) = "give"
         /\ place = "copied" => Op(w) \in {"join", "install"}
         /\ place = "groups" => Op(w) = "take"
         /\ place = "none" => Op(w) \in Removals
  <2> DEFINE pl == IF userApp[Package(w)] = "private" /\ ~Private(w) THEN "unlock"
                   ELSE CASE Op(w) \in Installs /\ Private(w) -> "private"
                          [] Op(w) \in Installs /\ ~Private(w) -> "copied"
                          [] Op(w) = "take" -> "groups"
                          [] OTHER -> "none"
  <2>1. Next_(w, pl)
    BY DEF Look
  <2>2. pl \in {"unlock", "private", "copied", "groups", "none"}
    OBVIOUS
  <2>3. /\ pl = "unlock" => userApp[<<x, a>>] = "private" /\ Op(w) \notin {"give", "take"}
        /\ pl = "private" <=> Op(w) = "give"
        /\ pl = "copied" => Op(w) \in {"join", "install"}
        /\ pl = "groups" => Op(w) = "take"
        /\ pl = "none" => Op(w) \in Removals
    BY <1>4, <1>5 DEF Private, Installs, Removals
  <2> HIDE DEF pl
  <2> QED
    BY <2>1, <2>2, <2>3
<1>8. MovesTo(w, place)
  BY <1>7, MovesOn
<1>9. \A p \in packageLocks' : Locked(w)' /\ p = Package(w)'
  <2>1. Package(w)' = Package(w) /\ Locked(w)'
    BY <1>1, <1>7, <1>8 DEF MovesTo, Package, Locked, Free
  <2> QED
    BY <1>1, <1>2, <2>1 DEF CallFits
<1>10. CASE place \in {"copied", "groups", "none"}
  <2>1. WalkFits(w)'
    <3>1. (OwedElse(x, a, g)' <=> OwedElse(x, a, g)) /\ (Owed(x, a)' <=> Owed(x, a))
      BY <1>3, <1>8 DEF Owed, OwedElse, SameApps, MovesTo
    <3>2. AppsOf(g)' = AppsOf(g) /\ place \in PlacesOf(Op(w))
      BY <1>3, <1>4, <1>7, <1>8, <1>10 DEF AppsOf, SameApps, MovesTo, PlacesOf, Removals
    <3>3. Op(w) = "take" => place = "groups"
      BY <1>7, <1>10 DEF Removals
    <3> QED
      BY <1>1, <1>3, <1>4, <1>8, <1>10, <3>1, <3>2, <3>3 DEF WalkFits, AppPlaces, MovesTo, Op, SameApps
  <2>2. ASSUME NEW y \in Users, NEW b \in Apps PROVE PairFits(w, y, b)'
    BY <1>1, <1>3, <1>4, <1>8, <1>10, SamePairs DEF AppPlaces
  <2> QED
    BY <1>1, <1>2, <1>3, <1>8, <1>9, <2>1, <2>2, NextStep DEF MovesTo
<1>11. CASE place = "unlock"
  <2>1. WalkFits(w)'
    BY <1>1, <1>3, <1>4, <1>7, <1>8, <1>11, WalkNext DEF AppPlaces
  <2>2. ASSUME NEW y \in Users, NEW b \in Apps PROVE PairFits(w, y, b)'
    <3>1. CASE y # x \/ b # a
      BY <1>1, <1>3, <1>4, <1>8, <1>11, <3>1, OtherPairs DEF AppPlaces, SameApps
    <3>2. CASE y = x /\ b = a
      <4>1. PairFits(w, x, a) /\ userApp[<<x, a>>] \in {"none", "copied", "private"}
        BY <1>2, <1>4, <3>2 DEF Typed
      <4>2. PairFits(w, x, a)'
        BY <1>1, <1>2, <1>3, <1>4, <1>7, <1>8, <1>11, <4>1, LeftAsItIs DEF AppPlaces
      <4>3. x' = x /\ a' = a
        BY <1>8 DEF MovesTo
      <4> QED
        BY <3>2, <4>2, <4>3
    <3> QED
      BY <3>1, <3>2
  <2> QED
    BY <1>1, <1>2, <1>3, <1>8, <1>9, <2>1, <2>2, NextStep DEF MovesTo
<1>12. CASE place = "private"
  <2>1. Op(w) = "give"
    BY <1>7, <1>12
  <2>2. WalkFits(w)'
    BY <1>4, <1>8, <1>12, <2>1 DEF WalkFits, PlacesOf, AppPlaces, MovesTo, Op, Removals
  <2>3. ASSUME NEW y \in Users, NEW b \in Apps PROVE PairFits(w, y, b)'
    <3>1. ~HalfDone(w, y, b) /\ ~HalfDone(w, y, b)'
      BY <1>8, <2>1 DEF HalfDone, MovesTo, Op
    <3> QED
      BY <1>3, <1>4, <3>1, HasOwedStays DEF PairFits
  <2> QED
    BY <1>1, <1>2, <1>3, <1>8, <1>9, <2>2, <2>3, NextStep DEF MovesTo
<1> QED
  BY <1>10, <1>11, <1>12

\* What ReadGroups and LookForApp have in common.
LEMMA TakeFits ==
    ASSUME AccountInv, AppsInv, orderly, NEW w \in Workers, NEW from \in {"groups", "having"}, In(w, from),
           NEW place \in {"having", "copied", "none"}, MovesTo(w, place), SameTables, UNCHANGED packageLocks,
           place = "having" => work'[w].joined = {h \in Groups : <<work[w].person, h>> \in member},
           place \in {"copied", "none"} => (place = "copied" <=> Owed(work[w].person, work[w].app))
    PROVE  AppsInv'
<1> DEFINE x == work[w].person  a == work[w].app  g == work[w].group
<1>1. ~Free(w) /\ work[w].at = from
  BY DEF In
<1>2. CallFits(w) /\ GroupsHaveEntries /\ Typed(w)
  BY <1>1, CallIs, WorkTyped
<1>3. SameApps /\ UNCHANGED catalog /\ GroupsHaveEntries'
  BY <1>1, <1>2 DEF SameTables, SameApps, GroupsHaveEntries
<1>4. WalkFits(w) /\ Op(w) = "take" /\ \A y \in Users, b \in Apps : PairFits(w, y, b)
  <2>1. WalkFits(w) /\ \A y \in Users, b \in Apps : PairFits(w, y, b)
    BY <1>2 DEF CallFits
  <2>2. Op(w) \in {"join", "install", "leave", "drop", "strip", "give", "take"}
    BY <1>1, <1>2, WalkedApp DEF AppPlaces
  <2> QED
    BY <1>1, <2>1, <2>2 DEF WalkFits, PlacesOf
<1>5. \A p \in packageLocks' : Locked(w)' /\ p = Package(w)'
  <2>1. Package(w)' = Package(w) /\ Locked(w)'
    BY <1>1 DEF MovesTo, Package, Locked, Free
  <2> QED
    BY <1>2, <2>1 DEF CallFits
<1>6. WalkFits(w)'
  <2>1. Owed(x, a)' <=> Owed(x, a)
    BY <1>3 DEF Owed, SameApps, MovesTo
  <2>2. AppsOf(g)' = AppsOf(g) /\ place \in PlacesOf(Op(w))
    BY <1>3, <1>4 DEF AppsOf, SameApps, MovesTo, PlacesOf
  <2>3. member' = member
    BY <1>3 DEF SameApps
  <2> QED
    BY <1>1, <1>3, <1>4, <2>1, <2>2, <2>3 DEF WalkFits, AppPlaces, MovesTo, Op, SameApps, Removals
<1>7. ASSUME NEW y \in Users, NEW b \in Apps PROVE PairFits(w, y, b)'
  BY <1>1, <1>3, <1>4, SamePairs DEF AppPlaces
<1> QED
  BY <1>1, <1>2, <1>3, <1>5, <1>6, <1>7, NextStep DEF MovesTo

\* A call that takes an app moves on with the groups it has read.
LEMMA TakeMoves ==
    ASSUME AccountInv, NEW w \in Workers, NEW place, NEW joined,
           work' = [work EXCEPT ![w].at = place, ![w].joined = joined]
    PROVE  MovesTo(w, place) /\ work'[w].joined = joined
<1>1. work[w] \in Works /\ work \in [Workers -> Works]
  BY DEF AccountInv, RowsInv, KeysInv, DirectoryTypeOK
<1> DEFINE c == [work[w] EXCEPT !.at = place, !.joined = joined]
<1>2. /\ c.at = place /\ c.op = work[w].op /\ c.group = work[w].group /\ c.people = work[w].people
      /\ c.apps = work[w].apps /\ c.person = work[w].person /\ c.todo = work[w].todo
      /\ c.app = work[w].app /\ c.failed = work[w].failed /\ c.joined = joined
  BY <1>1 DEF Works
<1>3. work'[w] = c /\ \A v \in Workers \ {w} : work'[v] = work[v]
  BY <1>1 DEF Works
<1> HIDE DEF c
<1> QED
  BY <1>2, <1>3 DEF MovesTo

LEMMA ReadGroupsFits ==
    ASSUME AccountInv, AppsInv, orderly, NEW w \in Workers, ReadGroups(w)
    PROVE  AppsInv'
<1> DEFINE all == {g \in Groups : <<work[w].person, g>> \in member}
<1>1. MovesTo(w, "having") /\ work'[w].joined = all
  BY TakeMoves DEF ReadGroups
<1> QED
  BY <1>1, TakeFits DEF ReadGroups

LEMMA LookForAppFits ==
    ASSUME OneDomain, AccountInv, AppsInv, orderly, NEW w \in Workers, LookForApp(w)
    PROVE  AppsInv'
<1> DEFINE place == IF HaveApp(work[w].joined, work[w].app) THEN "copied" ELSE "none"
<1>1. ~Free(w) /\ work[w].at = "having"
  BY DEF LookForApp, In
<1>2. CallFits(w)
  BY <1>1, CallIs
<1>3. work[w].joined = {g \in Groups : <<work[w].person, g>> \in member}
  BY <1>1, <1>2 DEF CallFits, WalkFits
<1>4. HaveApp(work[w].joined, work[w].app) <=> Owed(work[w].person, work[w].app)
  BY <1>3, HaveIsOwed
<1>5. MovesTo(w, place)
  BY TakeMoves DEF LookForApp
<1>6. place \in {"copied", "none"} /\ (place = "copied" <=> Owed(work[w].person, work[w].app))
  BY <1>4
<1> HIDE DEF place
<1> QED
  BY <1>5, <1>6, TakeFits DEF LookForApp

LEMMA WriteFits ==
    ASSUME AccountInv, AppsInv, orderly, NEW w \in Workers, Write(w)
    PROVE  AppsInv'
<1> DEFINE x == work[w].person  a == work[w].app  g == work[w].group
<1>1. /\ ~Free(w) /\ work[w].at \in {"private", "copied", "none"} /\ UNCHANGED <<member, groupApps, catalog, packageLocks>>
      /\ Next_(w, "unlock") /\ userApp' = [userApp EXCEPT ![Package(w)] = work[w].at]
  BY DEF Write
<1>2. CallFits(w) /\ GroupsHaveEntries /\ Typed(w) /\ MovesTo(w, "unlock") /\ WalkFits(w)
  BY <1>1, CallIs, WorkTyped, MovesOn DEF CallFits
<1>3. GroupsHaveEntries' /\ Locked(w)' /\ Package(w)' = Package(w) /\ Package(w) = <<x, a>>
  BY <1>1, <1>2 DEF GroupsHaveEntries, MovesTo, Package, Locked, Free
<1>4. \A p \in packageLocks' : Locked(w)' /\ p = Package(w)'
  BY <1>1, <1>2, <1>3 DEF CallFits
<1>5. AppsOf(g)' = AppsOf(g) /\ x' = x /\ a' = a
  BY <1>1, <1>2 DEF AppsOf, MovesTo
<1>6. ASSUME NEW y \in Users, NEW b \in Apps, y # x \/ b # a PROVE userApp'[<<y, b>>] = userApp[<<y, b>>]
  BY <1>1, <1>2, <1>3, <1>6 DEF Typed
<1>7. ASSUME x \in Users, a \in Apps PROVE userApp'[<<x, a>>] = work[w].at
  BY <1>1, <1>2, <1>3, <1>7 DEF Typed
<1>8. CASE work[w].at = "private"
  <2>1. Op(w) = "give"
    <3>1. Op(w) \in Calls /\ Op(w) # "none" /\ "private" \in PlacesOf(Op(w))
      BY <1>1, <1>2, <1>8 DEF Typed, Works, WalkFits, Free, Op
    <3> QED
      BY <3>1 DEF PlacesOf, Calls, Installs, Removals
  <2>2. WalkFits(w)'
    BY <1>2, <2>1 DEF WalkFits, PlacesOf, AppPlaces, MovesTo, Op, Removals
  <2>3. ASSUME NEW y \in Users, NEW b \in Apps PROVE PairFits(w, y, b)'
    <3>1. ~HalfDone(w, y, b) /\ ~HalfDone(w, y, b)'
      BY <1>2, <2>1 DEF HalfDone, MovesTo, Op
    <3>2. HasOwed(y, b)
      BY <1>2, <3>1 DEF CallFits, PairFits
    <3>3. ASSUME y = x, b = a PROVE HasOwed(y, b)'
      BY <1>7, <1>8, <3>3 DEF HasOwed
    <3>4. ASSUME y # x \/ b # a PROVE HasOwed(y, b)'
      <4>1. (Owed(y, b)' <=> Owed(y, b)) /\ userApp'[<<y, b>>] = userApp[<<y, b>>]
        BY <1>1, <1>6, <3>4 DEF Owed
      <4> QED
        BY <3>2, <4>1 DEF HasOwed
    <3>5. HasOwed(y, b)'
      BY <3>3, <3>4
    <3> QED
      BY <3>1, <3>5 DEF PairFits
  <2> QED
    BY <1>1, <1>2, <1>3, <1>4, <2>2, <2>3, NextStep DEF MovesTo
<1>9. CASE work[w].at \in {"copied", "none"}
  <2>1. /\ Op(w) \in {"join", "install", "leave", "drop", "strip", "give", "take"} /\ g \in Groups /\ a \in Apps
        /\ work[w].at \in PlacesOf(Op(w))
        /\ \A y \in Users, b \in Apps : PairFits(w, y, b)
    BY <1>2, <1>9, WalkedApp DEF AppPlaces
  <2>2. /\ Op(w) \in Removals /\ work[w].at = "none" => ~OwedElse(x, a, g)
        /\ Op(w) = "take" => (work[w].at = "copied" <=> Owed(x, a))
    BY <1>2, <1>9 DEF WalkFits, Removals
  <2>3. /\ Op(w) \in {"join", "install"} => work[w].at = "copied"
        /\ Op(w) \in {"leave", "drop", "strip"} => work[w].at = "none"
        /\ Op(w) # "give"
    BY <1>9, <2>1 DEF PlacesOf
  <2>4. WalkFits(w)'
    <3>1. "unlock" \in PlacesOf(Op(w))
      BY <2>1 DEF PlacesOf
    <3> QED
      BY <1>1, <1>2, <1>5, <1>9, <2>1, <3>1 DEF WalkFits, AppPlaces, MovesTo, Op
  <2>5. ASSUME NEW y \in Users, NEW b \in Apps PROVE PairFits(w, y, b)'
    <3>1. CASE y # x \/ b # a
      BY <1>1, <1>2, <1>6, <1>9, <2>1, <3>1, OtherPairs DEF AppPlaces
    <3>2. CASE y = x /\ b = a
      <4>1. PairFits(w, x, a) /\ userApp'[<<x, a>>] = work[w].at
        BY <1>7, <2>1, <3>2
      <4>2. /\ HalfDone(w, x, a)' <=> Op(w) = "strip" /\ <<x, g>> \in member
            /\ HalfDone(w, x, a) <=> \/ Op(w) \in {"join", "install", "leave", "drop"}
                                     \/ Op(w) = "strip" /\ <<x, g>> \in member
            /\ Op(w) = "strip" => (HalfSound(w, x, a)' <=> (userApp'[<<x, a>>] # "private" =>
                                       (userApp'[<<x, a>>] = "copied" <=> OwedElse(x, a, g))))
            /\ Visits(w, x, a) /\ (Owed(x, a)' <=> Owed(x, a))
            /\ Owed(x, a) <=> (<<x, g>> \in member /\ <<g, a>> \in groupApps) \/ OwedElse(x, a, g)
        BY <1>1, <1>2, <1>5, <1>9, AppLeft DEF AppPlaces
      <4>3. CASE Op(w) \in {"join", "install"}
        <5>1. Owed(x, a)
          BY <4>1, <4>2, <4>3 DEF PairFits, HalfSound
        <5> QED
          BY <1>5, <2>3, <3>2, <4>1, <4>2, <4>3, <5>1 DEF PairFits, HasOwed
      <4>4. CASE Op(w) \in {"leave", "drop"}
        <5>1. <<x, g>> \notin member
          BY <4>1, <4>2, <4>4 DEF PairFits, HalfSound
        <5>2. ~Owed(x, a) /\ work[w].at = "none"
          BY <2>2, <2>3, <4>2, <4>4, <5>1 DEF Removals
        <5> QED
          BY <1>5, <3>2, <4>1, <4>2, <4>4, <5>2 DEF PairFits, HasOwed
      <4>5. CASE Op(w) = "strip"
        <5>1. ~OwedElse(x, a, g) /\ work[w].at = "none"
          BY <2>2, <2>3, <4>5 DEF Removals
        <5>2. CASE <<x, g>> \in member
          BY <1>5, <3>2, <4>1, <4>2, <4>5, <5>1, <5>2 DEF PairFits
        <5>3. CASE <<x, g>> \notin member
          BY <1>5, <3>2, <4>1, <4>2, <4>5, <5>1, <5>3 DEF PairFits, HasOwed
        <5> QED
          BY <5>2, <5>3
      <4>6. CASE Op(w) = "take"
        BY <1>5, <1>9, <2>2, <3>2, <4>1, <4>2, <4>6 DEF PairFits, HasOwed
      <4> QED
        BY <2>1, <2>3, <4>3, <4>4, <4>5, <4>6
    <3> QED
      BY <3>1, <3>2
  <2> QED
    BY <1>1, <1>2, <1>3, <1>4, <2>4, <2>5, NextStep DEF MovesTo
<1> QED
  BY <1>1, <1>8, <1>9

LEMMA UnlockFits ==
    ASSUME AccountInv, AppsInv, orderly, NEW w \in Workers, Unlock(w)
    PROVE  AppsInv'
<1>1. /\ ~Free(w) /\ work[w].at = "unlock" /\ SameTables /\ Next_(w, "next")
      /\ packageLocks' = packageLocks \ {Package(w)}
  BY DEF Unlock, In
<1>2. CallFits(w) /\ GroupsHaveEntries /\ Typed(w) /\ MovesTo(w, "next") /\ WalkFits(w)
  BY <1>1, CallIs, WorkTyped, MovesOn DEF CallFits
<1>3. SameApps /\ UNCHANGED catalog /\ GroupsHaveEntries'
  BY <1>1, <1>2 DEF SameTables, SameApps, GroupsHaveEntries
<1>4. WalkFits(w)'
  <2>1. Op(w) \in Calls /\ "unlock" \in PlacesOf(Op(w)) /\ Op(w) # "none"
    BY <1>1, <1>2 DEF WalkFits, Typed, Works, Op, Free
  <2>2. "next" \in PlacesOf(Op(w)) /\ Op(w) # "delete"
    BY <2>1 DEF PlacesOf, Calls, Installs, Removals
  <2>3. AppsOf(work[w].group)' = AppsOf(work[w].group)
    BY <1>2, <1>3 DEF AppsOf, SameApps, MovesTo
  <2> QED
    BY <1>1, <1>2, <1>3, <2>2, <2>3 DEF WalkFits, AppPlaces, MovesTo, Op, SameApps
<1>5. ASSUME NEW y \in Users, NEW b \in Apps PROVE PairFits(w, y, b)'
  BY <1>1, <1>2, <1>3, OtherPairs DEF CallFits, SameApps
<1>6. packageLocks' = {}
  BY <1>1, <1>2 DEF CallFits
<1> QED
  BY <1>1, <1>2, <1>3, <1>4, <1>5, <1>6, NextStep DEF MovesTo

LEMMA WalkEndsFits ==
    ASSUME OneDomain, AccountInv, AppsInv, orderly, NEW w \in Workers, WalkEnds(w)
    PROVE  AppsInv'
<1> DEFINE g == work[w].group
<1>1. /\ ~Free(w) /\ work[w].at = "next" /\ work[w].todo = {} /\ work[w].people = {}
      /\ UNCHANGED <<member, userApp, catalog, packageLocks>>
      /\ IF Op(w) = "drop" /\ ~work[w].failed THEN Next_(w, "row") ELSE Finished(w)
      /\ groupApps' =
            IF work[w].failed THEN groupApps
            ELSE CASE Op(w) = "drop" -> groupApps \ ({g} \X Apps)
                   [] Op(w) = "strip" -> {p \in groupApps : Name[p[1]] # Name[g] \/ p[2] \notin work[w].apps}
                   [] OTHER -> groupApps
  BY DEF WalkEnds, In
<1>2. CallFits(w) /\ GroupsHaveEntries /\ Typed(w) /\ WalkFits(w)
  BY <1>1, CallIs, WorkTyped DEF CallFits
<1>3. Op(w) \in {"join", "install", "leave", "drop", "strip", "give", "take"} /\ g \in Groups
  <2>1. Op(w) \in Calls /\ "next" \in PlacesOf(Op(w)) /\ Op(w) # "none"
    BY <1>1, <1>2 DEF WalkFits, Typed, Works, Op, Free
  <2> QED
    BY <1>2, <2>1 DEF PlacesOf, Calls, Installs, Removals, Typed, Works
<1>4. work[w].failed => Op(w) = "take"
  BY <1>2 DEF WalkFits
<1>5. groupApps' \subseteq groupApps /\ GroupsHaveEntries' /\ ~Locked(w)
  <2>1. groupApps' \subseteq groupApps
    BY <1>1
  <2> QED
    BY <1>1, <1>2, <2>1 DEF GroupsHaveEntries, Locked
<1>6. ASSUME NEW x \in Users, NEW a \in Apps
      PROVE  /\ HalfDone(w, x, a) <=> Op(w) = "strip" /\ a \in work[w].apps /\ <<x, g>> \in member
             /\ ~HalfDone(w, x, a) => HasOwed(x, a)
             /\ HalfDone(w, x, a) => HalfSound(w, x, a)
             /\ ~Visits(w, x, a)
  <2>1. ~Visits(w, x, a)
    BY <1>1 DEF Visits, AppPlaces
  <2>2. PairFits(w, x, a)
    BY <1>2 DEF CallFits
  <2> QED
    BY <1>1, <1>3, <2>1, <2>2 DEF HalfDone, PairFits
<1>7. ASSUME Op(w) = "drop" PROVE AppsInv'
  <2>1. MovesTo(w, "row") /\ groupApps' = groupApps \ ({g} \X Apps)
    BY <1>1, <1>4, <1>7, MovesOn
  <2>2. WalkFits(w)'
    BY <1>1, <1>2, <1>7, <2>1 DEF WalkFits, PlacesOf, AppPlaces, MovesTo, Op, Removals
  <2>3. ASSUME NEW x \in Users, NEW a \in Apps PROVE PairFits(w, x, a)'
    <3>1. HasOwed(x, a) /\ <<x, g>> \notin member
      BY <1>1, <1>2, <1>6, <1>7 DEF WalkFits
    <3>2. ~HalfDone(w, x, a)'
      BY <1>1, <1>7, <2>1 DEF HalfDone, Visits, AppPlaces, MovesTo, Op
    <3>3. Owed(x, a)' <=> Owed(x, a)
      BY <1>1, <2>1, <3>1 DEF Owed
    <3> QED
      BY <1>1, <3>1, <3>2, <3>3 DEF PairFits, HasOwed
  <2> QED
    BY <1>1, <1>2, <1>5, <2>1, <2>2, <2>3, NextStep, Unlocked DEF MovesTo
<1>8. ASSUME Op(w) # "drop" PROVE AppsInv'
  <2>1. Finished(w)
    BY <1>1, <1>8
  <2>2. ASSUME NEW x \in Users, NEW a \in Apps PROVE HasOwed(x, a)'
    <3>1. CASE Op(w) # "strip"
      <4>1. groupApps' = groupApps /\ HasOwed(x, a)
        BY <1>1, <1>6, <1>8, <3>1
      <4> QED
        BY <1>1, <4>1, HasOwedStays DEF SameApps
    <3>2. CASE Op(w) = "strip"
      <4>1. \A h \in Groups : <<h, a>> \in groupApps' <=> <<h, a>> \in groupApps /\ (h # g \/ a \notin work[w].apps)
        <5>1. groupApps' = {p \in groupApps : Name[p[1]] # Name[g] \/ p[2] \notin work[w].apps}
          BY <1>1, <1>4, <3>2
        <5>2. \A h \in Groups : Name[h] = Name[g] <=> h = g
          BY <1>3, NamesDiffer
        <5> QED
          BY <5>1, <5>2
      <4>2. CASE a \notin work[w].apps \/ <<x, g>> \notin member
        <5>1. Owed(x, a)' <=> Owed(x, a)
          BY <1>1, <4>1, <4>2 DEF Owed
        <5> QED
          BY <1>1, <1>6, <4>2, <5>1 DEF HasOwed
      <4>3. CASE a \in work[w].apps /\ <<x, g>> \in member
        <5>1. Owed(x, a)' <=> OwedElse(x, a, g)
          BY <1>1, <4>1, <4>3 DEF Owed, OwedElse
        <5>2. userApp[<<x, a>>] # "private" => (userApp[<<x, a>>] = "copied" <=> OwedElse(x, a, g))
          BY <1>1, <1>6, <3>2, <4>3 DEF HalfSound
        <5> QED
          BY <1>1, <5>1, <5>2 DEF HasOwed
      <4> QED
        BY <4>2, <4>3
    <3> QED
      BY <3>1, <3>2
  <2> QED
    BY <1>1, <1>2, <1>5, <2>1, <2>2, LastStep DEF Finished
<1> QED
  BY <1>7, <1>8

LEMMA DeleteGroupRowFits ==
    ASSUME AccountInv, AppsInv, orderly, NEW w \in Workers, DeleteGroupRow(w)
    PROVE  AppsInv'
<1>1. /\ ~Free(w) /\ work[w].at = "row" /\ UNCHANGED <<member, groupApps, userApp, catalog, packageLocks>> /\ Finished(w)
  BY DEF DeleteGroupRow, In
<1>2. CallFits(w) /\ GroupsHaveEntries /\ Typed(w) /\ WalkFits(w)
  BY <1>1, CallIs, WorkTyped DEF CallFits
<1>3. Op(w) = "drop"
  <2>1. Op(w) \in Calls /\ "row" \in PlacesOf(Op(w)) /\ Op(w) # "none"
    BY <1>1, <1>2 DEF WalkFits, Typed, Works, Op, Free
  <2> QED
    BY <2>1 DEF PlacesOf, Calls, Installs, Removals
<1>4. GroupsHaveEntries' /\ ~Locked(w) /\ work[w].todo = {}
  BY <1>1, <1>2 DEF GroupsHaveEntries, Locked, WalkFits
<1>5. ASSUME NEW x \in Users, NEW a \in Apps PROVE HasOwed(x, a)'
  <2>1. ~HalfDone(w, x, a)
    BY <1>1, <1>3, <1>4 DEF HalfDone, Visits, AppPlaces
  <2> QED
    BY <1>1, <1>2, <2>1, HasOwedStays DEF CallFits, PairFits, SameApps
<1> QED
  BY <1>1, <1>2, <1>4, <1>5, LastStep DEF Finished

\* The deletion of an app: nobody is owed it, if there were no owners.
LEMMA DeletesApp ==
    ASSUME NEW w \in Workers, CallFits(w), Typed(w), work[w].at \in {"owners", "entry"}
    PROVE  /\ Op(w) = "delete" /\ WalkFits(w) /\ ~Locked(w)
           /\ \A x \in Users, a \in Apps : ~HalfDone(w, x, a) /\ HasOwed(x, a)
<1>1. Op(w) = "delete" /\ WalkFits(w)
  <2>1. Op(w) \in Calls /\ Op(w) # "none" /\ WalkFits(w) /\ work[w].at \in PlacesOf(Op(w))
    BY DEF CallFits, WalkFits, Typed, Works, Op, Free
  <2> QED
    BY <2>1 DEF PlacesOf, Calls, Installs, Removals
<1>2. \A x \in Users, a \in Apps : ~HalfDone(w, x, a)
  BY <1>1 DEF HalfDone
<1> QED
  BY <1>1, <1>2 DEF Locked, CallFits, PairFits

LEMMA LookForOwnersFits ==
    ASSUME AccountInv, AppsInv, orderly, NEW w \in Workers, LookForOwners(w)
    PROVE  AppsInv'
<1>1. /\ ~Free(w) /\ work[w].at = "owners" /\ SameTables /\ packageLocks' = packageLocks
      /\ IF \E p \in groupApps : p[2] \in work[w].apps THEN Finished(w) ELSE Next_(w, "entry")
  BY DEF LookForOwners, In
<1>2. CallFits(w) /\ GroupsHaveEntries /\ Typed(w)
  BY <1>1, CallIs, WorkTyped
<1>3. SameApps /\ UNCHANGED catalog /\ GroupsHaveEntries'
  BY <1>1, <1>2 DEF SameTables, SameApps, GroupsHaveEntries
<1>4. Op(w) = "delete" /\ WalkFits(w) /\ ~Locked(w) /\ \A x \in Users, a \in Apps : ~HalfDone(w, x, a) /\ HasOwed(x, a)
  BY <1>1, <1>2, DeletesApp
<1>5. \A x \in Users, a \in Apps : HasOwed(x, a)'
  BY <1>3, <1>4, HasOwedStays
<1>6. CASE \E p \in groupApps : p[2] \in work[w].apps
  BY <1>1, <1>2, <1>3, <1>4, <1>5, <1>6, LastStep DEF Finished
<1>7. CASE ~ \E p \in groupApps : p[2] \in work[w].apps
  <2>1. MovesTo(w, "entry")
    BY <1>1, <1>7, MovesOn
  <2>2. WalkFits(w)'
    BY <1>3, <1>4, <1>7, <2>1 DEF WalkFits, PlacesOf, AppPlaces, MovesTo, Op, Removals, SameApps
  <2>3. ASSUME NEW x \in Users, NEW a \in Apps PROVE PairFits(w, x, a)'
    <3>1. ~HalfDone(w, x, a)'
      BY <1>4, <2>1 DEF HalfDone, MovesTo, Op
    <3> QED
      BY <1>5, <3>1 DEF PairFits
  <2> QED
    BY <1>1, <1>2, <1>3, <1>4, <2>1, <2>2, <2>3, NextStep, Unlocked DEF MovesTo
<1> QED
  BY <1>6, <1>7

LEMMA DeleteEntryFits ==
    ASSUME AccountInv, AppsInv, orderly, NEW w \in Workers, DeleteEntry(w)
    PROVE  AppsInv'
<1>1. /\ ~Free(w) /\ work[w].at = "entry" /\ UNCHANGED <<member, groupApps, userApp, packageLocks>> /\ Finished(w)
      /\ catalog' = catalog \ work[w].apps
  BY DEF DeleteEntry, In
<1>2. CallFits(w) /\ GroupsHaveEntries /\ Typed(w)
  BY <1>1, CallIs, WorkTyped
<1>3. Op(w) = "delete" /\ WalkFits(w) /\ ~Locked(w) /\ \A x \in Users, a \in Apps : ~HalfDone(w, x, a) /\ HasOwed(x, a)
  BY <1>1, <1>2, DeletesApp
<1>4. \A x \in Users, a \in Apps : HasOwed(x, a)'
  BY <1>1, <1>3, HasOwedStays DEF SameApps
<1>5. GroupsHaveEntries'
  <2>1. \A p \in groupApps : p[2] \notin work[w].apps
    BY <1>1, <1>3 DEF WalkFits
  <2> QED
    BY <1>1, <1>2, <2>1 DEF GroupsHaveEntries
<1> QED
  BY <1>1, <1>2, <1>3, <1>4, <1>5, LastStep DEF Finished

\* The deletion of a user.
LEMMA Erases ==
    ASSUME AccountInv, NEW w \in Workers, CallFits(w), work[w].at \in Erasing
    PROVE  Op(w) = "erase" /\ WalkFits(w) /\ ~Locked(w) /\ \A x \in Users, a \in Apps : PairFits(w, x, a)
BY DEF AccountInv, RowsInv, KeysInv, ErasersWalk, CallFits, Erasing, Locked

LEMMA EraseWalks ==
    ASSUME NEW w, NEW place \in Erasing, MovesTo(w, place), WalkFits(w), Op(w) = "erase"
    PROVE  WalkFits(w)'
<1>1. place \in PlacesOf("erase")
  BY DEF PlacesOf, Erasing
<1> QED
  BY <1>1 DEF WalkFits, AppPlaces, MovesTo, Op, Removals, Erasing

LEMMA DeleteUserAppsFits ==
    ASSUME AccountInv, AppsInv, orderly, NEW w \in Workers, DeleteUserApps(w)
    PROVE  AppsInv'
<1>1. /\ ~Free(w) /\ work[w].at = "apps of" /\ UNCHANGED <<member, groupApps, catalog, packageLocks>>
      /\ Next_(w, "devices of")
      /\ userApp' = [p \in Users \X Apps |-> IF p[1] = work[w].person THEN "none" ELSE userApp[p]]
  BY DEF DeleteUserApps, In
<1>2. CallFits(w) /\ GroupsHaveEntries /\ Typed(w) /\ MovesTo(w, "devices of")
  BY <1>1, CallIs, WorkTyped, MovesOn
<1>3. Op(w) = "erase" /\ WalkFits(w) /\ ~Locked(w) /\ \A x \in Users, a \in Apps : PairFits(w, x, a)
  BY <1>1, <1>2, Erases DEF Erasing
<1>4. WalkFits(w)' /\ GroupsHaveEntries'
  BY <1>1, <1>2, <1>3, EraseWalks DEF Erasing, GroupsHaveEntries
<1>5. ASSUME NEW x \in Users, NEW a \in Apps PROVE PairFits(w, x, a)'
  <2>1. ~HalfDone(w, x, a) /\ (HalfDone(w, x, a)' <=> x = work[w].person)
    BY <1>1, <1>2, <1>3 DEF HalfDone, MovesTo, Op
  <2>2. HasOwed(x, a)
    BY <1>3, <2>1 DEF PairFits
  <2>3. userApp'[<<x, a>>] = IF x = work[w].person THEN "none" ELSE userApp[<<x, a>>]
    BY <1>1
  <2>4. Owed(x, a)' <=> Owed(x, a)
    BY <1>1 DEF Owed
  <2>5. CASE x = work[w].person
    BY <1>2, <1>3, <2>1, <2>3, <2>5 DEF PairFits, HalfSound, MovesTo, Op
  <2>6. CASE x # work[w].person
    BY <2>1, <2>2, <2>3, <2>4, <2>6 DEF PairFits, HasOwed
  <2> QED
    BY <2>5, <2>6
<1> QED
  BY <1>1, <1>2, <1>3, <1>4, <1>5, NextStep, Unlocked DEF MovesTo

LEMMA DeleteUserDevicesFits ==
    ASSUME AccountInv, AppsInv, orderly, NEW w \in Workers, DeleteUserDevices(w)
    PROVE  AppsInv'
<1>1. /\ ~Free(w) /\ work[w].at = "devices of" /\ SameTables /\ packageLocks' = packageLocks /\ Next_(w, "groups of")
  BY DEF DeleteUserDevices, In
<1>2. CallFits(w) /\ GroupsHaveEntries /\ Typed(w) /\ MovesTo(w, "groups of") /\ SameApps /\ catalog' = catalog
  BY <1>1, CallIs, WorkTyped, MovesOn DEF SameTables, SameApps
<1>3. Op(w) = "erase" /\ WalkFits(w) /\ ~Locked(w) /\ \A x \in Users, a \in Apps : PairFits(w, x, a)
  BY <1>1, <1>2, Erases DEF Erasing
<1>4. WalkFits(w)' /\ GroupsHaveEntries'
  BY <1>2, <1>3, EraseWalks DEF Erasing, GroupsHaveEntries, SameApps
<1>5. ASSUME NEW x \in Users, NEW a \in Apps PROVE PairFits(w, x, a)'
  <2>1. HalfDone(w, x, a)' <=> HalfDone(w, x, a)
    BY <1>1, <1>2, <1>3 DEF HalfDone, MovesTo, Op
  <2>2. HalfSound(w, x, a)' <=> HalfSound(w, x, a)
    BY <1>2, <1>3 DEF HalfSound, MovesTo, Op, SameApps
  <2> QED
    BY <1>2, <1>3, <2>1, <2>2, HasOwedStays DEF PairFits
<1> QED
  BY <1>1, <1>2, <1>3, <1>4, <1>5, NextStep, Unlocked DEF MovesTo

LEMMA DeleteUserGroupsFits ==
    ASSUME AccountInv, AppsInv, orderly, NEW w \in Workers, DeleteUserGroups(w)
    PROVE  AppsInv'
<1>1. /\ ~Free(w) /\ work[w].at = "groups of" /\ UNCHANGED <<groupApps, userApp, catalog, packageLocks>>
      /\ Next_(w, "rows of") /\ member' = {m \in member : m[1] # work[w].person}
  BY DEF DeleteUserGroups, In
<1>2. CallFits(w) /\ GroupsHaveEntries /\ Typed(w) /\ MovesTo(w, "rows of")
  BY <1>1, CallIs, WorkTyped, MovesOn
<1>3. Op(w) = "erase" /\ WalkFits(w) /\ ~Locked(w) /\ \A x \in Users, a \in Apps : PairFits(w, x, a)
  BY <1>1, <1>2, Erases DEF Erasing
<1>4. WalkFits(w)' /\ GroupsHaveEntries'
  BY <1>1, <1>2, <1>3, EraseWalks DEF Erasing, GroupsHaveEntries
<1>5. ASSUME NEW x \in Users, NEW a \in Apps PROVE PairFits(w, x, a)'
  <2>1. ~HalfDone(w, x, a)' /\ (HalfDone(w, x, a) <=> x = work[w].person)
    BY <1>1, <1>2, <1>3 DEF HalfDone, MovesTo, Op
  <2>2. PairFits(w, x, a) /\ \A h : <<x, h>> \in member' <=> <<x, h>> \in member /\ x # work[w].person
    BY <1>1, <1>3
  <2>3. CASE x = work[w].person
    <3>1. userApp'[<<x, a>>] = "none"
      BY <1>1, <1>3, <2>1, <2>2, <2>3 DEF PairFits, HalfSound
    <3>2. ~Owed(x, a)'
      BY <2>2, <2>3 DEF Owed
    <3> QED
      BY <2>1, <3>1, <3>2 DEF PairFits, HasOwed
  <2>4. CASE x # work[w].person
    <3>1. Owed(x, a)' <=> Owed(x, a)
      BY <1>1, <2>2, <2>4 DEF Owed
    <3> QED
      BY <1>1, <2>1, <2>2, <2>4, <3>1 DEF PairFits, HasOwed
  <2> QED
    BY <2>3, <2>4
<1> QED
  BY <1>1, <1>2, <1>3, <1>4, <1>5, NextStep, Unlocked DEF MovesTo

LEMMA DeleteUserActivationsFits ==
    ASSUME AccountInv, AppsInv, orderly, NEW w \in Workers, DeleteUserActivations(w)
    PROVE  AppsInv'
<1>1. /\ ~Free(w) /\ work[w].at = "rows of" /\ SameTables /\ packageLocks' = packageLocks
      /\ work' = [work EXCEPT ![w] = NoWork]
  BY DEF DeleteUserActivations, In
<1>2. CallFits(w) /\ GroupsHaveEntries /\ Typed(w) /\ SameApps /\ catalog' = catalog
  BY <1>1, CallIs, WorkTyped DEF SameTables, SameApps
<1>3. Op(w) = "erase" /\ WalkFits(w) /\ ~Locked(w) /\ \A x \in Users, a \in Apps : PairFits(w, x, a)
  BY <1>1, <1>2, Erases DEF Erasing
<1>4. GroupsHaveEntries'
  BY <1>2 DEF GroupsHaveEntries, SameApps
<1>5. ASSUME NEW x \in Users, NEW a \in Apps PROVE HasOwed(x, a)'
  <2>1. ~HalfDone(w, x, a)
    BY <1>1, <1>3 DEF HalfDone
  <2> QED
    BY <1>2, <1>3, <2>1, HasOwedStays DEF PairFits
<1> QED
  BY <1>1, <1>2, <1>3, <1>4, <1>5, LastStep

-----------------------------------------------------------------------------
(* Calls that begin. *)
LEMMA NoWorkFields ==
    NoWork.todo = {} /\ NoWork.failed = FALSE /\ NoWork.people = {} /\ NoWork.apps = {} /\ NoWork.group = AllGroup
BY DEF NoWork

LEMMA FirstStep ==
    ASSUME AccountInv, AppsInv, orderly, NEW w \in Workers, NEW c, \A v \in Workers : Free(v),
           work' = [work EXCEPT ![w] = c], c.op # "none", UNCHANGED <<member, groupApps, userApp, catalog, packageLocks>>,
           WalkFits(w)', \A x \in Users, a \in Apps : HasOwed(x, a)' => PairFits(w, x, a)'
    PROVE  AppsInv'
<1>1. GroupsHaveEntries /\ NoCallFits
  BY NobodyIs
<1>2. work'[w] = c /\ \A v \in Workers \ {w} : work'[v] = work[v]
  BY DEF AccountInv, RowsInv, KeysInv, DirectoryTypeOK
<1>3. ~Free(w)' /\ Quiet(w)' /\ GroupsHaveEntries'
  BY <1>1, <1>2 DEF Free, Quiet, GroupsHaveEntries
<1>4. \A x \in Users, a \in Apps : PairFits(w, x, a)'
  BY <1>1, HasOwedStays DEF SameApps, NoCallFits
<1>5. CallFits(w)'
  BY <1>1, <1>3, <1>4 DEF CallFits, NoCallFits
<1> QED
  BY <1>3, <1>5 DEF AppsInv

\* A call of joins to a group, also with a row of a group or a user that is new.
LEMMA JoinFits ==
    ASSUME AccountInv, AppsInv, orderly, NEW w \in Workers, NEW c, \A v \in Workers : Free(v),
           work' = [work EXCEPT ![w] = c], c.op = "join", c.at = "apps", c.todo = {}, c.failed = FALSE,
           UNCHANGED <<member, groupApps, userApp, catalog, packageLocks>>
    PROVE  AppsInv'
<1>1. work'[w] = c
  BY DEF AccountInv, RowsInv, KeysInv, DirectoryTypeOK
<1>2. WalkFits(w)'
  <2>1. work'[w].op = "join" /\ work'[w].at = "apps" /\ work'[w].todo = {} /\ work'[w].failed = FALSE
    BY <1>1
  <2>2. "apps" \in PlacesOf("join")
    BY DEF PlacesOf
  <2> QED
    BY <2>1, <2>2 DEF WalkFits, AppPlaces, Op, Removals
<1>3. ASSUME NEW x \in Users, NEW a \in Apps, HasOwed(x, a)' PROVE PairFits(w, x, a)'
  <2>1. ~HalfDone(w, x, a)'
    BY <1>1 DEF HalfDone, Visits, AppPlaces, Op
  <2> QED
    BY <1>3, <2>1 DEF PairFits
<1>4. c.op # "none"
  OBVIOUS
<1> QED
  BY <1>2, <1>3, <1>4, FirstStep

CallStarts(op, place, g, people, apps) ==
    \/ op \in {"join", "leave"} /\ place = "apps"
    \/ op = "drop" /\ place = "apps" /\ people = {u \in Users : <<u, g>> \in member}
    \/ op = "install" /\ place = "group" /\ people = {} /\ apps \subseteq catalog
    \/ op = "strip" /\ place = "next" /\ people = {u \in Users : <<u, g>> \in member}
    \/ op \in {"give", "take"} /\ place = "next"
    \/ op = "delete" /\ place = "owners"

LEMMA CallStartFits ==
    ASSUME AccountInv, AppsInv, NEW w, NEW op, NEW place, NEW g \in Groups, NEW people \in SUBSET Users,
           NEW apps \in SUBSET Apps, CallStarts(op, place, g, people, apps), Call(w, op, place, g, people, apps)
    PROVE  AppsInv'
<1> SUFFICES ASSUME orderly' PROVE AppsInv'
  BY DEF AppsInv
<1>1. w \in Workers /\ Free(w)
  BY BeginsIs DEF Call
<1>2. orderly /\ Quiet(w) /\ (op = "strip" => apps \subseteq AppsOf(g))
  BY DEF Call
<1>3. UNCHANGED <<member, groupApps, userApp, catalog, packageLocks>> /\ \A v \in Workers : Free(v)
  BY <1>1, <1>2 DEF Call, SameTables, Quiet
<1> DEFINE c == [NoWork EXCEPT !.op = op, !.at = place, !.group = g, !.people = people, !.apps = apps]
<1>4. work' = [work EXCEPT ![w] = c]
  BY DEF Call
<1>5. /\ c.op = op /\ c.at = place /\ c.group = g /\ c.people = people /\ c.apps = apps
      /\ c.todo = {} /\ c.failed = FALSE
  BY NoWorkFields DEF NoWork
<1> HIDE DEF c
<1>6. work'[w] = c
  BY <1>1, <1>4 DEF AccountInv, RowsInv, KeysInv, DirectoryTypeOK
<1>7. c.op # "none"
  BY <1>5 DEF CallStarts
<1>8. AppsOf(g)' = AppsOf(g)
  BY <1>3 DEF AppsOf
<1>9. WalkFits(w)'
  <2>1. place \in PlacesOf(op)
    BY DEF CallStarts, PlacesOf
  <2>2. \A v \in people : op = "strip" => <<v, g>> \in member'
    BY <1>3 DEF CallStarts
  <2>3. \A v \in Users : op = "drop" /\ <<v, g>> \in member' => v \in people
    BY <1>3 DEF CallStarts
  <2>4. /\ op = "install" => people = {} /\ place = "group" /\ apps \subseteq catalog'
        /\ op \in {"join", "leave", "drop"} => place = "apps"
        /\ op = "delete" => place = "owners"
        /\ op \in {"strip", "give", "take"} => place = "next"
        /\ op = "install" \/ place # "group"
        /\ place \notin {"members", "row", "check", "lock", "look", "groups", "having", "copied", "none"}
    BY <1>3 DEF CallStarts
  <2> QED
    BY <1>2, <1>5, <1>6, <1>8, <2>1, <2>2, <2>3, <2>4 DEF WalkFits, AppPlaces, Op, Removals
<1>10. ASSUME NEW x \in Users, NEW a \in Apps, HasOwed(x, a)' PROVE PairFits(w, x, a)'
  <2>1. ~Visits(w, x, a)'
    BY <1>5, <1>6 DEF Visits, AppPlaces, CallStarts
  <2>2. CASE op # "strip"
    <3>1. ~HalfDone(w, x, a)'
      BY <1>5, <1>6, <2>1, <2>2 DEF HalfDone, Op, CallStarts
    <3> QED
      BY <1>10, <3>1 DEF PairFits
  <2>3. CASE op = "strip"
    <3>1. people = {u \in Users : <<u, g>> \in member}
      BY <2>3 DEF CallStarts
    <3>2. HalfDone(w, x, a)' <=> a \in apps /\ <<x, g>> \in member'
      BY <1>5, <1>6, <2>1, <2>3 DEF HalfDone, Op
    <3>3. ASSUME HalfDone(w, x, a)' PROVE HalfSound(w, x, a)'
      <4>1. x \in work'[w].people /\ <<g, a>> \in groupApps' /\ <<x, g>> \in member'
        BY <1>2, <1>3, <1>5, <1>6, <2>3, <3>1, <3>2, <3>3 DEF AppsOf
      <4>2. Owed(x, a)'
        BY <4>1 DEF Owed
      <4>3. userApp'[<<x, a>>] # "none"
        BY <1>10, <4>2 DEF HasOwed
      <4> QED
        BY <1>5, <1>6, <2>3, <4>1, <4>3 DEF HalfSound, Op
    <3> QED
      BY <1>10, <3>3 DEF PairFits
  <2> QED
    BY <2>2, <2>3
<1> QED
  BY <1>1, <1>2, <1>3, <1>4, <1>7, <1>9, <1>10, FirstStep

LEMMA JoinsFit ==
    ASSUME AccountInv, AppsInv, NEW w, NEW g \in Groups, NEW people \in SUBSET user,
           JoinGroup(w, g, people) \/ LeaveGroup(w, g, people)
    PROVE  AppsInv'
<1>1. people \in SUBSET Users /\ {} \in SUBSET Apps
  BY DEF AccountInv, RowsInv, KeysInv, RowTypeOK
<1>2. CallStarts("join", "apps", g, people, {}) /\ CallStarts("leave", "apps", g, people, {})
  BY DEF CallStarts
<1> QED
  BY <1>1, <1>2, CallStartFits DEF JoinGroup, LeaveGroup

LEMMA DropsFit ==
    ASSUME AccountInv, AppsInv, NEW w, NEW g \in Groups, DropGroup(w, g)
    PROVE  AppsInv'
<1> DEFINE people == {v \in Users : <<v, g>> \in member}
<1>1. people \in SUBSET Users /\ {} \in SUBSET Apps /\ CallStarts("drop", "apps", g, people, {})
  BY DEF CallStarts
<1>2. Call(w, "drop", "apps", g, people, {})
  BY DEF DropGroup
<1> HIDE DEF people
<1> QED
  BY <1>1, <1>2, CallStartFits

LEMMA InstallsFit ==
    ASSUME AccountInv, AppsInv, NEW w, NEW g \in Groups, NEW a \in Apps, InstallToGroup(w, g, a) \/ StripGroup(w, g, a)
    PROVE  AppsInv'
<1> DEFINE people == {v \in Users : <<v, g>> \in member}
<1>1. /\ people \in SUBSET Users /\ {} \in SUBSET Users /\ {a} \in SUBSET Apps
      /\ CallStarts("strip", "next", g, people, {a}) /\ (a \in catalog => CallStarts("install", "group", g, {}, {a}))
  BY DEF CallStarts
<1>2. (a \in catalog /\ Call(w, "install", "group", g, {}, {a})) \/ Call(w, "strip", "next", g, people, {a})
  BY DEF InstallToGroup, StripGroup
<1> HIDE DEF people
<1> QED
  BY <1>1, <1>2, CallStartFits

LEMMA DeleteAppFits ==
    ASSUME AccountInv, AppsInv, NEW w, NEW a \in Apps, DeleteApp(w, a)
    PROVE  AppsInv'
<1>1. AllGroup \in Groups /\ {} \in SUBSET Users /\ {a} \in SUBSET Apps /\ CallStarts("delete", "owners", AllGroup, {}, {a})
  BY DirectoryAssumption DEF CallStarts
<1> QED
  BY <1>1, CallStartFits DEF DeleteApp

LEMMA GivesFit ==
    ASSUME AccountInv, AppsInv, NEW w, NEW a \in Apps, NEW u \in user, GiveApp(w, u, a) \/ TakeApp(w, u, a)
    PROVE  AppsInv'
<1>1. AllGroup \in Groups /\ {u} \in SUBSET Users /\ {a} \in SUBSET Apps
  BY DirectoryAssumption DEF AccountInv, RowsInv, KeysInv, RowTypeOK
<1>2. CallStarts("give", "next", AllGroup, {u}, {a}) /\ CallStarts("take", "next", AllGroup, {u}, {a})
  BY DEF CallStarts
<1> QED
  BY <1>1, <1>2, CallStartFits DEF GiveApp, TakeApp

LEMMA CreateGroupFits ==
    ASSUME AccountInv, AppsInv, NEW w, NEW g \in Groups, NEW people \in SUBSET user, CreateGroup(w, g, people)
    PROVE  AppsInv'
<1> SUFFICES ASSUME orderly' PROVE AppsInv'
  BY DEF AppsInv
<1>1. w \in Workers /\ Free(w) /\ orderly /\ Quiet(w)
  BY BeginsIs DEF CreateGroup
<1>2. UNCHANGED <<member, groupApps, userApp, catalog, packageLocks>> /\ \A v \in Workers : Free(v)
  BY <1>1 DEF CreateGroup, Quiet
<1> DEFINE c == [NoWork EXCEPT !.op = "join", !.at = "apps", !.group = g, !.people = people]
<1>3. work' = [work EXCEPT ![w] = c]
  BY DEF CreateGroup
<1>4. c.op = "join" /\ c.at = "apps" /\ c.todo = {} /\ c.failed = FALSE
  BY NoWorkFields DEF NoWork
<1> HIDE DEF c
<1> QED
  BY <1>1, <1>2, <1>3, <1>4, JoinFits

LEMMA AddProfileFits ==
    ASSUME AccountInv, AppsInv, NEW w, NEW u \in Users, NEW password \in BOOLEAN, AddProfile(w, u, password)
    PROVE  AppsInv'
<1> SUFFICES ASSUME orderly' PROVE AppsInv'
  BY DEF AppsInv
<1>1. w \in Workers /\ Free(w) /\ orderly /\ Quiet(w)
  BY BeginsIs DEF AddProfile
<1>2. UNCHANGED <<member, groupApps, userApp, catalog, packageLocks>> /\ \A v \in Workers : Free(v)
  BY <1>1 DEF AddProfile, SameTables, Quiet
<1> DEFINE c == [NoWork EXCEPT !.op = "join", !.at = "apps", !.people = {u}]
<1>3. work' = [work EXCEPT ![w] = c]
  BY DEF AddProfile
<1>4. c.op = "join" /\ c.at = "apps" /\ c.todo = {} /\ c.failed = FALSE
  BY NoWorkFields DEF NoWork
<1> HIDE DEF c
<1> QED
  BY <1>1, <1>2, <1>3, <1>4, JoinFits

LEMMA EnrolFits ==
    ASSUME AccountInv, AppsInv, NEW w \in Workers, Enrol(w)
    PROVE  AppsInv'
<1> SUFFICES ASSUME orderly' PROVE AppsInv'
  BY DEF AppsInv
<1>1. Free(w) /\ orderly /\ Quiet(w) /\ w \in Requests
  BY DEF Enrol
<1>2. UNCHANGED <<member, groupApps, userApp, catalog, packageLocks>> /\ \A v \in Workers : Free(v)
  BY <1>1 DEF Enrol, SameTables, Quiet
<1>3. PICK u : work' = [work EXCEPT ![w] = [NoWork EXCEPT !.op = "join", !.at = "apps", !.people = {u}]]
  BY DEF Enrol
<1> DEFINE c == [NoWork EXCEPT !.op = "join", !.at = "apps", !.people = {u}]
<1>4. work' = [work EXCEPT ![w] = c]
  BY <1>3
<1>5. c.op = "join" /\ c.at = "apps" /\ c.todo = {} /\ c.failed = FALSE
  BY NoWorkFields DEF NoWork
<1> HIDE DEF c
<1> QED
  BY <1>1, <1>2, <1>4, <1>5, JoinFits

LEMMA DeleteProfileFits ==
    ASSUME AccountInv, AppsInv, NEW w, NEW u \in user, DeleteProfile(w, u)
    PROVE  AppsInv'
<1> SUFFICES ASSUME orderly' PROVE AppsInv'
  BY DEF AppsInv
<1>1. w \in Workers /\ Free(w) /\ orderly /\ Quiet(w)
  BY BeginsIs DEF DeleteProfile
<1>2. UNCHANGED <<member, groupApps, userApp, catalog, packageLocks>> /\ \A v \in Workers : Free(v)
  BY <1>1 DEF DeleteProfile, SameTables, Quiet
<1> DEFINE c == [NoWork EXCEPT !.op = "erase", !.at = "apps of", !.person = u]
<1>3. work' = [work EXCEPT ![w] = c]
  BY DEF DeleteProfile
<1>4. c.op = "erase" /\ c.at = "apps of" /\ c.todo = {} /\ c.failed = FALSE
  BY NoWorkFields DEF NoWork
<1> HIDE DEF c
<1>5. work'[w] = c /\ c.op # "none"
  BY <1>1, <1>3, <1>4 DEF AccountInv, RowsInv, KeysInv, DirectoryTypeOK
<1>6. WalkFits(w)'
  BY <1>4, <1>5 DEF WalkFits, PlacesOf, AppPlaces, Op, Removals
<1>7. ASSUME NEW x \in Users, NEW a \in Apps, HasOwed(x, a)' PROVE PairFits(w, x, a)'
  <2>1. ~HalfDone(w, x, a)'
    BY <1>4, <1>5 DEF HalfDone, Op
  <2> QED
    BY <1>7, <2>1 DEF PairFits
<1> QED
  BY <1>1, <1>2, <1>3, <1>5, <1>6, <1>7, FirstStep

\* The steps that move no call and no table of apps.
LEMMA CallKept ==
    ASSUME NEW w \in Workers, CallFits(w), work'[w] = work[w], \A v \in Workers : Free(v) => Free(v)',
           SameApps, packageLocks' = packageLocks, catalog \subseteq catalog'
    PROVE  CallFits(w)'
<1>1. /\ Op(w)' = Op(w) /\ Package(w)' = Package(w) /\ (Locked(w)' <=> Locked(w)) /\ (Free(w)' <=> Free(w))
      /\ AppsOf(work[w].group)' = AppsOf(work[w].group)
  BY DEF Op, Package, Locked, Free, AppsOf, SameApps
<1>2. Quiet(w)'
  BY DEF CallFits, Quiet
<1>3. WalkFits(w)'
  <2>1. OwedElse(work[w].person, work[w].app, work[w].group)' <=> OwedElse(work[w].person, work[w].app, work[w].group)
    BY DEF OwedElse, SameApps
  <2>2. Owed(work[w].person, work[w].app)' <=> Owed(work[w].person, work[w].app)
    BY DEF Owed, SameApps
  <2> QED
    BY <1>1, <2>1, <2>2 DEF CallFits, WalkFits, SameApps
<1>4. ASSUME NEW x \in Users, NEW a \in Apps PROVE PairFits(w, x, a)'
  <2>1. Visits(w, x, a)' <=> Visits(w, x, a)
    BY DEF Visits
  <2>2. HalfDone(w, x, a)' <=> HalfDone(w, x, a)
    BY <1>1, <2>1 DEF HalfDone, SameApps
  <2>3. HasOwed(x, a)' <=> HasOwed(x, a)
    BY HasOwedStays
  <2>4. (Owed(x, a)' <=> Owed(x, a)) /\ (OwedElse(x, a, work[w].group)' <=> OwedElse(x, a, work[w].group))
    BY DEF Owed, OwedElse, SameApps
  <2>5. HalfSound(w, x, a)' <=> HalfSound(w, x, a)
    BY <1>1, <2>1, <2>4 DEF HalfSound, SameApps
  <2> QED
    BY <2>2, <2>3, <2>5 DEF CallFits, PairFits
<1> QED
  BY <1>1, <1>2, <1>3, <1>4 DEF CallFits

LEMMA AppsKept ==
    ASSUME AppsInv, orderly' => orderly, \A v \in Workers : (Free(v) => Free(v)') /\ (Free(v) \/ work'[v] = work[v]),
           SameApps, packageLocks' = packageLocks, catalog \subseteq catalog'
    PROVE  AppsInv'
<1> SUFFICES ASSUME orderly' PROVE AppsInv'
  BY DEF AppsInv
<1>1. GroupsHaveEntries' /\ (NoCallFits \/ \E w \in Workers : CallFits(w))
  BY DEF AppsInv, GroupsHaveEntries, SameApps
<1>2. ASSUME NoCallFits PROVE NoCallFits'
  BY <1>2, HasOwedStays DEF NoCallFits
<1>3. ASSUME NEW w \in Workers, CallFits(w) PROVE CallFits(w)'
  <2>1. work'[w] = work[w]
    BY <1>3 DEF CallFits
  <2> QED
    BY <1>3, <2>1, CallKept
<1> QED
  BY <1>1, <1>2, <1>3 DEF AppsInv

LEMMA DirectoryStepFits ==
    ASSUME OneDomain, AccountInv, AppsInv, NEW w \in Workers, DirectoryStep(w)
    PROVE  AppsInv'
<1>1. CASE Enrol(w)
  BY <1>1, EnrolFits
<1>2. CASE ~Enrol(w)
  <2> SUFFICES ASSUME orderly PROVE AppsInv'
    BY <1>2 DEF AppsInv, DirectoryStep, ReadApps, WriteGroupApp, ReadMembers, NextPerson, NextApp, Check, Lock,
                GiveUp, Look, ReadGroups, LookForApp, Write, Unlock, WalkEnds, DeleteGroupRow, LookForOwners, DeleteEntry, DeleteUserApps,
                DeleteUserDevices, DeleteUserGroups, DeleteUserActivations
  <2>1. CASE ReadApps(w) \/ WriteGroupApp(w) \/ ReadMembers(w) \/ NextPerson(w) \/ NextApp(w)
    BY <2>1, ReadAppsFits, WriteGroupAppFits, ReadMembersFits, NextPersonFits, NextAppFits
  <2>2. CASE Check(w) \/ Lock(w) \/ GiveUp(w) \/ Look(w) \/ ReadGroups(w) \/ LookForApp(w)
                \/ Write(w) \/ Unlock(w) \/ WalkEnds(w)
    BY <2>2, CheckFits, LockFits, GiveUpFits, LookFits, ReadGroupsFits, LookForAppFits, WriteFits, UnlockFits, WalkEndsFits
  <2>3. CASE DeleteGroupRow(w) \/ LookForOwners(w) \/ DeleteEntry(w)
    BY <2>3, DeleteGroupRowFits, LookForOwnersFits, DeleteEntryFits
  <2>4. CASE \/ DeleteUserApps(w) \/ DeleteUserDevices(w) \/ DeleteUserGroups(w) \/ DeleteUserActivations(w)
    BY <2>4, DeleteUserAppsFits, DeleteUserDevicesFits, DeleteUserGroupsFits, DeleteUserActivationsFits
  <2> QED
    BY <1>2, <2>1, <2>2, <2>3, <2>4 DEF DirectoryStep
<1> QED
  BY <1>1, <1>2

LEMMA DirectoryAskedFits ==
    ASSUME AccountInv, AppsInv, DirectoryAsked
    PROVE  AppsInv'
<1>1. ASSUME NEW w \in Admins, NEW g \in Groups, NEW people \in SUBSET user,
             CreateGroup(w, g, people) \/ JoinGroup(w, g, people) \/ LeaveGroup(w, g, people)
      PROVE  AppsInv'
  BY <1>1, CreateGroupFits, JoinsFit
<1>2. ASSUME NEW w \in Admins, NEW g \in Groups, DropGroup(w, g) PROVE AppsInv'
  BY <1>2, DropsFit
<1>3. ASSUME NEW w \in Admins, NEW g \in Groups, NEW a \in Apps, InstallToGroup(w, g, a) \/ StripGroup(w, g, a)
      PROVE  AppsInv'
  BY <1>3, InstallsFit
<1>4. ASSUME NEW w \in Admins, NEW a \in Apps, DeleteApp(w, a) PROVE AppsInv'
  BY <1>4, DeleteAppFits
<1>5. ASSUME NEW w \in Admins, NEW a \in Apps, NEW u \in user, GiveApp(w, u, a) \/ TakeApp(w, u, a)
      PROVE  AppsInv'
  BY <1>5, GivesFit
<1>6. ASSUME NEW w \in Admins, NEW u \in Users, NEW password \in BOOLEAN, AddProfile(w, u, password)
      PROVE  AppsInv'
  BY <1>6, AddProfileFits
<1>7. ASSUME NEW w \in Admins, NEW u \in user, DeleteProfile(w, u) PROVE AppsInv'
  BY <1>7, DeleteProfileFits
<1>8. ASSUME NEW u \in user, NEW yes \in BOOLEAN, ActivateProfile(u, yes) PROVE AppsInv'
  <2>1. UNCHANGED directoryVars
    BY <1>8 DEF ActivateProfile
  <2> QED
    BY <2>1, AppsKept DEF directoryVars, SameApps, Free
<1>9. ASSUME NEW a \in Apps, AddApp(a) PROVE AppsInv'
  BY <1>9, AppsKept DEF AddApp, SameApps, Free
<1> QED
  BY <1>1, <1>2, <1>3, <1>4, <1>5, <1>6, <1>7, <1>8, <1>9 DEF DirectoryAsked

LEMMA AppsStep ==
    ASSUME OneDomain, AccountInv, AppsInv, [Next]_vars
    PROVE  AppsInv'
<1>1. ASSUME UNCHANGED directoryVars PROVE AppsInv'
  BY <1>1, AppsKept DEF directoryVars, SameApps, Free
<1>2. ASSUME NEW r \in Requests, RequestLost(r) PROVE AppsInv'
  <2> SUFFICES ASSUME orderly' PROVE AppsInv'
    BY DEF AppsInv
  <2>1. orderly /\ Free(r) /\ work' = [work EXCEPT ![r] = NoWork] /\ SameApps /\ UNCHANGED <<packageLocks, catalog>>
    BY <1>2 DEF RequestLost, SameApps
  <2>2. NoWork.op = "none" /\ work \in [Workers -> Works]
    BY NoWorkIs DEF AccountInv, RowsInv, KeysInv, DirectoryTypeOK
  <2>3. \A v \in Workers : (Free(v) => Free(v)') /\ (Free(v) \/ work'[v] = work[v])
    BY <2>1, <2>2 DEF Free
  <2> QED
    BY <2>1, <2>3, AppsKept
<1>3. ASSUME NEW w \in Admins, CallLost(w) PROVE AppsInv'
  BY <1>3 DEF CallLost, AppsInv
<1>4. CASE AccountNext
  BY <1>1, <1>2, <1>3, <1>4, DirectoryStepFits, DirectoryAskedFits DEF AccountNext
<1>5. CASE UNCHANGED accountVars
  BY <1>1, <1>5 DEF accountVars
<1> QED
  BY <1>4, <1>5 DEF Next, vars

LEMMA AppsStart == Init => AppsInv
<1> SUFFICES ASSUME Init PROVE AppsInv
  OBVIOUS
<1>1. /\ member = {} /\ groupApps = {} /\ packageLocks = {} /\ userApp = [p \in Users \X Apps |-> "none"]
      /\ work = [w \in Workers |-> NoWork]
  BY DEF Init, DirectoryInit
<1>2. NoWork.op = "none"
  BY NoWorkIs
<1>3. \A w \in Workers : Free(w)
  BY <1>1, <1>2 DEF Free
<1>4. ASSUME NEW u \in Users, NEW a \in Apps PROVE HasOwed(u, a)
  <2>1. userApp[<<u, a>>] = "none" /\ ~Owed(u, a)
    BY <1>1 DEF Owed
  <2> QED
    BY <2>1 DEF HasOwed
<1> QED
  BY <1>1, <1>3, <1>4 DEF AppsInv, NoCallFits, GroupsHaveEntries

\* Where all groups are of one domain, users have the apps that are owed to them
\* after any orderly history of calls (addAppsToProfiles.js and its callers):
\* isAppBelongsToOtherGroupsOfTheUser looks no further than a domain.
THEOREM AppsAreAsOwed == OneDomain /\ Spec => []AppsAreOwed
<1> SUFFICES ASSUME OneDomain PROVE Spec => []AppsAreOwed
  OBVIOUS
<1>1. Init => AppsInv
  BY AppsStart
<1>2. AccountInv /\ AppsInv /\ [Next]_vars => AppsInv'
  BY AppsStep
<1>3. AppsInv => AppsAreOwed
  <2> SUFFICES ASSUME AppsInv, orderly, \A w \in Workers : Free(w), NEW u \in Users, NEW a \in Apps,
                      userApp[<<u, a>>] # "private"
               PROVE  userApp[<<u, a>>] = "copied" <=> \E g \in Groups : <<u, g>> \in member /\ <<g, a>> \in groupApps
    BY DEF AppsAreOwed
  <2> QED
    BY NobodyIs DEF NoCallFits, HasOwed, Owed
<1> QED
  BY <1>1, <1>2, <1>3, AccountsHold, PTL DEF Spec
=============================================================================

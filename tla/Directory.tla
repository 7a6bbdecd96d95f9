----------------------------- MODULE Directory -------------------------------
(* Users, groups and apps of an organization, and the calls of the control
   panel that move apps between them (ControlPanel/addAppsToProfiles.js and its
   callers).  A user's apps are rows of their own, copied from the groups: every
   call that changes a group walks through its users and apps, one at a time,
   and looks and writes under a lock of the package for the user.              *)
EXTENDS Login

CONSTANTS
    Groups, Apps,
    Name, AdDomain,     \* of each group
    AllGroup,           \* the group All, which every new user joins
    Admins              \* calls of the control panel that run at the same time

ASSUME DirectoryAssumption ==
    /\ AllGroup \in Groups /\ IsFiniteSet(Groups)
    /\ DOMAIN Name = Groups /\ DOMAIN AdDomain = Groups
    /\ \A g, h \in Groups : Name[g] = Name[h] /\ AdDomain[g] = AdDomain[h] => g = h
    /\ Admins \cap Requests = {}

VARIABLES
    groups,         \* rows of groups
    member,         \* rows of user_groups
    groupApps,      \* rows of group_apps
    userApp,        \* rows of user_apps: none, copied from a group, or private
    catalog,        \* rows of apps
    packageLocks,   \* keys lock_package_<app>_<user>
    work,           \* work[w]: the call that runs in w; a request works when it
                    \* enrols a new user
    orderly         \* history: the calls came one after the other, none failed,
                    \* and none took an app from a group that did not have it

directoryVars == <<groups, member, groupApps, userApp, catalog, packageLocks, work, orderly>>

-----------------------------------------------------------------------------
Workers == Admins \cup Requests
Installs == {"join", "install", "give"}
Removals == {"leave", "drop", "strip"}      \* from a group
NoWork == [op |-> "none", at |-> "", group |-> AllGroup, people |-> {}, apps |-> {},
           person |-> CHOOSE u \in Users : TRUE, todo |-> {}, app |-> CHOOSE a \in Apps : TRUE,
           joined |-> {}, failed |-> FALSE]

Free(w) == work[w].op = "none"
In(w, place) == ~Free(w) /\ work[w].at = place
Op(w) == work[w].op
Package(w) == <<work[w].person, work[w].app>>
Private(w) == Op(w) \in {"give", "take"}        \* isPrivateApp of the call
Next_(w, place) == work' = [work EXCEPT ![w].at = place]
Quiet(w) == \A v \in Workers \ {w} : Free(v)
GroupOf(g, h) == Name[g] = Name[h] /\ AdDomain[g] = AdDomain[h]
AppsOf(g) == {a \in Apps : <<g, a>> \in groupApps}

SameTables == UNCHANGED <<groups, member, groupApps, userApp, catalog>>
SameAccounts == UNCHANGED activationVars /\ UNCHANGED loginVars

DirectoryInit ==
    /\ groups = {AllGroup}
    /\ member = {} /\ groupApps = {}
    /\ userApp = [p \in Users \X Apps |-> "none"]
    /\ catalog = Apps
    /\ packageLocks = {}
    /\ work = [w \in Workers |-> NoWork]
    /\ orderly = TRUE

\* A call of the control panel begins; the budget says if calls overlap.
Begins(w) == w \in Admins /\ Free(w) /\ Ask("panel") /\ (Quiet(w) \/ left["overlap"] > 0)

Call(w, op, place, g, people, apps) ==
    /\ Begins(w)
    /\ work' = [work EXCEPT ![w] = [NoWork EXCEPT !.op = op, !.at = place, !.group = g,
                                                  !.people = people, !.apps = apps]]
    /\ orderly' = (orderly /\ Quiet(w) /\ (op = "strip" => apps \subseteq AppsOf(g)))
    /\ UNCHANGED <<act, device, user, req, broken>> /\ UNCHANGED loginVars
    /\ SameTables /\ UNCHANGED packageLocks

\* The call ends; a request goes on with its user.
Finished(w) ==
    /\ work' = [work EXCEPT ![w] = NoWork]
    /\ IF w \in Requests THEN Goto(w, IF At(w, "enrol") THEN "activate" ELSE "vdevice")
       ELSE UNCHANGED req
    /\ UNCHANGED <<act, device, user, left, broken>> /\ UNCHANGED loginVars

-----------------------------------------------------------------------------
(* How each call starts.                                                    *)

\* createGroupInternal, addProfilesToGroup, removeProfilesFromGroup,
\* deleteGroups: the apps of the group are read once.
JoinGroup(w, g, people) == g \in groups /\ Call(w, "join", "apps", g, people, {})
LeaveGroup(w, g, people) ==
    /\ \E h \in groups : Name[h] = Name[g]
    /\ Call(w, "leave", "apps", g, people, {})
DropGroup(w, g) ==
    /\ ~GroupOf(g, AllGroup)
    /\ Call(w, "drop", "apps", g, {u \in Users : <<u, g>> \in member}, {})

CreateGroup(w, g, people) ==
    /\ g \notin groups
    /\ Begins(w)
    /\ groups' = groups \cup {g}
    /\ work' = [work EXCEPT ![w] = [NoWork EXCEPT !.op = "join", !.at = "apps", !.group = g,
                                                  !.people = people]]
    /\ orderly' = (orderly /\ Quiet(w))
    /\ UNCHANGED <<act, device, user, req, broken>> /\ UNCHANGED loginVars
    /\ UNCHANGED <<member, groupApps, userApp, catalog, packageLocks>>

\* postNewUserProcedure: the new user of the request joins All.
Enrol(w) ==
    /\ w \in Requests /\ Free(w)
    /\ At(w, "enrol") \/ At(w, "venrol")
    /\ work' = [work EXCEPT ![w] = [NoWork EXCEPT !.op = "join", !.at = "apps",
          !.people = {IF At(w, "enrol") THEN Of(w)[1] ELSE User(w)}]]
    /\ orderly' = (orderly /\ Quiet(w))
    /\ SameTables /\ SameAccounts /\ UNCHANGED packageLocks

AddProfile(w, u, password) ==
    /\ u \notin user
    /\ Begins(w)
    /\ user' = user \cup {u}
    /\ passcode' = IF password THEN passcode \cup {u} ELSE passcode \ {u}
    /\ work' = [work EXCEPT ![w] = [NoWork EXCEPT !.op = "join", !.at = "apps", !.people = {u}]]
    /\ orderly' = (orderly /\ Quiet(w))
    /\ SameTables /\ UNCHANGED <<packageLocks, act, device, req, broken, login, copy, disabled, mail, given>>

ReadApps(w) ==
    /\ In(w, "apps")
    /\ work' = [work EXCEPT ![w].at = "next", ![w].apps = AppsOf(work[w].group)]
    /\ SameTables /\ SameAccounts /\ UNCHANGED <<packageLocks, orderly>>

\* installApps: the app of the group is written before its members are read,
\* and they are read by the name of the group alone.
InstallToGroup(w, g, a) ==
    /\ g \in groups /\ a \in catalog
    /\ Call(w, "install", "group", g, {}, {a})

WriteGroupApp(w) ==
    /\ In(w, "group")
    /\ groupApps' = groupApps \cup {<<work[w].group, a>> : a \in work[w].apps}
    /\ Next_(w, "members")
    /\ SameAccounts /\ UNCHANGED <<groups, member, userApp, catalog, packageLocks, orderly>>

ReadMembers(w) ==
    /\ In(w, "members")
    /\ work' = [work EXCEPT ![w].at = "next",
          ![w].people = {m[1] : m \in {n \in member : Name[n[2]] = Name[work[w].group]}},
          ![w].apps = @ \cap catalog]
    /\ SameTables /\ SameAccounts /\ UNCHANGED <<packageLocks, orderly>>

\* deleteApps of a group, installApps and deleteApps of users.
StripGroup(w, g, a) ==
    Call(w, "strip", "next", g, {u \in Users : <<u, g>> \in member}, {a})
GiveApp(w, u, a) == a \in catalog /\ Call(w, "give", "next", AllGroup, {u}, {a})
TakeApp(w, u, a) == Call(w, "take", "next", AllGroup, {u}, {a})

-----------------------------------------------------------------------------
(* The walk through users and apps.                                         *)

\* The next user: who joins is entered and who leaves is struck off; one who is
\* a member already ends the call.
NextPerson(w) ==
    /\ In(w, "next") /\ work[w].todo = {}
    /\ \E u \in work[w].people :
          LET entry == <<u, work[w].group>>
              again == Op(w) = "join" /\ entry \in member IN
          /\ member' = CASE Op(w) = "join" -> member \cup {entry}
                         [] Op(w) \in {"leave", "drop"} -> member \ {entry}
                         [] OTHER -> member
          /\ work' = [work EXCEPT ![w].person = u,
                                  ![w].people = IF again THEN {} ELSE @ \ {u},
                                  ![w].todo = IF again THEN {} ELSE work[w].apps]
    /\ SameAccounts
    /\ UNCHANGED <<groups, groupApps, userApp, catalog, packageLocks, orderly>>

NextApp(w) ==
    /\ In(w, "next")
    /\ \E a \in work[w].todo :
          work' = [work EXCEPT ![w].app = a, ![w].todo = @ \ {a},
                               ![w].at = IF Op(w) \in {"install", "give"} THEN "lock" ELSE "check"]
    /\ SameTables /\ SameAccounts /\ UNCHANGED <<packageLocks, orderly>>

\* Mutant: off by one, two groups with the app are not enough.
InOtherGroupMutant(u, a, g) ==
    LET having == {h \in Groups : AdDomain[h] = AdDomain[g] /\ <<h, a>> \in groupApps} IN
    /\ Cardinality(having) > 2
    /\ \E h \in having : Name[h] # Name[g] /\ <<u, h>> \in member

\* isAppBelongsToOtherGroupsOfTheUser: only groups of the same AD domain, and
\* only if more than one of them has the app.
InOtherGroup(u, a, g) ==
    LET having == {h \in Groups : AdDomain[h] = AdDomain[g] /\ <<h, a>> \in groupApps} IN
    /\ Cardinality(having) > 1
    /\ \E h \in having : Name[h] # Name[g] /\ <<u, h>> \in member

\* The rest of this user's apps are left out, and the call ends with an error.
Failed(w) == work' = [work EXCEPT ![w].at = "next", ![w].todo = {}, ![w].failed = TRUE]

\* Looked at before the lock, by the caller.
Check(w) ==
    /\ In(w, "check")
    /\ LET keep == \/ Op(w) # "take" /\ userApp[Package(w)] = "private"
                   \/ Op(w) \in Removals /\ InOtherGroup(work[w].person, work[w].app, work[w].group)
       IN IF keep THEN Next_(w, "next")
          ELSE IF work[w].app \in catalog THEN Next_(w, "lock")
          ELSE IF Op(w) \in Installs THEN Next_(w, "next") ELSE Failed(w)
    /\ SameTables /\ SameAccounts /\ UNCHANGED <<packageLocks, orderly>>

\* Mutant: SET in place of SETNX.
LockMutant(w) ==
    /\ In(w, "lock")
    /\ packageLocks' = packageLocks \cup {Package(w)}
    /\ Next_(w, "look")
    /\ SameTables /\ SameAccounts /\ UNCHANGED orderly

Lock(w) ==
    /\ In(w, "lock") /\ Package(w) \notin packageLocks
    /\ packageLocks' = packageLocks \cup {Package(w)}
    /\ Next_(w, "look")
    /\ SameTables /\ SameAccounts /\ UNCHANGED orderly

\* Ten seconds of retries are over: an install leaves the user out and goes on.
GiveUp(w) ==
    /\ In(w, "lock") /\ Package(w) \in packageLocks
    /\ IF Op(w) \in Installs THEN Next_(w, "next") ELSE Failed(w)
    /\ SameTables /\ SameAccounts /\ UNCHANGED <<packageLocks, orderly>>

\* updateUserAppsTableForUser: a private app is left alone by groups.
Look(w) ==
    /\ In(w, "look")
    /\ Next_(w, IF userApp[Package(w)] = "private" /\ ~Private(w) THEN "unlock"
                ELSE CASE Op(w) \in Installs /\ Private(w) -> "private"
                       [] Op(w) \in Installs /\ ~Private(w) -> "copied"
                       [] Op(w) = "take" -> "groups"
                       [] OTHER -> "none")
    /\ SameTables /\ SameAccounts /\ UNCHANGED <<packageLocks, orderly>>

\* isAppInstalledToGroup: the groups of the user are read, then their apps; an
\* app that its owner gives back stays as an app of the group.
ReadGroups(w) ==
    /\ In(w, "groups")
    /\ work' = [work EXCEPT ![w].at = "having",
                            ![w].joined = {g \in Groups : <<work[w].person, g>> \in member}]
    /\ SameTables /\ SameAccounts /\ UNCHANGED <<packageLocks, orderly>>

HaveApp(joined, a) == \E g \in joined, h \in Groups : Name[g] = Name[h] /\ <<h, a>> \in groupApps

LookForApp(w) ==
    /\ In(w, "having")
    /\ work' = [work EXCEPT ![w].at = IF HaveApp(work[w].joined, work[w].app) THEN "copied" ELSE "none",
                            ![w].joined = {}]
    /\ SameTables /\ SameAccounts /\ UNCHANGED <<packageLocks, orderly>>

Write(w) ==
    /\ ~Free(w) /\ work[w].at \in {"private", "copied", "none"}
    /\ userApp' = [userApp EXCEPT ![Package(w)] = work[w].at]
    /\ Next_(w, "unlock")
    /\ SameAccounts /\ UNCHANGED <<groups, member, groupApps, catalog, packageLocks, orderly>>

Unlock(w) ==
    /\ In(w, "unlock")
    /\ packageLocks' = packageLocks \ {Package(w)}
    /\ Next_(w, "next")
    /\ SameTables /\ SameAccounts /\ UNCHANGED orderly

WalkEnds(w) ==
    /\ In(w, "next") /\ work[w].todo = {} /\ work[w].people = {}
    /\ IF Op(w) = "drop" /\ ~work[w].failed
         THEN Next_(w, "row") /\ SameAccounts
         ELSE Finished(w)
    /\ groupApps' =
          IF work[w].failed THEN groupApps
          ELSE CASE Op(w) = "drop" -> groupApps \ ({work[w].group} \X Apps)
                 [] Op(w) = "strip" -> {p \in groupApps : Name[p[1]] # Name[work[w].group] \/ p[2] \notin work[w].apps}
                 [] OTHER -> groupApps
    /\ UNCHANGED <<groups, member, userApp, catalog, packageLocks, orderly>>

DeleteGroupRow(w) ==
    /\ In(w, "row")
    /\ groups' = groups \ {work[w].group}
    /\ Finished(w)
    /\ UNCHANGED <<member, groupApps, userApp, catalog, packageLocks, orderly>>

-----------------------------------------------------------------------------
(* The catalog.                                                             *)

\* updateAppProgress.
AddApp(a) ==
    /\ a \notin catalog /\ Ask("panel")
    /\ catalog' = catalog \cup {a}
    /\ UNCHANGED <<act, device, user, req, broken>> /\ UNCHANGED loginVars
    /\ UNCHANGED <<groups, member, groupApps, userApp, packageLocks, work, orderly>>

\* deleteAppFromDB: refused if a user or a group has the app; nothing keeps
\* them from getting it between the looks and the deletion.
DeleteApp(w, a) == 
    /\ \A u \in Users : userApp[<<u, a>>] = "none"
    /\ Call(w, "delete", "owners", AllGroup, {}, {a})

LookForOwners(w) ==
    /\ In(w, "owners")
    /\ IF \E p \in groupApps : p[2] \in work[w].apps THEN Finished(w)
       ELSE Next_(w, "entry") /\ SameAccounts
    /\ SameTables /\ UNCHANGED <<packageLocks, orderly>>

DeleteEntry(w) ==
    /\ In(w, "entry")
    /\ catalog' = catalog \ work[w].apps
    /\ Finished(w)
    /\ UNCHANGED <<groups, member, groupApps, userApp, packageLocks, orderly>>

-----------------------------------------------------------------------------
(* Users.                                                                   *)

\* deleteProfilesFromDB: the user, his apps, his devices, his groups and at last
\* the rows of his activations.
DeleteProfile(w, u) ==
    /\ Begins(w)
    /\ user' = user \ {u} /\ passcode' = passcode \ {u} /\ disabled' = disabled \ {u}
    /\ mail' = [mail EXCEPT ![u] = "none"]
    /\ work' = [work EXCEPT ![w] = [NoWork EXCEPT !.op = "erase", !.at = "apps of", !.person = u]]
    /\ orderly' = (orderly /\ Quiet(w))
    /\ SameTables /\ UNCHANGED <<packageLocks, act, device, req, broken, login, copy, given>>

DeleteUserApps(w) ==
    /\ In(w, "apps of")
    /\ userApp' = [p \in Users \X Apps |-> IF p[1] = work[w].person THEN "none" ELSE userApp[p]]
    /\ Next_(w, "devices of")
    /\ SameAccounts /\ UNCHANGED <<groups, member, groupApps, catalog, packageLocks, orderly>>

DeleteUserDevices(w) ==
    /\ In(w, "devices of")
    /\ device' = [a \in Accounts |-> IF a[1] = work[w].person THEN NoDevice ELSE device[a]]
    /\ Next_(w, "groups of")
    /\ SameTables /\ UNCHANGED <<packageLocks, orderly, act, user, req, left, broken>>
    /\ UNCHANGED loginVars

DeleteUserGroups(w) ==
    /\ In(w, "groups of")
    /\ member' = {m \in member : m[1] # work[w].person}
    /\ Next_(w, "rows of")
    /\ SameAccounts /\ UNCHANGED <<groups, groupApps, userApp, catalog, packageLocks, orderly>>

DeleteUserActivations(w) ==
    /\ In(w, "rows of")
    /\ act' = [k \in Keys |-> IF Exists(k) /\ Owner[k][1] = work[w].person
                                THEN [NoRow EXCEPT !.status = "gone"] ELSE act[k]]
    /\ work' = [work EXCEPT ![w] = NoWork]
    /\ SameTables /\ UNCHANGED <<packageLocks, orderly, device, user, req, left, broken>>
    /\ UNCHANGED loginVars

ActivateProfile(u, yes) ==
    /\ u \in user /\ Ask("panel")
    /\ disabled' = IF yes THEN disabled \ {u} ELSE disabled \cup {u}
    /\ UNCHANGED <<act, device, user, req, broken, login, copy, passcode, mail, given>>
    /\ UNCHANGED directoryVars

-----------------------------------------------------------------------------
\* The process of a call ends: its lock of a package stays for ever.
CallLost(w) ==
    /\ w \in Admins /\ ~Free(w) /\ Ask("fault")
    /\ work' = [work EXCEPT ![w] = NoWork]
    /\ orderly' = FALSE
    /\ broken' = IF Op(w) = "erase" THEN broken \cup {k \in Keys : Owner[k][1] = work[w].person} ELSE broken
    /\ UNCHANGED <<act, device, user, req>> /\ UNCHANGED loginVars
    /\ SameTables /\ UNCHANGED packageLocks

DirectoryStep(w) ==
    \/ ReadApps(w) \/ WriteGroupApp(w) \/ ReadMembers(w) \/ NextPerson(w) \/ NextApp(w)
    \/ Check(w) \/ Lock(w) \/ GiveUp(w) \/ Look(w) \/ ReadGroups(w) \/ LookForApp(w) \/ Write(w)
    \/ Unlock(w) \/ WalkEnds(w) \/ DeleteGroupRow(w) \/ LookForOwners(w) \/ DeleteEntry(w) \/ DeleteUserApps(w)
    \/ DeleteUserDevices(w) \/ DeleteUserGroups(w) \/ DeleteUserActivations(w) \/ Enrol(w)

DirectoryAsked ==
    \/ \E w \in Admins, g \in Groups :
          \/ \E people \in SUBSET user :
                \/ CreateGroup(w, g, people)
                \/ people # {} /\ (JoinGroup(w, g, people) \/ LeaveGroup(w, g, people))
          \/ DropGroup(w, g)
          \/ \E a \in Apps : InstallToGroup(w, g, a) \/ StripGroup(w, g, a)
    \/ \E w \in Admins, a \in Apps :
          DeleteApp(w, a) \/ \E u \in user : GiveApp(w, u, a) \/ TakeApp(w, u, a)
    \/ \E w \in Admins, u \in Users, password \in BOOLEAN : AddProfile(w, u, password)
    \/ \E w \in Admins, u \in user : DeleteProfile(w, u)
    \/ \E u \in user, yes \in BOOLEAN : ActivateProfile(u, yes)
    \/ \E a \in Apps : AddApp(a)
=============================================================================

------------------------------ MODULE Accounts -------------------------------
(* Activation, Login and Directory together: the same requests activate devices
   and log them in, and the first activation of a user enrols him in the
   directory while administrators change it. The folders of a user
   (UserStorage) share no row with them, so a behaviour asks for work of one.  *)
EXTENDS Directory, UserStorage, TLC

accountVars == <<activationVars, loginVars, directoryVars>>
vars == <<accountVars, storageVars>>

Operations == {"activate", "link", "reset", "cancel", "admin", "device", "expire", "fault",
               "validate", "conf", "passcode", "second", "unlock", "panel", "overlap"}

\* What each mix of the run asks for.
Mix(asked) == asked @@ [op \in Operations |-> 0]

AskedNothing(budget) == \A op \in DOMAIN budget : budget[op] = 0

Init ==
    /\ ActivationInit /\ LoginInit /\ DirectoryInit /\ StorageInit
    /\ AskedNothing(left) # AskedNothing(storageLeft)

\* A statement of a request fails or its process ends.
RequestLost(r) ==
    /\ Interrupted(r)
    /\ copy' = [copy EXCEPT ![r] = Nothing]
    /\ work' = [work EXCEPT ![r] = NoWork]
    /\ orderly' = (orderly /\ Free(r) /\ ~At(r, "enrol") /\ ~At(r, "venrol"))
    /\ UNCHANGED <<login, passcode, disabled, mail, given>>
    /\ UNCHANGED <<groups, member, groupApps, userApp, catalog, packageLocks>>

AccountNext ==
    \/ \E r \in Requests : RequestStep(r) /\ UNCHANGED loginVars /\ UNCHANGED directoryVars
    \/ \E r \in Requests : LoginStep(r) /\ UNCHANGED directoryVars
    \/ \E w \in Workers : DirectoryStep(w)
    \/ Asked /\ UNCHANGED loginVars /\ UNCHANGED directoryVars
    \/ \E r \in Requests, t \in Tokens, kind \in Resets :
          AskReset(r, t, kind) /\ UNCHANGED loginVars /\ UNCHANGED directoryVars
    \/ LoginAsked /\ UNCHANGED directoryVars
    \/ DirectoryAsked
    \/ \E r \in Requests : RequestLost(r)
    \/ \E w \in Admins : CallLost(w)

Next ==
    \/ AccountNext /\ UNCHANGED storageVars
    \/ StorageNext /\ UNCHANGED accountVars

Spec == Init /\ [][Next]_vars

-----------------------------------------------------------------------------
\* At rest, a row that is active or waits for a reset has its user and its
\* device: activateDevice.js and activationLink.js create them around the row,
\* the deletions of a device and of a user take it last.
Active(k) == act[k].status \in {"ok"} \cup Resets /\ k \notin broken
AtRest == (\A r \in Requests : At(r, "idle")) /\ (\A w \in Workers : Free(w))

ActiveHasDevice ==
    AtRest => \A k \in Keys : Active(k) => device[Owner[k]].row /\ Owner[k][1] \in user

\* Without allowMultipleUsersPerDevice a device belongs to one account: whatever
\* links, approvals and resets are mixed, two rows of a device are not both
\* active unless a handler was cut off between the two statements.
OneAccountPerDevice ==
    AtRest /\ ~AllowMultipleUsersPerDevice =>
        \A j, k \in Keys :
            act[j].status = "ok" /\ act[k].status = "ok" /\ j \notin broken /\ k \notin broken
            /\ Owner[j][2] = Owner[k][2] => j = k

\* What a login of each type has to have been given: an administrator and a
\* web client the passcode alone.
GivenFor(t, type, adminLogin) ==
    CASE adminLogin \/ type = "password" -> "passcode" \in given[t]
      [] ~adminLogin /\ type = "second" -> "second" \in given[t]
      [] ~adminLogin /\ type = "both" ->
            "passcode" \in given[t] /\ (WebClient(login[t].key) \/ "second" \in given[t])
      [] ~adminLogin /\ type = "either" -> given[t] # {}

\* A login passes checkValidLogin only with factors that were given to the
\* server under its token, for each clientauthtype, however handlers overwrite
\* each other's copies of it.
NoFactorForFree ==
    \A t \in Tokens, type \in {"password", "second", "both", "either"}, adminLogin \in BOOLEAN :
        login[t].live /\ Valid(login[t], type, adminLogin) => GivenFor(t, type, adminLogin)

\* When calls come one after the other, the apps of a user are those he was
\* given and those of his groups, after any sequence of joins, removals,
\* installs and deletions.
AppsAreOwed ==
    orderly /\ (\A w \in Workers : Free(w)) =>
        \A u \in Users, a \in Apps :
            userApp[<<u, a>>] # "private" =>
                (userApp[<<u, a>>] = "copied" <=>
                    \E g \in Groups : <<u, g>> \in member /\ <<g, a>> \in groupApps)

\* An app of a user stays private until he is deleted or it is taken from him:
\* no call for a group writes over it, also when the calls run at the same time.
PrivateAppsStay ==
    [][\A u \in Users, a \in Apps :
          userApp[<<u, a>>] = "private" /\ userApp'[<<u, a>>] # "private" =>
              \E w \in Workers : work[w].person = u /\ (Op(w) = "erase" \/ Op(w) = "take")]_vars

-----------------------------------------------------------------------------
(* Why they hold. *)
LoginWork == {"vuser", "venrol", "vdevice", "vsave", "push", "save", "puser", "pdevice", "pright",
              "preset", "pdone", "pwrong", "pcount", "plock", "suser", "swrite", "sclear", "sms",
              "factor", "token", "second"}
Places == LoginWork \cup
          {"idle", "insert", "expire", "code", "find", "user", "enrol", "activate", "others", "load",
           "write", "wipe", "confirm", "unlock", "mark", "restore", "rows", "create", "active"}
Words == {"", "found", "yes", "no", "sms"} \cup Resets
Calls == Installs \cup Removals \cup {"none", "take", "delete", "erase"}
WorkPlaces == {"", "apps", "group", "members", "next", "check", "lock", "look", "groups", "having",
               "private", "copied", "none", "unlock", "row", "owners", "entry", "apps of", "devices of", "groups of",
               "rows of"}
Rows == [status : {"none", "pending", "expired", "gone", "ok"} \cup Resets, link : BOOLEAN,
         reset : BOOLEAN, wipe : BOOLEAN, push : BOOLEAN, factors : SUBSET Words]
Logins == [key : Keys \cup {"none"}, live : BOOLEAN, pend : BOOLEAN, password : BOOLEAN, second : BOOLEAN]
Works == [op : Calls, at : WorkPlaces, group : Groups, people : SUBSET Users, apps : SUBSET Apps,
          person : Users \cup {NoWork.person}, todo : SUBSET Apps, app : Apps \cup {NoWork.app},
          joined : SUBSET Groups, failed : BOOLEAN]

RowTypeOK ==
    /\ act \in [Keys -> Rows]
    /\ device \in [Accounts -> [row : BOOLEAN, active : BOOLEAN, attempts : Nat]]
    /\ user \subseteq Users /\ broken \subseteq Keys
    /\ req \in [Requests -> [at : Places, key : Keys \cup {Idle.key}, mem : Words]]
LoginTypeOK ==
    /\ login \in [Tokens -> Logins]
    /\ copy \in [Requests -> [token : Tokens \cup {Nothing.token}, login : Logins, attempts : Nat, right : BOOLEAN]]
    /\ given \in [Tokens -> SUBSET {"passcode", "second"}]
DirectoryTypeOK ==
    /\ member \subseteq Users \X Groups /\ groupApps \subseteq Groups \X Apps /\ catalog \subseteq Apps
    /\ userApp \in [Users \X Apps -> {"none", "copied", "private"}]
    /\ work \in [Workers -> Works]

\* A row is there from the insertion on, and has been active once a login or
\* a reset names it.
Known(k) == k \in Keys /\ act[k].status # "none"
Settled(k) == k \in Keys /\ act[k].status \notin {"none", "pending"}

RequestFits(r) ==
    /\ ~At(r, "idle") => Key(r) \in Keys
    /\ At(r, "insert") => act[Key(r)].status = "none"
    /\ req[r].at \in {"user", "enrol", "activate"} => Known(Key(r))
    /\ req[r].at \in {"mark", "restore"} => Settled(Key(r))
    /\ req[r].at \in {"mark", "wipe", "confirm"} => req[r].mem \in Resets
    /\ req[r].at \in LoginWork => Settled(Row(r))
RequestsFit ==
    /\ \A r \in Requests : RequestFits(r)
    /\ \A q, r \in Requests : q # r /\ At(q, "insert") /\ At(r, "insert") => Key(q) # Key(r)
LoginsNameRows ==
    /\ \A t \in Tokens : login[t].key # "none" => Settled(login[t].key)
    /\ \A t \in Tokens : login[t].live => login[t].key # "none"
    /\ \A r \in Requests : copy[r].login.key # "none" => Settled(copy[r].login.key)
    /\ \A r \in Requests : copy[r].login.live => copy[r].login.key # "none"

\* A request works only to enrol its user, and so joins groups and erases nobody.
RequestsOnlyEnrol == \A r \in Requests :
    Op(r) \in {"none", "join"} /\ (~Free(r) => req[r].at \in {"enrol", "venrol"})

\* A call that erases a user does nothing else.
ErasersWalk == \A w \in Workers :
    Op(w) = "erase" <=> ~Free(w) /\ work[w].at \in {"apps of", "devices of", "groups of", "rows of"}

KeysInv ==
    /\ RowTypeOK /\ LoginTypeOK /\ DirectoryTypeOK
    /\ RequestsFit /\ LoginsNameRows /\ RequestsOnlyEnrol /\ ErasersWalk

\* Two rows of a device are active only until the handler of one of them has
\* looked for the others.
ActiveAlone == ~AllowMultipleUsersPerDevice =>
    \A j, k \in Keys : j # k /\ Active(j) /\ Active(k) /\ Owner[j][2] = Owner[k][2] =>
        \E r \in Requests : At(r, "others") /\ Key(r) \in {j, k}

\* Who will make the device of an active row, or is about to delete the row.
Erased(u) == \E w \in Workers : Op(w) = "erase" /\ work[w].person = u
Making(r, k) == Key(r) = k /\ (req[r].at \in {"others", "load"} \/ (At(r, "write") /\ req[r].mem = ""))
DeviceThere == \A k \in Keys : Active(k) =>
    \/ device[Owner[k]].row \/ Erased(Owner[k][1])
    \/ \E r \in Requests : Making(r, k) \/ (At(r, "rows") /\ Of(r) = Owner[k])
UserThere ==
    /\ \A k \in Keys : Active(k) => Owner[k][1] \in user \/ Erased(Owner[k][1])
    /\ \A r \in Requests :
          req[r].at \in {"enrol", "activate"} /\ Exists(Key(r)) /\ Key(r) \notin broken =>
              Of(r)[1] \in user \/ Erased(Of(r)[1])

RowsInv == KeysInv /\ ActiveAlone /\ DeviceThere /\ UserThere

\* A flag is in a hash, or in a copy that will be saved, after it was given.
Earned(l, t) == (l.password => "passcode" \in given[t]) /\ (l.second => "second" \in given[t])
FactorsEarned ==
    /\ \A t \in Tokens : Earned(login[t], t)
    /\ \A r \in Requests : copy[r].token \in Tokens =>
          /\ Earned(copy[r].login, copy[r].token)
          /\ req[r].at \in {"pright", "sclear"} => "passcode" \in given[copy[r].token]
          /\ req[r].at \in {"token", "second"} => "second" \in given[copy[r].token]
    /\ \A r \in Requests : req[r].at \in {"vuser", "venrol", "vdevice", "vsave"} =>
          ~copy[r].login.password /\ ~copy[r].login.second

\* Under the lock of a package nobody else writes it, so what was looked at
\* is still so when it is written.
Locked(w) == ~Free(w) /\ work[w].at \in {"look", "groups", "having", "private", "copied", "none", "unlock"}
PackagesLocked ==
    /\ \A w \in Workers : Locked(w) => Package(w) \in packageLocks
    /\ \A v, w \in Workers : v # w /\ Locked(v) /\ Locked(w) => Package(v) # Package(w)
    /\ \A w \in Workers :
          /\ Locked(w) /\ work[w].at \in {"groups", "having", "copied", "none"} /\ Op(w) # "take"
          /\ Package(w) \in Users \X Apps
          => userApp[Package(w)] # "private"

AccountInv == RowsInv /\ FactorsEarned /\ PackagesLocked
-----------------------------------------------------------------------------
(* What AppsAreOwed rests on, where all groups are of one domain: how far the one
   call that is under way has come.                                          *)
OneDomain == \A g, h \in Groups : AdDomain[g] = AdDomain[h]

Owed(u, a) == \E g \in Groups : <<u, g>> \in member /\ <<g, a>> \in groupApps
OwedElse(u, a, g) == \E h \in Groups \ {g} : <<u, h>> \in member /\ <<h, a>> \in groupApps
HasOwed(u, a) == userApp[<<u, a>>] # "private" => (userApp[<<u, a>>] = "copied" <=> Owed(u, a))

PlacesOf(op) ==
    CASE op = "join" -> {"apps", "next", "check", "lock", "look", "copied", "unlock"}
      [] op = "install" -> {"group", "members", "next", "lock", "look", "copied", "unlock"}
      [] op = "leave" -> {"apps", "next", "check", "lock", "look", "none", "unlock"}
      [] op = "drop" -> {"apps", "next", "check", "lock", "look", "none", "unlock", "row"}
      [] op = "strip" -> {"next", "check", "lock", "look", "none", "unlock"}
      [] op = "give" -> {"next", "lock", "look", "private", "unlock"}
      [] op = "take" -> {"next", "check", "lock", "look", "groups", "having", "copied", "none", "unlock"}
      [] op = "delete" -> {"owners", "entry"}
      [] OTHER -> {"apps of", "devices of", "groups of", "rows of"}

AppPlaces == {"check", "lock", "look", "groups", "having", "copied", "none"}

\* The apps of a user that the call has still to look at.
Visits(w, u, a) ==
    /\ u = work[w].person
    /\ a \in work[w].todo \/ (a = work[w].app /\ work[w].at \in AppPlaces)

\* What a call has read is still so.
WalkFits(w) ==
    LET at == work[w].at  g == work[w].group  apps == work[w].apps  people == work[w].people
        u == work[w].person  a == work[w].app
    IN  /\ at \in PlacesOf(Op(w)) /\ (work[w].failed => Op(w) = "take")
        /\ work[w].todo \subseteq apps /\ (at \in AppPlaces => a \in apps \ work[w].todo)
        /\ at \in AppPlaces \/ work[w].todo # {} => u \notin people
        /\ at \in {"apps", "group", "members", "row"} => work[w].todo = {}
        /\ at \in {"group", "members"} => people = {}
        /\ Op(w) \in {"join", "leave", "drop"} /\ at \notin {"apps", "row"} => apps = AppsOf(g)
        /\ Op(w) = "install" => apps \subseteq IF at = "group" THEN catalog ELSE AppsOf(g)
        /\ Op(w) = "strip" => apps \subseteq AppsOf(g)
        /\ Op(w) \in {"install", "strip"} => \A v \in people : <<v, g>> \in member
        /\ Op(w) = "drop" /\ at # "row" => \A v \in Users : <<v, g>> \in member => v \in people
        /\ Op(w) = "delete" /\ at = "entry" => \A p \in groupApps : p[2] \notin apps
        /\ Op(w) \in Removals /\ at \in {"lock", "look", "none"} => ~OwedElse(u, a, g)
        /\ at = "having" => work[w].joined = {h \in Groups : <<u, h>> \in member}
        /\ Op(w) = "take" /\ at \in {"copied", "none"} => (at = "copied" <=> Owed(u, a))

\* The apps of users that a call has come half-way with, and what is so then.
HalfDone(w, u, a) ==
    LET at == work[w].at  entry == <<u, work[w].group>>
    IN  \/ Op(w) \in {"join", "leave", "drop", "install"} /\ Visits(w, u, a)
        \/ /\ Op(w) = "install" /\ at # "group" /\ a \in work[w].apps
           /\ u \in work[w].people \/ (at = "members" /\ entry \in member)
        \/ Op(w) = "strip" /\ a \in work[w].apps /\ entry \in member
        \/ Op(w) = "erase" /\ at \in {"devices of", "groups of"} /\ u = work[w].person

HalfSound(w, u, a) ==
    LET g == work[w].group  has == userApp[<<u, a>>]
    IN  CASE Op(w) \in {"join", "install"} -> Owed(u, a)
          [] Op(w) \in {"leave", "drop"} -> <<u, g>> \notin member /\ (Owed(u, a) => has # "none")
          [] Op(w) = "strip" ->
                IF u \in work[w].people \/ Visits(w, u, a) THEN has # "none"
                ELSE has # "private" => (has = "copied" <=> OwedElse(u, a, g))
          [] OTHER -> has = "none"

\* The call that is under way finds no lock of another and nobody else moves
\* the tables; between two calls every user has what he is owed.
PairFits(w, u, a) == IF HalfDone(w, u, a) THEN HalfSound(w, u, a) ELSE HasOwed(u, a)
GroupsHaveEntries == \A p \in groupApps : p[2] \in catalog
CallFits(w) ==
    /\ ~Free(w) /\ Quiet(w)
    /\ \A p \in packageLocks : Locked(w) /\ p = Package(w)
    /\ WalkFits(w) /\ \A u \in Users, a \in Apps : PairFits(w, u, a)
NoCallFits ==
    /\ (\A w \in Workers : Free(w)) /\ packageLocks = {}
    /\ \A u \in Users, a \in Apps : HasOwed(u, a)
AppsInv == orderly => GroupsHaveEntries /\ (NoCallFits \/ \E w \in Workers : CallFits(w))
=============================================================================

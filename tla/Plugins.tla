------------------------------- MODULE Plugins -------------------------------
(* plugin.js for one plugin: its row in the database, its folder on each host,
   and the objects that the node processes make of it. Processes tell each other
   of a change on the redis channel "plugin"; each handles its messages at once,
   so handlers of one process interleave at their awaits.                      *)
EXTENDS Naturals, Sequences, SequencesExt, FiniteSets

CONSTANTS Processes, Hosts, HostOf,
          Secrets,        \* what an administrator may type as the secret value
          PluginThreads,        \* requests and handlers that are under way
          PluginBudgets,  \* what may be asked and go wrong
          Excused         \* flaws that are left out of what is promised

PluginOps == {"update", "upload", "delete", "restart", "fault"}

ASSUME PluginsAssumption ==
    /\ HostOf \in [Processes -> Hosts] /\ {"secret", "none"} \cap Processes = {}
    /\ Excused \subseteq {"pair", "module", "host"}
    /\ PluginBudgets \subseteq [PluginOps -> Nat]

VARIABLES row,      \* the record of the plugin
          codeDir,  \* its folder on each host: the package's version and packagehash
          objs,     \* every Plugin object a process has made
          current,  \* Plugin.plugins[id] of each process, 0 for none
          routes, triggers,  \* what is registered in a process: objects, and a number of entries
          cached,   \* the version in node's cache of modules, 0 for none
          chan,     \* messages on their way to each process
          subscribed, thread,
          made,     \* versions built so far
          typed,    \* the secret the administrators chose
          astray,   \* processes that were excused, and "secret"
          asked     \* what may still be asked
pluginVars == <<row, codeDir, objs, current, routes, triggers, cached, chan, subscribed, thread,
                made, typed, astray, asked>>
memory == <<objs, current, routes, triggers, cached>>
outside == <<row, codeDir, chan, subscribed, made, typed, asked>>

-----------------------------------------------------------------------------
(* Secret values of a configuration. *)
Plain(s) == [kind |-> "plain", text |-> s]
Cipher(s) == [kind |-> "enc", text |-> s]
Placeholder == [kind |-> "placeholder", text |-> "set"]
EmptySecret == Plain("")

\* They change nothing for a plugin whose descriptions are not loaded (desc).
EncryptSecret(v, desc) == IF desc /\ v # EmptySecret /\ v.kind # "enc" THEN Cipher(v.text) ELSE v
DecryptSecret(v, desc) == IF desc /\ v.kind = "enc" THEN Plain(v.text) ELSE v
FilterSecret(v, desc) == IF desc /\ v # EmptySecret THEN Placeholder ELSE v
KeepSecretMutant(v, stored, desc) == v
KeepSecret(v, stored, desc) == IF desc /\ v = Placeholder THEN stored ELSE v

-----------------------------------------------------------------------------
NewPlugin(item) ==
    [active |-> item.active, conf |-> item.conf, stored |-> item.conf, desc |-> FALSE,
     initialized |-> FALSE, module |-> FALSE, path |-> FALSE, response |-> FALSE, code |-> 0]
InstalledRow == [there |-> TRUE, active |-> TRUE, version |-> 1, conf |-> EmptySecret]
NoFolder == [there |-> FALSE, code |-> 0, hash |-> 0]
NoThread == [at |-> "idle", p |-> "none", then |-> "", obj |-> 0, item |-> InstalledRow]

ThreadAt(t, place) == thread[t].at = place
ThreadIdle(t) == ThreadAt(t, "idle")
PluginsQuiet == (\A t \in PluginThreads : ThreadIdle(t)) /\ (\A p \in Processes : chan[p] = <<>>)
ThreadObj(t) == objs[thread[t].p][thread[t].obj]
ThreadHost(t) == HostOf[thread[t].p]

ThreadMoves(t, new) == thread' = [thread EXCEPT ![t] = new]
ThreadGoes(t, place) == ThreadMoves(t, [thread[t] EXCEPT !.at = place])
ThreadDone(t) ==
    ThreadMoves(t, IF thread[t].then = "subscribe" THEN [thread[t] EXCEPT !.at = "subscribe"]
                   ELSE NoThread)

\* An unused thread starts at a place.
BeginThread(new) == \E t \in PluginThreads : ThreadIdle(t) /\ ThreadMoves(t, new)

Publish(command) ==
    chan' = [p \in Processes |-> IF subscribed[p] THEN Append(chan[p], command) ELSE chan[p]]

AskPlugin(op) == asked[op] > 0 /\ asked' = [asked EXCEPT ![op] = @ - 1]

\* Administrators ask when the last change has been handled everywhere: with two
\* changes at once the processes need not agree (README, Known violations).
AskPluginNow(op) == PluginsQuiet /\ AskPlugin(op)
AllProcesses == Processes \cup {"secret"}
ExcuseProcesses(who) == astray' = astray \cup who

-----------------------------------------------------------------------------
(* init and deinit of an object. *)
\* init: the object is listed before anything else.
StartingObj(t) ==
    [thread[t] EXCEPT !.at = "folder", !.then = "", !.obj = Len(objs[thread[t].p]) + 1]
Listed(p, item) == /\ objs' = [objs EXCEPT ![p] = Append(@, NewPlugin(item))]
                   /\ current' = [current EXCEPT ![p] = Len(objs[p]) + 1]

\* updatePluginFolderIfNeeded. rm fails for a folder that is not there, since
\* the promise of fileExists is true, and then nothing is installed.
Outdated(t) ==
    codeDir[ThreadHost(t)].there /\ codeDir[ThreadHost(t)].hash # thread[t].item.version

ClearFolder(t) ==
    /\ ThreadAt(t, "folder") /\ Outdated(t)
    /\ codeDir' = [codeDir EXCEPT ![ThreadHost(t)] = [NoFolder EXCEPT !.there = TRUE]]
    /\ ThreadGoes(t, "install")
    /\ UNCHANGED <<memory, row, chan, subscribed, made, typed, astray, asked>>

\* The package of the database is extracted; the folder may have been removed.
Install(t) ==
    /\ ThreadAt(t, "install")
    /\ IF row.there /\ codeDir[ThreadHost(t)].there
       THEN /\ codeDir' = [codeDir EXCEPT ![ThreadHost(t)].code = row.version]
            /\ ThreadMoves(t, [thread[t] EXCEPT !.at = "hash", !.item.version = row.version])
       ELSE ThreadGoes(t, "load") /\ UNCHANGED codeDir
    /\ UNCHANGED <<memory, row, chan, subscribed, made, typed, astray, asked>>

WriteHash(t) ==
    /\ ThreadAt(t, "hash")
    /\ codeDir' = IF codeDir[ThreadHost(t)] = NoFolder THEN codeDir
                  ELSE [codeDir EXCEPT ![ThreadHost(t)].hash = thread[t].item.version]
    /\ ThreadGoes(t, "load")
    /\ UNCHANGED <<memory, row, chan, subscribed, made, typed, astray, asked>>

\* require reads the folder only if the module is not in the cache. An inactive
\* plugin stops there; an active one is initialized and registered.
RequiredObj(o) == [o EXCEPT !.module = TRUE, !.path = TRUE, !.desc = TRUE,
                            !.conf = DecryptSecret(@, TRUE)]
LoadedObj(o, code) == [RequiredObj(o) EXCEPT !.code = code, !.response = o.active,
                                             !.initialized = o.active]
ReadyToLoad(t) == ThreadAt(t, "load") \/ (ThreadAt(t, "folder") /\ ~Outdated(t))

Load(t) ==
    /\ ReadyToLoad(t)
    /\ LET p == thread[t].p  n == thread[t].obj  here == codeDir[ThreadHost(t)].code
           code == IF cached[p] = 0 THEN here ELSE cached[p]
           runs == ThreadObj(t).active
       IN  IF here = 0 THEN UNCHANGED memory
           ELSE /\ cached' = [cached EXCEPT ![p] = code]
                /\ objs' = [objs EXCEPT ![p][n] = LoadedObj(@, code)]
                /\ routes' = [routes EXCEPT ![p] = IF runs THEN @ \cup {n} ELSE @]
                /\ triggers' = [triggers EXCEPT ![p] = IF runs THEN @ + 1 ELSE @]
                /\ UNCHANGED current
    /\ ThreadDone(t)
    /\ UNCHANGED <<outside, astray>>

\* The plugin's own init throws: the object stays in its error state.
InitFails(t) ==
    /\ ReadyToLoad(t) /\ ThreadObj(t).active /\ AskPlugin("fault")
    /\ objs' = [objs EXCEPT ![thread[t].p][thread[t].obj] = RequiredObj(@)]
    /\ cached' = [cached EXCEPT ![thread[t].p] = IF @ = 0 THEN codeDir[ThreadHost(t)].code ELSE @]
    /\ ThreadDone(t) /\ ExcuseProcesses(AllProcesses)
    /\ UNCHANGED <<row, codeDir, current, routes, triggers, chan, subscribed, made, typed>>

\* deinit, up to the promise of the plugin's own deinit.
StoppedObj(o) == [o EXCEPT !.initialized = FALSE]

\* The rest of deinit, when that promise is kept, for object n of process p; a
\* handler that goes on lists the new object, or forgets the old one.
UnregisterMutant(p, n) ==
    /\ cached' = [cached EXCEPT ![p] = IF objs[p][n].path THEN 0 ELSE @]
    /\ routes' = [routes EXCEPT ![p] = @ \ {n}]
    /\ UNCHANGED triggers
Unregister(p, n) ==
    /\ cached' = [cached EXCEPT ![p] = IF objs[p][n].path THEN 0 ELSE @]
    /\ routes' = [routes EXCEPT ![p] = @ \ {n}]
    /\ triggers' = [triggers EXCEPT ![p] = IF objs[p][n].response /\ @ > 0 THEN @ - 1 ELSE @]
OffObj(o) == [o EXCEPT !.module = FALSE, !.path = FALSE]

\* What the one who waits for deinit does then, whatever came of it.
AfterDeinit(t, off) ==
    LET p == thread[t].p
    IN  CASE thread[t].then = "new" ->
                /\ objs' = [objs EXCEPT ![p] = Append(off, NewPlugin(thread[t].item))]
                /\ current' = [current EXCEPT ![p] = Len(off) + 1]
                /\ ThreadMoves(t, StartingObj(t))
          [] thread[t].then = "drop" ->
                /\ objs' = [objs EXCEPT ![p] = off] /\ current' = [current EXCEPT ![p] = 0]
                /\ ThreadMoves(t, NoThread)
          [] OTHER -> /\ objs' = [objs EXCEPT ![p] = off] /\ UNCHANGED current
                      /\ ThreadGoes(t, thread[t].then)

FinishDeinit(t) ==
    /\ ThreadAt(t, "deinit") /\ Unregister(thread[t].p, thread[t].obj)
    /\ AfterDeinit(t, [objs[thread[t].p] EXCEPT ![thread[t].obj] = OffObj(@)])
    /\ UNCHANGED <<outside, astray>>

\* The plugin's own deinit throws or its promise is broken: module, routes and
\* triggers of the object stay.
DeinitFails(t) ==
    /\ ThreadAt(t, "deinit") /\ ThreadObj(t).module /\ AskPlugin("fault")
    /\ AfterDeinit(t, objs[thread[t].p]) /\ ExcuseProcesses({thread[t].p})
    /\ UNCHANGED <<row, codeDir, routes, triggers, cached, chan, subscribed, made, typed>>

-----------------------------------------------------------------------------
(* handleMessage *)
Deliver(p) ==
    /\ chan[p] # <<>> /\ chan' = [chan EXCEPT ![p] = Tail(@)]
    /\ LET listed == current[p] # 0
           runs == listed /\ objs[p][current[p]].initialized
           handler == [NoThread EXCEPT !.p = p, !.obj = current[p]]
       IN  CASE Head(chan[p]) = "init" ->
                   BeginThread([handler EXCEPT !.at = "row"]) /\ UNCHANGED <<objs, current>>
             [] Head(chan[p]) = "delete" /\ runs ->
                   /\ objs' = [objs EXCEPT ![p][current[p]] = StoppedObj(@)] /\ UNCHANGED current
                   /\ BeginThread([handler EXCEPT !.at = "deinit", !.then = "drop"])
             [] OTHER -> /\ current' = [current EXCEPT ![p] = 0]
                         /\ UNCHANGED <<objs, thread>>
    /\ UNCHANGED <<row, codeDir, routes, triggers, cached, subscribed, made, typed, astray, asked>>

\* The row is read; the object that was listed when the message came is stopped.
ReadRow(t) ==
    /\ ThreadAt(t, "row")
    /\ LET p == thread[t].p  n == thread[t].obj
       IN  IF ~row.there THEN ThreadMoves(t, NoThread) /\ UNCHANGED <<objs, current>>
           ELSE IF n # 0 /\ ThreadObj(t).initialized
           THEN /\ objs' = [objs EXCEPT ![p][n] = StoppedObj(@)] /\ UNCHANGED current
                /\ ThreadMoves(t, [thread[t] EXCEPT !.at = "deinit", !.then = "new", !.item = row])
           ELSE Listed(p, row) /\ ThreadMoves(t, [StartingObj(t) EXCEPT !.item = row])
    /\ UNCHANGED <<outside, routes, triggers, cached, astray>>

-----------------------------------------------------------------------------
(* The start of a process: loadFromDB, then subscribe. *)
\* A folder that init can load or replace.
FolderIsWhole(h) ==
    codeDir[h].there /\ (codeDir[h].hash = row.version => codeDir[h].code = row.version)

\* A request that is cut off half-way.
Changing(t) == thread[t].at \in {"conf", "active", "build", "place", "record", "erase"}
               \/ thread[t].then \in {"place", "erase"}

Restart(p) ==
    /\ AskPlugin("restart") /\ subscribed[p]
    /\ \E boot \in PluginThreads :
          /\ ThreadIdle(boot) \/ thread[boot].p = p
          /\ thread' = [t \in PluginThreads |->
                IF t = boot THEN [NoThread EXCEPT !.at = "boot", !.p = p, !.then = "subscribe"]
                ELSE IF thread[t].p = p THEN NoThread ELSE thread[t]]
    /\ objs' = [objs EXCEPT ![p] = <<>>] /\ current' = [current EXCEPT ![p] = 0]
    /\ routes' = [routes EXCEPT ![p] = {}] /\ triggers' = [triggers EXCEPT ![p] = 0]
    /\ cached' = [cached EXCEPT ![p] = 0] /\ chan' = [chan EXCEPT ![p] = <<>>]
    /\ subscribed' = [subscribed EXCEPT ![p] = FALSE]
    /\ astray' = IF \E t \in PluginThreads : thread[t].p = p /\ Changing(t) THEN AllProcesses
                 ELSE IF ~PluginsQuiet THEN astray \cup {p}
                 ELSE IF row.there => FolderIsWhole(HostOf[p]) THEN astray \ {p} ELSE astray
    /\ UNCHANGED <<row, codeDir, made, typed>>

LoadFromDB(t) ==
    /\ ThreadAt(t, "boot")
    /\ IF row.there
       THEN /\ Listed(thread[t].p, row)
            /\ ThreadMoves(t, [thread[t] EXCEPT !.at = "folder", !.obj = 1, !.item = row])
       ELSE ThreadGoes(t, "subscribe") /\ UNCHANGED <<objs, current>>
    /\ UNCHANGED <<outside, routes, triggers, cached, astray>>

Subscribe(t) ==
    /\ ThreadAt(t, "subscribe") /\ subscribed' = [subscribed EXCEPT ![thread[t].p] = TRUE]
    /\ ThreadMoves(t, NoThread)
    /\ UNCHANGED <<memory, row, codeDir, chan, made, typed, astray, asked>>

-----------------------------------------------------------------------------
(* Requests of an administrator. *)
\* update: the configuration is compared with the one in memory, then active.
SameActive(p, n, active) == objs[p][n].active = active
EditedObj(o, value) ==
    [o EXCEPT !.conf = KeepSecret(value, o.conf, o.desc),
              !.stored = EncryptSecret(KeepSecret(value, o.stored, o.desc), o.desc)]
SwitchedObj(o, active) == [o EXCEPT !.active = active]

\* What is left to save: the configuration and active, or active alone.
SavesBoth(p, n, active, conf) ==
    [NoThread EXCEPT !.p = p, !.obj = n, !.at = "conf",
                     !.item = [@ EXCEPT !.active = active, !.conf = conf]]
SavesActive(p, n, active) ==
    [NoThread EXCEPT !.p = p, !.obj = n, !.at = "active", !.item = [@ EXCEPT !.active = active]]

\* more: a part of the configuration that is not secret changes.
Update(p, active, value, more) ==
    /\ AskPluginNow("update") /\ subscribed[p] /\ current[p] # 0
    /\ LET n == current[p]  o == objs[p][n]
           changed == more \/ ((~o.desc \/ value # Placeholder) /\ value # o.conf)
           pair == changed /\ ~SameActive(p, n, active)
       IN  /\ IF changed
              THEN /\ objs' = [objs EXCEPT ![p][n] = EditedObj(@, value)]
                   /\ BeginThread(SavesBoth(p, n, active, EditedObj(o, value).stored))
              ELSE /\ objs' = [objs EXCEPT ![p][n] = SwitchedObj(@, active)]
                   /\ IF SameActive(p, n, active) THEN UNCHANGED thread
                      ELSE BeginThread(SavesActive(p, n, active))
           /\ typed' = IF value = Placeholder THEN typed ELSE value.text
           /\ ExcuseProcesses(IF pair /\ "pair" \in Excused THEN Processes ELSE {})
    /\ UNCHANGED <<row, codeDir, current, routes, triggers, cached, chan, subscribed, made>>

SaveConf(t) ==
    /\ ThreadAt(t, "conf")
    /\ row' = IF row.there THEN [row EXCEPT !.conf = thread[t].item.conf] ELSE row
    /\ Publish("init")
    /\ LET p == thread[t].p  n == thread[t].obj  active == thread[t].item.active
       IN  /\ IF SameActive(p, n, active) THEN ThreadMoves(t, NoThread)
              ELSE ThreadGoes(t, "active")
           /\ objs' = [objs EXCEPT ![p][n] = SwitchedObj(@, active)]
    /\ UNCHANGED <<codeDir, current, routes, triggers, cached, subscribed, made, typed, astray,
                   asked>>

SaveActive(t) ==
    /\ ThreadAt(t, "active")
    /\ row' = IF row.there THEN [row EXCEPT !.active = thread[t].item.active] ELSE row
    /\ Publish("init") /\ ThreadMoves(t, NoThread)
    /\ UNCHANGED <<memory, codeDir, subscribed, made, typed, astray, asked>>

\* upload: of a new plugin (obj 0), or of a version of a plugin that is listed.
\* Processes that hold the module of an inactive plugin keep the old version;
\* on another host the folder is missing, or is built by several at once.
Upload(p, update) ==
    /\ AskPluginNow("upload") /\ subscribed[p] /\ (update => current[p] # 0)
    /\ BeginThread([NoThread EXCEPT !.p = p, !.at = "build",
                                     !.obj = IF update THEN current[p] ELSE 0])
    /\ LET stale == {q \in Processes : cached[q] # 0 /\ \/ current[q] = 0
                                                        \/ q # p /\ ~objs[q][current[q]].active}
           away == {q \in Processes : /\ HostOf[q] # HostOf[p]
                                      /\ \/ ~codeDir[HostOf[q]].there
                                         \/ \E o \in Processes \ {q} : HostOf[o] = HostOf[q]}
       IN  ExcuseProcesses((IF "module" \in Excused THEN stale ELSE {})
                    \cup (IF "host" \in Excused THEN away ELSE {}))
    /\ UNCHANGED <<memory, row, codeDir, chan, subscribed, made, typed>>

\* The sandbox is built: the object of an update is stopped, also if the package
\* turns out to be invalid; a new plugin must not be listed.
Build(t) ==
    /\ ThreadAt(t, "build")
    /\ IF thread[t].obj # 0
       THEN /\ objs' = [objs EXCEPT ![thread[t].p][thread[t].obj] = StoppedObj(@)]
            /\ ThreadMoves(t, [thread[t] EXCEPT !.at = "deinit", !.then = "place"])
       ELSE /\ IF current[thread[t].p] # 0 THEN ThreadMoves(t, NoThread) ELSE ThreadGoes(t, "place")
            /\ UNCHANGED objs
    /\ UNCHANGED <<outside, current, routes, triggers, cached, astray>>

Invalid(t) ==
    /\ ThreadAt(t, "place") /\ AskPlugin("fault") /\ ThreadMoves(t, NoThread)
    /\ ExcuseProcesses(IF thread[t].obj # 0 THEN {thread[t].p} ELSE {})
    /\ UNCHANGED <<memory, row, codeDir, chan, subscribed, made, typed>>

\* The sandbox becomes the plugin's folder; rename does not replace a folder.
Place(t) ==
    /\ ThreadAt(t, "place")
    /\ IF thread[t].obj = 0 /\ codeDir[ThreadHost(t)].there
       THEN ThreadMoves(t, NoThread) /\ UNCHANGED <<codeDir, made>>
       ELSE /\ made' = made + 1
            /\ codeDir' = [codeDir EXCEPT ![ThreadHost(t)] =
                            [there |-> TRUE, code |-> made + 1, hash |-> made + 1]]
            /\ ThreadMoves(t, [thread[t] EXCEPT !.at = "record", !.item.version = made + 1])
    /\ UNCHANGED <<memory, row, chan, subscribed, typed, astray, asked>>

\* The row is created or updated, and everyone is told.
Record(t) ==
    /\ ThreadAt(t, "record") /\ ThreadMoves(t, NoThread)
    /\ IF thread[t].obj = 0
       THEN IF row.there THEN UNCHANGED <<row, chan, typed>>
            ELSE /\ row' = [there |-> TRUE, active |-> FALSE, version |-> thread[t].item.version,
                            conf |-> EmptySecret]
                 /\ typed' = "" /\ Publish("init")
       ELSE /\ row' = IF row.there THEN [row EXCEPT !.version = thread[t].item.version] ELSE row
            /\ Publish("init") /\ UNCHANGED typed
    /\ UNCHANGED <<memory, codeDir, subscribed, made, astray, asked>>

\* delete: deinit and the folder here, the row, and the message to everyone.
Delete(p) ==
    /\ AskPluginNow("delete") /\ subscribed[p] /\ current[p] # 0
    /\ objs' = [objs EXCEPT ![p][current[p]] = StoppedObj(@)]
    /\ BeginThread([NoThread EXCEPT !.p = p, !.at = "deinit", !.then = "erase", !.obj = current[p]])
    /\ UNCHANGED <<row, codeDir, current, routes, triggers, cached, chan, subscribed, made, typed,
                   astray>>

Erase(t) ==
    /\ ThreadAt(t, "erase") /\ ThreadMoves(t, NoThread) /\ Publish("delete")
    /\ codeDir' = [codeDir EXCEPT ![ThreadHost(t)] = NoFolder]
    /\ row' = [row EXCEPT !.there = FALSE]
    /\ UNCHANGED <<memory, subscribed, made, typed, astray, asked>>

-----------------------------------------------------------------------------
\* What a console leaves unchanged is what getPlugin showed it.
ShownSecrets == {FilterSecret(objs[p][current[p]].conf, objs[p][current[p]].desc) :
             p \in {q \in Processes : current[q] # 0}}

RunningPlugin ==
    [NewPlugin(InstalledRow) EXCEPT !.desc = TRUE, !.initialized = TRUE, !.module = TRUE,
                                    !.path = TRUE, !.response = TRUE, !.code = 1]

\* The plugin runs everywhere, or there is none.
PluginInit ==
    \E there \in BOOLEAN :
        /\ row = [InstalledRow EXCEPT !.there = there]
        /\ codeDir = [h \in Hosts |-> IF there THEN [there |-> TRUE, code |-> 1, hash |-> 1]
                                     ELSE NoFolder]
        /\ objs = [p \in Processes |-> IF there THEN <<RunningPlugin>> ELSE <<>>]
        /\ current = [p \in Processes |-> IF there THEN 1 ELSE 0]
        /\ routes = [p \in Processes |-> IF there THEN {1} ELSE {}]
        /\ triggers = [p \in Processes |-> IF there THEN 1 ELSE 0]
        /\ cached = [p \in Processes |-> IF there THEN 1 ELSE 0]
        /\ chan = [p \in Processes |-> <<>>] /\ subscribed = [p \in Processes |-> TRUE]
        /\ thread = [t \in PluginThreads |-> NoThread]
        /\ made = 1 /\ typed = "" /\ astray = {} /\ asked \in PluginBudgets

PluginStep(t) ==
    \/ ClearFolder(t) \/ Install(t) \/ WriteHash(t) \/ Load(t) \/ InitFails(t) \/ FinishDeinit(t)
    \/ DeinitFails(t) \/ ReadRow(t) \/ LoadFromDB(t) \/ Subscribe(t) \/ SaveConf(t)
    \/ SaveActive(t) \/ Build(t) \/ Invalid(t) \/ Place(t) \/ Record(t) \/ Erase(t)

PluginNext ==
    \/ \E t \in PluginThreads : PluginStep(t)
    \/ \E p \in Processes :
          \/ Deliver(p) \/ Restart(p) \/ Delete(p)
          \/ \E update \in BOOLEAN : Upload(p, update)
          \/ \E active, more \in BOOLEAN, value \in ShownSecrets \cup {Plain(s) : s \in Secrets} :
                Update(p, active, value, more)

-----------------------------------------------------------------------------
\* When all messages are handled, every process runs what the row says: the
\* version, the secret and the state of the plugin, registered exactly once.
\* Excused are the processes that one of README's known violations concerns.
PluginsAgree ==
    PluginsQuiet => \A p \in Processes \ astray :
        LET n == current[p]  runs == row.there /\ row.active
        IN  /\ (n # 0) = row.there
            /\ routes[p] = (IF runs THEN {n} ELSE {})
            /\ triggers[p] = (IF runs THEN 1 ELSE 0)
            /\ row.there => /\ objs[p][n].initialized = row.active
                            /\ objs[p][n].code = row.version
                            /\ objs[p][n].conf = DecryptSecret(row.conf, TRUE)

\* The database keeps the secret that was typed last, and never the placeholder.
SecretIsKept ==
    PluginsQuiet /\ "secret" \notin astray /\ row.there =>
        DecryptSecret(row.conf, TRUE) = Plain(typed)
-----------------------------------------------------------------------------
(* What PluginsAgree rests on. *)

\* Each process has the folder of its host for itself, or no version comes.
NoUploads == \A b \in PluginBudgets : b["upload"] = 0
OwnFolders == NoUploads \/ \A p, q \in Processes : HostOf[p] = HostOf[q] => p = q

SecretText == Secrets \cup {"", "set"}
SecretValue == [kind : {"plain", "enc", "placeholder"}, text : SecretText]
PluginRow == [there : BOOLEAN, active : BOOLEAN, version : Nat \ {0}, conf : SecretValue]
PluginObject == [active : BOOLEAN, conf : SecretValue, stored : SecretValue, desc : BOOLEAN,
                 initialized : BOOLEAN, module : BOOLEAN, path : BOOLEAN, response : BOOLEAN,
                 code : Nat]
Folder == [there : BOOLEAN, code : Nat, hash : Nat]
FolderPlaces == {"folder", "install", "hash", "load"}
RequestPlaces == {"conf", "active", "build", "place", "record", "erase"}
PluginPlaces ==
    {"idle", "row", "deinit", "boot", "subscribe"} \cup FolderPlaces \cup RequestPlaces
PluginThread == [at : PluginPlaces, p : Processes \cup {"none"},
                 then : {"", "subscribe", "new", "drop", "place", "erase"}, obj : Nat,
                 item : PluginRow]

PluginTypeOK ==
    /\ row \in PluginRow /\ codeDir \in [Hosts -> Folder]
    /\ objs \in [Processes -> Seq(PluginObject)] /\ current \in [Processes -> Nat]
    /\ routes \in [Processes -> SUBSET Nat] /\ triggers \in [Processes -> Nat]
    /\ cached \in [Processes -> Nat] /\ chan \in [Processes -> Seq({"init", "delete"})]
    /\ subscribed \in [Processes -> BOOLEAN] /\ thread \in [PluginThreads -> PluginThread]
    /\ made \in Nat \ {0} /\ typed \in SecretText /\ astray \subseteq AllProcesses
    /\ asked \in [PluginOps -> Nat]

\* What a thread is about: its object is one of its process.
ThreadKnown(th) ==
    IF th.at = "idle" THEN th = NoThread
    ELSE /\ th.p \in Processes /\ th.obj \in 0 .. Len(objs[th.p])
         /\ th.at \in FolderPlaces \cup {"deinit", "conf", "active", "erase"} => th.obj # 0
         /\ th.at \in FolderPlaces => th.then \in {"", "subscribe"}
         /\ th.at \in {"row", "conf", "active", "build"} => th.then = ""
         /\ th.at \in {"boot", "subscribe"} => th.then = "subscribe"
         /\ th.at = "deinit" => th.then \in {"new", "drop", "place", "erase"}
         /\ th.at \in {"place", "record"} => th.then \in {"", "place"}
         /\ th.at = "erase" => th.then = "erase"

ObjectsKnown == /\ \A p \in Processes : current[p] \in 0 .. Len(objs[p])
                /\ \A t \in PluginThreads : ThreadKnown(thread[t])

\* A version comes from an upload; without one, no folder changes but by a deletion.
VersionsKnown ==
    /\ row.version <= made
    /\ \A h \in Hosts : codeDir[h].hash <= made
    /\ \A t \in PluginThreads : thread[t].item.version <= made
    /\ NoUploads =>
          /\ asked["upload"] = 0 /\ made = 1
          /\ row.there => \A h \in Hosts : codeDir[h] = [there |-> TRUE, code |-> 1, hash |-> 1]
          /\ \A h \in Hosts : codeDir[h].there => codeDir[h].hash = 1
          /\ \A t \in PluginThreads :
                 /\ thread[t].at \notin {"install", "hash", "load", "build", "place", "record"}
                 /\ thread[t].then # "place"

IsRequest(t) ==
    \/ thread[t].at \in RequestPlaces
    \/ ThreadAt(t, "deinit") /\ thread[t].then \in {"place", "erase"}

\* There is one request; a change of the configuration and of active excuses everyone.
OneRequest ==
    /\ \A t, u \in PluginThreads : IsRequest(t) /\ IsRequest(u) => t = u
    /\ \A t \in PluginThreads : ThreadAt(t, "conf") =>
          ThreadObj(t).active = thread[t].item.active \/ Processes \subseteq astray

\* What is registered in a process: its object, if that runs.
Unregistered(p) == routes[p] = {} /\ triggers[p] = 0
Settled(p) ==
    LET n == current[p]
    IN  IF n # 0 /\ objs[p][n].initialized
        THEN routes[p] = {n} /\ triggers[p] = 1 /\ objs[p][n].path /\ objs[p][n].response
        ELSE Unregistered(p)

\* A process that runs what the row says, and can load it again.
Agrees(p) ==
    LET n == current[p]
    IN  /\ Settled(p) /\ (n # 0) = row.there
        /\ row.there =>
              /\ objs[p][n].initialized = row.active /\ objs[p][n].response = row.active
              /\ objs[p][n].active = row.active /\ objs[p][n].path
              /\ objs[p][n].code = row.version /\ objs[p][n].conf = DecryptSecret(row.conf, TRUE)
              /\ cached[p] = row.version /\ FolderIsWhole(HostOf[p])

\* A process that will do so once it has read the row.
CanLoad(p) ==
    LET n == current[p]
    IN  /\ Settled(p) /\ (~row.there => n = 0)
        /\ row.there => /\ FolderIsWhole(HostOf[p])
                        /\ \/ n # 0 /\ objs[p][n].initialized
                           \/ cached[p] \in {0, row.version}

\* A process that waits for a new version.
CanRenew(p) ==
    /\ codeDir[HostOf[p]].there
    /\ cached[p] = 0 \/ (current[p] # 0 /\ objs[p][current[p]].active)

\* What a handler of a process is about.
Stopping(t) ==
    LET p == thread[t].p  n == thread[t].obj
    IN  /\ n = current[p] /\ routes[p] \subseteq {n} /\ ~ThreadObj(t).initialized
        /\ triggers[p] = (IF ThreadObj(t).response THEN 1 ELSE 0) /\ ThreadObj(t).path

Starting(t) ==
    LET p == thread[t].p
    IN  /\ thread[t].obj = current[p] /\ row.there /\ thread[t].item = row /\ Unregistered(p)
        /\ ThreadObj(t).active = row.active /\ ThreadObj(t).conf = row.conf
        /\ ~ThreadObj(t).initialized /\ ~ThreadObj(t).response
        /\ cached[p] \in {0, row.version} /\ codeDir[HostOf[p]].there

Stopped(t) ==
    LET p == thread[t].p
    IN  /\ thread[t].obj = current[p] /\ Unregistered(p) /\ cached[p] = 0
        /\ (thread[t].obj # 0) = row.there
        /\ thread[t].obj # 0 => ~ThreadObj(t).initialized

HandlerSound(t) ==
    LET p == thread[t].p  folder == codeDir[HostOf[p]]
    IN  /\ ThreadAt(t, "row") => thread[t].obj = current[p] /\ CanLoad(p)
        /\ ThreadAt(t, "deinit") => Stopping(t)
        /\ ThreadAt(t, "deinit") /\ thread[t].then = "new" =>
              row.there /\ thread[t].item = row /\ FolderIsWhole(HostOf[p])
        /\ ThreadAt(t, "deinit") => row.there = (thread[t].then # "drop")
        /\ thread[t].at \in FolderPlaces => Starting(t)
        /\ ThreadAt(t, "folder") => FolderIsWhole(HostOf[p])
        /\ thread[t].at \in {"hash", "load"} => folder.code = row.version
        /\ ThreadAt(t, "load") => folder.hash = row.version
        /\ ThreadAt(t, "boot") => /\ objs[p] = <<>> /\ Unregistered(p) /\ cached[p] = 0
                                  /\ row.there => FolderIsWhole(HostOf[p])
        /\ ThreadAt(t, "subscribe") => Agrees(p)
        /\ thread[t].at \in {"conf", "active"} =>
              thread[t].obj = current[p] /\ row.there /\ CanLoad(p)
        /\ ThreadAt(t, "build") => /\ Agrees(p) /\ thread[t].obj \in {0, current[p]}
                                   /\ current[p] = 0 => cached[p] = 0
        /\ thread[t].at \in {"place", "record", "erase"} => Stopped(t)
        /\ ThreadAt(t, "record") =>
              folder = [there |-> TRUE, code |-> thread[t].item.version,
                        hash |-> thread[t].item.version]

\* An upload that is under way.
Renews(t) == thread[t].at \in {"build", "place", "record"} \/ thread[t].then = "place"

\* A process that is not excused handles one thing at a time.
OwnThreads(p) == {t \in PluginThreads : thread[t].p = p}
ProcessSound(p) ==
    /\ \A t, u \in OwnThreads(p) : t = u
    /\ \A t \in OwnThreads(p) : HandlerSound(t) /\ chan[p] = <<>>
    /\ chan[p] \in {<<>>, <<"init">>, <<"delete">>}
    /\ chan[p] = <<"init">> => CanLoad(p)
    /\ chan[p] = <<"delete">> => Settled(p) /\ ~row.there
    /\ OwnThreads(p) = {} /\ chan[p] = <<>> => Agrees(p)
    /\ subscribed[p] = (\A t \in OwnThreads(p) : thread[t].then # "subscribe")
    /\ \A t \in PluginThreads : IsRequest(t) =>
          /\ chan[p] = <<>> /\ OwnThreads(p) \subseteq {t}
          /\ thread[t].p # p /\ Renews(t) => CanRenew(p)
          /\ thread[t].p # p /\ ThreadAt(t, "record") =>
                codeDir[HostOf[p]].hash # thread[t].item.version

AgreeInv == /\ PluginTypeOK /\ ObjectsKnown /\ VersionsKnown /\ OneRequest
            /\ \A p \in Processes \ astray : ProcessSound(p)
-----------------------------------------------------------------------------
(* What SecretIsKept rests on, where nothing is uploaded and nobody starts again. *)
UpdatesOnly == asked["upload"] = 0 /\ asked["restart"] = 0

HasSecret(v) == DecryptSecret(v, TRUE) = Plain(typed)

\* Nothing is built; until a deletion folders, lists and channels stay in use.
NothingBuilt == \A t \in PluginThreads : ~Renews(t)
OnlyLoads ==
    /\ row.version = 1 /\ \A h \in Hosts : codeDir[h] = [there |-> TRUE, code |-> 1, hash |-> 1]
    /\ \A p \in Processes : current[p] # 0 /\ subscribed[p] /\ chan[p] \in Seq({"init"})
    /\ \A t \in PluginThreads :
          /\ thread[t].item.version = 1 /\ thread[t].then \in {"", "new", "erase"}
          /\ thread[t].at \in {"idle", "row", "deinit", "folder", "conf", "active", "erase"}

\* A configuration that is saved is the right one, and nothing else goes on.
SavesSecret ==
    \A t \in PluginThreads : ThreadAt(t, "conf") =>
        /\ HasSecret(thread[t].item.conf)
        /\ \A u \in PluginThreads \ {t} : ThreadIdle(u)
        /\ \A p \in Processes : chan[p] = <<>>

\* Otherwise the row's is right, and a process that holds another one will read it.
TakesRow(t) == ThreadAt(t, "deinit") /\ thread[t].then = "new"
KnowsSecret(p) ==
    \/ HasSecret(objs[p][current[p]].stored) \/ chan[p] # <<>>
    \/ \E t \in PluginThreads : thread[t].p = p /\ (ThreadAt(t, "row") \/ TakesRow(t))
HoldsSecret ==
    (\A t \in PluginThreads : ~ThreadAt(t, "conf")) =>
        /\ HasSecret(row.conf)
        /\ \A t \in PluginThreads : TakesRow(t) => HasSecret(thread[t].item.conf)
        /\ \A p \in Processes : KnowsSecret(p)

\* An object that is not loaded yet has a handler that will.
WillLoad(p, n) ==
    \E t \in PluginThreads : thread[t].p = p /\ thread[t].obj = n /\ ThreadAt(t, "folder")
ObjectDecrypts(p, n) ==
    IF objs[p][n].desc THEN objs[p][n].conf = DecryptSecret(objs[p][n].stored, TRUE)
    ELSE objs[p][n].conf = objs[p][n].stored /\ WillLoad(p, n)
ObjectsDecrypt == \A p \in Processes : \A n \in 1 .. Len(objs[p]) : ObjectDecrypts(p, n)

SecretSound == OnlyLoads /\ SavesSecret /\ HoldsSecret /\ ObjectsDecrypt
SecretInv == UpdatesOnly /\ NothingBuilt /\ (row.there /\ "secret" \notin astray => SecretSound)
=============================================================================

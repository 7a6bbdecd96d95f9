---------------------------- MODULE Configuration ----------------------------
(* The settings of one host (common.js, config.js, sysConf.js): Settings.json,
   which the processes watch, the tables of the database it is joined with, and
   what each process holds in Common. Tools of an administrator change the file
   (updateSettingsJSON) and the tables (nuboConfig.js). Files are written in
   place, so that a reader may find half of one.                              *)
EXTENDS Naturals, Sequences, FiniteSets

CONSTANTS
    Nodes, Workers,    \* processes; workers that serve quit when a load fails
    LoadThreads, OwnerOf,  \* what may go on at once, of a process or of a "tool"
    NumOfTreads,       \* the number of workers, of which Workers are looked at
    EncryptConf,       \* the parameter of Settings.json
    InDocker,          \* Settings.json lies in ./conf, and unwatchFile misses it
    Hidden,            \* tables whose parameters are also in Settings.json
    SettingsBudgets    \* "alone": only the workers run

ASSUME ConfigurationAssumption ==
    /\ Workers \subseteq Nodes /\ NumOfTreads \in Nat \ {0}
    /\ OwnerOf \in [LoadThreads -> Nodes \cup {"tool"}]
    /\ EncryptConf \in BOOLEAN /\ InDocker \in BOOLEAN
    /\ IsFiniteSet(LoadThreads) /\ Nodes \cap {"tool", "file", "tables"} = {}
    /\ "orgs" \notin Hidden     \* organizations are in the database only

\* In the order in which they are joined; the organizations are read after all.
\* The two maps of redirections and the remote servers are not changed by tools.
Tables == <<"global", "center", "nfs", "platform", "origins", "maps", "frontEnds", "subnets">>
TableNames == {Tables[i] : i \in 1..Len(Tables)} \cup {"orgs"}
Keyed == {"center", "platform", "frontEnds", "subnets"}  \* by the name of the data center
Lists == {"origins", "maps", "frontEnds", "subnets"}   \* settings also without a row
\* getAllowedOrigins reads the rows of all data centers once more.
Source(n) == IF n = "origins" THEN "center" ELSE n

VARIABLES
    file,       \* Settings.json
    sysconf,    \* the file of sysConf.js is whole
    table,      \* the value in each table, and the data center of its rows
    common,     \* what each process holds
    alive,      \* processes that run
    server,     \* of each process: "down", "starting", "ready", "up", "lost" or "broken"
    listeners,  \* of fs.watchFile, in each process
    changed,    \* processes whose watcher has not yet seen the last change
    load,       \* what each thread does
    workersLeft, \* numOfWorkers of multithreadserver.js
    chosen,     \* the last value given to updateSettingsJSON
    stale,      \* processes that missed a change, "file" and "tables"
    wanted      \* what may still be asked
settingsVars == <<file, sysconf, table, common, alive, server, listeners, changed, load, workersLeft,
                  chosen, stale, wanted>>
-----------------------------------------------------------------------------
LoadIdle(t) == load[t].at = "idle"
LoadAt(t, place) == load[t].at = place
IdleOf(p) == {t \in LoadThreads : LoadIdle(t) /\ OwnerOf[t] = p}
LoadGoes(t, place) == load' = [load EXCEPT ![t].at = place]

\* Settings as a parsed file: the name of the data center, what a tool may set,
\* and the parameters of the tables; 0 for none, 3 for those of the file.
InFile(f) == [dc |-> f.dc, own |-> f.own,
              val |-> [n \in TableNames |-> IF n \in Hidden THEN 3 ELSE 0]]
NoLoad == [at |-> "idle", op |-> "none", i |-> 1, n |-> "none",
           set |-> InFile([dc |-> "old", own |-> 0])]
Blank == InFile([dc |-> "none", own |-> 0])
Work(op) == [NoLoad EXCEPT !.at = "sysconf", !.op = op]
IsLoad(t) == load[t].op \in {"load", "start"}
Loads(p) == {t \in LoadThreads : OwnerOf[t] = p /\ ~LoadIdle(t)}
\* Workers whose first load failed: they run, but never serve.
OutOfService == {"lost", "broken"}
LoadsQuiet ==
    /\ \A t \in LoadThreads : LoadIdle(t)
    /\ \A p \in changed : listeners[p] = 0
    /\ Workers \subseteq alive /\ \A p \in Nodes : server[p] \in {"down", "up"} \cup OutOfService
SettingsFault == wanted["fault"] > 0 /\ wanted' = [wanted EXCEPT !["fault"] = @ - 1]

\* The file changes while a process that has read it does not yet watch again.
Missing == {p \in Nodes : listeners[p] = 0 /\ \E t \in Loads(p) : ~LoadAt(t, "sysconf")
                                             /\ ~LoadAt(t, "saving") /\ ~LoadAt(t, "read")}
Notify == changed' = changed \cup {p \in Nodes : listeners[p] > 0}
WriteBegins == file' = [file EXCEPT !.whole = FALSE] /\ Notify

-----------------------------------------------------------------------------
(* parse_configs: a load that fails watches again; mainFunction makes a worker
   quit, and the master, which counts its workers down only, quits with them after
   a number. What the worker was about to write stays half written.             *)
Dies(p) ==
    /\ alive' = alive \ IF workersLeft = 1 THEN Workers ELSE {p}
    /\ workersLeft' = workersLeft - 1
    /\ listeners' = [q \in Nodes |-> IF q \in alive' THEN listeners[q] ELSE 0]
    /\ server' = [q \in Nodes |-> IF q \in alive' THEN server[q] ELSE "down"]
    /\ load' = [t \in LoadThreads |-> IF OwnerOf[t] \in {p} \cup (alive \ alive') THEN NoLoad ELSE load[t]]
    /\ changed' = changed \cap alive'
    /\ stale' = IF \E t \in LoadThreads : LoadAt(t, "sealing") /\ OwnerOf[t] \in {p} \cup (alive \ alive')
                THEN stale \cup {"file"} ELSE stale

\* A worker whose first load fails has no mainFunction yet, and goes on without
\* serving, nor is another forked; "broken" without a database. The menu goes on
\* after its own load failed, until its exit.
GivesUp(t) ==
    /\ load' = [load EXCEPT ![t] = IF load[t].op \in {"set", "redis"} THEN [@ EXCEPT !.at = "touch"]
                                   ELSE NoLoad]
    /\ IF IsLoad(t)
       THEN /\ listeners' = [listeners EXCEPT ![OwnerOf[t]] = @ + 1]
            /\ stale' = stale \cup {OwnerOf[t]}
            /\ server' = IF load[t].op = "load" THEN server
                         ELSE [server EXCEPT ![OwnerOf[t]] = IF load[t].at \in {"join", "orgs"} THEN "lost"
                                                             ELSE "broken"]
       ELSE /\ stale' = stale \cup {"file"} \cup (IF load[t].op = "rename" THEN {"tables"} ELSE {})
            /\ UNCHANGED <<listeners, server>>
    /\ UNCHANGED <<alive, workersLeft, changed>>

Fails(t) ==
    /\ IF load[t].op = "load" /\ OwnerOf[t] \in Workers /\ server[OwnerOf[t]] \notin OutOfService
       THEN Dies(OwnerOf[t]) ELSE GivesUp(t)
    /\ UNCHANGED <<file, sysconf, table, common, chosen>>

\* watchSettings: what was written before is not seen.
Watch(p) ==
    /\ listeners' = [listeners EXCEPT ![p] = @ + 1]
    /\ changed' = IF listeners[p] = 0 THEN changed \ {p} ELSE changed

\* The watcher finds a new time of the file: every listener loads it, and
\* stopWatchSettings removes the listeners, but in docker those of another path.
Noticed(p) ==
    /\ p \in changed /\ listeners[p] > 0 /\ changed' = changed \ {p}
    /\ \E ts \in SUBSET IdleOf(p) :
          /\ Cardinality(ts) = listeners[p]
          /\ load' = [t \in LoadThreads |-> IF t \in ts THEN Work("load") ELSE load[t]]
    /\ listeners' = IF InDocker THEN listeners ELSE [listeners EXCEPT ![p] = 0]
    /\ UNCHANGED <<file, sysconf, table, common, alive, server, workersLeft, chosen, stale, wanted>>

\* cluster.on('exit'): a worker that died is forked again.
Fork(p) ==
    /\ p \in Workers \ alive /\ workersLeft > 0 /\ alive' = alive \cup {p}
    /\ \E t \in IdleOf(p) : load' = [load EXCEPT ![t] = Work("start")]
    /\ common' = [common EXCEPT ![p] = Blank]
    /\ UNCHANGED <<file, sysconf, table, server, listeners, changed, workersLeft, chosen, stale,
                   wanted>>

(* mainFunction, after the first load: rules, codes and the daemon, then the
   listeners, of which a port or a certificate may fail.                       *)
ServerGoes(p, from, to) ==
    /\ server[p] = from /\ server' = [server EXCEPT ![p] = to]
    /\ UNCHANGED <<file, sysconf, table, common, alive, listeners, changed, load, workersLeft,
                   chosen, stale, wanted>>

Prepare(p) == ServerGoes(p, "starting", "ready")
Listen(p) == ServerGoes(p, "ready", "up")

ListenFails(p) ==
    /\ server[p] = "ready" /\ SettingsFault /\ Dies(p)
    /\ UNCHANGED <<file, sysconf, table, common, chosen>>

-----------------------------------------------------------------------------
(* loadSysConf, which writes the file again each time *)
LoadSysConf(t) ==
    /\ LoadAt(t, "sysconf")
    /\ IF sysconf
       THEN /\ LoadGoes(t, "saving") /\ sysconf' = FALSE
            /\ UNCHANGED <<file, table, common, alive, server, listeners, changed, workersLeft, chosen, stale>>
       ELSE Fails(t)
    /\ UNCHANGED wanted

SaveSysConf(t) ==
    /\ LoadAt(t, "saving") /\ LoadGoes(t, IF load[t].op = "redis" THEN "touch" ELSE "read")
    /\ sysconf' = TRUE
    /\ UNCHANGED <<file, table, common, alive, server, listeners, changed, workersLeft, chosen, stale, wanted>>

(* load_settings *)
\* Fields that are not encrypted are, and then the file is written again.
Seals == EncryptConf /\ file.plain

AfterRead(t) == CASE load[t].op = "start" -> "connect" [] load[t].op = "load" -> "join"
                  [] load[t].op = "set" -> "touch" [] OTHER -> "write"

ReadSettings(t) ==
    /\ LoadAt(t, "read")
    /\ IF file.whole
       THEN /\ load' = [load EXCEPT ![t].set = InFile(file),
                                    ![t].at = IF Seals THEN "seal"
                                              ELSE AfterRead(t)]
            /\ stale' = IF IsLoad(t) THEN stale \ {OwnerOf[t]} ELSE stale
            /\ UNCHANGED <<file, sysconf, table, common, alive, server, listeners, changed, workersLeft,
                           chosen>>
       ELSE Fails(t)
    /\ UNCHANGED wanted

Seal(t) ==
    /\ LoadAt(t, "seal") /\ LoadGoes(t, "sealing") /\ WriteBegins
    /\ UNCHANGED <<sysconf, table, common, alive, server, listeners, workersLeft, chosen, stale, wanted>>

\* The contents are those that were read.
Sealed(t) ==
    /\ LoadAt(t, "sealing") /\ LoadGoes(t, AfterRead(t))
    /\ file' = [dc |-> load[t].set.dc, own |-> load[t].set.own, plain |-> FALSE, whole |-> TRUE]
    /\ Notify
    /\ stale' = IF load[t].set = InFile(file) THEN stale ELSE stale \cup Missing \cup {"file"}
                   \cup IF load[t].set.dc = file.dc THEN {} ELSE {"tables"}
    /\ UNCHANGED <<sysconf, table, common, alive, server, listeners, workersLeft, chosen, wanted>>

\* The first load of a process connects it to the database.
Connect(t) ==
    /\ LoadAt(t, "connect") /\ LoadGoes(t, "join")
    /\ UNCHANGED <<file, sysconf, table, common, alive, server, listeners, changed, workersLeft,
                   chosen, stale, wanted>>

-----------------------------------------------------------------------------
(* joinSettingsWithDBConfig, one table after the other. *)
OfCenter(n, dc) == IF table[n].dc = dc THEN table[n].value ELSE 0
Found(n, dc) == IF n \in Keyed THEN OfCenter(n, dc) ELSE table[Source(n)].value

\* addSettingsConfFromDB: what is in the file stays.
FromDBMutant(set, n) == Found(n, set.dc)
FromDB(set, n) == IF set.val[n] = 0 THEN Found(n, set.dc) ELSE set.val[n]

\* Without the rows of the data center nfsId is not known, and the query fails.
Join(t) ==
    /\ LoadAt(t, "join")
    /\ server[OwnerOf[t]] # "broken"
    /\ LET n == Tables[load[t].i]  set == load[t].set
       IN  IF n = "nfs" /\ set.val["nfs"] = 0 /\ set.val["center"] = 0 THEN Fails(t)
           ELSE /\ load' = [load EXCEPT
                      ![t].set.val[n] = FromDB(set, n),
                      ![t].i = @ + 1, ![t].at = IF load[t].i = Len(Tables) THEN "common" ELSE "join"]
                /\ UNCHANGED <<file, sysconf, table, common, alive, server, listeners, changed, workersLeft,
                               chosen, stale>>
    /\ UNCHANGED wanted

\* Without a database that throws, which is logged only: nothing watches again.
JoinThrows(t) ==
    /\ LoadAt(t, "join") /\ server[OwnerOf[t]] = "broken"
    /\ load' = [load EXCEPT ![t] = NoLoad] /\ stale' = stale \cup {OwnerOf[t]}
    /\ UNCHANGED <<file, sysconf, table, common, alive, server, listeners, changed, workersLeft, chosen, wanted>>

LoadFails(t) ==
    /\ LoadAt(t, "connect") \/ LoadAt(t, "join") \/ LoadAt(t, "orgs")
    /\ server[OwnerOf[t]] # "broken" /\ SettingsFault /\ Fails(t)

\* An error of getPlatformConfig is taken for a missing row, and what Common has stays.
PlatformUnread(t) ==
    /\ LoadAt(t, "join") /\ Tables[load[t].i] = "platform" /\ "platform" \notin Hidden /\ SettingsFault
    /\ load' = [load EXCEPT ![t].i = @ + 1]
    /\ stale' = stale \cup {OwnerOf[t]}
    /\ UNCHANGED <<file, sysconf, table, common, alive, server, listeners, changed, workersLeft, chosen>>

\* Attributes go to Common one by one, and none is removed there.
SetCommon(t) ==
    /\ LoadAt(t, "common") /\ LoadGoes(t, "orgs")
    /\ LET p == OwnerOf[t]  set == load[t].set
       IN  common' = [common EXCEPT ![p] =
              [set EXCEPT !.val = [n \in TableNames |-> IF set.val[n] = 0 /\ n \notin Lists
                                                        THEN common[p].val[n] ELSE set.val[n]]]]
    /\ UNCHANGED <<file, sysconf, table, alive, server, listeners, changed, workersLeft, chosen, stale, wanted>>

LoadOrgs(t) ==
    /\ LoadAt(t, "orgs") /\ LoadGoes(t, "watch")
    /\ common' = [common EXCEPT ![OwnerOf[t]].val["orgs"] = table["orgs"].value]
    /\ UNCHANGED <<file, sysconf, table, alive, server, listeners, changed, workersLeft, chosen, stale, wanted>>

Loaded(t) ==
    /\ LoadAt(t, "watch") /\ Watch(OwnerOf[t]) /\ load' = [load EXCEPT ![t] = NoLoad]
    /\ server' = IF load[t].op = "start" THEN [server EXCEPT ![OwnerOf[t]] = "starting"] ELSE server
    /\ UNCHANGED <<file, sysconf, table, common, alive, workersLeft, chosen, stale, wanted>>

-----------------------------------------------------------------------------
(* Tools. Those that find another at work, or a file whose secrets some load is
   about to encrypt, are excused.                                              *)
AskTool(op, new) ==
    /\ wanted[op] > 0 /\ wanted' = [wanted EXCEPT ![op] = @ - 1]
    /\ \E t \in IdleOf("tool") : load' = [load EXCEPT ![t] = new]
    /\ stale' = IF \A t \in LoadThreads : LoadIdle(t) \/ (IsLoad(t) /\ ~Seals
                                                          /\ load[t].at \notin {"seal", "sealing"})
                THEN stale ELSE stale \cup Nodes \cup {"file"}

\* updateSettingsJSON, in createAdmin.js or after the first activation.
UpdateSettings(v) ==
    /\ AskTool("update", [Work("update") EXCEPT !.set.own = v, !.n = "own", !.i = v])
    /\ chosen' = v
    /\ UNCHANGED <<file, sysconf, table, common, alive, server, listeners, changed, workersLeft>>

\* The menus of nuboConfig.js, with the name of the data center loaded before.
Configure(op, place, n, v) ==
    /\ AskTool(op, [Work(op) EXCEPT !.at = place, !.n = n, !.i = v, !.set.dc = file.dc])
    /\ UNCHANGED <<file, sysconf, table, common, alive, server, listeners, changed, workersLeft, chosen>>

SetGlobalConfig(v) == Configure("set", "row", "global", v)
SetDataCenterConfig(v) == Configure("set", "row", "center", v)
SetPlatformParams(v) == Configure("set", "row", "platform", v)
SetNfs(v) == Configure("set", "row", "nfs", v)
SetSubnets(v) == Configure("set", "row", "subnets", v)
SetInviteUrl(v) == Configure("set", "row", "orgs", v)
RestrictWebClient(v) == Configure("set", "row", "global", v)
SetRsyslog(v) == Configure("set", "row", "platform", v)
SetDbRedis == Configure("redis", "sysconf", "none", 0)
RenameDataCenter == Configure("rename", "rename", "center", 0)

\* A row is found or created, and updated, and the menu loads the settings itself.
NewRow(t) == [value |-> load[t].i, dc |-> load[t].set.dc]
SetRow(t) ==
    /\ LoadAt(t, "row") /\ LoadGoes(t, "sysconf")
    /\ table' = [table EXCEPT ![load[t].n] = NewRow(t)]
    /\ UNCHANGED <<file, sysconf, common, alive, server, listeners, changed, workersLeft, chosen, stale, wanted>>

\* The tables get the new name one after the other, but for the subnets of web
\* clients, which are lost, and the file is last.
After(n) == CASE n = "center" -> "frontEnds" [] n = "frontEnds" -> "platform" [] OTHER -> "none"
RenameTable(t) ==
    /\ LoadAt(t, "rename")
    /\ table' = [table EXCEPT ![load[t].n].dc = "new"]
    /\ load' = [load EXCEPT ![t].n = After(@), ![t].at = IF After(load[t].n) = "none" THEN "sysconf"
                                                         ELSE "rename"]
    /\ UNCHANGED <<file, sysconf, common, alive, server, listeners, changed, workersLeft, chosen, stale, wanted>>

\* The menu's exit sets the time of the file, so that all processes load.
Touch(t) ==
    /\ LoadAt(t, "touch") /\ Notify /\ load' = [load EXCEPT ![t] = NoLoad]
    /\ stale' = stale \cup Missing
    /\ UNCHANGED <<file, sysconf, table, common, alive, server, listeners, workersLeft, chosen, wanted>>

\* A tool is interrupted before that.
Cut(t) ==
    /\ LoadAt(t, "touch") \/ LoadAt(t, "rename") \/ (LoadAt(t, "write") /\ load[t].op = "rename")
    /\ SettingsFault /\ load' = [load EXCEPT ![t] = NoLoad]
    /\ stale' = stale \cup Nodes \cup {"file"} \cup IF load[t].op = "rename" THEN {"tables"} ELSE {}
    /\ UNCHANGED <<file, sysconf, table, common, alive, server, listeners, changed, workersLeft, chosen>>

\* The settings that were read are written with what is new, all in plain text.
Write(t) ==
    /\ LoadAt(t, "write") /\ LoadGoes(t, "writing") /\ WriteBegins
    /\ UNCHANGED <<sysconf, table, common, alive, server, listeners, workersLeft, chosen, stale, wanted>>

FileWritten(t) ==
    /\ LoadAt(t, "writing") /\ Notify
    /\ LET renames == load[t].op = "rename"
       IN  /\ file' = [dc |-> IF renames THEN "new" ELSE load[t].set.dc,
                       own |-> IF renames THEN load[t].set.own ELSE load[t].i,
                       plain |-> TRUE, whole |-> TRUE]
           /\ load' = [load EXCEPT ![t] = IF renames THEN [@ EXCEPT !.at = "touch"] ELSE NoLoad]
    /\ stale' = stale \cup Missing
    /\ UNCHANGED <<sysconf, table, common, alive, server, listeners, workersLeft, chosen, wanted>>

-----------------------------------------------------------------------------
SettingsInit ==
    /\ file = [dc |-> "old", own |-> 0, plain |-> FALSE, whole |-> TRUE] /\ sysconf = TRUE
    /\ table = [n \in TableNames \ {"origins"} |-> [value |-> 1, dc |-> "old"]]
    /\ common = [p \in Nodes |->
          [dc |-> "old", own |-> 0, val |-> [n \in TableNames |-> IF n \in Hidden THEN 3 ELSE 1]]]
    /\ changed = {} /\ load = [t \in LoadThreads |-> NoLoad] /\ workersLeft = NumOfTreads
    /\ chosen = 0 /\ stale = {} /\ wanted \in SettingsBudgets
    /\ alive = IF wanted["alone"] > 0 THEN Workers ELSE Nodes
    /\ server = [p \in Nodes |-> IF p \in Workers THEN "up" ELSE "down"]
    /\ listeners = [p \in Nodes |-> IF p \in alive THEN 1 ELSE 0]

LoadStep(t) ==
    \/ LoadSysConf(t) \/ SaveSysConf(t) \/ ReadSettings(t) \/ Seal(t) \/ Sealed(t)
    \/ Connect(t) \/ Join(t) \/ JoinThrows(t) \/ LoadFails(t) \/ PlatformUnread(t) \/ SetCommon(t) \/ LoadOrgs(t) \/ Loaded(t)

ToolStep(t) == SetRow(t) \/ RenameTable(t) \/ Touch(t) \/ Cut(t) \/ Write(t) \/ FileWritten(t)

SettingsNext ==
    \/ \E t \in LoadThreads : LoadStep(t) \/ ToolStep(t)
    \/ \E p \in Nodes : Noticed(p) \/ Fork(p) \/ Prepare(p) \/ Listen(p) \/ ListenFails(p)
    \/ \E v \in {1, 2} : UpdateSettings(v)
    \/ SetGlobalConfig(2) \/ SetDataCenterConfig(2) \/ SetPlatformParams(2) \/ SetNfs(2)
    \/ RestrictWebClient(2) \/ SetSubnets(2) \/ SetInviteUrl(2) \/ SetRsyslog(2) \/ SetDbRedis \/ RenameDataCenter

-----------------------------------------------------------------------------
\* When nothing moves, each process that runs holds what the file says and, for
\* what it leaves open, the tables under the name of its data center, also
\* after tables were changed one by one while it loaded, and after it died of
\* half a file. Excused are processes that did not watch at the last change.
ProcessesAgree ==
    LoadsQuiet /\ "tables" \notin stale => \A p \in alive \ stale :
        /\ common[p].dc = file.dc /\ common[p].own = file.own
        /\ \A n \in TableNames :
              common[p].val[n] = IF n \in Hidden THEN 3
                                 ELSE IF n \in Keyed /\ table[n].dc # file.dc THEN 0
                                 ELSE table[Source(n)].value
        /\ p \in Workers => server[p] \in {"up"} \cup OutOfService

\* When nothing moves, the file has what the last tool wrote and its secrets are
\* encrypted, whoever read and wrote it meanwhile, unless no process watched.
FileIsKept ==
    LoadsQuiet /\ "file" \notin stale =>
        /\ file.whole /\ file.own = chosen
        /\ EncryptConf /\ ~(alive \subseteq stale) => ~file.plain

\* Both: the settings of a host come to rest where the last tool left them.
SettingsAgree == ProcessesAgree /\ FileIsKept
-----------------------------------------------------------------------------
(* Why they agree: the inductive invariant of SettingsAgree. One tool at work at
   a time: two can leave the tables of a data center under two names.          *)
OneTool == \A t, u \in LoadThreads : OwnerOf[t] = "tool" /\ OwnerOf[u] = "tool" => t = u

BeforeRead == {"sysconf", "saving", "read"}
Sealing == {"seal", "sealing"}
Joining == {"connect", "join", "common"}
Told == {"orgs", "watch"}
LoadPlaces == BeforeRead \cup Sealing \cup Joining \cup Told
ToolPlaces == [update |-> BeforeRead \cup Sealing \cup {"write", "writing"},
               set    |-> BeforeRead \cup Sealing \cup {"row", "touch"},
               redis  |-> {"sysconf", "saving", "touch"},
               rename |-> BeforeRead \cup Sealing \cup {"rename", "write", "writing", "touch"}]

Settings == [dc : {"none", "old", "new"}, own : Nat, val : [TableNames -> Nat]]
ThreadRecord ==
    [at : {"idle", "row", "rename", "write", "writing", "touch"} \cup LoadPlaces,
     op : {"none", "load", "start"} \cup DOMAIN ToolPlaces, i : Nat,
     n : {"none", "own"} \cup (TableNames \ {"origins"}), set : Settings]
SettingsTypeOK ==
    /\ file \in [dc : {"none", "old", "new"}, own : Nat, plain : BOOLEAN, whole : BOOLEAN]
    /\ sysconf \in BOOLEAN
    /\ table \in [TableNames \ {"origins"} -> [value : Nat \ {0}, dc : {"none", "old", "new"}]]
    /\ common \in [Nodes -> Settings]
    /\ alive \subseteq Nodes /\ changed \subseteq Nodes
    /\ server \in [Nodes -> {"down", "starting", "ready", "up"} \cup OutOfService]
    /\ listeners \in [Nodes -> Nat]
    /\ load \in [LoadThreads -> ThreadRecord]

\* What each thread may be doing.
ThreadFits(t) ==
    \/ load[t] = NoLoad
    \/ /\ OwnerOf[t] \in alive /\ IsLoad(t) /\ load[t].at \in LoadPlaces
       /\ load[t].op = "start" => OwnerOf[t] \in Workers
       /\ load[t].op = "load" /\ OwnerOf[t] \in Workers => server[OwnerOf[t]] # "down"
       /\ load[t].at \in BeforeRead \cup Sealing \cup {"connect"} => load[t].i = 1
       /\ load[t].at = "join" => load[t].i \in 1 .. Len(Tables)
       /\ load[t].at = "common" => load[t].i = Len(Tables) + 1
    \/ /\ OwnerOf[t] = "tool" /\ load[t].op \in DOMAIN ToolPlaces
       /\ load[t].at \in ToolPlaces[load[t].op]
       /\ load[t].op = "update" => load[t].i = chosen
       /\ load[t].op = "set" => load[t].i > 0 /\ load[t].n \in TableNames \ {"origins"}
       /\ load[t].at = "rename" => load[t].n \in {"center", "frontEnds", "platform"}

\* A process that runs either watches the file or loads it, once, but for a worker
\* without a database.
WatchesOrLoads(p) ==
    IF p \in alive
    THEN \/ listeners[p] = 1 /\ Loads(p) = {}
         \/ listeners[p] = 0 /\ \E t \in LoadThreads : Loads(p) = {t}
         \/ listeners[p] = 0 /\ Loads(p) = {} /\ server[p] = "broken"
    ELSE listeners[p] = 0 /\ Loads(p) = {}
ServerFits(p) ==
    /\ server[p] # "down" => p \in Workers \cap alive
    /\ p \in Workers /\ listeners[p] = 1 => server[p] # "down"
Shape ==
    /\ \A t \in LoadThreads : ThreadFits(t)
    /\ \A p \in Nodes : WatchesOrLoads(p) /\ ServerFits(p)
    /\ \A p \in changed : listeners[p] = 1

\* Half a file has somebody who writes the rest, or was left by one that died.
HalfWritten ==
    file.whole \/ "file" \in stale \/ \E t \in LoadThreads : load[t].at \in {"sealing", "writing"}

\* The name of the data center is the same in the file and in the tables but
\* while a tool renames it.
Works(op) == \E t \in LoadThreads : load[t].op = op
Named(dc) == table["center"].dc = dc /\ table["platform"].dc = dc
NameFits(t) ==
    /\ load[t].op = "set" /\ load[t].at = "row" => load[t].set.dc = file.dc
    /\ load[t].op = "update" /\ load[t].at \notin BeforeRead => load[t].set.dc = file.dc
    /\ load[t].op = "rename" =>
          IF load[t].at = "rename" THEN load[t].n # "center" => table["center"].dc = "new"
          ELSE Named("new") /\ (load[t].at = "touch" => file.dc = "new")
NamesAgree ==
    "tables" \notin stale => /\ ~Works("rename") => Named(file.dc)
                             /\ \A t \in LoadThreads : NameFits(t)

\* The file has what was chosen last, or the tool that will write it is at work.
OwnFits(t) ==
    load[t].op = "rename" /\ load[t].at \in Sealing \cup {"write", "writing"} =>
        load[t].set.own = file.own
OwnKept ==
    "file" \notin stale => /\ ~Works("update") => file.own = chosen
                           /\ \A t \in LoadThreads : OwnFits(t)

\* What a process that is not excused has read is still so; it seals a file
\* that was in plain text.
Steady == "tables" \notin stale /\ ~Works("set") /\ ~Works("rename")
Joined(i) == {Tables[j] : j \in 1 .. i - 1}
Wanted(n) == IF n \in Hidden THEN 3 ELSE Found(n, file.dc)
IsSealed == EncryptConf => ~file.plain
SetHolds(t) ==
    /\ load[t].set.dc = file.dc /\ load[t].set.own = file.own
    /\ Steady => \A n \in TableNames :
          load[t].set.val[n] = IF n \in Hidden \cup Joined(load[t].i) THEN Wanted(n) ELSE 0
CommonHolds(p, ns) ==
    /\ common[p].dc = file.dc /\ common[p].own = file.own
    /\ Steady => \A n \in ns : common[p].val[n] = Wanted(n)
LoadHolds(t) ==
    /\ load[t].at \in Sealing \cup Joining => SetHolds(t)
    /\ load[t].at \in Told =>
          CommonHolds(OwnerOf[t], IF load[t].at = "orgs" THEN TableNames \ {"orgs"} ELSE TableNames)
    /\ load[t].at \in Joining \cup Told => IsSealed
ProcessHolds(p) ==
    /\ listeners[p] = 1 \/ Loads(p) # {}
    /\ listeners[p] = 1 /\ p \notin changed => CommonHolds(p, TableNames) /\ IsSealed
    /\ \A t \in Loads(p) : LoadHolds(t)
ProcessesHold == \A p \in alive \ stale : ProcessHolds(p)

SettingsInv == SettingsTypeOK /\ Shape /\ HalfWritten /\ NamesAgree /\ OwnKept /\ ProcessesHold
=============================================================================

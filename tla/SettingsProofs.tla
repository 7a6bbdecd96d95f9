---------------------------- MODULE SettingsProofs ---------------------------
(***************************************************************************)
(* Proofs about Configuration, for any number of processes, workers, loads *)
(* and changes: SettingsInv is inductive with one tool at a time and       *)
(* outside docker.  Types come first, then what each thread may be doing,  *)
(* who still writes half a file, and last what a process has read.         *)
(***************************************************************************)
EXTENDS Configuration, FiniteSetTheorems, TLAPS

-----------------------------------------------------------------------------
(* the tables. *)

LEMMA TheTables ==
    /\ Len(Tables) = 8 /\ Tables[4] = "platform"
    /\ {Tables[i] : i \in 1 .. 8} = TableNames \ {"orgs"}
    /\ \A i, j \in 1 .. 8 : Tables[i] = Tables[j] => i = j
    /\ TableNames = {"global", "center", "nfs", "platform", "origins", "maps", "frontEnds",
                     "subnets", "orgs"}
<1>1. Tables = <<"global", "center", "nfs", "platform", "origins", "maps", "frontEnds", "subnets">>
  BY DEF Tables
<1>2. /\ Len(Tables) = 8
      /\ Tables[1] = "global" /\ Tables[2] = "center" /\ Tables[3] = "nfs" /\ Tables[4] = "platform"
      /\ Tables[5] = "origins" /\ Tables[6] = "maps" /\ Tables[7] = "frontEnds" /\ Tables[8] = "subnets"
  BY <1>1
<1>3. 1 .. 8 = {1, 2, 3, 4, 5, 6, 7, 8}
  OBVIOUS
<1>4. {Tables[i] : i \in 1 .. 8} = {"global", "center", "nfs", "platform", "origins", "maps", "frontEnds", "subnets"}
  BY <1>2, <1>3
<1>5. TableNames = {Tables[i] : i \in 1 .. 8} \cup {"orgs"}
  BY <1>2 DEF TableNames
<1>6. \A i, j \in {1, 2, 3, 4, 5, 6, 7, 8} : Tables[i] = Tables[j] => i = j
  BY <1>2
<1> QED
  BY <1>2, <1>3, <1>4, <1>5, <1>6

LEMMA TheJoined ==
    /\ Joined(1) = {} /\ Joined(9) = TableNames \ {"orgs"}
    /\ \A i \in 1 .. 8 : Joined(i + 1) = Joined(i) \cup {Tables[i]} /\ Tables[i] \notin Joined(i)
    /\ \A i \in 1 .. 8 : Tables[i] \in TableNames \ {"orgs"}
<1>1. Joined(1) = {}
  BY DEF Joined
<1>2. Joined(9) = TableNames \ {"orgs"}
  BY TheTables DEF Joined
<1>3. ASSUME NEW i \in 1 .. 8 PROVE Joined(i + 1) = Joined(i) \cup {Tables[i]} /\ Tables[i] \notin Joined(i)
  <2>1. 1 .. (i + 1) - 1 = (1 .. i - 1) \cup {i} /\ i \notin 1 .. i - 1 /\ 1 .. i - 1 \subseteq 1 .. 8
    OBVIOUS
  <2>2. Joined(i + 1) = {Tables[j] : j \in (1 .. i - 1) \cup {i}}
    BY <2>1 DEF Joined
  <2>3. \A j \in 1 .. i - 1 : Tables[j] # Tables[i]
    BY <2>1, TheTables
  <2> QED
    BY <2>2, <2>3 DEF Joined
<1>4. \A i \in 1 .. 8 : Tables[i] \in TableNames \ {"orgs"}
  BY TheTables
<1> QED
  BY <1>1, <1>2, <1>3, <1>4

LEMMA NoLoadFits ==
    /\ NoLoad \in ThreadRecord /\ NoLoad.at = "idle" /\ NoLoad.op = "none" /\ NoLoad.i = 1
    /\ NoLoad.set = InFile([dc |-> "old", own |-> 0])
BY DEF ThreadRecord, NoLoad, InFile, Settings, ToolPlaces

-----------------------------------------------------------------------------
(* types, one lemma for the steps of each actor. *)

LEMMA WorkTyped ==
    ASSUME NEW op \in {"load", "start", "update", "set", "redis", "rename"}
    PROVE  /\ Work(op) \in ThreadRecord /\ Work(op).op = op /\ Work(op).at = "sysconf" /\ Work(op).i = 1
           /\ Work(op).n = "none"
BY NoLoadFits DEF Work, ThreadRecord, ToolPlaces, LoadPlaces, BeforeRead, NoLoad

\* A thread whose record is another one.
LEMMA OneThread ==
    ASSUME SettingsTypeOK, NEW t \in LoadThreads, NEW r \in ThreadRecord,
           load' = [load EXCEPT ![t] = r]
    PROVE  load' \in [LoadThreads -> ThreadRecord]
BY DEF SettingsTypeOK

LEMMA PlaceTyped ==
    ASSUME SettingsTypeOK, NEW t \in LoadThreads, NEW place, LoadGoes(t, place),
           place \in {"row", "rename", "write", "writing", "touch"} \cup LoadPlaces
    PROVE  load' \in [LoadThreads -> ThreadRecord]
<1> DEFINE r == [load[t] EXCEPT !.at = place]
<1>1. load[t] \in ThreadRecord
  BY DEF SettingsTypeOK
<1>2. r \in ThreadRecord
  BY <1>1 DEF ThreadRecord
<1>3. load' = [load EXCEPT ![t] = r]
  BY DEF LoadGoes
<1> HIDE DEF r
<1> QED
  BY <1>2, <1>3, OneThread

LEMMA InFileTyped ==
    ASSUME SettingsTypeOK
    PROVE  InFile(file) \in Settings /\ InFile(file).dc = file.dc /\ InFile(file).own = file.own
           /\ InFile(file).val = [n \in TableNames |-> IF n \in Hidden THEN 3 ELSE 0]
BY DEF InFile, SettingsTypeOK, Settings

Servings == {"down", "starting", "ready", "up"} \cup OutOfService

LEMMA FailsTyped ==
    ASSUME SettingsTypeOK, Shape, NEW t \in LoadThreads, ~LoadIdle(t), Fails(t)
    PROVE  SettingsTypeOK'
<1> USE DEF SettingsTypeOK
<1>1. CASE Dies(OwnerOf[t])
  <2>2. load' \in [LoadThreads -> ThreadRecord] /\ listeners' \in [Nodes -> Nat]
        /\ server' \in [Nodes -> Servings]
    BY <1>1, NoLoadFits DEF Dies, Servings
  <2> QED
    BY <2>2, <1>1 DEF Dies, Fails, Servings
<1>2. CASE GivesUp(t)
  <2>2. load' \in [LoadThreads -> ThreadRecord]
    BY <1>2, NoLoadFits DEF GivesUp, ThreadRecord, LoadPlaces
  <2>3. listeners' \in [Nodes -> Nat]
    BY <1>2 DEF GivesUp
  <2>4. server' \in [Nodes -> Servings]
    BY <1>2 DEF GivesUp, OutOfService, Servings
  <2> QED
    BY <2>2, <2>3, <2>4, <1>2 DEF GivesUp, Fails, Servings
<1> QED
  BY <1>1, <1>2 DEF Fails

LEMMA NotifyTyped ==
    ASSUME SettingsTypeOK, Notify
    PROVE  changed' \subseteq Nodes
BY DEF SettingsTypeOK, Notify

\* What the database says of a table.
LEMMA FoundTyped ==
    ASSUME SettingsTypeOK, NEW n \in TableNames, NEW dc
    PROVE  Found(n, dc) \in Nat
<1>1. Source(n) \in TableNames \ {"origins"}
  BY TheTables DEF Source
<1>2. n \in Keyed => n \in TableNames \ {"origins"}
  BY DEF Keyed
<1> QED
  BY <1>1, <1>2 DEF Found, OfCenter, SettingsTypeOK

\* The settings of a load with one more table.
Joins(t, n) == [load[t].set.val EXCEPT ![n] = FromDB(load[t].set, n)]

LEMMA ValuesTyped ==
    ASSUME SettingsTypeOK, NEW t \in LoadThreads, NEW n
    PROVE  Joins(t, n) \in [TableNames -> Nat]
<1>1. load[t].set.val \in [TableNames -> Nat]
  BY DEF SettingsTypeOK, ThreadRecord, Settings
<1>2. ASSUME n \in TableNames PROVE FromDB(load[t].set, n) \in Nat
  BY <1>1, <1>2, FoundTyped DEF FromDB
<1> QED
  BY <1>1, <1>2 DEF Joins

\* A thread gets new values of tables.
GetsValues(t, vals, place) ==
    load' = [load EXCEPT ![t].set.val = vals, ![t].i = @ + 1, ![t].at = place]

LEMMA ValuesGo ==
    ASSUME SettingsTypeOK, NEW t \in LoadThreads, NEW vals \in [TableNames -> Nat], NEW place \in LoadPlaces,
           GetsValues(t, vals, place)
    PROVE  /\ load' \in [LoadThreads -> ThreadRecord]
           /\ load'[t].at = place /\ load'[t].i = load[t].i + 1 /\ load'[t].op = load[t].op
           /\ load'[t].set.val = vals /\ load'[t].set.dc = load[t].set.dc
           /\ load'[t].set.own = load[t].set.own
           /\ \A u \in LoadThreads \ {t} : load'[u] = load[u]
<1> DEFINE set == [load[t].set EXCEPT !.val = vals]
           r == [[[load[t] EXCEPT !.set = set] EXCEPT !.i = load[t].i + 1] EXCEPT !.at = place]
<1>1. load[t] \in ThreadRecord
  BY DEF SettingsTypeOK
<1>2. set \in Settings /\ set.val = vals /\ set.dc = load[t].set.dc /\ set.own = load[t].set.own
  BY <1>1 DEF ThreadRecord, Settings
<1> HIDE DEF set
<1>3. r \in ThreadRecord
  <2> DEFINE r1 == [load[t] EXCEPT !.set = set]
             r2 == [r1 EXCEPT !.i = load[t].i + 1]
  <2>1. r1 \in ThreadRecord
    BY <1>1, <1>2 DEF ThreadRecord
  <2>2. load[t].i + 1 \in Nat
    BY <1>1 DEF ThreadRecord
  <2> HIDE DEF r1
  <2>3. r2 \in ThreadRecord
    BY <2>1, <2>2 DEF ThreadRecord
  <2> HIDE DEF r2
  <2>4. [r2 EXCEPT !.at = place] \in ThreadRecord
    BY <2>3 DEF ThreadRecord
  <2> QED
    BY <2>4 DEF r1, r2
<1>4. r.at = place /\ r.i = load[t].i + 1 /\ r.op = load[t].op /\ r.set = set
  BY <1>1, <1>2 DEF ThreadRecord
<1>5. load' = [load EXCEPT ![t] = r]
  BY <1>1 DEF SettingsTypeOK, ThreadRecord, set, GetsValues
<1> HIDE DEF r
<1>6. load \in [LoadThreads -> ThreadRecord]
  BY DEF SettingsTypeOK
<1>7. load'[t] = r /\ \A u \in LoadThreads \ {t} : load'[u] = load[u]
  BY <1>5, <1>6
<1> QED
  BY <1>2, <1>3, <1>4, <1>5, <1>6, <1>7

LEMMA LoadTyped ==
    ASSUME SettingsTypeOK, Shape, NEW t \in LoadThreads, LoadStep(t)
    PROVE  SettingsTypeOK'
<1> USE DEF SettingsTypeOK, LoadPlaces, BeforeRead, Sealing, Joining, Told, Servings
<1>1. CASE LoadSysConf(t)
  <2>1. CASE sysconf
    BY <1>1, <2>1, PlaceTyped DEF LoadSysConf
  <2>2. CASE ~sysconf
    BY <1>1, <2>2, FailsTyped DEF LoadSysConf, LoadAt, LoadIdle
  <2> QED
    BY <2>1, <2>2
<1>2. CASE SaveSysConf(t)
  BY <1>2, PlaceTyped DEF SaveSysConf
<1>3. CASE ReadSettings(t)
  <2>1. CASE file.whole
    <3>1. load' \in [LoadThreads -> ThreadRecord]
      BY <1>3, <2>1, InFileTyped, SMTT(30) DEF ReadSettings, ThreadRecord, AfterRead
    <3> QED
      BY <1>3, <2>1, <3>1 DEF ReadSettings
  <2>2. CASE ~file.whole
    BY <1>3, <2>2, FailsTyped DEF ReadSettings, LoadAt, LoadIdle
  <2> QED
    BY <2>1, <2>2
<1>4. CASE Seal(t)
  <2>1. file' \in [dc : {"none", "old", "new"}, own : Nat, plain : BOOLEAN, whole : BOOLEAN]
    BY <1>4 DEF Seal, WriteBegins
  <2> QED
    BY <1>4, <2>1, PlaceTyped, NotifyTyped DEF Seal, WriteBegins
<1>5. CASE Sealed(t)
  <2>1. load' \in [LoadThreads -> ThreadRecord]
    <3>1. AfterRead(t) \in {"connect", "join", "touch", "write"} /\ LoadGoes(t, AfterRead(t))
      BY <1>5 DEF Sealed, AfterRead
    <3> QED
      BY <3>1, PlaceTyped
  <2>2. file' \in [dc : {"none", "old", "new"}, own : Nat, plain : BOOLEAN, whole : BOOLEAN]
    BY <1>5 DEF Sealed, ThreadRecord, Settings
  <2> QED
    BY <1>5, <2>1, <2>2, NotifyTyped DEF Sealed
<1>6. CASE Connect(t)
  BY <1>6, PlaceTyped DEF Connect
<1>7. CASE Join(t)
  <2> DEFINE n == Tables[load[t].i]
             set == load[t].set
  <2>1. CASE n = "nfs" /\ set.val["nfs"] = 0 /\ set.val["center"] = 0
    BY <1>7, <2>1, FailsTyped DEF Join, LoadAt, LoadIdle
  <2>2. CASE ~(n = "nfs" /\ set.val["nfs"] = 0 /\ set.val["center"] = 0)
    <3>1. load' \in [LoadThreads -> ThreadRecord]
      <4>1. Joins(t, n) \in [TableNames -> Nat]
        BY ValuesTyped DEF Joins
      <4>2. GetsValues(t, Joins(t, n), IF load[t].i = Len(Tables) THEN "common" ELSE "join")
        BY <1>7, <2>2 DEF Join, GetsValues, Joins
      <4>3. (IF load[t].i = Len(Tables) THEN "common" ELSE "join") \in LoadPlaces
        OBVIOUS
      <4> QED
        BY <4>1, <4>2, <4>3, ValuesGo
    <3> QED
      BY <1>7, <2>2, <3>1 DEF Join
  <2> QED
    BY <2>1, <2>2
<1>8. CASE LoadFails(t)
  BY <1>8, FailsTyped DEF LoadFails, LoadAt, LoadIdle
<1>13. CASE JoinThrows(t)
  <2>1. load' \in [LoadThreads -> ThreadRecord]
    BY <1>13, NoLoadFits DEF JoinThrows
  <2> QED
    BY <1>13, <2>1 DEF JoinThrows
<1>9. CASE PlatformUnread(t)
  <2>1. load' \in [LoadThreads -> ThreadRecord]
    <3>1. load[t] \in ThreadRecord /\ load[t].i + 1 \in Nat
      BY DEF ThreadRecord
    <3>2. [load[t] EXCEPT !.i = @ + 1] \in ThreadRecord
      BY <3>1 DEF ThreadRecord
    <3>3. load' = [load EXCEPT ![t] = [load[t] EXCEPT !.i = @ + 1]]
      BY <1>9 DEF PlatformUnread
    <3> QED
      BY <3>2, <3>3, OneThread
  <2> QED
    BY <1>9, <2>1 DEF PlatformUnread
<1>10. CASE SetCommon(t)
  <2>1. common' \in [Nodes -> Settings]
    <3> DEFINE p == OwnerOf[t]
               set == load[t].set
               vals == [n \in TableNames |-> IF set.val[n] = 0 /\ n \notin Lists THEN common[p].val[n]
                                             ELSE set.val[n]]
    <3>1. common' = [common EXCEPT ![p] = [set EXCEPT !.val = vals]]
      BY <1>10 DEF SetCommon
    <3>2. set \in Settings
      BY DEF ThreadRecord
    <3>3. ASSUME p \in Nodes PROVE vals \in [TableNames -> Nat]
      BY <3>2, <3>3 DEF Settings
    <3>4. ASSUME p \in Nodes PROVE [set EXCEPT !.val = vals] \in Settings
      <4> HIDE DEF vals
      <4> QED
        BY <3>2, <3>3, <3>4 DEF Settings
    <3> HIDE DEF set
    <3>5. CASE p \in Nodes
      BY <3>1, <3>4, <3>5
    <3>6. CASE p \notin Nodes
      BY <3>1, <3>6
    <3> QED
      BY <3>5, <3>6
  <2> QED
    BY <1>10, <2>1, PlaceTyped DEF SetCommon
<1>11. CASE LoadOrgs(t)
  <2>1. common' \in [Nodes -> Settings]
    <3>1. "orgs" \in TableNames \ {"origins"}
      BY TheTables
    <3>2. table["orgs"].value \in Nat
      BY <3>1
    <3>3. common' = [common EXCEPT ![OwnerOf[t]].val["orgs"] = table["orgs"].value]
      BY <1>11 DEF LoadOrgs
    <3>4. CASE OwnerOf[t] \in Nodes
      <4>1. [common[OwnerOf[t]] EXCEPT !.val["orgs"] = table["orgs"].value] \in Settings
        <5>1. common[OwnerOf[t]] \in Settings
          BY <3>4
        <5>2. [common[OwnerOf[t]].val EXCEPT !["orgs"] = table["orgs"].value] \in [TableNames -> Nat]
          BY <5>1, <3>1, <3>2 DEF Settings
        <5>3. [common[OwnerOf[t]] EXCEPT !.val =
                  [common[OwnerOf[t]].val EXCEPT !["orgs"] = table["orgs"].value]] \in Settings
          BY <5>1, <5>2 DEF Settings
        <5> QED
          BY <5>3
      <4> QED
        BY <3>3, <4>1
    <3>5. CASE OwnerOf[t] \notin Nodes
      BY <3>3, <3>5
    <3> QED
      BY <3>4, <3>5
  <2> QED
    BY <1>11, <2>1, PlaceTyped DEF LoadOrgs
<1>12. CASE Loaded(t)
  <2>1. load' \in [LoadThreads -> ThreadRecord] /\ listeners' \in [Nodes -> Nat]
        /\ server' \in [Nodes -> Servings]
    <3>1. load' \in [LoadThreads -> ThreadRecord]
      BY <1>12, NoLoadFits DEF Loaded
    <3>2. listeners' \in [Nodes -> Nat]
      <4>1. listeners' = [listeners EXCEPT ![OwnerOf[t]] = @ + 1]
        BY <1>12 DEF Loaded, Watch
      <4>2. ASSUME NEW p \in Nodes PROVE listeners[p] + 1 \in Nat
        OBVIOUS
      <4> QED
        BY <4>1, <4>2, Zenon
    <3>3. server' \in [Nodes -> Servings]
      BY <1>12 DEF Loaded
    <3> QED
      BY <3>1, <3>2, <3>3
  <2>2. changed' \subseteq Nodes
    BY <1>12 DEF Loaded, Watch
  <2> QED
    BY <1>12, <2>1, <2>2 DEF Loaded
<1> QED
  BY <1>1, <1>2, <1>3, <1>4, <1>5, <1>6, <1>7, <1>8, <1>9, <1>10, <1>11, <1>12, <1>13 DEF LoadStep

LEMMA ToolTyped ==
    ASSUME SettingsTypeOK, Shape, NEW t \in LoadThreads, ToolStep(t)
    PROVE  SettingsTypeOK'
<1> USE DEF SettingsTypeOK, LoadPlaces, BeforeRead, Sealing, Joining, Told
<1>0. ThreadFits(t)
  BY DEF Shape
<1>1. CASE SetRow(t)
  <2>1. load[t].n \in TableNames \ {"origins"} /\ load[t].i \in Nat \ {0}
    <3>1. load[t].at = "row" /\ load[t] # NoLoad
      BY <1>1, NoLoadFits DEF SetRow, LoadAt
    <3>2. ~(load[t].at \in LoadPlaces)
      BY <3>1
    <3>3. load[t].op = "set"
      BY <1>0, <3>1, <3>2 DEF ThreadFits, ToolPlaces
    <3> QED
      BY <1>0, <3>1, <3>2, <3>3 DEF ThreadFits, ThreadRecord
  <2>2. NewRow(t) \in [value : Nat \ {0}, dc : {"none", "old", "new"}]
    BY <2>1 DEF NewRow, ThreadRecord, Settings
  <2>3. table' \in [TableNames \ {"origins"} -> [value : Nat \ {0}, dc : {"none", "old", "new"}]]
    BY <1>1, <2>1, <2>2 DEF SetRow
  <2> QED
    BY <1>1, <2>3, PlaceTyped DEF SetRow
<1>2. CASE RenameTable(t)
  <2>1. load[t].n \in {"center", "frontEnds", "platform"}
    <3>1. load[t].at = "rename" /\ load[t] # NoLoad
      BY <1>2, NoLoadFits DEF RenameTable, LoadAt
    <3> QED
      BY <1>0, <3>1 DEF ThreadFits
  <2>2. table' \in [TableNames \ {"origins"} -> [value : Nat \ {0}, dc : {"none", "old", "new"}]]
    BY <1>2, <2>1, TheTables DEF RenameTable
  <2>3. After(load[t].n) \in {"frontEnds", "platform", "none"} /\ {"frontEnds", "platform"} \subseteq TableNames \ {"origins"}
    BY <2>1, TheTables DEF After
  <2>4. load' \in [LoadThreads -> ThreadRecord]
    <3> DEFINE next == After(load[t].n)
               place == IF next = "none" THEN "sysconf" ELSE "rename"
    <3>1. load' = [load EXCEPT ![t].n = next, ![t].at = place]
      BY <1>2 DEF RenameTable
    <3>2. next \in {"none", "own"} \cup (TableNames \ {"origins"})
      BY <2>3
    <3> HIDE DEF next
    <3>3. place \in {"sysconf", "rename"}
      OBVIOUS
    <3> HIDE DEF place
    <3> DEFINE r == [load[t] EXCEPT !.n = next]
    <3>4. load[t] \in ThreadRecord /\ r \in ThreadRecord
      BY <3>2 DEF ThreadRecord
    <3>5. load' = [load EXCEPT ![t] = [r EXCEPT !.at = place]]
      BY <3>1, <3>4 DEF ThreadRecord
    <3> HIDE DEF r
    <3>6. [r EXCEPT !.at = place] \in ThreadRecord
      BY <3>3, <3>4 DEF ThreadRecord
    <3> QED
      BY <3>5, <3>6
  <2> QED
    BY <1>2, <2>2, <2>4 DEF RenameTable
<1>3. CASE Touch(t)
  <2>1. load' \in [LoadThreads -> ThreadRecord]
    BY <1>3, NoLoadFits DEF Touch
  <2> QED
    BY <1>3, <2>1, NotifyTyped DEF Touch
<1>4. CASE Cut(t)
  <2>1. load' \in [LoadThreads -> ThreadRecord]
    BY <1>4, NoLoadFits DEF Cut
  <2> QED
    BY <1>4, <2>1 DEF Cut
<1>5. CASE Write(t)
  <2>1. file' \in [dc : {"none", "old", "new"}, own : Nat, plain : BOOLEAN, whole : BOOLEAN]
    BY <1>5 DEF Write, WriteBegins
  <2> QED
    BY <1>5, <2>1, PlaceTyped, NotifyTyped DEF Write, WriteBegins
<1>6. CASE FileWritten(t)
  <2>1. load' \in [LoadThreads -> ThreadRecord]
    <3> DEFINE r == IF load[t].op = "rename" THEN [load[t] EXCEPT !.at = "touch"] ELSE NoLoad
    <3>1. load' = [load EXCEPT ![t] = r]
      BY <1>6 DEF FileWritten
    <3>2. r \in ThreadRecord
      BY NoLoadFits DEF ThreadRecord
    <3> HIDE DEF r
    <3> QED
      BY <3>1, <3>2
  <2>2. file' \in [dc : {"none", "old", "new"}, own : Nat, plain : BOOLEAN, whole : BOOLEAN]
    BY <1>6 DEF FileWritten, ThreadRecord, Settings
  <2> QED
    BY <1>6, <2>1, <2>2, NotifyTyped DEF FileWritten
<1> QED
  BY <1>1, <1>2, <1>3, <1>4, <1>5, <1>6 DEF ToolStep

LEMMA ProcessTyped ==
    ASSUME SettingsTypeOK, NEW p \in Nodes,
           Noticed(p) \/ Fork(p) \/ Prepare(p) \/ Listen(p) \/ ListenFails(p)
    PROVE  SettingsTypeOK'
<1> USE DEF SettingsTypeOK, Servings
<1>1. CASE Noticed(p)
  <2>1. load' \in [LoadThreads -> ThreadRecord]
    BY <1>1, WorkTyped DEF Noticed
  <2>2. listeners' \in [Nodes -> Nat]
    BY <1>1 DEF Noticed
  <2> QED
    BY <1>1, <2>1, <2>2 DEF Noticed
<1>2. CASE Fork(p)
  <2>1. load' \in [LoadThreads -> ThreadRecord]
    BY <1>2, WorkTyped DEF Fork
  <2>2. Blank \in Settings
    BY DEF Blank, InFile, Settings
  <2> QED
    BY <1>2, <2>1, <2>2 DEF Fork
<1>3. CASE Prepare(p) \/ Listen(p)
  BY <1>3 DEF Prepare, Listen, ServerGoes
<1>4. CASE ListenFails(p)
  <2>1. Dies(p)
    BY <1>4 DEF ListenFails
  <2>2. load' \in [LoadThreads -> ThreadRecord] /\ listeners' \in [Nodes -> Nat]
        /\ server' \in [Nodes -> Servings]
    BY <2>1, NoLoadFits DEF Dies
  <2> QED
    BY <1>4, <2>1, <2>2 DEF ListenFails, Dies
<1> QED
  BY <1>1, <1>2, <1>3, <1>4

\* What is asked of a tool.
NewTool(op, new) ==
    /\ new \in ThreadRecord /\ new.op = op
    /\ \/ /\ op = "update" /\ new.at = "sysconf" /\ new.i \in Nat
       \/ /\ op = "set" /\ new.at = "row" /\ new.i \in Nat \ {0} /\ new.n \in TableNames \ {"origins"}
          /\ new.set.dc = file.dc
       \/ op = "redis" /\ new.at = "sysconf"
       \/ op = "rename" /\ new.at = "rename" /\ new.n = "center"
AskedFor(op, new) ==
    /\ AskTool(op, new) /\ NewTool(op, new)
    /\ chosen' = IF op = "update" THEN new.i ELSE chosen
    /\ UNCHANGED <<file, sysconf, table, common, alive, server, listeners, changed, workersLeft>>
AskStep ==
    \/ \E v \in {1, 2} : UpdateSettings(v)
    \/ SetGlobalConfig(2) \/ SetDataCenterConfig(2) \/ SetPlatformParams(2) \/ SetNfs(2)
    \/ RestrictWebClient(2) \/ SetSubnets(2) \/ SetInviteUrl(2) \/ SetRsyslog(2) \/ SetDbRedis
    \/ RenameDataCenter

LEMMA Configured ==
    ASSUME SettingsTypeOK, NEW op \in {"set", "redis", "rename"}, NEW place \in {"row", "sysconf", "rename"},
           NEW n \in {"none"} \cup (TableNames \ {"origins"}), NEW v \in Nat, Configure(op, place, n, v)
    PROVE  \E new \in ThreadRecord :
              /\ AskTool(op, new) /\ new.op = op /\ new.at = place /\ new.n = n /\ new.i = v
              /\ new.set.dc = file.dc
              /\ UNCHANGED <<file, sysconf, table, common, alive, server, listeners, changed, workersLeft, chosen>>
<1> DEFINE new == [Work(op) EXCEPT !.at = place, !.n = n, !.i = v, !.set.dc = file.dc]
<1>1. Work(op) \in ThreadRecord /\ Work(op).op = op
  BY WorkTyped
<1>2. new \in ThreadRecord
  BY <1>1 DEF ThreadRecord, Settings, SettingsTypeOK, LoadPlaces, BeforeRead
<1>3. new.op = op /\ new.at = place /\ new.n = n /\ new.i = v /\ new.set.dc = file.dc
  BY <1>1 DEF ThreadRecord, Settings
<1>4. AskTool(op, new)
      /\ UNCHANGED <<file, sysconf, table, common, alive, server, listeners, changed, workersLeft, chosen>>
  BY DEF Configure
<1> QED
  BY <1>2, <1>3, <1>4

LEMMA Asking ==
    ASSUME SettingsTypeOK, AskStep
    PROVE  \E op \in {"update", "set", "redis", "rename"} : \E new \in ThreadRecord : AskedFor(op, new)
<1>1. ASSUME NEW v \in {1, 2}, UpdateSettings(v)
      PROVE  \E new \in ThreadRecord : AskedFor("update", new)
  <2> DEFINE new == [Work("update") EXCEPT !.set.own = v, !.n = "own", !.i = v]
  <2>1. Work("update") \in ThreadRecord /\ Work("update").op = "update" /\ Work("update").at = "sysconf"
    BY WorkTyped
  <2>2. new \in ThreadRecord /\ new.op = "update" /\ new.at = "sysconf" /\ new.i = v
    <3> DEFINE r1 == [Work("update") EXCEPT !.set.own = v]
               r2 == [r1 EXCEPT !.n = "own"]
    <3>1. r1 \in ThreadRecord /\ r1.op = "update" /\ r1.at = "sysconf"
      BY <2>1 DEF ThreadRecord, Settings
    <3> HIDE DEF r1
    <3>2. r2 \in ThreadRecord /\ r2.op = "update" /\ r2.at = "sysconf"
      BY <3>1 DEF ThreadRecord
    <3> HIDE DEF r2
    <3>3. [r2 EXCEPT !.i = v] \in ThreadRecord /\ [r2 EXCEPT !.i = v].op = "update"
          /\ [r2 EXCEPT !.i = v].at = "sysconf" /\ [r2 EXCEPT !.i = v].i = v
      BY <3>2 DEF ThreadRecord
    <3> QED
      BY <3>3 DEF r1, r2
  <2>3. AskTool("update", new) /\ chosen' = v
    BY <1>1 DEF UpdateSettings
  <2>4. UNCHANGED <<file, sysconf, table, common, alive, server, listeners, changed, workersLeft>>
    BY <1>1 DEF UpdateSettings
  <2> HIDE DEF new
  <2>5. NewTool("update", new)
    BY <2>2 DEF NewTool
  <2> QED
    BY <2>2, <2>3, <2>4, <2>5 DEF AskedFor
<1>2. ASSUME NEW n \in {"global", "center", "platform", "nfs", "subnets", "orgs"},
             Configure("set", "row", n, 2)
      PROVE  \E new \in ThreadRecord : AskedFor("set", new)
  <2>1. n \in TableNames \ {"origins"}
    BY TheTables
  <2>2. PICK new \in ThreadRecord :
              /\ AskTool("set", new) /\ new.op = "set" /\ new.at = "row" /\ new.n = n /\ new.i = 2
              /\ new.set.dc = file.dc
              /\ UNCHANGED <<file, sysconf, table, common, alive, server, listeners, changed, workersLeft, chosen>>
    BY <1>2, <2>1, Configured
  <2>3. NewTool("set", new)
    BY <2>1, <2>2 DEF NewTool
  <2> QED
    BY <2>2, <2>3 DEF AskedFor
<1>3. ASSUME SetDbRedis PROVE \E new \in ThreadRecord : AskedFor("redis", new)
  <2>2. PICK new \in ThreadRecord :
              /\ AskTool("redis", new) /\ new.op = "redis" /\ new.at = "sysconf" /\ new.n = "none" /\ new.i = 0
              /\ new.set.dc = file.dc
              /\ UNCHANGED <<file, sysconf, table, common, alive, server, listeners, changed, workersLeft, chosen>>
    BY <1>3, Configured DEF SetDbRedis
  <2>3. NewTool("redis", new)
    BY <2>2 DEF NewTool
  <2> QED
    BY <2>2, <2>3 DEF AskedFor
<1>4. ASSUME RenameDataCenter PROVE \E new \in ThreadRecord : AskedFor("rename", new)
  <2>1. "center" \in TableNames \ {"origins"}
    BY TheTables
  <2>2. PICK new \in ThreadRecord :
              /\ AskTool("rename", new) /\ new.op = "rename" /\ new.at = "rename" /\ new.n = "center" /\ new.i = 0
              /\ new.set.dc = file.dc
              /\ UNCHANGED <<file, sysconf, table, common, alive, server, listeners, changed, workersLeft, chosen>>
    BY <1>4, <2>1, Configured DEF RenameDataCenter
  <2>3. NewTool("rename", new)
    BY <2>2 DEF NewTool
  <2> QED
    BY <2>2, <2>3 DEF AskedFor
<1>5. \/ \E v \in {1, 2} : UpdateSettings(v)
      \/ \E n \in {"global", "center", "platform", "nfs", "subnets", "orgs"} : Configure("set", "row", n, 2)
      \/ SetDbRedis \/ RenameDataCenter
  BY DEF AskStep, SetGlobalConfig, SetDataCenterConfig, SetPlatformParams, SetNfs, RestrictWebClient,
     SetSubnets, SetInviteUrl, SetRsyslog
<1> QED
  BY <1>1, <1>2, <1>3, <1>4, <1>5

LEMMA AskTyped ==
    ASSUME SettingsTypeOK, NEW op, NEW new \in ThreadRecord, AskedFor(op, new)
    PROVE  SettingsTypeOK'
<1>1. PICK t \in IdleOf("tool") : load' = [load EXCEPT ![t] = new]
  BY DEF AskedFor, AskTool
<1>2. load' \in [LoadThreads -> ThreadRecord]
  BY <1>1 DEF SettingsTypeOK, IdleOf
<1> QED
  BY <1>2 DEF AskedFor, SettingsTypeOK

-----------------------------------------------------------------------------
(* threads and processes. *)

\* The records of the other threads stay.
OthersStay(t) == \A u \in LoadThreads \ {t} : load'[u] = load[u]

LEMMA PlaceGo ==
    ASSUME SettingsTypeOK, NEW t \in LoadThreads, NEW place, LoadGoes(t, place)
    PROVE  /\ OthersStay(t) /\ load'[t].at = place
           /\ load'[t].op = load[t].op /\ load'[t].i = load[t].i /\ load'[t].n = load[t].n
           /\ load'[t].set = load[t].set
BY DEF SettingsTypeOK, LoadGoes, ThreadRecord, OthersStay

LEMMA NewRecord ==
    ASSUME SettingsTypeOK, NEW t \in LoadThreads, NEW r, load' = [load EXCEPT ![t] = r]
    PROVE  OthersStay(t) /\ load'[t] = r
BY DEF SettingsTypeOK, OthersStay

LEMMA ReadGo ==
    ASSUME SettingsTypeOK, NEW t \in LoadThreads, ReadSettings(t), file.whole
    PROVE  /\ OthersStay(t) /\ load'[t].at = IF Seals THEN "seal" ELSE AfterRead(t)
           /\ load'[t].op = load[t].op /\ load'[t].i = load[t].i /\ load'[t].n = load[t].n
           /\ load'[t].set = InFile(file)
<1>1. load' = [load EXCEPT ![t].set = InFile(file), ![t].at = IF Seals THEN "seal" ELSE AfterRead(t)]
  BY DEF ReadSettings
<1> QED
  BY <1>1 DEF SettingsTypeOK, ThreadRecord, OthersStay

\* A thread that is at work is a process's load or a tool.
LEMMA Kinds ==
    ASSUME SettingsTypeOK, Shape, NEW t \in LoadThreads
    PROVE  /\ LoadIdle(t) <=> load[t] = NoLoad
           /\ ~LoadIdle(t) => \/ OwnerOf[t] \in alive /\ IsLoad(t) /\ OwnerOf[t] # "tool"
                              \/ OwnerOf[t] = "tool" /\ OwnerOf[t] \notin Nodes /\ ~IsLoad(t)
<1>1. ThreadFits(t)
  BY DEF Shape
<1>2. OwnerOf[t] \in Nodes => OwnerOf[t] # "tool"
  BY ConfigurationAssumption
<1>3. load[t] = NoLoad => LoadIdle(t)
  BY NoLoadFits DEF LoadIdle
<1>4. CASE OwnerOf[t] \in alive /\ IsLoad(t) /\ load[t].at \in LoadPlaces
  <2>1. load[t].at # "idle"
    BY <1>4 DEF LoadPlaces, BeforeRead, Sealing, Joining, Told
  <2> QED
    BY <1>2, <1>3, <1>4, <2>1 DEF LoadIdle, SettingsTypeOK
<1>5. CASE OwnerOf[t] = "tool" /\ load[t].op \in DOMAIN ToolPlaces /\ load[t].at \in ToolPlaces[load[t].op]
  <2>1. load[t].op \in {"update", "set", "redis", "rename"}
    BY <1>5 DEF ToolPlaces
  <2>2. load[t].at # "idle" /\ ~IsLoad(t)
    BY <1>5, <2>1 DEF ToolPlaces, BeforeRead, Sealing, IsLoad
  <2> QED
    BY <1>2, <1>3, <1>5, <2>2 DEF LoadIdle
<1> QED
  BY <1>1, <1>3, <1>4, <1>5 DEF ThreadFits

\* A thread goes on with what it does.
LEMMA GoesOn ==
    ASSUME SettingsTypeOK, Shape, NEW t \in LoadThreads, ~LoadIdle(t), OthersStay(t), load'[t].at # "idle",
           ThreadFits(t)', UNCHANGED <<alive, server, listeners, chosen>>,
           changed' = changed \/ Notify
    PROVE  Shape'
<1>1. \A u \in LoadThreads : LoadIdle(u)' <=> LoadIdle(u)
  BY DEF LoadIdle, OthersStay
<1>2. \A p \in Nodes : Loads(p)' = Loads(p)
  BY <1>1 DEF Loads
<1>3. \A u \in LoadThreads \ {t} : ThreadFits(u)'
  <2> SUFFICES ASSUME NEW u \in LoadThreads \ {t} PROVE ThreadFits(u)'
    OBVIOUS
  <2>1. load'[u] = load[u] /\ ThreadFits(u) /\ (IsLoad(u)' <=> IsLoad(u))
    BY DEF OthersStay, Shape, IsLoad
  <2> QED
    BY <2>1 DEF ThreadFits
<1>4. \A p \in Nodes : WatchesOrLoads(p)'
  BY <1>2 DEF Shape, WatchesOrLoads
<1>5. \A p \in Nodes : ServerFits(p)'
  BY DEF Shape, ServerFits
<1>6. \A p \in changed' : listeners'[p] = 1
  <2>1. ASSUME NEW p \in Nodes, listeners[p] > 0 PROVE listeners[p] = 1
    BY <2>1 DEF Shape, WatchesOrLoads
  <2> QED
    BY <2>1 DEF Notify, Shape, SettingsTypeOK
<1> QED
  BY <1>3, <1>4, <1>5, <1>6 DEF Shape

\* A tool ends.
LEMMA ToolEnds ==
    ASSUME SettingsTypeOK, Shape, NEW t \in LoadThreads, ~LoadIdle(t), ~IsLoad(t), OthersStay(t), load'[t] = NoLoad,
           UNCHANGED <<alive, server, listeners, chosen>>,
           changed' = changed \/ Notify
    PROVE  Shape'
<1>0. OwnerOf[t] \notin Nodes
  BY Kinds
<1>1. \A u \in LoadThreads : u # t => (LoadIdle(u)' <=> LoadIdle(u))
  BY DEF LoadIdle, OthersStay
<1>2. \A p \in Nodes : Loads(p)' = Loads(p)
  BY <1>0, <1>1 DEF Loads
<1>3. \A u \in LoadThreads : ThreadFits(u)'
  <2> SUFFICES ASSUME NEW u \in LoadThreads, u # t PROVE ThreadFits(u)'
    BY DEF ThreadFits
  <2>1. load'[u] = load[u] /\ ThreadFits(u) /\ (IsLoad(u)' <=> IsLoad(u))
    BY DEF OthersStay, Shape, IsLoad
  <2> QED
    BY <2>1 DEF ThreadFits
<1>4. \A p \in Nodes : WatchesOrLoads(p)'
  BY <1>2 DEF Shape, WatchesOrLoads
<1>5. \A p \in Nodes : ServerFits(p)'
  BY DEF Shape, ServerFits
<1>6. \A p \in changed' : listeners'[p] = 1
  <2>1. ASSUME NEW p \in Nodes, listeners[p] > 0 PROVE listeners[p] = 1
    BY <2>1 DEF Shape, WatchesOrLoads
  <2> QED
    BY <2>1 DEF Notify, Shape, SettingsTypeOK
<1> QED
  BY <1>3, <1>4, <1>5, <1>6 DEF Shape

\* A process that loads does nothing else.
LEMMA LoadsAlone ==
    ASSUME SettingsTypeOK, Shape, NEW t \in LoadThreads, ~LoadIdle(t), IsLoad(t)
    PROVE  /\ OwnerOf[t] \in alive /\ OwnerOf[t] \in Nodes
           /\ listeners[OwnerOf[t]] = 0 /\ Loads(OwnerOf[t]) = {t} /\ OwnerOf[t] \notin changed
<1>1. OwnerOf[t] \in alive /\ OwnerOf[t] \in Nodes
  BY Kinds DEF SettingsTypeOK
<1>2. t \in Loads(OwnerOf[t])
  BY DEF Loads
<1>3. listeners[OwnerOf[t]] = 0 /\ \E u \in LoadThreads : Loads(OwnerOf[t]) = {u}
  BY <1>1, <1>2 DEF Shape, WatchesOrLoads
<1> QED
  BY <1>1, <1>2, <1>3 DEF Shape

\* The load of a process ends, and it watches again; a worker goes on when its first load
\* fails, and after any that succeeds.
LEMMA LoadEnds ==
    ASSUME SettingsTypeOK, SettingsTypeOK', Shape, NEW t \in LoadThreads, ~LoadIdle(t), IsLoad(t), OthersStay(t),
           load'[t] = NoLoad,
           listeners' = [listeners EXCEPT ![OwnerOf[t]] = @ + 1],
           changed' \subseteq changed, UNCHANGED <<alive, chosen>>,
           \/ server' = server /\ (OwnerOf[t] \in Workers => server[OwnerOf[t]] # "down")
           \/ OwnerOf[t] \in Workers
              /\ \E s \in {"starting"} \cup OutOfService : server' = [server EXCEPT ![OwnerOf[t]] = s]
    PROVE  Shape'
<1> USE DEF OutOfService
<1> DEFINE p == OwnerOf[t]
<1>0. p \in alive /\ p \in Nodes /\ listeners[p] = 0 /\ Loads(p) = {t}
  BY LoadsAlone
<1>1. \A u \in LoadThreads : u # t => (LoadIdle(u)' <=> LoadIdle(u))
  BY DEF LoadIdle, OthersStay
<1>2. \A q \in Nodes \ {p} : Loads(q)' = Loads(q) /\ listeners'[q] = listeners[q]
  BY <1>1 DEF Loads, SettingsTypeOK
<1>3. Loads(p)' = {} /\ listeners'[p] = 1
  <2>1. LoadIdle(t)'
    BY NoLoadFits DEF LoadIdle
  <2> QED
    BY <1>0, <1>1, <2>1 DEF Loads, SettingsTypeOK
<1>4. \A q \in Nodes : (server[q] # "down" => server'[q] # "down") /\ (q # p => server'[q] = server[q])
  <2>1. CASE server' = server
    BY <2>1
  <2>2. CASE server' # server
    <3>1. PICK s \in {"starting"} \cup OutOfService : server' = [server EXCEPT ![p] = s]
      BY <2>2
    <3>2. s # "down"
      OBVIOUS
    <3>3. \A q \in Nodes : server'[q] = IF q = p THEN s ELSE server[q]
      BY <1>0, <3>1 DEF SettingsTypeOK
    <3> QED
      BY <3>2, <3>3
  <2> QED
    BY <2>1, <2>2
<1>5. \A u \in LoadThreads : ThreadFits(u)'
  <2> SUFFICES ASSUME NEW u \in LoadThreads, u # t PROVE ThreadFits(u)'
    BY DEF ThreadFits
  <2>1. load'[u] = load[u] /\ ThreadFits(u) /\ (IsLoad(u)' <=> IsLoad(u))
    BY DEF OthersStay, Shape, IsLoad
  <2>2. OwnerOf[u] \in alive => OwnerOf[u] \in Nodes
    BY DEF SettingsTypeOK
  <2> QED
    BY <2>1, <2>2, <1>4 DEF ThreadFits
<1>6. \A q \in Nodes : WatchesOrLoads(q)'
  <2> SUFFICES ASSUME NEW q \in Nodes PROVE WatchesOrLoads(q)'
    OBVIOUS
  <2>1. CASE q = p
    BY <1>0, <1>3, <2>1 DEF WatchesOrLoads
  <2>2. CASE q # p
    BY <1>2, <1>4, <2>2 DEF Shape, WatchesOrLoads
  <2> QED
    BY <2>1, <2>2
<1>7. \A q \in Nodes : ServerFits(q)'
  <2> SUFFICES ASSUME NEW q \in Nodes PROVE ServerFits(q)'
    OBVIOUS
  <2>1. CASE q = p
    BY <1>0, <2>1 DEF Shape, ServerFits, SettingsTypeOK
  <2>2. CASE q # p
    BY <1>2, <1>4, <2>2 DEF Shape, ServerFits
  <2> QED
    BY <2>1, <2>2
<1>8. \A q \in changed' : listeners'[q] = 1
  BY <1>0, <1>2, <1>3 DEF Shape, SettingsTypeOK
<1> QED
  BY <1>5, <1>6, <1>7, <1>8 DEF Shape

\* A worker dies, or all do.
LEMMA DiesShape ==
    ASSUME SettingsTypeOK, SettingsTypeOK', Shape, NEW p \in Workers, p \in alive, Dies(p), UNCHANGED chosen
    PROVE  Shape' /\ p \notin alive' /\ alive' \subseteq alive
<1>1. alive' \subseteq alive /\ p \notin alive' /\ p \in Nodes
  BY DEF Dies, SettingsTypeOK
<1>2. \A q \in Nodes : listeners'[q] = (IF q \in alive' THEN listeners[q] ELSE 0)
                       /\ server'[q] = (IF q \in alive' THEN server[q] ELSE "down")
  BY DEF Dies
<1>3. changed' = changed \cap alive'
  BY DEF Dies
<1>4. \A u \in LoadThreads : load'[u] = IF OwnerOf[u] \in {p} \cup (alive \ alive') THEN NoLoad ELSE load[u]
  BY DEF Dies
<1>5. \A u \in LoadThreads : ThreadFits(u)'
  <2> SUFFICES ASSUME NEW u \in LoadThreads PROVE ThreadFits(u)'
    OBVIOUS
  <2>1. CASE OwnerOf[u] \in {p} \cup (alive \ alive')
    BY <2>1, <1>4 DEF ThreadFits
  <2>2. CASE OwnerOf[u] \notin {p} \cup (alive \ alive')
    <3>1. load'[u] = load[u] /\ ThreadFits(u) /\ (IsLoad(u)' <=> IsLoad(u))
      BY <2>2, <1>4 DEF Shape, IsLoad
    <3>2. OwnerOf[u] \in alive => OwnerOf[u] \in alive' /\ OwnerOf[u] \in Nodes
      BY <2>2 DEF SettingsTypeOK
    <3> QED
      BY <3>1, <3>2, <1>2 DEF ThreadFits
  <2> QED
    BY <2>1, <2>2
<1>6. \A q \in alive' : Loads(q)' = Loads(q)
  BY <1>1, <1>4 DEF Loads, LoadIdle
<1>7. \A q \in Nodes \ alive' : Loads(q)' = {}
  <2> SUFFICES ASSUME NEW q \in Nodes \ alive', NEW u \in LoadThreads, OwnerOf[u] = q PROVE LoadIdle(u)'
    BY DEF Loads
  <2>1. CASE q \in {p} \cup (alive \ alive')
    BY <2>1, <1>4, NoLoadFits DEF LoadIdle
  <2>2. CASE q \notin alive /\ q # p
    <3>1. Loads(q) = {}
      BY <2>2 DEF Shape, WatchesOrLoads
    <3>2. load'[u] = load[u]
      BY <2>2, <1>4
    <3> QED
      BY <3>1, <3>2 DEF Loads, LoadIdle
  <2> QED
    BY <2>1, <2>2
<1>8. \A q \in Nodes : WatchesOrLoads(q)'
  BY <1>1, <1>2, <1>6, <1>7 DEF Shape, WatchesOrLoads
<1>9. \A q \in Nodes : ServerFits(q)'
  BY <1>1, <1>2 DEF Shape, ServerFits
<1>10. \A q \in changed' : listeners'[q] = 1
  BY <1>2, <1>3 DEF Shape, SettingsTypeOK
<1> QED
  BY <1>1, <1>5, <1>8, <1>9, <1>10 DEF Shape

\* Loads that make their worker quit when they fail.
Quits(t) == load[t].op = "load" /\ OwnerOf[t] \in Workers /\ server[OwnerOf[t]] \notin OutOfService

LEMMA FailsShape ==
    ASSUME SettingsTypeOK, SettingsTypeOK', Shape, NEW t \in LoadThreads, ~LoadIdle(t), Fails(t)
    PROVE  Shape'
<1>1. CASE Quits(t)
  <2>1. OwnerOf[t] \in alive
    BY <1>1, Kinds DEF Quits, IsLoad
  <2> QED
    BY <1>1, <2>1, DiesShape DEF Fails, Quits
<1>2. CASE IsLoad(t) /\ ~Quits(t)
  <2>0. GivesUp(t) /\ UNCHANGED chosen
    BY <1>2 DEF Fails, Quits
  <2>1. load' = [load EXCEPT ![t] = NoLoad]
    BY <1>2, <2>0 DEF GivesUp, IsLoad
  <2>2. OthersStay(t) /\ load'[t] = NoLoad
    BY <2>1, NewRecord
  <2>3. ThreadFits(t) /\ OwnerOf[t] # "tool" /\ load[t] # NoLoad
    BY <1>2, Kinds DEF Shape
  <2>4. /\ listeners' = [listeners EXCEPT ![OwnerOf[t]] = @ + 1]
        /\ changed' = changed /\ UNCHANGED <<alive, chosen>>
    BY <1>2, <2>0 DEF GivesUp
  <2>5. CASE load[t].op = "load"
    <3>1. server' = server /\ (OwnerOf[t] \in Workers => server[OwnerOf[t]] # "down")
      BY <1>2, <2>0, <2>3, <2>5 DEF GivesUp, ThreadFits
    <3> QED
      BY <1>2, <2>2, <2>4, <3>1, LoadEnds
  <2>6. CASE load[t].op = "start"
    <3>1. OwnerOf[t] \in Workers
      BY <1>2, <2>3, <2>6 DEF ThreadFits
    <3>2. \E s \in OutOfService : server' = [server EXCEPT ![OwnerOf[t]] = s]
      BY <1>2, <2>0, <2>6 DEF GivesUp, OutOfService
    <3> QED
      BY <1>2, <2>2, <2>4, <3>1, <3>2, LoadEnds
  <2> QED
    BY <1>2, <2>5, <2>6 DEF IsLoad
<1>3. CASE ~IsLoad(t) /\ load[t].op \in {"set", "redis"}
  <2>1. load' = [load EXCEPT ![t] = [@ EXCEPT !.at = "touch"]]
    BY <1>3 DEF Fails, GivesUp, IsLoad
  <2>2. LoadGoes(t, "touch")
    BY <2>1 DEF LoadGoes
  <2>3. ThreadFits(t)'
    <3>1. ThreadFits(t) /\ load[t] # NoLoad /\ ~IsLoad(t)
      BY <1>3, Kinds DEF Shape
    <3> QED
      BY <3>1, <1>3, <2>2, PlaceGo DEF ThreadFits, ToolPlaces, Fails, GivesUp, IsLoad
  <2> QED
    BY <1>3, <2>2, <2>3, PlaceGo, GoesOn DEF Fails, GivesUp, IsLoad
<1>4. CASE ~IsLoad(t) /\ load[t].op \notin {"set", "redis"}
  <2>1. load' = [load EXCEPT ![t] = NoLoad]
    BY <1>4 DEF Fails, GivesUp, IsLoad
  <2>2. OthersStay(t) /\ load'[t] = NoLoad
    BY <2>1, NewRecord
  <2> QED
    BY <1>4, <2>2, ToolEnds DEF Fails, GivesUp, IsLoad
<1> QED
  BY <1>1, <1>2, <1>3, <1>4

\* The place a thread goes to is one of its places.
LEMMA GoesTo ==
    ASSUME SettingsTypeOK, Shape, NEW t \in LoadThreads, ~LoadIdle(t), OthersStay(t),
           load'[t].op = load[t].op, load'[t].i = load[t].i, load'[t].n = load[t].n,
           UNCHANGED <<alive, server, listeners, chosen>>, changed' = changed \/ Notify,
           IsLoad(t) => /\ load'[t].at \in LoadPlaces
                        /\ load'[t].at \in Told \/ (load[t].i = 1 /\ load'[t].at # "common"),
           ~IsLoad(t) => load'[t].at \in ToolPlaces[load[t].op] \ {"rename"}
    PROVE  Shape'
<1>1. ThreadFits(t) /\ load[t] # NoLoad
  BY Kinds DEF Shape
<1>2. CASE IsLoad(t)
  <2>1. OwnerOf[t] \in alive /\ load[t].at \in LoadPlaces /\ OwnerOf[t] # "tool"
    BY <1>1, <1>2, Kinds DEF ThreadFits
  <2>2. load'[t].at # "idle" /\ load'[t].at \in LoadPlaces
    BY <1>2 DEF LoadPlaces, BeforeRead, Sealing, Joining, Told
  <2>3. load[t].op = "start" => OwnerOf[t] \in Workers
    BY <1>1, <2>1 DEF ThreadFits
  <2>4. load[t].op = "load" /\ OwnerOf[t] \in Workers => server[OwnerOf[t]] # "down"
    BY <1>1, <2>1 DEF ThreadFits
  <2>5. load'[t].at \in BeforeRead \cup Sealing \cup {"connect"} => load'[t].i = 1
    BY <1>2 DEF Told, BeforeRead, Sealing
  <2>6. load'[t].at = "join" => load'[t].i \in 1 .. Len(Tables)
    BY <1>2, TheTables DEF Told
  <2>7. load'[t].at # "common"
    BY <1>2 DEF Told
  <2>8. ThreadFits(t)'
    BY <1>2, <2>1, <2>2, <2>3, <2>4, <2>5, <2>6, <2>7 DEF ThreadFits, IsLoad
  <2> QED
    BY <2>2, <2>8, GoesOn
<1>3. CASE ~IsLoad(t)
  <2>1. /\ OwnerOf[t] = "tool" /\ load[t].op \in DOMAIN ToolPlaces
        /\ load[t].op = "update" => load[t].i = chosen
        /\ load[t].op = "set" => load[t].i > 0 /\ load[t].n \in TableNames \ {"origins"}
    BY <1>1, <1>3 DEF ThreadFits
  <2>2. load'[t].at # "idle"
    BY <1>3, <2>1 DEF ToolPlaces, BeforeRead, Sealing
  <2>3. ThreadFits(t)'
    BY <1>3, <2>1 DEF ThreadFits
  <2> QED
    BY <2>2, <2>3, GoesOn
<1> QED
  BY <1>2, <1>3

\* Where a thread is, and what it does then.
LEMMA LoadPlace ==
    ASSUME SettingsTypeOK, Shape, NEW t \in LoadThreads, ~LoadIdle(t)
    PROVE  /\ IsLoad(t) => load[t].at \in LoadPlaces
           /\ IsLoad(t) /\ load[t].at \in BeforeRead \cup Sealing \cup {"connect"} => load[t].i = 1
           /\ load[t].at \in Joining \cup Told => IsLoad(t)
           /\ load[t].at = "join" => load[t].i \in 1 .. 8
           /\ load[t].at = "common" => load[t].i = 9
           /\ ~IsLoad(t) => load[t].op \in {"update", "set", "redis", "rename"}
                            /\ load[t].at \in ToolPlaces[load[t].op]
<1>1. ThreadFits(t) /\ load[t] # NoLoad
  BY Kinds DEF Shape
<1>2. CASE IsLoad(t)
  <2>1. OwnerOf[t] # "tool"
    BY <1>2, Kinds
  <2> QED
    BY <1>1, <1>2, <2>1, TheTables DEF ThreadFits
<1>3. CASE ~IsLoad(t)
  <2>1. load[t].op \in DOMAIN ToolPlaces /\ load[t].at \in ToolPlaces[load[t].op]
    BY <1>1, <1>3 DEF ThreadFits
  <2>2. load[t].op \in {"update", "set", "redis", "rename"}
    BY <2>1 DEF ToolPlaces
  <2>3. load[t].at \notin Joining \cup Told
    BY <2>1, <2>2 DEF ToolPlaces, BeforeRead, Sealing, Joining, Told
  <2>4. load[t].at \notin {"join", "common"}
    BY <2>3 DEF Joining
  <2> QED
    BY <1>3, <2>1, <2>2, <2>3, <2>4
<1> QED
  BY <1>2, <1>3

LEMMA AfterReadPlace ==
    ASSUME SettingsTypeOK, Shape, NEW t \in LoadThreads, load[t].at \in {"read", "seal", "sealing"}
    PROVE  /\ IsLoad(t) => AfterRead(t) \in {"connect", "join"}
           /\ ~IsLoad(t) => AfterRead(t) \in ToolPlaces[load[t].op] \ {"rename"}
           /\ ~IsLoad(t) => AfterRead(t) = IF load[t].op = "set" THEN "touch" ELSE "write"
           /\ ~IsLoad(t) => load[t].op \in {"update", "set", "rename"}
<1>1. ~LoadIdle(t)
  BY DEF LoadIdle
<1>2. CASE IsLoad(t)
  BY <1>2 DEF AfterRead, IsLoad
<1>3. CASE ~IsLoad(t)
  <2>1. load[t].op \in {"update", "set", "rename"}
    BY <1>1, <1>3, LoadPlace DEF ToolPlaces
  <2> QED
    BY <1>3, <2>1 DEF AfterRead, ToolPlaces
<1> QED
  BY <1>2, <1>3

\* A load goes to the next table.
JoinsTable(t, vals) ==
    /\ ~LoadIdle(t) /\ IsLoad(t) /\ load[t].at = "join" /\ load[t].i \in 1 .. 8 /\ OthersStay(t)
    /\ load'[t].at = (IF load[t].i = 8 THEN "common" ELSE "join")
    /\ load'[t].i = load[t].i + 1 /\ load'[t].op = load[t].op
    /\ load'[t].set.dc = load[t].set.dc /\ load'[t].set.own = load[t].set.own
    /\ load'[t].set.val = vals
JoinGoes(t) ==
    /\ JoinsTable(t, Joins(t, Tables[load[t].i]))
    /\ UNCHANGED <<file, sysconf, table, common, alive, server, listeners, changed, workersLeft, chosen, stale>>

LEMMA JoinEffect ==
    ASSUME SettingsTypeOK, Shape, NEW t \in LoadThreads, Join(t)
    PROVE  Fails(t) \/ JoinGoes(t)
<1> DEFINE n == Tables[load[t].i]
           set == load[t].set
           place == IF load[t].i = 8 THEN "common" ELSE "join"
<1>1. CASE n = "nfs" /\ set.val["nfs"] = 0 /\ set.val["center"] = 0
  BY <1>1 DEF Join
<1>2. CASE ~(n = "nfs" /\ set.val["nfs"] = 0 /\ set.val["center"] = 0)
  <2>1. load[t].at = "join" /\ ~LoadIdle(t)
    BY DEF Join, LoadAt, LoadIdle
  <2>2. IsLoad(t) /\ load[t].i \in 1 .. 8
    BY <2>1, LoadPlace DEF Joining
  <2>3. GetsValues(t, Joins(t, n), place)
        /\ UNCHANGED <<file, sysconf, table, common, alive, server, listeners, changed, workersLeft, chosen, stale>>
    BY <1>2, TheTables DEF Join, GetsValues, Joins
  <2>4. Joins(t, n) \in [TableNames -> Nat] /\ place \in LoadPlaces
    BY ValuesTyped DEF LoadPlaces, Joining
  <2>5. /\ load'[t].at = place /\ load'[t].i = load[t].i + 1 /\ load'[t].op = load[t].op
        /\ load'[t].set.val = Joins(t, n) /\ load'[t].set.dc = load[t].set.dc
        /\ load'[t].set.own = load[t].set.own
        /\ \A u \in LoadThreads \ {t} : load'[u] = load[u]
    BY <2>3, <2>4, ValuesGo
  <2> QED
    BY <2>1, <2>2, <2>3, <2>5 DEF JoinGoes, JoinsTable, OthersStay
<1> QED
  BY <1>1, <1>2

LEMMA UnreadEffect ==
    ASSUME SettingsTypeOK, Shape, NEW t \in LoadThreads, PlatformUnread(t)
    PROVE  /\ \E vals : JoinsTable(t, vals)
           /\ UNCHANGED <<file, sysconf, table, common, alive, server, listeners, changed, workersLeft, chosen>>
           /\ stale' = stale \cup {OwnerOf[t]} /\ OwnerOf[t] \in Nodes
<1>1. load[t].at = "join" /\ Tables[load[t].i] = "platform"
  BY DEF PlatformUnread, LoadAt
<1>2. ~LoadIdle(t)
  BY <1>1 DEF LoadIdle
<1>3. IsLoad(t) /\ load[t].i \in 1 .. 8
  BY <1>1, <1>2, LoadPlace DEF Joining
<1>4. load[t].i = 4
  BY <1>1, <1>3, TheTables
<1>5. load' = [load EXCEPT ![t] = [load[t] EXCEPT !.i = @ + 1]] /\ load[t] \in ThreadRecord
  BY DEF PlatformUnread, SettingsTypeOK
<1>6. OthersStay(t) /\ load'[t] = [load[t] EXCEPT !.i = @ + 1]
  BY <1>5, NewRecord
<1>7. JoinsTable(t, load[t].set.val)
  BY <1>1, <1>2, <1>3, <1>4, <1>5, <1>6 DEF JoinsTable, ThreadRecord
<1>8. OwnerOf[t] \in Nodes
  BY <1>2, <1>3, LoadsAlone
<1> QED
  BY <1>7, <1>8 DEF PlatformUnread

\* A worker without a database gives up when it joins.
LEMMA ThrowEffect ==
    ASSUME SettingsTypeOK, Shape, NEW t \in LoadThreads, JoinThrows(t)
    PROVE  /\ ~LoadIdle(t) /\ IsLoad(t) /\ load[t].at = "join" /\ OthersStay(t) /\ load'[t] = NoLoad
           /\ OwnerOf[t] \in Nodes /\ server[OwnerOf[t]] = "broken"
           /\ stale' = stale \cup {OwnerOf[t]}
           /\ UNCHANGED <<file, sysconf, table, common, alive, server, listeners, changed, workersLeft, chosen>>
<1>1. load[t].at = "join" /\ ~LoadIdle(t)
  BY DEF JoinThrows, LoadAt, LoadIdle
<1>2. IsLoad(t)
  BY <1>1, LoadPlace DEF Joining
<1>3. OwnerOf[t] \in Nodes
  BY <1>1, <1>2, LoadsAlone
<1> QED
  BY <1>1, <1>2, <1>3, NewRecord DEF JoinThrows

LEMMA LoadShape ==
    ASSUME SettingsTypeOK, SettingsTypeOK', Shape, NEW t \in LoadThreads, LoadStep(t)
    PROVE  Shape'
<1>1. CASE LoadSysConf(t)
  <2>0. ~LoadIdle(t) /\ load[t].at = "sysconf"
    BY <1>1 DEF LoadSysConf, LoadAt, LoadIdle
  <2>1. CASE sysconf
    <3>1. LoadGoes(t, "saving") /\ UNCHANGED <<alive, server, listeners, chosen, changed>>
      BY <1>1, <2>1 DEF LoadSysConf
    <3>2. IsLoad(t) => load[t].i = 1
      BY <2>0, LoadPlace DEF BeforeRead
    <3>3. "saving" \in LoadPlaces
      BY DEF LoadPlaces, BeforeRead
    <3>4. ~IsLoad(t) => "saving" \in ToolPlaces[load[t].op] \ {"rename"}
      BY <2>0, LoadPlace DEF ToolPlaces, BeforeRead
    <3> QED
      BY <2>0, <3>1, <3>2, <3>3, <3>4, PlaceGo, GoesTo
  <2>2. CASE ~sysconf
    BY <1>1, <2>0, <2>2, FailsShape DEF LoadSysConf
  <2> QED
    BY <2>1, <2>2
<1>2. CASE SaveSysConf(t)
  <2>0. ~LoadIdle(t) /\ load[t].at = "saving"
    BY <1>2 DEF SaveSysConf, LoadAt, LoadIdle
  <2> DEFINE place == IF load[t].op = "redis" THEN "touch" ELSE "read"
  <2>1. LoadGoes(t, place) /\ UNCHANGED <<alive, server, listeners, chosen, changed>>
    BY <1>2 DEF SaveSysConf
  <2>2. IsLoad(t) => load[t].i = 1 /\ place = "read"
    BY <2>0, LoadPlace DEF BeforeRead, IsLoad
  <2>3. "read" \in LoadPlaces
    BY DEF LoadPlaces, BeforeRead
  <2>4. ~IsLoad(t) => place \in ToolPlaces[load[t].op] \ {"rename"}
    BY <2>0, LoadPlace DEF ToolPlaces, BeforeRead
  <2> HIDE DEF place
  <2> QED
    BY <2>0, <2>1, <2>2, <2>3, <2>4, PlaceGo, GoesTo
<1>3. CASE ReadSettings(t)
  <2>0. ~LoadIdle(t) /\ load[t].at = "read"
    BY <1>3 DEF ReadSettings, LoadAt, LoadIdle
  <2>1. CASE file.whole
    <3> DEFINE place == IF Seals THEN "seal" ELSE AfterRead(t)
    <3>1. UNCHANGED <<alive, server, listeners, chosen, changed>>
      BY <1>3, <2>1 DEF ReadSettings
    <3>2. IsLoad(t) => load[t].i = 1 /\ place \in LoadPlaces /\ place # "common"
      BY <2>0, LoadPlace, AfterReadPlace DEF BeforeRead, LoadPlaces, Sealing, Joining
    <3>3. ~IsLoad(t) => place \in ToolPlaces[load[t].op] \ {"rename"}
      BY <2>0, AfterReadPlace DEF ToolPlaces, Sealing
    <3>4. OthersStay(t) /\ load'[t].at = place /\ load'[t].op = load[t].op /\ load'[t].i = load[t].i
          /\ load'[t].n = load[t].n
      BY <1>3, <2>1, ReadGo
    <3> HIDE DEF place
    <3> QED
      BY <2>0, <3>1, <3>2, <3>3, <3>4, GoesTo
  <2>2. CASE ~file.whole
    BY <1>3, <2>0, <2>2, FailsShape DEF ReadSettings
  <2> QED
    BY <2>1, <2>2
<1>4. CASE Seal(t)
  <2>0. ~LoadIdle(t) /\ load[t].at = "seal"
    BY <1>4 DEF Seal, LoadAt, LoadIdle
  <2>1. LoadGoes(t, "sealing") /\ Notify /\ UNCHANGED <<alive, server, listeners, chosen>>
    BY <1>4 DEF Seal, WriteBegins
  <2>2. IsLoad(t) => load[t].i = 1
    BY <2>0, LoadPlace DEF Sealing
  <2>3. "sealing" \in LoadPlaces
    BY DEF LoadPlaces, Sealing
  <2>4. ~IsLoad(t) => "sealing" \in ToolPlaces[load[t].op] \ {"rename"}
    BY <2>0, AfterReadPlace DEF ToolPlaces, Sealing
  <2> QED
    BY <2>0, <2>1, <2>2, <2>3, <2>4, PlaceGo, GoesTo
<1>5. CASE Sealed(t)
  <2>0. ~LoadIdle(t) /\ load[t].at = "sealing"
    BY <1>5 DEF Sealed, LoadAt, LoadIdle
  <2>1. LoadGoes(t, AfterRead(t)) /\ Notify /\ UNCHANGED <<alive, server, listeners, chosen>>
    BY <1>5 DEF Sealed
  <2>2. IsLoad(t) => load[t].i = 1
    BY <2>0, LoadPlace DEF Sealing
  <2>3. IsLoad(t) => AfterRead(t) \in LoadPlaces /\ AfterRead(t) # "common"
    BY <2>0, AfterReadPlace DEF LoadPlaces, Joining
  <2>4. ~IsLoad(t) => AfterRead(t) \in ToolPlaces[load[t].op] \ {"rename"}
    BY <2>0, AfterReadPlace
  <2> QED
    BY <2>0, <2>1, <2>2, <2>3, <2>4, PlaceGo, GoesTo
<1>6. CASE Connect(t)
  <2>0. ~LoadIdle(t) /\ load[t].at = "connect"
    BY <1>6 DEF Connect, LoadAt, LoadIdle
  <2>1. LoadGoes(t, "join") /\ UNCHANGED <<alive, server, listeners, chosen, changed>>
    BY <1>6 DEF Connect
  <2>2. IsLoad(t) /\ load[t].i = 1
    BY <2>0, LoadPlace DEF Joining
  <2>3. "join" \in LoadPlaces
    BY DEF LoadPlaces, Joining
  <2> QED
    BY <2>0, <2>1, <2>2, <2>3, PlaceGo, GoesTo
<1>7. ASSUME NEW vals, JoinsTable(t, vals), UNCHANGED <<alive, server, listeners, chosen, changed>>
      PROVE  Shape'
  <2>0. ~LoadIdle(t) /\ IsLoad(t) /\ load[t].i \in 1 .. 8
    BY <1>7 DEF JoinsTable
  <2>1. load'[t].at \in {"join", "common"} /\ load'[t].op = load[t].op /\ load'[t].i = load[t].i + 1 /\ OthersStay(t)
        /\ (load'[t].at = "join" => load[t].i # 8) /\ (load'[t].at = "common" => load[t].i = 8)
    BY <1>7 DEF JoinsTable
  <2>2. load'[t].at \in LoadPlaces /\ load'[t].at # "idle" /\ load'[t].at \notin BeforeRead \cup Sealing \cup {"connect"}
    BY <2>1 DEF LoadPlaces, Joining, BeforeRead, Sealing
  <2>3. load'[t].at = "join" => load'[t].i \in 1 .. 8
    BY <2>0, <2>1
  <2>4. load'[t].at = "common" => load'[t].i = 8 + 1
    BY <2>0, <2>1
  <2>5. OwnerOf[t] \in alive /\ ThreadFits(t) /\ OwnerOf[t] # "tool" /\ load[t] # NoLoad
    BY <2>0, Kinds DEF Shape
  <2>6. ThreadFits(t)'
    BY <1>7, <2>0, <2>1, <2>2, <2>3, <2>4, <2>5, TheTables DEF ThreadFits, IsLoad
  <2> QED
    BY <1>7, <2>0, <2>1, <2>2, <2>6, GoesOn
<1>8. CASE Join(t)
  <2>1. ~LoadIdle(t)
    BY <1>8 DEF Join, LoadAt, LoadIdle
  <2>2. CASE JoinGoes(t)
    BY <1>7, <2>2 DEF JoinGoes
  <2>3. CASE Fails(t)
    BY <2>1, <2>3, FailsShape
  <2> QED
    BY <1>8, <2>2, <2>3, JoinEffect
<1>9. CASE PlatformUnread(t)
  <2> HIDE DEF JoinsTable
  <2> QED
    BY <1>7, <1>9, UnreadEffect
<1>12. CASE LoadFails(t)
  BY <1>12, FailsShape DEF LoadFails, LoadAt, LoadIdle
<1>13. CASE JoinThrows(t)
  <2> DEFINE p == OwnerOf[t]
  <2>0. /\ ~LoadIdle(t) /\ IsLoad(t) /\ OthersStay(t) /\ load'[t] = NoLoad /\ p \in Nodes
        /\ server[p] = "broken" /\ UNCHANGED <<alive, server, listeners, changed, chosen>>
    BY <1>13, ThrowEffect
  <2>1. p \in alive /\ listeners[p] = 0 /\ Loads(p) = {t}
    BY <2>0, LoadsAlone
  <2>2. \A q \in Nodes \ {p} : Loads(q)' = Loads(q)
    BY <2>0 DEF Loads, LoadIdle, OthersStay
  <2>3. Loads(p)' = {}
    BY <2>0, <2>1, NoLoadFits DEF Loads, LoadIdle, OthersStay
  <2>4. \A u \in LoadThreads : ThreadFits(u)'
    <3> SUFFICES ASSUME NEW u \in LoadThreads, u # t PROVE ThreadFits(u)'
      BY <2>0 DEF ThreadFits
    <3>1. load'[u] = load[u] /\ ThreadFits(u) /\ (IsLoad(u)' <=> IsLoad(u))
      BY <2>0 DEF OthersStay, Shape, IsLoad
    <3> QED
      BY <3>1, <2>0 DEF ThreadFits
  <2>5. \A q \in Nodes : WatchesOrLoads(q)'
    BY <2>0, <2>1, <2>2, <2>3 DEF Shape, WatchesOrLoads
  <2>6. \A q \in Nodes : ServerFits(q)'
    BY <2>0 DEF Shape, ServerFits
  <2> QED
    BY <2>0, <2>4, <2>5, <2>6 DEF Shape
<1>10. CASE SetCommon(t) \/ LoadOrgs(t)
  <2> DEFINE place == IF load[t].at = "common" THEN "orgs" ELSE "watch"
  <2>0. ~LoadIdle(t) /\ load[t].at \in {"common", "orgs"}
    BY <1>10 DEF SetCommon, LoadOrgs, LoadAt, LoadIdle
  <2>1. LoadGoes(t, place) /\ UNCHANGED <<alive, server, listeners, chosen, changed>>
    <3>1. CASE SetCommon(t)
      BY <3>1 DEF SetCommon, LoadAt
    <3>2. CASE LoadOrgs(t)
      BY <3>2 DEF LoadOrgs, LoadAt
    <3> QED
      BY <1>10, <3>1, <3>2
  <2>2. IsLoad(t) /\ place \in Told
    BY <2>0, LoadPlace DEF Joining, Told
  <2>3. place \in LoadPlaces
    BY <2>2 DEF LoadPlaces
  <2> HIDE DEF place
  <2> QED
    <3>1. load'[t].at = place /\ OthersStay(t) /\ load'[t].op = load[t].op /\ load'[t].i = load[t].i
          /\ load'[t].n = load[t].n
      BY <2>1, PlaceGo
    <3> QED
      BY <2>0, <2>1, <2>2, <2>3, <3>1, GoesTo
<1>11. CASE Loaded(t)
  <2>0. ~LoadIdle(t) /\ load[t].at = "watch"
    BY <1>11 DEF Loaded, LoadAt, LoadIdle
  <2>1. IsLoad(t)
    BY <2>0, LoadPlace DEF Told
  <2>2. /\ listeners' = [listeners EXCEPT ![OwnerOf[t]] = @ + 1]
        /\ changed' \subseteq changed /\ UNCHANGED <<alive, chosen>>
        /\ load' = [load EXCEPT ![t] = NoLoad]
    BY <1>11 DEF Loaded, Watch
  <2>3. OthersStay(t) /\ load'[t] = NoLoad
    BY <2>2, NewRecord
  <2>4. ThreadFits(t) /\ OwnerOf[t] # "tool" /\ load[t] # NoLoad
    BY <2>0, <2>1, Kinds DEF Shape
  <2>5. CASE load[t].op = "start"
    <3>1. OwnerOf[t] \in Workers /\ server' = [server EXCEPT ![OwnerOf[t]] = "starting"]
      BY <1>11, <2>4, <2>5 DEF Loaded, ThreadFits
    <3> QED
      BY <2>0, <2>1, <2>2, <2>3, <3>1, LoadEnds
  <2>6. CASE load[t].op = "load"
    <3>1. server' = server /\ (OwnerOf[t] \in Workers => server[OwnerOf[t]] # "down")
      BY <1>11, <2>4, <2>6 DEF Loaded, ThreadFits
    <3> QED
      BY <2>0, <2>1, <2>2, <2>3, <3>1, LoadEnds
  <2> QED
    BY <2>1, <2>5, <2>6 DEF IsLoad
<1> QED
  BY <1>1, <1>2, <1>3, <1>4, <1>5, <1>6, <1>7, <1>8, <1>9, <1>10, <1>11, <1>12, <1>13 DEF LoadStep

\* What tools do to the threads.
LEMMA ToolPlace ==
    ASSUME SettingsTypeOK, Shape, NEW t \in LoadThreads,
           load[t].at \in {"row", "rename", "write", "writing", "touch"}
    PROVE  /\ ~LoadIdle(t) /\ ~IsLoad(t) /\ OwnerOf[t] = "tool" /\ OwnerOf[t] \notin Nodes
           /\ load[t].at = "row" => load[t].op = "set" /\ load[t].n \in TableNames \ {"origins"}
                                    /\ load[t].i > 0
           /\ load[t].at \in {"write", "writing"} => load[t].op \in {"update", "rename"}
           /\ load[t].at = "touch" => load[t].op \in {"set", "redis", "rename"}
           /\ load[t].at = "rename" => load[t].op = "rename" /\ load[t].n \in {"center", "frontEnds", "platform"}
           /\ load[t].op = "update" => load[t].i = chosen
<1>1. ~LoadIdle(t)
  BY DEF LoadIdle
<1>2. ~IsLoad(t)
  BY <1>1, LoadPlace DEF LoadPlaces, BeforeRead, Sealing, Joining, Told
<1>3. OwnerOf[t] = "tool" /\ OwnerOf[t] \notin Nodes /\ ThreadFits(t) /\ load[t] # NoLoad
  BY <1>1, <1>2, Kinds DEF Shape
<1>4. load[t].op \in {"update", "set", "redis", "rename"} /\ load[t].at \in ToolPlaces[load[t].op]
  BY <1>1, <1>2, LoadPlace
<1>5. /\ load[t].at = "row" => load[t].op = "set"
      /\ load[t].at \in {"write", "writing"} => load[t].op \in {"update", "rename"}
      /\ load[t].at = "touch" => load[t].op \in {"set", "redis", "rename"}
      /\ load[t].at = "rename" => load[t].op = "rename"
  BY <1>4 DEF ToolPlaces, BeforeRead, Sealing
<1> QED
  BY <1>1, <1>2, <1>3, <1>5 DEF ThreadFits

LEMMA RenameGo ==
    ASSUME SettingsTypeOK, NEW t \in LoadThreads, RenameTable(t)
    PROVE  /\ OthersStay(t) /\ load'[t].op = load[t].op /\ load'[t].i = load[t].i /\ load'[t].n = After(load[t].n)
           /\ load'[t].set = load[t].set
           /\ load'[t].at = IF After(load[t].n) = "none" THEN "sysconf" ELSE "rename"
<1> DEFINE next == After(load[t].n)
           place == IF After(load[t].n) = "none" THEN "sysconf" ELSE "rename"
<1>1. load' = [load EXCEPT ![t].n = next, ![t].at = place]
  BY DEF RenameTable
<1> HIDE DEF next, place
<1>2. /\ OthersStay(t) /\ load'[t].op = load[t].op /\ load'[t].i = load[t].i /\ load'[t].n = next
      /\ load'[t].set = load[t].set /\ load'[t].at = place
  BY <1>1 DEF SettingsTypeOK, ThreadRecord, OthersStay
<1> QED
  BY <1>2 DEF next, place

LEMMA ToolShape ==
    ASSUME SettingsTypeOK, SettingsTypeOK', Shape, NEW t \in LoadThreads, ToolStep(t)
    PROVE  Shape'
<1>1. CASE SetRow(t)
  <2>0. load[t].at = "row"
    BY <1>1 DEF SetRow, LoadAt
  <2>1. LoadGoes(t, "sysconf") /\ UNCHANGED <<alive, server, listeners, chosen, changed>>
    BY <1>1 DEF SetRow
  <2>2. ~IsLoad(t) /\ ~LoadIdle(t) /\ "sysconf" \in ToolPlaces[load[t].op] \ {"rename"}
    BY <2>0, ToolPlace DEF ToolPlaces, BeforeRead
  <2> QED
    BY <2>1, <2>2, PlaceGo, GoesTo
<1>2. CASE RenameTable(t)
  <2>0. load[t].at = "rename"
    BY <1>2 DEF RenameTable, LoadAt
  <2>1. ~IsLoad(t) /\ ~LoadIdle(t) /\ load[t].op = "rename" /\ load[t].n \in {"center", "frontEnds", "platform"}
        /\ OwnerOf[t] = "tool"
    BY <2>0, ToolPlace
  <2>2. After(load[t].n) \in {"frontEnds", "platform", "none"}
    BY <2>1 DEF After
  <2>3. OthersStay(t) /\ load'[t].op = "rename" /\ load'[t].n = After(load[t].n)
        /\ load'[t].at = IF After(load[t].n) = "none" THEN "sysconf" ELSE "rename"
    BY <1>2, <2>1, RenameGo
  <2>4. ThreadFits(t)'
    BY <2>1, <2>2, <2>3 DEF ThreadFits, ToolPlaces, BeforeRead
  <2>5. UNCHANGED <<alive, server, listeners, chosen, changed>>
    BY <1>2 DEF RenameTable
  <2>6. load'[t].at # "idle"
    BY <2>3
  <2> QED
    BY <2>1, <2>3, <2>4, <2>5, <2>6, GoesOn
<1>3. CASE Touch(t) \/ Cut(t)
  <2>1. load[t].at \in {"touch", "rename", "write"}
    BY <1>3 DEF Touch, Cut, LoadAt
  <2>2. load' = [load EXCEPT ![t] = NoLoad] /\ UNCHANGED <<alive, server, listeners, chosen>>
        /\ (changed' = changed \/ Notify)
    BY <1>3 DEF Touch, Cut
  <2>3. ~IsLoad(t) /\ ~LoadIdle(t)
    BY <2>1, ToolPlace
  <2>4. OthersStay(t) /\ load'[t] = NoLoad
    BY <2>2, NewRecord
  <2> QED
    BY <2>2, <2>3, <2>4, ToolEnds
<1>4. CASE Write(t)
  <2>0. load[t].at = "write"
    BY <1>4 DEF Write, LoadAt
  <2>1. LoadGoes(t, "writing") /\ Notify /\ UNCHANGED <<alive, server, listeners, chosen>>
    BY <1>4 DEF Write, WriteBegins
  <2>2. ~IsLoad(t) /\ ~LoadIdle(t) /\ "writing" \in ToolPlaces[load[t].op] \ {"rename"}
    BY <2>0, ToolPlace DEF ToolPlaces
  <2> QED
    BY <2>1, <2>2, PlaceGo, GoesTo
<1>5. CASE FileWritten(t)
  <2>0. load[t].at = "writing"
    BY <1>5 DEF FileWritten, LoadAt
  <2>1. Notify /\ UNCHANGED <<alive, server, listeners, chosen>>
    BY <1>5 DEF FileWritten
  <2>2. ~IsLoad(t) /\ ~LoadIdle(t) /\ load[t].op \in {"update", "rename"}
    BY <2>0, ToolPlace
  <2>3. CASE load[t].op = "rename"
    <3>1. LoadGoes(t, "touch")
      BY <1>5, <2>3 DEF FileWritten, LoadGoes
    <3>2. "touch" \in ToolPlaces[load[t].op] \ {"rename"}
      BY <2>3 DEF ToolPlaces
    <3> QED
      BY <2>1, <2>2, <3>1, <3>2, PlaceGo, GoesTo
  <2>4. CASE load[t].op = "update"
    <3>1. load' = [load EXCEPT ![t] = NoLoad]
      BY <1>5, <2>4 DEF FileWritten
    <3> QED
      BY <2>1, <2>2, <3>1, NewRecord, ToolEnds
  <2> QED
    BY <2>2, <2>3, <2>4
<1> QED
  BY <1>1, <1>2, <1>3, <1>4, <1>5 DEF ToolStep

\* A process begins to load.
LEMMA LoadBegins ==
    ASSUME SettingsTypeOK, SettingsTypeOK', Shape, NEW p \in Nodes, NEW t \in LoadThreads, OwnerOf[t] = p,
           NEW op \in {"load", "start"}, OthersStay(t), load'[t] = Work(op), Loads(p) = {}, LoadIdle(t),
           listeners' = [listeners EXCEPT ![p] = 0], changed' \subseteq changed \ {p}, alive' = alive \cup {p},
           UNCHANGED <<server, chosen>>,
           IF op = "start" THEN p \in Workers /\ p \notin alive
           ELSE p \in alive /\ (p \in Workers => server[p] # "down")
    PROVE  Shape'
<1>1. \A u \in LoadThreads : u # t => (LoadIdle(u)' <=> LoadIdle(u))
  BY DEF LoadIdle, OthersStay
<1>2. load'[t].at = "sysconf" /\ load'[t].op = op /\ load'[t].i = 1
  BY WorkTyped
<1>3. ~LoadIdle(t)'
  BY <1>2 DEF LoadIdle
<1>4. \A q \in Nodes \ {p} : Loads(q)' = Loads(q) /\ listeners'[q] = listeners[q]
  BY <1>1 DEF Loads, SettingsTypeOK
<1>5. Loads(p)' = {t} /\ listeners'[p] = 0
  BY <1>1, <1>3 DEF Loads, SettingsTypeOK
<1>6. \A u \in LoadThreads : ThreadFits(u)'
  <2> SUFFICES ASSUME NEW u \in LoadThreads PROVE ThreadFits(u)'
    OBVIOUS
  <2>1. CASE u = t
    <3>1. IsLoad(t)'
      BY <1>2 DEF IsLoad
    <3>2. load'[t].at \in LoadPlaces
      BY <1>2 DEF LoadPlaces, BeforeRead
    <3> QED
      BY <2>1, <1>2, <3>1, <3>2 DEF ThreadFits
  <2>2. CASE u # t
    <3>1. load'[u] = load[u] /\ ThreadFits(u) /\ (IsLoad(u)' <=> IsLoad(u))
      BY <2>2 DEF OthersStay, Shape, IsLoad
    <3> QED
      BY <3>1 DEF ThreadFits
  <2> QED
    BY <2>1, <2>2
<1>7. \A q \in Nodes : WatchesOrLoads(q)'
  BY <1>4, <1>5 DEF Shape, WatchesOrLoads
<1>8. \A q \in Nodes : ServerFits(q)'
  <2> SUFFICES ASSUME NEW q \in Nodes PROVE ServerFits(q)'
    OBVIOUS
  <2>1. ServerFits(q) /\ server'[q] = server[q] /\ alive \subseteq alive'
    BY DEF Shape
  <2>2. listeners'[q] = 1 => listeners[q] = 1
    BY <1>4, <1>5
  <2> QED
    BY <2>1, <2>2 DEF ServerFits
<1>9. \A q \in changed' : listeners'[q] = 1
  BY <1>4 DEF Shape, SettingsTypeOK
<1> QED
  BY <1>6, <1>7, <1>8, <1>9 DEF Shape

LEMMA NoticedGo ==
    ASSUME SettingsTypeOK, Shape, ~InDocker, NEW p \in Nodes, Noticed(p)
    PROVE  /\ p \in changed /\ listeners[p] = 1 /\ p \in alive /\ Loads(p) = {}
           /\ changed' = changed \ {p} /\ listeners' = [listeners EXCEPT ![p] = 0]
           /\ \E t \in IdleOf(p) : OthersStay(t) /\ load'[t] = Work("load")
<1>1. p \in changed /\ listeners[p] = 1 /\ p \in alive /\ Loads(p) = {}
  BY DEF Noticed, Shape, WatchesOrLoads
<1>2. PICK ts \in SUBSET IdleOf(p) :
          /\ Cardinality(ts) = listeners[p]
          /\ load' = [t \in LoadThreads |-> IF t \in ts THEN Work("load") ELSE load[t]]
  BY DEF Noticed
<1>3. IsFiniteSet(ts)
  <2>1. ts \subseteq LoadThreads
    BY DEF IdleOf
  <2> QED
    BY <2>1, ConfigurationAssumption, FS_Subset
<1>4. PICK t : ts = {t}
  BY <1>1, <1>2, <1>3, FS_Singleton
<1>5. t \in IdleOf(p) /\ t \in LoadThreads
  BY <1>2, <1>4 DEF IdleOf
<1>6. OthersStay(t) /\ load'[t] = Work("load")
  BY <1>2, <1>4, <1>5 DEF OthersStay
<1> QED
  BY <1>1, <1>5, <1>6 DEF Noticed

LEMMA ForkGo ==
    ASSUME SettingsTypeOK, Shape, NEW p \in Nodes, Fork(p)
    PROVE  /\ p \in Workers /\ p \notin alive /\ Loads(p) = {} /\ listeners[p] = 0 /\ p \notin changed
           /\ \E t \in IdleOf(p) : OthersStay(t) /\ load'[t] = Work("start")
<1>1. p \in Workers /\ p \notin alive /\ Loads(p) = {} /\ listeners[p] = 0 /\ p \notin changed
  BY DEF Fork, Shape, WatchesOrLoads
<1>2. PICK t \in IdleOf(p) : load' = [load EXCEPT ![t] = Work("start")]
  BY DEF Fork
<1>3. OthersStay(t) /\ load'[t] = Work("start")
  BY <1>2, NewRecord DEF IdleOf
<1> QED
  BY <1>1, <1>3

LEMMA ProcessShape ==
    ASSUME SettingsTypeOK, SettingsTypeOK', Shape, ~InDocker, NEW p \in Nodes,
           Noticed(p) \/ Fork(p) \/ Prepare(p) \/ Listen(p) \/ ListenFails(p)
    PROVE  Shape'
<1>1. CASE Noticed(p)
  <2>1. PICK t \in IdleOf(p) : OthersStay(t) /\ load'[t] = Work("load")
    BY <1>1, NoticedGo
  <2>2. t \in LoadThreads /\ OwnerOf[t] = p /\ LoadIdle(t)
    BY DEF IdleOf
  <2>3. /\ p \in alive /\ Loads(p) = {} /\ changed' = changed \ {p}
        /\ listeners' = [listeners EXCEPT ![p] = 0] /\ (p \in Workers => server[p] # "down")
    BY <1>1, NoticedGo DEF Shape, ServerFits
  <2>4. alive' = alive \cup {p} /\ UNCHANGED <<server, chosen>>
    BY <1>1, <2>3 DEF Noticed
  <2> QED
    BY <2>1, <2>2, <2>3, <2>4, LoadBegins
<1>2. CASE Fork(p)
  <2>1. PICK t \in IdleOf(p) : OthersStay(t) /\ load'[t] = Work("start")
    BY <1>2, ForkGo
  <2>2. t \in LoadThreads /\ OwnerOf[t] = p /\ LoadIdle(t)
    BY DEF IdleOf
  <2>3. /\ p \in Workers /\ p \notin alive /\ Loads(p) = {}
        /\ changed' \subseteq changed \ {p} /\ listeners' = [listeners EXCEPT ![p] = 0]
    <3>1. p \in Workers /\ p \notin alive /\ Loads(p) = {} /\ listeners[p] = 0 /\ p \notin changed
      BY <1>2, ForkGo
    <3>2. changed' = changed /\ listeners' = listeners
      BY <1>2 DEF Fork
    <3>3. [listeners EXCEPT ![p] = 0] = listeners
      BY <3>1 DEF SettingsTypeOK
    <3> QED
      BY <3>1, <3>2, <3>3
  <2>4. alive' = alive \cup {p} /\ UNCHANGED <<server, chosen>>
    BY <1>2 DEF Fork
  <2> QED
    BY <2>1, <2>2, <2>3, <2>4, LoadBegins
<1>3. CASE Prepare(p) \/ Listen(p)
  <2>1. /\ server[p] \in {"starting", "ready"} /\ \E to \in {"ready", "up"} : server' = [server EXCEPT ![p] = to]
        /\ UNCHANGED <<alive, listeners, changed, load, chosen>>
    BY <1>3 DEF Prepare, Listen, ServerGoes
  <2>2. \A q \in Nodes : /\ server'[q] = "down" <=> server[q] = "down"
                         /\ server'[q] = "broken" <=> server[q] = "broken"
    BY <2>1 DEF SettingsTypeOK
  <2>3. \A u \in LoadThreads : ThreadFits(u)'
    <3> SUFFICES ASSUME NEW u \in LoadThreads PROVE ThreadFits(u)'
      OBVIOUS
    <3>1. load'[u] = load[u] /\ ThreadFits(u) /\ (IsLoad(u)' <=> IsLoad(u))
      BY <2>1 DEF Shape, IsLoad
    <3>2. OwnerOf[u] \in alive => OwnerOf[u] \in Nodes
      BY DEF SettingsTypeOK
    <3> QED
      BY <3>1, <3>2, <2>1, <2>2 DEF ThreadFits
  <2>4. \A q \in Nodes : WatchesOrLoads(q)' /\ ServerFits(q)'
    <3>1. \A q \in Nodes : Loads(q)' = Loads(q)
      BY <2>1 DEF Loads, LoadIdle
    <3> QED
      BY <2>1, <2>2, <3>1 DEF Shape, WatchesOrLoads, ServerFits
  <2> QED
    BY <2>1, <2>3, <2>4 DEF Shape
<1>4. CASE ListenFails(p)
  <2>1. p \in Workers /\ p \in alive
    BY <1>4 DEF ListenFails, Shape, ServerFits
  <2> QED
    BY <1>4, <2>1, DiesShape DEF ListenFails
<1> QED
  BY <1>1, <1>2, <1>3, <1>4

LEMMA AskGo ==
    ASSUME SettingsTypeOK, Shape, OneTool, NEW op, NEW new \in ThreadRecord, AskedFor(op, new)
    PROVE  \E t \in LoadThreads :
              /\ OwnerOf[t] = "tool" /\ OwnerOf[t] \notin Nodes /\ LoadIdle(t) /\ OthersStay(t) /\ load'[t] = new
              /\ \A u \in LoadThreads \ {t} : OwnerOf[u] # "tool"
<1>1. PICK t \in IdleOf("tool") : load' = [load EXCEPT ![t] = new]
  BY DEF AskedFor, AskTool
<1>2. t \in LoadThreads /\ OwnerOf[t] = "tool" /\ LoadIdle(t)
  BY DEF IdleOf
<1>3. OthersStay(t) /\ load'[t] = new
  BY <1>1, <1>2, NewRecord
<1>4. \A u \in LoadThreads \ {t} : OwnerOf[u] # "tool"
  BY <1>2 DEF OneTool
<1> QED
  BY <1>2, <1>3, <1>4, ConfigurationAssumption

LEMMA AskShape ==
    ASSUME SettingsTypeOK, SettingsTypeOK', Shape, OneTool, NEW op, NEW new \in ThreadRecord, AskedFor(op, new)
    PROVE  Shape'
<1>1. PICK t \in LoadThreads :
              /\ OwnerOf[t] = "tool" /\ OwnerOf[t] \notin Nodes /\ LoadIdle(t) /\ OthersStay(t) /\ load'[t] = new
              /\ \A u \in LoadThreads \ {t} : OwnerOf[u] # "tool"
  BY AskGo
<1>2. NewTool(op, new) /\ UNCHANGED <<alive, server, listeners, changed>>
      /\ chosen' = IF op = "update" THEN new.i ELSE chosen
  BY DEF AskedFor
<1>3. \A p \in Nodes : Loads(p)' = Loads(p)
  BY <1>1 DEF Loads, LoadIdle, OthersStay
<1>4. \A u \in LoadThreads : ThreadFits(u)'
  <2> SUFFICES ASSUME NEW u \in LoadThreads PROVE ThreadFits(u)'
    OBVIOUS
  <2>1. CASE u = t
    <3>1. op \in {"update", "set", "redis", "rename"} /\ new.op = op
      BY <1>2 DEF NewTool
    <3>2. op \in DOMAIN ToolPlaces /\ new.at \in ToolPlaces[op]
      BY <1>2, <3>1 DEF NewTool, ToolPlaces, BeforeRead
    <3> QED
      BY <1>1, <1>2, <2>1, <3>1, <3>2 DEF ThreadFits, NewTool
  <2>2. CASE u # t
    <3>1. load'[u] = load[u] /\ ThreadFits(u) /\ (IsLoad(u)' <=> IsLoad(u)) /\ OwnerOf[u] # "tool"
      BY <1>1, <2>2 DEF OthersStay, Shape, IsLoad
    <3> QED
      BY <3>1, <1>2 DEF ThreadFits
  <2> QED
    BY <2>1, <2>2
<1>5. \A p \in Nodes : WatchesOrLoads(p)' /\ ServerFits(p)'
  BY <1>2, <1>3 DEF Shape, WatchesOrLoads, ServerFits
<1> QED
  BY <1>2, <1>4, <1>5 DEF Shape

-----------------------------------------------------------------------------
(* half a file, the names of the data center, what was chosen. *)

LEMMA HalfKeeps ==
    ASSUME HalfWritten, NEW t \in LoadThreads, OthersStay(t), file'.whole = file.whole,
           "file" \in stale => "file" \in stale',
           file.whole \/ load[t].at \notin {"sealing", "writing"}
    PROVE  HalfWritten'
BY DEF HalfWritten, OthersStay

LEMMA HalfEnds ==
    ASSUME file'.whole \/ "file" \in stale' \/ \E t \in LoadThreads : load'[t].at \in {"sealing", "writing"}
    PROVE  HalfWritten'
BY DEF HalfWritten

\* Names and what was chosen are kept by threads that go on as they should.
KeepsName(u) ==
    \/ load'[u] = load[u]
    \/ "tables" \in stale'
    \/ NameFits(u)' /\ (load[u].op = "rename" => load'[u].op = "rename" \/ Named(file.dc))
KeepsOwn(u) ==
    \/ load'[u] = load[u]
    \/ "file" \in stale'
    \/ OwnFits(u)' /\ (load[u].op = "update" => load'[u].op = "update")

LEMMA NamesKeep ==
    ASSUME NamesAgree, "tables" \in stale => "tables" \in stale', table' = table,
           "tables" \in stale' \/ file'.dc = file.dc,
           \A u \in LoadThreads : KeepsName(u)
    PROVE  NamesAgree'
<1> SUFFICES ASSUME "tables" \notin stale'
             PROVE  (~Works("rename")' => Named(file.dc)') /\ \A u \in LoadThreads : NameFits(u)'
  BY DEF NamesAgree
<1>1. /\ ~Works("rename") => Named(file.dc)
      /\ \A u \in LoadThreads : NameFits(u)
      /\ file'.dc = file.dc /\ (Named(file.dc)' <=> Named(file.dc))
  BY DEF NamesAgree, Named
<1>2. \A u \in LoadThreads : \/ load'[u] = load[u]
                             \/ NameFits(u)' /\ (load[u].op = "rename" => load'[u].op = "rename" \/ Named(file.dc))
  BY DEF KeepsName
<1>3. \A u \in LoadThreads : load'[u] = load[u] => NameFits(u)'
  BY <1>1 DEF NameFits, Named
<1>4. ~Works("rename")' => Named(file.dc)
  BY <1>1, <1>2 DEF Works
<1> QED
  BY <1>1, <1>2, <1>3, <1>4

LEMMA OwnKeeps ==
    ASSUME OwnKept, "file" \in stale => "file" \in stale', chosen' = chosen,
           "file" \in stale' \/ file'.own = file.own,
           \A u \in LoadThreads : KeepsOwn(u)
    PROVE  OwnKept'
<1> SUFFICES ASSUME "file" \notin stale'
             PROVE  (~Works("update")' => file'.own = chosen') /\ \A u \in LoadThreads : OwnFits(u)'
  BY DEF OwnKept
<1>1. /\ ~Works("update") => file.own = chosen
      /\ \A u \in LoadThreads : OwnFits(u)
      /\ file'.own = file.own
  BY DEF OwnKept
<1>2. \A u \in LoadThreads : \/ load'[u] = load[u]
                             \/ OwnFits(u)' /\ (load[u].op = "update" => load'[u].op = "update")
  BY DEF KeepsOwn
<1>3. \A u \in LoadThreads : load'[u] = load[u] => OwnFits(u)'
  BY <1>1 DEF OwnFits
<1>4. ~Works("update")' => ~Works("update")
  BY <1>2 DEF Works
<1> QED
  BY <1>1, <1>2, <1>3, <1>4

\* The thread of a process says nothing of them.
LEMMA LoadKeeps ==
    ASSUME NEW u \in LoadThreads, load'[u].op \notin {"set", "update", "rename"},
           load[u].op \notin {"update", "rename"}
    PROVE  KeepsName(u) /\ KeepsOwn(u)
BY DEF KeepsName, KeepsOwn, NameFits, OwnFits

LEMMA DiesParts ==
    ASSUME SettingsTypeOK, Shape, HalfWritten, NamesAgree, OwnKept, NEW p \in Workers, p \in alive, Dies(p),
           UNCHANGED <<file, table, chosen>>
    PROVE  HalfWritten' /\ NamesAgree' /\ OwnKept'
<1>1. alive' \subseteq alive /\ p \notin alive' /\ p \in Nodes /\ stale \subseteq stale'
  BY DEF Dies, SettingsTypeOK
<1>2. \A u \in LoadThreads : load'[u] = IF OwnerOf[u] \in {p} \cup (alive \ alive') THEN NoLoad ELSE load[u]
  BY DEF Dies
<1>3. \A u \in LoadThreads : OwnerOf[u] \in Nodes => load[u].op \notin {"update", "rename"} /\ load[u].at # "writing"
  <2> SUFFICES ASSUME NEW u \in LoadThreads, OwnerOf[u] \in Nodes
               PROVE  load[u].op \notin {"update", "rename"} /\ load[u].at # "writing"
    OBVIOUS
  <2>1. CASE LoadIdle(u)
    BY <2>1, Kinds, NoLoadFits DEF LoadIdle
  <2>2. CASE ~LoadIdle(u)
    BY <2>2, Kinds, LoadPlace DEF IsLoad, LoadPlaces, BeforeRead, Sealing, Joining, Told
  <2> QED
    BY <2>1, <2>2
<1>4. \A u \in LoadThreads : OwnerOf[u] \in {p} \cup (alive \ alive') => OwnerOf[u] \in Nodes
  BY <1>1 DEF SettingsTypeOK
<1>5. \A u \in LoadThreads : KeepsName(u) /\ KeepsOwn(u)
  <2> SUFFICES ASSUME NEW u \in LoadThreads PROVE KeepsName(u) /\ KeepsOwn(u)
    OBVIOUS
  <2>1. CASE OwnerOf[u] \in {p} \cup (alive \ alive')
    BY <2>1, <1>2, <1>3, <1>4, NoLoadFits, LoadKeeps
  <2>2. CASE OwnerOf[u] \notin {p} \cup (alive \ alive')
    BY <2>2, <1>2 DEF KeepsName, KeepsOwn
  <2> QED
    BY <2>1, <2>2
<1>6. HalfWritten'
  <2>1. CASE file.whole \/ "file" \in stale
    BY <1>1, <2>1 DEF HalfWritten
  <2>2. ASSUME NEW u \in LoadThreads, load[u].at \in {"sealing", "writing"} PROVE HalfWritten'
    <3>1. CASE OwnerOf[u] \in {p} \cup (alive \ alive')
      <4>1. load[u].at = "sealing"
        BY <1>3, <1>4, <2>2, <3>1
      <4>2. "file" \in stale'
        BY <3>1, <4>1 DEF Dies, LoadAt
      <4> QED
        BY <4>2 DEF HalfWritten
    <3>2. CASE OwnerOf[u] \notin {p} \cup (alive \ alive')
      BY <1>2, <2>2, <3>2, HalfEnds
    <3> QED
      BY <3>1, <3>2
  <2> QED
    BY <2>1, <2>2 DEF HalfWritten
<1> QED
  BY <1>1, <1>5, <1>6, NamesKeep, OwnKeeps

LEMMA FailsParts ==
    ASSUME SettingsTypeOK, Shape, HalfWritten, NamesAgree, OwnKept, NEW t \in LoadThreads,
           load[t].at \in BeforeRead \cup Joining \cup Told, Fails(t)
    PROVE  HalfWritten' /\ NamesAgree' /\ OwnKept'
<1>0. ~LoadIdle(t) /\ load[t].at \notin {"sealing", "writing"} /\ UNCHANGED <<file, table, chosen>>
  BY DEF LoadIdle, BeforeRead, Joining, Told, Fails
<1>1. CASE Quits(t)
  <2>1. OwnerOf[t] \in alive /\ Dies(OwnerOf[t]) /\ OwnerOf[t] \in Workers
    BY <1>0, <1>1, Kinds DEF Fails, Quits, IsLoad
  <2> QED
    BY <1>0, <1>1, <2>1, DiesParts
<1>2. CASE ~Quits(t)
  <2>1. GivesUp(t)
    BY <1>2 DEF Fails, Quits
  <2>2. alive' = alive /\ stale \subseteq stale'
    BY <2>1 DEF GivesUp
  <2>3. load' = [load EXCEPT ![t] = IF load[t].op \in {"set", "redis"} THEN [load[t] EXCEPT !.at = "touch"]
                                   ELSE NoLoad]
    BY <2>1 DEF GivesUp
  <2>4. OthersStay(t)
    BY <2>3 DEF OthersStay, SettingsTypeOK
  <2>6. HalfWritten'
    BY <1>0, <2>2, <2>4, HalfKeeps
  <2>7. CASE load[t].op \in {"set", "redis"}
    <3>1. load'[t].op = load[t].op /\ load'[t].at = "touch"
      BY <2>3, <2>7 DEF SettingsTypeOK, ThreadRecord
    <3>2. KeepsName(t) /\ KeepsOwn(t)
      BY <2>7, <3>1 DEF KeepsName, KeepsOwn, NameFits, OwnFits
    <3>3. \A u \in LoadThreads : KeepsName(u) /\ KeepsOwn(u)
      BY <2>4, <3>2 DEF OthersStay, KeepsName, KeepsOwn
    <3> QED
      BY <1>0, <2>2, <2>6, <3>3, NamesKeep, OwnKeeps
  <2>8. CASE load[t].op \notin {"set", "redis"}
    <3>1. load'[t] = NoLoad
      BY <2>3, <2>8 DEF SettingsTypeOK
    <3>2. load[t].op = "rename" => "tables" \in stale'
      BY <2>1 DEF GivesUp, IsLoad
    <3>3. load[t].op = "update" => "file" \in stale'
      BY <2>1 DEF GivesUp, IsLoad
    <3>4. KeepsName(t) /\ KeepsOwn(t)
      BY <3>1, <3>2, <3>3, NoLoadFits DEF KeepsName, KeepsOwn, NameFits, OwnFits
    <3>5. \A u \in LoadThreads : KeepsName(u) /\ KeepsOwn(u)
      BY <2>4, <3>4 DEF OthersStay, KeepsName, KeepsOwn
    <3> QED
      BY <1>0, <2>2, <2>6, <3>5, NamesKeep, OwnKeeps
  <2> QED
    BY <2>7, <2>8
<1> QED
  BY <1>1, <1>2

Parts == HalfWritten /\ NamesAgree /\ OwnKept

\* A thread moves and nothing else that the parts speak of.
LEMMA PartsGo ==
    ASSUME Parts, NEW t \in LoadThreads, OthersStay(t), UNCHANGED <<file, table, alive, chosen>>,
           {"file", "tables"} \cap stale \subseteq stale',
           load[t].at \notin {"sealing", "writing"}, KeepsName(t), KeepsOwn(t)
    PROVE  Parts'
<1>1. \A u \in LoadThreads : KeepsName(u) /\ KeepsOwn(u)
  BY DEF OthersStay, KeepsName, KeepsOwn
<1>2. HalfWritten'
  BY HalfKeeps DEF Parts
<1>3. NamesAgree'
  BY <1>1, NamesKeep DEF Parts
<1>4. OwnKept'
  BY <1>1, OwnKeeps DEF Parts
<1> QED
  BY <1>2, <1>3, <1>4 DEF Parts

LEMMA LoadSysParts ==
    ASSUME SettingsTypeOK, Shape, Parts, NEW t \in LoadThreads,
           LoadSysConf(t) \/ SaveSysConf(t) \/ ReadSettings(t)
    PROVE  Parts'
<1>0. ~LoadIdle(t) /\ load[t].at \in BeforeRead
  BY DEF LoadSysConf, SaveSysConf, ReadSettings, LoadAt, LoadIdle, BeforeRead
<1>1. CASE Fails(t)
  BY <1>0, <1>1, FailsParts DEF Parts
<1>2. CASE LoadSysConf(t) /\ sysconf
  <2>1. LoadGoes(t, "saving") /\ UNCHANGED <<file, table, alive, chosen, stale>>
    BY <1>2 DEF LoadSysConf
  <2>2. OthersStay(t) /\ load'[t].op = load[t].op /\ load'[t].at = "saving"
    BY <2>1, PlaceGo
  <2>3. NameFits(t) \/ "tables" \in stale
    BY DEF Parts, NamesAgree
  <2>4. load[t].at = "sysconf"
    BY <1>2 DEF LoadSysConf, LoadAt
  <2>5. KeepsName(t) /\ KeepsOwn(t)
    BY <2>1, <2>2, <2>3, <2>4 DEF KeepsName, KeepsOwn, NameFits, OwnFits, Named, BeforeRead, Sealing
  <2> QED
    BY <2>1, <2>2, <2>4, <2>5, PartsGo DEF BeforeRead
<1>3. CASE SaveSysConf(t)
  <2> DEFINE place == IF load[t].op = "redis" THEN "touch" ELSE "read"
  <2>1. LoadGoes(t, place) /\ UNCHANGED <<file, table, alive, chosen, stale>>
    BY <1>3 DEF SaveSysConf
  <2>2. OthersStay(t) /\ load'[t].op = load[t].op /\ load'[t].at = place
    BY <2>1, PlaceGo
  <2>3. NameFits(t) \/ "tables" \in stale
    BY DEF Parts, NamesAgree
  <2>4. load[t].at = "saving"
    BY <1>3 DEF SaveSysConf, LoadAt
  <2>5. KeepsName(t) /\ KeepsOwn(t)
    BY <2>1, <2>2, <2>3, <2>4 DEF KeepsName, KeepsOwn, NameFits, OwnFits, Named, BeforeRead, Sealing
  <2> QED
    BY <2>1, <2>2, <2>4, <2>5, PartsGo DEF BeforeRead
<1>4. CASE ReadSettings(t) /\ file.whole
  <2> DEFINE place == IF Seals THEN "seal" ELSE AfterRead(t)
  <2>1. load[t].at = "read" /\ UNCHANGED <<file, table, alive, chosen>>
    BY <1>4 DEF ReadSettings, LoadAt
  <2>2. OthersStay(t) /\ load'[t].op = load[t].op /\ load'[t].at = place /\ load'[t].set = InFile(file)
    BY <1>4, ReadGo
  <2>3. {"file", "tables"} \cap stale \subseteq stale'
    <3>1. IsLoad(t) => OwnerOf[t] \in Nodes
      BY <1>0, LoadsAlone
    <3>2. {"file", "tables"} \cap Nodes = {}
      BY ConfigurationAssumption
    <3>3. stale' = IF IsLoad(t) THEN stale \ {OwnerOf[t]} ELSE stale
      BY <1>4 DEF ReadSettings
    <3> QED
      BY <3>1, <3>2, <3>3
  <2>4. InFile(file).dc = file.dc /\ InFile(file).own = file.own
    BY InFileTyped
  <2>5. CASE IsLoad(t)
    BY <2>1, <2>2, <2>3, <2>5, <1>4, LoadKeeps, PartsGo DEF IsLoad
  <2>6. CASE ~IsLoad(t)
    <3>1. place \in {"seal", "touch", "write"} /\ (place = "touch" => load[t].op = "set")
      BY <2>1, <2>6, AfterReadPlace
    <3>2. NameFits(t) \/ "tables" \in stale
      BY DEF Parts, NamesAgree
    <3> HIDE DEF place
    <3>3. KeepsName(t) /\ KeepsOwn(t)
      BY <2>1, <2>2, <2>3, <2>4, <3>1, <3>2 DEF KeepsName, KeepsOwn, NameFits, OwnFits, Named
    <3> QED
      BY <1>4, <2>1, <2>2, <2>3, <3>3, PartsGo
  <2> QED
    BY <2>5, <2>6
<1> QED
  BY <1>1, <1>2, <1>3, <1>4 DEF LoadSysConf, ReadSettings

LEMMA SealParts ==
    ASSUME SettingsTypeOK, Shape, Parts, NEW t \in LoadThreads, Seal(t) \/ Sealed(t)
    PROVE  Parts'
<1>0. ~LoadIdle(t) /\ load[t].at \in Sealing
  BY DEF Seal, Sealed, LoadAt, LoadIdle, Sealing
<1>1. (NameFits(t) \/ "tables" \in stale) /\ (OwnFits(t) \/ "file" \in stale)
  BY DEF Parts, NamesAgree, OwnKept
<1>2. CASE Seal(t)
  <2>1. LoadGoes(t, "sealing") /\ UNCHANGED <<table, chosen, stale>> /\ file' = [file EXCEPT !.whole = FALSE]
    BY <1>2 DEF Seal, WriteBegins
  <2>2. OthersStay(t) /\ load'[t].op = load[t].op /\ load'[t].at = "sealing" /\ load'[t].set = load[t].set
    BY <2>1, PlaceGo
  <2>3. file'.dc = file.dc /\ file'.own = file.own
    BY <2>1 DEF SettingsTypeOK
  <2>4. load[t].at = "seal"
    BY <1>2 DEF Seal, LoadAt
  <2>5. KeepsName(t) /\ KeepsOwn(t)
    BY <1>1, <2>1, <2>2, <2>3, <2>4 DEF KeepsName, KeepsOwn, NameFits, OwnFits, Named, BeforeRead, Sealing
  <2>6. \A u \in LoadThreads : KeepsName(u) /\ KeepsOwn(u)
    BY <2>2, <2>5 DEF OthersStay, KeepsName, KeepsOwn
  <2> QED
    BY <2>1, <2>2, <2>3, <2>6, HalfEnds, NamesKeep, OwnKeeps DEF Parts
<1>3. CASE Sealed(t)
  <2>1. LoadGoes(t, AfterRead(t)) /\ UNCHANGED <<table, chosen>>
        /\ file'.dc = load[t].set.dc /\ file'.own = load[t].set.own /\ file'.whole
    BY <1>3 DEF Sealed
  <2>2. OthersStay(t) /\ load'[t].op = load[t].op /\ load'[t].at = AfterRead(t) /\ load'[t].set = load[t].set
    BY <2>1, PlaceGo
  <2>3. stale \subseteq stale' /\ ("tables" \in stale' \/ file'.dc = file.dc)
        /\ ("file" \in stale' \/ file'.own = file.own)
    <3>1. CASE load[t].set = InFile(file)
      BY <1>3, <2>1, <3>1, InFileTyped DEF Sealed
    <3>2. CASE load[t].set # InFile(file)
      BY <1>3, <2>1, <3>2 DEF Sealed
    <3> QED
      BY <3>1, <3>2
  <2>4. load[t].at = "sealing"
    BY <1>3 DEF Sealed, LoadAt
  <2>5. KeepsName(t) /\ KeepsOwn(t)
    <3>1. CASE IsLoad(t)
      BY <3>1, <2>2, LoadKeeps DEF IsLoad
    <3>2. CASE ~IsLoad(t)
      <4>1. AfterRead(t) \in {"touch", "write"} /\ (AfterRead(t) = "touch" => load[t].op = "set")
        BY <2>4, <3>2, AfterReadPlace
      <4> QED
        BY <1>1, <2>1, <2>2, <2>3, <2>4, <4>1
        DEF KeepsName, KeepsOwn, NameFits, OwnFits, Named, BeforeRead, Sealing
    <3> QED
      BY <3>1, <3>2
  <2>6. \A u \in LoadThreads : KeepsName(u) /\ KeepsOwn(u)
    BY <2>2, <2>5 DEF OthersStay, KeepsName, KeepsOwn
  <2> QED
    BY <2>1, <2>3, <2>6, HalfEnds, NamesKeep, OwnKeeps DEF Parts
<1> QED
  BY <1>2, <1>3

LEMMA LoadParts ==
    ASSUME SettingsTypeOK, Shape, Parts, NEW t \in LoadThreads, LoadStep(t)
    PROVE  Parts'
<1>1. CASE Fails(t) /\ (Join(t) \/ LoadFails(t))
  <2>1. load[t].at \in BeforeRead \cup Joining \cup Told
    BY <1>1 DEF Join, LoadFails, LoadAt, Joining, Told
  <2> QED
    BY <1>1, <2>1, FailsParts DEF Parts
<1>2. ASSUME load[t].at \in Joining \cup Told, OthersStay(t),
             load'[t].op = load[t].op \/ load'[t] = NoLoad, UNCHANGED <<file, table, alive, chosen>>,
             stale \subseteq stale'
      PROVE  Parts'
  <2>1. ~LoadIdle(t)
    BY <1>2 DEF LoadIdle, Joining, Told
  <2>2. IsLoad(t)
    BY <1>2, <2>1, LoadPlace
  <2>3. load'[t].op \notin {"set", "update", "rename"} /\ load[t].op \notin {"update", "rename"}
    BY <1>2, <2>2, NoLoadFits DEF IsLoad
  <2>4. load[t].at \notin {"sealing", "writing"} \cup BeforeRead
    BY <1>2 DEF BeforeRead, Joining, Told
  <2> QED
    BY <1>2, <2>3, <2>4, LoadKeeps, PartsGo
<1>3. CASE Connect(t)
  <2>1. load[t].at \in Joining
    BY <1>3 DEF Connect, LoadAt, Joining
  <2>2. LoadGoes(t, "join") /\ UNCHANGED <<file, table, alive, chosen, stale>>
    BY <1>3 DEF Connect
  <2> QED
    BY <1>2, <2>1, <2>2, PlaceGo
<1>4. CASE Join(t)
  <2>1. CASE JoinGoes(t)
    <3>1. load[t].at \in Joining
      BY <1>4 DEF Join, LoadAt, Joining
    <3> QED
      BY <1>2, <2>1, <3>1 DEF JoinGoes, JoinsTable
  <2> QED
    BY <1>1, <1>4, <2>1, JoinEffect
<1>9. CASE JoinThrows(t)
  <2>1. load[t].at \in Joining
    BY <1>9 DEF JoinThrows, LoadAt, Joining
  <2> QED
    BY <1>2, <1>9, <2>1, ThrowEffect
<1>5. CASE PlatformUnread(t)
  <2>1. load[t].at \in Joining
    BY <1>5 DEF PlatformUnread, LoadAt, Joining
  <2>2. (\E vals : JoinsTable(t, vals)) /\ UNCHANGED <<file, table, alive, chosen>> /\ stale \subseteq stale'
    BY <1>5, UnreadEffect
  <2> QED
    BY <1>2, <2>1, <2>2 DEF JoinsTable
<1>6. CASE SetCommon(t) \/ LoadOrgs(t)
  <2>1. load[t].at \in Joining \cup Told
    BY <1>6 DEF SetCommon, LoadOrgs, LoadAt, Joining, Told
  <2>2. (LoadGoes(t, "orgs") \/ LoadGoes(t, "watch")) /\ UNCHANGED <<file, table, alive, chosen, stale>>
    BY <1>6 DEF SetCommon, LoadOrgs
  <2> QED
    BY <1>2, <2>1, <2>2, PlaceGo
<1>7. CASE Loaded(t)
  <2>1. load[t].at \in Told
    BY <1>7 DEF Loaded, LoadAt, Told
  <2>2. load' = [load EXCEPT ![t] = NoLoad] /\ UNCHANGED <<file, table, alive, chosen, stale>>
    BY <1>7 DEF Loaded
  <2> QED
    BY <1>2, <2>1, <2>2, NewRecord
<1>8. LoadFails(t) => Fails(t)
  BY DEF LoadFails
<1> QED
  BY <1>1, <1>3, <1>4, <1>5, <1>6, <1>7, <1>8, <1>9, LoadSysParts, SealParts DEF LoadStep

LEMMA ToolParts ==
    ASSUME SettingsTypeOK, Shape, OneTool, Parts, NEW t \in LoadThreads, ToolStep(t)
    PROVE  Parts'
<1>0. load[t].at \in {"row", "rename", "write", "writing", "touch"}
  BY DEF ToolStep, SetRow, RenameTable, Touch, Cut, Write, FileWritten, LoadAt
<1>1. ~LoadIdle(t) /\ ~IsLoad(t) /\ OwnerOf[t] = "tool" /\ load[t].op \in {"update", "set", "redis", "rename"}
  BY <1>0, ToolPlace, LoadPlace
<1>2. \A u \in LoadThreads \ {t} : load[u].op \notin {"update", "set", "rename"}
  <2> SUFFICES ASSUME NEW u \in LoadThreads \ {t} PROVE load[u].op \notin {"update", "set", "rename"}
    OBVIOUS
  <2>1. OwnerOf[u] # "tool"
    BY <1>1 DEF OneTool
  <2> QED
    BY <2>1, Kinds, NoLoadFits DEF IsLoad
<1>3. (NameFits(t) \/ "tables" \in stale) /\ (OwnFits(t) \/ "file" \in stale)
  BY DEF Parts, NamesAgree, OwnKept
<1>4. CASE SetRow(t)
  <2>1. LoadGoes(t, "sysconf") /\ UNCHANGED <<file, alive, chosen, stale>>
        /\ table' = [table EXCEPT ![load[t].n] = NewRow(t)]
    BY <1>4 DEF SetRow
  <2>2. load[t].at = "row" /\ load[t].op = "set"
    BY <1>4, ToolPlace DEF SetRow, LoadAt
  <2>3. OthersStay(t) /\ load'[t].op = load[t].op /\ load'[t].at = "sysconf"
    BY <2>1, PlaceGo
  <2>4. HalfWritten'
    BY <2>1, <2>2, <2>3, HalfKeeps DEF Parts
  <2>5. NamesAgree'
    <3> SUFFICES ASSUME "tables" \notin stale'
                 PROVE  Named(file.dc)' /\ \A u \in LoadThreads : NameFits(u)'
      BY DEF NamesAgree
    <3>1. ~Works("rename")
      BY <1>2, <2>2 DEF Works
    <3>2. load[t].set.dc = file.dc /\ Named(file.dc)
      BY <1>3, <2>1, <2>2, <3>1 DEF NameFits, Parts, NamesAgree
    <3>3. NewRow(t).dc = file.dc
      BY <3>2 DEF NewRow
    <3>4. \A n \in {"center", "platform"} : table'[n].dc = file.dc
      <4>1. {"center", "platform"} \subseteq TableNames \ {"origins"}
        BY TheTables
      <4>2. \A n \in {"center", "platform"} : table[n].dc = file.dc
        BY <3>2 DEF Named
      <4> QED
        BY <2>1, <3>3, <4>1, <4>2 DEF SettingsTypeOK
    <3>5. \A u \in LoadThreads : NameFits(u)'
      BY <1>2, <2>2, <2>3 DEF NameFits, OthersStay
    <3> QED
      BY <2>1, <3>4, <3>5 DEF Named
  <2>6. KeepsOwn(t)
    BY <2>2, <2>3 DEF KeepsOwn, OwnFits
  <2>7. OwnKept'
    BY <2>1, <2>3, <2>6, OwnKeeps DEF OthersStay, KeepsOwn, Parts
  <2> QED
    BY <2>4, <2>5, <2>7 DEF Parts
<1>5. CASE RenameTable(t)
  <2>1. UNCHANGED <<file, alive, chosen, stale>> /\ table' = [table EXCEPT ![load[t].n].dc = "new"]
    BY <1>5 DEF RenameTable
  <2>2. load[t].at = "rename" /\ load[t].op = "rename" /\ load[t].n \in {"center", "frontEnds", "platform"}
    BY <1>5, ToolPlace DEF RenameTable, LoadAt
  <2>3. OthersStay(t) /\ load'[t].op = load[t].op /\ load'[t].n = After(load[t].n)
        /\ load'[t].at = IF After(load[t].n) = "none" THEN "sysconf" ELSE "rename"
    BY <1>5, RenameGo
  <2>4. HalfWritten'
    BY <2>1, <2>2, <2>3, HalfKeeps DEF Parts
  <2>5. NamesAgree'
    <3> SUFFICES ASSUME "tables" \notin stale'
                 PROVE  \A u \in LoadThreads : NameFits(u)'
      BY <2>2, <2>3 DEF NamesAgree, Works
    <3>1. {"center", "frontEnds", "platform"} \subseteq TableNames \ {"origins"}
      BY TheTables
    <3>2. /\ table'[load[t].n].dc = "new"
          /\ \A n \in TableNames \ {"origins"} : n # load[t].n => table'[n] = table[n]
      BY <2>1, <2>2, <3>1 DEF SettingsTypeOK
    <3>3. load[t].n # "center" => table["center"].dc = "new"
      BY <1>3, <2>1, <2>2 DEF NameFits
    <3>4. table'["center"].dc = "new"
      BY <3>1, <3>2, <3>3
    <3>5. After(load[t].n) = "none" => table'["platform"].dc = "new"
      <4>1. After(load[t].n) = "none" => load[t].n = "platform"
        BY <2>2 DEF After
      <4> QED
        BY <4>1, <3>2
    <3>6. NameFits(t)'
      BY <2>2, <2>3, <3>4, <3>5 DEF NameFits, Named
    <3> QED
      BY <1>2, <2>3, <3>6 DEF NameFits, OthersStay
  <2>6. KeepsOwn(t)
    <3>1. After(load[t].n) \in {"frontEnds", "platform", "none"}
      BY <2>2 DEF After
    <3> QED
      BY <2>2, <2>3 DEF KeepsOwn, OwnFits, Sealing
  <2>7. OwnKept'
    BY <2>1, <2>3, <2>6, OwnKeeps DEF OthersStay, KeepsOwn, Parts
  <2> QED
    BY <2>4, <2>5, <2>7 DEF Parts
<1>6. CASE Touch(t)
  <2>1. load[t].at = "touch" /\ load[t].op \in {"set", "redis", "rename"}
    BY <1>6, ToolPlace DEF Touch, LoadAt
  <2>2. UNCHANGED <<file, table, alive, chosen>> /\ stale \subseteq stale' /\ OthersStay(t) /\ load'[t] = NoLoad
    BY <1>6, NewRecord DEF Touch
  <2>3. KeepsName(t) /\ KeepsOwn(t)
    BY <1>3, <2>1, <2>2, NoLoadFits DEF KeepsName, KeepsOwn, NameFits, OwnFits
  <2> QED
    BY <2>1, <2>2, <2>3, PartsGo
<1>7. CASE Cut(t)
  <2>1. load[t].at # "writing" /\ load[t].at # "sealing" /\ load[t].op \in {"set", "redis", "rename"}
    BY <1>7, ToolPlace DEF Cut, LoadAt
  <2>2. UNCHANGED <<file, table, alive, chosen>> /\ OthersStay(t) /\ load'[t] = NoLoad
        /\ stale \subseteq stale' /\ "file" \in stale' /\ (load[t].op = "rename" => "tables" \in stale')
    BY <1>7, NewRecord DEF Cut
  <2>3. KeepsName(t) /\ KeepsOwn(t)
    BY <2>1, <2>2, NoLoadFits DEF KeepsName, KeepsOwn, NameFits, OwnFits
  <2> QED
    BY <2>1, <2>2, <2>3, PartsGo
<1>8. CASE Write(t)
  <2>1. LoadGoes(t, "writing") /\ UNCHANGED <<table, chosen, stale>> /\ file' = [file EXCEPT !.whole = FALSE]
    BY <1>8 DEF Write, WriteBegins
  <2>2. OthersStay(t) /\ load'[t].op = load[t].op /\ load'[t].at = "writing" /\ load'[t].set = load[t].set
    BY <2>1, PlaceGo
  <2>3. file'.dc = file.dc /\ file'.own = file.own
    BY <2>1 DEF SettingsTypeOK
  <2>4. load[t].at = "write" /\ load[t].op \in {"update", "rename"}
    BY <1>8, ToolPlace DEF Write, LoadAt
  <2>5. KeepsName(t) /\ KeepsOwn(t)
    BY <1>3, <2>1, <2>2, <2>3, <2>4 DEF KeepsName, KeepsOwn, NameFits, OwnFits, Named, BeforeRead, Sealing
  <2>6. \A u \in LoadThreads : KeepsName(u) /\ KeepsOwn(u)
    BY <2>2, <2>5 DEF OthersStay, KeepsName, KeepsOwn
  <2> QED
    BY <2>1, <2>2, <2>3, <2>6, HalfEnds, NamesKeep, OwnKeeps DEF Parts
<1>9. CASE FileWritten(t)
  <2>1. load[t].at = "writing" /\ load[t].op \in {"update", "rename"} /\ (load[t].op = "update" => load[t].i = chosen)
    BY <1>9, ToolPlace DEF FileWritten, LoadAt
  <2>2. UNCHANGED <<table, alive, chosen>> /\ stale \subseteq stale' /\ file'.whole
    BY <1>9 DEF FileWritten
  <2>3. HalfWritten'
    BY <2>2, HalfEnds
  <2>4. CASE load[t].op = "rename"
    <3>1. LoadGoes(t, "touch") /\ file'.dc = "new" /\ file'.own = load[t].set.own
      BY <1>9, <2>4 DEF FileWritten, LoadGoes
    <3>2. OthersStay(t) /\ load'[t].op = "rename" /\ load'[t].at = "touch"
      BY <2>4, <3>1, PlaceGo
    <3>3. NameFits(t)' \/ "tables" \in stale'
      BY <1>3, <2>1, <2>2, <2>4, <3>1, <3>2 DEF NameFits, Named
    <3>4. NamesAgree'
      BY <1>2, <3>2, <3>3 DEF NamesAgree, NameFits, OthersStay, Works
    <3>5. file'.own = file.own \/ "file" \in stale'
      BY <1>3, <2>1, <2>2, <2>4, <3>1 DEF OwnFits
    <3>6. KeepsOwn(t)
      BY <2>4, <3>2 DEF KeepsOwn, OwnFits, Sealing
    <3>7. OwnKept'
      BY <2>2, <3>2, <3>5, <3>6, OwnKeeps DEF OthersStay, KeepsOwn, Parts
    <3> QED
      BY <2>3, <3>4, <3>7 DEF Parts
  <2>5. CASE load[t].op = "update"
    <3>1. file'.dc = load[t].set.dc /\ file'.own = load[t].i /\ load' = [load EXCEPT ![t] = NoLoad]
      BY <1>9, <2>5 DEF FileWritten
    <3>2. OthersStay(t) /\ load'[t] = NoLoad
      BY <3>1, NewRecord
    <3>3. file'.dc = file.dc \/ "tables" \in stale'
      BY <1>3, <2>1, <2>2, <2>5, <3>1 DEF NameFits, BeforeRead
    <3>4. KeepsName(t)
      BY <2>5, <3>2, NoLoadFits DEF KeepsName, NameFits
    <3>5. NamesAgree'
      BY <2>2, <3>2, <3>3, <3>4, NamesKeep DEF OthersStay, KeepsName, Parts
    <3>6. OwnFits(t)'
      BY <3>2, NoLoadFits DEF OwnFits
    <3>7. \A u \in LoadThreads : OwnFits(u)'
      BY <1>2, <3>2, <3>6 DEF OwnFits, OthersStay
    <3>8. OwnKept'
      BY <2>1, <2>2, <2>5, <3>1, <3>7 DEF OwnKept
    <3> QED
      BY <2>3, <3>5, <3>8 DEF Parts
  <2> QED
    BY <2>1, <2>4, <2>5
<1> QED
  BY <1>4, <1>5, <1>6, <1>7, <1>8, <1>9 DEF ToolStep

LEMMA ProcessParts ==
    ASSUME SettingsTypeOK, Shape, Parts, ~InDocker, NEW p \in Nodes,
           Noticed(p) \/ Fork(p) \/ Prepare(p) \/ Listen(p) \/ ListenFails(p)
    PROVE  Parts'
<1>1. CASE Noticed(p)
  <2>1. PICK t \in IdleOf(p) : OthersStay(t) /\ load'[t] = Work("load")
    BY <1>1, NoticedGo
  <2>2. t \in LoadThreads /\ load[t].op = "none" /\ load[t].at = "idle" /\ load'[t].op = "load"
    BY <2>1, Kinds, NoLoadFits, WorkTyped DEF IdleOf
  <2>3. KeepsName(t) /\ KeepsOwn(t)
    BY <2>2, LoadKeeps
  <2>4. UNCHANGED <<file, table, alive, chosen, stale>>
    BY <1>1 DEF Noticed
  <2> QED
    BY <2>1, <2>2, <2>3, <2>4, PartsGo
<1>2. CASE Fork(p)
  <2>1. PICK t \in IdleOf(p) : OthersStay(t) /\ load'[t] = Work("start")
    BY <1>2, ForkGo
  <2>2. t \in LoadThreads /\ OwnerOf[t] = p /\ load[t].op = "none" /\ load[t].at = "idle"
        /\ load'[t].op = "start" /\ load'[t].at = "sysconf"
    BY <2>1, Kinds, NoLoadFits, WorkTyped DEF IdleOf
  <2>3. KeepsName(t) /\ KeepsOwn(t)
    BY <2>2, LoadKeeps
  <2>4. UNCHANGED <<file, table, chosen, stale>> /\ p \in Workers
    BY <1>2 DEF Fork
  <2>5. \A u \in LoadThreads : KeepsName(u) /\ KeepsOwn(u)
    BY <2>1, <2>3 DEF OthersStay, KeepsName, KeepsOwn
  <2>6. HalfWritten'
    BY <2>1, <2>2, <2>4, HalfKeeps DEF Parts
  <2> QED
    BY <2>4, <2>5, <2>6, NamesKeep, OwnKeeps DEF Parts
<1>3. CASE Prepare(p) \/ Listen(p)
  <2>1. UNCHANGED <<file, table, alive, load, chosen, stale>>
    BY <1>3 DEF Prepare, Listen, ServerGoes
  <2> QED
    BY <2>1 DEF Parts, HalfWritten, NamesAgree, OwnKept, NameFits, OwnFits, Named, Works, Loads, LoadIdle
<1>4. CASE ListenFails(p)
  <2>1. p \in Workers /\ p \in alive
    BY <1>4 DEF ListenFails, Shape, ServerFits
  <2> QED
    BY <1>4, <2>1, DiesParts DEF ListenFails, Parts
<1> QED
  BY <1>1, <1>2, <1>3, <1>4

LEMMA AskParts ==
    ASSUME SettingsTypeOK, Shape, OneTool, Parts, NEW op, NEW new \in ThreadRecord, AskedFor(op, new)
    PROVE  Parts'
<1>1. PICK t \in LoadThreads :
              /\ OwnerOf[t] = "tool" /\ OwnerOf[t] \notin Nodes /\ LoadIdle(t) /\ OthersStay(t) /\ load'[t] = new
              /\ \A u \in LoadThreads \ {t} : OwnerOf[u] # "tool"
  BY AskGo
<1>2. /\ NewTool(op, new) /\ UNCHANGED <<file, table, alive>> /\ stale \subseteq stale'
      /\ ("tables" \in stale' => "tables" \in stale)
      /\ chosen' = IF op = "update" THEN new.i ELSE chosen
  BY ConfigurationAssumption DEF AskedFor, AskTool
<1>3. load[t].op = "none" /\ load[t].at = "idle" /\ new.op = op
  BY <1>1, <1>2, Kinds, NoLoadFits DEF NewTool
<1>4. NameFits(t)' /\ OwnFits(t)'
  BY <1>1, <1>2, <1>3 DEF NewTool, NameFits, OwnFits, BeforeRead, Sealing
<1>5. \A u \in LoadThreads : KeepsName(u) /\ KeepsOwn(u)
  BY <1>1, <1>3, <1>4 DEF OthersStay, KeepsName, KeepsOwn
<1>6. HalfWritten' /\ NamesAgree'
  BY <1>1, <1>2, <1>3, <1>5, HalfKeeps, NamesKeep DEF Parts
<1>7. OwnKept'
  <2>1. CASE op = "update"
    <3>1. Works("update")'
      BY <1>1, <1>3, <2>1 DEF Works
    <3>2. "file" \notin stale' => \A u \in LoadThreads : OwnFits(u)'
      BY <1>1, <1>2, <1>4 DEF OwnFits, OthersStay, Parts, OwnKept
    <3> QED
      BY <3>1, <3>2 DEF OwnKept
  <2>2. CASE op # "update"
    BY <1>2, <1>5, <2>2, OwnKeeps DEF Parts
  <2> QED
    BY <2>1, <2>2
<1> QED
  BY <1>6, <1>7 DEF Parts

-----------------------------------------------------------------------------
(* what a process has read stays so. *)

\* A step after which a process that has read still agrees.
ReadStays ==
    /\ file'.dc = file.dc /\ file'.own = file.own /\ (IsSealed => IsSealed')
    /\ Steady' => Steady /\ table' = table

LEMMA WantedStays ==
    ASSUME ReadStays, Steady'
    PROVE  \A n : Wanted(n)' = Wanted(n)
BY DEF ReadStays, Wanted, Found, OfCenter

LEMMA SetStays ==
    ASSUME ReadStays, NEW t \in LoadThreads, SetHolds(t), load'[t].set = load[t].set, load'[t].i = load[t].i
    PROVE  SetHolds(t)'
<1>1. load'[t].set.dc = file'.dc /\ load'[t].set.own = file'.own
  BY DEF SetHolds, ReadStays
<1>2. ASSUME Steady', NEW n \in TableNames
      PROVE  load'[t].set.val[n] = IF n \in Hidden \cup Joined(load'[t].i) THEN Wanted(n)' ELSE 0
  BY <1>2, WantedStays DEF SetHolds, ReadStays
<1> QED
  BY <1>1, <1>2 DEF SetHolds

LEMMA CommonStays ==
    ASSUME ReadStays, NEW p \in Nodes, NEW ns, CommonHolds(p, ns), common'[p] = common[p]
    PROVE  /\ common'[p].dc = file'.dc /\ common'[p].own = file'.own
           /\ Steady' => \A n \in ns : common'[p].val[n] = Wanted(n)'
<1>1. common'[p].dc = file'.dc /\ common'[p].own = file'.own
  BY DEF CommonHolds, ReadStays
<1>2. ASSUME Steady', NEW n \in ns PROVE common'[p].val[n] = Wanted(n)'
  BY <1>2, WantedStays DEF CommonHolds, ReadStays
<1> QED
  BY <1>1, <1>2

LEMMA LoadStays ==
    ASSUME ReadStays, NEW t \in LoadThreads, OwnerOf[t] \in Nodes, LoadHolds(t), load'[t] = load[t],
           common'[OwnerOf[t]] = common[OwnerOf[t]]
    PROVE  LoadHolds(t)'
<1>1. load'[t].at \in Sealing \cup Joining => SetHolds(t)'
  BY SetStays DEF LoadHolds
<1>2. ASSUME load'[t].at \in Told
      PROVE  CommonHolds(OwnerOf[t], IF load[t].at = "orgs" THEN TableNames \ {"orgs"} ELSE TableNames)'
  <2> DEFINE ns == IF load[t].at = "orgs" THEN TableNames \ {"orgs"} ELSE TableNames
  <2>1. CommonHolds(OwnerOf[t], ns)
    BY <1>2 DEF LoadHolds
  <2> HIDE DEF ns
  <2>2. /\ common'[OwnerOf[t]].dc = file'.dc /\ common'[OwnerOf[t]].own = file'.own
        /\ Steady' => \A n \in ns : common'[OwnerOf[t]].val[n] = Wanted(n)'
    BY <2>1, CommonStays
  <2>3. ns' = ns
    BY DEF ns
  <2> QED
    BY <2>2, <2>3 DEF CommonHolds, ns
<1>3. load'[t].at \in Joining \cup Told => IsSealed'
  BY DEF LoadHolds, ReadStays
<1> QED
  BY <1>1, <1>2, <1>3 DEF LoadHolds

\* A process whose loads stay, or hold anew.
LEMMA HoldsOn ==
    ASSUME ReadStays, NEW p \in Nodes, ProcessHolds(p), common'[p] = common[p],
           listeners'[p] = listeners[p], p \notin changed' => p \notin changed, Loads(p)' = Loads(p),
           \A u \in Loads(p) : load'[u] = load[u]
    PROVE  ProcessHolds(p)'
<1>1. ASSUME listeners'[p] = 1, p \notin changed' PROVE CommonHolds(p, TableNames)' /\ IsSealed'
  <2>1. CommonHolds(p, TableNames) /\ IsSealed
    BY <1>1 DEF ProcessHolds
  <2>2. /\ common'[p].dc = file'.dc /\ common'[p].own = file'.own
        /\ Steady' => \A n \in TableNames : common'[p].val[n] = Wanted(n)'
    BY <2>1, CommonStays
  <2> QED
    BY <2>1, <2>2 DEF CommonHolds, ReadStays
<1>2. ASSUME NEW u \in Loads(p)' PROVE LoadHolds(u)'
  <2>1. u \in LoadThreads /\ OwnerOf[u] = p
    BY DEF Loads
  <2>2. u \in Loads(p) /\ load'[u] = load[u]
    BY <2>1
  <2>3. LoadHolds(u)
    BY <2>2 DEF ProcessHolds
  <2> QED
    BY <2>1, <2>2, <2>3, LoadStays
<1> QED
  BY <1>1, <1>2 DEF ProcessHolds

\* A thread moves, and its own process, if it has one, holds.
LEMMA MovesOn ==
    ASSUME SettingsTypeOK, ProcessesHold, ReadStays, NEW t \in LoadThreads, OthersStay(t), alive' \subseteq alive \cup {OwnerOf[t]},
           stale \subseteq stale' \cup {OwnerOf[t]}, changed \subseteq changed' \cup {OwnerOf[t]},
           \A p \in Nodes : p # OwnerOf[t] => common'[p] = common[p] /\ listeners'[p] = listeners[p],
           OwnerOf[t] \in Nodes /\ OwnerOf[t] \in alive' /\ OwnerOf[t] \notin stale' => ProcessHolds(OwnerOf[t])'
    PROVE  (\A p \in alive' : p \in Nodes) => ProcessesHold'
<1> SUFFICES ASSUME \A p \in alive' : p \in Nodes, NEW p \in alive', p \notin stale' PROVE ProcessHolds(p)'
  BY DEF ProcessesHold
<1>1. CASE p = OwnerOf[t]
  BY <1>1
<1>2. CASE p # OwnerOf[t]
  <2>1. p \in Nodes /\ p \in alive /\ p \notin stale
    BY <1>2
  <2>2. ProcessHolds(p)
    BY <2>1 DEF ProcessesHold
  <2>3. Loads(p)' = Loads(p) /\ \A u \in Loads(p) : load'[u] = load[u]
    BY <1>2 DEF Loads, LoadIdle, OthersStay
  <2>4. listeners'[p] = listeners[p] /\ (p \notin changed' => p \notin changed)
    BY <1>2, <2>1
  <2> QED
    BY <1>2, <2>1, <2>2, <2>3, <2>4, HoldsOn
<1> QED
  BY <1>1, <1>2

\* What a process reads is so when its load goes on.
LEMMA OwnHolds ==
    ASSUME SettingsTypeOK, Shape, NEW t \in LoadThreads, ~LoadIdle(t), IsLoad(t), OthersStay(t), ~LoadIdle(t)',
           listeners' = listeners, LoadHolds(t)'
    PROVE  ProcessHolds(OwnerOf[t])'
<1>1. listeners'[OwnerOf[t]] = 0 /\ Loads(OwnerOf[t]) = {t}
  BY LoadsAlone
<1>2. (\A u \in Loads(OwnerOf[t])' : u = t) /\ t \in Loads(OwnerOf[t])'
  BY <1>1 DEF Loads, LoadIdle, OthersStay
<1> QED
  BY <1>1, <1>2 DEF ProcessHolds

\* Nothing is at work on the tables that was not before.
LEMMA SteadyStays ==
    ASSUME NEW t \in LoadThreads, OthersStay(t), "tables" \in stale => "tables" \in stale',
           load[t].op \in {"set", "rename"} => load'[t].op = load[t].op \/ "tables" \in stale'
    PROVE  Steady' => Steady
BY DEF Steady, Works, OthersStay

\* All processes that watch are told, and those that have read are excused.
LEMMA Announced ==
    ASSUME SettingsTypeOK, Shape, ProcessesHold, NEW t \in LoadThreads, ~LoadIdle(t), OthersStay(t),
           alive' = alive, listeners' = listeners, Notify,
           stale \cup Missing \subseteq stale', load[t].at \notin BeforeRead, IsLoad(t) => ~LoadIdle(t)'
    PROVE  ProcessesHold'
<1> SUFFICES ASSUME NEW p \in alive, p \notin stale' PROVE ProcessHolds(p)'
  BY DEF ProcessesHold
<1>1. p \in Nodes /\ p \notin Missing
  BY DEF SettingsTypeOK
<1>2. listeners'[p] = 1 => p \in changed'
  BY <1>1 DEF Notify
<1>4. listeners'[p] = 1 \/ Loads(p)' # {}
  <2>1. listeners[p] = 1 \/ \E u \in LoadThreads : u \in Loads(p)
    BY DEF ProcessesHold, ProcessHolds, Loads
  <2>2. ASSUME NEW u \in LoadThreads, u \in Loads(p) PROVE u \in Loads(p)'
    <3>1. u = t => IsLoad(t)
      BY <1>1, <2>2, Kinds DEF Loads
    <3> QED
      BY <2>2, <3>1 DEF Loads, LoadIdle, OthersStay
  <2> QED
    BY <2>1, <2>2
<1>3. ASSUME NEW u \in Loads(p)' PROVE LoadHolds(u)'
  <2>1. u \in LoadThreads /\ OwnerOf[u] = p /\ load'[u].at # "idle"
    BY DEF Loads, LoadIdle
  <2>2. u \in Loads(p)
    BY <2>1 DEF Loads, LoadIdle, OthersStay
  <2>3. listeners[p] = 0
    BY <1>1, <2>2 DEF Shape, WatchesOrLoads
  <2>4. load[u].at \in BeforeRead
    BY <1>1, <2>2, <2>3 DEF Missing, LoadAt, BeforeRead
  <2>5. load'[u] = load[u]
    BY <2>1, <2>4 DEF OthersStay
  <2>6. load'[u].at \notin Sealing \cup Joining \cup Told
    BY <2>4, <2>5 DEF BeforeRead, Sealing, Joining, Told
  <2> QED
    BY <2>6 DEF LoadHolds
<1> QED
  BY <1>2, <1>3, <1>4 DEF ProcessHolds

\* Half-way steps that say nothing new: the file, the tables and Common stay.
LEMMA FileStays ==
    ASSUME NEW t \in LoadThreads, OthersStay(t), "tables" \in stale => "tables" \in stale',
           load[t].op \in {"set", "rename"} => load'[t].op = load[t].op \/ "tables" \in stale',
           file'.dc = file.dc, file'.own = file.own, file'.plain => file.plain, table' = table
    PROVE  ReadStays
BY SteadyStays DEF ReadStays, IsSealed

LEMMA DiesHolds ==
    ASSUME SettingsTypeOK, Shape, ProcessesHold, NEW p \in Workers, p \in alive, Dies(p), UNCHANGED <<file, table, common>>
    PROVE  ProcessesHold'
<1>1. /\ alive' \subseteq alive /\ p \notin alive' /\ p \in Nodes /\ stale \subseteq stale'
      /\ "tables" \in stale' <=> "tables" \in stale
  BY DEF Dies, SettingsTypeOK
<1>2. \A u \in LoadThreads : load'[u] = IF OwnerOf[u] \in {p} \cup (alive \ alive') THEN NoLoad ELSE load[u]
  BY DEF Dies
<1>3. changed' = changed \cap alive' /\ \A q \in Nodes : q \in alive' => listeners'[q] = listeners[q]
  BY DEF Dies
<1>4. ReadStays
  <2>1. \A u \in LoadThreads : load[u].op \in {"set", "rename"} => load'[u] = load[u]
    <3> SUFFICES ASSUME NEW u \in LoadThreads, load[u].op \in {"set", "rename"} PROVE load'[u] = load[u]
      OBVIOUS
    <3>1. ~LoadIdle(u) /\ ~IsLoad(u)
      BY Kinds, NoLoadFits DEF IsLoad
    <3>2. OwnerOf[u] \notin Nodes
      BY <3>1, Kinds
    <3> QED
      BY <1>1, <1>2, <3>2 DEF SettingsTypeOK
  <2>2. Steady' => Steady
    BY <1>1, <2>1 DEF Steady, Works
  <2> QED
    BY <2>2 DEF ReadStays, IsSealed
<1>5. ASSUME NEW q \in alive', q \notin stale' PROVE ProcessHolds(q)'
  <2>1. q \in alive /\ q \in Nodes /\ ProcessHolds(q) /\ common'[q] = common[q]
    BY <1>1, <1>5 DEF ProcessesHold, SettingsTypeOK
  <2>2. Loads(q)' = Loads(q) /\ \A u \in Loads(q) : load'[u] = load[u]
    BY <1>1, <1>2 DEF Loads, LoadIdle
  <2> QED
    BY <1>3, <1>4, <1>5, <2>1, <2>2, HoldsOn
<1> QED
  BY <1>5 DEF ProcessesHold

LEMMA FailsHolds ==
    ASSUME SettingsTypeOK, Shape, ProcessesHold, NEW t \in LoadThreads, ~LoadIdle(t), Fails(t)
    PROVE  ProcessesHold'
<1>1. CASE Quits(t)
  <2>1. OwnerOf[t] \in alive
    BY <1>1, Kinds DEF Quits, IsLoad
  <2> QED
    BY <1>1, <2>1, DiesHolds DEF Fails, Quits
<1>2. CASE ~Quits(t)
  <2>1. GivesUp(t) /\ UNCHANGED <<file, table, common>>
    BY <1>2 DEF Fails, Quits
  <2>2. load' = [load EXCEPT ![t] = IF load[t].op \in {"set", "redis"} THEN [load[t] EXCEPT !.at = "touch"]
                                   ELSE NoLoad]
    BY <2>1 DEF GivesUp
  <2>3. OthersStay(t) /\ (load[t].op = "set" => load'[t].op = "set")
    BY <2>2 DEF OthersStay, SettingsTypeOK, ThreadRecord
  <2>4. alive' = alive /\ changed' = changed /\ stale \subseteq stale'
        /\ (load[t].op = "rename" => "tables" \in stale')
        /\ IF IsLoad(t) THEN OwnerOf[t] \in stale' ELSE listeners' = listeners
    BY <2>1 DEF GivesUp, IsLoad
  <2>5. ReadStays
    BY <2>1, <2>3, <2>4, FileStays
  <2>6. \A p \in Nodes : p # OwnerOf[t] => listeners'[p] = listeners[p]
    <3>1. CASE IsLoad(t)
      BY <2>1, <3>1 DEF GivesUp, SettingsTypeOK
    <3>2. CASE ~IsLoad(t)
      BY <2>4, <3>2
    <3> QED
      BY <3>1, <3>2
  <2>7. ~IsLoad(t) => OwnerOf[t] \notin Nodes
    BY Kinds
  <2>8. \A p \in alive' : p \in Nodes
    BY <2>4 DEF SettingsTypeOK
  <2> QED
    BY <2>1, <2>3, <2>4, <2>5, <2>6, <2>7, <2>8, MovesOn
<1> QED
  BY <1>1, <1>2

\* The load of a process goes on.
LEMMA LoadMoves ==
    ASSUME SettingsTypeOK, Shape, ProcessesHold, NEW t \in LoadThreads, ~LoadIdle(t), IsLoad(t), OthersStay(t),
           load'[t].op = load[t].op, OwnerOf[t] \in stale' \/ ~LoadIdle(t)',
           UNCHANGED <<alive, listeners, table>>, changed \subseteq changed',
           stale \subseteq stale' \cup {OwnerOf[t]},
           file'.dc = file.dc, file'.own = file.own, file'.plain => file.plain,
           \A p \in Nodes : p # OwnerOf[t] => common'[p] = common[p],
           OwnerOf[t] \notin stale' => LoadHolds(t)'
    PROVE  ProcessesHold'
<1>1. OwnerOf[t] \in Nodes /\ OwnerOf[t] # "tables"
  <2>1. OwnerOf[t] \in Nodes
    BY LoadsAlone
  <2> QED
    BY <2>1, ConfigurationAssumption
<1>2. ReadStays
  BY <1>1, FileStays
<1>3. OwnerOf[t] \notin stale' => ProcessHolds(OwnerOf[t])'
  BY OwnHolds
<1>4. \A p \in alive' : p \in Nodes
  BY DEF SettingsTypeOK
<1> QED
  BY <1>2, <1>3, <1>4, MovesOn

\* That of a tool does, or the tool ends, when nothing else happens.
LEMMA ToolMoves ==
    ASSUME SettingsTypeOK, Shape, ProcessesHold, NEW t \in LoadThreads, ~LoadIdle(t), ~IsLoad(t), OthersStay(t),
           load'[t].op = load[t].op, UNCHANGED <<alive, listeners, table, common>>, changed \subseteq changed',
           stale \subseteq stale', file'.dc = file.dc, file'.own = file.own, file'.plain => file.plain
    PROVE  ProcessesHold'
<1>1. OwnerOf[t] \notin Nodes
  BY Kinds
<1>2. ReadStays
  BY FileStays
<1>3. \A p \in alive' : p \in Nodes
  BY DEF SettingsTypeOK
<1> QED
  BY <1>1, <1>2, <1>3, MovesOn

LEMMA Moves ==
    ASSUME SettingsTypeOK, Shape, ProcessesHold, NEW t \in LoadThreads, ~LoadIdle(t), OthersStay(t),
           load'[t].op = load[t].op, UNCHANGED <<alive, listeners, table, common>>, changed \subseteq changed',
           stale \subseteq stale', file'.dc = file.dc, file'.own = file.own, file'.plain => file.plain,
           IsLoad(t) => LoadHolds(t)' /\ ~LoadIdle(t)'
    PROVE  ProcessesHold'
<1>1. CASE IsLoad(t)
  BY <1>1, LoadMoves
<1>2. CASE ~IsLoad(t)
  BY <1>2, ToolMoves
<1> QED
  BY <1>1, <1>2

\* A process that is not excused has read what its load holds.
LEMMA LoadIsHeld ==
    ASSUME SettingsTypeOK, Shape, ProcessesHold, NEW t \in LoadThreads, ~LoadIdle(t), IsLoad(t), OwnerOf[t] \notin stale
    PROVE  LoadHolds(t)
<1>1. OwnerOf[t] \in alive /\ t \in Loads(OwnerOf[t])
  BY LoadsAlone
<1> QED
  BY <1>1 DEF ProcessesHold, ProcessHolds

LEMMA LoadSysHolds ==
    ASSUME SettingsTypeOK, Shape, ProcessesHold, NEW t \in LoadThreads, LoadSysConf(t) \/ SaveSysConf(t)
    PROVE  ProcessesHold'
<1>0. ~LoadIdle(t)
  BY DEF LoadSysConf, SaveSysConf, LoadAt, LoadIdle
<1>1. CASE Fails(t)
  BY <1>0, <1>1, FailsHolds
<1>2. CASE LoadSysConf(t) /\ sysconf
  <2>1. LoadGoes(t, "saving") /\ UNCHANGED <<file, alive, listeners, table, common, changed, stale>>
    BY <1>2 DEF LoadSysConf
  <2>2. OthersStay(t) /\ load'[t].op = load[t].op /\ load'[t].at = "saving"
    BY <2>1, PlaceGo
  <2>3. LoadHolds(t)'
    BY <2>2 DEF LoadHolds, Sealing, Joining, Told
  <2> QED
    BY <1>0, <2>1, <2>2, <2>3, Moves DEF LoadIdle
<1>3. CASE SaveSysConf(t)
  <2> DEFINE place == IF load[t].op = "redis" THEN "touch" ELSE "read"
  <2>1. LoadGoes(t, place) /\ UNCHANGED <<file, alive, listeners, table, common, changed, stale>>
    BY <1>3 DEF SaveSysConf
  <2>2. OthersStay(t) /\ load'[t].op = load[t].op /\ load'[t].at = place
    BY <2>1, PlaceGo
  <2>3. LoadHolds(t)'
    BY <2>2 DEF LoadHolds, Sealing, Joining, Told
  <2> QED
    BY <1>0, <2>1, <2>2, <2>3, Moves DEF LoadIdle
<1> QED
  BY <1>1, <1>2, <1>3 DEF LoadSysConf

LEMMA ReadHolds ==
    ASSUME SettingsTypeOK, Shape, ProcessesHold, NEW t \in LoadThreads, ReadSettings(t)
    PROVE  ProcessesHold'
<1>0. ~LoadIdle(t) /\ load[t].at = "read"
  BY DEF ReadSettings, LoadAt, LoadIdle
<1>1. CASE ~file.whole
  BY <1>0, <1>1, FailsHolds DEF ReadSettings
<1>2. CASE file.whole
  <2>1. UNCHANGED <<file, alive, listeners, table, common, changed>>
        /\ stale' = IF IsLoad(t) THEN stale \ {OwnerOf[t]} ELSE stale
    BY <1>2 DEF ReadSettings
  <2>2. /\ OthersStay(t) /\ load'[t].at = IF Seals THEN "seal" ELSE AfterRead(t)
        /\ load'[t].op = load[t].op /\ load'[t].i = load[t].i /\ load'[t].set = InFile(file)
    BY <1>2, ReadGo
  <2>3. CASE ~IsLoad(t)
    BY <1>0, <2>1, <2>2, <2>3, ToolMoves
  <2>4. CASE IsLoad(t)
    <3>1. load[t].i = 1 /\ AfterRead(t) \in {"connect", "join"}
      BY <1>0, <2>4, LoadPlace, AfterReadPlace DEF BeforeRead
    <3>2. SetHolds(t)'
      <4>1. load'[t].set.dc = file'.dc /\ load'[t].set.own = file'.own
        BY <2>1, <2>2, InFileTyped
      <4>2. ASSUME NEW n \in TableNames
            PROVE  load'[t].set.val[n] = IF n \in Hidden \cup Joined(load'[t].i) THEN Wanted(n)' ELSE 0
        BY <2>2, <3>1, InFileTyped, TheJoined DEF Wanted
      <4> QED
        BY <4>1, <4>2 DEF SetHolds
    <3>3. load'[t].at \in Joining \cup Told => IsSealed'
      <4>1. ~Seals => IsSealed
        BY DEF Seals, IsSealed
      <4> QED
        BY <2>1, <2>2, <4>1 DEF Joining, Told, IsSealed
    <3>4. load'[t].at \notin Told
      BY <2>2, <3>1 DEF Told
    <3>5. LoadHolds(t)'
      BY <3>2, <3>3, <3>4 DEF LoadHolds
    <3> QED
      BY <1>0, <2>1, <2>2, <2>4, <3>1, <3>5, LoadMoves DEF LoadIdle
  <2> QED
    BY <2>3, <2>4
<1> QED
  BY <1>1, <1>2

LEMMA SealHolds ==
    ASSUME SettingsTypeOK, Shape, ProcessesHold, NEW t \in LoadThreads, Seal(t) \/ Sealed(t)
    PROVE  ProcessesHold'
<1>0. ~LoadIdle(t) /\ load[t].at \in Sealing
  BY DEF Seal, Sealed, LoadAt, LoadIdle, Sealing
<1>1. CASE Seal(t)
  <2>1. /\ LoadGoes(t, "sealing") /\ UNCHANGED <<table, common, alive, listeners, stale>>
        /\ file' = [file EXCEPT !.whole = FALSE] /\ Notify
    BY <1>1 DEF Seal, WriteBegins
  <2>2. /\ OthersStay(t) /\ load'[t].op = load[t].op /\ load'[t].at = "sealing" /\ load'[t].set = load[t].set
        /\ load'[t].i = load[t].i
    BY <2>1, PlaceGo
  <2>3. file'.dc = file.dc /\ file'.own = file.own /\ file'.plain = file.plain /\ changed \subseteq changed'
    BY <2>1 DEF SettingsTypeOK, Notify
  <2>4. CASE ~IsLoad(t)
    BY <1>0, <2>1, <2>2, <2>3, <2>4, ToolMoves
  <2>5. CASE IsLoad(t)
    <3>1. ReadStays
      BY <2>1, <2>2, <2>3, FileStays
    <3>2. ASSUME OwnerOf[t] \notin stale' PROVE LoadHolds(t)'
      <4>1. SetHolds(t)
        BY <1>0, <2>1, <2>5, <3>2, LoadIsHeld DEF LoadHolds
      <4>2. SetHolds(t)'
        BY <2>2, <3>1, <4>1, SetStays
      <4> QED
        BY <2>2, <4>2 DEF LoadHolds, Sealing, Joining, Told
    <3> QED
      BY <1>0, <2>1, <2>2, <2>3, <2>5, <3>2, LoadMoves DEF LoadIdle
  <2> QED
    BY <2>4, <2>5
<1>2. CASE Sealed(t)
  <2>1. /\ LoadGoes(t, AfterRead(t)) /\ UNCHANGED <<table, common, alive, listeners>> /\ Notify
        /\ file' = [dc |-> load[t].set.dc, own |-> load[t].set.own, plain |-> FALSE, whole |-> TRUE]
    BY <1>2 DEF Sealed
  <2>2. /\ OthersStay(t) /\ load'[t].op = load[t].op /\ load'[t].at = AfterRead(t) /\ load'[t].set = load[t].set
        /\ load'[t].i = load[t].i
    BY <2>1, PlaceGo
  <2>3. CASE load[t].set # InFile(file)
    <3>1. stale \cup Missing \subseteq stale'
      BY <1>2, <2>3 DEF Sealed
    <3>2. load[t].at \notin BeforeRead
      BY <1>0 DEF BeforeRead, Sealing
    <3> QED
      BY <1>0, <2>1, <2>2, <3>1, <3>2, AfterReadPlace, Announced DEF LoadIdle, Sealing
  <2>4. CASE load[t].set = InFile(file)
    <3>1. file'.dc = file.dc /\ file'.own = file.own /\ file'.plain = FALSE /\ stale' = stale
          /\ changed \subseteq changed'
      BY <1>2, <2>1, <2>4, InFileTyped DEF Sealed, Notify
    <3>2. CASE ~IsLoad(t)
      BY <1>0, <2>1, <2>2, <3>1, <3>2, ToolMoves
    <3>3. CASE IsLoad(t)
      <4>1. ReadStays
        BY <2>1, <2>2, <3>1, FileStays
      <4>2. AfterRead(t) \in {"connect", "join"}
        BY <1>0, <3>3, AfterReadPlace DEF Sealing
      <4>3. ASSUME OwnerOf[t] \notin stale' PROVE LoadHolds(t)'
        <5>1. SetHolds(t)
          BY <1>0, <3>1, <3>3, <4>3, LoadIsHeld DEF LoadHolds
        <5>2. SetHolds(t)'
          BY <2>2, <4>1, <5>1, SetStays
        <5>3. IsSealed'
          BY <3>1 DEF IsSealed
        <5> QED
          BY <2>2, <4>2, <5>2, <5>3 DEF LoadHolds, Told
      <4> QED
        BY <1>0, <2>1, <2>2, <3>1, <3>3, <4>3, AfterReadPlace, LoadMoves DEF LoadIdle, Sealing
    <3> QED
      BY <3>2, <3>3
  <2> QED
    BY <2>3, <2>4
<1> QED
  BY <1>1, <1>2

\* What the tables say of those that are joined next.
LEMMA JoinHolds ==
    ASSUME SettingsTypeOK, Shape, NEW t \in LoadThreads, JoinGoes(t), ReadStays, SetHolds(t)
    PROVE  SetHolds(t)'
<1> DEFINE m == Tables[load[t].i]  set == load[t].set
<1>1. /\ load[t].i \in 1 .. 8 /\ load'[t].i = load[t].i + 1
      /\ load'[t].set.dc = set.dc /\ load'[t].set.own = set.own
      /\ load'[t].set.val = Joins(t, m)
  BY DEF JoinGoes, JoinsTable
<1>2. Joined(load'[t].i) = Joined(load[t].i) \cup {m} /\ m \notin Joined(load[t].i)
  BY <1>1, TheJoined
<1>3. load'[t].set.dc = file'.dc /\ load'[t].set.own = file'.own
  BY <1>1 DEF SetHolds, ReadStays
<1>4. ASSUME Steady', NEW n \in TableNames
      PROVE  load'[t].set.val[n] = IF n \in Hidden \cup Joined(load'[t].i) THEN Wanted(n)' ELSE 0
  <2>1. Steady /\ Wanted(n)' = Wanted(n)
    BY <1>4, WantedStays DEF ReadStays
  <2>2. set.dc = file.dc /\ set.val[n] = IF n \in Hidden \cup Joined(load[t].i) THEN Wanted(n) ELSE 0
    BY <2>1 DEF SetHolds
  <2>3. load'[t].set.val[n] = IF n = m THEN FromDB(set, n) ELSE set.val[n]
    <3> HIDE DEF m
    <3>1. set.val \in [TableNames -> Nat]
      BY DEF SettingsTypeOK, ThreadRecord, Settings
    <3> QED
      BY <1>1, <3>1 DEF Joins
  <2> HIDE DEF m
  <2>4. CASE n # m
    BY <2>1, <2>2, <2>3, <2>4, <1>2
  <2>5. CASE n = m /\ n \in Hidden
    BY <2>1, <2>2, <2>3, <2>5 DEF FromDB, Wanted
  <2>6. CASE n = m /\ n \notin Hidden
    BY <2>1, <2>2, <2>3, <2>6, <1>2 DEF FromDB, Wanted
  <2> QED
    BY <2>4, <2>5, <2>6
<1> QED
  BY <1>3, <1>4 DEF SetHolds

\* What is set in Common are the settings that were read, also where Common keeps what it has.
LEMMA CommonIsSet ==
    ASSUME SettingsTypeOK, Shape, NamesAgree, NEW t \in LoadThreads, SetCommon(t), SetHolds(t), OwnerOf[t] \in Nodes
    PROVE  /\ common'[OwnerOf[t]].dc = file.dc /\ common'[OwnerOf[t]].own = file.own
           /\ Steady => \A n \in TableNames \ {"orgs"} : common'[OwnerOf[t]].val[n] = Wanted(n)
<1> DEFINE p == OwnerOf[t]
           set == load[t].set
           vals == [n \in TableNames |-> IF set.val[n] = 0 /\ n \notin Lists THEN common[p].val[n] ELSE set.val[n]]
<1>0. load[t].at = "common" /\ set \in Settings
  BY DEF SetCommon, LoadAt, SettingsTypeOK, ThreadRecord
<1>1. load[t].i = 9
  BY <1>0, LoadPlace DEF LoadIdle
<1>2. common'[p] = [set EXCEPT !.val = vals]
  BY DEF SetCommon, SettingsTypeOK
<1>3. common'[p].dc = file.dc /\ common'[p].own = file.own /\ common'[p].val = vals
  <2> HIDE DEF vals
  <2> QED
    BY <1>0, <1>2 DEF SetHolds, Settings
<1>4. ASSUME Steady, NEW n \in TableNames \ {"orgs"} PROVE vals[n] = Wanted(n)
  <2>1. set.val[n] = Wanted(n)
    BY <1>1, <1>4, TheJoined DEF SetHolds
  <2>2. CASE n \in Lists \/ n \in Hidden
    BY <2>1, <2>2 DEF Wanted
  <2>3. CASE n \notin Lists /\ n \notin Hidden
    <3>1. n \in {"global", "center", "nfs", "platform"}
      BY <2>3, TheTables DEF Lists
    <3>2. n \in {"center", "platform"} => table[n].dc = file.dc
      BY <1>4 DEF Steady, NamesAgree, Named
    <3>3. table[n].value # 0 /\ Source(n) = n
      BY <3>1 DEF SettingsTypeOK, Source
    <3>4. Wanted(n) # 0
      BY <2>3, <3>1, <3>2, <3>3 DEF Wanted, Found, OfCenter, Keyed
    <3> QED
      BY <2>1, <3>4
  <2> QED
    BY <2>2, <2>3
<1> HIDE DEF vals
<1> QED
  BY <1>3, <1>4

LEMMA JoiningHolds ==
    ASSUME SettingsTypeOK, Shape, ProcessesHold, NEW t \in LoadThreads,
           Connect(t) \/ Join(t) \/ JoinThrows(t) \/ LoadFails(t) \/ PlatformUnread(t)
    PROVE  ProcessesHold'
<1>0. ~LoadIdle(t)
  BY DEF Connect, Join, JoinThrows, LoadFails, PlatformUnread, LoadAt, LoadIdle
<1>1. CASE Fails(t)
  BY <1>0, <1>1, FailsHolds
<1>2. CASE Connect(t)
  <2>1. load[t].at = "connect" /\ LoadGoes(t, "join")
        /\ UNCHANGED <<file, alive, listeners, table, common, changed, stale>>
    BY <1>2 DEF Connect, LoadAt
  <2>2. /\ OthersStay(t) /\ load'[t].op = load[t].op /\ load'[t].at = "join" /\ load'[t].set = load[t].set
        /\ load'[t].i = load[t].i
    BY <2>1, PlaceGo
  <2>3. IsLoad(t)
    BY <1>0, <2>1, LoadPlace DEF Joining
  <2>4. ReadStays
    BY <2>1, <2>2, FileStays
  <2>5. ASSUME OwnerOf[t] \notin stale' PROVE LoadHolds(t)'
    <3>1. SetHolds(t) /\ IsSealed
      BY <1>0, <2>1, <2>3, <2>5, LoadIsHeld DEF LoadHolds, Joining
    <3>2. SetHolds(t)' /\ IsSealed'
      BY <2>2, <2>4, <3>1, SetStays DEF ReadStays
    <3> QED
      BY <2>2, <3>2 DEF LoadHolds, Told
  <2> QED
    BY <1>0, <2>1, <2>2, <2>3, <2>5, LoadMoves DEF LoadIdle
<1>3. CASE Join(t) /\ JoinGoes(t)
  <2>1. UNCHANGED <<file, alive, listeners, table, common, changed, stale>>
    BY <1>3 DEF JoinGoes
  <2>2. OthersStay(t) /\ load[t].at = "join" /\ load'[t].op = load[t].op /\ load'[t].at \in {"join", "common"} /\ IsLoad(t)
    BY <1>3 DEF JoinGoes, JoinsTable
  <2>3. ReadStays
    BY <2>1, <2>2, FileStays
  <2>4. ASSUME OwnerOf[t] \notin stale' PROVE LoadHolds(t)'
    <3>1. SetHolds(t) /\ IsSealed
      BY <1>0, <2>1, <2>2, <2>4, LoadIsHeld DEF LoadHolds, Joining
    <3>2. SetHolds(t)' /\ IsSealed'
      BY <1>3, <2>3, <3>1, JoinHolds DEF ReadStays
    <3> QED
      BY <2>2, <3>2 DEF LoadHolds, Told
  <2> QED
    BY <1>0, <2>1, <2>2, <2>4, LoadMoves DEF LoadIdle
<1>4. CASE PlatformUnread(t)
  <2>1. UNCHANGED <<file, alive, listeners, table, common, changed>> /\ stale' = stale \cup {OwnerOf[t]}
    BY <1>4, UnreadEffect
  <2>2. PICK vals : JoinsTable(t, vals)
    BY <1>4, UnreadEffect
  <2>3. OthersStay(t) /\ load'[t].op = load[t].op /\ IsLoad(t)
    BY <2>2 DEF JoinsTable
  <2> QED
    BY <1>0, <2>1, <2>3, LoadMoves
<1>5. CASE JoinThrows(t)
  <2> DEFINE p == OwnerOf[t]
  <2>1. /\ IsLoad(t) /\ OthersStay(t) /\ p \in Nodes /\ p \in stale' /\ stale \subseteq stale'
        /\ UNCHANGED <<file, alive, listeners, table, common, changed>>
    BY <1>5, ThrowEffect
  <2>2. ReadStays
    BY <2>1, FileStays DEF IsLoad
  <2>3. \A q \in alive' : q \in Nodes
    BY <2>1 DEF SettingsTypeOK
  <2> QED
    BY <2>1, <2>2, <2>3, MovesOn
<1> QED
  BY <1>1, <1>2, <1>3, <1>4, <1>5, JoinEffect DEF LoadFails

LEMMA ToldHolds ==
    ASSUME SettingsTypeOK, Shape, NamesAgree, ProcessesHold, NEW t \in LoadThreads, SetCommon(t) \/ LoadOrgs(t)
    PROVE  ProcessesHold'
<1> DEFINE p == OwnerOf[t]
<1>0. ~LoadIdle(t) /\ load[t].at \in Joining \cup Told
  BY DEF SetCommon, LoadOrgs, LoadAt, LoadIdle, Joining, Told
<1>1. IsLoad(t) /\ p \in Nodes
  BY <1>0, LoadPlace, LoadsAlone
<1>2. UNCHANGED <<file, alive, listeners, table, changed, stale>>
  BY DEF SetCommon, LoadOrgs
<1>3. Wanted("orgs") = table["orgs"].value /\ "orgs" \in TableNames
  BY TheTables, ConfigurationAssumption DEF Wanted, Found, Keyed, Source
<1>4. CASE SetCommon(t)
  <2>1. OthersStay(t) /\ load'[t].op = load[t].op /\ load'[t].at = "orgs" /\ load[t].at = "common"
    BY <1>4, PlaceGo DEF SetCommon, LoadAt
  <2>2. ReadStays
    BY <1>2, <2>1, FileStays
  <2>3. ASSUME p \notin stale' PROVE LoadHolds(t)'
    <3>1. SetHolds(t) /\ IsSealed
      BY <1>0, <1>1, <1>2, <2>1, <2>3, LoadIsHeld DEF LoadHolds, Joining
    <3>2. /\ common'[p].dc = file'.dc /\ common'[p].own = file'.own
          /\ Steady => \A n \in TableNames \ {"orgs"} : common'[p].val[n] = Wanted(n)
      BY <1>1, <1>2, <1>4, <3>1, CommonIsSet
    <3>3. ASSUME Steady', NEW n \in TableNames \ {"orgs"} PROVE common'[p].val[n] = Wanted(n)'
      BY <2>2, <3>2, <3>3, WantedStays DEF ReadStays
    <3>4. IsSealed'
      BY <2>2, <3>1 DEF ReadStays
    <3> QED
      BY <2>1, <3>2, <3>3, <3>4 DEF LoadHolds, CommonHolds, Sealing, Joining
  <2>4. \A q \in Nodes : q # p => common'[q] = common[q]
    BY <1>4 DEF SetCommon, SettingsTypeOK
  <2> QED
    BY <1>0, <1>1, <1>2, <2>1, <2>3, <2>4, LoadMoves DEF LoadIdle
<1>5. CASE LoadOrgs(t)
  <2>1. OthersStay(t) /\ load'[t].op = load[t].op /\ load'[t].at = "watch" /\ load[t].at = "orgs"
    BY <1>5, PlaceGo DEF LoadOrgs, LoadAt
  <2>2. ReadStays
    BY <1>2, <2>1, FileStays
  <2>3. common' = [common EXCEPT ![p].val["orgs"] = table["orgs"].value]
    BY <1>5 DEF LoadOrgs
  <2>4. /\ common'[p].dc = common[p].dc /\ common'[p].own = common[p].own
        /\ \A n \in TableNames : common'[p].val[n] = IF n = "orgs" THEN table["orgs"].value ELSE common[p].val[n]
    BY <1>1, <2>3 DEF SettingsTypeOK, Settings
  <2>5. ASSUME p \notin stale' PROVE LoadHolds(t)'
    <3>1. CommonHolds(p, TableNames \ {"orgs"}) /\ IsSealed
      BY <1>0, <1>1, <1>2, <2>1, <2>5, LoadIsHeld DEF LoadHolds, Told
    <3>2. common'[p].dc = file'.dc /\ common'[p].own = file'.own
      BY <1>2, <2>4, <3>1 DEF CommonHolds
    <3>3. ASSUME Steady', NEW n \in TableNames PROVE common'[p].val[n] = Wanted(n)'
      <4>1. Steady /\ Wanted(n)' = Wanted(n)
        BY <2>2, <3>3, WantedStays DEF ReadStays
      <4> QED
        BY <1>3, <2>4, <3>1, <4>1 DEF CommonHolds
    <3>4. IsSealed'
      BY <2>2, <3>1 DEF ReadStays
    <3> QED
      BY <2>1, <3>2, <3>3, <3>4 DEF LoadHolds, CommonHolds, Sealing, Joining
  <2>6. \A q \in Nodes : q # p => common'[q] = common[q]
    BY <2>3 DEF SettingsTypeOK
  <2> QED
    BY <1>0, <1>1, <1>2, <2>1, <2>5, <2>6, LoadMoves DEF LoadIdle
<1> QED
  BY <1>4, <1>5

LEMMA LoadedHolds ==
    ASSUME SettingsTypeOK, Shape, ProcessesHold, NEW t \in LoadThreads, Loaded(t)
    PROVE  ProcessesHold'
<1> DEFINE p == OwnerOf[t]
<1>0. ~LoadIdle(t) /\ load[t].at = "watch"
  BY DEF Loaded, LoadAt, LoadIdle
<1>1. IsLoad(t)
  BY <1>0, LoadPlace DEF Told
<1>2. p \in Nodes /\ Loads(p) = {t} /\ listeners[p] = 0 /\ p \notin changed
  BY <1>0, <1>1, LoadsAlone
<1>3. /\ UNCHANGED <<file, alive, table, common, stale>> /\ load' = [load EXCEPT ![t] = NoLoad]
      /\ listeners' = [listeners EXCEPT ![p] = @ + 1] /\ changed \subseteq changed' \cup {p}
  BY DEF Loaded, Watch
<1>4. OthersStay(t) /\ load'[t] = NoLoad
  BY <1>3, NewRecord
<1>5. \A q \in Nodes : q # p => listeners'[q] = listeners[q]
  BY <1>3 DEF SettingsTypeOK
<1>6. ReadStays
  <2>1. load[t].op \notin {"set", "rename"}
    BY <1>1 DEF IsLoad
  <2> QED
    BY <1>3, <1>4, <2>1, FileStays
<1>7. ASSUME p \notin stale' PROVE ProcessHolds(p)'
  <2>1. CommonHolds(p, TableNames) /\ IsSealed
    BY <1>0, <1>1, <1>3, <1>7, LoadIsHeld DEF LoadHolds, Told
  <2>2. /\ common'[p].dc = file'.dc /\ common'[p].own = file'.own
        /\ Steady' => \A n \in TableNames : common'[p].val[n] = Wanted(n)'
    BY <1>2, <1>3, <1>6, <2>1, CommonStays
  <2>3. Loads(p)' = {}
    BY <1>2, <1>4, NoLoadFits DEF Loads, LoadIdle, OthersStay
  <2>4. listeners'[p] = 1
    BY <1>2, <1>3 DEF SettingsTypeOK
  <2> QED
    BY <1>6, <2>1, <2>2, <2>3, <2>4 DEF ProcessHolds, CommonHolds, ReadStays
<1>8. \A q \in alive' : q \in Nodes
  BY <1>3 DEF SettingsTypeOK
<1> QED
  BY <1>3, <1>4, <1>5, <1>6, <1>7, <1>8, MovesOn

LEMMA LoadStepHolds ==
    ASSUME SettingsTypeOK, Shape, NamesAgree, ProcessesHold, NEW t \in LoadThreads, LoadStep(t)
    PROVE  ProcessesHold'
BY LoadSysHolds, ReadHolds, SealHolds, JoiningHolds, ToldHolds, LoadedHolds DEF LoadStep

\* While a tool is at work on the tables nothing is said of their values.
LEMMA Unsteady ==
    ASSUME SettingsTypeOK, ProcessesHold, NEW t \in LoadThreads, OthersStay(t), OwnerOf[t] \notin Nodes,
           load'[t].op \in {"set", "rename"},
           UNCHANGED <<file, alive, listeners, changed, common>>, stale \subseteq stale'
    PROVE  ProcessesHold'
<1>1. ~Steady'
  BY DEF Steady, Works
<1>2. ReadStays
  BY <1>1 DEF ReadStays, IsSealed
<1>3. \A p \in alive' : p \in Nodes
  BY DEF SettingsTypeOK
<1> QED
  BY <1>2, <1>3, MovesOn

LEMMA ToolHolds ==
    ASSUME SettingsTypeOK, Shape, ProcessesHold, NEW t \in LoadThreads, ToolStep(t)
    PROVE  ProcessesHold'
<1>0. /\ load[t].at \in {"row", "rename", "write", "writing", "touch"}
      /\ load[t].at \notin BeforeRead
  BY DEF ToolStep, SetRow, RenameTable, Touch, Cut, Write, FileWritten, LoadAt, BeforeRead
<1>1. ~LoadIdle(t) /\ ~IsLoad(t) /\ OwnerOf[t] \notin Nodes
  BY <1>0, ToolPlace
<1>2. CASE SetRow(t)
  <2>1. load[t].op = "set" /\ LoadGoes(t, "sysconf") /\ UNCHANGED <<file, alive, listeners, changed, common, stale>>
    BY <1>2, ToolPlace DEF SetRow, LoadAt
  <2>2. OthersStay(t) /\ load'[t].op = "set"
    BY <2>1, PlaceGo
  <2> QED
    BY <1>1, <2>1, <2>2, Unsteady
<1>3. CASE RenameTable(t)
  <2>1. load[t].op = "rename" /\ UNCHANGED <<file, alive, listeners, changed, common, stale>>
    BY <1>3, ToolPlace DEF RenameTable, LoadAt
  <2>2. OthersStay(t) /\ load'[t].op = "rename"
    BY <1>3, <2>1, RenameGo
  <2> QED
    BY <1>1, <2>1, <2>2, Unsteady
<1>4. CASE Touch(t)
  <2>1. /\ load' = [load EXCEPT ![t] = NoLoad] /\ Notify /\ UNCHANGED <<alive, listeners>>
        /\ stale \cup Missing \subseteq stale'
    BY <1>4 DEF Touch
  <2> QED
    BY <1>0, <1>1, <2>1, NewRecord, Announced
<1>5. CASE Cut(t)
  <2>1. alive' \subseteq Nodes /\ Nodes \subseteq stale'
    BY <1>5 DEF Cut, SettingsTypeOK
  <2> QED
    BY <2>1 DEF ProcessesHold
<1>6. CASE Write(t)
  <2>1. /\ LoadGoes(t, "writing") /\ UNCHANGED <<table, common, alive, listeners, stale>>
        /\ file' = [file EXCEPT !.whole = FALSE] /\ Notify
    BY <1>6 DEF Write, WriteBegins
  <2>2. file'.dc = file.dc /\ file'.own = file.own /\ file'.plain = file.plain /\ changed \subseteq changed'
    BY <2>1 DEF SettingsTypeOK, Notify
  <2> QED
    BY <1>1, <2>1, <2>2, PlaceGo, ToolMoves
<1>7. CASE FileWritten(t)
  <2>1. /\ Notify /\ UNCHANGED <<alive, listeners>> /\ stale \cup Missing \subseteq stale'
        /\ \E r : load' = [load EXCEPT ![t] = r]
    BY <1>7 DEF FileWritten
  <2> QED
    BY <1>0, <1>1, <2>1, NewRecord, Announced
<1> QED
  BY <1>2, <1>3, <1>4, <1>5, <1>6, <1>7 DEF ToolStep

\* A process that begins to load has read nothing.
LEMMA BeginsHolds ==
    ASSUME SettingsTypeOK, ProcessesHold, NEW p \in Nodes, NEW t \in LoadThreads, OwnerOf[t] = p,
           NEW op \in {"load", "start"}, OthersStay(t), load'[t] = Work(op), Loads(p) = {}, load[t].op = "none",
           listeners'[p] = 0, \A q \in Nodes : q # p => listeners'[q] = listeners[q] /\ common'[q] = common[q],
           changed \subseteq changed' \cup {p}, alive' = alive \cup {p}, UNCHANGED <<file, table, stale>>
    PROVE  ProcessesHold'
<1>1. load'[t].at = "sysconf"
  BY WorkTyped
<1>2. (\A u \in Loads(p)' : u = t) /\ t \in Loads(p)'
  BY <1>1 DEF Loads, LoadIdle, OthersStay
<1>3. LoadHolds(t)'
  BY <1>1 DEF LoadHolds, Sealing, Joining, Told
<1>4. ProcessHolds(p)'
  BY <1>2, <1>3 DEF ProcessHolds
<1>5. ReadStays
  BY FileStays
<1>6. \A q \in alive' : q \in Nodes
  BY DEF SettingsTypeOK
<1> QED
  BY <1>4, <1>5, <1>6, MovesOn

LEMMA ProcessStepHolds ==
    ASSUME SettingsTypeOK, Shape, ProcessesHold, ~InDocker, NEW p \in Nodes,
           Noticed(p) \/ Fork(p) \/ Prepare(p) \/ Listen(p) \/ ListenFails(p)
    PROVE  ProcessesHold'
<1>1. CASE Noticed(p)
  <2>1. PICK t \in IdleOf(p) : OthersStay(t) /\ load'[t] = Work("load")
    BY <1>1, NoticedGo
  <2>2. t \in LoadThreads /\ OwnerOf[t] = p /\ load[t].op = "none"
    BY <2>1, Kinds, NoLoadFits DEF IdleOf
  <2>3. /\ p \in alive /\ Loads(p) = {} /\ changed' = changed \ {p} /\ listeners' = [listeners EXCEPT ![p] = 0]
    BY <1>1, NoticedGo
  <2>4. listeners'[p] = 0 /\ \A q \in Nodes : q # p => listeners'[q] = listeners[q]
    BY <2>3 DEF SettingsTypeOK
  <2>5. alive' = alive \cup {p} /\ UNCHANGED <<file, table, common, stale>>
    BY <1>1, <2>3 DEF Noticed
  <2> QED
    BY <2>1, <2>2, <2>3, <2>4, <2>5, BeginsHolds
<1>2. CASE Fork(p)
  <2>1. PICK t \in IdleOf(p) : OthersStay(t) /\ load'[t] = Work("start")
    BY <1>2, ForkGo
  <2>2. t \in LoadThreads /\ OwnerOf[t] = p /\ load[t].op = "none"
    BY <2>1, Kinds, NoLoadFits DEF IdleOf
  <2>3. Loads(p) = {} /\ listeners[p] = 0
    BY <1>2, ForkGo
  <2>4. alive' = alive \cup {p} /\ UNCHANGED <<file, table, listeners, changed, stale>>
        /\ \A q \in Nodes : q # p => common'[q] = common[q]
    BY <1>2 DEF Fork, SettingsTypeOK
  <2> QED
    BY <2>1, <2>2, <2>3, <2>4, BeginsHolds
<1>3. CASE Prepare(p) \/ Listen(p)
  <2>1. UNCHANGED <<file, table, common, alive, listeners, changed, load, stale>>
    BY <1>3 DEF Prepare, Listen, ServerGoes
  <2>2. ReadStays
    BY <2>1 DEF ReadStays, IsSealed, Steady, Works
  <2>3. \A q \in alive \ stale : q \in Nodes /\ Loads(q)' = Loads(q)
    BY <2>1 DEF SettingsTypeOK, Loads, LoadIdle
  <2> QED
    BY <2>1, <2>2, <2>3, HoldsOn DEF ProcessesHold
<1>4. CASE ListenFails(p)
  <2>1. p \in Workers /\ p \in alive
    BY <1>4 DEF ListenFails, Shape, ServerFits
  <2> QED
    BY <1>4, <2>1, DiesHolds DEF ListenFails
<1> QED
  BY <1>1, <1>2, <1>3, <1>4

LEMMA AskHolds ==
    ASSUME SettingsTypeOK, Shape, OneTool, ProcessesHold, NEW op, NEW new \in ThreadRecord, AskedFor(op, new)
    PROVE  ProcessesHold'
<1>1. PICK t \in LoadThreads :
              /\ OwnerOf[t] = "tool" /\ OwnerOf[t] \notin Nodes /\ LoadIdle(t) /\ OthersStay(t) /\ load'[t] = new
  BY AskGo
<1>2. load[t].op = "none"
  BY <1>1, Kinds, NoLoadFits
<1>3. UNCHANGED <<file, table, common, alive, listeners, changed>> /\ stale \subseteq stale'
  BY DEF AskedFor, AskTool
<1>4. ReadStays
  BY <1>1, <1>2, <1>3, FileStays
<1>5. \A p \in alive' : p \in Nodes
  BY <1>3 DEF SettingsTypeOK
<1> QED
  BY <1>1, <1>3, <1>4, <1>5, MovesOn

-----------------------------------------------------------------------------
(* the invariant, and what it says when nothing moves. *)

LEMMA SettingsStart ==
    ASSUME SettingsInit
    PROVE  SettingsInv
<1> USE ConfigurationAssumption DEF SettingsInit
<1>1. /\ alive \subseteq Nodes /\ Workers \subseteq alive /\ changed = {} /\ chosen = 0
      /\ \A t \in LoadThreads : load[t] = NoLoad
      /\ \A p \in Nodes : /\ server[p] = IF p \in Workers THEN "up" ELSE "down"
                          /\ listeners[p] = IF p \in alive THEN 1 ELSE 0
  OBVIOUS
<1>2. \A t \in LoadThreads : LoadIdle(t) /\ load[t].op = "none"
  BY <1>1, NoLoadFits DEF LoadIdle
<1>3. \A p \in Nodes : Loads(p) = {}
  BY <1>2 DEF Loads
<1>4. \A n \in {"center", "platform"} : n \in TableNames \ {"origins"}
  BY TheTables
<1>5. Named("old") /\ file.dc = "old" /\ file.own = 0 /\ file.plain = FALSE /\ file.whole
  BY <1>4 DEF Named
<1>6. SettingsTypeOK
  <2>1. [n \in TableNames |-> IF n \in Hidden THEN 3 ELSE 1] \in [TableNames -> Nat]
    OBVIOUS
  <2>2. common \in [Nodes -> Settings]
    BY <2>1 DEF Settings
  <2>3. load \in [LoadThreads -> ThreadRecord]
    BY NoLoadFits
  <2>4. table \in [TableNames \ {"origins"} -> [value : Nat \ {0}, dc : {"none", "old", "new"}]]
    OBVIOUS
  <2>5. /\ server \in [Nodes -> Servings] /\ listeners \in [Nodes -> Nat]
        /\ sysconf \in BOOLEAN
    BY DEF Servings
  <2>6. file \in [dc : {"none", "old", "new"}, own : Nat, plain : BOOLEAN, whole : BOOLEAN]
    OBVIOUS
  <2> QED
    BY <1>1, <2>2, <2>3, <2>4, <2>5, <2>6 DEF SettingsTypeOK, Servings
<1>7. Shape
  BY <1>1, <1>3 DEF Shape, ThreadFits, WatchesOrLoads, ServerFits
<1>8. HalfWritten
  BY <1>5 DEF HalfWritten
<1>9. NamesAgree /\ OwnKept
  BY <1>1, <1>2, <1>5 DEF NamesAgree, NameFits, OwnKept, OwnFits
<1>10. ASSUME NEW p \in alive PROVE ProcessHolds(p)
  <2>1. ASSUME NEW n \in TableNames PROVE common[p].val[n] = Wanted(n)
    <3>1. common[p].val[n] = IF n \in Hidden THEN 3 ELSE 1
      BY <1>1
    <3>2. n \notin Hidden => Wanted(n) = 1
      <4>1. n # "origins" => table[n] = [value |-> 1, dc |-> "old"]
        OBVIOUS
      <4>2. table["center"] = [value |-> 1, dc |-> "old"]
        BY <1>4
      <4> QED
        BY <1>5, <4>1, <4>2 DEF Wanted, Found, OfCenter, Source, Keyed
    <3> QED
      BY <3>1, <3>2 DEF Wanted
  <2>2. common[p].dc = "old" /\ common[p].own = 0
    BY <1>1
  <2>3. Loads(p) = {}
    BY <1>1, <1>3
  <2> QED
    BY <1>5, <2>1, <2>2, <2>3 DEF ProcessHolds, CommonHolds, IsSealed
<1> QED
  BY <1>6, <1>7, <1>8, <1>9, <1>10 DEF SettingsInv, ProcessesHold

LEMMA SettingsStep ==
    ASSUME ~InDocker, OneTool, SettingsInv, [SettingsNext]_settingsVars
    PROVE  SettingsInv'
<1> USE DEF SettingsInv, Parts
<1>1. ASSUME NEW t \in LoadThreads, LoadStep(t) PROVE SettingsInv'
  <2>1. SettingsTypeOK'
    BY <1>1, LoadTyped
  <2> QED
    BY <1>1, <2>1, LoadShape, LoadParts, LoadStepHolds
<1>2. ASSUME NEW t \in LoadThreads, ToolStep(t) PROVE SettingsInv'
  <2>1. SettingsTypeOK'
    BY <1>2, ToolTyped
  <2> QED
    BY <1>2, <2>1, ToolShape, ToolParts, ToolHolds
<1>3. ASSUME NEW p \in Nodes, Noticed(p) \/ Fork(p) \/ Prepare(p) \/ Listen(p) \/ ListenFails(p)
      PROVE  SettingsInv'
  <2>1. SettingsTypeOK'
    BY <1>3, ProcessTyped
  <2> QED
    BY <1>3, <2>1, ProcessShape, ProcessParts, ProcessStepHolds
<1>4. ASSUME AskStep PROVE SettingsInv'
  <2>1. PICK op \in {"update", "set", "redis", "rename"} : \E new \in ThreadRecord : AskedFor(op, new)
    BY <1>4, Asking
  <2>2. PICK new \in ThreadRecord : AskedFor(op, new)
    BY <2>1
  <2>3. SettingsTypeOK'
    BY <2>2, AskTyped
  <2> QED
    BY <2>2, <2>3, AskShape, AskParts, AskHolds
<1>5. ASSUME UNCHANGED settingsVars PROVE SettingsInv'
  <2> USE <1>5 DEF settingsVars
  <2>1. SettingsTypeOK'
    BY DEF SettingsTypeOK
  <2>2. \A p \in Nodes : Loads(p)' = Loads(p)
    BY DEF Loads, LoadIdle
  <2>3. Shape'
    BY <2>2, <2>1 DEF Shape, ThreadFits, WatchesOrLoads, ServerFits, IsLoad
  <2>4. HalfWritten'
    BY DEF HalfWritten, Loads, LoadIdle
  <2>5. NamesAgree'
    BY DEF NamesAgree, NameFits, Named, Works
  <2>6. OwnKept'
    BY DEF OwnKept, OwnFits, Works
  <2>7. ProcessesHold'
    BY DEF ProcessesHold, ProcessHolds, CommonHolds, LoadHolds, SetHolds, Steady, Works, Wanted, Found,
       OfCenter, IsSealed, Loads, LoadIdle
  <2> QED
    BY <2>1, <2>3, <2>4, <2>5, <2>6, <2>7
<1>6. SettingsNext => \/ \E t \in LoadThreads : LoadStep(t) \/ ToolStep(t)
                      \/ \E p \in Nodes : Noticed(p) \/ Fork(p) \/ Prepare(p) \/ Listen(p) \/ ListenFails(p)
                      \/ AskStep
  BY DEF SettingsNext, AskStep
<1> QED
  BY <1>1, <1>2, <1>3, <1>4, <1>5, <1>6

LEMMA SettingsRest ==
    ASSUME SettingsInv
    PROVE  SettingsAgree
<1> USE DEF SettingsInv
<1> SUFFICES ASSUME LoadsQuiet PROVE SettingsAgree
  BY DEF SettingsAgree, ProcessesAgree, FileIsKept
<1>1. \A t \in LoadThreads : LoadIdle(t) /\ load[t].op = "none" /\ load[t].at = "idle"
  BY Kinds, NoLoadFits DEF LoadsQuiet
<1>2. \A p \in Nodes : Loads(p) = {}
  BY <1>1 DEF Loads
<1>3. \A p \in alive \ stale : p \in Nodes /\ listeners[p] = 1 /\ p \notin changed
  BY <1>2 DEF LoadsQuiet, ProcessesHold, ProcessHolds, SettingsTypeOK
<1>4. ~Works("set") /\ ~Works("rename") /\ ~Works("update")
  BY <1>1 DEF Works
<1>5. "file" \notin stale => file.whole
  BY <1>1 DEF HalfWritten
<1>6. ASSUME NEW p \in alive \ stale
      PROVE  CommonHolds(p, TableNames) /\ IsSealed
  BY <1>3 DEF ProcessesHold, ProcessHolds
<1>7. ProcessesAgree
  <2> SUFFICES ASSUME "tables" \notin stale, NEW p \in alive \ stale
               PROVE  /\ common[p].dc = file.dc /\ common[p].own = file.own
                      /\ \A n \in TableNames :
                            common[p].val[n] = IF n \in Hidden THEN 3
                                               ELSE IF n \in Keyed /\ table[n].dc # file.dc THEN 0
                                               ELSE table[Source(n)].value
                      /\ p \in Workers => server[p] \in {"up"} \cup OutOfService
    BY DEF ProcessesAgree
  <2>1. CommonHolds(p, TableNames) /\ Steady
    BY <1>4, <1>6 DEF Steady
  <2>2. \A n \in Keyed : Source(n) = n
    BY DEF Keyed, Source
  <2>3. ASSUME NEW n \in TableNames
        PROVE  common[p].val[n] = IF n \in Hidden THEN 3
                                  ELSE IF n \in Keyed /\ table[n].dc # file.dc THEN 0
                                  ELSE table[Source(n)].value
    BY <2>1, <2>2 DEF CommonHolds, Wanted, Found, OfCenter
  <2>4. p \in Workers => server[p] \in {"up"} \cup OutOfService
    BY <1>3 DEF Shape, ServerFits, LoadsQuiet
  <2> QED
    BY <2>1, <2>3, <2>4 DEF CommonHolds
<1>8. FileIsKept
  <2>1. "file" \notin stale => file.own = chosen
    BY <1>4 DEF OwnKept
  <2>2. EncryptConf /\ ~(alive \subseteq stale) => ~file.plain
    BY <1>6 DEF IsSealed
  <2> QED
    BY <1>5, <2>1, <2>2 DEF FileIsKept
<1> QED
  BY <1>7, <1>8 DEF SettingsAgree
=============================================================================

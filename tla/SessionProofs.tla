------------------------- MODULE SessionProofs -------------------------
(***************************************************************************)
(* Proofs about SessionController, for all sets of devices, users,         *)
(* sessions, platforms, gateways and handlers, all failures and writers,   *)
(* and any number of starts and crashes.                                   *)
(*                                                                         *)
(* TypeOK is not inductive: that a platform reported as unreachable is a   *)
(* platform depends on what the handlers did before.  SessionInv says what *)
(* it depends on; there is one lemma for each of its conjuncts.            *)
(*                                                                         *)
(* The second half is about what the lock of a device gives, where no      *)
(* process dies and nobody else writes to its sessions: LockInv, then      *)
(* CompleteInv and ScoreKept, then CleanInv, each from those before.       *)
(***************************************************************************)
EXTENDS SessionController, FiniteSetTheorems, TLAPS

(***************************************************************************)
(* At the start nothing exists.                                            *)
(***************************************************************************)
LEMMA InitSound == Init => TypeOK /\ SessionInv
<1> USE StoreAssumption, ControllerAssumption
<1> SUFFICES ASSUME Init PROVE TypeOK /\ SessionInv
  OBVIOUS
<1>1. TypeOK
  BY DEF Init, StoreInit, TypeOK, StoreTypeOK, SharedTypeOK, HandlerTypeOK,
         WriterTypeOK, PCs
<1>2. SessionInv
  BY DEF Init, StoreInit, SessionInv, StoreSound, PlacedSound, PlacedOn, WorkerSound,
         OtherSound, FreshSound, Exists, At, Writers
<1> QED
  BY <1>1, <1>2

(***************************************************************************)
(* Every step keeps the types (the variables of SessionController.js,      *)
(* session.js and the writers).                                            *)
(***************************************************************************)
LEMMA TypePreserved ==
    ASSUME TypeOK, SessionInv, [Next]_vars PROVE TypeOK'
<1> USE StoreAssumption, ControllerAssumption
<1>1. /\ \A w \in Workers :
           /\ ~At(w, "idle") => dev[w] \in Devices
           /\ pc[w] \notin {"idle", "start_lock", "lookup", "limit", "unlock", "forget"}
                 => cur[w] \in Sessions
      /\ \A o \in Writers : oPc[o] # "idle" => oSess[o] \in Sessions
  BY DEF SessionInv, WorkerSound, OtherSound
<1>2. \A w \in Workers : pc[w] \in {"platref", "unref", "platdec", "report", "revive"}
                            => platOf[cur[w]] \in Platforms
  BY DEF SessionInv, WorkerSound, At
<1>3. TypeOK'
  <2> USE DEF PCs, StartPCs, EndPCs, LastPCs, BuildStatus, Writers, Fields, Sticky,
     store, keys, refs, ids, outside, own, other, bounds, TypeOK
  <2>1. ASSUME NEW w \in Workers, Lock(w) PROVE TypeOK'
    BY <1>1, <2>1 DEF Lock, LockFree, Goto, At, StoreTypeOK, SharedTypeOK,
       HandlerTypeOK, WriterTypeOK
  <2>2. ASSUME NEW w \in Workers, LockRefused(w) PROVE TypeOK'
    <3>1. dev[w] \in Devices
      BY <1>1, <2>2 DEF LockRefused, At
    <3>2. StoreTypeOK'
      BY <2>2, <3>1 DEF LockRefused, LockFree, Reset, Goto, At, StoreTypeOK
    <3>3. SharedTypeOK' /\ WriterTypeOK'
      BY <2>2, <3>1 DEF LockRefused, LockFree, Reset, Goto, At, SharedTypeOK,
         WriterTypeOK
    <3>4. pc' \in [Workers -> PCs]
      <4>1. \E l \in PCs : Goto(w, l)
        BY <2>2, <3>1 DEF LockRefused, LockFree, Reset, Goto, At, HandlerTypeOK
      <4> HIDE DEF PCs, Fields, BuildStatus
      <4> QED
        BY <4>1 DEF HandlerTypeOK, Goto
    <3>5. /\ dev' \in [Workers -> Devices \cup {None}]
          /\ cur' \in [Workers -> Sessions \cup {None}]
      BY <2>2, <3>1 DEF LockRefused, LockFree, Reset, Goto, At, HandlerTypeOK
    <3>6. plugin' \in [Workers -> BOOLEAN]
      <4>1. UNCHANGED plugin \/ \E k \in BOOLEAN : plugin' = [plugin EXCEPT ![w] = k]
        BY <2>2, <3>1 DEF LockRefused, LockFree, Reset, Goto, At, HandlerTypeOK
      <4> HIDE DEF PCs, Fields, BuildStatus
      <4> QED
        BY <4>1 DEF HandlerTypeOK
    <3>7. mem' \in [Workers -> SUBSET Fields]
      BY <2>2, <3>1 DEF LockRefused, LockFree, Reset, Goto, At, HandlerTypeOK
    <3>8. built' \in [Workers -> SUBSET BuildStatus]
      BY <2>2, <3>1 DEF LockRefused, LockFree, Reset, Goto, At, HandlerTypeOK
    <3> QED
      BY <3>2, <3>3, <3>4, <3>5, <3>6, <3>7, <3>8 DEF HandlerTypeOK
  <2>3. ASSUME NEW w \in Workers, Lookup(w) PROVE TypeOK'
    <3>1. dev[w] \in Devices
      BY <1>1, <2>3 DEF Lookup, SessionOfUserDevice, At
    <3>2. StoreTypeOK'
      BY <2>3, <3>1 DEF Lookup, SessionOfUserDevice, Goto, At, Joinable, Exists, StoreTypeOK
    <3>3. SharedTypeOK' /\ WriterTypeOK'
      BY <2>3, <3>1 DEF Lookup, SessionOfUserDevice, Goto, At, Joinable, Exists, SharedTypeOK,
         WriterTypeOK
    <3>4. pc' \in [Workers -> PCs]
      <4>1. \E l \in PCs : Goto(w, l)
        <5>1. \E l \in {"limit", "join", "unlock"} : Goto(w, l)
          BY ONLY <2>3 DEF Lookup
        <5> QED
          BY <5>1
      <4> HIDE DEF PCs, Fields, BuildStatus
      <4> QED
        BY <4>1 DEF HandlerTypeOK, Goto
    <3>5. /\ dev' \in [Workers -> Devices \cup {None}]
          /\ cur' \in [Workers -> Sessions \cup {None}]
      <4>1. usersess[dev[w]] \in Sessions \cup {None}
        BY <3>1 DEF StoreTypeOK
      <4>2. dev' = dev /\ (cur' = cur \/ cur' = [cur EXCEPT ![w] = usersess[dev[w]]])
        BY ONLY <2>3 DEF Lookup, SessionOfUserDevice
      <4> HIDE DEF PCs, Fields, BuildStatus
      <4> QED
        BY <4>1, <4>2 DEF HandlerTypeOK
    <3>6. plugin' \in [Workers -> BOOLEAN]
      BY <2>3, <3>1 DEF Lookup, SessionOfUserDevice, Goto, At, Joinable, Exists, HandlerTypeOK,
         StoreTypeOK
    <3>7. mem' \in [Workers -> SUBSET Fields]
      BY <2>3, <3>1 DEF Lookup, SessionOfUserDevice, Goto, At, Joinable, Exists, HandlerTypeOK,
         StoreTypeOK
    <3>8. built' \in [Workers -> SUBSET BuildStatus]
      BY <2>3, <3>1 DEF Lookup, SessionOfUserDevice, Goto, At, Joinable, Exists, HandlerTypeOK,
         StoreTypeOK
    <3> QED
      BY <3>2, <3>3, <3>4, <3>5, <3>6, <3>7, <3>8 DEF HandlerTypeOK
  <2>4. ASSUME NEW w \in Workers, Join(w) PROVE TypeOK'
    <3>1. dev[w] \in Devices /\ cur[w] \in Sessions
      BY <1>1, <2>4 DEF Join, At
    <3>2. StoreTypeOK'
      <4> DEFINE Token(t) == hash' = [hash EXCEPT ![cur[w]] = @ \cup t]
      <4>1. Save(cur[w], mem[w]) \/ \E t \in SUBSET Fields : Token(t)
        BY <2>4 DEF Join
      <4>2. hash' \in [Sessions -> SUBSET Fields]
        <5>1. CASE Save(cur[w], mem[w])
          BY <3>1, <5>1 DEF Save, Saved, StoreTypeOK, HandlerTypeOK
        <5>2. ASSUME NEW t \in SUBSET Fields, Token(t)
               PROVE  hash' \in [Sessions -> SUBSET Fields]
          <6> HIDE DEF Fields
          <6> QED
            BY <3>1, <5>2 DEF StoreTypeOK
        <5> QED
          BY <4>1, <5>1, <5>2
      <4> QED
        BY <2>4, <4>2 DEF Join, StoreTypeOK
    <3>3. SharedTypeOK' /\ WriterTypeOK'
      BY <2>4, <3>1 DEF Join, Save, Saved, Goto, At, SharedTypeOK, WriterTypeOK
    <3>4. pc' \in [Workers -> PCs]
      <4>1. \E l \in PCs : Goto(w, l)
        BY <2>4, <3>1 DEF Join, Save, Saved, Goto, At, HandlerTypeOK
      <4> HIDE DEF PCs, Fields, BuildStatus
      <4> QED
        BY <4>1 DEF HandlerTypeOK, Goto
    <3>5. /\ dev' \in [Workers -> Devices \cup {None}]
          /\ cur' \in [Workers -> Sessions \cup {None}]
      BY <2>4, <3>1 DEF Join, Save, Saved, Goto, At, HandlerTypeOK
    <3>6. plugin' \in [Workers -> BOOLEAN]
      BY <2>4, <3>1 DEF Join, Save, Saved, Goto, At, HandlerTypeOK
    <3>7. mem' \in [Workers -> SUBSET Fields]
      BY <2>4, <3>1 DEF Join, Save, Saved, Goto, At, HandlerTypeOK
    <3>8. built' \in [Workers -> SUBSET BuildStatus]
      BY <2>4, <3>1 DEF Join, Save, Saved, Goto, At, HandlerTypeOK
    <3> QED
      BY <3>2, <3>3, <3>4, <3>5, <3>6, <3>7, <3>8 DEF HandlerTypeOK
  <2>5. ASSUME NEW w \in Workers, Limit(w) PROVE TypeOK'
    <3>1. dev[w] \in Devices
      BY <1>1, <2>5 DEF Limit, At
    <3>2. StoreTypeOK'
      BY <2>5, <3>1 DEF Limit, Goto, At, StoreTypeOK
    <3>3. SharedTypeOK' /\ WriterTypeOK'
      BY <2>5, <3>1 DEF Limit, Goto, At, SharedTypeOK, WriterTypeOK
    <3>4. pc' \in [Workers -> PCs]
      <4>1. \E l \in PCs : Goto(w, l)
        BY <2>5, <3>1 DEF Limit, Goto, At, HandlerTypeOK
      <4> HIDE DEF PCs, Fields, BuildStatus
      <4> QED
        BY <4>1 DEF HandlerTypeOK, Goto
    <3>5. /\ dev' \in [Workers -> Devices \cup {None}]
          /\ cur' \in [Workers -> Sessions \cup {None}]
      BY <2>5, <3>1 DEF Limit, Goto, At, HandlerTypeOK
    <3>6. plugin' \in [Workers -> BOOLEAN]
      BY <2>5, <3>1 DEF Limit, Goto, At, HandlerTypeOK
    <3>7. mem' \in [Workers -> SUBSET Fields]
      <4>1. UNCHANGED mem \/ \E m \in SUBSET Fields : mem' = [mem EXCEPT ![w] = m]
        BY <2>5, <3>1 DEF Limit, Goto, At, HandlerTypeOK
      <4> HIDE DEF PCs, Fields, BuildStatus
      <4> QED
        BY <4>1 DEF HandlerTypeOK
    <3>8. built' \in [Workers -> SUBSET BuildStatus]
      BY <2>5, <3>1 DEF Limit, Goto, At, HandlerTypeOK
    <3> QED
      BY <3>2, <3>3, <3>4, <3>5, <3>6, <3>7, <3>8 DEF HandlerTypeOK
  <2>6. ASSUME NEW w \in Workers, CreateSession(w) PROVE TypeOK'
    <3>1. dev[w] \in Devices /\ cur[w] \in Sessions
      BY <1>1, <2>6 DEF CreateSession, At
    <3>2. StoreTypeOK'
      BY <2>6, <3>1 DEF CreateSession, Create, Save, Saved, Goto, At, StoreTypeOK,
         HandlerTypeOK
    <3>3. SharedTypeOK' /\ HandlerTypeOK' /\ WriterTypeOK'
      BY <2>6, <3>1 DEF CreateSession, Create, Save, Saved, Goto, At, SharedTypeOK,
         HandlerTypeOK, WriterTypeOK
    <3> QED
      BY <3>2, <3>3
  <2>7. ASSUME NEW w \in Workers, SetPointer(w) PROVE TypeOK'
    BY <1>1, <2>7 DEF SetPointer, Goto, At, StoreTypeOK, SharedTypeOK, HandlerTypeOK,
       WriterTypeOK
  <2>8. ASSUME NEW w \in Workers, AddToUser(w) PROVE TypeOK'
    <3>1. dev[w] \in Devices /\ cur[w] \in Sessions
      BY <1>1, <2>8 DEF AddToUser, At
    <3>2. StoreTypeOK'
      BY <2>8, <3>1 DEF AddToUser, Me, StoreTypeOK
    <3>3. SharedTypeOK' /\ HandlerTypeOK' /\ WriterTypeOK'
      BY <2>8 DEF AddToUser, Goto, SharedTypeOK, HandlerTypeOK, WriterTypeOK
    <3> QED
      BY <3>2, <3>3
  <2>9. ASSUME NEW w \in Workers, SuspendNew(w) PROVE TypeOK'
    <3>1. dev[w] \in Devices /\ cur[w] \in Sessions
      BY <1>1, <2>9 DEF SuspendNew, At
    <3>2. HandlerTypeOK'
      BY <2>9, <3>1 DEF SuspendNew, Goto, HandlerTypeOK
    <3>3. StoreTypeOK'
      BY <2>9, <3>1, <3>2 DEF SuspendNew, Suspend, Save, Saved, StoreTypeOK, HandlerTypeOK
    <3>4. SharedTypeOK' /\ WriterTypeOK'
      BY <2>9, <3>1 DEF SuspendNew, SharedTypeOK, WriterTypeOK
    <3> QED
      BY <3>2, <3>3, <3>4
  <2>10. ASSUME NEW w \in Workers, Place(w) PROVE TypeOK'
    <3>1. dev[w] \in Devices /\ cur[w] \in Sessions
      BY <1>1, <2>10 DEF Place, At
    <3>2. StoreTypeOK'
      BY <2>10, <3>1 DEF Place, Note, Goto, At, StoreTypeOK
    <3>3. SharedTypeOK' /\ WriterTypeOK'
      BY <2>10, <3>1 DEF Place, Note, Goto, At, SharedTypeOK, WriterTypeOK
    <3>4. pc' \in [Workers -> PCs]
      <4>1. \E l \in PCs : Goto(w, l)
        BY <2>10, <3>1 DEF Place, Note, Goto, At, HandlerTypeOK
      <4> HIDE DEF PCs, Fields, BuildStatus
      <4> QED
        BY <4>1 DEF HandlerTypeOK, Goto
    <3>5. /\ dev' \in [Workers -> Devices \cup {None}]
          /\ cur' \in [Workers -> Sessions \cup {None}]
      BY <2>10, <3>1 DEF Place, Note, Goto, At, HandlerTypeOK
    <3>6. plugin' \in [Workers -> BOOLEAN]
      BY <2>10, <3>1 DEF Place, Note, Goto, At, HandlerTypeOK
    <3>7. mem' \in [Workers -> SUBSET Fields]
      BY <2>10, <3>1 DEF Place, Note, Goto, At, HandlerTypeOK
    <3>8. built' \in [Workers -> SUBSET BuildStatus]
      <4>1. UNCHANGED built \/ \E b \in SUBSET BuildStatus : Note(w, b)
        BY <2>10, <3>1 DEF Place, Note, Goto, At, HandlerTypeOK
      <4> HIDE DEF PCs, Fields, BuildStatus
      <4> QED
        BY <4>1 DEF HandlerTypeOK, Note
    <3> QED
      BY <3>2, <3>3, <3>4, <3>5, <3>6, <3>7, <3>8 DEF HandlerTypeOK
  <2>11. ASSUME NEW w \in Workers, Attach(w) PROVE TypeOK'
    <3>1. dev[w] \in Devices /\ cur[w] \in Sessions
      BY <1>1, <2>11 DEF Attach, findGateway, At
    <3>2. StoreTypeOK'
      BY <2>11, <3>1 DEF Attach, findGateway, Note, Goto, At, StoreTypeOK
    <3>3. SharedTypeOK' /\ WriterTypeOK'
      BY <2>11, <3>1 DEF Attach, findGateway, Note, Goto, At, SharedTypeOK, WriterTypeOK
    <3>4. pc' \in [Workers -> PCs]
      <4>1. \E l \in PCs : Goto(w, l)
        BY <2>11, <3>1 DEF Attach, findGateway, Note, Goto, At, HandlerTypeOK
      <4> HIDE DEF PCs, Fields, BuildStatus
      <4> QED
        BY <4>1 DEF HandlerTypeOK, Goto
    <3>5. /\ dev' \in [Workers -> Devices \cup {None}]
          /\ cur' \in [Workers -> Sessions \cup {None}]
      BY <2>11, <3>1 DEF Attach, findGateway, Note, Goto, At, HandlerTypeOK
    <3>6. plugin' \in [Workers -> BOOLEAN]
      BY <2>11, <3>1 DEF Attach, findGateway, Note, Goto, At, HandlerTypeOK
    <3>7. mem' \in [Workers -> SUBSET Fields]
      BY <2>11, <3>1 DEF Attach, findGateway, Note, Goto, At, HandlerTypeOK
    <3>8. built' \in [Workers -> SUBSET BuildStatus]
      BY <2>11, <3>1 DEF Attach, findGateway, Note, Goto, At, HandlerTypeOK
    <3> QED
      BY <3>2, <3>3, <3>4, <3>5, <3>6, <3>7, <3>8 DEF HandlerTypeOK
  <2>12. ASSUME NEW w \in Workers, CountOnGateway(w) PROVE TypeOK'
    <3>1. dev[w] \in Devices /\ cur[w] \in Sessions
      BY <1>1, <2>12 DEF CountOnGateway, At
    <3>2. StoreTypeOK'
      BY <2>12, <3>1 DEF CountOnGateway, UpdateGWSessionScore, Note, Goto, At,
         StoreTypeOK
    <3>3. SharedTypeOK' /\ WriterTypeOK'
      BY <2>12, <3>1 DEF CountOnGateway, UpdateGWSessionScore, Note, Goto, At,
         SharedTypeOK, WriterTypeOK
    <3>4. pc' \in [Workers -> PCs]
      <4>1. \E l \in PCs : Goto(w, l)
        BY <2>12, <3>1 DEF CountOnGateway, UpdateGWSessionScore, Note, Goto, At,
           HandlerTypeOK
      <4> HIDE DEF PCs, Fields, BuildStatus
      <4> QED
        BY <4>1 DEF HandlerTypeOK, Goto
    <3>5. /\ dev' \in [Workers -> Devices \cup {None}]
          /\ cur' \in [Workers -> Sessions \cup {None}]
      BY <2>12, <3>1 DEF CountOnGateway, UpdateGWSessionScore, Note, Goto, At,
         HandlerTypeOK
    <3>6. plugin' \in [Workers -> BOOLEAN]
      BY <2>12, <3>1 DEF CountOnGateway, UpdateGWSessionScore, Note, Goto, At,
         HandlerTypeOK
    <3>7. mem' \in [Workers -> SUBSET Fields]
      BY <2>12, <3>1 DEF CountOnGateway, UpdateGWSessionScore, Note, Goto, At,
         HandlerTypeOK
    <3>8. built' \in [Workers -> SUBSET BuildStatus]
      <4>1. UNCHANGED built \/ \E b \in SUBSET BuildStatus : Note(w, b)
        BY <2>12, <3>1 DEF CountOnGateway, UpdateGWSessionScore, Note, Goto, At,
           HandlerTypeOK
      <4> HIDE DEF PCs, Fields, BuildStatus
      <4> QED
        BY <4>1 DEF HandlerTypeOK, Note
    <3> QED
      BY <3>2, <3>3, <3>4, <3>5, <3>6, <3>7, <3>8 DEF HandlerTypeOK
  <2>13. ASSUME NEW w \in Workers, ListOnPlatform(w) PROVE TypeOK'
    <3>1. dev[w] \in Devices /\ cur[w] \in Sessions
      BY <1>1, <2>13 DEF ListOnPlatform, At
    <3>2. StoreTypeOK'
      BY <2>13, <3>1, <1>2 DEF ListOnPlatform, Note, Goto, At, StoreTypeOK
    <3>3. SharedTypeOK' /\ WriterTypeOK'
      BY <2>13, <3>1, <1>2 DEF ListOnPlatform, Note, Goto, At, SharedTypeOK,
         WriterTypeOK
    <3>4. pc' \in [Workers -> PCs]
      <4>1. \E l \in PCs : Goto(w, l)
        BY <2>13, <3>1 DEF ListOnPlatform, Note, Goto, At, HandlerTypeOK
      <4> HIDE DEF PCs, Fields, BuildStatus
      <4> QED
        BY <4>1 DEF HandlerTypeOK, Goto
    <3>5. /\ dev' \in [Workers -> Devices \cup {None}]
          /\ cur' \in [Workers -> Sessions \cup {None}]
      BY <2>13, <3>1, <1>2 DEF ListOnPlatform, Note, Goto, At, HandlerTypeOK
    <3>6. plugin' \in [Workers -> BOOLEAN]
      BY <2>13, <3>1, <1>2 DEF ListOnPlatform, Note, Goto, At, HandlerTypeOK
    <3>7. mem' \in [Workers -> SUBSET Fields]
      BY <2>13, <3>1, <1>2 DEF ListOnPlatform, Note, Goto, At, HandlerTypeOK
    <3>8. built' \in [Workers -> SUBSET BuildStatus]
      BY <2>13, <3>1, <1>2 DEF ListOnPlatform, Note, Goto, At, HandlerTypeOK
    <3> QED
      BY <3>2, <3>3, <3>4, <3>5, <3>6, <3>7, <3>8 DEF HandlerTypeOK
  <2>14. ASSUME NEW w \in Workers, SaveSession(w) PROVE TypeOK'
    <3>1. dev[w] \in Devices /\ cur[w] \in Sessions
      BY <1>1, <2>14 DEF SaveSession, At
    <3>2. HandlerTypeOK'
      BY <2>14, <3>1 DEF SaveSession, Goto, HandlerTypeOK
    <3>3. StoreTypeOK'
      BY <2>14, <3>1, <3>2 DEF SaveSession, Save, Saved, StoreTypeOK, HandlerTypeOK
    <3>4. SharedTypeOK' /\ WriterTypeOK'
      BY <2>14, <3>1 DEF SaveSession, SharedTypeOK, WriterTypeOK
    <3> QED
      BY <3>2, <3>3, <3>4
  <2>15. ASSUME NEW w \in Workers, RecordDataCenter(w) PROVE TypeOK'
    <3>1. dev[w] \in Devices /\ cur[w] \in Sessions
      BY <1>1, <2>15 DEF RecordDataCenter, At
    <3>2. StoreTypeOK'
      BY <2>15, <3>1 DEF RecordDataCenter, Me, Goto, At, StoreTypeOK
    <3>3. SharedTypeOK' /\ HandlerTypeOK' /\ WriterTypeOK'
      BY <2>15, <3>1 DEF RecordDataCenter, Me, Goto, At, SharedTypeOK, HandlerTypeOK,
         WriterTypeOK
    <3> QED
      BY <3>2, <3>3
  <2>16. ASSUME NEW w \in Workers, Connect(w) PROVE TypeOK'
    <3>1. dev[w] \in Devices /\ cur[w] \in Sessions
      BY <1>1, <2>16 DEF Connect, At
    <3>2. StoreTypeOK'
      BY <2>16, <3>1 DEF Connect, ConnectedRow, Goto, At, StoreTypeOK
    <3>3. SharedTypeOK' /\ HandlerTypeOK' /\ WriterTypeOK'
      BY <2>16, <3>1 DEF Connect, ConnectedRow, Goto, At, SharedTypeOK, HandlerTypeOK,
         WriterTypeOK
    <3> QED
      BY <3>2, <3>3
  <2>17. ASSUME NEW w \in Workers, CleanPlatform(w) PROVE TypeOK'
    BY <1>1, <2>17 DEF CleanPlatform, CleanReference, IncreaseReference, Goto, At,
       StoreTypeOK, SharedTypeOK, HandlerTypeOK, WriterTypeOK
  <2>18. ASSUME NEW w \in Workers, CleanUser(w) PROVE TypeOK'
    BY <1>1, <2>18 DEF CleanUser, Goto, At, StoreTypeOK, SharedTypeOK, HandlerTypeOK,
       WriterTypeOK
  <2>19. ASSUME NEW w \in Workers, CleanGateway(w) PROVE TypeOK'
    <3>1. dev[w] \in Devices /\ cur[w] \in Sessions
      BY <1>1, <2>19 DEF CleanGateway, At
    <3>2. StoreTypeOK'
      BY <2>19, <3>1 DEF CleanGateway, UpdateGWSessionScore, Goto, At, StoreTypeOK
    <3>3. SharedTypeOK' /\ HandlerTypeOK' /\ WriterTypeOK'
      BY <2>19, <3>1 DEF CleanGateway, UpdateGWSessionScore, Goto, At, SharedTypeOK,
         HandlerTypeOK, WriterTypeOK
    <3> QED
      BY <3>2, <3>3
  <2>20. ASSUME NEW w \in Workers, Discard(w) PROVE TypeOK'
    BY <1>1, <2>20 DEF Discard, Del, UserOfSession, Goto, At, StoreTypeOK, SharedTypeOK,
       HandlerTypeOK, WriterTypeOK
  <2>21. ASSUME NEW w \in Workers, Reload(w) PROVE TypeOK'
    <3>1. StoreTypeOK'
      BY <2>21, <1>1 DEF Reload, Note, Goto, At, MayEnd, StoreTypeOK
    <3>2. SharedTypeOK' /\ WriterTypeOK'
      BY <2>21, <1>1 DEF Reload, Note, Goto, At, MayEnd, SharedTypeOK, WriterTypeOK
    <3>3. pc' \in [Workers -> PCs]
      <4>1. \E l \in PCs : Goto(w, l)
        BY <2>21, <1>1 DEF Reload, Note, Goto, At, MayEnd, HandlerTypeOK, StoreTypeOK
      <4> HIDE DEF PCs, Fields, BuildStatus
      <4> QED
        BY <4>1 DEF HandlerTypeOK, Goto
    <3>4. /\ dev' \in [Workers -> Devices \cup {None}]
          /\ cur' \in [Workers -> Sessions \cup {None}]
      BY <2>21, <1>1 DEF Reload, Note, Goto, At, MayEnd, HandlerTypeOK, StoreTypeOK
    <3>5. plugin' \in [Workers -> BOOLEAN]
      <4>1. CASE plugin' = [plugin EXCEPT ![w] = "plugin" \in hash[cur[w]]]
        BY <4>1 DEF HandlerTypeOK
      <4>2. CASE UNCHANGED plugin
        BY <4>2 DEF HandlerTypeOK
      <4> QED
        BY <2>21, <4>1, <4>2 DEF Reload
    <3>6. mem' \in [Workers -> SUBSET Fields]
      <4>1. CASE UNCHANGED mem
        BY <4>1 DEF HandlerTypeOK
      <4>2. CASE cur[w] \in Sessions /\ mem' = [mem EXCEPT ![w] = hash[cur[w]]]
        <5> HIDE DEF Fields
        <5> QED
          BY <4>2 DEF HandlerTypeOK, StoreTypeOK
      <4> QED
        BY <1>1, <2>21, <4>1, <4>2 DEF Reload, At
    <3>7. built' \in [Workers -> SUBSET BuildStatus]
      <4>1. UNCHANGED built \/ \E b \in SUBSET BuildStatus : Note(w, b)
        BY <2>21 DEF Reload
      <4> HIDE DEF BuildStatus
      <4> QED
        BY <4>1 DEF Note, HandlerTypeOK
    <3> QED
      BY <3>1, <3>2, <3>3, <3>4, <3>5, <3>6, <3>7 DEF HandlerTypeOK
  <2>22. ASSUME NEW w \in Workers, MarkDeleted(w) PROVE TypeOK'
    <3>1. dev[w] \in Devices /\ cur[w] \in Sessions
      BY <1>1, <2>22 DEF MarkDeleted, At
    <3>2. HandlerTypeOK'
      BY <2>22, <3>1 DEF MarkDeleted, Goto, HandlerTypeOK
    <3>3. StoreTypeOK'
      BY <2>22, <3>1, <3>2 DEF MarkDeleted, Save, Saved, StoreTypeOK, HandlerTypeOK
    <3>4. SharedTypeOK' /\ WriterTypeOK'
      BY <2>22, <3>1 DEF MarkDeleted, SharedTypeOK, WriterTypeOK
    <3> QED
      BY <3>2, <3>3, <3>4
  <2>23. ASSUME NEW w \in Workers, Detach(w) PROVE TypeOK'
    <3>1. dev[w] \in Devices /\ cur[w] \in Sessions
      BY <1>1, <2>23 DEF Detach, At
    <3>2. StoreTypeOK'
      BY <2>23, <3>1 DEF Detach, Note, Goto, At, StoreTypeOK
    <3>3. SharedTypeOK' /\ WriterTypeOK'
      BY <2>23, <3>1 DEF Detach, Note, Goto, At, SharedTypeOK, WriterTypeOK
    <3>4. pc' \in [Workers -> PCs]
      <4>1. \E l \in PCs : Goto(w, l)
        BY <2>23, <3>1 DEF Detach, Note, Goto, At, HandlerTypeOK
      <4> HIDE DEF PCs, Fields, BuildStatus
      <4> QED
        BY <4>1 DEF HandlerTypeOK, Goto
    <3>5. /\ dev' \in [Workers -> Devices \cup {None}]
          /\ cur' \in [Workers -> Sessions \cup {None}]
      BY <2>23, <3>1 DEF Detach, Note, Goto, At, HandlerTypeOK
    <3>6. plugin' \in [Workers -> BOOLEAN]
      BY <2>23, <3>1 DEF Detach, Note, Goto, At, HandlerTypeOK
    <3>7. mem' \in [Workers -> SUBSET Fields]
      BY <2>23, <3>1 DEF Detach, Note, Goto, At, HandlerTypeOK
    <3>8. built' \in [Workers -> SUBSET BuildStatus]
      <4>1. UNCHANGED built \/ \E b \in SUBSET BuildStatus : Note(w, b)
        BY <2>23, <3>1 DEF Detach, Note, Goto, At, HandlerTypeOK
      <4> HIDE DEF PCs, Fields, BuildStatus
      <4> QED
        BY <4>1 DEF HandlerTypeOK, Note
    <3> QED
      BY <3>2, <3>3, <3>4, <3>5, <3>6, <3>7, <3>8 DEF HandlerTypeOK
  <2>24. ASSUME NEW w \in Workers, UnrefPlatform(w) PROVE TypeOK'
    BY <1>1, <2>24, <1>2 DEF UnrefPlatform, Goto, At, StoreTypeOK, SharedTypeOK,
       HandlerTypeOK, WriterTypeOK
  <2>25. ASSUME NEW w \in Workers, DecreasePlatform(w) PROVE TypeOK'
    <3>1. dev[w] \in Devices /\ cur[w] \in Sessions
      BY <1>1, <2>25 DEF DecreasePlatform, At
    <3>2. StoreTypeOK'
      BY <2>25, <3>1, <1>2 DEF DecreasePlatform, IncreaseReference, Goto, At,
         StoreTypeOK
    <3>3. SharedTypeOK' /\ WriterTypeOK'
      BY <2>25, <3>1, <1>2 DEF DecreasePlatform, IncreaseReference, Goto, At,
         SharedTypeOK, WriterTypeOK
    <3>4. pc' \in [Workers -> PCs]
      <4>1. \E l \in PCs : Goto(w, l)
        BY <2>25, <3>1 DEF DecreasePlatform, IncreaseReference, Goto, At, HandlerTypeOK
      <4> HIDE DEF PCs, Fields, BuildStatus
      <4> QED
        BY <4>1 DEF HandlerTypeOK, Goto
    <3>5. /\ dev' \in [Workers -> Devices \cup {None}]
          /\ cur' \in [Workers -> Sessions \cup {None}]
      BY <2>25, <3>1, <1>2 DEF DecreasePlatform, IncreaseReference, Goto, At,
         HandlerTypeOK
    <3>6. plugin' \in [Workers -> BOOLEAN]
      BY <2>25, <3>1, <1>2 DEF DecreasePlatform, IncreaseReference, Goto, At,
         HandlerTypeOK
    <3>7. mem' \in [Workers -> SUBSET Fields]
      BY <2>25, <3>1, <1>2 DEF DecreasePlatform, IncreaseReference, Goto, At,
         HandlerTypeOK
    <3>8. built' \in [Workers -> SUBSET BuildStatus]
      BY <2>25, <3>1, <1>2 DEF DecreasePlatform, IncreaseReference, Goto, At,
         HandlerTypeOK
    <3> QED
      BY <3>2, <3>3, <3>4, <3>5, <3>6, <3>7, <3>8 DEF HandlerTypeOK
  <2>26. ASSUME NEW w \in Workers, UpdateActivation(w) PROVE TypeOK'
    BY SMTT(60), <1>1, <2>26 DEF UpdateActivation, Goto, At, StoreTypeOK, SharedTypeOK,
       HandlerTypeOK, WriterTypeOK
  <2>27. ASSUME NEW w \in Workers, UnrefGateway(w) PROVE TypeOK'
    <3>1. dev[w] \in Devices /\ cur[w] \in Sessions
      BY <1>1, <2>27 DEF UnrefGateway, At
    <3>2. StoreTypeOK'
      BY <2>27, <3>1 DEF UnrefGateway, UpdateGWSessionScore, StoreTypeOK
    <3>3. SharedTypeOK' /\ HandlerTypeOK' /\ WriterTypeOK'
      BY <2>27, <3>1 DEF UnrefGateway, Goto, SharedTypeOK, HandlerTypeOK, WriterTypeOK
    <3> QED
      BY <3>2, <3>3
  <2>28. ASSUME NEW w \in Workers, DeleteSession(w) PROVE TypeOK'
    BY <1>1, <2>28 DEF DeleteSession, Del, UserOfSession, Goto, At, StoreTypeOK,
       SharedTypeOK, HandlerTypeOK, WriterTypeOK
  <2>29. ASSUME NEW w \in Workers, ReportPlatform(w) PROVE TypeOK'
    BY <1>1, <2>29, <1>2 DEF ReportPlatform, Goto, At, StoreTypeOK, SharedTypeOK,
       HandlerTypeOK, WriterTypeOK
  <2>30. ASSUME NEW w \in Workers, Disconnect(w) PROVE TypeOK'
    <3>1. dev[w] \in Devices /\ cur[w] \in Sessions
      BY <1>1, <2>30 DEF Disconnect, At
    <3>2. StoreTypeOK'
      BY <2>30, <3>1 DEF Disconnect, Note, Goto, At, StoreTypeOK
    <3>3. SharedTypeOK' /\ WriterTypeOK'
      BY <2>30, <3>1 DEF Disconnect, Note, Goto, At, SharedTypeOK, WriterTypeOK
    <3>4. HandlerTypeOK'
      <4>1. CASE UNCHANGED built /\ Goto(w, "lastdevice")
        BY <2>30, <4>1 DEF Disconnect, Goto, HandlerTypeOK
      <4>2. CASE Note(w, {"failed"}) /\ Goto(w, "unlock")
        BY <2>30, <4>2 DEF Disconnect, Note, Goto, HandlerTypeOK
      <4> QED
        BY <2>30, <4>1, <4>2 DEF Disconnect
    <3> QED
      BY <3>2, <3>3, <3>4
  <2>31. ASSUME NEW w \in Workers, LastDevice(w) PROVE TypeOK'
    BY <1>1, <2>31 DEF LastDevice, Goto, At, StoreTypeOK, SharedTypeOK, HandlerTypeOK,
       WriterTypeOK
  <2>32. ASSUME NEW w \in Workers, ClearDataCenter(w) PROVE TypeOK'
    BY <1>1, <2>32 DEF ClearDataCenter, Me, Goto, At, StoreTypeOK, SharedTypeOK,
       HandlerTypeOK, WriterTypeOK
  <2>33. ASSUME NEW w \in Workers, Unlock(w) PROVE TypeOK'
    <3>1. StoreTypeOK'
      BY <2>33, <1>1 DEF Unlock, Goto, Reset, At, StoreTypeOK
    <3>2. SharedTypeOK' /\ WriterTypeOK'
      BY <2>33, <1>1 DEF Unlock, Goto, Reset, At, SharedTypeOK, WriterTypeOK
    <3>3. pc' \in [Workers -> PCs]
      <4>1. \E l \in PCs : Goto(w, l)
        BY <2>33, <1>1 DEF Unlock, Goto, Reset, At, HandlerTypeOK
      <4> HIDE DEF PCs, Fields, BuildStatus
      <4> QED
        BY <4>1 DEF HandlerTypeOK, Goto
    <3>4. /\ dev' \in [Workers -> Devices \cup {None}]
          /\ cur' \in [Workers -> Sessions \cup {None}]
      BY <2>33, <1>1 DEF Unlock, Goto, Reset, At, HandlerTypeOK
    <3>5. plugin' \in [Workers -> BOOLEAN]
      <4>1. UNCHANGED plugin \/ \E k \in BOOLEAN : plugin' = [plugin EXCEPT ![w] = k]
        BY <2>33, <1>1 DEF Unlock, Goto, Reset, At, HandlerTypeOK
      <4> HIDE DEF PCs, Fields, BuildStatus
      <4> QED
        BY <4>1 DEF HandlerTypeOK
    <3>6. mem' \in [Workers -> SUBSET Fields]
      BY <2>33, <1>1 DEF Unlock, Goto, Reset, At, HandlerTypeOK
    <3>7. built' \in [Workers -> SUBSET BuildStatus]
      BY <2>33, <1>1 DEF Unlock, Goto, Reset, At, HandlerTypeOK
    <3> QED
      BY <3>1, <3>2, <3>3, <3>4, <3>5, <3>6, <3>7 DEF HandlerTypeOK
  <2>34. ASSUME NEW w \in Workers, Revive(w) PROVE TypeOK'
    BY <1>1, <2>34, <1>2 DEF Revive, Reset, Goto, At, StoreTypeOK, SharedTypeOK,
       HandlerTypeOK, WriterTypeOK
  <2>35. ASSUME NEW w \in Workers, ForgetDevice(w) PROVE TypeOK'
    BY <1>1, <2>35 DEF ForgetDevice, Reset, Goto, At, StoreTypeOK, SharedTypeOK,
       HandlerTypeOK, WriterTypeOK
  <2>36. ASSUME NEW w \in Workers, Crash(w) PROVE TypeOK'
    BY <1>1, <2>36 DEF Crash, Reset, Goto, At, StoreTypeOK, SharedTypeOK, HandlerTypeOK,
       WriterTypeOK
  <2>37. ASSUME NEW w \in Workers, NEW d \in Devices, StartRequest(w, d) PROVE TypeOK'
    <3>1. plugin \in [Workers -> BOOLEAN]
      BY <1>1 DEF HandlerTypeOK
    <3>2. plugin' \in [Workers -> BOOLEAN]
      BY <2>37, <3>1 DEF StartRequest, StartSessionFromClient, StartSessionByDevice
    <3>3. HandlerTypeOK'
      BY <1>1, <2>37, <3>2 DEF StartRequest, Goto, At, HandlerTypeOK
    <3>4. StoreTypeOK' /\ SharedTypeOK' /\ WriterTypeOK'
      BY <1>1, <2>37 DEF StartRequest, StoreTypeOK, SharedTypeOK, WriterTypeOK
    <3>5. QED
      BY <3>3, <3>4
  <2>38. ASSUME NEW w \in Workers, NEW d \in Devices, AdminKill(w, d) PROVE TypeOK'
    <3>1. StoreTypeOK'
      BY <2>38, <1>1 DEF AdminKill, FindKilled, RemoveLock, LoadKilled, SessionOfUserDevice, Goto, Note, At, StoreTypeOK
    <3>2. SharedTypeOK' /\ WriterTypeOK'
      BY <2>38, <1>1 DEF AdminKill, FindKilled, RemoveLock, LoadKilled, SessionOfUserDevice, Goto, Note, At, SharedTypeOK, WriterTypeOK
    <3>3. pc' \in [Workers -> PCs]
      <4>1. \E l \in PCs : Goto(w, l)
        BY <2>38, <1>1 DEF AdminKill, FindKilled, RemoveLock, LoadKilled, SessionOfUserDevice, Goto, Note, At, HandlerTypeOK,
           StoreTypeOK
      <4> HIDE DEF PCs, Fields, BuildStatus
      <4> QED
        BY <4>1 DEF HandlerTypeOK, Goto
    <3>4. /\ dev' \in [Workers -> Devices \cup {None}]
          /\ cur' \in [Workers -> Sessions \cup {None}]
      BY <2>38, <1>1 DEF AdminKill, FindKilled, RemoveLock, LoadKilled, SessionOfUserDevice, Goto, Note, At, HandlerTypeOK, StoreTypeOK
    <3>5. plugin' \in [Workers -> BOOLEAN]
      BY <2>38, <1>1 DEF AdminKill, FindKilled, RemoveLock, LoadKilled, SessionOfUserDevice, Goto, Note, At, HandlerTypeOK, StoreTypeOK
    <3>6. mem' \in [Workers -> SUBSET Fields]
      BY <2>38, <1>1 DEF AdminKill, FindKilled, RemoveLock, LoadKilled, SessionOfUserDevice, Goto, Note, At, HandlerTypeOK, StoreTypeOK
    <3>7. built' \in [Workers -> SUBSET BuildStatus]
      BY <2>38, <1>1 DEF AdminKill, FindKilled, RemoveLock, LoadKilled, SessionOfUserDevice, Goto, Note, At, HandlerTypeOK, StoreTypeOK
    <3> QED
      BY <3>1, <3>2, <3>3, <3>4, <3>5, <3>6, <3>7 DEF HandlerTypeOK
  <2>39. ASSUME NEW w \in Workers, NEW s \in Sessions, EndRequest(w, s) PROVE TypeOK'
    BY <1>1, <2>39 DEF EndRequest, Goto, At, StoreTypeOK, SharedTypeOK, HandlerTypeOK,
       WriterTypeOK
  <2>40. ASSUME NEW o \in Writers, OtherSave(o) PROVE TypeOK'
    <3>1. StoreTypeOK'
      <4>1. oSess[o] \in Sessions
        BY <1>1, <2>40 DEF OtherSave
      <4>2. /\ UNCHANGED <<usersess, userset, listed, unlisted, suspended, refs, ids>>
            /\ \/ hash' = [hash EXCEPT ![oSess[o]] = (@ \cap Sticky) \cup oMem[o]]
               \/ hash' = [hash EXCEPT ![oSess[o]] = (@ \ {"suspend"}) \cup {"active"} \cup oMem[o]]
        BY <2>40 DEF OtherSave, Save, Saved
      <4> QED
        BY <4>1, <4>2 DEF StoreTypeOK, WriterTypeOK
    <3>2. SharedTypeOK' /\ HandlerTypeOK'
      BY <2>40 DEF OtherSave, SharedTypeOK, HandlerTypeOK
    <3>3. WriterTypeOK'
      BY <2>40 DEF OtherSave, WriterTypeOK
    <3> QED
      BY <3>1, <3>2, <3>3
  <2>41. ASSUME NEW o \in Writers, OtherSchedule(o) PROVE TypeOK'
    BY <1>1, <2>41 DEF OtherSchedule, StoreTypeOK, SharedTypeOK, HandlerTypeOK,
       WriterTypeOK
  <2>42. ASSUME NEW o \in Writers, NEW s \in Sessions, OtherLoad(o, s) PROVE TypeOK'
    BY <1>1, <2>42 DEF OtherLoad, Copy, StoreTypeOK, SharedTypeOK, HandlerTypeOK,
       WriterTypeOK
  <2>43. ASSUME NEW s \in Sessions, SuspendTimeout(s) PROVE TypeOK'
    BY <1>1, <2>43 DEF SuspendTimeout, StoreTypeOK, SharedTypeOK, HandlerTypeOK,
       WriterTypeOK
  <2>44. ASSUME NEW d \in Devices, LockExpires(d) PROVE TypeOK'
    BY <1>1, <2>44 DEF LockExpires, StoreTypeOK, SharedTypeOK, HandlerTypeOK, WriterTypeOK
  <2>45. CASE UNCHANGED vars
    BY <2>45 DEF vars, StoreTypeOK, SharedTypeOK, HandlerTypeOK, WriterTypeOK
  <2> HIDE DEF TypeOK
  <2> QED
    BY <2>1, <2>2, <2>3, <2>4, <2>5, <2>6, <2>7, <2>8, <2>9, <2>10, <2>11, <2>12, <2>13,
       <2>14, <2>15, <2>16, <2>17, <2>18, <2>19, <2>20, <2>21, <2>22, <2>23, <2>24,
       <2>25, <2>26, <2>27, <2>28, <2>29, <2>30, <2>31, <2>32, <2>33, <2>34, <2>35,
       <2>36, <2>37, <2>38, <2>39, <2>40, <2>41, <2>42, <2>43, <2>44, <2>45 DEF Next,
       WorkerStep, StartStep, EndStep, OtherStep
<1> QED
  BY <1>3

(***************************************************************************)
(* The pointer of a device stays on a session of the device: SetPointer    *)
(* sets it to one whose hash exists, no save removes the fields every      *)
(* hash has, and del removes hash and pointer in one MULTI.                *)
(***************************************************************************)
LEMMA StorePreserved ==
    ASSUME TypeOK, SessionInv, [Next]_vars PROVE StoreSound'
<1> USE StoreAssumption, ControllerAssumption
<1>1. \A w \in Workers : At(w, "join") => cur[w] \in Sessions /\ deviceOf[cur[w]] # None
  BY DEF SessionInv, WorkerSound, TypeOK, HandlerTypeOK, At
<1>2. StoreSound'
  <2> USE DEF SessionInv, StoreSound, PlacedSound, WorkerSound, OtherSound, PlacedOn,
     Exists, Sticky, TypeOK, StoreTypeOK, HandlerTypeOK, WriterTypeOK, Writers, store,
     keys, refs, ids, outside, own, other, bounds
  <2>1. ASSUME NEW w \in Workers, Join(w) PROVE StoreSound'
    <3>1. cur[w] \in Sessions /\ deviceOf[cur[w]] # None
      BY <1>1, <2>1 DEF Join
    <3>2. UNCHANGED <<usersess, deviceOf, platOf>>
      BY <2>1 DEF Join
    <3>3. \A s \in Sessions : s # cur[w] => hash'[s] = hash[s]
      BY <2>1 DEF Join, Save, Saved
    <3>4. "active" \in hash[cur[w]] => "active" \in hash'[cur[w]]
      BY <2>1, <3>1 DEF Join, Save, Saved
    <3> HIDE DEF WorkerSound, PlacedSound, OtherSound, WriterTypeOK
    <3> QED
      BY <3>1, <3>2, <3>3, <3>4
  <2>2. ASSUME NEW w \in Workers, Limit(w) PROVE StoreSound'
    BY <2>2 DEF Limit, Goto, At
  <2>3. ASSUME NEW w \in Workers, CreateSession(w) PROVE StoreSound'
    BY <2>3 DEF CreateSession, Create, Save, Saved, Goto, At
  <2>4. ASSUME NEW w \in Workers, SetPointer(w) PROVE StoreSound'
    BY <2>4 DEF SetPointer, Goto, At, FreshSound, Fresh
  <2>5. ASSUME NEW w \in Workers, SuspendNew(w) PROVE StoreSound'
    BY <2>5 DEF SuspendNew, Suspend, Save, Saved, Goto, At
  <2>6. ASSUME NEW w \in Workers, Place(w) PROVE StoreSound'
    BY <2>6 DEF Place, Note, Goto, At
  <2>7. ASSUME NEW w \in Workers, SaveSession(w) PROVE StoreSound'
    BY <2>7 DEF SaveSession, Save, Saved, Goto, At
  <2>8. ASSUME NEW w \in Workers, Discard(w) PROVE StoreSound'
    BY <2>8 DEF Discard, Del, UserOfSession, Goto, At
  <2>9. ASSUME NEW w \in Workers, MarkDeleted(w) PROVE StoreSound'
    BY <2>9 DEF MarkDeleted, Save, Saved, Goto, At
  <2>10. ASSUME NEW w \in Workers, DeleteSession(w) PROVE StoreSound'
    BY <2>10 DEF DeleteSession, Del, UserOfSession, Goto, At
  <2>11. ASSUME NEW o \in Writers, OtherSave(o) PROVE StoreSound'
    <3>1. oSess[o] \in Sessions /\ deviceOf[oSess[o]] # None
      BY <2>11 DEF OtherSave
    <3>2. UNCHANGED <<usersess, deviceOf, platOf>>
      BY <2>11 DEF OtherSave
    <3>3. \A s \in Sessions : s # oSess[o] => hash'[s] = hash[s]
      BY <2>11 DEF OtherSave, Save, Saved
    <3>4. "active" \in hash[oSess[o]] => "active" \in hash'[oSess[o]]
      BY <2>11, <3>1 DEF OtherSave, Save, Saved
    <3> HIDE DEF WorkerSound, PlacedSound, OtherSound, WriterTypeOK
    <3> QED
      BY <3>1, <3>2, <3>3, <3>4
  <2>12. ASSUME NEW w \in Workers,
               \/ Lock(w) \/ LockRefused(w) \/ Lookup(w) \/ AddToUser(w) \/
                  Attach(w) \/ CountOnGateway(w) \/ ListOnPlatform(w) \/
                  RecordDataCenter(w)
         PROVE StoreSound'
    BY <2>12 DEF Lock, LockRefused, Lookup, SessionOfUserDevice, AddToUser, Attach, findGateway,
       CountOnGateway,
       ListOnPlatform, RecordDataCenter
  <2>13. ASSUME NEW w \in Workers,
               \/ Connect(w) \/ CleanPlatform(w) \/ CleanUser(w) \/
                  CleanGateway(w) \/ Reload(w) \/ Detach(w) \/ UnrefPlatform(w)
                  \/ DecreasePlatform(w)
         PROVE StoreSound'
    BY <2>13 DEF Connect, CleanPlatform, CleanUser, CleanGateway, Reload, Detach,
       UnrefPlatform, DecreasePlatform
  <2>14. ASSUME NEW w \in Workers,
               \/ UpdateActivation(w) \/ UnrefGateway(w) \/ ReportPlatform(w) \/
                  Disconnect(w) \/ LastDevice(w) \/ ClearDataCenter(w) \/
                  Unlock(w) \/ Revive(w)
         PROVE StoreSound'
    BY <2>14 DEF UpdateActivation, UnrefGateway, ReportPlatform, Disconnect, LastDevice,
       ClearDataCenter, Unlock, Revive
  <2>15. ASSUME NEW w \in Workers,
               \/ ForgetDevice(w) \/ Crash(w)
         PROVE StoreSound'
    BY <2>15 DEF ForgetDevice, Crash
  <2>16. ASSUME NEW w \in Workers, NEW d \in Devices, StartRequest(w, d) PROVE StoreSound'
    BY <2>16 DEF StartRequest, StartSessionFromClient, StartSessionByDevice, At
  <2>17. ASSUME NEW w \in Workers, NEW d \in Devices, AdminKill(w, d) PROVE StoreSound'
    BY <2>17 DEF AdminKill, FindKilled, RemoveLock, LoadKilled, SessionOfUserDevice, At
  <2>18. ASSUME NEW w \in Workers, NEW s \in Sessions, EndRequest(w, s) PROVE StoreSound'
    BY <2>18 DEF EndRequest, At
  <2>19. ASSUME NEW o \in Writers, OtherSchedule(o) PROVE StoreSound'
    BY <2>19 DEF OtherSchedule, At
  <2>20. ASSUME NEW o \in Writers, NEW s \in Sessions, OtherLoad(o, s) PROVE StoreSound'
    BY <2>20 DEF OtherLoad, At
  <2>21. ASSUME NEW s \in Sessions, SuspendTimeout(s) PROVE StoreSound'
    BY <2>21 DEF SuspendTimeout, At
  <2>22. ASSUME NEW d \in Devices, LockExpires(d) PROVE StoreSound'
    BY <2>22 DEF LockExpires, At
  <2>23. CASE UNCHANGED vars
    BY <2>23 DEF vars, At
  <2> HIDE DEF StoreSound
  <2> QED
    BY <2>1, <2>2, <2>3, <2>4, <2>5, <2>6, <2>7, <2>8, <2>9, <2>10, <2>11, <2>12, <2>13,
       <2>14, <2>15, <2>16, <2>17, <2>18, <2>19, <2>20, <2>21, <2>22, <2>23 DEF Next,
       WorkerStep, StartStep, EndStep, OtherStep
<1> QED
  BY <1>2

(***************************************************************************)
(* A session is marked as placed only after a platform was chosen, in      *)
(* redis and in every copy of it that may be written back.                 *)
(***************************************************************************)
LEMMA PlacedPreserved ==
    ASSUME TypeOK, SessionInv, [Next]_vars PROVE PlacedSound'
<1> USE StoreAssumption, ControllerAssumption
<1>1. PlacedSound'
  <2> USE DEF SessionInv, StoreSound, PlacedSound, WorkerSound, OtherSound, PlacedOn,
     Exists, Sticky, TypeOK, StoreTypeOK, HandlerTypeOK, WriterTypeOK, Writers, store,
     keys, refs, ids, outside, own, other, bounds
  <2>1. ASSUME NEW w \in Workers, LockRefused(w) PROVE PlacedSound'
    BY <2>1 DEF LockRefused, LockFree, Reset, Goto, At
  <2>2. ASSUME NEW w \in Workers, Lookup(w) PROVE PlacedSound'
    <3>1. UNCHANGED <<hash, platOf, oSess, oMem>>
      BY <2>2 DEF Lookup, SessionOfUserDevice
    <3>2. \A x \in Workers :
            \/ cur'[x] = cur[x] /\ mem'[x] = mem[x]
            \/ cur'[x] \in Sessions /\ mem'[x] = hash[cur'[x]]
      <4>1. UNCHANGED <<cur, mem>> \/ \E s \in Sessions :
              cur' = [cur EXCEPT ![w] = s] /\ mem' = [mem EXCEPT ![w] = hash[s]]
        BY <2>2 DEF Lookup, SessionOfUserDevice, At, Goto
      <4> QED
        BY <4>1
    <3> QED
      BY <3>1, <3>2
  <2>3. ASSUME NEW w \in Workers, Join(w) PROVE PlacedSound'
    <3>1. UNCHANGED <<platOf, cur, mem, oSess, oMem>>
      BY <2>3 DEF Join
    <3>2. \A s \in Sessions :
            \/ s = cur[w] /\ hash'[s] = (hash[s] \cap Sticky) \cup mem[w]
            \/ hash[s] \subseteq hash'[s] /\ hash'[s] \subseteq hash[s] \cup {"active"}
      <4>1. \/ hash' = [hash EXCEPT ![cur[w]] = (@ \cap Sticky) \cup mem[w]]
            \/ \E token \in SUBSET {"active"} :
                  hash' = [hash EXCEPT ![cur[w]] = @ \cup token]
        BY <2>3 DEF Join, Save, Saved
      <4>2. hash \in [Sessions -> SUBSET Fields]
        OBVIOUS
      <4> HIDE DEF Sticky
      <4> QED
        BY ONLY <4>1, <4>2
    <3>3. \A s \in Sessions : PlacedOn(hash'[s], s)
      BY <3>2
    <3> QED
      BY <3>1, <3>3
  <2>4. ASSUME NEW w \in Workers, Limit(w) PROVE PlacedSound'
    <3>1. UNCHANGED <<hash, platOf, oSess, oMem>>
      BY <2>4 DEF Limit
    <3>2. \A x \in Workers :
            (cur'[x] = cur[x] /\ mem'[x] = mem[x]) \/ "placed" \notin mem'[x]
      BY <2>4 DEF Limit
    <3> QED
      BY <3>1, <3>2
  <2>5. ASSUME NEW w \in Workers, CreateSession(w) PROVE PlacedSound'
    BY <2>5 DEF CreateSession, Create, Save, Saved, Goto, At
  <2>6. ASSUME NEW w \in Workers, SuspendNew(w) PROVE PlacedSound'
    BY <2>6 DEF SuspendNew, Suspend, Save, Saved, Goto, At
  <2>7. ASSUME NEW w \in Workers, Place(w) PROVE PlacedSound'
    <3>1. /\ cur[w] \in Sessions /\ UNCHANGED <<hash, cur, oSess, oMem>>
          /\ "placed" \in mem'[w] => "placed" \in mem[w]
          /\ "plugin" \in mem[w] => "plugin" \in mem'[w]
          /\ \A x \in Workers \ {w} : mem'[x] = mem[x]
      <4>1. cur[w] \in Sessions /\ UNCHANGED <<hash, cur, oSess, oMem>>
        BY <2>7 DEF Place, At
      <4>2. UNCHANGED mem \/ mem' = [mem EXCEPT ![w] = @ \cup {"domain"}]
        BY <2>7 DEF Place
      <4> QED
        BY <4>1, <4>2
    <3>2. \A s \in Sessions : platOf'[s] = platOf[s] \/ platOf'[s] \in Platforms
      BY <2>7, <3>1 DEF Place
    <3> HIDE DEF WorkerSound, StoreSound, OtherSound
    <3> QED
      BY <3>1, <3>2
  <2>8. ASSUME NEW w \in Workers, SaveSession(w) PROVE PlacedSound'
    BY <2>8 DEF SaveSession, Save, Saved, Goto, At
  <2>9. ASSUME NEW w \in Workers, Discard(w) PROVE PlacedSound'
    BY <2>9 DEF Discard, Del, UserOfSession, Goto, At
  <2>10. ASSUME NEW w \in Workers, Reload(w) PROVE PlacedSound'
    <3>1. /\ cur[w] \in Sessions /\ UNCHANGED <<hash, platOf, cur, oSess, oMem>>
      BY <2>10 DEF Reload, At
    <3>2. \A x \in Workers : mem'[x] = mem[x] \/ (x = w /\ mem'[x] = hash[cur[w]])
      BY <2>10 DEF Reload
    <3> QED
      BY <3>1, <3>2
  <2>11. ASSUME NEW w \in Workers, MarkDeleted(w) PROVE PlacedSound'
    BY <2>11 DEF MarkDeleted, Save, Saved, Goto, At
  <2>12. ASSUME NEW w \in Workers, DeleteSession(w) PROVE PlacedSound'
    BY <2>12 DEF DeleteSession, Del, UserOfSession, Goto, At
  <2>13. ASSUME NEW w \in Workers, Unlock(w) PROVE PlacedSound'
    BY <2>13 DEF Unlock, Goto, Reset, At
  <2>14. ASSUME NEW w \in Workers, Revive(w) PROVE PlacedSound'
    BY <2>14 DEF Revive, Reset, Goto, At
  <2>15. ASSUME NEW w \in Workers, ForgetDevice(w) PROVE PlacedSound'
    BY <2>15 DEF ForgetDevice, Reset, Goto, At
  <2>16. ASSUME NEW w \in Workers, Crash(w) PROVE PlacedSound'
    BY <2>16 DEF Crash, Reset, Goto, At
  <2>17. ASSUME NEW w \in Workers, NEW d \in Devices, AdminKill(w, d) PROVE PlacedSound'
    BY <2>17 DEF AdminKill, FindKilled, RemoveLock, LoadKilled, SessionOfUserDevice, Goto, Note, At
  <2>18. ASSUME NEW w \in Workers, NEW s \in Sessions, EndRequest(w, s) PROVE PlacedSound'
    BY <2>18 DEF EndRequest, Goto, At
  <2>19. ASSUME NEW o \in Writers, OtherSave(o) PROVE PlacedSound'
    BY <2>19 DEF OtherSave, Save, Saved
  <2>20. ASSUME NEW o \in Writers, OtherSchedule(o) PROVE PlacedSound'
    BY <2>20 DEF OtherSchedule
  <2>21. ASSUME NEW o \in Writers, NEW s \in Sessions, OtherLoad(o, s) PROVE PlacedSound'
    BY <2>21 DEF OtherLoad, Copy
  <2>22. ASSUME NEW w \in Workers,
               \/ Lock(w) \/ SetPointer(w) \/ AddToUser(w) \/ Attach(w) \/
                  CountOnGateway(w) \/ ListOnPlatform(w) \/ RecordDataCenter(w)
                  \/ Connect(w)
         PROVE PlacedSound'
    BY <2>22 DEF Lock, SetPointer, AddToUser, Attach, findGateway, CountOnGateway, ListOnPlatform,
       RecordDataCenter, Connect
  <2>23. ASSUME NEW w \in Workers,
               \/ CleanPlatform(w) \/ CleanUser(w) \/ CleanGateway(w) \/
                  Detach(w) \/ UnrefPlatform(w) \/ DecreasePlatform(w) \/
                  UpdateActivation(w) \/ UnrefGateway(w)
         PROVE PlacedSound'
    BY <2>23 DEF CleanPlatform, CleanUser, CleanGateway, Detach, UnrefPlatform,
       DecreasePlatform, UpdateActivation, UnrefGateway
  <2>24. ASSUME NEW w \in Workers,
               \/ ReportPlatform(w) \/ Disconnect(w) \/ LastDevice(w) \/
                  ClearDataCenter(w)
         PROVE PlacedSound'
    BY <2>24 DEF ReportPlatform, Disconnect, LastDevice, ClearDataCenter
  <2>25. ASSUME NEW w \in Workers, NEW d \in Devices, StartRequest(w, d) PROVE PlacedSound'
    BY <2>25 DEF StartRequest, StartSessionFromClient, StartSessionByDevice, At
  <2>26. ASSUME NEW s \in Sessions, SuspendTimeout(s) PROVE PlacedSound'
    BY <2>26 DEF SuspendTimeout, At
  <2>27. ASSUME NEW d \in Devices, LockExpires(d) PROVE PlacedSound'
    BY <2>27 DEF LockExpires, At
  <2>28. CASE UNCHANGED vars
    BY <2>28 DEF vars, At
  <2> HIDE DEF PlacedSound
  <2> QED
    BY <2>1, <2>2, <2>3, <2>4, <2>5, <2>6, <2>7, <2>8, <2>9, <2>10, <2>11, <2>12, <2>13,
       <2>14, <2>15, <2>16, <2>17, <2>18, <2>19, <2>20, <2>21, <2>22, <2>23, <2>24,
       <2>25, <2>26, <2>27, <2>28 DEF Next, WorkerStep, StartStep, EndStep, OtherStep
<1> QED
  BY <1>1

(***************************************************************************)
(* A handler keeps working on a session of its device, whatever the other  *)
(* handlers do.                                                            *)
(***************************************************************************)
LEMMA WorkerPreserved ==
    ASSUME TypeOK, SessionInv, [Next]_vars PROVE WorkerSound'
<1> USE StoreAssumption, ControllerAssumption
<1>1. WorkerSound'
  <2> USE DEF SessionInv, StoreSound, PlacedSound, WorkerSound, OtherSound, PlacedOn,
     Exists, Sticky, TypeOK, StoreTypeOK, HandlerTypeOK, WriterTypeOK, Writers, store,
     keys, refs, ids, outside, own, other, bounds
  <2>1. ASSUME NEW w \in Workers, Lock(w) PROVE WorkerSound'
    BY <2>1 DEF Lock, LockFree, Goto, At
  <2>2. ASSUME NEW w \in Workers, LockRefused(w) PROVE WorkerSound'
    BY <2>2 DEF LockRefused, LockFree, Reset, Goto, At
  <2>3. ASSUME NEW w \in Workers, Lookup(w) PROVE WorkerSound'
    BY <2>3 DEF Lookup, SessionOfUserDevice, Goto, At, Joinable, Exists
  <2>4. ASSUME NEW w \in Workers, Join(w) PROVE WorkerSound'
    BY <2>4 DEF Join, Save, Saved, Goto, At
  <2>5. ASSUME NEW w \in Workers, Limit(w) PROVE WorkerSound'
    BY <2>5 DEF Limit, Goto, At
  <2>6. ASSUME NEW w \in Workers, CreateSession(w) PROVE WorkerSound'
    BY <2>6 DEF CreateSession, Create, Save, Saved, Goto, At
  <2>7. ASSUME NEW w \in Workers, SetPointer(w) PROVE WorkerSound'
    BY <2>7 DEF SetPointer, Goto, At
  <2>8. ASSUME NEW w \in Workers, AddToUser(w) PROVE WorkerSound'
    BY <2>8 DEF AddToUser, Goto, At, Me
  <2>9. ASSUME NEW w \in Workers, SuspendNew(w) PROVE WorkerSound'
    BY <2>9 DEF SuspendNew, Suspend, Save, Saved, Goto, At
  <2>10. ASSUME NEW w \in Workers, Place(w) PROVE WorkerSound'
    BY <2>10 DEF Place, Note, Goto, At
  <2>11. ASSUME NEW w \in Workers, Attach(w) PROVE WorkerSound'
    BY <2>11 DEF Attach, findGateway, Note, Goto, At
  <2>12. ASSUME NEW w \in Workers, CountOnGateway(w) PROVE WorkerSound'
    BY <2>12 DEF CountOnGateway, UpdateGWSessionScore, Note, Goto, At
  <2>13. ASSUME NEW w \in Workers, ListOnPlatform(w) PROVE WorkerSound'
    BY <2>13 DEF ListOnPlatform, Note, Goto, At
  <2>14. ASSUME NEW w \in Workers, SaveSession(w) PROVE WorkerSound'
    BY <2>14 DEF SaveSession, Save, Saved, Goto, At
  <2>15. ASSUME NEW w \in Workers, RecordDataCenter(w) PROVE WorkerSound'
    BY <2>15 DEF RecordDataCenter, Me, Goto, At
  <2>16. ASSUME NEW w \in Workers, Connect(w) PROVE WorkerSound'
    BY <2>16 DEF Connect, ConnectedRow, Goto, At
  <2>17. ASSUME NEW w \in Workers, CleanPlatform(w) PROVE WorkerSound'
    BY <2>17 DEF CleanPlatform, CleanReference, IncreaseReference, Goto, At
  <2>18. ASSUME NEW w \in Workers, CleanUser(w) PROVE WorkerSound'
    BY <2>18 DEF CleanUser, Goto, At
  <2>19. ASSUME NEW w \in Workers, CleanGateway(w) PROVE WorkerSound'
    BY <2>19 DEF CleanGateway, UpdateGWSessionScore, Goto, At
  <2>20. ASSUME NEW w \in Workers, Discard(w) PROVE WorkerSound'
    BY <2>20 DEF Discard, Del, UserOfSession, Goto, At
  <2>21. ASSUME NEW w \in Workers, Reload(w) PROVE WorkerSound'
    <3>1. /\ pc[w] = "reload" /\ UNCHANGED <<platOf, deviceOf, dev, cur>>
      BY <2>21 DEF Reload, At
    <3>2. \A x \in Workers \ {w} :
            /\ pc'[x] = pc[x] /\ mem'[x] = mem[x] /\ plugin'[x] = plugin[x]
            /\ built'[x] = built[x]
      BY <2>21 DEF Reload, Goto, Note
    <3>3. \/ pc'[w] = "mark" /\ UNCHANGED built /\ MayEnd(cur[w])
             /\ mem'[w] = hash[cur[w]]
             /\ plugin' = [plugin EXCEPT ![w] = "plugin" \in hash[cur[w]]]
          \/ pc'[w] = "unlock" /\ Note(w, {"failed"})
      BY <2>21 DEF Reload, Goto
    <3>5. pc'[w] = "mark" => ("plugin" \in mem'[w] => plugin'[w])
      <4> SUFFICES ASSUME pc'[w] = "mark", "plugin" \in mem'[w] PROVE plugin'[w]
        OBVIOUS
      <4>1. "plugin" \in hash[cur[w]] /\ plugin' = [plugin EXCEPT ![w] = "plugin" \in hash[cur[w]]]
        BY <3>3
      <4>2. plugin \in [Workers -> BOOLEAN]
        BY DEF TypeOK, HandlerTypeOK
      <4>3. ("plugin" \in hash[cur[w]]) = TRUE
        BY <4>1, Zenon
      <4>4. plugin' = [plugin EXCEPT ![w] = TRUE]
        BY <4>1, <4>3, Zenon
      <4> QED
        BY <4>2, <4>4
    <3>4. built'[w] \cap {"platerr", "revive"} = built[w] \cap {"platerr", "revive"}
      BY <3>3 DEF Note
    <3> QED
      BY <3>1, <3>2, <3>3, <3>4, <3>5 DEF At, MayEnd
  <2>22. ASSUME NEW w \in Workers, MarkDeleted(w) PROVE WorkerSound'
    BY <2>22 DEF MarkDeleted, Save, Saved, Goto, At
  <2>23. ASSUME NEW w \in Workers, Detach(w) PROVE WorkerSound'
    BY <2>23 DEF Detach, Note, Goto, At
  <2>24. ASSUME NEW w \in Workers, UnrefPlatform(w) PROVE WorkerSound'
    BY <2>24 DEF UnrefPlatform, Goto, At
  <2>25. ASSUME NEW w \in Workers, DecreasePlatform(w) PROVE WorkerSound'
    BY <2>25 DEF DecreasePlatform, IncreaseReference, Goto, At
  <2>26. ASSUME NEW w \in Workers, UpdateActivation(w) PROVE WorkerSound'
    BY <2>26 DEF UpdateActivation, Goto, At
  <2>27. ASSUME NEW w \in Workers, UnrefGateway(w) PROVE WorkerSound'
    BY <2>27 DEF UnrefGateway, UpdateGWSessionScore, Goto, At
  <2>28. ASSUME NEW w \in Workers, DeleteSession(w) PROVE WorkerSound'
    BY <2>28 DEF DeleteSession, Del, UserOfSession, Goto, At
  <2>29. ASSUME NEW w \in Workers, ReportPlatform(w) PROVE WorkerSound'
    BY <2>29 DEF ReportPlatform, Goto, At
  <2>30. ASSUME NEW w \in Workers, Disconnect(w) PROVE WorkerSound'
    <3>1. UNCHANGED <<platOf, deviceOf, dev, cur, mem, plugin>>
      BY <2>30 DEF Disconnect
    <3>2. /\ pc[w] = "disconnect" /\ pc'[w] \in {"lastdevice", "unlock"}
          /\ built'[w] \cap {"platerr", "revive"} = built[w] \cap {"platerr", "revive"}
          /\ \A x \in Workers \ {w} : pc'[x] = pc[x] /\ built'[x] = built[x]
      BY <2>30 DEF Disconnect, Goto, Note, At
    <3> QED
      BY <3>1, <3>2 DEF At
  <2>31. ASSUME NEW w \in Workers, LastDevice(w) PROVE WorkerSound'
    BY <2>31 DEF LastDevice, Goto, At
  <2>32. ASSUME NEW w \in Workers, ClearDataCenter(w) PROVE WorkerSound'
    BY <2>32 DEF ClearDataCenter, Me, Goto, At
  <2>33. ASSUME NEW w \in Workers, Unlock(w) PROVE WorkerSound'
    BY <2>33 DEF Unlock, Goto, Reset, At
  <2>34. ASSUME NEW w \in Workers, Revive(w) PROVE WorkerSound'
    BY <2>34 DEF Revive, Reset, Goto, At
  <2>35. ASSUME NEW w \in Workers, ForgetDevice(w) PROVE WorkerSound'
    BY <2>35 DEF ForgetDevice, Reset, Goto, At
  <2>36. ASSUME NEW w \in Workers, Crash(w) PROVE WorkerSound'
    BY <2>36 DEF Crash, Reset, Goto, At
  <2>37. ASSUME NEW w \in Workers, NEW d \in Devices, StartRequest(w, d) PROVE WorkerSound'
    BY <2>37 DEF StartRequest, StartSessionFromClient, StartSessionByDevice, Goto, At
  <2>38. ASSUME NEW w \in Workers, NEW d \in Devices, AdminKill(w, d) PROVE WorkerSound'
    BY <2>38 DEF AdminKill, FindKilled, RemoveLock, LoadKilled, SessionOfUserDevice, Goto, Note, At
  <2>39. ASSUME NEW w \in Workers, NEW s \in Sessions, EndRequest(w, s) PROVE WorkerSound'
    BY <2>39 DEF EndRequest, Goto, At
  <2>40. ASSUME NEW o \in Writers, OtherSave(o) PROVE WorkerSound'
    BY <2>40 DEF OtherSave, At
  <2>41. ASSUME NEW o \in Writers, OtherSchedule(o) PROVE WorkerSound'
    BY <2>41 DEF OtherSchedule, At
  <2>42. ASSUME NEW o \in Writers, NEW s \in Sessions, OtherLoad(o, s) PROVE WorkerSound'
    BY <2>42 DEF OtherLoad, At
  <2>43. ASSUME NEW s \in Sessions, SuspendTimeout(s) PROVE WorkerSound'
    BY <2>43 DEF SuspendTimeout, At
  <2>44. ASSUME NEW d \in Devices, LockExpires(d) PROVE WorkerSound'
    BY <2>44 DEF LockExpires, At
  <2>45. CASE UNCHANGED vars
    BY <2>45 DEF vars, At
  <2> HIDE DEF WorkerSound
  <2> QED
    BY <2>1, <2>2, <2>3, <2>4, <2>5, <2>6, <2>7, <2>8, <2>9, <2>10, <2>11, <2>12, <2>13,
       <2>14, <2>15, <2>16, <2>17, <2>18, <2>19, <2>20, <2>21, <2>22, <2>23, <2>24,
       <2>25, <2>26, <2>27, <2>28, <2>29, <2>30, <2>31, <2>32, <2>33, <2>34, <2>35,
       <2>36, <2>37, <2>38, <2>39, <2>40, <2>41, <2>42, <2>43, <2>44, <2>45 DEF Next,
       WorkerStep, StartStep, EndStep, OtherStep
<1> QED
  BY <1>1

(***************************************************************************)
(* The writers without a lock write to sessions that were created once.    *)
(***************************************************************************)
LEMMA OtherPreserved ==
    ASSUME TypeOK, SessionInv, [Next]_vars PROVE OtherSound'
<1> USE StoreAssumption, ControllerAssumption
<1>1. OtherSound'
  <2> USE DEF SessionInv, StoreSound, PlacedSound, WorkerSound, OtherSound, PlacedOn,
     Exists, Sticky, TypeOK, StoreTypeOK, HandlerTypeOK, WriterTypeOK, Writers, store,
     keys, refs, ids, outside, own, other, bounds
  <2>1. ASSUME NEW w \in Workers, Limit(w) PROVE OtherSound'
    BY <2>1 DEF Limit, Goto, At
  <2>2. ASSUME NEW o \in Writers, OtherSave(o) PROVE OtherSound'
    BY <2>2 DEF OtherSave, Save, Saved
  <2>3. ASSUME NEW o \in Writers, OtherSchedule(o) PROVE OtherSound'
    BY <2>3 DEF OtherSchedule
  <2>4. ASSUME NEW o \in Writers, NEW s \in Sessions, OtherLoad(o, s) PROVE OtherSound'
    BY <2>4 DEF OtherLoad, Copy
  <2>5. ASSUME NEW w \in Workers,
               \/ Lock(w) \/ LockRefused(w) \/ Lookup(w) \/ Join(w) \/
                  CreateSession(w) \/ SetPointer(w) \/ AddToUser(w) \/
                  SuspendNew(w)
         PROVE OtherSound'
    BY <2>5 DEF Lock, LockRefused, Lookup, SessionOfUserDevice, Join, CreateSession, SetPointer,
       AddToUser,
       SuspendNew
  <2>6. ASSUME NEW w \in Workers,
               \/ Place(w) \/ Attach(w) \/ CountOnGateway(w) \/
                  ListOnPlatform(w) \/ SaveSession(w) \/ RecordDataCenter(w) \/
                  Connect(w) \/ CleanPlatform(w)
         PROVE OtherSound'
    BY <2>6 DEF Place, Attach, findGateway, CountOnGateway, ListOnPlatform, SaveSession,
       RecordDataCenter, Connect, CleanPlatform
  <2>7. ASSUME NEW w \in Workers,
               \/ CleanUser(w) \/ CleanGateway(w) \/ Discard(w) \/ Reload(w) \/
                  MarkDeleted(w) \/ Detach(w) \/ UnrefPlatform(w) \/
                  DecreasePlatform(w)
         PROVE OtherSound'
    BY <2>7 DEF CleanUser, CleanGateway, Discard, Reload, MarkDeleted, Detach,
       UnrefPlatform, DecreasePlatform
  <2>8. ASSUME NEW w \in Workers,
               \/ UpdateActivation(w) \/ UnrefGateway(w) \/ DeleteSession(w) \/
                  ReportPlatform(w) \/ Disconnect(w) \/ LastDevice(w) \/
                  ClearDataCenter(w) \/ Unlock(w)
         PROVE OtherSound'
    BY <2>8 DEF UpdateActivation, UnrefGateway, DeleteSession, ReportPlatform,
       Disconnect, LastDevice, ClearDataCenter, Unlock
  <2>9. ASSUME NEW w \in Workers,
               \/ Revive(w) \/ ForgetDevice(w) \/ Crash(w)
         PROVE OtherSound'
    BY <2>9 DEF Revive, ForgetDevice, Crash
  <2>10. ASSUME NEW w \in Workers, NEW d \in Devices, StartRequest(w, d) PROVE OtherSound'
    BY <2>10 DEF StartRequest, StartSessionFromClient, StartSessionByDevice, At
  <2>11. ASSUME NEW w \in Workers, NEW d \in Devices, AdminKill(w, d) PROVE OtherSound'
    BY <2>11 DEF AdminKill, FindKilled, RemoveLock, LoadKilled, SessionOfUserDevice, At
  <2>12. ASSUME NEW w \in Workers, NEW s \in Sessions, EndRequest(w, s) PROVE OtherSound'
    BY <2>12 DEF EndRequest, At
  <2>13. ASSUME NEW s \in Sessions, SuspendTimeout(s) PROVE OtherSound'
    BY <2>13 DEF SuspendTimeout, At
  <2>14. ASSUME NEW d \in Devices, LockExpires(d) PROVE OtherSound'
    BY <2>14 DEF LockExpires, At
  <2>15. CASE UNCHANGED vars
    BY <2>15 DEF vars, At
  <2> HIDE DEF OtherSound
  <2> QED
    BY <2>1, <2>2, <2>3, <2>4, <2>5, <2>6, <2>7, <2>8, <2>9, <2>10, <2>11, <2>12, <2>13,
       <2>14, <2>15 DEF Next, WorkerStep, StartStep, EndStep, OtherStep
<1> QED
  BY <1>1

(***************************************************************************)
(* A handler that gives up its session (Reset) does not touch a new one.   *)
(***************************************************************************)
LEMMA ResetKeepsFresh ==
    ASSUME HandlerTypeOK, NEW w \in Workers, NEW x \in Workers, x # w,
           pc[x] = pc'[x], Fresh(x), cur[x] \in Sessions, Reset(w),
           UNCHANGED <<hash, usersess, platOf, oSess, oMem>>
    PROVE  Fresh(x)'
<1> USE StoreAssumption
<1>1. cur'[x] = cur[x] /\ mem'[x] = mem[x] /\ cur'[w] = None
  BY DEF Reset, HandlerTypeOK
<1>2. \A y \in Workers \ {w} : pc'[y] = pc[y] /\ cur'[y] = cur[y]
  BY DEF Reset, Goto, HandlerTypeOK
<1> QED
  BY <1>1, <1>2 DEF Fresh, At

(***************************************************************************)
(* A new session stays out of reach until the pointer of its device is     *)
(* set: whatever the others do, handler x finds it as it left it.          *)
(***************************************************************************)
LEMMA FreshPreserved ==
    ASSUME TypeOK, SessionInv, [Next]_vars,
           NEW x \in Workers, pc'[x] \in {"create", "pointer"}
    PROVE  Fresh(x)'
<1> USE StoreAssumption, ControllerAssumption
<1>1. HandlerTypeOK /\ WriterTypeOK /\ StoreTypeOK
  BY DEF TypeOK
<1>2. /\ cur[x] \in Sessions => deviceOf[cur[x]] = dev[x]
      /\ pc[x] \in {"create", "pointer"} => Fresh(x) /\ cur[x] \in Sessions /\ dev[x] \in Devices
  BY DEF SessionInv, WorkerSound, FreshSound, At
<1>3. \A s \in Sessions : deviceOf[s] = None =>
        /\ hash[s] = {} /\ platOf[s] = None
        /\ \A d \in Devices : usersess[d] # s
        /\ \A w \in Workers : cur[w] # s
        /\ \A o \in Writers : oSess[o] # s
  <2> SUFFICES ASSUME NEW s \in Sessions, deviceOf[s] = None
               PROVE  /\ hash[s] = {} /\ platOf[s] = None
                      /\ \A d \in Devices : usersess[d] # s
                      /\ \A w \in Workers : cur[w] # s
                      /\ \A o \in Writers : oSess[o] # s
    OBVIOUS
  <2>1. hash[s] = {} /\ platOf[s] = None /\ \A d \in Devices : usersess[d] # s
    BY <1>1 DEF SessionInv, StoreSound, Exists
  <2>2. \A w \in Workers : cur[w] # s
    BY <1>1 DEF SessionInv, WorkerSound, At
  <2>3. \A o \in Writers : oSess[o] # s
    BY <1>1 DEF SessionInv, OtherSound
  <2> QED
    BY <2>1, <2>2, <2>3
<1>4. ASSUME NEW w \in Workers, Lock(w) PROVE Fresh(x)'
  BY <1>4 DEF Lock, LockFree, Goto, At, Fresh, SessionInv, FreshSound, TypeOK,
     HandlerTypeOK, Writers, store, keys, refs, ids, outside, own, other, bounds
<1>5. ASSUME NEW w \in Workers, LockRefused(w) PROVE Fresh(x)'
  <2>1. x # w
    BY <1>1, <1>5 DEF LockRefused, Reset, Goto, HandlerTypeOK
  <2>2. pc'[x] = pc[x] /\ UNCHANGED <<hash, usersess, platOf, oSess, oMem>>
    BY <1>1, <1>5, <2>1 DEF LockRefused, Reset, Goto, HandlerTypeOK, store, keys, ids, other
  <2>3. CASE Reset(w)
    BY <1>1, <1>2, <2>1, <2>2, <2>3, ResetKeepsFresh
  <2>4. CASE Goto(w, "forget") /\ UNCHANGED own
    <3>1. pc'[w] = "forget" /\ \A y \in Workers \ {w} : pc'[y] = pc[y]
      BY <1>1, <2>4 DEF Goto, HandlerTypeOK
    <3> QED
      BY <1>2, <2>1, <2>2, <2>4, <3>1 DEF Fresh, At, own
  <2> QED
    BY <1>5, <2>3, <2>4 DEF LockRefused
<1>6. ASSUME NEW w \in Workers, Lookup(w) PROVE Fresh(x)'
  <2>1. x # w
    BY <1>1, <1>6 DEF Lookup, SessionOfUserDevice, Goto, HandlerTypeOK
  <2>2. /\ pc'[x] = pc[x] /\ cur'[x] = cur[x] /\ mem'[x] = mem[x]
        /\ UNCHANGED <<hash, usersess, platOf, oSess, oMem>>
    BY <1>1, <1>6, <2>1 DEF Lookup, SessionOfUserDevice, Goto, HandlerTypeOK, store, keys, ids,
       other
  <2>3. Fresh(x) /\ cur[x] \in Sessions
    BY <1>2, <2>2
  <2>4. cur'[w] # cur[x] \/ (pc'[w] = "unlock")
    <3>1. cur[w] = None /\ dev[w] \in Devices
      BY <1>6 DEF Lookup, SessionOfUserDevice, SessionInv, WorkerSound, At
    <3>2. usersess[dev[w]] # cur[x]
      BY <2>3, <3>1 DEF Fresh
    <3> QED
      BY <1>1, <1>6, <3>1, <3>2, <2>3 DEF Lookup, SessionOfUserDevice, HandlerTypeOK
  <2>5. \A y \in Workers \ {w} : pc'[y] = pc[y] /\ cur'[y] = cur[y]
    BY <1>1, <1>6 DEF Lookup, SessionOfUserDevice, Goto, HandlerTypeOK
  <2> QED
    BY <2>1, <2>2, <2>3, <2>4, <2>5 DEF Fresh, At
<1>7. ASSUME NEW w \in Workers, Join(w) PROVE Fresh(x)'
  <2>1. x # w
    BY <1>1, <1>7 DEF Join, Goto, HandlerTypeOK
  <2>2. /\ pc'[x] = pc[x] /\ pc[w] = "join"
        /\ UNCHANGED <<cur, mem, usersess, platOf, oSess, oMem>>
    BY <1>1, <1>7, <2>1 DEF Join, Goto, At, HandlerTypeOK, own, ids, other
  <2>3. Fresh(x) /\ cur[x] \in Sessions
    BY <1>2, <2>2
  <2>4. cur[w] # cur[x]
    BY <2>1, <2>2, <2>3 DEF Fresh
  <2>5. hash'[cur[x]] = hash[cur[x]]
    BY <1>1, <1>7, <2>3, <2>4 DEF Join, Save, Saved, StoreTypeOK
  <2>6. \A y \in Workers \ {w} : pc'[y] = pc[y]
    BY <1>1, <1>7 DEF Join, Goto, HandlerTypeOK
  <2> QED
    BY <2>1, <2>2, <2>3, <2>4, <2>5, <2>6 DEF Fresh, At
<1>8. ASSUME NEW w \in Workers, Limit(w) PROVE Fresh(x)'
  <2>1. CASE x # w
    <3>1. /\ pc'[x] = pc[x] /\ cur'[x] = cur[x] /\ mem'[x] = mem[x]
          /\ UNCHANGED <<hash, usersess, platOf, oSess, oMem>>
      BY <1>1, <1>8, <2>1 DEF Limit, Goto, HandlerTypeOK, keys, ids, other
    <3>2. Fresh(x) /\ cur[x] \in Sessions /\ deviceOf[cur[x]] # None
      BY <1>2, <3>1
    <3>3. cur'[w] # cur[x] \/ pc'[w] = "unlock"
      BY <1>1, <1>8, <3>2 DEF Limit, Goto, HandlerTypeOK
    <3>4. \A y \in Workers \ {w} : pc'[y] = pc[y] /\ cur'[y] = cur[y]
      BY <1>1, <1>8 DEF Limit, Goto, HandlerTypeOK
    <3> QED
      BY <2>1, <3>1, <3>2, <3>3, <3>4 DEF Fresh, At
  <2>2. CASE x = w
    <3>1. PICK s \in Sessions : deviceOf[s] = None /\ cur' = [cur EXCEPT ![w] = s]
      BY <1>1, <1>8, <2>2 DEF Limit, Goto, HandlerTypeOK
    <3>2. /\ pc'[w] = "create" /\ "active" \in mem'[w] /\ "placed" \notin mem'[w]
          /\ UNCHANGED <<hash, usersess, platOf, oSess, oMem>>
      BY <1>1, <1>8, <2>2 DEF Limit, Goto, HandlerTypeOK, keys, ids, other
    <3>3. cur'[w] = s /\ \A y \in Workers \ {w} : cur'[y] = cur[y]
      BY <1>1, <3>1 DEF HandlerTypeOK
    <3> QED
      BY <1>3, <2>2, <3>1, <3>2, <3>3 DEF Fresh, At
  <2> QED
    BY <2>1, <2>2
<1>9. ASSUME NEW w \in Workers, CreateSession(w) PROVE Fresh(x)'
  BY <1>9 DEF CreateSession, Create, Save, Saved, Goto, At, Fresh, SessionInv,
     FreshSound, WorkerSound, TypeOK, HandlerTypeOK, StoreTypeOK, Writers, store, keys,
     refs, ids, outside, own, other, bounds
<1>10. ASSUME NEW w \in Workers, SetPointer(w) PROVE Fresh(x)'
  BY <1>10 DEF SetPointer, Goto, At, Fresh, SessionInv, FreshSound, TypeOK,
     HandlerTypeOK, Writers, store, keys, refs, ids, outside, own, other, bounds
<1>11. ASSUME NEW w \in Workers, AddToUser(w) PROVE Fresh(x)'
  BY <1>11 DEF AddToUser, Goto, At, Me, Fresh, SessionInv, FreshSound, TypeOK,
     HandlerTypeOK, Writers, store, keys, refs, ids, outside, own, other, bounds
<1>12. ASSUME NEW w \in Workers, SuspendNew(w) PROVE Fresh(x)'
  BY <1>12 DEF SuspendNew, Suspend, Save, Saved, Goto, At, Fresh, SessionInv,
     FreshSound, TypeOK, HandlerTypeOK, Writers, store, keys, refs, ids, outside, own,
     other, bounds
<1>13. ASSUME NEW w \in Workers, Place(w) PROVE Fresh(x)'
  <2>1. x # w
    BY <1>1, <1>13 DEF Place, Goto, HandlerTypeOK
  <2>2. /\ pc'[x] = pc[x] /\ mem'[x] = mem[x] /\ pc[w] = "place"
        /\ UNCHANGED <<hash, cur, usersess, oSess, oMem>>
    BY <1>1, <1>13, <2>1 DEF Place, Goto, At, HandlerTypeOK, keys, other
  <2>3. Fresh(x) /\ cur[x] \in Sessions
    BY <1>2, <2>2
  <2>4. cur[w] # cur[x]
    BY <2>1, <2>2, <2>3 DEF Fresh
  <2>5. platOf'[cur[x]] = platOf[cur[x]]
    BY <1>1, <1>13, <2>3, <2>4 DEF Place, StoreTypeOK
  <2>6. \A y \in Workers \ {w} : pc'[y] = pc[y]
    BY <1>1, <1>13 DEF Place, Goto, HandlerTypeOK
  <2> QED
    BY <2>1, <2>2, <2>3, <2>4, <2>5, <2>6 DEF Fresh, At
<1>14. ASSUME NEW w \in Workers, Attach(w) PROVE Fresh(x)'
  BY <1>14 DEF Attach, findGateway, Note, Goto, At, Fresh, SessionInv, FreshSound, TypeOK,
     HandlerTypeOK, Writers, store, keys, refs, ids, outside, own, other, bounds
<1>15. ASSUME NEW w \in Workers, CountOnGateway(w) PROVE Fresh(x)'
  BY <1>15 DEF CountOnGateway, UpdateGWSessionScore, Note, Goto, At, Fresh, SessionInv,
     FreshSound, TypeOK, HandlerTypeOK, Writers, store, keys, refs, ids, outside, own,
     other, bounds
<1>16. ASSUME NEW w \in Workers, ListOnPlatform(w) PROVE Fresh(x)'
  BY <1>16 DEF ListOnPlatform, Note, Goto, At, Fresh, SessionInv, FreshSound, TypeOK,
     HandlerTypeOK, Writers, store, keys, refs, ids, outside, own, other, bounds
<1>17. ASSUME NEW w \in Workers, SaveSession(w) PROVE Fresh(x)'
  BY <1>17 DEF SaveSession, Save, Saved, Goto, At, Fresh, SessionInv, FreshSound,
     TypeOK, HandlerTypeOK, Writers, store, keys, refs, ids, outside, own, other, bounds
<1>18. ASSUME NEW w \in Workers, RecordDataCenter(w) PROVE Fresh(x)'
  BY <1>18 DEF RecordDataCenter, Me, Goto, At, Fresh, SessionInv, FreshSound, TypeOK,
     HandlerTypeOK, Writers, store, keys, refs, ids, outside, own, other, bounds
<1>19. ASSUME NEW w \in Workers, Connect(w) PROVE Fresh(x)'
  BY <1>19 DEF Connect, ConnectedRow, Goto, At, Fresh, SessionInv, FreshSound, TypeOK,
     HandlerTypeOK, Writers, store, keys, refs, ids, outside, own, other, bounds
<1>20. ASSUME NEW w \in Workers, CleanPlatform(w) PROVE Fresh(x)'
  BY <1>20 DEF CleanPlatform, CleanReference, IncreaseReference, Goto, At, Fresh,
     SessionInv, FreshSound, TypeOK, HandlerTypeOK, Writers, store, keys, refs, ids,
     outside, own, other, bounds
<1>21. ASSUME NEW w \in Workers, CleanUser(w) PROVE Fresh(x)'
  BY <1>21 DEF CleanUser, Goto, At, Fresh, SessionInv, FreshSound, TypeOK,
     HandlerTypeOK, Writers, store, keys, refs, ids, outside, own, other, bounds
<1>22. ASSUME NEW w \in Workers, CleanGateway(w) PROVE Fresh(x)'
  BY <1>22 DEF CleanGateway, UpdateGWSessionScore, Goto, At, Fresh, SessionInv,
     FreshSound, TypeOK, HandlerTypeOK, Writers, store, keys, refs, ids, outside, own,
     other, bounds
<1>23. ASSUME NEW w \in Workers, Discard(w) \/ DeleteSession(w) PROVE Fresh(x)'
  <2>1. x # w
    BY <1>1, <1>23 DEF Discard, DeleteSession, Goto, HandlerTypeOK
  <2>2. /\ pc'[x] = pc[x] /\ pc[w] \in {"discard", "delete"}
        /\ UNCHANGED <<cur, mem, platOf, oSess, oMem>>
    BY <1>1, <1>23, <2>1 DEF Discard, DeleteSession, Goto, At, HandlerTypeOK, own, ids,
       other
  <2>3. Fresh(x) /\ cur[x] \in Sessions
    BY <1>2, <2>2
  <2>4. cur[w] # cur[x]
    BY <2>1, <2>2, <2>3 DEF Fresh
  <2>5. cur[w] \in Sessions /\ deviceOf[cur[w]] \in Devices
    BY <2>2 DEF SessionInv, WorkerSound, At
  <2>6. hash'[cur[x]] = hash[cur[x]] /\ \A d \in Devices : usersess'[d] \in {None, usersess[d]}
    BY <1>1, <1>23, <2>3, <2>4, <2>5 DEF Discard, DeleteSession, Del, StoreTypeOK
  <2>7. \A y \in Workers \ {w} : pc'[y] = pc[y]
    BY <1>1, <1>23 DEF Discard, DeleteSession, Goto, HandlerTypeOK
  <2> QED
    BY <2>1, <2>2, <2>3, <2>4, <2>6, <2>7 DEF Fresh, At
<1>24. ASSUME NEW w \in Workers, Reload(w) PROVE Fresh(x)'
  BY <1>24 DEF Reload, Note, Goto, At, MayEnd, Fresh, SessionInv, FreshSound, TypeOK,
     HandlerTypeOK, Writers, store, keys, refs, ids, outside, own, other, bounds
<1>25. ASSUME NEW w \in Workers, MarkDeleted(w) PROVE Fresh(x)'
  BY <1>25 DEF MarkDeleted, Save, Saved, Goto, At, Fresh, SessionInv, FreshSound,
     TypeOK, HandlerTypeOK, Writers, store, keys, refs, ids, outside, own, other, bounds
<1>26. ASSUME NEW w \in Workers, Detach(w) PROVE Fresh(x)'
  BY <1>26 DEF Detach, Note, Goto, At, Fresh, SessionInv, FreshSound, TypeOK,
     HandlerTypeOK, Writers, store, keys, refs, ids, outside, own, other, bounds
<1>27. ASSUME NEW w \in Workers, UnrefPlatform(w) PROVE Fresh(x)'
  BY <1>27 DEF UnrefPlatform, Goto, At, Fresh, SessionInv, FreshSound, TypeOK,
     HandlerTypeOK, Writers, store, keys, refs, ids, outside, own, other, bounds
<1>28. ASSUME NEW w \in Workers, DecreasePlatform(w) PROVE Fresh(x)'
  BY <1>28 DEF DecreasePlatform, IncreaseReference, Goto, At, Fresh, SessionInv,
     FreshSound, TypeOK, HandlerTypeOK, Writers, store, keys, refs, ids, outside, own,
     other, bounds
<1>29. ASSUME NEW w \in Workers, UpdateActivation(w) PROVE Fresh(x)'
  BY <1>29 DEF UpdateActivation, Goto, At, Fresh, SessionInv, FreshSound, TypeOK,
     HandlerTypeOK, Writers, store, keys, refs, ids, outside, own, other, bounds
<1>30. ASSUME NEW w \in Workers, UnrefGateway(w) PROVE Fresh(x)'
  BY <1>30 DEF UnrefGateway, UpdateGWSessionScore, Goto, At, Fresh, SessionInv,
     FreshSound, TypeOK, HandlerTypeOK, Writers, store, keys, refs, ids, outside, own,
     other, bounds
<1>31. ASSUME NEW w \in Workers, ReportPlatform(w) PROVE Fresh(x)'
  BY <1>31 DEF ReportPlatform, Goto, At, Fresh, SessionInv, FreshSound, TypeOK,
     HandlerTypeOK, Writers, store, keys, refs, ids, outside, own, other, bounds
<1>32. ASSUME NEW w \in Workers, Disconnect(w) PROVE Fresh(x)'
  BY <1>32 DEF Disconnect, Note, Goto, At, Fresh, SessionInv, FreshSound, TypeOK,
     HandlerTypeOK, Writers, store, keys, refs, ids, outside, own, other, bounds
<1>33. ASSUME NEW w \in Workers, LastDevice(w) PROVE Fresh(x)'
  BY <1>33 DEF LastDevice, Goto, At, Fresh, SessionInv, FreshSound, TypeOK,
     HandlerTypeOK, Writers, store, keys, refs, ids, outside, own, other, bounds
<1>34. ASSUME NEW w \in Workers, ClearDataCenter(w) PROVE Fresh(x)'
  BY <1>34 DEF ClearDataCenter, Me, Goto, At, Fresh, SessionInv, FreshSound, TypeOK,
     HandlerTypeOK, Writers, store, keys, refs, ids, outside, own, other, bounds
<1>35. ASSUME NEW w \in Workers, Unlock(w) PROVE Fresh(x)'
  <2>1. x # w
    BY <1>1, <1>35 DEF Unlock, Goto, Reset, HandlerTypeOK
  <2>2. /\ pc'[x] = pc[x] /\ cur'[x] = cur[x] /\ mem'[x] = mem[x]
        /\ UNCHANGED <<hash, usersess, platOf, oSess, oMem>>
    BY <1>1, <1>35, <2>1 DEF Unlock, Goto, Reset, HandlerTypeOK, own, store, keys, ids,
       other
  <2>3. Fresh(x) /\ cur[x] \in Sessions
    BY <1>2, <2>2
  <2>4. cur'[w] # cur[x] \/ pc'[w] = "forget"
    <3>1. CASE Reset(w)
      BY <1>1, <3>1, <2>3 DEF Reset, HandlerTypeOK
    <3>2. CASE UNCHANGED own /\ Goto(w, "forget")
      BY <1>1, <3>2 DEF Goto, HandlerTypeOK
    <3>3. CASE UNCHANGED own /\ "revive" \in built[w]
      <4>1. cur[w] # cur[x]
        BY <2>3, <3>3 DEF SessionInv, WorkerSound, Fresh
      <4> QED
        BY <3>3, <4>1 DEF own
    <3> QED
      BY <1>35, <3>1, <3>2, <3>3 DEF Unlock
  <2>5. \A y \in Workers \ {w} : pc'[y] = pc[y] /\ cur'[y] = cur[y]
    BY <1>1, <1>35 DEF Unlock, Goto, Reset, HandlerTypeOK, own
  <2> QED
    BY <2>1, <2>2, <2>3, <2>4, <2>5 DEF Fresh, At
<1>36. ASSUME NEW w \in Workers, Revive(w) PROVE Fresh(x)'
  <2>1. x # w
    BY <1>1, <1>36 DEF Revive, Reset, Goto, HandlerTypeOK
  <2>2. pc'[x] = pc[x]
    BY <1>1, <1>36, <2>1 DEF Revive, Reset, Goto, HandlerTypeOK
  <2>3. Reset(w) /\ UNCHANGED <<hash, usersess, platOf, oSess, oMem>>
    BY <1>36 DEF Revive, store, keys, ids, other
  <2> QED
    BY <1>1, <1>2, <2>1, <2>2, <2>3, ResetKeepsFresh
<1>37. ASSUME NEW w \in Workers, ForgetDevice(w) PROVE Fresh(x)'
  <2>1. x # w
    BY <1>1, <1>37 DEF ForgetDevice, Reset, Goto, HandlerTypeOK
  <2>2. pc'[x] = pc[x]
    BY <1>1, <1>37, <2>1 DEF ForgetDevice, Reset, Goto, HandlerTypeOK
  <2>3. Reset(w) /\ UNCHANGED <<hash, usersess, platOf, oSess, oMem>>
    BY <1>37 DEF ForgetDevice, store, keys, ids, other
  <2> QED
    BY <1>1, <1>2, <2>1, <2>2, <2>3, ResetKeepsFresh
<1>38. ASSUME NEW w \in Workers, Crash(w) PROVE Fresh(x)'
  <2>1. x # w
    BY <1>1, <1>38 DEF Crash, Reset, Goto, HandlerTypeOK
  <2>2. pc'[x] = pc[x]
    BY <1>1, <1>38, <2>1 DEF Crash, Reset, Goto, HandlerTypeOK
  <2>3. Reset(w) /\ UNCHANGED <<hash, usersess, platOf, oSess, oMem>>
    BY <1>38 DEF Crash, store, keys, ids, other
  <2> QED
    BY <1>1, <1>2, <2>1, <2>2, <2>3, ResetKeepsFresh
<1>39. ASSUME NEW w \in Workers, NEW d \in Devices, StartRequest(w, d) PROVE Fresh(x)'
  BY <1>39 DEF StartRequest, StartSessionFromClient, StartSessionByDevice, Goto, At, Fresh,
     SessionInv, FreshSound, TypeOK,
     HandlerTypeOK, Writers, store, keys, refs, ids, outside, own, other, bounds
<1>40. ASSUME NEW w \in Workers, NEW d \in Devices, AdminKill(w, d) PROVE Fresh(x)'
  BY <1>40 DEF AdminKill, FindKilled, RemoveLock, LoadKilled, SessionOfUserDevice, Goto, Note, At, Fresh, SessionInv, FreshSound,
     TypeOK,
     HandlerTypeOK, Writers, store, keys, refs, ids, outside, own, other, bounds
<1>41. ASSUME NEW w \in Workers, NEW s \in Sessions, EndRequest(w, s) PROVE Fresh(x)'
  BY <1>41 DEF EndRequest, Goto, At, Fresh, SessionInv, FreshSound, TypeOK,
     HandlerTypeOK, Writers, store, keys, refs, ids, outside, own, other, bounds
<1>42. ASSUME NEW o \in Writers, OtherSave(o) PROVE Fresh(x)'
  <2>1. UNCHANGED <<pc, cur, mem, usersess, platOf, oSess, oMem>>
    BY <1>42 DEF OtherSave, own, ids
  <2>2. Fresh(x) /\ cur[x] \in Sessions
    BY <1>2, <2>1
  <2>3. "placed" \notin hash'[cur[x]] /\ ("active" \in hash[cur[x]] => "active" \in hash'[cur[x]])
    <3>1. CASE oSess[o] # cur[x]
      <4>1. hash'[cur[x]] = hash[cur[x]]
        BY <1>1, <1>42, <2>2, <3>1 DEF OtherSave, Save, Saved, StoreTypeOK
      <4> QED
        BY <2>2, <4>1 DEF Fresh
    <3>2. CASE oSess[o] = cur[x]
      <4>1. "placed" \notin oMem[o] /\ "placed" \notin hash[cur[x]]
        BY <2>2, <3>2 DEF Fresh
      <4> QED
        BY <1>1, <1>42, <2>2, <3>2, <4>1 DEF OtherSave, Save, Saved, Sticky, StoreTypeOK
    <3> QED
      BY <3>1, <3>2
  <2> QED
    BY <2>1, <2>2, <2>3 DEF Fresh, At
<1>43. ASSUME NEW o \in Writers, OtherSchedule(o) PROVE Fresh(x)'
  <2>1. UNCHANGED <<pc, cur, mem, hash, usersess, platOf>>
    BY <1>43 DEF OtherSchedule, own, ids
  <2>2. Fresh(x) /\ cur[x] \in Sessions
    BY <1>2, <2>1
  <2>3. \A y \in Writers :
          (oSess'[y] = oSess[y] /\ oMem'[y] = oMem[y]) \/ oSess'[y] = None
    BY <1>1, <1>43 DEF OtherSchedule, WriterTypeOK
  <2> QED
    BY <2>1, <2>2, <2>3 DEF Fresh, At
<1>44. ASSUME NEW o \in Writers, NEW s \in Sessions, OtherLoad(o, s) PROVE Fresh(x)'
  BY <1>44 DEF OtherLoad, Copy, At, Fresh, SessionInv, FreshSound, OtherSound,
     WorkerSound, StoreSound, TypeOK, HandlerTypeOK, StoreTypeOK, WriterTypeOK, Exists,
     Sticky, Writers, store, keys, refs, ids, outside, own, other, bounds
<1>45. ASSUME NEW s \in Sessions, SuspendTimeout(s) PROVE Fresh(x)'
  BY <1>45 DEF SuspendTimeout, At, Fresh, SessionInv, FreshSound, TypeOK, HandlerTypeOK,
     Writers, store, keys, refs, ids, outside, own, other, bounds
<1>46. ASSUME NEW d \in Devices, LockExpires(d) PROVE Fresh(x)'
  BY <1>46 DEF LockExpires, At, Fresh, SessionInv, FreshSound, TypeOK, HandlerTypeOK,
     Writers, store, keys, refs, ids, outside, own, other, bounds
<1>47. CASE UNCHANGED vars
  BY <1>2, <1>47 DEF vars, At, Fresh, store, keys, refs, ids, outside, own, other,
     bounds
<1> QED
  BY <1>4, <1>5, <1>6, <1>7, <1>8, <1>9, <1>10, <1>11, <1>12, <1>13, <1>14, <1>15,
     <1>16, <1>17, <1>18, <1>19, <1>20, <1>21, <1>22, <1>23, <1>24, <1>25, <1>26, <1>27,
     <1>28, <1>29, <1>30, <1>31, <1>32, <1>33, <1>34, <1>35, <1>36, <1>37, <1>38, <1>39,
     <1>40, <1>41, <1>42, <1>43, <1>44, <1>45, <1>46, <1>47 DEF Next, WorkerStep,
     StartStep, EndStep, OtherStep

(***************************************************************************)
(* One step of any handler or writer keeps the inductive invariant.        *)
(***************************************************************************)
LEMMA StepSound == TypeOK /\ SessionInv /\ [Next]_vars => TypeOK' /\ SessionInv'
<1> SUFFICES ASSUME TypeOK, SessionInv, [Next]_vars PROVE TypeOK' /\ SessionInv'
  OBVIOUS
<1>1. FreshSound'
  BY FreshPreserved DEF FreshSound
<1> QED
  BY <1>1, TypePreserved, StorePreserved, PlacedPreserved, WorkerPreserved,
     OtherPreserved DEF SessionInv

(***************************************************************************)
(* The type invariant, with what it rests on: SessionInv holds in every    *)
(* reachable state, whatever fails, whoever else writes and whenever       *)
(* processes die.                                                          *)
(***************************************************************************)
THEOREM TypeCorrect == Spec => [](TypeOK /\ SessionInv)
<1> QED
  BY InitSound, StepSound, PTL DEF Spec

(***************************************************************************)
(* The pointer of a device (usersess_<email>_<deviceid>, session.js)       *)
(* never leads to a session that is gone or is another device's, although  *)
(* hash and pointer are written in two steps of setUserAndDevice, an       *)
(* administrator may delete the lock in between, and killPlatform and the  *)
(* gateways write hashes without a lock.                                   *)
(***************************************************************************)
THEOREM PointersNeverDangle == Spec => []NoDanglingPointer
<1>1. SessionInv => NoDanglingPointer
  BY DEF SessionInv, StoreSound, NoDanglingPointer, Exists
<1> QED
  BY <1>1, TypeCorrect, PTL

----------------------------------------------------------------------------
(* Under the lock of the device.                                           *)

\* A step of a handler is under the lock it took, and no other handler takes
\* that lock away (acquire and release of redisLock.js as RedisLock has them).
LEMMA LockPreserved ==
    ASSUME TypeOK, SessionInv, LockRespected, LockKept, [Next]_vars PROVE LockKept'
<1> USE StoreAssumption, ControllerAssumption
<1> SUFFICES ASSUME NEW x \in Workers, pc'[x] \in LockedPCs PROVE lock'[dev'[x]] = x
  BY DEF LockKept
<1> USE DEF TypeOK, HandlerTypeOK, SharedTypeOK, LockKept, LockRespected, LockedPCs, PCs,
   StartPCs, EndPCs, LastPCs, outside, own, other, bounds, store
<1>0. ~At(x, "idle") => dev[x] \in Devices
  BY DEF SessionInv, WorkerSound
<1>1. ASSUME NEW w \in Workers, Lock(w) PROVE lock'[dev'[x]] = x
  BY <1>1, <1>0 DEF Lock, LockFree, Goto, At
<1>2. ASSUME NEW w \in Workers, LockRefused(w) PROVE lock'[dev'[x]] = x
  BY <1>2, <1>0 DEF LockRefused, LockFree, Reset, Goto, At
<1>3. ASSUME NEW w \in Workers, Lookup(w) PROVE lock'[dev'[x]] = x
  BY <1>3, <1>0 DEF Lookup, SessionOfUserDevice, Joinable, Exists, Goto, At
<1>4. ASSUME NEW w \in Workers, Join(w) PROVE lock'[dev'[x]] = x
  BY <1>4, <1>0 DEF Join, Save, Saved, Goto, At
<1>5. ASSUME NEW w \in Workers, Limit(w) PROVE lock'[dev'[x]] = x
  BY <1>5, <1>0 DEF Limit, Me, Goto, At
<1>6. ASSUME NEW w \in Workers, CreateSession(w) PROVE lock'[dev'[x]] = x
  BY <1>6, <1>0 DEF CreateSession, Create, Save, Saved, Goto, At
<1>7. ASSUME NEW w \in Workers, SetPointer(w) PROVE lock'[dev'[x]] = x
  BY <1>7, <1>0 DEF SetPointer, Goto, At
<1>8. ASSUME NEW w \in Workers, AddToUser(w) PROVE lock'[dev'[x]] = x
  BY <1>8, <1>0 DEF AddToUser, Me, Goto, At
<1>9. ASSUME NEW w \in Workers, SuspendNew(w) PROVE lock'[dev'[x]] = x
  BY <1>9, <1>0 DEF SuspendNew, Suspend, Save, Saved, Goto, At
<1>10. ASSUME NEW w \in Workers, Place(w) PROVE lock'[dev'[x]] = x
  BY <1>10, <1>0 DEF Place, OrgRefuses, Note, Goto, At
<1>11. ASSUME NEW w \in Workers, Attach(w) PROVE lock'[dev'[x]] = x
  BY <1>11, <1>0 DEF Attach, findGateway, Note, Goto, At
<1>12. ASSUME NEW w \in Workers, CountOnGateway(w) PROVE lock'[dev'[x]] = x
  BY <1>12, <1>0 DEF CountOnGateway, UpdateGWSessionScore, Note, Goto, At
<1>13. ASSUME NEW w \in Workers, ListOnPlatform(w) PROVE lock'[dev'[x]] = x
  BY <1>13, <1>0 DEF ListOnPlatform, Note, Goto, At
<1>14. ASSUME NEW w \in Workers, SaveSession(w) PROVE lock'[dev'[x]] = x
  BY <1>14, <1>0 DEF SaveSession, Save, Saved, Goto, At
<1>15. ASSUME NEW w \in Workers, RecordDataCenter(w) PROVE lock'[dev'[x]] = x
  BY <1>15, <1>0 DEF RecordDataCenter, Me, Goto, At
<1>16. ASSUME NEW w \in Workers, Connect(w) PROVE lock'[dev'[x]] = x
  BY <1>16, <1>0 DEF Connect, ConnectedRow, Goto, At
<1>17. ASSUME NEW w \in Workers, CleanPlatform(w) PROVE lock'[dev'[x]] = x
  BY <1>17, <1>0 DEF CleanPlatform, CleanReference, IncreaseReference, Goto, At
<1>18. ASSUME NEW w \in Workers, CleanUser(w) PROVE lock'[dev'[x]] = x
  BY <1>18, <1>0 DEF CleanUser, Goto, At
<1>19. ASSUME NEW w \in Workers, CleanGateway(w) PROVE lock'[dev'[x]] = x
  BY <1>19, <1>0 DEF CleanGateway, UpdateGWSessionScore, Goto, At
<1>20. ASSUME NEW w \in Workers, Discard(w) PROVE lock'[dev'[x]] = x
  BY <1>20, <1>0 DEF Discard, Del, UserOfSession, Goto, At
<1>21. ASSUME NEW w \in Workers, Unlock(w) PROVE lock'[dev'[x]] = x
  BY <1>21, <1>0 DEF Unlock, Goto, Reset, At
<1>22. ASSUME NEW w \in Workers, Revive(w) PROVE lock'[dev'[x]] = x
  BY <1>22, <1>0 DEF Revive, Reset, Goto, At
<1>23. ASSUME NEW w \in Workers, Reload(w) PROVE lock'[dev'[x]] = x
  BY <1>23, <1>0 DEF Reload, MayEnd, Note, Goto, At
<1>24. ASSUME NEW w \in Workers, MarkDeleted(w) PROVE lock'[dev'[x]] = x
  BY <1>24, <1>0 DEF MarkDeleted, Save, Saved, Goto, At
<1>25. ASSUME NEW w \in Workers, Detach(w) PROVE lock'[dev'[x]] = x
  BY <1>25, <1>0 DEF Detach, Note, Goto, At
<1>26. ASSUME NEW w \in Workers, UnrefPlatform(w) PROVE lock'[dev'[x]] = x
  BY <1>26, <1>0 DEF UnrefPlatform, Goto, At
<1>27. ASSUME NEW w \in Workers, DecreasePlatform(w) PROVE lock'[dev'[x]] = x
  BY <1>27, <1>0 DEF DecreasePlatform, IncreaseReference, Goto, At
<1>28. ASSUME NEW w \in Workers, UpdateActivation(w) PROVE lock'[dev'[x]] = x
  BY <1>28, <1>0 DEF UpdateActivation, Goto, At
<1>29. ASSUME NEW w \in Workers, UnrefGateway(w) PROVE lock'[dev'[x]] = x
  BY <1>29, <1>0 DEF UnrefGateway, UpdateGWSessionScore, Goto, At
<1>30. ASSUME NEW w \in Workers, DeleteSession(w) PROVE lock'[dev'[x]] = x
  BY <1>30, <1>0 DEF DeleteSession, Del, UserOfSession, Goto, At
<1>31. ASSUME NEW w \in Workers, ReportPlatform(w) PROVE lock'[dev'[x]] = x
  BY <1>31, <1>0 DEF ReportPlatform, Goto, At
<1>32. ASSUME NEW w \in Workers, Disconnect(w) PROVE lock'[dev'[x]] = x
  BY <1>32, <1>0 DEF Disconnect, Note, Goto, At
<1>33. ASSUME NEW w \in Workers, LastDevice(w) PROVE lock'[dev'[x]] = x
  BY <1>33, <1>0 DEF LastDevice, Goto, At
<1>34. ASSUME NEW w \in Workers, ClearDataCenter(w) PROVE lock'[dev'[x]] = x
  BY <1>34, <1>0 DEF ClearDataCenter, Me, Goto, At
<1>35. ASSUME NEW w \in Workers, ForgetDevice(w) PROVE lock'[dev'[x]] = x
  BY <1>35, <1>0 DEF ForgetDevice, Reset, Goto, At
<1>36. ASSUME NEW w \in Workers, Crash(w) PROVE lock'[dev'[x]] = x
  BY <1>36, <1>0 DEF Crash, Reset, Goto, At
<1>37. ASSUME NEW w \in Workers, NEW d \in Devices, StartRequest(w, d) PROVE lock'[dev'[x]] = x
  BY <1>37, <1>0 DEF StartRequest, StartSessionFromClient, StartSessionByDevice, Goto, At
<1>38. ASSUME NEW w \in Workers, NEW d \in Devices, AdminKill(w, d) PROVE lock'[dev'[x]] = x
  BY <1>38, <1>0 DEF AdminKill, FindKilled, RemoveLock, LoadKilled, SessionOfUserDevice, Goto, Note, At
<1>39. ASSUME NEW w \in Workers, NEW s \in Sessions, EndRequest(w, s) PROVE lock'[dev'[x]] = x
  BY <1>39, <1>0 DEF EndRequest, LogoutUser, CloseOtherSessions, Goto, At
<1>40. ASSUME NEW o \in Writers, OtherSave(o) PROVE lock'[dev'[x]] = x
  BY <1>40, <1>0 DEF OtherSave, Save, Saved
<1>41. ASSUME NEW o \in Writers, OtherSchedule(o) PROVE lock'[dev'[x]] = x
  BY <1>41, <1>0 DEF OtherSchedule
<1>42. ASSUME NEW o \in Writers, NEW s \in Sessions, OtherLoad(o, s) PROVE lock'[dev'[x]] = x
  BY <1>42, <1>0 DEF OtherLoad, Copy
<1>43. ASSUME NEW s \in Sessions, SuspendTimeout(s) PROVE lock'[dev'[x]] = x
  BY <1>43, <1>0 DEF SuspendTimeout
<1>44. ASSUME NEW d \in Devices, LockExpires(d) PROVE lock'[dev'[x]] = x
  BY <1>44, <1>0 DEF LockExpires
<1>45. CASE UNCHANGED vars
  BY <1>45, <1>0 DEF vars, At
<1> QED
  BY <1>1, <1>2, <1>3, <1>4, <1>5, <1>6, <1>7, <1>8, <1>9, <1>10, <1>11, <1>12, <1>13, <1>14,
     <1>15, <1>16, <1>17, <1>18, <1>19, <1>20, <1>21, <1>22, <1>23, <1>24, <1>25, <1>26, <1>27,
     <1>28, <1>29, <1>30, <1>31, <1>32, <1>33, <1>34, <1>35, <1>36, <1>37, <1>38, <1>39, <1>40,
     <1>41, <1>42, <1>43, <1>44, <1>45 DEF Next, WorkerStep, StartStep, EndStep, OtherStep

\* What a handler knows of usersess_<email>_<deviceid> stays so while it has the
\* lock: nobody else writes the pointer of its device.
LEMMA PointerPreserved ==
    ASSUME TypeOK, SessionInv, LockRespected, LockInv, [Next]_vars PROVE PointerKept'
<1> USE StoreAssumption, ControllerAssumption
<1> USE DEF LockRespected, PointedPCs, PartialPCs, NewPCs, EndingPCs, store, keys, refs, ids,
   outside, own, other, bounds
<1>0. /\ pc \in [Workers -> PCs] /\ dev \in [Workers -> Devices \cup {None}]
      /\ cur \in [Workers -> Sessions \cup {None}] /\ usersess \in [Devices -> Sessions \cup {None}]
      /\ \A w \in Workers : ~At(w, "idle") => dev[w] \in Devices
      /\ \A w \in Workers : cur[w] # None => deviceOf[cur[w]] = dev[w]
      /\ \A w \in Workers : pc[w] \in NewPCs \cup EndingPCs => cur[w] \in Sessions
      /\ \A d \in Devices : usersess[d] # None => deviceOf[usersess[d]] = d
  BY DEF TypeOK, StoreTypeOK, HandlerTypeOK, SessionInv, WorkerSound, StoreSound, At
<1>1. /\ \A w \in Workers : pc[w] \in PointedPCs \cup {"limit", "create", "pointer", "lookup", "reload"}
                                => lock[dev[w]] = w
      /\ \A w \in Workers : pc[w] \in {"limit", "create", "pointer"} => usersess[dev[w]] = None
      /\ \A w \in Workers : pc[w] \in PointedPCs => usersess[dev[w]] = cur[w]
  BY DEF LockInv, LockKept, PointerKept, LockedPCs, PCs, StartPCs, EndPCs, LastPCs
<1>2. \A w \in Workers : At(w, "reload") /\ MayEnd(cur[w]) => usersess[dev[w]] = cur[w]
  <2> SUFFICES ASSUME NEW w \in Workers, At(w, "reload"), MayEnd(cur[w]) PROVE usersess[dev[w]] = cur[w]
    OBVIOUS
  <2>1. cur[w] \in Sessions /\ "device" \in hash[cur[w]] /\ deviceOf[cur[w]] = dev[w]
    BY DEF SessionInv, WorkerSound, LockInv, DeviceKept, MayEnd, Core, At
  <2>2. ASSUME NEW x \in Workers, At(x, "pointer"), cur[x] = cur[w] PROVE FALSE
    BY <1>0, <1>1, <2>1, <2>2 DEF At
  <2> QED
    BY <2>1, <2>2 DEF LockInv, DeviceKept
<1>3. ASSUME NEW w \in Workers, Lock(w) PROVE PointerKept'
  BY <1>3, <1>0, <1>1, <1>2 DEF Lock, LockFree, Goto, At, PointerKept
<1>4. ASSUME NEW w \in Workers, LockRefused(w) PROVE PointerKept'
  BY <1>4, <1>0, <1>1, <1>2 DEF LockRefused, LockFree, Reset, Goto, At, PointerKept
<1>5. ASSUME NEW w \in Workers, Lookup(w) PROVE PointerKept'
  BY <1>5, <1>0, <1>1, <1>2 DEF Lookup, SessionOfUserDevice, Joinable, Exists, Goto, At,
     PointerKept
<1>6. ASSUME NEW w \in Workers, Join(w) PROVE PointerKept'
  BY <1>6, <1>0, <1>1, <1>2 DEF Join, Save, Saved, Goto, At, PointerKept
<1>7. ASSUME NEW w \in Workers, Limit(w) PROVE PointerKept'
  BY <1>7, <1>0, <1>1, <1>2 DEF Limit, Me, Goto, At, PointerKept
<1>8. ASSUME NEW w \in Workers, CreateSession(w) PROVE PointerKept'
  BY <1>8, <1>0, <1>1, <1>2 DEF CreateSession, Create, Save, Saved, Goto, At, PointerKept
<1>9. ASSUME NEW w \in Workers, SetPointer(w) PROVE PointerKept'
  BY <1>9, <1>0, <1>1, <1>2 DEF SetPointer, Goto, At, PointerKept
<1>10. ASSUME NEW w \in Workers, AddToUser(w) PROVE PointerKept'
  BY <1>10, <1>0, <1>1, <1>2 DEF AddToUser, Me, Goto, At, PointerKept
<1>11. ASSUME NEW w \in Workers, SuspendNew(w) PROVE PointerKept'
  BY <1>11, <1>0, <1>1, <1>2 DEF SuspendNew, Suspend, Save, Saved, Goto, At, PointerKept
<1>12. ASSUME NEW w \in Workers, Place(w) PROVE PointerKept'
  BY <1>12, <1>0, <1>1, <1>2 DEF Place, OrgRefuses, Note, Goto, At, PointerKept
<1>13. ASSUME NEW w \in Workers, Attach(w) PROVE PointerKept'
  BY <1>13, <1>0, <1>1, <1>2 DEF Attach, findGateway, Note, Goto, At, PointerKept
<1>14. ASSUME NEW w \in Workers, CountOnGateway(w) PROVE PointerKept'
  BY <1>14, <1>0, <1>1, <1>2 DEF CountOnGateway, UpdateGWSessionScore, Note, Goto, At,
     PointerKept
<1>15. ASSUME NEW w \in Workers, ListOnPlatform(w) PROVE PointerKept'
  BY <1>15, <1>0, <1>1, <1>2 DEF ListOnPlatform, Note, Goto, At, PointerKept
<1>16. ASSUME NEW w \in Workers, SaveSession(w) PROVE PointerKept'
  BY <1>16, <1>0, <1>1, <1>2 DEF SaveSession, Save, Saved, Goto, At, PointerKept
<1>17. ASSUME NEW w \in Workers, RecordDataCenter(w) PROVE PointerKept'
  BY <1>17, <1>0, <1>1, <1>2 DEF RecordDataCenter, Me, Goto, At, PointerKept
<1>18. ASSUME NEW w \in Workers, Connect(w) PROVE PointerKept'
  BY <1>18, <1>0, <1>1, <1>2 DEF Connect, ConnectedRow, Goto, At, PointerKept
<1>19. ASSUME NEW w \in Workers, CleanPlatform(w) PROVE PointerKept'
  BY <1>19, <1>0, <1>1, <1>2 DEF CleanPlatform, CleanReference, IncreaseReference, Goto, At,
     PointerKept
<1>20. ASSUME NEW w \in Workers, CleanUser(w) PROVE PointerKept'
  BY <1>20, <1>0, <1>1, <1>2 DEF CleanUser, Goto, At, PointerKept
<1>21. ASSUME NEW w \in Workers, CleanGateway(w) PROVE PointerKept'
  BY <1>21, <1>0, <1>1, <1>2 DEF CleanGateway, UpdateGWSessionScore, Goto, At, PointerKept
<1>22. ASSUME NEW w \in Workers, Discard(w) PROVE PointerKept'
  BY <1>22, <1>0, <1>1, <1>2 DEF Discard, Del, UserOfSession, Goto, At, PointerKept
<1>23. ASSUME NEW w \in Workers, Unlock(w) PROVE PointerKept'
  BY <1>23, <1>0, <1>1, <1>2 DEF Unlock, Goto, Reset, At, PointerKept
<1>24. ASSUME NEW w \in Workers, Revive(w) PROVE PointerKept'
  BY <1>24, <1>0, <1>1, <1>2 DEF Revive, Reset, Goto, At, PointerKept
<1>25. ASSUME NEW w \in Workers, Reload(w) PROVE PointerKept'
  BY <1>25, <1>0, <1>1, <1>2 DEF Reload, MayEnd, Note, Goto, At, PointerKept
<1>26. ASSUME NEW w \in Workers, MarkDeleted(w) PROVE PointerKept'
  BY <1>26, <1>0, <1>1, <1>2 DEF MarkDeleted, Save, Saved, Goto, At, PointerKept
<1>27. ASSUME NEW w \in Workers, Detach(w) PROVE PointerKept'
  BY <1>27, <1>0, <1>1, <1>2 DEF Detach, Note, Goto, At, PointerKept
<1>28. ASSUME NEW w \in Workers, UnrefPlatform(w) PROVE PointerKept'
  BY <1>28, <1>0, <1>1, <1>2 DEF UnrefPlatform, Goto, At, PointerKept
<1>29. ASSUME NEW w \in Workers, DecreasePlatform(w) PROVE PointerKept'
  BY <1>29, <1>0, <1>1, <1>2 DEF DecreasePlatform, IncreaseReference, Goto, At, PointerKept
<1>30. ASSUME NEW w \in Workers, UpdateActivation(w) PROVE PointerKept'
  BY <1>30, <1>0, <1>1, <1>2 DEF UpdateActivation, Goto, At, PointerKept
<1>31. ASSUME NEW w \in Workers, UnrefGateway(w) PROVE PointerKept'
  BY <1>31, <1>0, <1>1, <1>2 DEF UnrefGateway, UpdateGWSessionScore, Goto, At, PointerKept
<1>32. ASSUME NEW w \in Workers, DeleteSession(w) PROVE PointerKept'
  BY <1>32, <1>0, <1>1, <1>2 DEF DeleteSession, Del, UserOfSession, Goto, At, PointerKept
<1>33. ASSUME NEW w \in Workers, ReportPlatform(w) PROVE PointerKept'
  BY <1>33, <1>0, <1>1, <1>2 DEF ReportPlatform, Goto, At, PointerKept
<1>34. ASSUME NEW w \in Workers, Disconnect(w) PROVE PointerKept'
  BY <1>34, <1>0, <1>1, <1>2 DEF Disconnect, Note, Goto, At, PointerKept
<1>35. ASSUME NEW w \in Workers, LastDevice(w) PROVE PointerKept'
  BY <1>35, <1>0, <1>1, <1>2 DEF LastDevice, Goto, At, PointerKept
<1>36. ASSUME NEW w \in Workers, ClearDataCenter(w) PROVE PointerKept'
  BY <1>36, <1>0, <1>1, <1>2 DEF ClearDataCenter, Me, Goto, At, PointerKept
<1>37. ASSUME NEW w \in Workers, ForgetDevice(w) PROVE PointerKept'
  BY <1>37, <1>0, <1>1, <1>2 DEF ForgetDevice, Reset, Goto, At, PointerKept
<1>38. ASSUME NEW w \in Workers, Crash(w) PROVE PointerKept'
  BY <1>38, <1>0, <1>1, <1>2 DEF Crash, Reset, Goto, At, PointerKept
<1>39. ASSUME NEW w \in Workers, NEW d \in Devices, StartRequest(w, d) PROVE PointerKept'
  BY <1>39, <1>0, <1>1, <1>2 DEF StartRequest, StartSessionFromClient, StartSessionByDevice,
     Goto, At, PointerKept
<1>40. ASSUME NEW w \in Workers, NEW d \in Devices, AdminKill(w, d) PROVE PointerKept'
  BY <1>40, <1>0, <1>1, <1>2 DEF AdminKill, FindKilled, RemoveLock, LoadKilled, SessionOfUserDevice, Goto, Note, At, PointerKept
<1>41. ASSUME NEW w \in Workers, NEW s \in Sessions, EndRequest(w, s) PROVE PointerKept'
  BY <1>41, <1>0, <1>1, <1>2 DEF EndRequest, LogoutUser, CloseOtherSessions, Goto, At,
     PointerKept
<1>42. ASSUME NEW o \in Writers, OtherSave(o) PROVE PointerKept'
  BY <1>42, <1>0, <1>1, <1>2 DEF OtherSave, Save, Saved, PointerKept
<1>43. ASSUME NEW o \in Writers, OtherSchedule(o) PROVE PointerKept'
  BY <1>43, <1>0, <1>1, <1>2 DEF OtherSchedule, PointerKept
<1>44. ASSUME NEW o \in Writers, NEW s \in Sessions, OtherLoad(o, s) PROVE PointerKept'
  BY <1>44, <1>0, <1>1, <1>2 DEF OtherLoad, Copy, PointerKept
<1>45. ASSUME NEW s \in Sessions, SuspendTimeout(s) PROVE PointerKept'
  BY <1>45, <1>0, <1>1, <1>2 DEF SuspendTimeout, PointerKept
<1>46. ASSUME NEW d \in Devices, LockExpires(d) PROVE PointerKept'
  BY <1>46, <1>0, <1>1, <1>2 DEF LockExpires, PointerKept
<1>47. CASE UNCHANGED vars
  <2>1. UNCHANGED <<pc, dev, cur, usersess>>
    BY <1>47 DEF vars
  <2> QED
    BY <2>1, <1>0, <1>1, <1>2 DEF PointerKept
<1> QED
  BY <1>1, <1>2, <1>3, <1>4, <1>5, <1>6, <1>7, <1>8, <1>9, <1>10, <1>11, <1>12, <1>13, <1>14,
     <1>15, <1>16, <1>17, <1>18, <1>19, <1>20, <1>21, <1>22, <1>23, <1>24, <1>25, <1>26, <1>27,
     <1>28, <1>29, <1>30, <1>31, <1>32, <1>33, <1>34, <1>35, <1>36, <1>37, <1>38, <1>39, <1>40,
     <1>41, <1>42, <1>43, <1>44, <1>45, <1>46, <1>47 DEF Next, WorkerStep, StartStep, EndStep,
     OtherStep

\* A hash has the fields of a device exactly while the pointer of that device leads
\* to it, or is about to: setUserAndDevice writes the one and then the other.
LEMMA DevicePreserved ==
    ASSUME TypeOK, SessionInv, LockRespected, LockInv, [Next]_vars PROVE DeviceKept'
<1> USE StoreAssumption, ControllerAssumption
<1> USE DEF LockRespected, PointedPCs, PartialPCs, NewPCs, EndingPCs, store, keys, refs, ids,
   outside, own, other, bounds
<1>0. /\ pc \in [Workers -> PCs] /\ dev \in [Workers -> Devices \cup {None}]
      /\ cur \in [Workers -> Sessions \cup {None}] /\ usersess \in [Devices -> Sessions \cup {None}]
      /\ hash \in [Sessions -> SUBSET Fields] /\ mem \in [Workers -> SUBSET Fields]
      /\ deviceOf \in [Sessions -> Devices \cup {None}] /\ plugin \in [Workers -> BOOLEAN]
      /\ \A w \in Workers : ~At(w, "idle") => dev[w] \in Devices
      /\ \A w \in Workers : cur[w] # None => deviceOf[cur[w]] = dev[w]
      /\ \A w \in Workers : pc[w] \in NewPCs \cup PointedPCs => cur[w] \in Sessions
      /\ \A d \in Devices : usersess[d] # None => deviceOf[usersess[d]] = d
      /\ \A s \in Sessions : deviceOf[s] = None => hash[s] = {}
  BY DEF TypeOK, StoreTypeOK, HandlerTypeOK, SessionInv, WorkerSound, StoreSound, Exists, At
<1>1. /\ \A w \in Workers : pc[w] \in PointedPCs \cup {"limit", "create", "pointer", "lookup", "reload"}
                                => lock[dev[w]] = w
      /\ \A w \in Workers : pc[w] \in {"limit", "create", "pointer"} => usersess[dev[w]] = None
      /\ \A w \in Workers : pc[w] \in PointedPCs => usersess[dev[w]] = cur[w]
  BY DEF LockInv, LockKept, PointerKept, LockedPCs, PCs, StartPCs, EndPCs, LastPCs
<1>2. /\ \A w \in Workers : pc[w] \in {"create", "pointer"} \cup PointedPCs => "device" \in mem[w]
      /\ \A w \in Workers : At(w, "create") => Core(mem[w]) \subseteq {"device", "plugin"}
      /\ \A w \in Workers : pc[w] \in {"pointer"} \cup PointedPCs => Core(mem[w]) = Core(hash[cur[w]])
  BY DEF LockInv, CopyKept
<1>3. Writers = {"gateway", "kill"} /\ oPc["kill"] = "idle" /\ oMem["gateway"] \subseteq {"suspend"}
  BY DEF LockInv, GatewayKept, LockRespected, Writers
<1>4. DeviceKept
  BY DEF LockInv
<1>5. ~(crashes < MaxCrashes)
  BY DEF LockRespected, TypeOK, SharedTypeOK
<1>6. ASSUME NEW w \in Workers, Lock(w) PROVE DeviceKept'
  BY <1>6, <1>0, <1>1, <1>2, <1>3, <1>4 DEF Lock, LockFree, Goto, DeviceKept, Core, Sticky, At
<1>7. ASSUME NEW w \in Workers, LockRefused(w) PROVE DeviceKept'
  BY <1>7, <1>0, <1>1, <1>2, <1>3, <1>4 DEF LockRefused, LockFree, Reset, Goto, DeviceKept,
     Core, Sticky, At
<1>8. ASSUME NEW w \in Workers, Lookup(w) PROVE DeviceKept'
  BY <1>8, <1>0, <1>1, <1>2, <1>3, <1>4 DEF Lookup, SessionOfUserDevice, Joinable, Exists, Goto,
     DeviceKept, Core, Sticky, At
<1>9. ASSUME NEW w \in Workers, Join(w) PROVE DeviceKept'
  BY <1>9, <1>0, <1>1, <1>2, <1>3, <1>4 DEF Join, Save, Saved, Goto, DeviceKept, Core, Sticky,
     At
<1>10. ASSUME NEW w \in Workers, Limit(w) PROVE DeviceKept'
  BY <1>10, <1>0, <1>1, <1>2, <1>3, <1>4 DEF Limit, Me, Goto, DeviceKept, Core, Sticky, At
<1>11. ASSUME NEW w \in Workers, CreateSession(w) PROVE DeviceKept'
  BY <1>11, <1>0, <1>1, <1>2, <1>3, <1>4 DEF CreateSession, Create, Save, Saved, Goto,
     DeviceKept, Core, Sticky, At
<1>12. ASSUME NEW w \in Workers, SetPointer(w) PROVE DeviceKept'
  BY <1>12, <1>0, <1>1, <1>2, <1>3, <1>4 DEF SetPointer, Goto, DeviceKept, Core, Sticky, At
<1>13. ASSUME NEW w \in Workers, AddToUser(w) PROVE DeviceKept'
  BY <1>13, <1>0, <1>1, <1>2, <1>3, <1>4 DEF AddToUser, Me, Goto, DeviceKept, Core, Sticky, At
<1>14. ASSUME NEW w \in Workers, SuspendNew(w) PROVE DeviceKept'
  BY <1>14, <1>0, <1>1, <1>2, <1>3, <1>4 DEF SuspendNew, Suspend, Save, Saved, Goto, DeviceKept,
     Core, Sticky, At
<1>15. ASSUME NEW w \in Workers, Place(w) PROVE DeviceKept'
  BY <1>15, <1>0, <1>1, <1>2, <1>3, <1>4 DEF Place, OrgRefuses, Note, Goto, DeviceKept, Core,
     Sticky, At
<1>16. ASSUME NEW w \in Workers, Attach(w) PROVE DeviceKept'
  BY <1>16, <1>0, <1>1, <1>2, <1>3, <1>4 DEF Attach, findGateway, Note, Goto, DeviceKept, Core,
     Sticky, At
<1>17. ASSUME NEW w \in Workers, CountOnGateway(w) PROVE DeviceKept'
  BY <1>17, <1>0, <1>1, <1>2, <1>3, <1>4 DEF CountOnGateway, UpdateGWSessionScore, Note, Goto,
     DeviceKept, Core, Sticky, At
<1>18. ASSUME NEW w \in Workers, ListOnPlatform(w) PROVE DeviceKept'
  BY <1>18, <1>0, <1>1, <1>2, <1>3, <1>4 DEF ListOnPlatform, Note, Goto, DeviceKept, Core,
     Sticky, At
<1>19. ASSUME NEW w \in Workers, SaveSession(w) PROVE DeviceKept'
  BY <1>19, <1>0, <1>1, <1>2, <1>3, <1>4 DEF SaveSession, Save, Saved, Goto, DeviceKept, Core,
     Sticky, At
<1>20. ASSUME NEW w \in Workers, RecordDataCenter(w) PROVE DeviceKept'
  BY <1>20, <1>0, <1>1, <1>2, <1>3, <1>4 DEF RecordDataCenter, Me, Goto, DeviceKept, Core,
     Sticky, At
<1>21. ASSUME NEW w \in Workers, Connect(w) PROVE DeviceKept'
  BY <1>21, <1>0, <1>1, <1>2, <1>3, <1>4 DEF Connect, ConnectedRow, Goto, DeviceKept, Core,
     Sticky, At
<1>22. ASSUME NEW w \in Workers, CleanPlatform(w) PROVE DeviceKept'
  BY <1>22, <1>0, <1>1, <1>2, <1>3, <1>4 DEF CleanPlatform, CleanReference, IncreaseReference,
     Goto, DeviceKept, Core, Sticky, At
<1>23. ASSUME NEW w \in Workers, CleanUser(w) PROVE DeviceKept'
  BY <1>23, <1>0, <1>1, <1>2, <1>3, <1>4 DEF CleanUser, Goto, DeviceKept, Core, Sticky, At
<1>24. ASSUME NEW w \in Workers, CleanGateway(w) PROVE DeviceKept'
  BY <1>24, <1>0, <1>1, <1>2, <1>3, <1>4 DEF CleanGateway, UpdateGWSessionScore, Goto,
     DeviceKept, Core, Sticky, At
<1>25. ASSUME NEW w \in Workers, Discard(w) PROVE DeviceKept'
  BY <1>25, <1>0, <1>1, <1>2, <1>3, <1>4 DEF Discard, Del, UserOfSession, Goto, DeviceKept,
     Core, Sticky, At
<1>26. ASSUME NEW w \in Workers, Unlock(w) PROVE DeviceKept'
  BY <1>26, <1>0, <1>1, <1>2, <1>3, <1>4 DEF Unlock, Goto, Reset, DeviceKept, Core, Sticky, At
<1>27. ASSUME NEW w \in Workers, Revive(w) PROVE DeviceKept'
  BY <1>27, <1>0, <1>1, <1>2, <1>3, <1>4 DEF Revive, Reset, Goto, DeviceKept, Core, Sticky, At
<1>28. ASSUME NEW w \in Workers, Reload(w) PROVE DeviceKept'
  BY <1>28, <1>0, <1>1, <1>2, <1>3, <1>4 DEF Reload, MayEnd, Note, Goto, DeviceKept, Core,
     Sticky, At
<1>29. ASSUME NEW w \in Workers, MarkDeleted(w) PROVE DeviceKept'
  BY <1>29, <1>0, <1>1, <1>2, <1>3, <1>4 DEF MarkDeleted, Save, Saved, Goto, DeviceKept, Core,
     Sticky, At
<1>30. ASSUME NEW w \in Workers, Detach(w) PROVE DeviceKept'
  BY <1>30, <1>0, <1>1, <1>2, <1>3, <1>4 DEF Detach, Note, Goto, DeviceKept, Core, Sticky, At
<1>31. ASSUME NEW w \in Workers, UnrefPlatform(w) PROVE DeviceKept'
  BY <1>31, <1>0, <1>1, <1>2, <1>3, <1>4 DEF UnrefPlatform, Goto, DeviceKept, Core, Sticky, At
<1>32. ASSUME NEW w \in Workers, DecreasePlatform(w) PROVE DeviceKept'
  BY <1>32, <1>0, <1>1, <1>2, <1>3, <1>4 DEF DecreasePlatform, IncreaseReference, Goto,
     DeviceKept, Core, Sticky, At
<1>33. ASSUME NEW w \in Workers, UpdateActivation(w) PROVE DeviceKept'
  BY <1>33, <1>0, <1>1, <1>2, <1>3, <1>4 DEF UpdateActivation, Goto, DeviceKept, Core, Sticky,
     At
<1>34. ASSUME NEW w \in Workers, UnrefGateway(w) PROVE DeviceKept'
  BY <1>34, <1>0, <1>1, <1>2, <1>3, <1>4 DEF UnrefGateway, UpdateGWSessionScore, Goto,
     DeviceKept, Core, Sticky, At
<1>35. ASSUME NEW w \in Workers, DeleteSession(w) PROVE DeviceKept'
  BY <1>35, <1>0, <1>1, <1>2, <1>3, <1>4 DEF DeleteSession, Del, UserOfSession, Goto,
     DeviceKept, Core, Sticky, At
<1>36. ASSUME NEW w \in Workers, ReportPlatform(w) PROVE DeviceKept'
  BY <1>36, <1>0, <1>1, <1>2, <1>3, <1>4 DEF ReportPlatform, Goto, DeviceKept, Core, Sticky, At
<1>37. ASSUME NEW w \in Workers, Disconnect(w) PROVE DeviceKept'
  BY <1>37, <1>0, <1>1, <1>2, <1>3, <1>4 DEF Disconnect, Note, Goto, DeviceKept, Core, Sticky,
     At
<1>38. ASSUME NEW w \in Workers, LastDevice(w) PROVE DeviceKept'
  BY <1>38, <1>0, <1>1, <1>2, <1>3, <1>4 DEF LastDevice, Goto, DeviceKept, Core, Sticky, At
<1>39. ASSUME NEW w \in Workers, ClearDataCenter(w) PROVE DeviceKept'
  BY <1>39, <1>0, <1>1, <1>2, <1>3, <1>4 DEF ClearDataCenter, Me, Goto, DeviceKept, Core,
     Sticky, At
<1>40. ASSUME NEW w \in Workers, ForgetDevice(w) PROVE DeviceKept'
  BY <1>40, <1>0, <1>1, <1>2, <1>3, <1>4 DEF ForgetDevice, Reset, Goto, DeviceKept, Core,
     Sticky, At
<1>41. ASSUME NEW w \in Workers, Crash(w) PROVE DeviceKept'
  BY <1>41, <1>0, <1>1, <1>2, <1>3, <1>4, <1>5 DEF Crash, Reset, Goto, DeviceKept, Core, Sticky,
     At
<1>42. ASSUME NEW w \in Workers, NEW d \in Devices, StartRequest(w, d) PROVE DeviceKept'
  BY <1>42, <1>0, <1>1, <1>2, <1>3, <1>4 DEF StartRequest, StartSessionFromClient,
     StartSessionByDevice, Goto, DeviceKept, Core, Sticky, At
<1>43. ASSUME NEW w \in Workers, NEW d \in Devices, AdminKill(w, d) PROVE DeviceKept'
  BY <1>43, <1>0, <1>1, <1>2, <1>3, <1>4 DEF AdminKill, FindKilled, RemoveLock, LoadKilled, SessionOfUserDevice, Goto, Note,
     DeviceKept, Core, Sticky, At
<1>44. ASSUME NEW w \in Workers, NEW s \in Sessions, EndRequest(w, s) PROVE DeviceKept'
  BY <1>44, <1>0, <1>1, <1>2, <1>3, <1>4 DEF EndRequest, LogoutUser, CloseOtherSessions, Goto,
     DeviceKept, Core, Sticky, At
<1>45. ASSUME NEW o \in Writers, OtherSave(o) PROVE DeviceKept'
  BY <1>45, <1>0, <1>1, <1>2, <1>3, <1>4 DEF OtherSave, Save, Saved, DeviceKept, Core, Sticky,
     At
<1>46. ASSUME NEW o \in Writers, OtherSchedule(o) PROVE DeviceKept'
  BY <1>46, <1>0, <1>1, <1>2, <1>3, <1>4 DEF OtherSchedule, DeviceKept, Core, Sticky, At
<1>47. ASSUME NEW o \in Writers, NEW s \in Sessions, OtherLoad(o, s) PROVE DeviceKept'
  BY <1>47, <1>0, <1>1, <1>2, <1>3, <1>4 DEF OtherLoad, Copy, DeviceKept, Core, Sticky, At
<1>48. ASSUME NEW s \in Sessions, SuspendTimeout(s) PROVE DeviceKept'
  BY <1>48, <1>0, <1>1, <1>2, <1>3, <1>4 DEF SuspendTimeout, DeviceKept, Core, Sticky, At
<1>49. ASSUME NEW d \in Devices, LockExpires(d) PROVE DeviceKept'
  BY <1>49, <1>0, <1>1, <1>2, <1>3, <1>4 DEF LockExpires, DeviceKept, Core, Sticky, At
<1>50. CASE UNCHANGED vars
  <2>1. UNCHANGED <<pc, dev, cur, usersess, hash, deviceOf>>
    BY <1>50 DEF vars
  <2> QED
    BY <2>1, <1>0, <1>1, <1>2, <1>3, <1>4 DEF DeviceKept, Core, Sticky, At
<1> QED
  BY <1>1, <1>2, <1>3, <1>4, <1>5, <1>6, <1>7, <1>8, <1>9, <1>10, <1>11, <1>12, <1>13, <1>14,
     <1>15, <1>16, <1>17, <1>18, <1>19, <1>20, <1>21, <1>22, <1>23, <1>24, <1>25, <1>26, <1>27,
     <1>28, <1>29, <1>30, <1>31, <1>32, <1>33, <1>34, <1>35, <1>36, <1>37, <1>38, <1>39, <1>40,
     <1>41, <1>42, <1>43, <1>44, <1>45, <1>46, <1>47, <1>48, <1>49, <1>50 DEF Next, WorkerStep,
     StartStep, EndStep, OtherStep

\* A handler's session object agrees with the hash in the fields that decide: the
\* saves in between are its own or the gateway's.
LEMMA CopyPreserved ==
    ASSUME TypeOK, SessionInv, LockRespected, LockInv, [Next]_vars PROVE CopyKept'
<1> USE StoreAssumption, ControllerAssumption
<1> USE DEF LockRespected, PointedPCs, PartialPCs, NewPCs, EndingPCs, store, keys, refs, ids,
   outside, own, other, bounds
<1>0. /\ pc \in [Workers -> PCs] /\ dev \in [Workers -> Devices \cup {None}]
      /\ cur \in [Workers -> Sessions \cup {None}] /\ usersess \in [Devices -> Sessions \cup {None}]
      /\ hash \in [Sessions -> SUBSET Fields] /\ mem \in [Workers -> SUBSET Fields]
      /\ deviceOf \in [Sessions -> Devices \cup {None}] /\ plugin \in [Workers -> BOOLEAN]
      /\ \A w \in Workers : ~At(w, "idle") => dev[w] \in Devices
      /\ \A w \in Workers : cur[w] # None => deviceOf[cur[w]] = dev[w]
      /\ \A w \in Workers : pc[w] \in NewPCs \cup PointedPCs => cur[w] \in Sessions
      /\ \A d \in Devices : usersess[d] # None => deviceOf[usersess[d]] = d
      /\ \A s \in Sessions : deviceOf[s] = None => hash[s] = {}
  BY DEF TypeOK, StoreTypeOK, HandlerTypeOK, SessionInv, WorkerSound, StoreSound, Exists, At
<1>1. /\ \A w \in Workers : pc[w] \in PointedPCs \cup {"limit", "create", "pointer", "lookup", "reload"}
                                => lock[dev[w]] = w
      /\ \A w \in Workers : pc[w] \in {"limit", "create", "pointer"} => usersess[dev[w]] = None
      /\ \A w \in Workers : pc[w] \in PointedPCs => usersess[dev[w]] = cur[w]
  BY DEF LockInv, LockKept, PointerKept, LockedPCs, PCs, StartPCs, EndPCs, LastPCs
<1>2. CopyKept
  BY DEF LockInv
<1>3. Writers = {"gateway", "kill"} /\ oPc["kill"] = "idle" /\ oMem["gateway"] \subseteq {"suspend"}
  BY DEF LockInv, GatewayKept, LockRespected, Writers
<1>4. \A w \in Workers : At(w, "lookup") /\ usersess[dev[w]] # None => "device" \in hash[usersess[dev[w]]]
  BY <1>0 DEF LockInv, DeviceKept, At
<1>5. ~(crashes < MaxCrashes)
  BY DEF LockRespected, TypeOK, SharedTypeOK
<1>6. ASSUME NEW w \in Workers, Lock(w) PROVE CopyKept'
  BY <1>6, <1>0, <1>1, <1>2, <1>3 DEF Lock, LockFree, Goto, CopyKept, Core, Sticky, At
<1>7. ASSUME NEW w \in Workers, LockRefused(w) PROVE CopyKept'
  BY <1>7, <1>0, <1>1, <1>2, <1>3 DEF LockRefused, LockFree, Reset, Goto, CopyKept, Core,
     Sticky, At
<1>8. ASSUME NEW w \in Workers, Lookup(w) PROVE CopyKept'
  BY <1>8, <1>0, <1>1, <1>2, <1>3, <1>4 DEF Lookup, SessionOfUserDevice, Joinable, Exists, Goto,
     CopyKept, Core, Sticky, At
<1>9. ASSUME NEW w \in Workers, Join(w) PROVE CopyKept'
  <2>1. /\ \A s \in Sessions : s # cur[w] => hash'[s] = hash[s]
        /\ cur[w] \in Sessions /\ Core(mem[w]) = Core(hash[cur[w]])
    BY <1>9, <1>0, <1>2 DEF Join, Save, Saved, At, CopyKept
  <2>2. Core(hash'[cur[w]]) = Core(hash[cur[w]])
    BY <1>9, <1>0, <2>1 DEF Join, Save, Saved, Core, Sticky
  <2>3. UNCHANGED own /\ pc'[w] \in {"started", "unlock"} /\ At(w, "join") /\ \A x \in Workers \ {w} : pc'[x] = pc[x]
    BY <1>9, <1>0 DEF Join, Goto
  <2> QED
    BY <2>1, <2>2, <2>3, <1>0, <1>2 DEF CopyKept, At
<1>10. ASSUME NEW w \in Workers, Limit(w) PROVE CopyKept'
  BY <1>10, <1>0, <1>1, <1>2, <1>3 DEF Limit, Me, Goto, CopyKept, Core, Sticky, At
<1>11. ASSUME NEW w \in Workers, CreateSession(w) PROVE CopyKept'
  <2>1. cur[w] \in Sessions /\ At(w, "create") /\ dev[w] \in Devices /\ deviceOf[cur[w]] = dev[w]
    BY <1>11, <1>0 DEF CreateSession, At
  <2>2. "device" \notin hash[cur[w]]
    BY <2>1, <1>0, <1>1 DEF LockInv, DeviceKept, At
  <2>3. Core(hash[cur[w]]) = {}
    BY <2>1, <2>2 DEF LockInv, DeviceKept
  <2>4. Core(hash'[cur[w]]) = Core(mem[w])
    BY <1>11, <2>1, <2>3, <1>0 DEF CreateSession, Create, Save, Saved, Core, Sticky
  <2>5. \A s \in Sessions : s # cur[w] => hash'[s] = hash[s]
    BY <1>11, <1>0 DEF CreateSession, Create, Save, Saved
  <2>6. \A x \in Workers \ {w} : pc[x] \in {"pointer"} \cup PointedPCs => cur[x] # cur[w]
    BY <1>0, <1>1, <2>1 DEF At
  <2>7. UNCHANGED own /\ pc'[w] = "pointer" /\ \A x \in Workers \ {w} : pc'[x] = pc[x]
    BY <1>11, <1>0 DEF CreateSession, Goto
  <2> QED
    BY <2>1, <2>4, <2>5, <2>6, <2>7, <1>0, <1>2 DEF CopyKept, At
<1>12. ASSUME NEW w \in Workers, SetPointer(w) PROVE CopyKept'
  BY <1>12, <1>0, <1>1, <1>2, <1>3 DEF SetPointer, Goto, CopyKept, Core, Sticky, At
<1>13. ASSUME NEW w \in Workers, AddToUser(w) PROVE CopyKept'
  BY <1>13, <1>0, <1>1, <1>2, <1>3 DEF AddToUser, Me, Goto, CopyKept, Core, Sticky, At
<1>14. ASSUME NEW w \in Workers, SuspendNew(w) PROVE CopyKept'
  BY <1>14, <1>0, <1>1, <1>2, <1>3 DEF SuspendNew, Suspend, Save, Saved, Goto, CopyKept, Core,
     Sticky, At
<1>15. ASSUME NEW w \in Workers, Place(w) PROVE CopyKept'
  BY <1>15, <1>0, <1>1, <1>2, <1>3 DEF Place, OrgRefuses, Note, Goto, CopyKept, Core, Sticky, At
<1>16. ASSUME NEW w \in Workers, Attach(w) PROVE CopyKept'
  BY <1>16, <1>0, <1>1, <1>2, <1>3 DEF Attach, findGateway, Note, Goto, CopyKept, Core, Sticky,
     At
<1>17. ASSUME NEW w \in Workers, CountOnGateway(w) PROVE CopyKept'
  BY <1>17, <1>0, <1>1, <1>2, <1>3 DEF CountOnGateway, UpdateGWSessionScore, Note, Goto,
     CopyKept, Core, Sticky, At
<1>18. ASSUME NEW w \in Workers, ListOnPlatform(w) PROVE CopyKept'
  BY <1>18, <1>0, <1>1, <1>2, <1>3 DEF ListOnPlatform, Note, Goto, CopyKept, Core, Sticky, At
<1>19. ASSUME NEW w \in Workers, SaveSession(w) PROVE CopyKept'
  BY <1>19, <1>0, <1>1, <1>2, <1>3 DEF SaveSession, Save, Saved, Goto, CopyKept, Core, Sticky,
     At
<1>20. ASSUME NEW w \in Workers, RecordDataCenter(w) PROVE CopyKept'
  BY <1>20, <1>0, <1>1, <1>2, <1>3 DEF RecordDataCenter, Me, Goto, CopyKept, Core, Sticky, At
<1>21. ASSUME NEW w \in Workers, Connect(w) PROVE CopyKept'
  BY <1>21, <1>0, <1>1, <1>2, <1>3 DEF Connect, ConnectedRow, Goto, CopyKept, Core, Sticky, At
<1>22. ASSUME NEW w \in Workers, CleanPlatform(w) PROVE CopyKept'
  BY <1>22, <1>0, <1>1, <1>2, <1>3 DEF CleanPlatform, CleanReference, IncreaseReference, Goto,
     CopyKept, Core, Sticky, At
<1>23. ASSUME NEW w \in Workers, CleanUser(w) PROVE CopyKept'
  BY <1>23, <1>0, <1>1, <1>2, <1>3 DEF CleanUser, Goto, CopyKept, Core, Sticky, At
<1>24. ASSUME NEW w \in Workers, CleanGateway(w) PROVE CopyKept'
  BY <1>24, <1>0, <1>1, <1>2, <1>3 DEF CleanGateway, UpdateGWSessionScore, Goto, CopyKept, Core,
     Sticky, At
<1>25. ASSUME NEW w \in Workers, Discard(w) PROVE CopyKept'
  BY <1>25, <1>0, <1>1, <1>2, <1>3 DEF Discard, Del, UserOfSession, Goto, CopyKept, Core,
     Sticky, At
<1>26. ASSUME NEW w \in Workers, Unlock(w) PROVE CopyKept'
  BY <1>26, <1>0, <1>1, <1>2, <1>3 DEF Unlock, Goto, Reset, CopyKept, Core, Sticky, At
<1>27. ASSUME NEW w \in Workers, Revive(w) PROVE CopyKept'
  BY <1>27, <1>0, <1>1, <1>2, <1>3 DEF Revive, Reset, Goto, CopyKept, Core, Sticky, At
<1>28. ASSUME NEW w \in Workers, Reload(w) PROVE CopyKept'
  <2>1. /\ At(w, "reload") /\ cur[w] \in Sessions /\ UNCHANGED <<dev, cur, hash>>
        /\ \A x \in Workers \ {w} : pc'[x] = pc[x] /\ mem'[x] = mem[x] /\ plugin'[x] = plugin[x]
    BY <1>28, <1>0 DEF Reload, Goto, At, SessionInv, WorkerSound, store, keys
  <2>2. CASE pc'[w] = "unlock"
    BY <2>1, <2>2, <1>0, <1>2 DEF CopyKept, At
  <2>3. CASE pc'[w] = "mark" /\ MayEnd(cur[w]) /\ mem' = [mem EXCEPT ![w] = hash[cur[w]]]
             /\ plugin' = [plugin EXCEPT ![w] = "plugin" \in hash[cur[w]]]
    <3>1. mem'[w] = hash[cur[w]]
      BY <2>3, <1>0
    <3>2. "device" \in hash[cur[w]]
      BY <2>1, <2>3 DEF MayEnd, LockInv, DeviceKept, Core
    <3>3. plugin'[w] = ("plugin" \in hash[cur[w]])
      BY <2>3, <1>0, Zenon
    <3>4. plugin'[w] <=> "plugin" \in mem'[w]
      BY <3>1, <3>3, Zenon
    <3> QED
      BY <2>1, <2>3, <3>1, <3>2, <3>4, <1>0, <1>2 DEF CopyKept, At
  <2> QED
    BY <1>28, <1>0, <2>2, <2>3 DEF Reload, Goto
<1>29. ASSUME NEW w \in Workers, MarkDeleted(w) PROVE CopyKept'
  BY <1>29, <1>0, <1>1, <1>2, <1>3 DEF MarkDeleted, Save, Saved, Goto, CopyKept, Core, Sticky,
     At
<1>30. ASSUME NEW w \in Workers, Detach(w) PROVE CopyKept'
  BY <1>30, <1>0, <1>1, <1>2, <1>3 DEF Detach, Note, Goto, CopyKept, Core, Sticky, At
<1>31. ASSUME NEW w \in Workers, UnrefPlatform(w) PROVE CopyKept'
  BY <1>31, <1>0, <1>1, <1>2, <1>3 DEF UnrefPlatform, Goto, CopyKept, Core, Sticky, At
<1>32. ASSUME NEW w \in Workers, DecreasePlatform(w) PROVE CopyKept'
  BY <1>32, <1>0, <1>1, <1>2, <1>3 DEF DecreasePlatform, IncreaseReference, Goto, CopyKept,
     Core, Sticky, At
<1>33. ASSUME NEW w \in Workers, UpdateActivation(w) PROVE CopyKept'
  BY <1>33, <1>0, <1>1, <1>2, <1>3 DEF UpdateActivation, Goto, CopyKept, Core, Sticky, At
<1>34. ASSUME NEW w \in Workers, UnrefGateway(w) PROVE CopyKept'
  BY <1>34, <1>0, <1>1, <1>2, <1>3 DEF UnrefGateway, UpdateGWSessionScore, Goto, CopyKept, Core,
     Sticky, At
<1>35. ASSUME NEW w \in Workers, DeleteSession(w) PROVE CopyKept'
  BY <1>35, <1>0, <1>1, <1>2, <1>3 DEF DeleteSession, Del, UserOfSession, Goto, CopyKept, Core,
     Sticky, At
<1>36. ASSUME NEW w \in Workers, ReportPlatform(w) PROVE CopyKept'
  BY <1>36, <1>0, <1>1, <1>2, <1>3 DEF ReportPlatform, Goto, CopyKept, Core, Sticky, At
<1>37. ASSUME NEW w \in Workers, Disconnect(w) PROVE CopyKept'
  BY <1>37, <1>0, <1>1, <1>2, <1>3 DEF Disconnect, Note, Goto, CopyKept, Core, Sticky, At
<1>38. ASSUME NEW w \in Workers, LastDevice(w) PROVE CopyKept'
  BY <1>38, <1>0, <1>1, <1>2, <1>3 DEF LastDevice, Goto, CopyKept, Core, Sticky, At
<1>39. ASSUME NEW w \in Workers, ClearDataCenter(w) PROVE CopyKept'
  BY <1>39, <1>0, <1>1, <1>2, <1>3 DEF ClearDataCenter, Me, Goto, CopyKept, Core, Sticky, At
<1>40. ASSUME NEW w \in Workers, ForgetDevice(w) PROVE CopyKept'
  BY <1>40, <1>0, <1>1, <1>2, <1>3 DEF ForgetDevice, Reset, Goto, CopyKept, Core, Sticky, At
<1>41. ASSUME NEW w \in Workers, Crash(w) PROVE CopyKept'
  BY <1>41, <1>0, <1>1, <1>2, <1>3, <1>5 DEF Crash, Reset, Goto, CopyKept, Core, Sticky, At
<1>42. ASSUME NEW w \in Workers, NEW d \in Devices, StartRequest(w, d) PROVE CopyKept'
  BY <1>42, <1>0, <1>1, <1>2, <1>3 DEF StartRequest, StartSessionFromClient,
     StartSessionByDevice, Goto, CopyKept, Core, Sticky, At
<1>43. ASSUME NEW w \in Workers, NEW d \in Devices, AdminKill(w, d) PROVE CopyKept'
  BY <1>43, <1>0, <1>1, <1>2, <1>3 DEF AdminKill, FindKilled, RemoveLock, LoadKilled, SessionOfUserDevice, Goto, Note, CopyKept,
     Core, Sticky, At
<1>44. ASSUME NEW w \in Workers, NEW s \in Sessions, EndRequest(w, s) PROVE CopyKept'
  BY <1>44, <1>0, <1>1, <1>2, <1>3 DEF EndRequest, LogoutUser, CloseOtherSessions, Goto,
     CopyKept, Core, Sticky, At
<1>45. ASSUME NEW o \in Writers, OtherSave(o) PROVE CopyKept'
  <2>1. o = "gateway" /\ UNCHANGED <<pc, cur, mem, plugin>>
    BY <1>45, <1>3 DEF OtherSave
  <2>2. \A s \in Sessions : Core(hash'[s]) = Core(hash[s])
    BY <1>45, <2>1, <1>0, <1>3 DEF OtherSave, Core
  <2> QED
    BY <2>1, <2>2, <1>0, <1>2 DEF CopyKept, At
<1>46. ASSUME NEW o \in Writers, OtherSchedule(o) PROVE CopyKept'
  BY <1>46, <1>0, <1>1, <1>2, <1>3 DEF OtherSchedule, CopyKept, Core, Sticky, At
<1>47. ASSUME NEW o \in Writers, NEW s \in Sessions, OtherLoad(o, s) PROVE CopyKept'
  BY <1>47, <1>0, <1>1, <1>2, <1>3 DEF OtherLoad, Copy, CopyKept, Core, Sticky, At
<1>48. ASSUME NEW s \in Sessions, SuspendTimeout(s) PROVE CopyKept'
  BY <1>48, <1>0, <1>1, <1>2, <1>3 DEF SuspendTimeout, CopyKept, Core, Sticky, At
<1>49. ASSUME NEW d \in Devices, LockExpires(d) PROVE CopyKept'
  BY <1>49, <1>0, <1>1, <1>2, <1>3 DEF LockExpires, CopyKept, Core, Sticky, At
<1>50. CASE UNCHANGED vars
  <2>1. UNCHANGED <<pc, cur, hash, mem, plugin>>
    BY <1>50 DEF vars
  <2> QED
    BY <2>1, <1>0, <1>1, <1>2, <1>3 DEF CopyKept, Core, Sticky, At
<1> QED
  BY <1>1, <1>2, <1>3, <1>4, <1>5, <1>6, <1>7, <1>8, <1>9, <1>10, <1>11, <1>12, <1>13, <1>14,
     <1>15, <1>16, <1>17, <1>18, <1>19, <1>20, <1>21, <1>22, <1>23, <1>24, <1>25, <1>26, <1>27,
     <1>28, <1>29, <1>30, <1>31, <1>32, <1>33, <1>34, <1>35, <1>36, <1>37, <1>38, <1>39, <1>40,
     <1>41, <1>42, <1>43, <1>44, <1>45, <1>46, <1>47, <1>48, <1>49, <1>50 DEF Next, WorkerStep,
     StartStep, EndStep, OtherStep

\* The gateway's update (redisGateway.js) writes suspend and nothing else.
LEMMA GatewayPreserved ==
    ASSUME TypeOK, SessionInv, LockRespected, LockInv, [Next]_vars PROVE GatewayKept'
<1> USE StoreAssumption, ControllerAssumption
<1> USE DEF LockRespected, PointedPCs, PartialPCs, NewPCs, EndingPCs, store, keys, refs, ids,
   outside, own, other, bounds
<1>0. GatewayKept /\ LockRespected /\ oPc \in [Writers -> {"idle", "loaded", "saved"}] /\ oMem \in [Writers -> SUBSET Fields]
  BY DEF LockInv, TypeOK, WriterTypeOK
<1>1. ASSUME NEW w \in Workers, Lock(w) PROVE GatewayKept'
  BY <1>1, <1>0 DEF Lock, LockFree, Goto, At, GatewayKept, Writers
<1>2. ASSUME NEW w \in Workers, LockRefused(w) PROVE GatewayKept'
  BY <1>2, <1>0 DEF LockRefused, LockFree, Reset, Goto, At, GatewayKept, Writers
<1>3. ASSUME NEW w \in Workers, Lookup(w) PROVE GatewayKept'
  BY <1>3, <1>0 DEF Lookup, SessionOfUserDevice, Joinable, Exists, Goto, At, GatewayKept,
     Writers
<1>4. ASSUME NEW w \in Workers, Join(w) PROVE GatewayKept'
  BY <1>4, <1>0 DEF Join, Save, Saved, Goto, At, GatewayKept, Writers
<1>5. ASSUME NEW w \in Workers, Limit(w) PROVE GatewayKept'
  BY <1>5, <1>0 DEF Limit, Me, Goto, At, GatewayKept, Writers
<1>6. ASSUME NEW w \in Workers, CreateSession(w) PROVE GatewayKept'
  BY <1>6, <1>0 DEF CreateSession, Create, Save, Saved, Goto, At, GatewayKept, Writers
<1>7. ASSUME NEW w \in Workers, SetPointer(w) PROVE GatewayKept'
  BY <1>7, <1>0 DEF SetPointer, Goto, At, GatewayKept, Writers
<1>8. ASSUME NEW w \in Workers, AddToUser(w) PROVE GatewayKept'
  BY <1>8, <1>0 DEF AddToUser, Me, Goto, At, GatewayKept, Writers
<1>9. ASSUME NEW w \in Workers, SuspendNew(w) PROVE GatewayKept'
  BY <1>9, <1>0 DEF SuspendNew, Suspend, Save, Saved, Goto, At, GatewayKept, Writers
<1>10. ASSUME NEW w \in Workers, Place(w) PROVE GatewayKept'
  BY <1>10, <1>0 DEF Place, OrgRefuses, Note, Goto, At, GatewayKept, Writers
<1>11. ASSUME NEW w \in Workers, Attach(w) PROVE GatewayKept'
  BY <1>11, <1>0 DEF Attach, findGateway, Note, Goto, At, GatewayKept, Writers
<1>12. ASSUME NEW w \in Workers, CountOnGateway(w) PROVE GatewayKept'
  BY <1>12, <1>0 DEF CountOnGateway, UpdateGWSessionScore, Note, Goto, At, GatewayKept, Writers
<1>13. ASSUME NEW w \in Workers, ListOnPlatform(w) PROVE GatewayKept'
  BY <1>13, <1>0 DEF ListOnPlatform, Note, Goto, At, GatewayKept, Writers
<1>14. ASSUME NEW w \in Workers, SaveSession(w) PROVE GatewayKept'
  BY <1>14, <1>0 DEF SaveSession, Save, Saved, Goto, At, GatewayKept, Writers
<1>15. ASSUME NEW w \in Workers, RecordDataCenter(w) PROVE GatewayKept'
  BY <1>15, <1>0 DEF RecordDataCenter, Me, Goto, At, GatewayKept, Writers
<1>16. ASSUME NEW w \in Workers, Connect(w) PROVE GatewayKept'
  BY <1>16, <1>0 DEF Connect, ConnectedRow, Goto, At, GatewayKept, Writers
<1>17. ASSUME NEW w \in Workers, CleanPlatform(w) PROVE GatewayKept'
  BY <1>17, <1>0 DEF CleanPlatform, CleanReference, IncreaseReference, Goto, At, GatewayKept,
     Writers
<1>18. ASSUME NEW w \in Workers, CleanUser(w) PROVE GatewayKept'
  BY <1>18, <1>0 DEF CleanUser, Goto, At, GatewayKept, Writers
<1>19. ASSUME NEW w \in Workers, CleanGateway(w) PROVE GatewayKept'
  BY <1>19, <1>0 DEF CleanGateway, UpdateGWSessionScore, Goto, At, GatewayKept, Writers
<1>20. ASSUME NEW w \in Workers, Discard(w) PROVE GatewayKept'
  BY <1>20, <1>0 DEF Discard, Del, UserOfSession, Goto, At, GatewayKept, Writers
<1>21. ASSUME NEW w \in Workers, Unlock(w) PROVE GatewayKept'
  BY <1>21, <1>0 DEF Unlock, Goto, Reset, At, GatewayKept, Writers
<1>22. ASSUME NEW w \in Workers, Revive(w) PROVE GatewayKept'
  BY <1>22, <1>0 DEF Revive, Reset, Goto, At, GatewayKept, Writers
<1>23. ASSUME NEW w \in Workers, Reload(w) PROVE GatewayKept'
  BY <1>23, <1>0 DEF Reload, MayEnd, Note, Goto, At, GatewayKept, Writers
<1>24. ASSUME NEW w \in Workers, MarkDeleted(w) PROVE GatewayKept'
  BY <1>24, <1>0 DEF MarkDeleted, Save, Saved, Goto, At, GatewayKept, Writers
<1>25. ASSUME NEW w \in Workers, Detach(w) PROVE GatewayKept'
  BY <1>25, <1>0 DEF Detach, Note, Goto, At, GatewayKept, Writers
<1>26. ASSUME NEW w \in Workers, UnrefPlatform(w) PROVE GatewayKept'
  BY <1>26, <1>0 DEF UnrefPlatform, Goto, At, GatewayKept, Writers
<1>27. ASSUME NEW w \in Workers, DecreasePlatform(w) PROVE GatewayKept'
  BY <1>27, <1>0 DEF DecreasePlatform, IncreaseReference, Goto, At, GatewayKept, Writers
<1>28. ASSUME NEW w \in Workers, UpdateActivation(w) PROVE GatewayKept'
  BY <1>28, <1>0 DEF UpdateActivation, Goto, At, GatewayKept, Writers
<1>29. ASSUME NEW w \in Workers, UnrefGateway(w) PROVE GatewayKept'
  BY <1>29, <1>0 DEF UnrefGateway, UpdateGWSessionScore, Goto, At, GatewayKept, Writers
<1>30. ASSUME NEW w \in Workers, DeleteSession(w) PROVE GatewayKept'
  BY <1>30, <1>0 DEF DeleteSession, Del, UserOfSession, Goto, At, GatewayKept, Writers
<1>31. ASSUME NEW w \in Workers, ReportPlatform(w) PROVE GatewayKept'
  BY <1>31, <1>0 DEF ReportPlatform, Goto, At, GatewayKept, Writers
<1>32. ASSUME NEW w \in Workers, Disconnect(w) PROVE GatewayKept'
  BY <1>32, <1>0 DEF Disconnect, Note, Goto, At, GatewayKept, Writers
<1>33. ASSUME NEW w \in Workers, LastDevice(w) PROVE GatewayKept'
  BY <1>33, <1>0 DEF LastDevice, Goto, At, GatewayKept, Writers
<1>34. ASSUME NEW w \in Workers, ClearDataCenter(w) PROVE GatewayKept'
  BY <1>34, <1>0 DEF ClearDataCenter, Me, Goto, At, GatewayKept, Writers
<1>35. ASSUME NEW w \in Workers, ForgetDevice(w) PROVE GatewayKept'
  BY <1>35, <1>0 DEF ForgetDevice, Reset, Goto, At, GatewayKept, Writers
<1>36. ASSUME NEW w \in Workers, Crash(w) PROVE GatewayKept'
  BY <1>36, <1>0 DEF Crash, Reset, Goto, At, GatewayKept, Writers
<1>37. ASSUME NEW w \in Workers, NEW d \in Devices, StartRequest(w, d) PROVE GatewayKept'
  BY <1>37, <1>0 DEF StartRequest, StartSessionFromClient, StartSessionByDevice, Goto, At,
     GatewayKept, Writers
<1>38. ASSUME NEW w \in Workers, NEW d \in Devices, AdminKill(w, d) PROVE GatewayKept'
  BY <1>38, <1>0 DEF AdminKill, FindKilled, RemoveLock, LoadKilled, SessionOfUserDevice, Goto, Note, At, GatewayKept, Writers
<1>39. ASSUME NEW w \in Workers, NEW s \in Sessions, EndRequest(w, s) PROVE GatewayKept'
  BY <1>39, <1>0 DEF EndRequest, LogoutUser, CloseOtherSessions, Goto, At, GatewayKept, Writers
<1>40. ASSUME NEW o \in Writers, OtherSave(o) PROVE GatewayKept'
  BY <1>40, <1>0 DEF OtherSave, Save, Saved, GatewayKept, Writers
<1>41. ASSUME NEW o \in Writers, OtherSchedule(o) PROVE GatewayKept'
  BY <1>41, <1>0 DEF OtherSchedule, GatewayKept, Writers
<1>42. ASSUME NEW o \in Writers, NEW s \in Sessions, OtherLoad(o, s) PROVE GatewayKept'
  BY <1>42, <1>0 DEF OtherLoad, Copy, GatewayKept, Writers
<1>43. ASSUME NEW s \in Sessions, SuspendTimeout(s) PROVE GatewayKept'
  BY <1>43, <1>0 DEF SuspendTimeout, GatewayKept, Writers
<1>44. ASSUME NEW d \in Devices, LockExpires(d) PROVE GatewayKept'
  BY <1>44, <1>0 DEF LockExpires, GatewayKept, Writers
<1>45. CASE UNCHANGED vars
  <2>1. UNCHANGED <<oPc, oMem>>
    BY <1>45 DEF vars
  <2> QED
    BY <2>1, <1>0 DEF GatewayKept, Writers
<1> QED
  BY <1>1, <1>2, <1>3, <1>4, <1>5, <1>6, <1>7, <1>8, <1>9, <1>10, <1>11, <1>12, <1>13, <1>14,
     <1>15, <1>16, <1>17, <1>18, <1>19, <1>20, <1>21, <1>22, <1>23, <1>24, <1>25, <1>26, <1>27,
     <1>28, <1>29, <1>30, <1>31, <1>32, <1>33, <1>34, <1>35, <1>36, <1>37, <1>38, <1>39, <1>40,
     <1>41, <1>42, <1>43, <1>44, <1>45 DEF Next, WorkerStep, StartStep, EndStep, OtherStep
\* Only Create makes a hash that was not there: every other save of a handler is to
\* the session its device's pointer leads to, which exists.
LEMMA NobodyRevives ==
    ASSUME TypeOK, SessionInv, NobodyElse, LockInv, [Next]_vars, NEW t \in Sessions, ~Exists(t), Exists(t)'
    PROVE  \E w \in Workers : At(w, "create") /\ cur[w] = t
<1> USE StoreAssumption, ControllerAssumption
<1> USE DEF PointedPCs, PartialPCs, NewPCs, EndingPCs, store, keys, refs, ids, outside, own,
   other, bounds
<1> DEFINE Goal == \E w \in Workers : At(w, "create") /\ cur[w] = t
<1>0. hash \in [Sessions -> SUBSET Fields] /\ hash[t] = {} /\ hash'[t] # {}
  BY DEF TypeOK, StoreTypeOK, Exists
<1>1. \A w \in Workers : pc[w] \in PointedPCs => cur[w] \in Sessions /\ hash[cur[w]] # {}
  BY DEF LockInv, PointerKept, TypeOK, SessionInv, StoreSound, WorkerSound, HandlerTypeOK, At
<1>2. \A o \in Writers : oPc[o] = "idle"
  BY DEF LockInv, GatewayKept, NobodyElse
<1>3. ASSUME NEW w \in Workers, Lock(w) PROVE Goal
  BY <1>3, <1>0, <1>1, <1>2 DEF Lock, LockFree, Goto, At
<1>4. ASSUME NEW w \in Workers, LockRefused(w) PROVE Goal
  BY <1>4, <1>0, <1>1, <1>2 DEF LockRefused, LockFree, Reset, Goto, At
<1>5. ASSUME NEW w \in Workers, Lookup(w) PROVE Goal
  BY <1>5, <1>0, <1>1, <1>2 DEF Lookup, SessionOfUserDevice, Joinable, Exists, Goto, At
<1>6. ASSUME NEW w \in Workers, Join(w) PROVE Goal
  BY <1>6, <1>0, <1>1, <1>2 DEF Join, Save, Saved, Goto, At
<1>7. ASSUME NEW w \in Workers, Limit(w) PROVE Goal
  BY <1>7, <1>0, <1>1, <1>2 DEF Limit, Me, Goto, At
<1>8. ASSUME NEW w \in Workers, CreateSession(w) PROVE Goal
  BY <1>8, <1>0, <1>1, <1>2 DEF CreateSession, Create, Save, Saved, Goto, At
<1>9. ASSUME NEW w \in Workers, SetPointer(w) PROVE Goal
  BY <1>9, <1>0, <1>1, <1>2 DEF SetPointer, Goto, At
<1>10. ASSUME NEW w \in Workers, AddToUser(w) PROVE Goal
  BY <1>10, <1>0, <1>1, <1>2 DEF AddToUser, Me, Goto, At
<1>11. ASSUME NEW w \in Workers, SuspendNew(w) PROVE Goal
  BY <1>11, <1>0, <1>1, <1>2 DEF SuspendNew, Suspend, Save, Saved, Goto, At
<1>12. ASSUME NEW w \in Workers, Place(w) PROVE Goal
  BY <1>12, <1>0, <1>1, <1>2 DEF Place, OrgRefuses, Note, Goto, At
<1>13. ASSUME NEW w \in Workers, Attach(w) PROVE Goal
  BY <1>13, <1>0, <1>1, <1>2 DEF Attach, findGateway, Note, Goto, At
<1>14. ASSUME NEW w \in Workers, CountOnGateway(w) PROVE Goal
  BY <1>14, <1>0, <1>1, <1>2 DEF CountOnGateway, UpdateGWSessionScore, Note, Goto, At
<1>15. ASSUME NEW w \in Workers, ListOnPlatform(w) PROVE Goal
  BY <1>15, <1>0, <1>1, <1>2 DEF ListOnPlatform, Note, Goto, At
<1>16. ASSUME NEW w \in Workers, SaveSession(w) PROVE Goal
  BY <1>16, <1>0, <1>1, <1>2 DEF SaveSession, Save, Saved, Goto, At
<1>17. ASSUME NEW w \in Workers, RecordDataCenter(w) PROVE Goal
  BY <1>17, <1>0, <1>1, <1>2 DEF RecordDataCenter, Me, Goto, At
<1>18. ASSUME NEW w \in Workers, Connect(w) PROVE Goal
  BY <1>18, <1>0, <1>1, <1>2 DEF Connect, ConnectedRow, Goto, At
<1>19. ASSUME NEW w \in Workers, CleanPlatform(w) PROVE Goal
  BY <1>19, <1>0, <1>1, <1>2 DEF CleanPlatform, CleanReference, IncreaseReference, Goto, At
<1>20. ASSUME NEW w \in Workers, CleanUser(w) PROVE Goal
  BY <1>20, <1>0, <1>1, <1>2 DEF CleanUser, Goto, At
<1>21. ASSUME NEW w \in Workers, CleanGateway(w) PROVE Goal
  BY <1>21, <1>0, <1>1, <1>2 DEF CleanGateway, UpdateGWSessionScore, Goto, At
<1>22. ASSUME NEW w \in Workers, Discard(w) PROVE Goal
  BY <1>22, <1>0, <1>1, <1>2 DEF Discard, Del, UserOfSession, Goto, At
<1>23. ASSUME NEW w \in Workers, Unlock(w) PROVE Goal
  BY <1>23, <1>0, <1>1, <1>2 DEF Unlock, Goto, Reset, At
<1>24. ASSUME NEW w \in Workers, Revive(w) PROVE Goal
  BY <1>24, <1>0, <1>1, <1>2 DEF Revive, Reset, Goto, At
<1>25. ASSUME NEW w \in Workers, Reload(w) PROVE Goal
  BY <1>25, <1>0, <1>1, <1>2 DEF Reload, MayEnd, Note, Goto, At
<1>26. ASSUME NEW w \in Workers, MarkDeleted(w) PROVE Goal
  BY <1>26, <1>0, <1>1, <1>2 DEF MarkDeleted, Save, Saved, Goto, At
<1>27. ASSUME NEW w \in Workers, Detach(w) PROVE Goal
  BY <1>27, <1>0, <1>1, <1>2 DEF Detach, Note, Goto, At
<1>28. ASSUME NEW w \in Workers, UnrefPlatform(w) PROVE Goal
  BY <1>28, <1>0, <1>1, <1>2 DEF UnrefPlatform, Goto, At
<1>29. ASSUME NEW w \in Workers, DecreasePlatform(w) PROVE Goal
  BY <1>29, <1>0, <1>1, <1>2 DEF DecreasePlatform, IncreaseReference, Goto, At
<1>30. ASSUME NEW w \in Workers, UpdateActivation(w) PROVE Goal
  BY <1>30, <1>0, <1>1, <1>2 DEF UpdateActivation, Goto, At
<1>31. ASSUME NEW w \in Workers, UnrefGateway(w) PROVE Goal
  BY <1>31, <1>0, <1>1, <1>2 DEF UnrefGateway, UpdateGWSessionScore, Goto, At
<1>32. ASSUME NEW w \in Workers, DeleteSession(w) PROVE Goal
  BY <1>32, <1>0, <1>1, <1>2 DEF DeleteSession, Del, UserOfSession, Goto, At
<1>33. ASSUME NEW w \in Workers, ReportPlatform(w) PROVE Goal
  BY <1>33, <1>0, <1>1, <1>2 DEF ReportPlatform, Goto, At
<1>34. ASSUME NEW w \in Workers, Disconnect(w) PROVE Goal
  BY <1>34, <1>0, <1>1, <1>2 DEF Disconnect, Note, Goto, At
<1>35. ASSUME NEW w \in Workers, LastDevice(w) PROVE Goal
  BY <1>35, <1>0, <1>1, <1>2 DEF LastDevice, Goto, At
<1>36. ASSUME NEW w \in Workers, ClearDataCenter(w) PROVE Goal
  BY <1>36, <1>0, <1>1, <1>2 DEF ClearDataCenter, Me, Goto, At
<1>37. ASSUME NEW w \in Workers, ForgetDevice(w) PROVE Goal
  BY <1>37, <1>0, <1>1, <1>2 DEF ForgetDevice, Reset, Goto, At
<1>38. ASSUME NEW w \in Workers, Crash(w) PROVE Goal
  BY <1>38, <1>0, <1>1, <1>2 DEF Crash, Reset, Goto, At
<1>39. ASSUME NEW w \in Workers, NEW d \in Devices, StartRequest(w, d) PROVE Goal
  BY <1>39, <1>0, <1>1, <1>2 DEF StartRequest, StartSessionFromClient, StartSessionByDevice,
     Goto, At
<1>40. ASSUME NEW w \in Workers, NEW d \in Devices, AdminKill(w, d) PROVE Goal
  BY <1>40, <1>0, <1>1, <1>2 DEF AdminKill, FindKilled, RemoveLock, LoadKilled, SessionOfUserDevice, Goto, Note, At
<1>41. ASSUME NEW w \in Workers, NEW s \in Sessions, EndRequest(w, s) PROVE Goal
  BY <1>41, <1>0, <1>1, <1>2 DEF EndRequest, LogoutUser, CloseOtherSessions, Goto, At
<1>42. ASSUME NEW o \in Writers, OtherSave(o) PROVE Goal
  BY <1>42, <1>0, <1>1, <1>2 DEF OtherSave, Save, Saved
<1>43. ASSUME NEW o \in Writers, OtherSchedule(o) PROVE Goal
  BY <1>43, <1>0, <1>1, <1>2 DEF OtherSchedule
<1>44. ASSUME NEW o \in Writers, NEW s \in Sessions, OtherLoad(o, s) PROVE Goal
  BY <1>44, <1>0, <1>1, <1>2 DEF OtherLoad, Copy
<1>45. ASSUME NEW s \in Sessions, SuspendTimeout(s) PROVE Goal
  BY <1>45, <1>0, <1>1, <1>2 DEF SuspendTimeout
<1>46. ASSUME NEW d \in Devices, LockExpires(d) PROVE Goal
  BY <1>46, <1>0, <1>1, <1>2 DEF LockExpires
<1>47. CASE UNCHANGED vars
  <2>1. UNCHANGED <<hash>>
    BY <1>47 DEF vars
  <2> QED
    BY <2>1, <1>0, <1>1, <1>2
<1> QED
  BY <1>1, <1>2, <1>3, <1>4, <1>5, <1>6, <1>7, <1>8, <1>9, <1>10, <1>11, <1>12, <1>13, <1>14,
     <1>15, <1>16, <1>17, <1>18, <1>19, <1>20, <1>21, <1>22, <1>23, <1>24, <1>25, <1>26, <1>27,
     <1>28, <1>29, <1>30, <1>31, <1>32, <1>33, <1>34, <1>35, <1>36, <1>37, <1>38, <1>39, <1>40,
     <1>41, <1>42, <1>43, <1>44, <1>45, <1>46, <1>47 DEF Next, WorkerStep, StartStep, EndStep,
     OtherStep

----------------------------------------------------------------------------
(* Complete sessions.                                                      *)

\* What endSession finds when it loads the session again: the session of the device,
\* complete if nobody was at it.
LEMMA EndedIsComplete ==
    ASSUME TypeOK, SessionInv, LockRespected, LockInv, NEW w \in Workers, At(w, "reload"), MayEnd(cur[w])
    PROVE  /\ cur[w] \in Sessions /\ deviceOf[cur[w]] = dev[w]
           /\ usersess[dev[w]] = cur[w] /\ "device" \in hash[cur[w]]
           /\ CompleteInv => Complete(cur[w])
<1> USE StoreAssumption, ControllerAssumption
<1>1. cur[w] \in Sessions /\ "device" \in hash[cur[w]] /\ deviceOf[cur[w]] = dev[w] /\ dev[w] \in Devices
  BY DEF SessionInv, WorkerSound, LockInv, DeviceKept, MayEnd, At, Core
<1>2. \A x \in Workers : pc[x] \in LockedPCs /\ dev[x] = dev[w] => x = w
  BY DEF LockInv, LockKept, LockedPCs, PCs, StartPCs, EndPCs, LastPCs, At
<1>3. \A x \in Workers : At(x, "pointer") => cur[x] # cur[w]
  BY <1>1, <1>2 DEF At, LockedPCs, PCs, StartPCs, EndPCs, LastPCs, SessionInv, WorkerSound
<1>4. usersess[dev[w]] = cur[w]
  BY <1>1, <1>3 DEF LockInv, DeviceKept
<1>5. \A x \in Workers : dev[x] = dev[w] => pc[x] \notin PartialPCs
  BY <1>2 DEF At, LockedPCs, PCs, StartPCs, EndPCs, LastPCs, PartialPCs, NewPCs, EndingPCs
<1> QED
  BY <1>1, <1>4, <1>5 DEF CompleteInv, CompleteKept

\* Each step of startSessionImp finds what the steps before it did.
LEMMA BuiltPreserved ==
    ASSUME TypeOK, SessionInv, LockRespected, LockInv, CompleteInv, [Next]_vars PROVE BuiltKept'
<1> USE StoreAssumption, ControllerAssumption
<1> USE DEF LockRespected, PointedPCs, PartialPCs, NewPCs, EndingPCs, store, keys, refs, ids,
   outside, own, other, bounds
<1>0. /\ pc \in [Workers -> PCs] /\ dev \in [Workers -> Devices \cup {None}]
      /\ cur \in [Workers -> Sessions \cup {None}] /\ usersess \in [Devices -> Sessions \cup {None}]
      /\ hash \in [Sessions -> SUBSET Fields] /\ mem \in [Workers -> SUBSET Fields]
      /\ built \in [Workers -> SUBSET BuildStatus] /\ userset \in [Users -> SUBSET Sessions]
      /\ platlist \in [Platforms -> SUBSET Sessions] /\ gwlist \in [Gateways -> SUBSET Sessions]
      /\ platOf \in [Sessions -> Platforms \cup {None}] /\ gwOf \in [Sessions -> Gateways \cup {None}]
      /\ deviceOf \in [Sessions -> Devices \cup {None}] /\ plugin \in [Workers -> BOOLEAN]
  BY DEF TypeOK, StoreTypeOK, HandlerTypeOK
<1>1. /\ \A h \in Workers : ~At(h, "idle") => dev[h] \in Devices
      /\ \A h \in Workers : cur[h] # None => deviceOf[cur[h]] = dev[h]
      /\ \A h \in Workers : pc[h] \in NewPCs \cup PointedPCs => cur[h] \in Sessions
      /\ \A s \in Sessions : deviceOf[s] = None => hash[s] = {} /\ platOf[s] = None
      /\ \A h \in Workers : At(h, "limit") => built[h] = {}
  BY <1>0 DEF SessionInv, WorkerSound, StoreSound, Exists, At
<1>2. \A h \in Workers : pc[h] \in NewPCs \cup PointedPCs \cup {"lookup", "limit", "reload"} => lock[dev[h]] = h
  BY DEF LockInv, LockKept, LockedPCs, PCs, StartPCs, EndPCs, LastPCs
<1>3. \A h, k \in Workers : /\ pc[h] \in NewPCs \cup PointedPCs /\ pc[k] \in NewPCs \cup PointedPCs
                            /\ h # k
                            => dev[h] # dev[k] /\ cur[h] # cur[k]
  BY <1>0, <1>1, <1>2
<1>4. ~(crashes < MaxCrashes)
  BY DEF LockRespected, TypeOK, SharedTypeOK
<1>5. BuiltKept /\ \A s \in Sessions : gwOf[s] # None => platOf[s] # None
  BY DEF CompleteInv, PluginApart
<1>6. \A w \in Workers : pc[w] \in PartialPCs => usersess[dev[w]] = cur[w]
  BY DEF LockInv, PointerKept
<1>7. \A w \in Workers : At(w, "reload") /\ MayEnd(cur[w]) => cur[w] \in userset[Me(w)]
  BY EndedIsComplete DEF Complete, UserOfSession, Me
<1> USE DEF Me
<1>8. ASSUME NEW w \in Workers, Lock(w) PROVE BuiltKept'
  BY <1>8, <1>0, <1>1, <1>3, <1>5 DEF Lock, LockFree, Goto, BuiltKept, OnGateway, OnPlatform, At
<1>9. ASSUME NEW w \in Workers, LockRefused(w) PROVE BuiltKept'
  BY <1>9, <1>0, <1>1, <1>3, <1>5 DEF LockRefused, LockFree, Reset, Goto, BuiltKept, OnGateway,
     OnPlatform, At
<1>10. ASSUME NEW w \in Workers, Lookup(w) PROVE BuiltKept'
  BY <1>10, <1>0, <1>1, <1>3, <1>5 DEF Lookup, SessionOfUserDevice, Joinable, Exists, Goto,
     BuiltKept, OnGateway, OnPlatform, At
<1>11. ASSUME NEW w \in Workers, Join(w) PROVE BuiltKept'
  BY <1>11, <1>0, <1>1, <1>3, <1>5 DEF Join, Save, Saved, Goto, BuiltKept, OnGateway,
     OnPlatform, At
<1>12. ASSUME NEW w \in Workers, Limit(w) PROVE BuiltKept'
  BY <1>12, <1>0, <1>1, <1>3, <1>5 DEF Limit, Me, Goto, BuiltKept, OnGateway, OnPlatform, At
<1>13. ASSUME NEW w \in Workers, CreateSession(w) PROVE BuiltKept'
  BY <1>13, <1>0, <1>1, <1>3, <1>5 DEF CreateSession, Create, Save, Saved, Goto, BuiltKept,
     OnGateway, OnPlatform, At
<1>14. ASSUME NEW w \in Workers, SetPointer(w) PROVE BuiltKept'
  BY <1>14, <1>0, <1>1, <1>3, <1>5 DEF SetPointer, Goto, BuiltKept, OnGateway, OnPlatform, At
<1>15. ASSUME NEW w \in Workers, AddToUser(w) PROVE BuiltKept'
  BY <1>15, <1>0, <1>1, <1>3, <1>5 DEF AddToUser, Me, Goto, BuiltKept, OnGateway, OnPlatform, At
<1>16. ASSUME NEW w \in Workers, SuspendNew(w) PROVE BuiltKept'
  BY <1>16, <1>0, <1>1, <1>3, <1>5 DEF SuspendNew, Suspend, Save, Saved, Goto, BuiltKept,
     OnGateway, OnPlatform, At
<1>17. ASSUME NEW w \in Workers, Place(w) PROVE BuiltKept'
  BY <1>17, <1>0, <1>1, <1>3, <1>5 DEF Place, OrgRefuses, Note, Goto, BuiltKept, OnGateway,
     OnPlatform, At
<1>18. ASSUME NEW w \in Workers, Attach(w) PROVE BuiltKept'
  BY <1>18, <1>0, <1>1, <1>3, <1>5 DEF Attach, findGateway, Note, Goto, BuiltKept, OnGateway,
     OnPlatform, At
<1>19. ASSUME NEW w \in Workers, CountOnGateway(w) PROVE BuiltKept'
  BY <1>19, <1>0, <1>1, <1>3, <1>5 DEF CountOnGateway, UpdateGWSessionScore, Note, Goto,
     BuiltKept, OnGateway, OnPlatform, At
<1>20. ASSUME NEW w \in Workers, ListOnPlatform(w) PROVE BuiltKept'
  BY <1>20, <1>0, <1>1, <1>3, <1>5 DEF ListOnPlatform, Note, Goto, BuiltKept, OnGateway,
     OnPlatform, At
<1>21. ASSUME NEW w \in Workers, SaveSession(w) PROVE BuiltKept'
  BY <1>21, <1>0, <1>1, <1>3, <1>5 DEF SaveSession, Save, Saved, Goto, BuiltKept, OnGateway,
     OnPlatform, At
<1>22. ASSUME NEW w \in Workers, RecordDataCenter(w) PROVE BuiltKept'
  BY <1>22, <1>0, <1>1, <1>3, <1>5 DEF RecordDataCenter, Me, Goto, BuiltKept, OnGateway,
     OnPlatform, At
<1>23. ASSUME NEW w \in Workers, Connect(w) PROVE BuiltKept'
  BY <1>23, <1>0, <1>1, <1>3, <1>5 DEF Connect, ConnectedRow, Goto, BuiltKept, OnGateway,
     OnPlatform, At
<1>24. ASSUME NEW w \in Workers, CleanPlatform(w) PROVE BuiltKept'
  BY <1>24, <1>0, <1>1, <1>3, <1>5 DEF CleanPlatform, CleanReference, IncreaseReference, Goto,
     BuiltKept, OnGateway, OnPlatform, At
<1>25. ASSUME NEW w \in Workers, CleanUser(w) PROVE BuiltKept'
  BY <1>25, <1>0, <1>1, <1>3, <1>5 DEF CleanUser, Goto, BuiltKept, OnGateway, OnPlatform, At
<1>26. ASSUME NEW w \in Workers, CleanGateway(w) PROVE BuiltKept'
  <2>1. \A g \in Gateways : gwlist'[g] \in SUBSET Sessions /\ gwlist[g] \subseteq gwlist'[g]
    <3>1. cur[w] \in Sessions /\ (UNCHANGED gwlist \/ UpdateGWSessionScore(cur[w], 1))
      BY <1>26, <1>1 DEF CleanGateway, At
    <3>2. CASE UpdateGWSessionScore(cur[w], 1)
      <4>1. gwlist' = [gwlist EXCEPT ![gwOf[cur[w]]] = @ \cup {cur[w]}]
        BY <3>2 DEF UpdateGWSessionScore
      <4> QED
        BY <3>1, <4>1, <1>0
    <3> QED
      BY <3>1, <3>2, <1>0
  <2>2. /\ UNCHANGED <<dev, cur, mem, plugin, built, platOf, gwOf, userset, attached, platlist>>
        /\ At(w, "clean_gw") /\ pc'[w] = "discard" /\ \A x \in Workers \ {w} : pc'[x] = pc[x]
    BY <1>26, <1>0 DEF CleanGateway, Goto, At
  <2> QED
    BY <2>1, <2>2, <1>0, <1>1, <1>3, <1>5 DEF BuiltKept, OnGateway, OnPlatform, At
<1>27. ASSUME NEW w \in Workers, Discard(w) PROVE BuiltKept'
  BY <1>27, <1>0, <1>1, <1>3, <1>5 DEF Discard, Del, UserOfSession, Goto, BuiltKept, OnGateway,
     OnPlatform, At
<1>28. ASSUME NEW w \in Workers, Unlock(w) PROVE BuiltKept'
  BY <1>28, <1>0, <1>1, <1>3, <1>5 DEF Unlock, Goto, Reset, BuiltKept, OnGateway, OnPlatform, At
<1>29. ASSUME NEW w \in Workers, Revive(w) PROVE BuiltKept'
  BY <1>29, <1>0, <1>1, <1>3, <1>5 DEF Revive, Reset, Goto, BuiltKept, OnGateway, OnPlatform, At
<1>30. ASSUME NEW w \in Workers, Reload(w) PROVE BuiltKept'
  BY <1>30, <1>0, <1>1, <1>3, <1>5, <1>7 DEF Reload, MayEnd, Note, Goto, BuiltKept, OnGateway,
     OnPlatform, At
<1>31. ASSUME NEW w \in Workers, MarkDeleted(w) PROVE BuiltKept'
  BY <1>31, <1>0, <1>1, <1>3, <1>5 DEF MarkDeleted, Save, Saved, Goto, BuiltKept, OnGateway,
     OnPlatform, At
<1>32. ASSUME NEW w \in Workers, Detach(w) PROVE BuiltKept'
  BY <1>32, <1>0, <1>1, <1>3, <1>5 DEF Detach, Note, Goto, BuiltKept, OnGateway, OnPlatform, At
<1>33. ASSUME NEW w \in Workers, UnrefPlatform(w) PROVE BuiltKept'
  BY <1>33, <1>0, <1>1, <1>3, <1>5 DEF UnrefPlatform, Goto, BuiltKept, OnGateway, OnPlatform, At
<1>34. ASSUME NEW w \in Workers, DecreasePlatform(w) PROVE BuiltKept'
  BY <1>34, <1>0, <1>1, <1>3, <1>5 DEF DecreasePlatform, IncreaseReference, Goto, BuiltKept,
     OnGateway, OnPlatform, At
<1>35. ASSUME NEW w \in Workers, UpdateActivation(w) PROVE BuiltKept'
  BY <1>35, <1>0, <1>1, <1>3, <1>5 DEF UpdateActivation, Goto, BuiltKept, OnGateway, OnPlatform,
     At
<1>36. ASSUME NEW w \in Workers, UnrefGateway(w) PROVE BuiltKept'
  BY <1>36, <1>0, <1>1, <1>3, <1>5 DEF UnrefGateway, UpdateGWSessionScore, Goto, BuiltKept,
     OnGateway, OnPlatform, At
<1>37. ASSUME NEW w \in Workers, DeleteSession(w) PROVE BuiltKept'
  BY <1>37, <1>0, <1>1, <1>3, <1>5 DEF DeleteSession, Del, UserOfSession, Goto, BuiltKept,
     OnGateway, OnPlatform, At
<1>38. ASSUME NEW w \in Workers, ReportPlatform(w) PROVE BuiltKept'
  BY <1>38, <1>0, <1>1, <1>3, <1>5 DEF ReportPlatform, Goto, BuiltKept, OnGateway, OnPlatform,
     At
<1>39. ASSUME NEW w \in Workers, Disconnect(w) PROVE BuiltKept'
  BY <1>39, <1>0, <1>1, <1>3, <1>5 DEF Disconnect, Note, Goto, BuiltKept, OnGateway, OnPlatform,
     At
<1>40. ASSUME NEW w \in Workers, LastDevice(w) PROVE BuiltKept'
  BY <1>40, <1>0, <1>1, <1>3, <1>5 DEF LastDevice, Goto, BuiltKept, OnGateway, OnPlatform, At
<1>41. ASSUME NEW w \in Workers, ClearDataCenter(w) PROVE BuiltKept'
  BY <1>41, <1>0, <1>1, <1>3, <1>5 DEF ClearDataCenter, Me, Goto, BuiltKept, OnGateway,
     OnPlatform, At
<1>42. ASSUME NEW w \in Workers, ForgetDevice(w) PROVE BuiltKept'
  BY <1>42, <1>0, <1>1, <1>3, <1>5 DEF ForgetDevice, Reset, Goto, BuiltKept, OnGateway,
     OnPlatform, At
<1>43. ASSUME NEW w \in Workers, Crash(w) PROVE BuiltKept'
  BY <1>43, <1>0, <1>1, <1>3, <1>5, <1>4 DEF Crash, Reset, Goto, BuiltKept, OnGateway,
     OnPlatform, At
<1>44. ASSUME NEW w \in Workers, NEW d \in Devices, StartRequest(w, d) PROVE BuiltKept'
  BY <1>44, <1>0, <1>1, <1>3, <1>5 DEF StartRequest, StartSessionFromClient,
     StartSessionByDevice, Goto, BuiltKept, OnGateway, OnPlatform, At
<1>45. ASSUME NEW w \in Workers, NEW d \in Devices, AdminKill(w, d) PROVE BuiltKept'
  BY <1>45, <1>0, <1>1, <1>3, <1>5 DEF AdminKill, FindKilled, RemoveLock, LoadKilled, SessionOfUserDevice, Goto, Note, BuiltKept,
     OnGateway, OnPlatform, At
<1>46. ASSUME NEW w \in Workers, NEW s \in Sessions, EndRequest(w, s) PROVE BuiltKept'
  BY <1>46, <1>0, <1>1, <1>3, <1>5 DEF EndRequest, LogoutUser, CloseOtherSessions, Goto,
     BuiltKept, OnGateway, OnPlatform, At
<1>47. ASSUME NEW o \in Writers, OtherSave(o) PROVE BuiltKept'
  BY <1>47, <1>0, <1>1, <1>3, <1>5 DEF OtherSave, Save, Saved, BuiltKept, OnGateway, OnPlatform,
     At
<1>48. ASSUME NEW o \in Writers, OtherSchedule(o) PROVE BuiltKept'
  BY <1>48, <1>0, <1>1, <1>3, <1>5 DEF OtherSchedule, BuiltKept, OnGateway, OnPlatform, At
<1>49. ASSUME NEW o \in Writers, NEW s \in Sessions, OtherLoad(o, s) PROVE BuiltKept'
  BY <1>49, <1>0, <1>1, <1>3, <1>5 DEF OtherLoad, Copy, BuiltKept, OnGateway, OnPlatform, At
<1>50. ASSUME NEW s \in Sessions, SuspendTimeout(s) PROVE BuiltKept'
  BY <1>50, <1>0, <1>1, <1>3, <1>5 DEF SuspendTimeout, BuiltKept, OnGateway, OnPlatform, At
<1>51. ASSUME NEW d \in Devices, LockExpires(d) PROVE BuiltKept'
  BY <1>51, <1>0, <1>1, <1>3, <1>5 DEF LockExpires, BuiltKept, OnGateway, OnPlatform, At
<1>52. CASE UNCHANGED vars
  <2>1. UNCHANGED <<pc, dev, cur, mem, plugin, built, platOf, gwOf, userset, attached, platlist, gwlist>>
    BY <1>52 DEF vars
  <2> QED
    BY <2>1, <1>0, <1>1, <1>3, <1>5 DEF BuiltKept, OnGateway, OnPlatform, At
<1> QED
  BY <1>1, <1>2, <1>3, <1>4, <1>5, <1>6, <1>7, <1>8, <1>9, <1>10, <1>11, <1>12, <1>13, <1>14,
     <1>15, <1>16, <1>17, <1>18, <1>19, <1>20, <1>21, <1>22, <1>23, <1>24, <1>25, <1>26, <1>27,
     <1>28, <1>29, <1>30, <1>31, <1>32, <1>33, <1>34, <1>35, <1>36, <1>37, <1>38, <1>39, <1>40,
     <1>41, <1>42, <1>43, <1>44, <1>45, <1>46, <1>47, <1>48, <1>49, <1>50, <1>51, <1>52 DEF Next,
     WorkerStep, StartStep, EndStep, OtherStep

\* What a step leaves of a session that it is not about.
SameSession(s) ==
    /\ Core(hash'[s]) = Core(hash[s]) /\ platOf'[s] = platOf[s] /\ gwOf'[s] = gwOf[s]
    /\ s \in attached' <=> s \in attached
    /\ \A u \in Users : s \in userset'[u] <=> s \in userset[u]
    /\ \A p \in Platforms : s \in platlist'[p] <=> s \in platlist[p]
    /\ \A g \in Gateways : s \in gwlist'[g] <=> s \in gwlist[g]
Apart(w) ==
    \A s \in Sessions : s # cur[w] \/ pc[w] \notin NewPCs \cup EndingPCs => SameSession(s)

\* A session that is joined is saved over with the fields it has.
LEMMA JoinKeepsCore ==
    ASSUME TypeOK, SessionInv, LockInv, NEW w \in Workers, Join(w)
    PROVE  \A s \in Sessions : Core(hash'[s]) = Core(hash[s])
<1>1. cur[w] \in Sessions /\ hash \in [Sessions -> SUBSET Fields] /\ Core(mem[w]) = Core(hash[cur[w]])
  BY DEF Join, At, TypeOK, StoreTypeOK, SessionInv, WorkerSound, LockInv, CopyKept, PointedPCs
<1>2. /\ \A s \in Sessions : s # cur[w] => hash'[s] = hash[s]
      /\ Core(hash'[cur[w]]) = Core(hash[cur[w]])
  BY <1>1 DEF Join, Save, Saved, Core, Sticky
<1> QED
  BY <1>2

\* The gateway's fields do not decide anything.
LEMMA GatewayKeepsCore ==
    ASSUME TypeOK, LockRespected, LockInv, NEW o \in Writers, OtherSave(o)
    PROVE  \A s \in Sessions : Core(hash'[s]) = Core(hash[s])
<1>1. o = "gateway" /\ oMem["gateway"] \subseteq {"suspend"} /\ hash \in [Sessions -> SUBSET Fields]
  BY DEF LockInv, GatewayKept, LockRespected, Writers, OtherSave, TypeOK, StoreTypeOK
<1> QED
  BY <1>1 DEF OtherSave, Core

\* A handler changes no session but its own, and that one only while it builds it or
\* takes it down.
LEMMA HandlersApart ==
    ASSUME TypeOK, SessionInv, LockRespected, LockInv, NEW w \in Workers,
           WorkerStep(w) \/ Crash(w) \/ (\E d \in Devices : StartRequest(w, d) \/ AdminKill(w, d))
              \/ \E s \in Sessions : EndRequest(w, s)
    PROVE  Apart(w)
<1> USE StoreAssumption, ControllerAssumption
<1> USE DEF LockRespected, PointedPCs, PartialPCs, NewPCs, EndingPCs, store, keys, refs, ids,
   outside, own, other, bounds
<1>1. /\ hash \in [Sessions -> SUBSET Fields] /\ platOf \in [Sessions -> Platforms \cup {None}]
      /\ gwOf \in [Sessions -> Gateways \cup {None}] /\ userset \in [Users -> SUBSET Sessions]
      /\ platlist \in [Platforms -> SUBSET Sessions] /\ gwlist \in [Gateways -> SUBSET Sessions]
  BY DEF TypeOK, StoreTypeOK
<1>2. ASSUME Lock(w) PROVE Apart(w)
  BY <1>2, <1>1 DEF Lock, LockFree, Goto, At, Apart, SameSession
<1>3. ASSUME LockRefused(w) PROVE Apart(w)
  BY <1>3, <1>1 DEF LockRefused, LockFree, Reset, Goto, At, Apart, SameSession
<1>4. ASSUME Lookup(w) PROVE Apart(w)
  BY <1>4, <1>1 DEF Lookup, SessionOfUserDevice, Joinable, Exists, Goto, At, Apart, SameSession
<1>5. ASSUME Join(w) PROVE Apart(w)
  <2>1. UNCHANGED <<platOf, gwOf, attached, userset, platlist, gwlist>>
    BY <1>5 DEF Join
  <2> QED
    BY <2>1, <1>5, JoinKeepsCore DEF Apart, SameSession
<1>6. ASSUME Limit(w) PROVE Apart(w)
  BY <1>6, <1>1 DEF Limit, Me, Goto, At, Apart, SameSession
<1>7. ASSUME CreateSession(w) PROVE Apart(w)
  BY <1>7, <1>1 DEF CreateSession, Create, Save, Saved, Goto, At, Apart, SameSession
<1>8. ASSUME SetPointer(w) PROVE Apart(w)
  BY <1>8, <1>1 DEF SetPointer, Goto, At, Apart, SameSession
<1>9. ASSUME AddToUser(w) PROVE Apart(w)
  BY <1>9, <1>1 DEF AddToUser, Me, Goto, At, Apart, SameSession
<1>10. ASSUME SuspendNew(w) PROVE Apart(w)
  BY <1>10, <1>1 DEF SuspendNew, Suspend, Save, Saved, Goto, At, Apart, SameSession
<1>11. ASSUME Place(w) PROVE Apart(w)
  BY <1>11, <1>1 DEF Place, OrgRefuses, Note, Goto, At, Apart, SameSession
<1>12. ASSUME Attach(w) PROVE Apart(w)
  BY <1>12, <1>1 DEF Attach, findGateway, Note, Goto, At, Apart, SameSession
<1>13. ASSUME CountOnGateway(w) PROVE Apart(w)
  BY <1>13, <1>1 DEF CountOnGateway, UpdateGWSessionScore, Note, Goto, At, Apart, SameSession
<1>14. ASSUME ListOnPlatform(w) PROVE Apart(w)
  BY <1>14, <1>1 DEF ListOnPlatform, Note, Goto, At, Apart, SameSession
<1>15. ASSUME SaveSession(w) PROVE Apart(w)
  BY <1>15, <1>1 DEF SaveSession, Save, Saved, Goto, At, Apart, SameSession
<1>16. ASSUME RecordDataCenter(w) PROVE Apart(w)
  BY <1>16, <1>1 DEF RecordDataCenter, Me, Goto, At, Apart, SameSession
<1>17. ASSUME Connect(w) PROVE Apart(w)
  BY <1>17, <1>1 DEF Connect, ConnectedRow, Goto, At, Apart, SameSession
<1>18. ASSUME CleanPlatform(w) PROVE Apart(w)
  BY <1>18, <1>1 DEF CleanPlatform, CleanReference, IncreaseReference, Goto, At, Apart,
     SameSession
<1>19. ASSUME CleanUser(w) PROVE Apart(w)
  BY <1>19, <1>1 DEF CleanUser, Goto, At, Apart, SameSession
<1>20. ASSUME CleanGateway(w) PROVE Apart(w)
  BY <1>20, <1>1 DEF CleanGateway, UpdateGWSessionScore, Goto, At, Apart, SameSession
<1>21. ASSUME Discard(w) PROVE Apart(w)
  BY <1>21, <1>1 DEF Discard, Del, UserOfSession, Goto, At, Apart, SameSession
<1>22. ASSUME Unlock(w) PROVE Apart(w)
  BY <1>22, <1>1 DEF Unlock, Goto, Reset, At, Apart, SameSession
<1>23. ASSUME Revive(w) PROVE Apart(w)
  BY <1>23, <1>1 DEF Revive, Reset, Goto, At, Apart, SameSession
<1>24. ASSUME Reload(w) PROVE Apart(w)
  BY <1>24, <1>1 DEF Reload, MayEnd, Note, Goto, At, Apart, SameSession
<1>25. ASSUME MarkDeleted(w) PROVE Apart(w)
  BY <1>25, <1>1 DEF MarkDeleted, Save, Saved, Goto, At, Apart, SameSession
<1>26. ASSUME Detach(w) PROVE Apart(w)
  BY <1>26, <1>1 DEF Detach, Note, Goto, At, Apart, SameSession
<1>27. ASSUME UnrefPlatform(w) PROVE Apart(w)
  BY <1>27, <1>1 DEF UnrefPlatform, Goto, At, Apart, SameSession
<1>28. ASSUME DecreasePlatform(w) PROVE Apart(w)
  BY <1>28, <1>1 DEF DecreasePlatform, IncreaseReference, Goto, At, Apart, SameSession
<1>29. ASSUME UpdateActivation(w) PROVE Apart(w)
  BY <1>29, <1>1 DEF UpdateActivation, Goto, At, Apart, SameSession
<1>30. ASSUME UnrefGateway(w) PROVE Apart(w)
  BY <1>30, <1>1 DEF UnrefGateway, UpdateGWSessionScore, Goto, At, Apart, SameSession
<1>31. ASSUME DeleteSession(w) PROVE Apart(w)
  BY <1>31, <1>1 DEF DeleteSession, Del, UserOfSession, Goto, At, Apart, SameSession
<1>32. ASSUME ReportPlatform(w) PROVE Apart(w)
  BY <1>32, <1>1 DEF ReportPlatform, Goto, At, Apart, SameSession
<1>33. ASSUME Disconnect(w) PROVE Apart(w)
  BY <1>33, <1>1 DEF Disconnect, Note, Goto, At, Apart, SameSession
<1>34. ASSUME LastDevice(w) PROVE Apart(w)
  BY <1>34, <1>1 DEF LastDevice, Goto, At, Apart, SameSession
<1>35. ASSUME ClearDataCenter(w) PROVE Apart(w)
  BY <1>35, <1>1 DEF ClearDataCenter, Me, Goto, At, Apart, SameSession
<1>36. ASSUME ForgetDevice(w) PROVE Apart(w)
  BY <1>36, <1>1 DEF ForgetDevice, Reset, Goto, At, Apart, SameSession
<1>37. ASSUME Crash(w) PROVE Apart(w)
  BY <1>37, <1>1 DEF Crash, Reset, Goto, At, Apart, SameSession
<1>38. ASSUME NEW d \in Devices, StartRequest(w, d) PROVE Apart(w)
  BY <1>38, <1>1 DEF StartRequest, StartSessionFromClient, StartSessionByDevice, Goto, At,
     Apart, SameSession
<1>39. ASSUME NEW d \in Devices, AdminKill(w, d) PROVE Apart(w)
  BY <1>39, <1>1 DEF AdminKill, FindKilled, RemoveLock, LoadKilled, SessionOfUserDevice, Goto, Note, At, Apart, SameSession
<1>40. ASSUME NEW s \in Sessions, EndRequest(w, s) PROVE Apart(w)
  BY <1>40, <1>1 DEF EndRequest, LogoutUser, CloseOtherSessions, Goto, At, Apart, SameSession
<1> QED
  BY <1>2, <1>3, <1>4, <1>5, <1>6, <1>7, <1>8, <1>9, <1>10, <1>11, <1>12, <1>13, <1>14, <1>15,
     <1>16, <1>17, <1>18, <1>19, <1>20, <1>21, <1>22, <1>23, <1>24, <1>25, <1>26, <1>27, <1>28,
     <1>29, <1>30, <1>31, <1>32, <1>33, <1>34, <1>35, <1>36, <1>37, <1>38, <1>39, <1>40 DEF
     WorkerStep, StartStep, EndStep

\* A plugin's session gets neither a platform nor a gateway.
LEMMA PluginPreserved ==
    ASSUME TypeOK, SessionInv, LockRespected, LockInv, CompleteInv, [Next]_vars PROVE PluginApart'
<1> USE StoreAssumption, ControllerAssumption
<1> USE DEF LockRespected, PointedPCs, PartialPCs, NewPCs, EndingPCs, store, keys, refs, ids,
   outside, own, other, bounds
<1>0. /\ pc \in [Workers -> PCs] /\ dev \in [Workers -> Devices \cup {None}]
      /\ cur \in [Workers -> Sessions \cup {None}] /\ usersess \in [Devices -> Sessions \cup {None}]
      /\ hash \in [Sessions -> SUBSET Fields] /\ mem \in [Workers -> SUBSET Fields]
      /\ built \in [Workers -> SUBSET BuildStatus] /\ userset \in [Users -> SUBSET Sessions]
      /\ platlist \in [Platforms -> SUBSET Sessions] /\ gwlist \in [Gateways -> SUBSET Sessions]
      /\ platOf \in [Sessions -> Platforms \cup {None}] /\ gwOf \in [Sessions -> Gateways \cup {None}]
      /\ deviceOf \in [Sessions -> Devices \cup {None}] /\ plugin \in [Workers -> BOOLEAN]
  BY DEF TypeOK, StoreTypeOK, HandlerTypeOK
<1>1. /\ \A h \in Workers : ~At(h, "idle") => dev[h] \in Devices
      /\ \A h \in Workers : cur[h] # None => deviceOf[cur[h]] = dev[h]
      /\ \A h \in Workers : pc[h] \in NewPCs \cup PointedPCs => cur[h] \in Sessions
      /\ \A s \in Sessions : deviceOf[s] = None => hash[s] = {} /\ platOf[s] = None
      /\ \A h \in Workers : At(h, "limit") => built[h] = {}
  BY <1>0 DEF SessionInv, WorkerSound, StoreSound, Exists, At
<1>2. \A h \in Workers : pc[h] \in NewPCs \cup PointedPCs \cup {"lookup", "limit", "reload"} => lock[dev[h]] = h
  BY DEF LockInv, LockKept, LockedPCs, PCs, StartPCs, EndPCs, LastPCs
<1>3. \A h, k \in Workers : /\ pc[h] \in NewPCs \cup PointedPCs /\ pc[k] \in NewPCs \cup PointedPCs
                            /\ h # k
                            => dev[h] # dev[k] /\ cur[h] # cur[k]
  BY <1>0, <1>1, <1>2
<1>4. ~(crashes < MaxCrashes)
  BY DEF LockRespected, TypeOK, SharedTypeOK
<1>5. BuiltKept /\ PluginApart
  BY DEF CompleteInv
<1>6. /\ \A w \in Workers : pc[w] \in {"pointer"} \cup PointedPCs => Core(mem[w]) = Core(hash[cur[w]])
      /\ \A w \in Workers : pc[w] \in NewPCs \cup EndingPCs => (plugin[w] <=> "plugin" \in mem[w])
  BY DEF LockInv, CopyKept
<1>7. \A w \in Workers : At(w, "attach") => platOf[cur[w]] \in Platforms
  BY DEF SessionInv, WorkerSound, At
<1>8. ASSUME NEW w \in Workers, Lock(w) PROVE PluginApart'
  BY <1>8, <1>0, <1>1, <1>3, <1>5, <1>6, <1>7 DEF Lock, LockFree, Goto, BuiltKept, PluginApart,
     Core, Sticky, At
<1>9. ASSUME NEW w \in Workers, LockRefused(w) PROVE PluginApart'
  BY <1>9, <1>0, <1>1, <1>3, <1>5, <1>6, <1>7 DEF LockRefused, LockFree, Reset, Goto, BuiltKept,
     PluginApart, Core, Sticky, At
<1>10. ASSUME NEW w \in Workers, Lookup(w) PROVE PluginApart'
  BY <1>10, <1>0, <1>1, <1>3, <1>5, <1>6, <1>7 DEF Lookup, SessionOfUserDevice, Joinable,
     Exists, Goto, BuiltKept, PluginApart, Core, Sticky, At
<1>11. ASSUME NEW w \in Workers, Join(w) PROVE PluginApart'
  <2>1. \A s \in Sessions : "plugin" \in hash'[s] <=> "plugin" \in hash[s]
    BY <1>11, JoinKeepsCore DEF Core
  <2>2. UNCHANGED <<cur, plugin, platOf, gwOf, attached>> /\ At(w, "join") /\ pc'[w] \in {"started", "unlock"}
        /\ \A x \in Workers \ {w} : pc'[x] = pc[x]
    BY <1>11, <1>0 DEF Join, Goto, At
  <2> QED
    BY <2>1, <2>2, <1>5 DEF PluginApart
<1>12. ASSUME NEW w \in Workers, Limit(w) PROVE PluginApart'
  BY <1>12, <1>0, <1>1, <1>3, <1>5, <1>6, <1>7 DEF Limit, Me, Goto, BuiltKept, PluginApart,
     Core, Sticky, At
<1>13. ASSUME NEW w \in Workers, CreateSession(w) PROVE PluginApart'
  BY <1>13, <1>0, <1>1, <1>3, <1>5, <1>6, <1>7 DEF CreateSession, Create, Save, Saved, Goto,
     BuiltKept, PluginApart, Core, Sticky, At
<1>14. ASSUME NEW w \in Workers, SetPointer(w) PROVE PluginApart'
  BY <1>14, <1>0, <1>1, <1>3, <1>5, <1>6, <1>7 DEF SetPointer, Goto, BuiltKept, PluginApart,
     Core, Sticky, At
<1>15. ASSUME NEW w \in Workers, AddToUser(w) PROVE PluginApart'
  BY <1>15, <1>0, <1>1, <1>3, <1>5, <1>6, <1>7 DEF AddToUser, Me, Goto, BuiltKept, PluginApart,
     Core, Sticky, At
<1>16. ASSUME NEW w \in Workers, SuspendNew(w) PROVE PluginApart'
  BY <1>16, <1>0, <1>1, <1>3, <1>5, <1>6, <1>7 DEF SuspendNew, Suspend, Save, Saved, Goto,
     BuiltKept, PluginApart, Core, Sticky, At
<1>17. ASSUME NEW w \in Workers, Place(w) PROVE PluginApart'
  BY <1>17, <1>0, <1>1, <1>3, <1>5, <1>6, <1>7 DEF Place, OrgRefuses, Note, Goto, BuiltKept,
     PluginApart, Core, Sticky, At
<1>18. ASSUME NEW w \in Workers, Attach(w) PROVE PluginApart'
  BY <1>18, <1>0, <1>1, <1>3, <1>5, <1>6, <1>7 DEF Attach, findGateway, Note, Goto, BuiltKept,
     PluginApart, Core, Sticky, At
<1>19. ASSUME NEW w \in Workers, CountOnGateway(w) PROVE PluginApart'
  BY <1>19, <1>0, <1>1, <1>3, <1>5, <1>6, <1>7 DEF CountOnGateway, UpdateGWSessionScore, Note,
     Goto, BuiltKept, PluginApart, Core, Sticky, At
<1>20. ASSUME NEW w \in Workers, ListOnPlatform(w) PROVE PluginApart'
  BY <1>20, <1>0, <1>1, <1>3, <1>5, <1>6, <1>7 DEF ListOnPlatform, Note, Goto, BuiltKept,
     PluginApart, Core, Sticky, At
<1>21. ASSUME NEW w \in Workers, SaveSession(w) PROVE PluginApart'
  BY <1>21, <1>0, <1>1, <1>3, <1>5, <1>6, <1>7 DEF SaveSession, Save, Saved, Goto, BuiltKept,
     PluginApart, Core, Sticky, At
<1>22. ASSUME NEW w \in Workers, RecordDataCenter(w) PROVE PluginApart'
  BY <1>22, <1>0, <1>1, <1>3, <1>5, <1>6, <1>7 DEF RecordDataCenter, Me, Goto, BuiltKept,
     PluginApart, Core, Sticky, At
<1>23. ASSUME NEW w \in Workers, Connect(w) PROVE PluginApart'
  BY <1>23, <1>0, <1>1, <1>3, <1>5, <1>6, <1>7 DEF Connect, ConnectedRow, Goto, BuiltKept,
     PluginApart, Core, Sticky, At
<1>24. ASSUME NEW w \in Workers, CleanPlatform(w) PROVE PluginApart'
  BY <1>24, <1>0, <1>1, <1>3, <1>5, <1>6, <1>7 DEF CleanPlatform, CleanReference,
     IncreaseReference, Goto, BuiltKept, PluginApart, Core, Sticky, At
<1>25. ASSUME NEW w \in Workers, CleanUser(w) PROVE PluginApart'
  BY <1>25, <1>0, <1>1, <1>3, <1>5, <1>6, <1>7 DEF CleanUser, Goto, BuiltKept, PluginApart,
     Core, Sticky, At
<1>26. ASSUME NEW w \in Workers, CleanGateway(w) PROVE PluginApart'
  BY <1>26, <1>0, <1>1, <1>3, <1>5, <1>6, <1>7 DEF CleanGateway, UpdateGWSessionScore, Goto,
     BuiltKept, PluginApart, Core, Sticky, At
<1>27. ASSUME NEW w \in Workers, Discard(w) PROVE PluginApart'
  BY <1>27, <1>0, <1>1, <1>3, <1>5, <1>6, <1>7 DEF Discard, Del, UserOfSession, Goto, BuiltKept,
     PluginApart, Core, Sticky, At
<1>28. ASSUME NEW w \in Workers, Unlock(w) PROVE PluginApart'
  BY <1>28, <1>0, <1>1, <1>3, <1>5, <1>6, <1>7 DEF Unlock, Goto, Reset, BuiltKept, PluginApart,
     Core, Sticky, At
<1>29. ASSUME NEW w \in Workers, Revive(w) PROVE PluginApart'
  BY <1>29, <1>0, <1>1, <1>3, <1>5, <1>6, <1>7 DEF Revive, Reset, Goto, BuiltKept, PluginApart,
     Core, Sticky, At
<1>30. ASSUME NEW w \in Workers, Reload(w) PROVE PluginApart'
  BY <1>30, <1>0, <1>1, <1>3, <1>5, <1>6, <1>7 DEF Reload, MayEnd, Note, Goto, BuiltKept,
     PluginApart, Core, Sticky, At
<1>31. ASSUME NEW w \in Workers, MarkDeleted(w) PROVE PluginApart'
  BY <1>31, <1>0, <1>1, <1>3, <1>5, <1>6, <1>7 DEF MarkDeleted, Save, Saved, Goto, BuiltKept,
     PluginApart, Core, Sticky, At
<1>32. ASSUME NEW w \in Workers, Detach(w) PROVE PluginApart'
  BY <1>32, <1>0, <1>1, <1>3, <1>5, <1>6, <1>7 DEF Detach, Note, Goto, BuiltKept, PluginApart,
     Core, Sticky, At
<1>33. ASSUME NEW w \in Workers, UnrefPlatform(w) PROVE PluginApart'
  BY <1>33, <1>0, <1>1, <1>3, <1>5, <1>6, <1>7 DEF UnrefPlatform, Goto, BuiltKept, PluginApart,
     Core, Sticky, At
<1>34. ASSUME NEW w \in Workers, DecreasePlatform(w) PROVE PluginApart'
  BY <1>34, <1>0, <1>1, <1>3, <1>5, <1>6, <1>7 DEF DecreasePlatform, IncreaseReference, Goto,
     BuiltKept, PluginApart, Core, Sticky, At
<1>35. ASSUME NEW w \in Workers, UpdateActivation(w) PROVE PluginApart'
  BY <1>35, <1>0, <1>1, <1>3, <1>5, <1>6, <1>7 DEF UpdateActivation, Goto, BuiltKept,
     PluginApart, Core, Sticky, At
<1>36. ASSUME NEW w \in Workers, UnrefGateway(w) PROVE PluginApart'
  BY <1>36, <1>0, <1>1, <1>3, <1>5, <1>6, <1>7 DEF UnrefGateway, UpdateGWSessionScore, Goto,
     BuiltKept, PluginApart, Core, Sticky, At
<1>37. ASSUME NEW w \in Workers, DeleteSession(w) PROVE PluginApart'
  BY <1>37, <1>0, <1>1, <1>3, <1>5, <1>6, <1>7 DEF DeleteSession, Del, UserOfSession, Goto,
     BuiltKept, PluginApart, Core, Sticky, At
<1>38. ASSUME NEW w \in Workers, ReportPlatform(w) PROVE PluginApart'
  BY <1>38, <1>0, <1>1, <1>3, <1>5, <1>6, <1>7 DEF ReportPlatform, Goto, BuiltKept, PluginApart,
     Core, Sticky, At
<1>39. ASSUME NEW w \in Workers, Disconnect(w) PROVE PluginApart'
  BY <1>39, <1>0, <1>1, <1>3, <1>5, <1>6, <1>7 DEF Disconnect, Note, Goto, BuiltKept,
     PluginApart, Core, Sticky, At
<1>40. ASSUME NEW w \in Workers, LastDevice(w) PROVE PluginApart'
  BY <1>40, <1>0, <1>1, <1>3, <1>5, <1>6, <1>7 DEF LastDevice, Goto, BuiltKept, PluginApart,
     Core, Sticky, At
<1>41. ASSUME NEW w \in Workers, ClearDataCenter(w) PROVE PluginApart'
  BY <1>41, <1>0, <1>1, <1>3, <1>5, <1>6, <1>7 DEF ClearDataCenter, Me, Goto, BuiltKept,
     PluginApart, Core, Sticky, At
<1>42. ASSUME NEW w \in Workers, ForgetDevice(w) PROVE PluginApart'
  BY <1>42, <1>0, <1>1, <1>3, <1>5, <1>6, <1>7 DEF ForgetDevice, Reset, Goto, BuiltKept,
     PluginApart, Core, Sticky, At
<1>43. ASSUME NEW w \in Workers, Crash(w) PROVE PluginApart'
  BY <1>43, <1>0, <1>1, <1>3, <1>5, <1>6, <1>7, <1>4 DEF Crash, Reset, Goto, BuiltKept,
     PluginApart, Core, Sticky, At
<1>44. ASSUME NEW w \in Workers, NEW d \in Devices, StartRequest(w, d) PROVE PluginApart'
  BY <1>44, <1>0, <1>1, <1>3, <1>5, <1>6, <1>7 DEF StartRequest, StartSessionFromClient,
     StartSessionByDevice, Goto, BuiltKept, PluginApart, Core, Sticky, At
<1>45. ASSUME NEW w \in Workers, NEW d \in Devices, AdminKill(w, d) PROVE PluginApart'
  BY <1>45, <1>0, <1>1, <1>3, <1>5, <1>6, <1>7 DEF AdminKill, FindKilled, RemoveLock, LoadKilled, SessionOfUserDevice, Goto, Note,
     BuiltKept, PluginApart, Core, Sticky, At
<1>46. ASSUME NEW w \in Workers, NEW s \in Sessions, EndRequest(w, s) PROVE PluginApart'
  BY <1>46, <1>0, <1>1, <1>3, <1>5, <1>6, <1>7 DEF EndRequest, LogoutUser, CloseOtherSessions,
     Goto, BuiltKept, PluginApart, Core, Sticky, At
<1>47. ASSUME NEW o \in Writers, OtherSave(o) PROVE PluginApart'
  <2>1. \A s \in Sessions : "plugin" \in hash'[s] <=> "plugin" \in hash[s]
    BY <1>47, GatewayKeepsCore DEF Core
  <2>2. UNCHANGED <<pc, cur, plugin, platOf, gwOf, attached>>
    BY <1>47 DEF OtherSave
  <2> QED
    BY <2>1, <2>2, <1>5 DEF PluginApart
<1>48. ASSUME NEW o \in Writers, OtherSchedule(o) PROVE PluginApart'
  BY <1>48, <1>0, <1>1, <1>3, <1>5, <1>6, <1>7 DEF OtherSchedule, BuiltKept, PluginApart, Core,
     Sticky, At
<1>49. ASSUME NEW o \in Writers, NEW s \in Sessions, OtherLoad(o, s) PROVE PluginApart'
  BY <1>49, <1>0, <1>1, <1>3, <1>5, <1>6, <1>7 DEF OtherLoad, Copy, BuiltKept, PluginApart,
     Core, Sticky, At
<1>50. ASSUME NEW s \in Sessions, SuspendTimeout(s) PROVE PluginApart'
  BY <1>50, <1>0, <1>1, <1>3, <1>5, <1>6, <1>7 DEF SuspendTimeout, BuiltKept, PluginApart, Core,
     Sticky, At
<1>51. ASSUME NEW d \in Devices, LockExpires(d) PROVE PluginApart'
  BY <1>51, <1>0, <1>1, <1>3, <1>5, <1>6, <1>7 DEF LockExpires, BuiltKept, PluginApart, Core,
     Sticky, At
<1>52. CASE UNCHANGED vars
  <2>1. UNCHANGED <<pc, cur, plugin, platOf, gwOf, hash, attached>>
    BY <1>52 DEF vars
  <2> QED
    BY <2>1, <1>0, <1>1, <1>3, <1>5, <1>6, <1>7 DEF BuiltKept, PluginApart, Core, Sticky, At
<1> QED
  BY <1>1, <1>2, <1>3, <1>4, <1>5, <1>6, <1>7, <1>8, <1>9, <1>10, <1>11, <1>12, <1>13, <1>14,
     <1>15, <1>16, <1>17, <1>18, <1>19, <1>20, <1>21, <1>22, <1>23, <1>24, <1>25, <1>26, <1>27,
     <1>28, <1>29, <1>30, <1>31, <1>32, <1>33, <1>34, <1>35, <1>36, <1>37, <1>38, <1>39, <1>40,
     <1>41, <1>42, <1>43, <1>44, <1>45, <1>46, <1>47, <1>48, <1>49, <1>50, <1>51, <1>52 DEF Next,
     WorkerStep, StartStep, EndStep, OtherStep

\* What a step does to the pointers: nothing for other devices, and a handler
\* that starts or ends a session stays at it, removes it, or leaves it complete.
HandlersElsewhere(w) ==
    /\ \A x \in Workers \ {w} : pc'[x] = pc[x] /\ dev'[x] = dev[x]
    /\ \A d \in Devices : d # dev[w] \/ pc[w] \notin NewPCs \cup EndingPCs => usersess'[d] = usersess[d]
    /\ \A s \in Sessions : deviceOf[s] # None => deviceOf'[s] = deviceOf[s]
    /\ pc[w] \in NewPCs \cup EndingPCs =>
          \/ pc'[w] \in PartialPCs /\ dev'[w] = dev[w]
          \/ usersess'[dev[w]] = None
          \/ \A s \in Sessions : s = cur[w] => usersess'[dev[w]] = s /\ Complete(s)'

\* A session that a step leaves alone stays complete.
LEMMA CompleteTransfers ==
    ASSUME TypeOK, NEW s \in Sessions, SameSession(s), deviceOf[s] \in Devices, deviceOf'[s] = deviceOf[s], Complete(s)
    PROVE  Complete(s)'
<1>1. UserOfSession(s) \in Users /\ UserOfSession(s)' = UserOfSession(s)
  BY StoreAssumption DEF UserOfSession
<1>2. hash[s] \cap {"device", "plugin", "placed"} = hash'[s] \cap {"device", "plugin", "placed"}
  BY DEF SameSession, Core
<1>3. ("plugin" \in hash'[s] <=> "plugin" \in hash[s]) /\ ("placed" \in hash'[s] <=> "placed" \in hash[s])
  BY <1>2
<1> QED
  BY <1>1, <1>3 DEF SameSession, Complete, OnPlatform, OnGateway

\* With the last two, sessions that nobody is at stay complete.
LEMMA CompleteFramed ==
    ASSUME TypeOK, SessionInv, LockInv, CompleteInv, [Next]_vars,
           NEW w \in Workers, Apart(w), HandlersElsewhere(w)
    PROVE  CompleteKept'
<1> USE StoreAssumption
<1>1. SUFFICES ASSUME NEW d \in Devices, NEW s \in Sessions, usersess'[d] = s,
                      \A x \in Workers : dev'[x] = d => pc'[x] \notin PartialPCs
               PROVE  Complete(s)'
  BY SMTT(20), StepSound DEF TypeOK, StoreTypeOK, CompleteKept, Complete, UserOfSession, OnPlatform, OnGateway
<1>2. CompleteKept /\ s # None
  BY StoreAssumption DEF CompleteInv
<1>3. /\ usersess[d] # None => usersess[d] \in Sessions /\ deviceOf[usersess[d]] = d
      /\ pc[w] \in NewPCs \cup EndingPCs => cur[w] \in Sessions /\ deviceOf[cur[w]] = dev[w]
  BY DEF TypeOK, StoreTypeOK, SessionInv, StoreSound, WorkerSound, NewPCs, EndingPCs
<1>4. ASSUME d # dev[w] \/ pc[w] \notin NewPCs \cup EndingPCs PROVE Complete(s)'
  <2>1. s = usersess[d] /\ deviceOf[s] = d
    BY <1>1, <1>2, <1>3, <1>4 DEF HandlersElsewhere
  <2>2. ASSUME NEW x \in Workers, dev[x] = d PROVE pc[x] \notin PartialPCs
    BY <1>1, <1>4, <2>2 DEF HandlersElsewhere, PartialPCs
  <2>3. Complete(s)
    BY <1>2, <2>1, <2>2 DEF CompleteKept
  <2>4. SameSession(s)
    BY <1>3, <1>4, <2>1 DEF Apart
  <2>5. deviceOf'[s] = deviceOf[s]
    BY <2>1 DEF HandlersElsewhere
  <2> QED
    BY <2>1, <2>3, <2>4, <2>5, CompleteTransfers
<1>5. ASSUME d = dev[w], pc[w] \in NewPCs \cup EndingPCs PROVE Complete(s)'
  BY <1>1, <1>2, <1>5, <1>3 DEF HandlersElsewhere
<1> QED
  BY <1>4, <1>5

\* Every step of a handler is of that form; the one that finishes a start
\* (updateUserConnectedDevice) leaves the session complete.
LEMMA HandlersElsewhereHold ==
    ASSUME TypeOK, SessionInv, LockRespected, LockInv, CompleteInv, NEW w \in Workers,
           WorkerStep(w) \/ Crash(w) \/ (\E d \in Devices : StartRequest(w, d) \/ AdminKill(w, d))
              \/ \E s \in Sessions : EndRequest(w, s)
    PROVE  HandlersElsewhere(w)
<1> USE StoreAssumption, ControllerAssumption
<1> USE DEF LockRespected, PointedPCs, PartialPCs, NewPCs, EndingPCs, store, keys, refs, ids,
   outside, own, other, bounds
<1>0. /\ pc \in [Workers -> PCs] /\ dev \in [Workers -> Devices \cup {None}]
      /\ cur \in [Workers -> Sessions \cup {None}] /\ usersess \in [Devices -> Sessions \cup {None}]
      /\ hash \in [Sessions -> SUBSET Fields] /\ mem \in [Workers -> SUBSET Fields]
      /\ built \in [Workers -> SUBSET BuildStatus] /\ userset \in [Users -> SUBSET Sessions]
      /\ platlist \in [Platforms -> SUBSET Sessions] /\ gwlist \in [Gateways -> SUBSET Sessions]
      /\ platOf \in [Sessions -> Platforms \cup {None}] /\ gwOf \in [Sessions -> Gateways \cup {None}]
      /\ deviceOf \in [Sessions -> Devices \cup {None}] /\ plugin \in [Workers -> BOOLEAN]
  BY DEF TypeOK, StoreTypeOK, HandlerTypeOK
<1>1. /\ \A h \in Workers : ~At(h, "idle") => dev[h] \in Devices
      /\ \A h \in Workers : cur[h] # None => deviceOf[cur[h]] = dev[h]
      /\ \A h \in Workers : pc[h] \in NewPCs \cup PointedPCs => cur[h] \in Sessions
      /\ \A s \in Sessions : deviceOf[s] = None => hash[s] = {} /\ platOf[s] = None
      /\ \A h \in Workers : At(h, "limit") => built[h] = {}
  BY <1>0 DEF SessionInv, WorkerSound, StoreSound, Exists, At
<1>2. \A h \in Workers : pc[h] \in NewPCs \cup PointedPCs \cup {"lookup", "limit", "reload"} => lock[dev[h]] = h
  BY DEF LockInv, LockKept, LockedPCs, PCs, StartPCs, EndPCs, LastPCs
<1>3. \A h, k \in Workers : /\ pc[h] \in NewPCs \cup PointedPCs /\ pc[k] \in NewPCs \cup PointedPCs
                            /\ h # k
                            => dev[h] # dev[k] /\ cur[h] # cur[k]
  BY <1>0, <1>1, <1>2
<1>4. ~(crashes < MaxCrashes)
  BY DEF LockRespected, TypeOK, SharedTypeOK
<1>5. BuiltKept
  BY DEF CompleteInv
<1>6. /\ \A x \in Workers : pc[x] \in {"pointer"} \cup PointedPCs => Core(mem[x]) = Core(hash[cur[x]])
      /\ \A x \in Workers : pc[x] \in NewPCs \cup EndingPCs => (plugin[x] <=> "plugin" \in mem[x])
      /\ \A x \in Workers : pc[x] \in PointedPCs => usersess[dev[x]] = cur[x]
  BY DEF LockInv, CopyKept, PointerKept
<1>7. \A x \in Workers : At(x, "create") => usersess[dev[x]] = None
  BY DEF LockInv, PointerKept, At
<1>8. ASSUME Lock(w) PROVE HandlersElsewhere(w)
  BY <1>8, <1>0, <1>1 DEF Lock, LockFree, Goto, At, HandlersElsewhere
<1>9. ASSUME LockRefused(w) PROVE HandlersElsewhere(w)
  BY <1>9, <1>0, <1>1 DEF LockRefused, LockFree, Reset, Goto, At, HandlersElsewhere
<1>10. ASSUME Lookup(w) PROVE HandlersElsewhere(w)
  BY <1>10, <1>0, <1>1 DEF Lookup, SessionOfUserDevice, Joinable, Exists, Goto, At,
     HandlersElsewhere
<1>11. ASSUME Join(w) PROVE HandlersElsewhere(w)
  BY <1>11, <1>0, <1>1 DEF Join, Save, Saved, Goto, At, HandlersElsewhere
<1>12. ASSUME Limit(w) PROVE HandlersElsewhere(w)
  BY <1>12, <1>0, <1>1 DEF Limit, Me, Goto, At, HandlersElsewhere
<1>13. ASSUME CreateSession(w) PROVE HandlersElsewhere(w)
  BY <1>13, <1>0, <1>1, <1>7 DEF CreateSession, Goto, At, HandlersElsewhere, ids, own
<1>14. ASSUME SetPointer(w) PROVE HandlersElsewhere(w)
  BY <1>14, <1>0, <1>1 DEF SetPointer, Goto, At, HandlersElsewhere
<1>15. ASSUME AddToUser(w) PROVE HandlersElsewhere(w)
  BY <1>15, <1>0, <1>1 DEF AddToUser, Me, Goto, At, HandlersElsewhere
<1>16. ASSUME SuspendNew(w) PROVE HandlersElsewhere(w)
  BY <1>16, <1>0, <1>1 DEF SuspendNew, Suspend, Save, Saved, Goto, At, HandlersElsewhere
<1>17. ASSUME Place(w) PROVE HandlersElsewhere(w)
  BY <1>17, <1>0, <1>1 DEF Place, OrgRefuses, Note, Goto, At, HandlersElsewhere
<1>18. ASSUME Attach(w) PROVE HandlersElsewhere(w)
  BY <1>18, <1>0, <1>1 DEF Attach, findGateway, Note, Goto, At, HandlersElsewhere
<1>19. ASSUME CountOnGateway(w) PROVE HandlersElsewhere(w)
  BY <1>19, <1>0, <1>1 DEF CountOnGateway, UpdateGWSessionScore, Note, Goto, At,
     HandlersElsewhere
<1>20. ASSUME ListOnPlatform(w) PROVE HandlersElsewhere(w)
  BY <1>20, <1>0, <1>1 DEF ListOnPlatform, Note, Goto, At, HandlersElsewhere
<1>21. ASSUME SaveSession(w) PROVE HandlersElsewhere(w)
  BY <1>21, <1>0, <1>1 DEF SaveSession, Save, Saved, Goto, At, HandlersElsewhere
<1>22. ASSUME RecordDataCenter(w) PROVE HandlersElsewhere(w)
  BY <1>22, <1>0, <1>1 DEF RecordDataCenter, Me, Goto, At, HandlersElsewhere
<1>23. ASSUME Connect(w) PROVE HandlersElsewhere(w)
  <2>1. At(w, "connect") /\ UNCHANGED <<hash, userset, attached, platOf, gwOf, platlist, gwlist, usersess, deviceOf, dev>>
    BY <1>23 DEF Connect, At
  <2>2. \A x \in Workers \ {w} : pc'[x] = pc[x]
    BY <1>23, <1>0 DEF Connect, Goto, At
  <2>3. cur[w] \in Sessions /\ usersess[dev[w]] = cur[w] /\ UserOfSession(cur[w]) = Me(w) /\ cur[w] \in userset[Me(w)]
    BY <2>1, <1>1, <1>5, <1>6 DEF BuiltKept, At, UserOfSession, Me
  <2>4. "placed" \in mem[w] /\ (plugin[w] <=> "plugin" \in mem[w]) /\ Core(mem[w]) = Core(hash[cur[w]])
    BY <2>1, <1>5, <1>6 DEF BuiltKept, At
  <2>5. "placed" \in hash[cur[w]] /\ (plugin[w] <=> "plugin" \in hash[cur[w]])
    BY <2>4 DEF Core
  <2>6. Complete(cur[w])
    BY <2>1, <2>3, <2>5, <1>5 DEF Complete, BuiltKept, At
  <2>7. \A s \in Sessions : s = cur[w] => usersess'[dev[w]] = s /\ Complete(s)'
    BY <2>1, <2>3, <2>6 DEF Complete, UserOfSession, OnPlatform, OnGateway
  <2> QED
    BY <2>1, <2>2, <2>3, <2>7 DEF HandlersElsewhere
<1>24. ASSUME CleanPlatform(w) PROVE HandlersElsewhere(w)
  BY <1>24, <1>0, <1>1 DEF CleanPlatform, CleanReference, IncreaseReference, Goto, At,
     HandlersElsewhere
<1>25. ASSUME CleanUser(w) PROVE HandlersElsewhere(w)
  BY <1>25, <1>0, <1>1 DEF CleanUser, Goto, At, HandlersElsewhere
<1>26. ASSUME CleanGateway(w) PROVE HandlersElsewhere(w)
  BY <1>26, <1>0, <1>1 DEF CleanGateway, UpdateGWSessionScore, Goto, At, HandlersElsewhere
<1>27. ASSUME Discard(w) PROVE HandlersElsewhere(w)
  BY <1>27, <1>0, <1>1 DEF Discard, Del, UserOfSession, Goto, At, HandlersElsewhere
<1>28. ASSUME Unlock(w) PROVE HandlersElsewhere(w)
  BY <1>28, <1>0, <1>1 DEF Unlock, Goto, Reset, At, HandlersElsewhere
<1>29. ASSUME Revive(w) PROVE HandlersElsewhere(w)
  BY <1>29, <1>0, <1>1 DEF Revive, Reset, Goto, At, HandlersElsewhere
<1>30. ASSUME Reload(w) PROVE HandlersElsewhere(w)
  BY <1>30, <1>0, <1>1 DEF Reload, MayEnd, Note, Goto, At, HandlersElsewhere
<1>31. ASSUME MarkDeleted(w) PROVE HandlersElsewhere(w)
  BY <1>31, <1>0, <1>1 DEF MarkDeleted, Save, Saved, Goto, At, HandlersElsewhere
<1>32. ASSUME Detach(w) PROVE HandlersElsewhere(w)
  BY <1>32, <1>0, <1>1 DEF Detach, Note, Goto, At, HandlersElsewhere
<1>33. ASSUME UnrefPlatform(w) PROVE HandlersElsewhere(w)
  BY <1>33, <1>0, <1>1 DEF UnrefPlatform, Goto, At, HandlersElsewhere
<1>34. ASSUME DecreasePlatform(w) PROVE HandlersElsewhere(w)
  BY <1>34, <1>0, <1>1 DEF DecreasePlatform, IncreaseReference, Goto, At, HandlersElsewhere
<1>35. ASSUME UpdateActivation(w) PROVE HandlersElsewhere(w)
  BY <1>35, <1>0, <1>1 DEF UpdateActivation, Goto, At, HandlersElsewhere
<1>36. ASSUME UnrefGateway(w) PROVE HandlersElsewhere(w)
  BY <1>36, <1>0, <1>1 DEF UnrefGateway, UpdateGWSessionScore, Goto, At, HandlersElsewhere
<1>37. ASSUME DeleteSession(w) PROVE HandlersElsewhere(w)
  BY <1>37, <1>0, <1>1 DEF DeleteSession, Del, UserOfSession, Goto, At, HandlersElsewhere
<1>38. ASSUME ReportPlatform(w) PROVE HandlersElsewhere(w)
  BY <1>38, <1>0, <1>1 DEF ReportPlatform, Goto, At, HandlersElsewhere
<1>39. ASSUME Disconnect(w) PROVE HandlersElsewhere(w)
  BY <1>39, <1>0, <1>1 DEF Disconnect, Note, Goto, At, HandlersElsewhere
<1>40. ASSUME LastDevice(w) PROVE HandlersElsewhere(w)
  BY <1>40, <1>0, <1>1 DEF LastDevice, Goto, At, HandlersElsewhere
<1>41. ASSUME ClearDataCenter(w) PROVE HandlersElsewhere(w)
  BY <1>41, <1>0, <1>1 DEF ClearDataCenter, Me, Goto, At, HandlersElsewhere
<1>42. ASSUME ForgetDevice(w) PROVE HandlersElsewhere(w)
  BY <1>42, <1>0, <1>1 DEF ForgetDevice, Reset, Goto, At, HandlersElsewhere
<1>43. ASSUME Crash(w) PROVE HandlersElsewhere(w)
  BY <1>43, <1>4 DEF Crash
<1>44. ASSUME NEW d \in Devices, StartRequest(w, d) PROVE HandlersElsewhere(w)
  BY <1>44, <1>0, <1>1 DEF StartRequest, StartSessionFromClient, StartSessionByDevice, Goto, At,
     HandlersElsewhere
<1>45. ASSUME NEW d \in Devices, AdminKill(w, d) PROVE HandlersElsewhere(w)
  BY <1>45, <1>0, <1>1 DEF AdminKill, FindKilled, RemoveLock, LoadKilled, SessionOfUserDevice, Goto, Note, At, HandlersElsewhere
<1>46. ASSUME NEW s \in Sessions, EndRequest(w, s) PROVE HandlersElsewhere(w)
  BY <1>46, <1>0, <1>1 DEF EndRequest, LogoutUser, CloseOtherSessions, Goto, At,
     HandlersElsewhere
<1> QED
  BY <1>8, <1>9, <1>10, <1>11, <1>12, <1>13, <1>14, <1>15, <1>16, <1>17, <1>18, <1>19, <1>20,
     <1>21, <1>22, <1>23, <1>24, <1>25, <1>26, <1>27, <1>28, <1>29, <1>30, <1>31, <1>32, <1>33,
     <1>34, <1>35, <1>36, <1>37, <1>38, <1>39, <1>40, <1>41, <1>42, <1>43, <1>44, <1>45, <1>46 DEF
     WorkerStep, StartStep, EndStep

\* A session that nobody is starting or ending can be handed out, after any step.
LEMMA CompletePreserved ==
    ASSUME TypeOK, SessionInv, LockRespected, LockInv, CompleteInv, [Next]_vars PROVE CompleteKept'
<1> USE StoreAssumption, ControllerAssumption
<1>0. CompleteKept /\ \A d \in Devices : usersess[d] # None => usersess[d] \in Sessions /\ deviceOf[usersess[d]] = d
  BY DEF CompleteInv, TypeOK, StoreTypeOK, SessionInv, StoreSound
<1>1. ASSUME NEW w \in Workers,
             WorkerStep(w) \/ Crash(w) \/ (\E d \in Devices : StartRequest(w, d) \/ AdminKill(w, d))
                \/ \E s \in Sessions : EndRequest(w, s)
      PROVE CompleteKept'
  BY <1>1, HandlersApart, HandlersElsewhereHold, CompleteFramed
<1>2. ASSUME UNCHANGED <<usersess, pc, dev, deviceOf>>, \A s \in Sessions : SameSession(s) PROVE CompleteKept'
  <2>1. SUFFICES ASSUME NEW d \in Devices, NEW s \in Sessions, usersess'[d] = s,
                        \A x \in Workers : dev'[x] = d => pc'[x] \notin PartialPCs
                 PROVE  Complete(s)'
    BY StepSound DEF TypeOK, StoreTypeOK, CompleteKept, Complete, UserOfSession, OnPlatform,
       OnGateway
  <2>2. usersess[d] = s /\ deviceOf[s] = d /\ Complete(s)
    BY <1>0, <1>2, <2>1 DEF CompleteKept
  <2> QED
    BY <1>2, <2>2, CompleteTransfers
<1>3. ASSUME NEW o \in Writers, OtherSave(o) PROVE CompleteKept'
  <2>1. \A s \in Sessions : SameSession(s)
    BY <1>3, GatewayKeepsCore DEF SameSession, OtherSave, store, keys, refs, ids, outside
  <2> QED
    BY <1>2, <1>3, <2>1 DEF OtherSave, refs, ids, own
<1>4. ASSUME NEW o \in Writers, OtherSchedule(o) \/ \E s \in Sessions : OtherLoad(o, s) PROVE CompleteKept'
  BY <1>2, <1>4 DEF OtherSchedule, OtherLoad, store, keys, refs, ids, own, outside, SameSession
<1>5. ASSUME NEW s \in Sessions, SuspendTimeout(s) PROVE CompleteKept'
  BY <1>2, <1>5 DEF SuspendTimeout, store, keys, refs, ids, own, outside, SameSession
<1>6. ASSUME NEW d \in Devices, LockExpires(d) PROVE CompleteKept'
  BY <1>2, <1>6 DEF LockExpires, store, keys, refs, ids, own, outside, SameSession
<1>7. CASE UNCHANGED vars
  BY <1>2, <1>7 DEF vars, store, keys, refs, ids, own, outside, SameSession
<1> QED
  BY <1>1, <1>3, <1>4, <1>5, <1>6, <1>7 DEF Next, OtherStep

----------------------------------------------------------------------------
(* The scores of the platforms.                                            *)

\* How a step changes what the scores of the platforms count.
ScoreStays == platScore' = platScore /\ \A p \in Platforms : Counted(p)' = Counted(p)
ScoreUp(q, s) ==
    /\ platScore' = [platScore EXCEPT ![q] = @ + 1]
    /\ s \notin Counted(q) /\ Counted(q)' = Counted(q) \cup {s}
    /\ \A p \in Platforms \ {q} : Counted(p)' = Counted(p)
ScoreDown(q, s) ==
    /\ platScore' = [platScore EXCEPT ![q] = @ - 1]
    /\ s \in Counted(q) /\ Counted(q)' = Counted(q) \ {s}
    /\ \A p \in Platforms \ {q} : Counted(p)' = Counted(p)
ScoreMoves ==
    ScoreStays \/ \E q \in Platforms, s \in Sessions : ScoreUp(q, s) \/ ScoreDown(q, s)

\* The score of a platform follows the number of its sessions.
LEMMA ScoreFollows ==
    ASSUME TypeOK, ScoreKept, ScoreMoves PROVE ScoreKept'
<1>1. \A p \in Platforms : IsFiniteSet(Counted(p)) /\ platScore[p] = Cardinality(Counted(p)) /\ platScore[p] \in Int
  <2>1. ASSUME NEW p \in Platforms PROVE IsFiniteSet(Counted(p))
    <3>1. Counted(p) \in SUBSET Sessions
      BY DEF Counted
    <3> QED
      BY <3>1, FiniteSessions, FS_Subset
  <2> QED
    BY <2>1 DEF ScoreKept, TypeOK, StoreTypeOK
<1>2. CASE ScoreStays
  BY <1>1, <1>2 DEF ScoreStays, ScoreKept
<1>3. ASSUME NEW q \in Platforms, NEW s \in Sessions, ScoreUp(q, s) PROVE ScoreKept'
  <2>1. Cardinality(Counted(q) \cup {s}) = Cardinality(Counted(q)) + 1
    BY <1>1, <1>3, FS_AddElement DEF ScoreUp
  <2>2. platScore \in [Platforms -> Int]
    BY DEF TypeOK, StoreTypeOK
  <2> QED
    BY <1>1, <1>3, <2>1, <2>2 DEF ScoreUp, ScoreKept
<1>4. ASSUME NEW q \in Platforms, NEW s \in Sessions, ScoreDown(q, s) PROVE ScoreKept'
  <2>1. Cardinality(Counted(q) \ {s}) = Cardinality(Counted(q)) - 1
    BY <1>1, <1>4, FS_RemoveElement DEF ScoreDown
  <2>2. platScore \in [Platforms -> Int]
    BY DEF TypeOK, StoreTypeOK
  <2> QED
    BY <1>1, <1>4, <2>1, <2>2 DEF ScoreDown, ScoreKept
<1> QED
  BY <1>2, <1>3, <1>4 DEF ScoreMoves

\* Every step adds a session to a score when it gives it the platform (registerPlatform),
\* takes it off when it undoes that (increaseReference(-1)), or leaves all scores alone.
LEMMA ScoreStepMoves ==
    ASSUME TypeOK, SessionInv, LockRespected, LockInv, CompleteInv, [Next]_vars PROVE ScoreMoves
<1> USE StoreAssumption, ControllerAssumption
<1> USE DEF LockRespected, PointedPCs, PartialPCs, NewPCs, EndingPCs, store, keys, refs, ids,
   outside, own, other, bounds
<1>0. /\ pc \in [Workers -> PCs] /\ dev \in [Workers -> Devices \cup {None}]
      /\ cur \in [Workers -> Sessions \cup {None}] /\ usersess \in [Devices -> Sessions \cup {None}]
      /\ hash \in [Sessions -> SUBSET Fields] /\ mem \in [Workers -> SUBSET Fields]
      /\ built \in [Workers -> SUBSET BuildStatus] /\ userset \in [Users -> SUBSET Sessions]
      /\ platlist \in [Platforms -> SUBSET Sessions] /\ gwlist \in [Gateways -> SUBSET Sessions]
      /\ platOf \in [Sessions -> Platforms \cup {None}] /\ gwOf \in [Sessions -> Gateways \cup {None}]
      /\ deviceOf \in [Sessions -> Devices \cup {None}] /\ plugin \in [Workers -> BOOLEAN]
  BY DEF TypeOK, StoreTypeOK, HandlerTypeOK
<1>1. /\ \A h \in Workers : ~At(h, "idle") => dev[h] \in Devices
      /\ \A h \in Workers : cur[h] # None => deviceOf[cur[h]] = dev[h]
      /\ \A h \in Workers : pc[h] \in NewPCs \cup PointedPCs => cur[h] \in Sessions
      /\ \A s \in Sessions : deviceOf[s] = None => hash[s] = {} /\ platOf[s] = None
      /\ \A h \in Workers : At(h, "limit") => built[h] = {}
  BY <1>0 DEF SessionInv, WorkerSound, StoreSound, Exists, At
<1>2. \A h \in Workers : pc[h] \in NewPCs \cup PointedPCs \cup {"lookup", "limit", "reload"} => lock[dev[h]] = h
  BY DEF LockInv, LockKept, LockedPCs, PCs, StartPCs, EndPCs, LastPCs
<1>3. \A h, k \in Workers : /\ pc[h] \in NewPCs \cup PointedPCs /\ pc[k] \in NewPCs \cup PointedPCs
                            /\ h # k
                            => dev[h] # dev[k] /\ cur[h] # cur[k]
  BY <1>0, <1>1, <1>2
<1>4. ~(crashes < MaxCrashes)
  BY DEF LockRespected, TypeOK, SharedTypeOK
<1>5. /\ \A w \in Workers : pc[w] \in {"pointer"} \cup PointedPCs => Core(mem[w]) = Core(hash[cur[w]])
      /\ \A w \in Workers : pc[w] \in NewPCs \cup EndingPCs => (plugin[w] <=> "plugin" \in mem[w])
      /\ \A w \in Workers : pc[w] \in NewPCs \cup PointedPCs => "device" \in mem[w]
  BY DEF LockInv, CopyKept
<1>6. /\ \A w \in Workers : pc[w] \in {"create", "pointer", "userset", "suspend", "place"} => platOf[cur[w]] = None
      /\ \A w \in Workers : pc[w] \in NewPCs => ("platref" \in built[w] <=> platOf[cur[w]] # None)
      /\ \A s \in Sessions : "plugin" \in hash[s] => platOf[s] = None
  BY DEF CompleteInv, BuiltKept, PluginApart
<1>7. \A w \in Workers : pc[w] \in PointedPCs => "device" \in hash[cur[w]] /\ (plugin[w] /\ pc[w] \in EndingPCs => platOf[cur[w]] = None)
  BY <1>0, <1>1, <1>5, <1>6 DEF Core
<1>8. \A w \in Workers : At(w, "platdec") => platOf[cur[w]] \in Platforms
  BY DEF SessionInv, WorkerSound, At
<1>9. ASSUME NEW w \in Workers, Lock(w) PROVE ScoreMoves
  <2>1. ScoreStays
    BY <1>9, <1>0, <1>1, <1>3, <1>5, <1>7 DEF Lock, LockFree, Goto, At, ScoreStays, Counted,
       OffPCs, Sticky
  <2> QED
    BY <2>1 DEF ScoreMoves
<1>10. ASSUME NEW w \in Workers, LockRefused(w) PROVE ScoreMoves
  <2>1. ScoreStays
    BY SMTT(20), <1>10, <1>0, <1>1, <1>3, <1>5, <1>7 DEF LockRefused, LockFree, Reset, Goto, At,
       ScoreStays, Counted, OffPCs, Sticky
  <2> QED
    BY <2>1 DEF ScoreMoves
<1>11. ASSUME NEW w \in Workers, Lookup(w) PROVE ScoreMoves
  <2>1. ScoreStays
    BY <1>11, <1>0, <1>1, <1>3, <1>5, <1>7 DEF Lookup, SessionOfUserDevice, Joinable, Exists,
       Goto, At, ScoreStays, Counted, OffPCs, Sticky
  <2> QED
    BY <2>1 DEF ScoreMoves
<1>12. ASSUME NEW w \in Workers, Join(w) PROVE ScoreMoves
  <2>1. \A s \in Sessions : "device" \in hash'[s] <=> "device" \in hash[s]
    BY <1>12, JoinKeepsCore DEF Core
  <2>2. UNCHANGED <<cur, platOf, platScore>> /\ At(w, "join") /\ pc'[w] \in {"started", "unlock"}
        /\ \A x \in Workers \ {w} : pc'[x] = pc[x]
    BY <1>12, <1>0 DEF Join, Goto, At
  <2>3. ScoreStays
    BY <2>1, <2>2 DEF ScoreStays, Counted, OffPCs, At
  <2> QED
    BY <2>3 DEF ScoreMoves
<1>13. ASSUME NEW w \in Workers, Limit(w) PROVE ScoreMoves
  <2>1. ScoreStays
    BY <1>13, <1>0, <1>1, <1>3, <1>5, <1>7 DEF Limit, Me, Goto, At, ScoreStays, Counted, OffPCs,
       Sticky
  <2> QED
    BY <2>1 DEF ScoreMoves
<1>14. ASSUME NEW w \in Workers, CreateSession(w) PROVE ScoreMoves
  <2>1. ScoreStays
    BY <1>14, <1>0, <1>1, <1>3, <1>5, <1>6, <1>7 DEF CreateSession, Create, Save, Saved, Goto,
       At, ScoreStays, Counted, OffPCs, Sticky
  <2> QED
    BY <2>1 DEF ScoreMoves
<1>15. ASSUME NEW w \in Workers, SetPointer(w) PROVE ScoreMoves
  <2>1. ScoreStays
    BY <1>15, <1>0, <1>1, <1>3, <1>5, <1>7 DEF SetPointer, Goto, At, ScoreStays, Counted,
       OffPCs, Sticky
  <2> QED
    BY <2>1 DEF ScoreMoves
<1>16. ASSUME NEW w \in Workers, AddToUser(w) PROVE ScoreMoves
  <2>1. ScoreStays
    BY <1>16, <1>0, <1>1, <1>3, <1>5, <1>7 DEF AddToUser, Me, Goto, At, ScoreStays, Counted,
       OffPCs, Sticky
  <2> QED
    BY <2>1 DEF ScoreMoves
<1>17. ASSUME NEW w \in Workers, SuspendNew(w) PROVE ScoreMoves
  <2>1. ScoreStays
    BY <1>17, <1>0, <1>1, <1>3, <1>5, <1>7 DEF SuspendNew, Suspend, Save, Saved, Goto, At,
       ScoreStays, Counted, OffPCs, Sticky
  <2> QED
    BY <2>1 DEF ScoreMoves
<1>18. ASSUME NEW w \in Workers, Place(w) PROVE ScoreMoves
  <2>1. At(w, "place") /\ cur[w] \in Sessions /\ platOf[cur[w]] = None /\ "device" \in hash[cur[w]]
    BY <1>18, <1>1, <1>6, <1>7 DEF Place, At
  <2>2. UNCHANGED <<hash, cur>> /\ pc'[w] \notin OffPCs /\ \A x \in Workers \ {w} : pc'[x] = pc[x]
    BY <1>18, <1>0 DEF Place, Goto, At, OffPCs
  <2>3. CASE UNCHANGED <<platScore, platOf>>
    <3>1. ScoreStays
      BY <2>1, <2>2, <2>3 DEF ScoreStays, Counted, At, OffPCs
    <3> QED
      BY <3>1 DEF ScoreMoves
  <2>4. ASSUME NEW p \in Platforms, platOf' = [platOf EXCEPT ![cur[w]] = p], platScore' = [platScore EXCEPT ![p] = @ + 1]
        PROVE ScoreMoves
    <3>1. \A x \in Workers : pc'[x] \in OffPCs => cur'[x] # cur[w]
      BY <2>1, <2>2, <1>3 DEF At, OffPCs
    <3>2. \A s \in Sessions \ {cur[w]} : platOf'[s] = platOf[s]
      BY <2>4, <1>0
    <3>3. platOf'[cur[w]] = p
      BY <2>1, <2>4, <1>0
    <3>4. \A q \in Platforms : cur[w] \notin Counted(q)
      BY <2>1 DEF Counted
    <3>5. Counted(p)' = Counted(p) \cup {cur[w]}
      BY <2>1, <2>2, <3>1, <3>2, <3>3 DEF Counted, OffPCs, At
    <3>6. \A q \in Platforms \ {p} : Counted(q)' = Counted(q)
      BY <2>1, <2>2, <3>1, <3>2, <3>3 DEF Counted, OffPCs, At
    <3>7. ScoreUp(p, cur[w])
      BY <2>4, <3>4, <3>5, <3>6 DEF ScoreUp
    <3> QED
      BY <2>1, <3>7 DEF ScoreMoves
  <2> QED
    BY <1>18, <2>3, <2>4 DEF Place
<1>19. ASSUME NEW w \in Workers, Attach(w) PROVE ScoreMoves
  <2>1. ScoreStays
    BY <1>19, <1>0, <1>1, <1>3, <1>5, <1>7 DEF Attach, findGateway, Note, Goto, At, ScoreStays,
       Counted, OffPCs, Sticky
  <2> QED
    BY <2>1 DEF ScoreMoves
<1>20. ASSUME NEW w \in Workers, CountOnGateway(w) PROVE ScoreMoves
  <2>1. ScoreStays
    BY <1>20, <1>0, <1>1, <1>3, <1>5, <1>7 DEF CountOnGateway, UpdateGWSessionScore, Note, Goto,
       At, ScoreStays, Counted, OffPCs, Sticky
  <2> QED
    BY <2>1 DEF ScoreMoves
<1>21. ASSUME NEW w \in Workers, ListOnPlatform(w) PROVE ScoreMoves
  <2>1. ScoreStays
    BY <1>21, <1>0, <1>1, <1>3, <1>5, <1>7 DEF ListOnPlatform, Note, Goto, At, ScoreStays,
       Counted, OffPCs, Sticky
  <2> QED
    BY <2>1 DEF ScoreMoves
<1>22. ASSUME NEW w \in Workers, SaveSession(w) PROVE ScoreMoves
  <2>1. ScoreStays
    BY <1>22, <1>0, <1>1, <1>3, <1>5, <1>7 DEF SaveSession, Save, Saved, Goto, At, ScoreStays,
       Counted, OffPCs, Sticky
  <2> QED
    BY <2>1 DEF ScoreMoves
<1>23. ASSUME NEW w \in Workers, RecordDataCenter(w) PROVE ScoreMoves
  <2>1. ScoreStays
    BY <1>23, <1>0, <1>1, <1>3, <1>5, <1>7 DEF RecordDataCenter, Me, Goto, At, ScoreStays,
       Counted, OffPCs, Sticky
  <2> QED
    BY <2>1 DEF ScoreMoves
<1>24. ASSUME NEW w \in Workers, Connect(w) PROVE ScoreMoves
  <2>1. ScoreStays
    BY <1>24, <1>0, <1>1, <1>3, <1>5, <1>7 DEF Connect, ConnectedRow, Goto, At, ScoreStays,
       Counted, OffPCs, Sticky
  <2> QED
    BY <2>1 DEF ScoreMoves
<1>25. ASSUME NEW w \in Workers, CleanPlatform(w) PROVE ScoreMoves
  <2>1. At(w, "clean_plat") /\ cur[w] \in Sessions /\ "device" \in hash[cur[w]]
    BY <1>25, <1>1, <1>7 DEF CleanPlatform, At
  <2>2. UNCHANGED <<hash, cur, platOf>> /\ pc'[w] \in OffPCs /\ \A x \in Workers \ {w} : pc'[x] = pc[x]
    BY <1>25, <1>0 DEF CleanPlatform, Goto, At, OffPCs
  <2>3. CASE platOf[cur[w]] = None
    <3>1. ScoreStays
      BY <2>1, <2>2, <2>3, <1>25, <1>6 DEF CleanPlatform, CleanReference, ScoreStays, Counted,
         At, OffPCs
    <3> QED
      BY <3>1 DEF ScoreMoves
  <2>4. CASE platOf[cur[w]] # None
    <3> DEFINE q == platOf[cur[w]]
    <3>1. q \in Platforms /\ platScore' = [platScore EXCEPT ![q] = @ - 1]
      BY <2>1, <2>4, <1>25, <1>0, <1>6 DEF CleanPlatform, CleanReference, IncreaseReference, At
    <3>2. cur[w] \in Counted(q)
      BY <2>1, <1>3 DEF Counted, OffPCs, At
    <3>3. Counted(q)' = Counted(q) \ {cur[w]}
      BY <2>1, <2>2 DEF Counted, OffPCs, At
    <3>4. \A p \in Platforms \ {q} : Counted(p)' = Counted(p)
      BY <2>1, <2>2 DEF Counted, OffPCs, At
    <3>5. ScoreDown(q, cur[w])
      BY <3>1, <3>2, <3>3, <3>4 DEF ScoreDown
    <3> QED
      BY <2>1, <3>1, <3>5 DEF ScoreMoves
  <2> QED
    BY <2>3, <2>4
<1>26. ASSUME NEW w \in Workers, CleanUser(w) PROVE ScoreMoves
  <2>1. ScoreStays
    BY <1>26, <1>0, <1>1, <1>3, <1>5, <1>7 DEF CleanUser, Goto, At, ScoreStays, Counted, OffPCs,
       Sticky
  <2> QED
    BY <2>1 DEF ScoreMoves
<1>27. ASSUME NEW w \in Workers, CleanGateway(w) PROVE ScoreMoves
  <2>1. ScoreStays
    BY <1>27, <1>0, <1>1, <1>3, <1>5, <1>7 DEF CleanGateway, UpdateGWSessionScore, Goto, At,
       ScoreStays, Counted, OffPCs, Sticky
  <2> QED
    BY <2>1 DEF ScoreMoves
<1>28. ASSUME NEW w \in Workers, Discard(w) PROVE ScoreMoves
  <2>1. ScoreStays
    BY <1>28, <1>0, <1>1, <1>3, <1>5, <1>7 DEF Discard, Del, UserOfSession, Goto, At,
       ScoreStays, Counted, OffPCs, Sticky
  <2> QED
    BY <2>1 DEF ScoreMoves
<1>29. ASSUME NEW w \in Workers, Unlock(w) PROVE ScoreMoves
  <2>1. /\ UNCHANGED <<hash, platOf, platScore>> /\ pc[w] \notin OffPCs /\ pc'[w] \notin OffPCs
        /\ \A x \in Workers \ {w} : pc'[x] = pc[x] /\ cur'[x] = cur[x]
    BY <1>29, <1>0 DEF Unlock, Goto, Reset, At, OffPCs
  <2>2. ScoreStays
    BY <2>1 DEF ScoreStays, Counted
  <2> QED
    BY <2>2 DEF ScoreMoves
<1>30. ASSUME NEW w \in Workers, Revive(w) PROVE ScoreMoves
  <2>1. ScoreStays
    BY <1>30, <1>0, <1>1, <1>3, <1>5, <1>7 DEF Revive, Reset, Goto, At, ScoreStays, Counted,
       OffPCs, Sticky
  <2> QED
    BY <2>1 DEF ScoreMoves
<1>31. ASSUME NEW w \in Workers, Reload(w) PROVE ScoreMoves
  <2>1. ScoreStays
    BY <1>31, <1>0, <1>1, <1>3, <1>5, <1>7 DEF Reload, MayEnd, Note, Goto, At, ScoreStays,
       Counted, OffPCs, Sticky
  <2> QED
    BY <2>1 DEF ScoreMoves
<1>32. ASSUME NEW w \in Workers, MarkDeleted(w) PROVE ScoreMoves
  <2>1. ScoreStays
    BY <1>32, <1>0, <1>1, <1>3, <1>5, <1>7 DEF MarkDeleted, Save, Saved, Goto, At, ScoreStays,
       Counted, OffPCs, Sticky
  <2> QED
    BY <2>1 DEF ScoreMoves
<1>33. ASSUME NEW w \in Workers, Detach(w) PROVE ScoreMoves
  <2>1. ScoreStays
    BY <1>33, <1>0, <1>1, <1>3, <1>5, <1>7 DEF Detach, Note, Goto, At, ScoreStays, Counted,
       OffPCs, Sticky
  <2> QED
    BY <2>1 DEF ScoreMoves
<1>34. ASSUME NEW w \in Workers, UnrefPlatform(w) PROVE ScoreMoves
  <2>1. ScoreStays
    BY <1>34, <1>0, <1>1, <1>3, <1>5, <1>7 DEF UnrefPlatform, Goto, At, ScoreStays, Counted,
       OffPCs, Sticky
  <2> QED
    BY <2>1 DEF ScoreMoves
<1>35. ASSUME NEW w \in Workers, DecreasePlatform(w) PROVE ScoreMoves
  <2>1. At(w, "platdec") /\ cur[w] \in Sessions /\ "device" \in hash[cur[w]]
    BY <1>35, <1>1, <1>7 DEF DecreasePlatform, At
  <2>2. UNCHANGED <<hash, cur, platOf>> /\ pc'[w] \in OffPCs /\ \A x \in Workers \ {w} : pc'[x] = pc[x]
    BY <1>35, <1>0 DEF DecreasePlatform, Goto, At, OffPCs
  <2>3. CASE FALSE
    <3>1. ScoreStays
      BY <2>1, <2>2, <2>3, <1>35 DEF DecreasePlatform, CleanReference, ScoreStays, Counted, At,
         OffPCs
    <3> QED
      BY <3>1 DEF ScoreMoves
  <2>4. CASE platOf[cur[w]] # None
    <3> DEFINE q == platOf[cur[w]]
    <3>1. q \in Platforms /\ platScore' = [platScore EXCEPT ![q] = @ - 1]
      BY <2>1, <2>4, <1>35, <1>0, <1>6 DEF DecreasePlatform, CleanReference, IncreaseReference, At
    <3>2. cur[w] \in Counted(q)
      BY <2>1, <1>3 DEF Counted, OffPCs, At
    <3>3. Counted(q)' = Counted(q) \ {cur[w]}
      BY <2>1, <2>2 DEF Counted, OffPCs, At
    <3>4. \A p \in Platforms \ {q} : Counted(p)' = Counted(p)
      BY <2>1, <2>2 DEF Counted, OffPCs, At
    <3>5. ScoreDown(q, cur[w])
      BY <3>1, <3>2, <3>3, <3>4 DEF ScoreDown
    <3> QED
      BY <2>1, <3>1, <3>5 DEF ScoreMoves
  <2> QED
    BY <2>1, <1>8, <2>3, <2>4, StoreAssumption
<1>36. ASSUME NEW w \in Workers, UpdateActivation(w) PROVE ScoreMoves
  <2>1. ScoreStays
    BY <1>36, <1>0, <1>1, <1>3, <1>5, <1>7 DEF UpdateActivation, Goto, At, ScoreStays, Counted,
       OffPCs, Sticky
  <2> QED
    BY <2>1 DEF ScoreMoves
<1>37. ASSUME NEW w \in Workers, UnrefGateway(w) PROVE ScoreMoves
  <2>1. ScoreStays
    BY <1>37, <1>0, <1>1, <1>3, <1>5, <1>7 DEF UnrefGateway, UpdateGWSessionScore, Goto, At,
       ScoreStays, Counted, OffPCs, Sticky
  <2> QED
    BY <2>1 DEF ScoreMoves
<1>38. ASSUME NEW w \in Workers, DeleteSession(w) PROVE ScoreMoves
  <2>1. ScoreStays
    BY <1>38, <1>0, <1>1, <1>3, <1>5, <1>7 DEF DeleteSession, Del, UserOfSession, Goto, At,
       ScoreStays, Counted, OffPCs, Sticky
  <2> QED
    BY <2>1 DEF ScoreMoves
<1>39. ASSUME NEW w \in Workers, ReportPlatform(w) PROVE ScoreMoves
  <2>1. ScoreStays
    BY <1>39, <1>0, <1>1, <1>3, <1>5, <1>7 DEF ReportPlatform, Goto, At, ScoreStays, Counted,
       OffPCs, Sticky
  <2> QED
    BY <2>1 DEF ScoreMoves
<1>40. ASSUME NEW w \in Workers, Disconnect(w) PROVE ScoreMoves
  <2>1. ScoreStays
    BY <1>40, <1>0, <1>1, <1>3, <1>5, <1>7 DEF Disconnect, Note, Goto, At, ScoreStays, Counted,
       OffPCs, Sticky
  <2> QED
    BY <2>1 DEF ScoreMoves
<1>41. ASSUME NEW w \in Workers, LastDevice(w) PROVE ScoreMoves
  <2>1. ScoreStays
    BY <1>41, <1>0, <1>1, <1>3, <1>5, <1>7 DEF LastDevice, Goto, At, ScoreStays, Counted,
       OffPCs, Sticky
  <2> QED
    BY <2>1 DEF ScoreMoves
<1>42. ASSUME NEW w \in Workers, ClearDataCenter(w) PROVE ScoreMoves
  <2>1. ScoreStays
    BY <1>42, <1>0, <1>1, <1>3, <1>5, <1>7 DEF ClearDataCenter, Me, Goto, At, ScoreStays,
       Counted, OffPCs, Sticky
  <2> QED
    BY <2>1 DEF ScoreMoves
<1>43. ASSUME NEW w \in Workers, ForgetDevice(w) PROVE ScoreMoves
  <2>1. ScoreStays
    BY <1>43, <1>0, <1>1, <1>3, <1>5, <1>7 DEF ForgetDevice, Reset, Goto, At, ScoreStays,
       Counted, OffPCs, Sticky
  <2> QED
    BY <2>1 DEF ScoreMoves
<1>44. ASSUME NEW w \in Workers, Crash(w) PROVE ScoreMoves
  BY <1>44, <1>4 DEF Crash
<1>45. ASSUME NEW w \in Workers, NEW d \in Devices, StartRequest(w, d) PROVE ScoreMoves
  <2>1. ScoreStays
    BY <1>45, <1>0, <1>1, <1>3, <1>5, <1>7 DEF StartRequest, StartSessionFromClient,
       StartSessionByDevice, Goto, At, ScoreStays, Counted, OffPCs, Sticky
  <2> QED
    BY <2>1 DEF ScoreMoves
<1>46. ASSUME NEW w \in Workers, NEW d \in Devices, AdminKill(w, d) PROVE ScoreMoves
  <2>1. ScoreStays
    BY <1>46, <1>0, <1>1, <1>3, <1>5, <1>7 DEF AdminKill, FindKilled, RemoveLock, LoadKilled, SessionOfUserDevice, Goto, Note, At,
       ScoreStays, Counted, OffPCs, Sticky
  <2> QED
    BY <2>1 DEF ScoreMoves
<1>47. ASSUME NEW w \in Workers, NEW s \in Sessions, EndRequest(w, s) PROVE ScoreMoves
  <2>1. ScoreStays
    BY <1>47, <1>0, <1>1, <1>3, <1>5, <1>7 DEF EndRequest, LogoutUser, CloseOtherSessions, Goto,
       At, ScoreStays, Counted, OffPCs, Sticky
  <2> QED
    BY <2>1 DEF ScoreMoves
<1>48. ASSUME NEW o \in Writers, OtherSave(o) PROVE ScoreMoves
  <2>1. \A s \in Sessions : "device" \in hash'[s] <=> "device" \in hash[s]
    BY <1>48, GatewayKeepsCore DEF Core
  <2>2. UNCHANGED <<pc, cur, platOf, platScore>>
    BY <1>48 DEF OtherSave
  <2>3. ScoreStays
    BY <2>1, <2>2 DEF ScoreStays, Counted
  <2> QED
    BY <2>3 DEF ScoreMoves
<1>49. ASSUME NEW o \in Writers, OtherSchedule(o) PROVE ScoreMoves
  <2>1. ScoreStays
    BY <1>49, <1>0, <1>1, <1>3, <1>5, <1>7 DEF OtherSchedule, ScoreStays, Counted, OffPCs, Sticky
  <2> QED
    BY <2>1 DEF ScoreMoves
<1>50. ASSUME NEW o \in Writers, NEW s \in Sessions, OtherLoad(o, s) PROVE ScoreMoves
  <2>1. ScoreStays
    BY <1>50, <1>0, <1>1, <1>3, <1>5, <1>7 DEF OtherLoad, Copy, ScoreStays, Counted, OffPCs, Sticky
  <2> QED
    BY <2>1 DEF ScoreMoves
<1>51. ASSUME NEW s \in Sessions, SuspendTimeout(s) PROVE ScoreMoves
  <2>1. ScoreStays
    BY <1>51, <1>0, <1>1, <1>3, <1>5, <1>7 DEF SuspendTimeout, ScoreStays, Counted, OffPCs, Sticky
  <2> QED
    BY <2>1 DEF ScoreMoves
<1>52. ASSUME NEW d \in Devices, LockExpires(d) PROVE ScoreMoves
  <2>1. ScoreStays
    BY <1>52, <1>0, <1>1, <1>3, <1>5, <1>7 DEF LockExpires, ScoreStays, Counted, OffPCs, Sticky
  <2> QED
    BY <2>1 DEF ScoreMoves
<1>53. CASE UNCHANGED vars
  <2>1. ScoreStays
    BY <1>53 DEF vars, ScoreStays, Counted
  <2> QED
    BY <2>1 DEF ScoreMoves
<1> QED
  BY <1>1, <1>2, <1>3, <1>4, <1>5, <1>6, <1>7, <1>8, <1>9, <1>10, <1>11, <1>12, <1>13, <1>14,
     <1>15, <1>16, <1>17, <1>18, <1>19, <1>20, <1>21, <1>22, <1>23, <1>24, <1>25, <1>26, <1>27,
     <1>28, <1>29, <1>30, <1>31, <1>32, <1>33, <1>34, <1>35, <1>36, <1>37, <1>38, <1>39, <1>40,
     <1>41, <1>42, <1>43, <1>44, <1>45, <1>46, <1>47, <1>48, <1>49, <1>50, <1>51, <1>52, <1>53 DEF
     Next, WorkerStep, StartStep, EndStep, OtherStep

----------------------------------------------------------------------------
(* The gateways, and sessions that are gone.                               *)

\* gwsesslist_<index> has the sessions of the gateway and no other: what a failed
\* start added it takes away, and what an end leaves was not there.
LEMMA GatewaySetPreserved ==
    ASSUME TypeOK, SessionInv, NobodyElse, Failures \cap UncleanFailures = {},
           LockInv, CompleteInv, CleanInv, [Next]_vars
    PROVE  /\ \A g \in Gateways : \A s \in gwlist'[g] : gwOf'[s] = g /\ "device" \in hash'[s]
           /\ \A w \in Workers :
                /\ pc'[w] \in {"gateway", "clean_plat", "clean_user", "clean_gw", "discard", "delete"}
                      => \A g \in Gateways : cur'[w] \notin gwlist'[g]
                /\ pc'[w] \in NewPCs \ {"platref", "save", "dc", "connect"} => "gwref" \notin built'[w]
                /\ pc'[w] \in EndingPCs \ {"delete"} /\ ~plugin'[w] => OnGateway(cur[w])'
<1> USE StoreAssumption, ControllerAssumption
<1> USE DEF NobodyElse, LockRespected, PointedPCs, PartialPCs, NewPCs, EndingPCs, store, keys,
   refs, ids, outside, own, other, bounds
<1>0. /\ pc \in [Workers -> PCs] /\ dev \in [Workers -> Devices \cup {None}]
      /\ cur \in [Workers -> Sessions \cup {None}] /\ usersess \in [Devices -> Sessions \cup {None}]
      /\ hash \in [Sessions -> SUBSET Fields] /\ mem \in [Workers -> SUBSET Fields]
      /\ built \in [Workers -> SUBSET BuildStatus] /\ userset \in [Users -> SUBSET Sessions]
      /\ platlist \in [Platforms -> SUBSET Sessions] /\ gwlist \in [Gateways -> SUBSET Sessions]
      /\ platOf \in [Sessions -> Platforms \cup {None}] /\ gwOf \in [Sessions -> Gateways \cup {None}]
      /\ deviceOf \in [Sessions -> Devices \cup {None}] /\ plugin \in [Workers -> BOOLEAN]
  BY DEF TypeOK, StoreTypeOK, HandlerTypeOK
<1>1. /\ \A h \in Workers : ~At(h, "idle") => dev[h] \in Devices
      /\ \A h \in Workers : cur[h] # None => deviceOf[cur[h]] = dev[h]
      /\ \A h \in Workers : pc[h] \in NewPCs \cup PointedPCs => cur[h] \in Sessions
      /\ \A s \in Sessions : deviceOf[s] = None => hash[s] = {} /\ platOf[s] = None
      /\ \A h \in Workers : At(h, "limit") => built[h] = {}
  BY <1>0 DEF SessionInv, WorkerSound, StoreSound, Exists, At
<1>2. \A h \in Workers : pc[h] \in NewPCs \cup PointedPCs \cup {"lookup", "limit", "reload"} => lock[dev[h]] = h
  BY DEF LockInv, LockKept, LockedPCs, PCs, StartPCs, EndPCs, LastPCs
<1>3. \A h, k \in Workers : /\ pc[h] \in NewPCs \cup PointedPCs /\ pc[k] \in NewPCs \cup PointedPCs
                            /\ h # k
                            => dev[h] # dev[k] /\ cur[h] # cur[k]
  BY <1>0, <1>1, <1>2
<1>4. ~(crashes < MaxCrashes)
  BY DEF NobodyElse, TypeOK, SharedTypeOK
<1>5. /\ \A w \in Workers : pc[w] \in {"pointer"} \cup PointedPCs => Core(mem[w]) = Core(hash[cur[w]])
      /\ \A w \in Workers : pc[w] \in NewPCs \cup EndingPCs => (plugin[w] <=> "plugin" \in mem[w])
      /\ \A w \in Workers : pc[w] \in NewPCs \cup PointedPCs => "device" \in mem[w]
      /\ \A w \in Workers : pc[w] \in PointedPCs => "device" \in hash[cur[w]]
  BY <1>0, <1>1 DEF LockInv, CopyKept, Core
<1>6. /\ \A w \in Workers : pc[w] \in {"create", "pointer", "userset", "suspend", "place", "attach"} => gwOf[cur[w]] = None
      /\ \A w \in Workers : pc[w] = "gateway" => gwOf[cur[w]] \in Gateways
      /\ \A w \in Workers : pc[w] \in NewPCs => ("platref" \in built[w] <=> platOf[cur[w]] # None)
      /\ \A w \in Workers : pc[w] \in {"pointer", "create", "userset", "suspend", "place"} => platOf[cur[w]] = None
      /\ \A s \in Sessions : "plugin" \in hash[s] => platOf[s] = None /\ gwOf[s] = None
      /\ \A s \in Sessions : s \in attached \/ gwOf[s] # None => platOf[s] # None
      /\ \A w \in Workers : pc[w] \in NewPCs /\ plugin[w] => platOf[cur[w]] = None /\ gwOf[cur[w]] = None
  BY DEF CompleteInv, BuiltKept, PluginApart
<1>7. \A o \in Writers : oPc[o] = "idle"
  BY DEF LockInv, GatewayKept, NobodyElse
<1>8. ~Fails("localid") /\ ~Fails("db") /\ ~Fails("detach") /\ ~Fails("activation") /\ ~Fails("gwlock")
  BY DEF Fails, UncleanFailures
<1>9. LockRespected
  BY DEF NobodyElse
<1>10. \A w \in Workers : At(w, "reload") /\ MayEnd(cur[w]) =>
          /\ "device" \in hash[cur[w]] /\ cur[w] \in Sessions
          /\ "plugin" \notin hash[cur[w]] => OnGateway(cur[w])
  BY <1>9, EndedIsComplete DEF Complete
<1>11. /\ \A g \in Gateways : \A s \in gwlist[g] : gwOf[s] = g /\ "device" \in hash[s]
       /\ \A w \in Workers :
            /\ pc[w] \in {"gateway", "clean_plat", "clean_user", "clean_gw", "discard", "delete"}
                  => \A g \in Gateways : cur[w] \notin gwlist[g]
            /\ pc[w] \in NewPCs \ {"platref", "save", "dc", "connect"} => "gwref" \notin built[w]
            /\ pc[w] \in EndingPCs \ {"delete"} /\ ~plugin[w] => OnGateway(cur[w])
  BY DEF CleanInv, GatewaySetKept
<1> DEFINE Kept == 
           /\ \A g \in Gateways : \A s \in gwlist'[g] : gwOf'[s] = g /\ "device" \in hash'[s]
           /\ \A w \in Workers :
                /\ pc'[w] \in {"gateway", "clean_plat", "clean_user", "clean_gw", "discard", "delete"}
                      => \A g \in Gateways : cur'[w] \notin gwlist'[g]
                /\ pc'[w] \in NewPCs \ {"platref", "save", "dc", "connect"} => "gwref" \notin built'[w]
                /\ pc'[w] \in EndingPCs \ {"delete"} /\ ~plugin'[w] => OnGateway(cur[w])'
<1>12. ASSUME NEW w \in Workers, Lock(w) PROVE Kept
  BY <1>12, <1>0, <1>1, <1>3, <1>5, <1>6, <1>11 DEF Lock, LockFree, Goto, OnGateway, Sticky, At
<1>13. ASSUME NEW w \in Workers, LockRefused(w) PROVE Kept
  BY SMTT(20), <1>13, <1>0, <1>1, <1>3, <1>5, <1>6, <1>11 DEF LockRefused, LockFree, Reset, Goto,
     OnGateway, Sticky, At
<1>14. ASSUME NEW w \in Workers, Lookup(w) PROVE Kept
  BY <1>14, <1>0, <1>1, <1>3, <1>5, <1>6, <1>11 DEF Lookup, SessionOfUserDevice, Joinable,
     Exists, Goto, OnGateway, Sticky, At
<1>15. ASSUME NEW w \in Workers, Join(w) PROVE Kept
  BY <1>15, <1>0, <1>1, <1>3, <1>5, <1>6, <1>11 DEF Join, Save, Saved, Goto, OnGateway, Sticky,
     At
<1>16. ASSUME NEW w \in Workers, Limit(w) PROVE Kept
  BY <1>16, <1>0, <1>1, <1>3, <1>5, <1>6, <1>11 DEF Limit, Me, Goto, OnGateway, Sticky, At
<1>17. ASSUME NEW w \in Workers, CreateSession(w) PROVE Kept
  BY <1>17, <1>0, <1>1, <1>3, <1>5, <1>6, <1>11 DEF CreateSession, Create, Save, Saved, Goto,
     OnGateway, Sticky, At
<1>18. ASSUME NEW w \in Workers, SetPointer(w) PROVE Kept
  BY <1>18, <1>0, <1>1, <1>3, <1>5, <1>6, <1>11 DEF SetPointer, Goto, OnGateway, Sticky, At
<1>19. ASSUME NEW w \in Workers, AddToUser(w) PROVE Kept
  BY <1>19, <1>0, <1>1, <1>3, <1>5, <1>6, <1>11 DEF AddToUser, Me, Goto, OnGateway, Sticky, At
<1>20. ASSUME NEW w \in Workers, SuspendNew(w) PROVE Kept
  BY <1>20, <1>0, <1>1, <1>3, <1>5, <1>6, <1>11 DEF SuspendNew, Suspend, Save, Saved, Goto,
     OnGateway, Sticky, At
<1>21. ASSUME NEW w \in Workers, Place(w) PROVE Kept
  BY <1>21, <1>0, <1>1, <1>3, <1>5, <1>6, <1>11 DEF Place, OrgRefuses, Note, Goto, OnGateway,
     Sticky, At
<1>22. ASSUME NEW w \in Workers, Attach(w) PROVE Kept
  BY SMTT(20), <1>22, <1>0, <1>1, <1>3, <1>5, <1>6, <1>11 DEF Attach, findGateway, Note, Goto, OnGateway,
     Sticky, At
<1>23. ASSUME NEW w \in Workers, CountOnGateway(w) PROVE Kept
  <2>1. /\ At(w, "gateway") /\ UNCHANGED <<hash, gwOf, cur, plugin>> /\ cur[w] \in Sessions
        /\ \A x \in Workers \ {w} : pc'[x] = pc[x] /\ built'[x] = built[x]
    BY <1>23, <1>0, <1>1 DEF CountOnGateway, Note, Goto, At, ids
  <2>2. CASE gwlist' = [gwlist EXCEPT ![gwOf[cur[w]]] = @ \cup {cur[w]}] /\ pc'[w] = "platref"
    <3>1. \A g \in Gateways : gwlist'[g] = IF g = gwOf[cur[w]] THEN gwlist[g] \cup {cur[w]} ELSE gwlist[g]
      BY <2>2, <1>0
    <3> QED
      BY <2>1, <2>2, <3>1, <1>0, <1>1, <1>3, <1>5, <1>6, <1>11 DEF OnGateway, At
  <2>3. CASE UNCHANGED <<gwlist, built>> /\ pc'[w] = "clean_plat"
    BY <2>1, <2>3, <1>11 DEF OnGateway, At
  <2> QED
    BY <1>23, <1>0, <2>2, <2>3 DEF CountOnGateway, UpdateGWSessionScore, Goto, At
<1>24. ASSUME NEW w \in Workers, ListOnPlatform(w) PROVE Kept
  <2>1. /\ At(w, "platref") /\ pc'[w] = "save" /\ UNCHANGED <<gwlist, hash, gwOf, cur, plugin>>
        /\ \A x \in Workers \ {w} : pc'[x] = pc[x] /\ built'[x] = built[x]
    BY <1>24, <1>0, <1>8 DEF ListOnPlatform, Note, Goto, At, keys, ids
  <2> QED
    BY <2>1, <1>11 DEF OnGateway, At
<1>25. ASSUME NEW w \in Workers, SaveSession(w) PROVE Kept
  BY <1>25, <1>0, <1>1, <1>3, <1>5, <1>6, <1>11 DEF SaveSession, Save, Saved, Goto, OnGateway,
     Sticky, At
<1>26. ASSUME NEW w \in Workers, RecordDataCenter(w) PROVE Kept
  BY <1>26, <1>0, <1>1, <1>3, <1>5, <1>6, <1>11, <1>8 DEF RecordDataCenter, Me, Goto, OnGateway,
     Sticky, At
<1>27. ASSUME NEW w \in Workers, Connect(w) PROVE Kept
  BY <1>27, <1>0, <1>1, <1>3, <1>5, <1>6, <1>11, <1>8 DEF Connect, ConnectedRow, Goto,
     OnGateway, Sticky, At
<1>28. ASSUME NEW w \in Workers, CleanPlatform(w) PROVE Kept
  BY <1>28, <1>0, <1>1, <1>3, <1>5, <1>6, <1>11 DEF CleanPlatform, CleanReference,
     IncreaseReference, Goto, OnGateway, Sticky, At
<1>29. ASSUME NEW w \in Workers, CleanUser(w) PROVE Kept
  BY <1>29, <1>0, <1>1, <1>3, <1>5, <1>6, <1>11 DEF CleanUser, Goto, OnGateway, Sticky, At
<1>30. ASSUME NEW w \in Workers, CleanGateway(w) PROVE Kept
  <2>1. UNCHANGED <<gwlist, hash, gwOf, cur, plugin, built>> /\ pc'[w] = "discard" /\ At(w, "clean_gw")
    BY <1>30, <1>0, <1>11 DEF CleanGateway, Goto, At, keys, ids, own
  <2>2. \A x \in Workers \ {w} : pc'[x] = pc[x]
    BY <1>30, <1>0 DEF CleanGateway, Goto
  <2> QED
    BY <2>1, <2>2, <1>11 DEF OnGateway, At
<1>31. ASSUME NEW w \in Workers, Discard(w) PROVE Kept
  BY <1>31, <1>0, <1>1, <1>3, <1>5, <1>6, <1>11 DEF Discard, Del, UserOfSession, Goto,
     OnGateway, Sticky, At
<1>32. ASSUME NEW w \in Workers, Unlock(w) PROVE Kept
  BY <1>32, <1>0, <1>1, <1>3, <1>5, <1>6, <1>11 DEF Unlock, Goto, Reset, OnGateway, Sticky, At
<1>33. ASSUME NEW w \in Workers, Revive(w) PROVE Kept
  BY <1>33, <1>0, <1>1, <1>3, <1>5, <1>6, <1>11 DEF Revive, Reset, Goto, OnGateway, Sticky, At
<1>34. ASSUME NEW w \in Workers, Reload(w) PROVE Kept
  <2>1. /\ At(w, "reload") /\ UNCHANGED <<gwlist, hash, gwOf, cur>>
        /\ \A x \in Workers \ {w} : pc'[x] = pc[x] /\ built'[x] = built[x] /\ plugin'[x] = plugin[x]
        /\ \/ pc'[w] = "mark" /\ MayEnd(cur[w]) /\ plugin'[w] = ("plugin" \in hash[cur[w]])
           \/ pc'[w] = "unlock"
    BY <1>34, <1>0 DEF Reload, Note, Goto, At, store, keys, refs, ids
  <2> QED
    BY <2>1, <1>10, <1>11 DEF OnGateway, At
<1>35. ASSUME NEW w \in Workers, MarkDeleted(w) PROVE Kept
  BY <1>35, <1>0, <1>1, <1>3, <1>5, <1>6, <1>11 DEF MarkDeleted, Save, Saved, Goto, OnGateway,
     Sticky, At
<1>36. ASSUME NEW w \in Workers, Detach(w) PROVE Kept
  BY <1>36, <1>0, <1>1, <1>3, <1>5, <1>6, <1>11, <1>8 DEF Detach, Note, Goto, OnGateway, Sticky,
     At
<1>37. ASSUME NEW w \in Workers, UnrefPlatform(w) PROVE Kept
  BY <1>37, <1>0, <1>1, <1>3, <1>5, <1>6, <1>11 DEF UnrefPlatform, Goto, OnGateway, Sticky, At
<1>38. ASSUME NEW w \in Workers, DecreasePlatform(w) PROVE Kept
  BY <1>38, <1>0, <1>1, <1>3, <1>5, <1>6, <1>11 DEF DecreasePlatform, IncreaseReference, Goto,
     OnGateway, Sticky, At
<1>39. ASSUME NEW w \in Workers, UpdateActivation(w) PROVE Kept
  <2>1. /\ At(w, "activation") /\ pc'[w] = IF plugin[w] THEN "delete" ELSE "gwunref"
        /\ UNCHANGED <<gwlist, hash, gwOf, cur, plugin, built>> /\ \A x \in Workers \ {w} : pc'[x] = pc[x]
    BY <1>39, <1>0, <1>8 DEF UpdateActivation, Goto, At, store, keys, refs, ids, own
  <2>2. "plugin" \in mem[w] <=> "plugin" \in hash[cur[w]]
    BY <2>1, <1>5 DEF Core, At
  <2>3. plugin[w] => gwOf[cur[w]] = None
    BY <2>1, <2>2, <1>1, <1>5, <1>6 DEF At
  <2> QED
    BY <2>1, <2>3, <1>11 DEF OnGateway, At
<1>40. ASSUME NEW w \in Workers, UnrefGateway(w) PROVE Kept
  <2>1. /\ At(w, "gwunref") /\ pc'[w] = "delete" /\ UNCHANGED <<hash, gwOf, cur, plugin, built>>
        /\ gwlist' = [gwlist EXCEPT ![gwOf[cur[w]]] = @ \ {cur[w]}]
        /\ \A x \in Workers \ {w} : pc'[x] = pc[x]
    BY <1>40, <1>0, <1>8 DEF UnrefGateway, UpdateGWSessionScore, Goto, At, keys, ids, own
  <2>2. \A g \in Gateways : gwlist'[g] = IF g = gwOf[cur[w]] THEN gwlist[g] \ {cur[w]} ELSE gwlist[g]
    BY <2>1, <1>0
  <2> QED
    BY <2>1, <2>2, <1>0, <1>1, <1>3, <1>11 DEF OnGateway, At
<1>41. ASSUME NEW w \in Workers, DeleteSession(w) PROVE Kept
  BY <1>41, <1>0, <1>1, <1>3, <1>5, <1>6, <1>11 DEF DeleteSession, Del, UserOfSession, Goto,
     OnGateway, Sticky, At
<1>42. ASSUME NEW w \in Workers, ReportPlatform(w) PROVE Kept
  BY <1>42, <1>0, <1>1, <1>3, <1>5, <1>6, <1>11 DEF ReportPlatform, Goto, OnGateway, Sticky, At
<1>43. ASSUME NEW w \in Workers, Disconnect(w) PROVE Kept
  BY <1>43, <1>0, <1>1, <1>3, <1>5, <1>6, <1>11 DEF Disconnect, Note, Goto, OnGateway, Sticky,
     At
<1>44. ASSUME NEW w \in Workers, LastDevice(w) PROVE Kept
  BY <1>44, <1>0, <1>1, <1>3, <1>5, <1>6, <1>11 DEF LastDevice, Goto, OnGateway, Sticky, At
<1>45. ASSUME NEW w \in Workers, ClearDataCenter(w) PROVE Kept
  BY <1>45, <1>0, <1>1, <1>3, <1>5, <1>6, <1>11 DEF ClearDataCenter, Me, Goto, OnGateway,
     Sticky, At
<1>46. ASSUME NEW w \in Workers, ForgetDevice(w) PROVE Kept
  BY <1>46, <1>0, <1>1, <1>3, <1>5, <1>6, <1>11 DEF ForgetDevice, Reset, Goto, OnGateway,
     Sticky, At
<1>47. ASSUME NEW w \in Workers, Crash(w) PROVE Kept
  BY <1>47, <1>0, <1>1, <1>3, <1>5, <1>6, <1>11, <1>4 DEF Crash, Reset, Goto, OnGateway, Sticky,
     At
<1>48. ASSUME NEW w \in Workers, NEW d \in Devices, StartRequest(w, d) PROVE Kept
  BY <1>48, <1>0, <1>1, <1>3, <1>5, <1>6, <1>11 DEF StartRequest, StartSessionFromClient,
     StartSessionByDevice, Goto, OnGateway, Sticky, At
<1>49. ASSUME NEW w \in Workers, NEW d \in Devices, AdminKill(w, d) PROVE Kept
  BY <1>49, <1>0, <1>1, <1>3, <1>5, <1>6, <1>11 DEF AdminKill, FindKilled, RemoveLock, LoadKilled, SessionOfUserDevice, Goto, Note,
     OnGateway, Sticky, At
<1>50. ASSUME NEW w \in Workers, NEW s \in Sessions, EndRequest(w, s) PROVE Kept
  BY <1>50, <1>0, <1>1, <1>3, <1>5, <1>6, <1>11 DEF EndRequest, LogoutUser, CloseOtherSessions,
     Goto, OnGateway, Sticky, At
<1>51. ASSUME NEW o \in Writers, OtherSave(o) PROVE Kept
  BY <1>51, <1>0, <1>1, <1>3, <1>5, <1>6, <1>11, <1>7 DEF OtherSave, Save, Saved, OnGateway,
     Sticky, At
<1>52. ASSUME NEW o \in Writers, OtherSchedule(o) PROVE Kept
  BY <1>52, <1>0, <1>1, <1>3, <1>5, <1>6, <1>11, <1>7 DEF OtherSchedule, OnGateway, Sticky, At
<1>53. ASSUME NEW o \in Writers, NEW s \in Sessions, OtherLoad(o, s) PROVE Kept
  BY <1>53, <1>0, <1>1, <1>3, <1>5, <1>6, <1>11, <1>7 DEF OtherLoad, Copy, OnGateway, Sticky, At
<1>54. ASSUME NEW s \in Sessions, SuspendTimeout(s) PROVE Kept
  BY <1>54, <1>0, <1>1, <1>3, <1>5, <1>6, <1>11 DEF SuspendTimeout, OnGateway, Sticky, At
<1>55. ASSUME NEW d \in Devices, LockExpires(d) PROVE Kept
  BY <1>55, <1>0, <1>1, <1>3, <1>5, <1>6, <1>11 DEF LockExpires, OnGateway, Sticky, At
<1>56. CASE UNCHANGED vars
  <2>1. UNCHANGED <<pc, cur, plugin, built, gwOf, hash, gwlist>>
    BY <1>56 DEF vars
  <2>2. \A w \in Workers : OnGateway(cur[w])' <=> OnGateway(cur[w])
    BY <2>1 DEF OnGateway
  <2> QED
    BY <2>1, <2>2, <1>11
<1> QED
  BY ZenonT(40), <1>1, <1>2, <1>3, <1>4, <1>5, <1>6, <1>7, <1>8, <1>9, <1>10, <1>11, <1>12, <1>13, <1>14,
     <1>15, <1>16, <1>17, <1>18, <1>19, <1>20, <1>21, <1>22, <1>23, <1>24, <1>25, <1>26, <1>27,
     <1>28, <1>29, <1>30, <1>31, <1>32, <1>33, <1>34, <1>35, <1>36, <1>37, <1>38, <1>39, <1>40,
     <1>41, <1>42, <1>43, <1>44, <1>45, <1>46, <1>47, <1>48, <1>49, <1>50, <1>51, <1>52, <1>53,
     <1>54, <1>55, <1>56 DEF Next, WorkerStep, StartStep, EndStep, OtherStep

\* How a step changes the set and the score of a gateway.
GatewayMoves ==
    \/ UNCHANGED <<gwlist, gwScore>>
    \/ \E g \in Gateways, s \in Sessions :
          /\ s \notin gwlist[g] /\ gwlist' = [gwlist EXCEPT ![g] = @ \cup {s}]
          /\ gwScore' = [gwScore EXCEPT ![g] = @ + 1]
    \/ \E g \in Gateways, s \in Sessions :
          /\ s \in gwlist[g] /\ gwlist' = [gwlist EXCEPT ![g] = @ \ {s}]
          /\ gwScore' = [gwScore EXCEPT ![g] = @ - 1]

\* The score of a gateway follows the size of its set.
LEMMA GatewayScoreFollows ==
    ASSUME TypeOK, \A g \in Gateways : gwScore[g] = Cardinality(gwlist[g]), GatewayMoves
    PROVE  \A g \in Gateways : gwScore'[g] = Cardinality(gwlist'[g])
<1>1. gwlist \in [Gateways -> SUBSET Sessions] /\ gwScore \in [Gateways -> Int]
  BY DEF TypeOK, StoreTypeOK
<1>2. \A g \in Gateways : IsFiniteSet(gwlist[g])
  BY <1>1, FiniteSessions, FS_Subset
<1>3. ASSUME NEW g \in Gateways, NEW s \in Sessions
      PROVE /\ s \notin gwlist[g] => Cardinality(gwlist[g] \cup {s}) = Cardinality(gwlist[g]) + 1
            /\ s \in gwlist[g] => Cardinality(gwlist[g] \ {s}) = Cardinality(gwlist[g]) - 1
  BY <1>2, FS_AddElement, FS_RemoveElement
<1>4. CASE UNCHANGED <<gwlist, gwScore>>
  BY <1>4
<1>5. ASSUME NEW g \in Gateways, NEW s \in Sessions, s \notin gwlist[g],
             gwlist' = [gwlist EXCEPT ![g] = @ \cup {s}], gwScore' = [gwScore EXCEPT ![g] = @ + 1]
      PROVE \A h \in Gateways : gwScore'[h] = Cardinality(gwlist'[h])
  BY <1>1, <1>3, <1>5
<1>6. ASSUME NEW g \in Gateways, NEW s \in Sessions, s \in gwlist[g],
             gwlist' = [gwlist EXCEPT ![g] = @ \ {s}], gwScore' = [gwScore EXCEPT ![g] = @ - 1]
      PROVE \A h \in Gateways : gwScore'[h] = Cardinality(gwlist'[h])
  BY <1>1, <1>3, <1>6
<1> QED
  BY <1>4, <1>5, <1>6 DEF GatewayMoves

\* updateGWSessionScore adds only a session that is not in the set and removes only
\* one that is.
LEMMA GatewayStepMoves ==
    ASSUME TypeOK, SessionInv, NobodyElse, Failures \cap UncleanFailures = {},
           LockInv, CompleteInv, CleanInv, [Next]_vars
    PROVE  GatewayMoves
<1> USE StoreAssumption, ControllerAssumption
<1> USE DEF NobodyElse, LockRespected, PointedPCs, PartialPCs, NewPCs, EndingPCs, store, keys,
   refs, ids, outside, own, other, bounds
<1>0. /\ pc \in [Workers -> PCs] /\ dev \in [Workers -> Devices \cup {None}]
      /\ cur \in [Workers -> Sessions \cup {None}] /\ usersess \in [Devices -> Sessions \cup {None}]
      /\ hash \in [Sessions -> SUBSET Fields] /\ mem \in [Workers -> SUBSET Fields]
      /\ built \in [Workers -> SUBSET BuildStatus] /\ userset \in [Users -> SUBSET Sessions]
      /\ platlist \in [Platforms -> SUBSET Sessions] /\ gwlist \in [Gateways -> SUBSET Sessions]
      /\ platOf \in [Sessions -> Platforms \cup {None}] /\ gwOf \in [Sessions -> Gateways \cup {None}]
      /\ deviceOf \in [Sessions -> Devices \cup {None}] /\ plugin \in [Workers -> BOOLEAN]
  BY DEF TypeOK, StoreTypeOK, HandlerTypeOK
<1>1. /\ \A h \in Workers : ~At(h, "idle") => dev[h] \in Devices
      /\ \A h \in Workers : cur[h] # None => deviceOf[cur[h]] = dev[h]
      /\ \A h \in Workers : pc[h] \in NewPCs \cup PointedPCs => cur[h] \in Sessions
      /\ \A s \in Sessions : deviceOf[s] = None => hash[s] = {} /\ platOf[s] = None
      /\ \A h \in Workers : At(h, "limit") => built[h] = {}
  BY <1>0 DEF SessionInv, WorkerSound, StoreSound, Exists, At
<1>2. \A h \in Workers : pc[h] \in NewPCs \cup PointedPCs \cup {"lookup", "limit", "reload"} => lock[dev[h]] = h
  BY DEF LockInv, LockKept, LockedPCs, PCs, StartPCs, EndPCs, LastPCs
<1>3. \A h, k \in Workers : /\ pc[h] \in NewPCs \cup PointedPCs /\ pc[k] \in NewPCs \cup PointedPCs
                            /\ h # k
                            => dev[h] # dev[k] /\ cur[h] # cur[k]
  BY <1>0, <1>1, <1>2
<1>4. ~(crashes < MaxCrashes)
  BY DEF NobodyElse, TypeOK, SharedTypeOK
<1>5. /\ \A w \in Workers : pc[w] \in {"pointer"} \cup PointedPCs => Core(mem[w]) = Core(hash[cur[w]])
      /\ \A w \in Workers : pc[w] \in NewPCs \cup EndingPCs => (plugin[w] <=> "plugin" \in mem[w])
      /\ \A w \in Workers : pc[w] \in NewPCs \cup PointedPCs => "device" \in mem[w]
      /\ \A w \in Workers : pc[w] \in PointedPCs => "device" \in hash[cur[w]]
  BY <1>0, <1>1 DEF LockInv, CopyKept, Core
<1>6. /\ \A w \in Workers : pc[w] \in {"create", "pointer", "userset", "suspend", "place", "attach"} => gwOf[cur[w]] = None
      /\ \A w \in Workers : pc[w] = "gateway" => gwOf[cur[w]] \in Gateways
      /\ \A w \in Workers : pc[w] \in NewPCs => ("platref" \in built[w] <=> platOf[cur[w]] # None)
      /\ \A w \in Workers : pc[w] \in {"pointer", "create", "userset", "suspend", "place"} => platOf[cur[w]] = None
      /\ \A s \in Sessions : "plugin" \in hash[s] => platOf[s] = None /\ gwOf[s] = None
      /\ \A s \in Sessions : s \in attached \/ gwOf[s] # None => platOf[s] # None
      /\ \A w \in Workers : pc[w] \in NewPCs /\ plugin[w] => platOf[cur[w]] = None /\ gwOf[cur[w]] = None
  BY DEF CompleteInv, BuiltKept, PluginApart
<1>7. \A o \in Writers : oPc[o] = "idle"
  BY DEF LockInv, GatewayKept, NobodyElse
<1>8. ~Fails("localid") /\ ~Fails("db") /\ ~Fails("detach") /\ ~Fails("activation") /\ ~Fails("gwlock")
  BY DEF Fails, UncleanFailures
<1>9. LockRespected
  BY DEF NobodyElse
<1>10. \A w \in Workers : At(w, "reload") /\ MayEnd(cur[w]) =>
          /\ "device" \in hash[cur[w]] /\ cur[w] \in Sessions
          /\ "plugin" \notin hash[cur[w]] => OnGateway(cur[w])
  BY <1>9, EndedIsComplete DEF Complete
<1>11. /\ \A w \in Workers :
            /\ pc[w] = "gateway" => \A g \in Gateways : cur[w] \notin gwlist[g]
            /\ pc[w] = "clean_gw" => "gwref" \notin built[w]
            /\ pc[w] = "gwunref" /\ ~plugin[w] => OnGateway(cur[w])
       /\ gwScore \in [Gateways -> Int]
  BY DEF CleanInv, GatewaySetKept, EndingPCs, TypeOK, StoreTypeOK
<1>12. ASSUME NEW w \in Workers, Lock(w) PROVE GatewayMoves
  BY <1>12 DEF Lock, LockFree, Goto, At, GatewayMoves
<1>13. ASSUME NEW w \in Workers, LockRefused(w) PROVE GatewayMoves
  BY <1>13 DEF LockRefused, LockFree, Reset, Goto, At, GatewayMoves
<1>14. ASSUME NEW w \in Workers, Lookup(w) PROVE GatewayMoves
  BY <1>14 DEF Lookup, SessionOfUserDevice, Joinable, Exists, Goto, At, GatewayMoves
<1>15. ASSUME NEW w \in Workers, Join(w) PROVE GatewayMoves
  BY <1>15 DEF Join, Save, Saved, Goto, At, GatewayMoves
<1>16. ASSUME NEW w \in Workers, Limit(w) PROVE GatewayMoves
  BY <1>16 DEF Limit, Me, Goto, At, GatewayMoves
<1>17. ASSUME NEW w \in Workers, CreateSession(w) PROVE GatewayMoves
  BY <1>17 DEF CreateSession, Create, Save, Saved, Goto, At, GatewayMoves
<1>18. ASSUME NEW w \in Workers, SetPointer(w) PROVE GatewayMoves
  BY <1>18 DEF SetPointer, Goto, At, GatewayMoves
<1>19. ASSUME NEW w \in Workers, AddToUser(w) PROVE GatewayMoves
  BY <1>19 DEF AddToUser, Me, Goto, At, GatewayMoves
<1>20. ASSUME NEW w \in Workers, SuspendNew(w) PROVE GatewayMoves
  BY <1>20 DEF SuspendNew, Suspend, Save, Saved, Goto, At, GatewayMoves
<1>21. ASSUME NEW w \in Workers, Place(w) PROVE GatewayMoves
  BY <1>21 DEF Place, OrgRefuses, Note, Goto, At, GatewayMoves
<1>22. ASSUME NEW w \in Workers, Attach(w) PROVE GatewayMoves
  BY <1>22 DEF Attach, findGateway, Note, Goto, At, GatewayMoves
<1>23. ASSUME NEW w \in Workers, CountOnGateway(w) PROVE GatewayMoves
  <2>1. gwOf[cur[w]] \in Gateways /\ cur[w] \in Sessions /\ cur[w] \notin gwlist[gwOf[cur[w]]]
    BY <1>23, <1>1, <1>6, <1>11 DEF CountOnGateway, At
  <2> QED
    BY <1>23, <2>1 DEF CountOnGateway, UpdateGWSessionScore, GatewayMoves
<1>24. ASSUME NEW w \in Workers, ListOnPlatform(w) PROVE GatewayMoves
  BY <1>24 DEF ListOnPlatform, Note, Goto, At, GatewayMoves
<1>25. ASSUME NEW w \in Workers, SaveSession(w) PROVE GatewayMoves
  BY <1>25 DEF SaveSession, Save, Saved, Goto, At, GatewayMoves
<1>26. ASSUME NEW w \in Workers, RecordDataCenter(w) PROVE GatewayMoves
  BY <1>26 DEF RecordDataCenter, Me, Goto, At, GatewayMoves
<1>27. ASSUME NEW w \in Workers, Connect(w) PROVE GatewayMoves
  BY <1>27 DEF Connect, ConnectedRow, Goto, At, GatewayMoves
<1>28. ASSUME NEW w \in Workers, CleanPlatform(w) PROVE GatewayMoves
  BY <1>28 DEF CleanPlatform, CleanReference, IncreaseReference, Goto, At, GatewayMoves
<1>29. ASSUME NEW w \in Workers, CleanUser(w) PROVE GatewayMoves
  BY <1>29 DEF CleanUser, Goto, At, GatewayMoves
<1>30. ASSUME NEW w \in Workers, CleanGateway(w) PROVE GatewayMoves
  BY <1>30, <1>11 DEF CleanGateway, GatewayMoves, At
<1>31. ASSUME NEW w \in Workers, Discard(w) PROVE GatewayMoves
  BY <1>31 DEF Discard, Del, UserOfSession, Goto, At, GatewayMoves
<1>32. ASSUME NEW w \in Workers, Unlock(w) PROVE GatewayMoves
  BY <1>32 DEF Unlock, Goto, Reset, At, GatewayMoves
<1>33. ASSUME NEW w \in Workers, Revive(w) PROVE GatewayMoves
  BY <1>33 DEF Revive, Reset, Goto, At, GatewayMoves
<1>34. ASSUME NEW w \in Workers, Reload(w) PROVE GatewayMoves
  BY <1>34 DEF Reload, MayEnd, Note, Goto, At, GatewayMoves
<1>35. ASSUME NEW w \in Workers, MarkDeleted(w) PROVE GatewayMoves
  BY <1>35 DEF MarkDeleted, Save, Saved, Goto, At, GatewayMoves
<1>36. ASSUME NEW w \in Workers, Detach(w) PROVE GatewayMoves
  BY <1>36 DEF Detach, Note, Goto, At, GatewayMoves
<1>37. ASSUME NEW w \in Workers, UnrefPlatform(w) PROVE GatewayMoves
  BY <1>37 DEF UnrefPlatform, Goto, At, GatewayMoves
<1>38. ASSUME NEW w \in Workers, DecreasePlatform(w) PROVE GatewayMoves
  BY <1>38 DEF DecreasePlatform, IncreaseReference, Goto, At, GatewayMoves
<1>39. ASSUME NEW w \in Workers, UpdateActivation(w) PROVE GatewayMoves
  BY <1>39 DEF UpdateActivation, Goto, At, GatewayMoves
<1>40. ASSUME NEW w \in Workers, UnrefGateway(w) PROVE GatewayMoves
  <2>1. cur[w] \in Sessions /\ pc[w] = "gwunref" /\ ("plugin" \in mem[w] <=> "plugin" \in hash[cur[w]])
    BY <1>40, <1>1, <1>5 DEF UnrefGateway, At, Core
  <2>2. CASE plugin[w]
    <3>1. gwOf[cur[w]] = None
      BY <2>1, <2>2, <1>5, <1>6
    <3> QED
      BY <1>40, <3>1, <1>0, <1>11 DEF UnrefGateway, UpdateGWSessionScore, GatewayMoves
  <2>3. CASE ~plugin[w]
    <3>1. gwOf[cur[w]] \in Gateways /\ cur[w] \in gwlist[gwOf[cur[w]]]
      BY <2>1, <2>3, <1>11 DEF OnGateway
    <3> QED
      BY SMTT(20), <1>40, <2>1, <3>1, <1>0, <1>11 DEF UnrefGateway, UpdateGWSessionScore, GatewayMoves
  <2> QED
    BY <2>2, <2>3
<1>41. ASSUME NEW w \in Workers, DeleteSession(w) PROVE GatewayMoves
  BY <1>41 DEF DeleteSession, Del, UserOfSession, Goto, At, GatewayMoves
<1>42. ASSUME NEW w \in Workers, ReportPlatform(w) PROVE GatewayMoves
  BY <1>42 DEF ReportPlatform, Goto, At, GatewayMoves
<1>43. ASSUME NEW w \in Workers, Disconnect(w) PROVE GatewayMoves
  BY <1>43 DEF Disconnect, Note, Goto, At, GatewayMoves
<1>44. ASSUME NEW w \in Workers, LastDevice(w) PROVE GatewayMoves
  BY <1>44 DEF LastDevice, Goto, At, GatewayMoves
<1>45. ASSUME NEW w \in Workers, ClearDataCenter(w) PROVE GatewayMoves
  BY <1>45 DEF ClearDataCenter, Me, Goto, At, GatewayMoves
<1>46. ASSUME NEW w \in Workers, ForgetDevice(w) PROVE GatewayMoves
  BY <1>46 DEF ForgetDevice, Reset, Goto, At, GatewayMoves
<1>47. ASSUME NEW w \in Workers, Crash(w) PROVE GatewayMoves
  BY <1>47, <1>4 DEF Crash, Reset, Goto, At, GatewayMoves
<1>48. ASSUME NEW w \in Workers, NEW d \in Devices, StartRequest(w, d) PROVE GatewayMoves
  BY <1>48 DEF StartRequest, StartSessionFromClient, StartSessionByDevice, Goto, At,
     GatewayMoves
<1>49. ASSUME NEW w \in Workers, NEW d \in Devices, AdminKill(w, d) PROVE GatewayMoves
  BY <1>49 DEF AdminKill, FindKilled, RemoveLock, LoadKilled, SessionOfUserDevice, Goto, Note, At, GatewayMoves
<1>50. ASSUME NEW w \in Workers, NEW s \in Sessions, EndRequest(w, s) PROVE GatewayMoves
  BY <1>50 DEF EndRequest, LogoutUser, CloseOtherSessions, Goto, At, GatewayMoves
<1>51. ASSUME NEW o \in Writers, OtherSave(o) PROVE GatewayMoves
  BY <1>51 DEF OtherSave, Save, Saved, GatewayMoves
<1>52. ASSUME NEW o \in Writers, OtherSchedule(o) PROVE GatewayMoves
  BY <1>52 DEF OtherSchedule, GatewayMoves
<1>53. ASSUME NEW o \in Writers, NEW s \in Sessions, OtherLoad(o, s) PROVE GatewayMoves
  BY <1>53 DEF OtherLoad, Copy, GatewayMoves
<1>54. ASSUME NEW s \in Sessions, SuspendTimeout(s) PROVE GatewayMoves
  BY <1>54 DEF SuspendTimeout, GatewayMoves
<1>55. ASSUME NEW d \in Devices, LockExpires(d) PROVE GatewayMoves
  BY <1>55 DEF LockExpires, GatewayMoves
<1>56. CASE UNCHANGED vars
  <2>1. UNCHANGED <<gwlist, gwScore>>
    BY <1>56 DEF vars
  <2> QED
    BY <2>1 DEF GatewayMoves
<1> QED
  BY <1>1, <1>2, <1>3, <1>4, <1>5, <1>6, <1>7, <1>8, <1>9, <1>10, <1>11, <1>12, <1>13, <1>14,
     <1>15, <1>16, <1>17, <1>18, <1>19, <1>20, <1>21, <1>22, <1>23, <1>24, <1>25, <1>26, <1>27,
     <1>28, <1>29, <1>30, <1>31, <1>32, <1>33, <1>34, <1>35, <1>36, <1>37, <1>38, <1>39, <1>40,
     <1>41, <1>42, <1>43, <1>44, <1>45, <1>46, <1>47, <1>48, <1>49, <1>50, <1>51, <1>52, <1>53,
     <1>54, <1>55, <1>56 DEF Next, WorkerStep, StartStep, EndStep, OtherStep

\* What is listed, in a user's set, suspended or attached is the session of a hash.
LEMMA GonePreserved ==
    ASSUME TypeOK, SessionInv, NobodyElse, Failures \cap UncleanFailures = {},
           LockInv, CompleteInv, CleanInv, [Next]_vars
    PROVE  GoneKept'
<1> USE StoreAssumption, ControllerAssumption
<1> USE DEF NobodyElse, LockRespected, PointedPCs, PartialPCs, NewPCs, EndingPCs, store, keys,
   refs, ids, outside, own, other, bounds
<1>0. /\ pc \in [Workers -> PCs] /\ dev \in [Workers -> Devices \cup {None}]
      /\ cur \in [Workers -> Sessions \cup {None}] /\ usersess \in [Devices -> Sessions \cup {None}]
      /\ hash \in [Sessions -> SUBSET Fields] /\ mem \in [Workers -> SUBSET Fields]
      /\ built \in [Workers -> SUBSET BuildStatus] /\ userset \in [Users -> SUBSET Sessions]
      /\ platlist \in [Platforms -> SUBSET Sessions] /\ gwlist \in [Gateways -> SUBSET Sessions]
      /\ platOf \in [Sessions -> Platforms \cup {None}] /\ gwOf \in [Sessions -> Gateways \cup {None}]
      /\ deviceOf \in [Sessions -> Devices \cup {None}] /\ plugin \in [Workers -> BOOLEAN]
  BY DEF TypeOK, StoreTypeOK, HandlerTypeOK
<1>1. /\ \A h \in Workers : ~At(h, "idle") => dev[h] \in Devices
      /\ \A h \in Workers : cur[h] # None => deviceOf[cur[h]] = dev[h]
      /\ \A h \in Workers : pc[h] \in NewPCs \cup PointedPCs => cur[h] \in Sessions
      /\ \A s \in Sessions : deviceOf[s] = None => hash[s] = {} /\ platOf[s] = None
      /\ \A h \in Workers : At(h, "limit") => built[h] = {}
  BY <1>0 DEF SessionInv, WorkerSound, StoreSound, Exists, At
<1>2. \A h \in Workers : pc[h] \in NewPCs \cup PointedPCs \cup {"lookup", "limit", "reload"} => lock[dev[h]] = h
  BY DEF LockInv, LockKept, LockedPCs, PCs, StartPCs, EndPCs, LastPCs
<1>3. \A h, k \in Workers : /\ pc[h] \in NewPCs \cup PointedPCs /\ pc[k] \in NewPCs \cup PointedPCs
                            /\ h # k
                            => dev[h] # dev[k] /\ cur[h] # cur[k]
  BY <1>0, <1>1, <1>2
<1>4. ~(crashes < MaxCrashes)
  BY DEF NobodyElse, TypeOK, SharedTypeOK
<1>5. /\ \A w \in Workers : pc[w] \in {"pointer"} \cup PointedPCs => Core(mem[w]) = Core(hash[cur[w]])
      /\ \A w \in Workers : pc[w] \in NewPCs \cup EndingPCs => (plugin[w] <=> "plugin" \in mem[w])
      /\ \A w \in Workers : pc[w] \in NewPCs \cup PointedPCs => "device" \in mem[w]
      /\ \A w \in Workers : pc[w] \in PointedPCs => "device" \in hash[cur[w]]
  BY <1>0, <1>1 DEF LockInv, CopyKept, Core
<1>6. /\ \A w \in Workers : pc[w] \in {"create", "pointer", "userset", "suspend", "place", "attach"} => gwOf[cur[w]] = None
      /\ \A w \in Workers : pc[w] = "gateway" => gwOf[cur[w]] \in Gateways
      /\ \A w \in Workers : pc[w] \in NewPCs => ("platref" \in built[w] <=> platOf[cur[w]] # None)
      /\ \A w \in Workers : pc[w] \in {"pointer", "create", "userset", "suspend", "place"} => platOf[cur[w]] = None
      /\ \A s \in Sessions : "plugin" \in hash[s] => platOf[s] = None /\ gwOf[s] = None
      /\ \A s \in Sessions : s \in attached \/ gwOf[s] # None => platOf[s] # None
      /\ \A w \in Workers : pc[w] \in NewPCs /\ plugin[w] => platOf[cur[w]] = None /\ gwOf[cur[w]] = None
  BY DEF CompleteInv, BuiltKept, PluginApart
<1>7. \A o \in Writers : oPc[o] = "idle"
  BY DEF LockInv, GatewayKept, NobodyElse
<1>8. ~Fails("localid") /\ ~Fails("db") /\ ~Fails("detach") /\ ~Fails("activation") /\ ~Fails("gwlock")
  BY DEF Fails, UncleanFailures
<1>9. LockRespected
  BY DEF NobodyElse
<1>10. \A w \in Workers : At(w, "reload") /\ MayEnd(cur[w]) =>
          /\ "device" \in hash[cur[w]] /\ cur[w] \in Sessions
          /\ "plugin" \notin hash[cur[w]] => OnGateway(cur[w])
  BY <1>9, EndedIsComplete DEF Complete
<1>11. GoneKept
  BY DEF CleanInv
<1>12. /\ \A w \in Workers : At(w, "pointer") => "device" \in hash[cur[w]]
       /\ \A w \in Workers : At(w, "activation") /\ plugin[w] => cur[w] \notin attached
       /\ \A w \in Workers : At(w, "mark") /\ plugin[w] => cur[w] \notin attached
  BY <1>0, <1>1, <1>5, <1>6 DEF At, Core
<1>13. listed \in SUBSET Sessions /\ suspended \in [Sessions -> {"no", "later", "due"}] /\ attached \in SUBSET Sessions
  BY DEF TypeOK, StoreTypeOK, SharedTypeOK
<1>14. UserOf \in [Devices -> Users] /\ (\A s \in Sessions : hash[s] # {} => deviceOf[s] \in Devices)
  BY <1>0, <1>1
<1> USE DEF Me
<1>15. ASSUME NEW w \in Workers, Lock(w) PROVE GoneKept'
  BY <1>15, <1>0, <1>1, <1>3, <1>5, <1>6, <1>11, <1>13 DEF Lock, LockFree, Goto, GoneKept,
     Exists, UserOfSession, Sticky, At
<1>16. ASSUME NEW w \in Workers, LockRefused(w) PROVE GoneKept'
  BY <1>16, <1>0, <1>1, <1>3, <1>5, <1>6, <1>11, <1>13 DEF LockRefused, LockFree, Reset, Goto,
     GoneKept, Exists, UserOfSession, Sticky, At
<1>17. ASSUME NEW w \in Workers, Lookup(w) PROVE GoneKept'
  BY <1>17, <1>0, <1>1, <1>3, <1>5, <1>6, <1>11, <1>13 DEF Lookup, SessionOfUserDevice,
     Joinable, Goto, GoneKept, Exists, UserOfSession, Sticky, At
<1>18. ASSUME NEW w \in Workers, Join(w) PROVE GoneKept'
  <2>1. /\ UNCHANGED <<cur, built, userset, listed, suspended, attached, deviceOf>>
        /\ At(w, "join") /\ pc'[w] \in {"started", "unlock"} /\ \A x \in Workers \ {w} : pc'[x] = pc[x]
    BY <1>18, <1>0 DEF Join, Goto, At, ids, own, outside
  <2>2. \A s \in Sessions : hash[s] # {} => hash'[s] # {}
    <3>1. "device" \in hash[cur[w]] /\ cur[w] \in Sessions
      BY <2>1, <1>1, <1>5 DEF At
    <3> QED
      BY <1>18, <3>1, <1>0 DEF Join, Save, Saved, Sticky
  <2> QED
    BY <2>1, <2>2, <1>0, <1>11, <1>13 DEF GoneKept, Exists, UserOfSession, At
<1>19. ASSUME NEW w \in Workers, Limit(w) PROVE GoneKept'
  <2>1. /\ UNCHANGED <<built, userset, listed, suspended, attached, hash>>
        /\ At(w, "limit") /\ pc'[w] \in {"unlock", "create"} /\ \A x \in Workers \ {w} : pc'[x] = pc[x] /\ cur'[x] = cur[x]
        /\ pc'[w] = "create" => cur'[w] \in Sessions /\ deviceOf[cur'[w]] = None
        /\ \A s \in Sessions : deviceOf[s] # None => deviceOf'[s] = deviceOf[s]
    BY <1>19, <1>0 DEF Limit, Goto, At, keys, refs, outside
  <2>2. \A s \in Sessions : deviceOf[s] = None => hash[s] = {}
    BY <1>1
  <2>3. pc'[w] = "create" => cur'[w] \notin attached
    BY <2>1, <2>2, <1>11 DEF GoneKept, Exists
  <2>4. \A u \in Users : \A s \in userset'[u] : Exists(s)' /\ UserOfSession(s)' = u
    BY <2>1, <2>2, <1>0, <1>11 DEF GoneKept, Exists, UserOfSession
  <2> QED
    BY <2>1, <2>3, <2>4, <1>11 DEF GoneKept, Exists, At
<1>20. ASSUME NEW w \in Workers, CreateSession(w) PROVE GoneKept'
  BY <1>20, <1>0, <1>1, <1>3, <1>5, <1>6, <1>11, <1>13 DEF CreateSession, Create, Save, Saved,
     Goto, GoneKept, Exists, UserOfSession, Sticky, At
<1>21. ASSUME NEW w \in Workers, SetPointer(w) PROVE GoneKept'
  BY <1>21, <1>0, <1>1, <1>3, <1>5, <1>6, <1>11, <1>13 DEF SetPointer, Goto, GoneKept, Exists,
     UserOfSession, Sticky, At
<1>22. ASSUME NEW w \in Workers, AddToUser(w) PROVE GoneKept'
  BY <1>22, <1>0, <1>1, <1>3, <1>5, <1>6, <1>11, <1>13, <1>12 DEF AddToUser, Me, Goto, GoneKept,
     Exists, UserOfSession, Sticky, At
<1>23. ASSUME NEW w \in Workers, SuspendNew(w) PROVE GoneKept'
  BY <1>23, <1>0, <1>1, <1>3, <1>5, <1>6, <1>11, <1>13 DEF SuspendNew, Suspend, Save, Saved,
     Goto, GoneKept, Exists, UserOfSession, Sticky, At
<1>24. ASSUME NEW w \in Workers, Place(w) PROVE GoneKept'
  BY <1>24, <1>0, <1>1, <1>3, <1>5, <1>6, <1>11, <1>13 DEF Place, OrgRefuses, Note, Goto,
     GoneKept, Exists, UserOfSession, Sticky, At
<1>25. ASSUME NEW w \in Workers, Attach(w) PROVE GoneKept'
  BY <1>25, <1>0, <1>1, <1>3, <1>5, <1>6, <1>11, <1>13, SMTT(60) DEF Attach, findGateway, Note,
     Goto, GoneKept, Exists, UserOfSession, Sticky, At
<1>26. ASSUME NEW w \in Workers, CountOnGateway(w) PROVE GoneKept'
  BY <1>26, <1>0, <1>1, <1>3, <1>5, <1>6, <1>11, <1>13 DEF CountOnGateway, UpdateGWSessionScore,
     Note, Goto, GoneKept, Exists, UserOfSession, Sticky, At
<1>27. ASSUME NEW w \in Workers, ListOnPlatform(w) PROVE GoneKept'
  BY <1>27, <1>0, <1>1, <1>3, <1>5, <1>6, <1>11, <1>13, <1>8 DEF ListOnPlatform, Note, Goto,
     GoneKept, Exists, UserOfSession, Sticky, At
<1>28. ASSUME NEW w \in Workers, SaveSession(w) PROVE GoneKept'
  BY <1>28, <1>0, <1>1, <1>3, <1>5, <1>6, <1>11, <1>13 DEF SaveSession, Save, Saved, Goto,
     GoneKept, Exists, UserOfSession, Sticky, At
<1>29. ASSUME NEW w \in Workers, RecordDataCenter(w) PROVE GoneKept'
  BY <1>29, <1>0, <1>1, <1>3, <1>5, <1>6, <1>11, <1>13, <1>8 DEF RecordDataCenter, Me, Goto,
     GoneKept, Exists, UserOfSession, Sticky, At
<1>30. ASSUME NEW w \in Workers, Connect(w) PROVE GoneKept'
  BY <1>30, <1>0, <1>1, <1>3, <1>5, <1>6, <1>11, <1>13, <1>8 DEF Connect, ConnectedRow, Goto,
     GoneKept, Exists, UserOfSession, Sticky, At
<1>31. ASSUME NEW w \in Workers, CleanPlatform(w) PROVE GoneKept'
  BY <1>31, <1>0, <1>1, <1>3, <1>5, <1>6, <1>11, <1>13 DEF CleanPlatform, CleanReference,
     IncreaseReference, Goto, GoneKept, Exists, UserOfSession, Sticky, At
<1>32. ASSUME NEW w \in Workers, CleanUser(w) PROVE GoneKept'
  <2>1. /\ UNCHANGED <<cur, built, userset, listed, suspended, deviceOf, hash>>
        /\ At(w, "clean_user") /\ pc'[w] = "clean_gw" /\ \A x \in Workers \ {w} : pc'[x] = pc[x]
        /\ attached' = IF "attached" \in built[w] THEN attached \ {cur[w]} ELSE attached
    BY <1>32, <1>0, <1>8 DEF CleanUser, Goto, At, store, keys, ids, own
  <2>2. cur[w] \notin attached' /\ attached' \subseteq attached
    BY <2>1, <1>11 DEF GoneKept, At
  <2> QED
    BY <2>1, <2>2, <1>11 DEF GoneKept, Exists, UserOfSession, At
<1>33. ASSUME NEW w \in Workers, CleanGateway(w) PROVE GoneKept'
  BY <1>33, <1>0, <1>1, <1>3, <1>5, <1>6, <1>11, <1>13 DEF CleanGateway, UpdateGWSessionScore,
     Goto, GoneKept, Exists, UserOfSession, Sticky, At
<1>34. ASSUME NEW w \in Workers, Discard(w) PROVE GoneKept'
  BY <1>34, <1>0, <1>1, <1>3, <1>5, <1>6, <1>11, <1>13 DEF Discard, Del, Goto, GoneKept, Exists,
     UserOfSession, Sticky, At
<1>35. ASSUME NEW w \in Workers, Unlock(w) PROVE GoneKept'
  BY <1>35, <1>0, <1>1, <1>3, <1>5, <1>6, <1>11, <1>13 DEF Unlock, Goto, Reset, GoneKept,
     Exists, UserOfSession, Sticky, At
<1>36. ASSUME NEW w \in Workers, Revive(w) PROVE GoneKept'
  BY <1>36, <1>0, <1>1, <1>3, <1>5, <1>6, <1>11, <1>13 DEF Revive, Reset, Goto, GoneKept,
     Exists, UserOfSession, Sticky, At
<1>37. ASSUME NEW w \in Workers, Reload(w) PROVE GoneKept'
  BY <1>37, <1>0, <1>1, <1>3, <1>5, <1>6, <1>11, <1>13, <1>10 DEF Reload, MayEnd, Note, Goto,
     GoneKept, Exists, UserOfSession, Sticky, At
<1>38. ASSUME NEW w \in Workers, MarkDeleted(w) PROVE GoneKept'
  BY <1>38, <1>0, <1>1, <1>3, <1>5, <1>6, <1>11, <1>13, <1>12 DEF MarkDeleted, Save, Saved,
     Goto, GoneKept, Exists, UserOfSession, Sticky, At
<1>39. ASSUME NEW w \in Workers, Detach(w) PROVE GoneKept'
  BY <1>39, <1>0, <1>1, <1>3, <1>5, <1>6, <1>11, <1>13, <1>8 DEF Detach, Note, Goto, GoneKept,
     Exists, UserOfSession, Sticky, At
<1>40. ASSUME NEW w \in Workers, UnrefPlatform(w) PROVE GoneKept'
  BY <1>40, <1>0, <1>1, <1>3, <1>5, <1>6, <1>11, <1>13 DEF UnrefPlatform, Goto, GoneKept,
     Exists, UserOfSession, Sticky, At
<1>41. ASSUME NEW w \in Workers, DecreasePlatform(w) PROVE GoneKept'
  BY <1>41, <1>0, <1>1, <1>3, <1>5, <1>6, <1>11, <1>13 DEF DecreasePlatform, IncreaseReference,
     Goto, GoneKept, Exists, UserOfSession, Sticky, At
<1>42. ASSUME NEW w \in Workers, UpdateActivation(w) PROVE GoneKept'
  BY <1>42, <1>0, <1>1, <1>3, <1>5, <1>6, <1>11, <1>13, <1>8, <1>12 DEF UpdateActivation, Goto,
     GoneKept, Exists, UserOfSession, Sticky, At
<1>43. ASSUME NEW w \in Workers, UnrefGateway(w) PROVE GoneKept'
  BY <1>43, <1>0, <1>1, <1>3, <1>5, <1>6, <1>11, <1>13, <1>8 DEF UnrefGateway,
     UpdateGWSessionScore, Goto, GoneKept, Exists, UserOfSession, Sticky, At
<1>44. ASSUME NEW w \in Workers, DeleteSession(w) PROVE GoneKept'
  BY <1>44, <1>0, <1>1, <1>3, <1>5, <1>6, <1>11, <1>13 DEF DeleteSession, Del, Goto, GoneKept,
     Exists, UserOfSession, Sticky, At
<1>45. ASSUME NEW w \in Workers, ReportPlatform(w) PROVE GoneKept'
  BY <1>45, <1>0, <1>1, <1>3, <1>5, <1>6, <1>11, <1>13 DEF ReportPlatform, Goto, GoneKept,
     Exists, UserOfSession, Sticky, At
<1>46. ASSUME NEW w \in Workers, Disconnect(w) PROVE GoneKept'
  BY <1>46, <1>0, <1>1, <1>3, <1>5, <1>6, <1>11, <1>13 DEF Disconnect, Note, Goto, GoneKept,
     Exists, UserOfSession, Sticky, At
<1>47. ASSUME NEW w \in Workers, LastDevice(w) PROVE GoneKept'
  BY <1>47, <1>0, <1>1, <1>3, <1>5, <1>6, <1>11, <1>13 DEF LastDevice, Goto, GoneKept, Exists,
     UserOfSession, Sticky, At
<1>48. ASSUME NEW w \in Workers, ClearDataCenter(w) PROVE GoneKept'
  BY <1>48, <1>0, <1>1, <1>3, <1>5, <1>6, <1>11, <1>13 DEF ClearDataCenter, Me, Goto, GoneKept,
     Exists, UserOfSession, Sticky, At
<1>49. ASSUME NEW w \in Workers, ForgetDevice(w) PROVE GoneKept'
  BY <1>49, <1>0, <1>1, <1>3, <1>5, <1>6, <1>11, <1>13 DEF ForgetDevice, Reset, Goto, GoneKept,
     Exists, UserOfSession, Sticky, At
<1>50. ASSUME NEW w \in Workers, Crash(w) PROVE GoneKept'
  BY <1>50, <1>0, <1>1, <1>3, <1>5, <1>6, <1>11, <1>13, <1>4 DEF Crash, Reset, Goto, GoneKept,
     Exists, UserOfSession, Sticky, At
<1>51. ASSUME NEW w \in Workers, NEW d \in Devices, StartRequest(w, d) PROVE GoneKept'
  BY <1>51, <1>0, <1>1, <1>3, <1>5, <1>6, <1>11, <1>13 DEF StartRequest, StartSessionFromClient,
     StartSessionByDevice, Goto, GoneKept, Exists, UserOfSession, Sticky, At
<1>52. ASSUME NEW w \in Workers, NEW d \in Devices, AdminKill(w, d) PROVE GoneKept'
  BY <1>52, <1>0, <1>1, <1>3, <1>5, <1>6, <1>11, <1>13 DEF AdminKill, FindKilled, RemoveLock, LoadKilled, SessionOfUserDevice, Goto,
     Note, GoneKept, Exists, UserOfSession, Sticky, At
<1>53. ASSUME NEW w \in Workers, NEW s \in Sessions, EndRequest(w, s) PROVE GoneKept'
  BY <1>53, <1>0, <1>1, <1>3, <1>5, <1>6, <1>11, <1>13 DEF EndRequest, LogoutUser,
     CloseOtherSessions, Goto, GoneKept, Exists, UserOfSession, Sticky, At
<1>54. ASSUME NEW o \in Writers, OtherSave(o) PROVE GoneKept'
  BY <1>54, <1>0, <1>1, <1>3, <1>5, <1>6, <1>11, <1>13, <1>7 DEF OtherSave, Save, Saved,
     GoneKept, Exists, UserOfSession, Sticky, At
<1>55. ASSUME NEW o \in Writers, OtherSchedule(o) PROVE GoneKept'
  BY <1>55, <1>0, <1>1, <1>3, <1>5, <1>6, <1>11, <1>13, <1>7 DEF OtherSchedule, GoneKept,
     Exists, UserOfSession, Sticky, At
<1>56. ASSUME NEW o \in Writers, NEW s \in Sessions, OtherLoad(o, s) PROVE GoneKept'
  BY <1>56, <1>0, <1>1, <1>3, <1>5, <1>6, <1>11, <1>13, <1>7 DEF OtherLoad, Copy, GoneKept,
     Exists, UserOfSession, Sticky, At
<1>57. ASSUME NEW s \in Sessions, SuspendTimeout(s) PROVE GoneKept'
  BY <1>57, <1>0, <1>1, <1>3, <1>5, <1>6, <1>11, <1>13 DEF SuspendTimeout, GoneKept, Exists,
     UserOfSession, Sticky, At
<1>58. ASSUME NEW d \in Devices, LockExpires(d) PROVE GoneKept'
  BY <1>58, <1>0, <1>1, <1>3, <1>5, <1>6, <1>11, <1>13 DEF LockExpires, GoneKept, Exists,
     UserOfSession, Sticky, At
<1>59. CASE UNCHANGED vars
  <2>1. UNCHANGED <<pc, cur, plugin, built, userset, listed, suspended, attached, hash, deviceOf>>
    BY <1>59 DEF vars
  <2> QED
    BY <2>1, <1>0, <1>1, <1>3, <1>5, <1>6, <1>11, <1>13 DEF GoneKept, Exists, UserOfSession,
       Sticky, At
<1> QED
  BY <1>1, <1>2, <1>3, <1>4, <1>5, <1>6, <1>7, <1>8, <1>9, <1>10, <1>11, <1>12, <1>13, <1>14,
     <1>15, <1>16, <1>17, <1>18, <1>19, <1>20, <1>21, <1>22, <1>23, <1>24, <1>25, <1>26, <1>27,
     <1>28, <1>29, <1>30, <1>31, <1>32, <1>33, <1>34, <1>35, <1>36, <1>37, <1>38, <1>39, <1>40,
     <1>41, <1>42, <1>43, <1>44, <1>45, <1>46, <1>47, <1>48, <1>49, <1>50, <1>51, <1>52, <1>53,
     <1>54, <1>55, <1>56, <1>57, <1>58, <1>59 DEF Next, WorkerStep, StartStep, EndStep, OtherStep

----------------------------------------------------------------------------
(* The theorems about locked sessions.                                     *)

\* At the start all of it holds: there is no session and no handler at work.
LEMMA InitKept == Init => LockInv /\ CompleteInv /\ ScoreKept /\ CleanInv
<1> USE StoreAssumption, ControllerAssumption
<1> SUFFICES ASSUME Init PROVE LockInv /\ CompleteInv /\ ScoreKept /\ CleanInv
  OBVIOUS
<1> USE DEF Init, StoreInit
<1>1. \A w \in Workers : pc[w] \notin LockedPCs /\ pc[w] \notin NewPCs \cup PointedPCs
  BY DEF LockedPCs, NewPCs, PointedPCs, PartialPCs, EndingPCs
<1>2. LockInv
  <2>1. LockKept /\ PointerKept /\ CopyKept
    BY <1>1 DEF LockKept, PointerKept, CopyKept, At, NewPCs, EndingPCs, PartialPCs, PointedPCs
  <2>2. DeviceKept
    <3>1. \A s \in Sessions : hash[s] = {}
      OBVIOUS
    <3>2. \A d \in Devices : usersess[d] = None
      OBVIOUS
    <3> QED
      BY <3>1, <3>2 DEF DeviceKept, Core
  <2>3. GatewayKept
    BY DEF GatewayKept, Writers
  <2> QED
    BY <2>1, <2>2, <2>3 DEF LockInv
<1>3. CompleteInv
  BY <1>1 DEF CompleteInv, BuiltKept, PluginApart, CompleteKept, NewPCs, EndingPCs, PartialPCs,
     PointedPCs
<1>4. \A p \in Platforms : Counted(p) = {}
  BY DEF Counted
<1>5. \A g \in Gateways : gwlist[g] = {} /\ gwScore[g] = 0
  OBVIOUS
<1>6. GoneKept
  BY <1>1 DEF GoneKept, Exists, NewPCs, EndingPCs, PartialPCs, PointedPCs
<1>7. GatewaySetKept
  BY <1>1, <1>5, FS_EmptySet DEF GatewaySetKept, NewPCs, EndingPCs, PartialPCs, PointedPCs
<1> QED
  BY <1>2, <1>3, <1>4, <1>6, <1>7, FS_EmptySet DEF ScoreKept, CleanInv

\* The invariant of the locked sessions is inductive ...
LEMMA LockStep ==
    ASSUME LockRespected
    PROVE  TypeOK /\ SessionInv /\ LockInv /\ [Next]_vars => LockInv'
<1> SUFFICES ASSUME TypeOK, SessionInv, LockInv, [Next]_vars PROVE LockInv'
  OBVIOUS
<1> QED
  BY LockPreserved, PointerPreserved, DevicePreserved, CopyPreserved, GatewayPreserved DEF LockInv

\* ... and holds whatever fails, as long as a lock is respected.
LEMMA LockHolds == ASSUME LockRespected PROVE Spec => [](TypeOK /\ SessionInv /\ LockInv)
<1>1. Init => LockInv
  BY InitKept
<1> QED
  BY <1>1, LockStep, TypeCorrect, PTL DEF Spec

\* The same for complete sessions and the scores of the platforms, under it ...
LEMMA CompleteStep ==
    ASSUME LockRespected
    PROVE  TypeOK /\ SessionInv /\ LockInv /\ CompleteInv /\ ScoreKept /\ [Next]_vars
              => CompleteInv' /\ ScoreKept'
<1> SUFFICES ASSUME TypeOK, SessionInv, LockInv, CompleteInv, ScoreKept, [Next]_vars
             PROVE  CompleteInv' /\ ScoreKept'
  OBVIOUS
<1>1. CompleteInv'
  BY BuiltPreserved, PluginPreserved, CompletePreserved DEF CompleteInv
<1>2. ScoreKept'
  BY ScoreStepMoves, ScoreFollows
<1> QED
  BY <1>1, <1>2

\* ... whatever fails.
LEMMA CompleteHolds ==
    ASSUME LockRespected PROVE Spec => [](TypeOK /\ SessionInv /\ LockInv /\ CompleteInv /\ ScoreKept)
<1>1. Init => CompleteInv /\ ScoreKept
  BY InitKept
<1> QED
  BY <1>1, CompleteStep, LockHolds, PTL DEF Spec

\* And for the gateways and what is gone, when no failure skips the undoing ...
LEMMA CleanStep ==
    ASSUME NobodyElse, Failures \cap UncleanFailures = {}
    PROVE  TypeOK /\ SessionInv /\ LockInv /\ CompleteInv /\ CleanInv /\ [Next]_vars => CleanInv'
<1> SUFFICES ASSUME TypeOK, SessionInv, LockInv, CompleteInv, CleanInv, [Next]_vars PROVE CleanInv'
  OBVIOUS
<1>1. GoneKept'
  BY GonePreserved
<1>2. \A g \in Gateways : gwScore'[g] = Cardinality(gwlist'[g])
  BY GatewayStepMoves, GatewayScoreFollows DEF CleanInv, GatewaySetKept
<1>3. GatewaySetKept'
  BY <1>2, GatewaySetPreserved DEF GatewaySetKept
<1> QED
  BY <1>1, <1>3 DEF CleanInv

\* ... and nobody else writes to a session.
LEMMA CleanHolds ==
    ASSUME NobodyElse, Failures \cap UncleanFailures = {}
    PROVE  Spec => [](TypeOK /\ SessionInv /\ LockInv /\ CompleteInv /\ CleanInv)
<1>1. Init => CleanInv
  BY InitKept
<1>2. LockRespected
  BY DEF NobodyElse, LockRespected
<1> QED
  BY <1>1, <1>2, CleanStep, CompleteHolds, PTL DEF Spec

\* With no operation running, every hash of a device is the session its pointer leads to.
LEMMA SessionOfItsDevice ==
    ASSUME TypeOK, SessionInv, LockInv, CompleteInv, Quiet, NEW s \in Sessions, "device" \in hash[s]
    PROVE  usersess[deviceOf[s]] = s /\ Complete(s)
<1>1. deviceOf[s] \in Devices /\ s # None
  BY StoreAssumption DEF TypeOK, StoreTypeOK, SessionInv, StoreSound, Exists
<1>2. usersess[deviceOf[s]] = s
  BY DEF LockInv, DeviceKept, Quiet, At
<1>3. \A w \in Workers : pc[w] \notin PartialPCs
  BY DEF Quiet, At, PartialPCs, NewPCs, EndingPCs
<1> QED
  BY <1>1, <1>2, <1>3 DEF CompleteInv, CompleteKept

\* ... and a session with a platform or a gateway is placed.
LEMMA QuietSessions ==
    ASSUME TypeOK, SessionInv, LockInv, CompleteInv, Quiet, NEW s \in Sessions
    PROVE  platOf[s] # None \/ gwOf[s] # None => ("placed" \in hash[s] <=> "device" \in hash[s])
<1>1. "placed" \in hash[s] => "device" \in hash[s]
  BY DEF LockInv, DeviceKept, Core
<1>2. "device" \in hash[s] /\ (platOf[s] # None \/ gwOf[s] # None) => "placed" \in hash[s]
  BY SessionOfItsDevice DEF Complete, CompleteInv, PluginApart
<1> QED
  BY <1>1, <1>2

\* A device has at most one session hash (startSessionImp creates one only when the
\* pointer is free), whatever start, failure and end operations overlap, for any number
\* of handlers, as long as no process dies and nobody but the gateway writes a hash
\* without the lock.  killPlatform, which does, may write back a session whose end has
\* cleared the pointer, and the administrator's kill takes the lock away.
THEOREM DevicesHaveOneSession == ASSUME LockRespected PROVE Spec => []OneSessionPerDevice
<1>1. TypeOK /\ SessionInv /\ LockInv => OneSessionPerDevice
  <2> SUFFICES ASSUME TypeOK, SessionInv, LockInv, NEW s \in Sessions, NEW t \in Sessions,
                      "device" \in hash[s], "device" \in hash[t], deviceOf[s] = deviceOf[t]
               PROVE  s = t
    BY DEF OneSessionPerDevice
  <2>1. s # None /\ t # None
    BY StoreAssumption
  <2>2. ASSUME NEW w \in Workers, At(w, "pointer"), NEW x \in Sessions, cur[w] = x, deviceOf[x] = deviceOf[s]
        PROVE  dev[w] = deviceOf[s] /\ usersess[deviceOf[s]] = None /\ lock[deviceOf[s]] = w
    BY <2>1, <2>2, StoreAssumption DEF LockInv, PointerKept, LockKept, SessionInv, WorkerSound,
       At, LockedPCs, PCs, StartPCs
  <2> QED
    BY <2>1, <2>2 DEF LockInv, DeviceKept
<1> QED
  BY <1>1, LockHolds, PTL

\* At the end of a start the session is the handler's own and complete.
LEMMA StartsComplete ==
    ASSUME TypeOK, SessionInv, LockInv, CompleteInv PROVE StartedIsComplete
<1> USE StoreAssumption
<1> SUFFICES ASSUME NEW w \in Workers, At(w, "started")
             PROVE  LET s == cur[w] IN
                    /\ usersess[dev[w]] = s /\ s \in userset[Me(w)] /\ "device" \in hash[s]
                    /\ "plugin" \notin hash[s] =>
                          /\ "placed" \in hash[s]
                          /\ s \in attached
                          /\ s \in platlist[platOf[s]] /\ s \in gwlist[gwOf[s]]
  BY DEF StartedIsComplete
<1>1. dev[w] \in Devices /\ cur[w] \in Sessions /\ deviceOf[cur[w]] = dev[w]
  BY DEF SessionInv, WorkerSound, At
<1>2. usersess[dev[w]] = cur[w] /\ lock[dev[w]] = w
  BY DEF LockInv, PointerKept, LockKept, At, PointedPCs, LockedPCs, PCs, StartPCs
<1>3. "device" \in hash[cur[w]]
  BY <1>1, <1>2 DEF LockInv, DeviceKept
<1>4. \A x \in Workers : dev[x] = dev[w] => pc[x] \notin PartialPCs
  BY <1>2 DEF LockInv, LockKept, At, PartialPCs, NewPCs, EndingPCs, LockedPCs, PCs, StartPCs, EndPCs
<1>5. Complete(cur[w])
  BY <1>1, <1>2, <1>4 DEF CompleteInv, CompleteKept
<1> QED
  BY <1>1, <1>2, <1>3, <1>5 DEF Complete, OnPlatform, OnGateway, UserOfSession, Me

\* A start that reports success hands out a session that is complete (startSessionImp),
\* whatever fails before and whoever else starts and ends sessions.
THEOREM StartsAreComplete == ASSUME LockRespected PROVE Spec => []StartedIsComplete
<1>1. TypeOK /\ SessionInv /\ LockInv /\ CompleteInv => StartedIsComplete
  BY StartsComplete
<1> QED
  BY <1>1, CompleteHolds, PTL

\* With no operation running, the number of sessions redis has for a platform
\* (increaseReference of platform.js) is the number of its sessions: every failure of a
\* start and of an end takes back what was added, once.
THEOREM PlatformScoresMatch == ASSUME LockRespected PROVE Spec => []PlatformScoreMatches
<1>1. TypeOK /\ SessionInv /\ LockInv /\ CompleteInv /\ ScoreKept => PlatformScoreMatches
  <2> SUFFICES ASSUME TypeOK, SessionInv, LockInv, CompleteInv, ScoreKept, Quiet, NEW p \in Platforms
               PROVE  platScore[p] = Cardinality({s \in Sessions : platOf[s] = p /\ "placed" \in hash[s]})
    BY DEF PlatformScoreMatches
  <2>1. p # None
    BY StoreAssumption
  <2>2. \A w \in Workers : pc[w] \notin OffPCs
    BY DEF Quiet, At, OffPCs
  <2>3. Counted(p) = {s \in Sessions : platOf[s] = p /\ "placed" \in hash[s]}
    BY <2>1, <2>2, QuietSessions DEF Counted
  <2> QED
    BY <2>3 DEF ScoreKept
<1> QED
  BY <1>1, CompleteHolds, PTL

\* A start and an end are all or nothing: what was handed out is complete, what is over
\* is nowhere, and the sets and scores of the gateways say so, with the failures the code
\* undoes.  The others (UncleanFailures) are those after which it does not: a clean-up
\* after the gateway was counted counts it again (updateGWSessionScore with 1), and an
\* error of detachUser or of the activation skips the rest.
THEOREM NothingIsHalfDone ==
    ASSUME NobodyElse, Failures \cap UncleanFailures = {}
    PROVE  Spec => []AllOrNothing
<1>1. TypeOK /\ SessionInv /\ LockInv /\ CompleteInv /\ CleanInv => AllOrNothing
  <2> SUFFICES ASSUME TypeOK, SessionInv, LockInv, CompleteInv, CleanInv PROVE AllOrNothing
    OBVIOUS
  <2>1. GatewayScoreMatches
    <3> SUFFICES ASSUME Quiet, NEW g \in Gateways
                 PROVE  /\ gwlist[g] = {s \in Sessions : gwOf[s] = g /\ "placed" \in hash[s]}
                        /\ gwScore[g] = Cardinality(gwlist[g])
      BY DEF GatewayScoreMatches
    <3>1. g # None /\ gwlist[g] \in SUBSET Sessions
      BY StoreAssumption DEF TypeOK, StoreTypeOK
    <3>2. ASSUME NEW s \in Sessions, s \in gwlist[g] PROVE gwOf[s] = g /\ "placed" \in hash[s]
      BY <3>1, <3>2, QuietSessions DEF CleanInv, GatewaySetKept
    <3>3. ASSUME NEW s \in Sessions, gwOf[s] = g, "placed" \in hash[s] PROVE s \in gwlist[g]
      <4>1. "device" \in hash[s]
        BY <3>1, <3>3, QuietSessions
      <4>2. Complete(s) /\ "plugin" \notin hash[s]
        BY <3>1, <3>3, <4>1, SessionOfItsDevice DEF CompleteInv, PluginApart
      <4> QED
        BY <3>3, <4>2 DEF Complete, OnGateway
    <3> QED
      BY <3>1, <3>2, <3>3 DEF CleanInv, GatewaySetKept
  <2>2. GoneIsForgotten
    BY DEF GoneIsForgotten, CleanInv, GoneKept, Gone
  <2> QED
    BY <2>1, <2>2, StartsComplete DEF AllOrNothing
<1> QED
  BY <1>1, CleanHolds, PTL

\* A session hash appears only when startSessionImp creates it: with nobody else writing,
\* no late save of a handler brings a deleted session back.
THEOREM GoneSessionsStayGone == ASSUME NobodyElse PROVE Spec => NoResurrection
<1>1. LockRespected
  BY DEF NobodyElse, LockRespected
<1>2. TypeOK /\ SessionInv /\ LockInv /\ [Next]_vars
         => [\A s \in Sessions : ~Exists(s) /\ Exists(s)' => \E w \in Workers : At(w, "create") /\ cur[w] = s]_vars
  BY NobodyRevives
<1> QED
  BY <1>1, <1>2, LockHolds, PTL DEF Spec, NoResurrection
=============================================================================

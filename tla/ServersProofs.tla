---------------------------- MODULE ServersProofs ----------------------------
(***************************************************************************)
(* Proofs about Servers: what holds of pushes, of text messages, of plugins *)
(* and, with SettingsProofs, of the settings of a host, for any number of   *)
(* phones' rows, tokens, messages, processes, handlers and requests.  Each  *)
(* part has an inductive invariant, defined with it; the parts share no     *)
(* variable.                                                                *)
(***************************************************************************)
EXTENDS Servers, SettingsProofs, SequenceTheorems

-----------------------------------------------------------------------------
(* Pushes. *)

LEMMA PushStart == PushInit => PushInv
BY PushesAssumption DEF PushInit, PushInv, PushTypeOK, TokensAreSent, NeverTargeted,
   Tokens, Quiet0, NoPush

\* A push and the answers to it write only tokens that exist, and only to rows
\* that have one.
LEMMA PushStep == PushInv /\ [PushNext]_pushVars => PushInv'
<1> USE PushesAssumption DEF PushInv, PushTypeOK, TokensAreSent, NeverTargeted, Tokens,
        Quiet0, NoPush, PushAsked, PushDone
<1> SUFFICES ASSUME PushInv, [PushNext]_pushVars PROVE PushInv'
  OBVIOUS
<1>1. ASSUME NEW k \in Rows, RegisterRow(k) PROVE PushInv'
  BY <1>1 DEF RegisterRow, PushOps
<1>2. ASSUME NEW k \in Rows, FollowRow(k) PROVE PushInv'
  BY <1>2 DEF FollowRow
<1>3. ASSUME NEW k \in Rows, ApproveRow(k) PROVE PushInv'
  BY <1>3 DEF ApproveRow
<1>4. ASSUME NEW k \in Rows, ExpireRows(k) PROVE PushInv'
  BY <1>4 DEF ExpireRows
<1>5. ASSUME NEW k \in Rows, LoginReads(k) PROVE PushInv'
  <2>1. CASE regid[k] # liveToken
    <3>1. /\ conf' = [conf EXCEPT ![k] = [at |-> "write", regid |-> liveToken]]
          /\ pushesLeft' = [pushesLeft EXCEPT !["login"] = @ - 1] /\ pushesLeft["login"] > 0
          /\ UNCHANGED <<rowStatus, regid, liveToken, link, push, revived>>
      BY <1>5, <2>1 DEF LoginReads
    <3> QED
      BY <3>1 DEF PushOps
  <2>2. CASE regid[k] = liveToken
    BY <1>5, <2>2 DEF LoginReads, PushOps
  <2> QED
    BY <2>1, <2>2
<1>6. ASSUME NEW k \in Rows, LoginWrites(k) PROVE PushInv'
  BY <1>6 DEF LoginWrites
<1>7. ASSUME NEW k \in Rows, NEW p \in PushThreads, StartPush(p, k) PROVE PushInv'
  BY <1>7 DEF StartPush, PushOps
<1>8. ASSUME Rotate PROVE PushInv'
  BY <1>8 DEF Rotate, PushOps
<1>9. ASSUME NEW p \in PushThreads, SendPush(p) PROVE PushInv'
  <2> DEFINE token == regid[push[p].row]
  <2>1. token \in Tokens /\ push[p].row \in Rows
    BY <1>9 DEF SendPush
  <2>2. CASE token = 0
    <3>1. push' = [push EXCEPT ![p] = NoPush]
      BY <1>9, <2>2 DEF SendPush, TokenOf
    <3> QED
      BY <1>9, <3>1 DEF SendPush
  <2>3. CASE token # 0
    <3>1. push' = [push EXCEPT ![p] = [at |-> "sent", row |-> push[p].row, regid |-> token]]
      BY <1>9, <2>3 DEF SendPush, TokenOf
    <3> QED
      BY <1>9, <2>1, <2>3, <3>1 DEF SendPush
  <2> QED
    BY <2>2, <2>3
<1>10. ASSUME NEW p \in PushThreads, GatewayAnswers(p) PROVE PushInv'
  BY <1>10 DEF GatewayAnswers, SyncToken
<1>11. ASSUME NEW p \in PushThreads, GatewaySilent(p) PROVE PushInv'
  BY <1>11 DEF GatewaySilent
<1>12. CASE UNCHANGED pushVars
  BY <1>12 DEF pushVars
<1> QED
  BY <1>1, <1>2, <1>3, <1>4, <1>5, <1>6, <1>7, <1>8, <1>9, <1>10, <1>11, <1>12
  DEF PushNext, PushToUser, PushToAdmins, PushFromSession, PushFromWindow, RemoveSessionNotifications

(***************************************************************************)
(* An activation that a later one on the phone made expire keeps no token  *)
(* (activationLink.js), however late the pushes and the answers of the     *)
(* gateway are (Notifications.js), unless a login that had begun before    *)
(* writes one.                                                             *)
(***************************************************************************)
THEOREM ExpiredStayQuiet == Spec => []NeverTargeted
<1>1. Init => PushInv
  BY PushStart DEF Init
<1>2. PushInv /\ [Next]_vars => PushInv'
  BY PushStep DEF Next, vars, pushVars
<1>3. PushInv => NeverTargeted
  BY DEF PushInv
<1> QED
  BY <1>1, <1>2, <1>3, PTL DEF Spec
-----------------------------------------------------------------------------
(* Text messages. *)

LEMMA MessageStart == MessageInit => MessageInv
BY MessagesAssumption DEF MessageInit, MessageInv, MessageTypeOK, CarriedAlone, WaitsOnce,
   SessionsLook, SeenInTime, ToldTheTruth, Accounted, Carries, Delivered, Reachable, MessageAt, TextOf,
   NoRequest, SessionIds

\* Requests move on with their text, without handing it on.
LEMMA RequestsMove ==
    ASSUME MessageInv, NEW r \in MessageThreads, NEW place \in {"device", "session", "platform", "outside"},
           request[r].at \notin {"idle", "keep", "wake"}, MessageGoes(r, place),
           UNCHANGED <<fate, told, kept, phone, delivery, ofPlugin>>,
           messagesLeft' \in [MessageOps -> Nat]
    PROVE  MessageInv'
BY DEF MessageInv, MessageTypeOK, CarriedAlone, WaitsOnce, SessionsLook, SeenInTime, ToldTheTruth, Accounted,
   Carries, Delivered, Reachable, MessageAt, TextOf, MessageGoes

\* A request that goes on keeps its text and its sender.
LEMMA GoesWithIt ==
    ASSUME MessageTypeOK, NEW r \in MessageThreads, NEW place, MessageGoes(r, place)
    PROVE  request' = [request EXCEPT ![r] = [at |-> place, t |-> TextOf(r), from |-> request[r].from]]
<1>1. request[r] = [at |-> request[r].at, t |-> request[r].t, from |-> request[r].from]
  BY DEF MessageTypeOK
<1>2. [request[r] EXCEPT !.at = place] = [at |-> place, t |-> request[r].t, from |-> request[r].from]
  BY <1>1
<1> QED
  BY <1>2 DEF MessageGoes, TextOf

\* A text that somebody was told of is accounted for also when a request ends.
LEMMA ToldIsAccounted ==
    ASSUME MessageTypeOK, ToldTheTruth, NEW r \in MessageThreads,
           request[r].at \notin {"idle", "keep", "wake"}, TextOf(r) \in Texts,
           NEW f \in {"given", "outside", "refused", "unanswered", "dropped"},
           Fated(r, f), Answered(r), TextOf(r) \notin told,
           told' = told \/ (f \in {"given", "outside"} /\ told' = told \cup {TextOf(r)}),
           UNCHANGED <<kept, delivery>>, NEW x \in told'
    PROVE  Accounted(x)'
<1> DEFINE t == TextOf(r)
<1>1. t \in Texts /\ DOMAIN fate = Texts /\ fate' = [fate EXCEPT ![t] = f]
  BY DEF MessageTypeOK, Fated
<1>2. fate'[t] = f /\ \A y \in Texts \ {t} : fate'[y] = fate[y]
  BY <1>1
<1>3. CASE x = t
  BY <1>2, <1>3 DEF Accounted
<1>4. CASE x # t
  <2>1. x \in told /\ x \in Texts /\ Accounted(x)
    BY <1>4 DEF MessageTypeOK, ToldTheTruth
  <2>2. ASSUME NEW q \in MessageThreads, MessageAt(q, "keep"), TextOf(q) = x
        PROVE  MessageAt(q, "keep")' /\ TextOf(q)' = x
    BY <1>4, <2>2 DEF MessageTypeOK, MessageAt, TextOf, Answered
  <2> QED
    BY <1>2, <1>4, <2>1, <2>2 DEF Accounted
<1> QED
  BY <1>3, <1>4

\* A request ends with the fate of its text, and may tell the sender.
LEMMA TextEnds ==
    ASSUME MessageInv, NEW r \in MessageThreads, request[r].at \notin {"idle", "keep", "wake"},
           NEW f \in {"given", "outside", "refused", "unanswered", "dropped"},
           Fated(r, f), Answered(r), messagesLeft' \in [MessageOps -> Nat],
           told' = told \/ (f \in {"given", "outside"} /\ told' = told \cup {TextOf(r)}),
           UNCHANGED <<kept, phone, delivery, ofPlugin>>
    PROVE  MessageInv'
<1>0. ASSUME NEW x \in told' PROVE Accounted(x)'
  <2>1. MessageTypeOK /\ ToldTheTruth
    BY DEF MessageInv
  <2>2. TextOf(r) \in Texts /\ TextOf(r) \notin told
    BY DEF MessageInv, CarriedAlone, Carries, MessageAt, TextOf
  <2> QED
    BY <2>1, <2>2, ToldIsAccounted
<1> USE MessagesAssumption DEF MessageInv, MessageTypeOK, CarriedAlone, WaitsOnce,
        SessionsLook, SeenInTime, ToldTheTruth, Accounted, Carries, Delivered, Reachable, MessageAt, TextOf,
        Answered, Fated, SessionIds, NoRequest
<1> DEFINE t == request[r].t
<1>1. t \in Texts /\ fate[t] = "moving" /\ t \notin kept \cup told
  OBVIOUS
<1>2. fate' = [fate EXCEPT ![t] = f] /\ request' = [request EXCEPT ![r] = NoRequest]
  OBVIOUS
<1> HIDE DEF t
<1>3. MessageTypeOK'
  BY <1>1, <1>2
<1>4. CarriedAlone'
  BY <1>1, <1>2
<1>5. WaitsOnce'
  BY <1>1, <1>2
<1>6. SessionsLook'
  BY <1>1, <1>2
<1>7. SeenInTime'
  BY <1>1, <1>2
<1>8. ToldTheTruth'
  <2>1. ASSUME NEW x \in told' PROVE Accounted(x)'
    BY <1>0
  <2>2. \A x \in Texts : fate'[x] \notin {"moving", "unread"} =>
        x \notin kept' /\ \A n \in SessionIds : delivery'[n] # x
    BY <1>1, <1>2
  <2> QED
    BY <2>1, <2>2
<1> QED
  BY <1>3, <1>4, <1>5, <1>6, <1>7, <1>8

LEMMA MessageStep == ~SlowStore /\ MessageInv /\ [MessageNext]_messageVars => MessageInv'
<1> USE MessagesAssumption DEF MessageInv, MessageTypeOK, CarriedAlone, WaitsOnce, SessionsLook,
        SeenInTime, ToldTheTruth, Accounted, Carries, Delivered, Reachable, MessageAt, TextOf, FromUser,
        MessageGoes, Answered, Fated, MessageAsked, MessageFault, Tell, SessionIds, MessageOps, NoRequest
<1> SUFFICES ASSUME ~SlowStore, MessageInv, [MessageNext]_messageVars PROVE MessageInv'
  OBVIOUS
<1>1. ASSUME NEW r \in MessageThreads, NEW t \in Texts, NEW from \in {"provider", "user", "remote"},
             NEW place \in {"sender", "device", "outside"}, Accept(r, t, from, place), UNCHANGED ofPlugin
      PROVE MessageInv'
  <2>1. /\ fate' = [fate EXCEPT ![t] = "moving"] /\ fate[t] = "new" /\ request[r].at = "idle"
        /\ request' = [request EXCEPT ![r] = [at |-> place, t |-> t, from |-> from]]
        /\ messagesLeft' \in [MessageOps -> Nat]
        /\ UNCHANGED <<told, kept, phone, delivery, ofPlugin>>
    BY <1>1 DEF Accept
  <2>2. t \notin kept \cup told /\ \A n \in SessionIds : delivery[n] # t
    BY <2>1
  <2>3. \A q \in MessageThreads : ~Carries(q, t)
    BY <2>1
  <2>4. MessageTypeOK'
    BY <2>1, <2>2, <2>3
  <2>5. CarriedAlone'
    BY <2>1, <2>2, <2>3
  <2>6. WaitsOnce'
    BY <2>1, <2>2, <2>3
  <2>7. SessionsLook'
    BY <2>1, <2>2, <2>3
  <2>8. SeenInTime'
    BY <2>1, <2>2, <2>3
  <2>9. ToldTheTruth'
    BY <2>1, <2>2, <2>3
  <2> QED
    BY <2>4, <2>5, <2>6, <2>7, <2>8, <2>9
<1>2. ASSUME NEW r \in MessageThreads, Refuse(r), UNCHANGED ofPlugin, request[r].at \notin {"idle", "keep", "wake"},
             messagesLeft' \in [MessageOps -> Nat]
      PROVE MessageInv'
  BY <1>2, TextEnds DEF Refuse
<1>3. ASSUME NEW r \in MessageThreads, FindSender(r), UNCHANGED ofPlugin PROVE MessageInv'
  BY SMTT(120), <1>2, <1>3, RequestsMove DEF FindSender
<1>4. ASSUME NEW r \in MessageThreads, FindRecipient(r), UNCHANGED ofPlugin PROVE MessageInv'
  <2>1. request[r].at = "device" /\ messagesLeft' \in [MessageOps -> Nat]
    BY <1>4 DEF FindRecipient
  <2> QED
    BY <1>2, <1>4, <2>1, RequestsMove DEF FindRecipient
<1>5. ASSUME NEW r \in MessageThreads, FindSession(r), UNCHANGED ofPlugin PROVE MessageInv'
  <2>1. CASE Reachable(phone) /\ MessageGoes(r, "platform") /\ UNCHANGED <<fate, told, messagesLeft>>
    BY <1>5, <2>1, RequestsMove DEF FindSession
  <2>2. CASE ~Reachable(phone) /\ MessageGoes(r, "keep") /\ Tell(r) /\ UNCHANGED <<fate, messagesLeft>>
    <3>1. /\ request' = [request EXCEPT ![r] = [at |-> "keep", t |-> TextOf(r), from |-> request[r].from]]
          /\ request[r].at = "session"
          /\ phone.is # "running" /\ UNCHANGED <<fate, kept, phone, delivery, ofPlugin, messagesLeft>>
          /\ TextOf(r) \in Texts /\ (told' = told \/ told' = told \cup {TextOf(r)})
      BY <1>5, <2>2, GoesWithIt DEF FindSession
    <3>2. MessageTypeOK'
      BY <3>1
    <3>3. CarriedAlone'
      BY <3>1
    <3>4. WaitsOnce'
      BY <3>1
    <3>5. SessionsLook'
      BY <3>1
    <3>6. SeenInTime'
      BY <3>1
    <3>7. ToldTheTruth'
      <4>1. ASSUME NEW x \in told' PROVE Accounted(x)'
        BY <3>1
      <4>2. \A x \in Texts : fate'[x] \notin {"moving", "unread"} =>
            x \notin kept' /\ \A n \in SessionIds : delivery'[n] # x
        BY <3>1
      <4> QED
        BY <4>1, <4>2
    <3> QED
      BY <3>2, <3>3, <3>4, <3>5, <3>6, <3>7
  <2>3. CASE Reachable(phone) /\ MessageFault /\ Fated(r, "unread") /\ Tell(r) /\ MessageGoes(r, "keep")
    <3>1. /\ request' = [request EXCEPT ![r] = [at |-> "keep", t |-> TextOf(r), from |-> request[r].from]]
          /\ request[r].at = "session"
          /\ fate' = [fate EXCEPT ![TextOf(r)] = "unread"] /\ messagesLeft' \in [MessageOps -> Nat]
          /\ told' = told \/ told' = told \cup {TextOf(r)}
          /\ UNCHANGED <<kept, phone, delivery, ofPlugin>>
      <4>1. request' = [request EXCEPT ![r] = [at |-> "keep", t |-> TextOf(r), from |-> request[r].from]]
        BY <2>3, GoesWithIt
      <4>2. messagesLeft' \in [MessageOps -> Nat]
        BY <2>3
      <4>3. request[r].at = "session" /\ UNCHANGED <<kept, phone, delivery, ofPlugin>>
        BY <1>5 DEF FindSession
      <4> QED
        BY <2>3, <4>1, <4>2, <4>3
    <3>2. TextOf(r) \in Texts /\ fate[TextOf(r)] = "moving"
      BY <3>1
    <3>3. MessageTypeOK'
      BY <3>1, <3>2
    <3>4. CarriedAlone'
      BY <3>1, <3>2
    <3>5. WaitsOnce'
      BY <3>1, <3>2
    <3>6. SessionsLook'
      BY <3>1, <3>2
    <3>7. SeenInTime'
      BY <3>1, <3>2
    <3>8. ToldTheTruth'
      <4>1. ASSUME NEW x \in told' PROVE Accounted(x)'
        BY <3>1, <3>2
      <4>2. \A x \in Texts : fate'[x] \notin {"moving", "unread"} =>
            x \notin kept' /\ \A n \in SessionIds : delivery'[n] # x
        BY <3>1, <3>2
      <4> QED
        BY <4>1, <4>2
    <3> QED
      BY <3>3, <3>4, <3>5, <3>6, <3>7, <3>8
  <2> QED
    BY <1>5, <2>1, <2>2, <2>3 DEF FindSession
<1>6. ASSUME NEW r \in MessageThreads, GiveToPlatform(r), UNCHANGED ofPlugin PROVE MessageInv'
  <2>1. messagesLeft' \in [MessageOps -> Nat]
    <3>1. UNCHANGED messagesLeft \/ MessageFault
      BY ONLY <1>6 DEF GiveToPlatform
    <3> QED
      BY <3>1
  <2> QED
    BY <1>6, <2>1, TextEnds DEF GiveToPlatform
<1>7. ASSUME NEW r \in MessageThreads, KeepForLater(r), UNCHANGED ofPlugin PROVE MessageInv'
  <2> DEFINE t == TextOf(r)
  <2>1. /\ request' = [request EXCEPT ![r] = [at |-> "wake", t |-> t, from |-> request[r].from]]
        /\ request[r].at = "keep"
        /\ messagesLeft' \in [MessageOps -> Nat]
        /\ UNCHANGED <<told, phone, delivery, ofPlugin>>
    <3>1. request' = [request EXCEPT ![r] = [at |-> "wake", t |-> TextOf(r), from |-> request[r].from]]
      BY ZenonT(60), <1>7, GoesWithIt DEF KeepForLater
    <3>2. messagesLeft' \in [MessageOps -> Nat]
      BY <1>7 DEF KeepForLater
    <3>3. request[r].at = "keep" /\ UNCHANGED <<told, phone, delivery, ofPlugin>>
      BY <1>7 DEF KeepForLater
    <3> QED
      BY <3>1, <3>2, <3>3
  <2>2. t \in Texts /\ fate[t] \in {"moving", "unread"} /\ t \notin kept /\ ~Delivered(t)
        /\ \A q \in MessageThreads \ {r} : ~Carries(q, t)
        /\ (Reachable(phone) => delivery[phone.n] = "timer" \/ fate[t] = "unread")
    BY SMTT(60), <2>1
  <2>3. CASE kept' = kept \cup {t} /\ UNCHANGED fate
    <3>1. MessageTypeOK'
      BY <2>1, <2>2, <2>3
    <3>2. CarriedAlone'
      BY <2>1, <2>2, <2>3
    <3>3. WaitsOnce'
      BY <2>1, <2>2, <2>3
    <3>4. SessionsLook'
      BY <2>1, <2>2, <2>3
    <3>5. SeenInTime'
      BY <2>1, <2>2, <2>3
    <3>6. ToldTheTruth'
      <4>1. ASSUME NEW x \in told' PROVE Accounted(x)'
        BY <2>1, <2>2, <2>3
      <4>2. \A x \in Texts : fate'[x] \notin {"moving", "unread"} =>
            x \notin kept' /\ \A n \in SessionIds : delivery'[n] # x
        BY <2>1, <2>2, <2>3
      <4> QED
        BY <4>1, <4>2
    <3> QED
      BY <3>1, <3>2, <3>3, <3>4, <3>5, <3>6
  <2>4. CASE fate' = [fate EXCEPT ![t] = "dropped"] /\ UNCHANGED kept
    <3>1. MessageTypeOK'
      BY <2>1, <2>2, <2>4
    <3>2. CarriedAlone'
      BY <2>1, <2>2, <2>4
    <3>3. WaitsOnce'
      BY <2>1, <2>2, <2>4
    <3>4. SessionsLook'
      BY <2>1, <2>2, <2>4
    <3>5. SeenInTime'
      BY SMTT(60), <2>1, <2>2, <2>4
    <3>6. ToldTheTruth'
      <4>1. ASSUME NEW x \in told' PROVE Accounted(x)'
        BY SMTT(60), <2>1, <2>2, <2>4
      <4>2. \A x \in Texts : fate'[x] \notin {"moving", "unread"} =>
            x \notin kept' /\ \A n \in SessionIds : delivery'[n] # x
        BY <2>1, <2>2, <2>4
      <4> QED
        BY <4>1, <4>2
    <3> QED
      BY <3>1, <3>2, <3>3, <3>4, <3>5, <3>6
  <2> QED
    BY <1>7, <2>3, <2>4 DEF KeepForLater
<1>8. ASSUME NEW r \in MessageThreads, WakeUp(r), UNCHANGED ofPlugin PROVE MessageInv'
  <2>1. /\ request' = [request EXCEPT ![r] = NoRequest] /\ request[r].at = "wake"
        /\ \/ UNCHANGED phone
           \/ /\ phone.is = "none" /\ phone.n # LastSession
              /\ phone' = [n |-> phone.n + 1, is |-> "building"]
        /\ UNCHANGED <<fate, told, kept, delivery, messagesLeft, ofPlugin>>
    BY <1>8 DEF WakeUp, CannotStart
  <2>2. MessageTypeOK'
    BY <2>1
  <2>3. CarriedAlone'
    BY <2>1
  <2>4. WaitsOnce'
    BY <2>1
  <2>5. SessionsLook'
    BY <2>1
  <2>6. SeenInTime'
    BY <2>1
  <2>7. ToldTheTruth'
    BY <2>1
  <2> QED
    BY <2>2, <2>3, <2>4, <2>5, <2>6, <2>7
<1>9. ASSUME NEW r \in MessageThreads, SendSms(r), UNCHANGED ofPlugin PROVE MessageInv'
  <2>1. request[r].at = "outside" /\ messagesLeft' \in [MessageOps -> Nat]
    BY SMTT(60), <1>9 DEF SendSms, SendToRemoteServer, SendByProvider, SendByScript, Sent
  <2>2. ASSUME Sent(r) PROVE MessageInv'
    BY <1>9, <2>1, <2>2, TextEnds DEF Sent
  <2>3. ASSUME Fated(r, "unanswered"), Answered(r), UNCHANGED <<told, kept, phone, delivery>> PROVE MessageInv'
    BY <1>9, <2>1, <2>3, TextEnds
  <2> QED
    BY <1>2, <1>9, <2>1, <2>2, <2>3 DEF SendSms, SendToRemoteServer, SendByProvider, SendByScript
<1>10. ASSUME Connects, UNCHANGED ofPlugin PROVE MessageInv'
  BY <1>10 DEF Connects, CannotStart
<1>11. ASSUME Started PROVE MessageInv'
  <2>1. /\ phone.is = "building" /\ phone.n \in SessionIds
        /\ phone' \in [n : {phone.n}, is : {"running", "plugin"}]
        /\ ofPlugin' = IF phone'.is = "plugin" THEN ofPlugin \cup {phone.n} ELSE ofPlugin
        /\ delivery' = [delivery EXCEPT ![phone.n] = "timer"]
        /\ UNCHANGED <<fate, told, kept, request, messagesLeft>>
    BY <1>11 DEF Started
  <2>2. delivery[phone.n] = "no" /\ phone.n \notin ofPlugin
    BY <2>1
  <2>3. MessageTypeOK'
    BY <2>1, <2>2
  <2>4. CarriedAlone'
    BY <2>1, <2>2
  <2>5. WaitsOnce'
    BY <2>1, <2>2
  <2>6. SessionsLook'
    BY <2>1, <2>2
  <2>7. SeenInTime'
    BY <2>1, <2>2
  <2>8. ToldTheTruth'
    <3>1. ASSUME NEW x \in told' PROVE Accounted(x)'
      BY <2>1, <2>2
    <3>2. \A x \in Texts : fate'[x] \notin {"moving", "unread"} =>
          x \notin kept' /\ \A n \in SessionIds : delivery'[n] # x
      BY <2>1, <2>2
    <3> QED
      BY <3>1, <3>2
  <2> QED
    BY <2>3, <2>4, <2>5, <2>6, <2>7, <2>8
<1>12. ASSUME StartFails \/ Disconnects, UNCHANGED ofPlugin PROVE MessageInv'
  <2>1. /\ phone' = [phone EXCEPT !.is = "none"] /\ phone.is # "none"
        /\ messagesLeft' \in [MessageOps -> Nat]
        /\ UNCHANGED <<fate, told, kept, delivery, request, ofPlugin>>
    BY SMTT(60), <1>12 DEF StartFails, Disconnects
  <2>2. MessageTypeOK'
    BY <2>1
  <2>3. CarriedAlone'
    BY <2>1
  <2>4. WaitsOnce'
    BY <2>1
  <2>5. SessionsLook'
    BY <2>1
  <2>6. SeenInTime'
    BY <2>1
  <2>7. ToldTheTruth'
    BY <2>1
  <2> QED
    BY <2>2, <2>3, <2>4, <2>5, <2>6, <2>7
<1>13. ASSUME NEW n \in SessionIds, TimeIsUp(n), UNCHANGED ofPlugin PROVE MessageInv'
  BY <1>13 DEF TimeIsUp
<1>14. ASSUME NEW n \in SessionIds, Pop(n), UNCHANGED ofPlugin PROVE MessageInv'
  <2>1. delivery[n] = "pop" /\ UNCHANGED <<fate, told, phone, request, messagesLeft, ofPlugin>>
    BY <1>14 DEF Pop
  <2>2. ASSUME NEW t \in kept, kept' = kept \ {t}, delivery' = [delivery EXCEPT ![n] = t] PROVE MessageInv'
    <3>1. MessageTypeOK'
      BY <2>1, <2>2
    <3>2. CarriedAlone'
      BY <2>1, <2>2
    <3>3. WaitsOnce'
      BY <2>1, <2>2
    <3>4. SessionsLook'
      BY <2>1, <2>2
    <3>5. SeenInTime'
      BY <2>1, <2>2
    <3>6. ToldTheTruth'
      <4>1. ASSUME NEW x \in told' PROVE Accounted(x)'
        BY <2>1, <2>2
      <4>2. \A x \in Texts : fate'[x] \notin {"moving", "unread"} =>
            x \notin kept' /\ \A k \in SessionIds : delivery'[k] # x
        BY <2>1, <2>2
      <4> QED
        BY <4>1, <4>2
    <3> QED
      BY <3>1, <3>2, <3>3, <3>4, <3>5, <3>6
  <2>3. CASE kept = {} /\ delivery' = [delivery EXCEPT ![n] = "no"] /\ UNCHANGED kept
    <3>1. MessageTypeOK'
      BY <2>1, <2>3
    <3>2. CarriedAlone'
      BY <2>1, <2>3
    <3>3. WaitsOnce'
      BY <2>1, <2>3
    <3>4. SessionsLook'
      BY <2>1, <2>3
    <3>5. SeenInTime'
      BY <2>1, <2>3
    <3>6. ToldTheTruth'
      BY <2>1, <2>3
    <3> QED
      BY <3>1, <3>2, <3>3, <3>4, <3>5, <3>6
  <2> QED
    BY <1>14, <2>2, <2>3 DEF Pop
<1>15. ASSUME NEW n \in SessionIds, HandOver(n), UNCHANGED ofPlugin PROVE MessageInv'
  <2>1. PICK t \in Texts :
        /\ delivery[n] = t
        /\ \/ phone = [n |-> n, is |-> "running"] /\ fate' = [fate EXCEPT ![t] = "given"]
           \/ fate' = [fate EXCEPT ![t] = "dropped"]
        /\ messagesLeft' \in [MessageOps -> Nat]
        /\ delivery' = [delivery EXCEPT ![n] = IF n \in ofPlugin THEN "no" ELSE "pop"]
        /\ UNCHANGED <<told, kept, phone, request, ofPlugin>>
    <3>1. delivery' = [delivery EXCEPT ![n] = IF n \in ofPlugin THEN "no" ELSE "pop"]
      BY <1>15 DEF HandOver
    <3>2. messagesLeft' \in [MessageOps -> Nat] /\ UNCHANGED <<told, kept, phone, request, ofPlugin>>
      BY <1>15 DEF HandOver
    <3>3. delivery[n] \in Texts
      BY <1>15 DEF HandOver
    <3> QED
      BY <1>15, <3>1, <3>2, <3>3 DEF HandOver
  <2>2. t \notin kept /\ fate[t] \in {"moving", "unread"} /\ \A m \in SessionIds \ {n} : delivery[m] # t
    BY <2>1
  <2>3. \A r \in MessageThreads : ~Carries(r, t)
    BY SMTT(60), <2>1
  <2>4. MessageTypeOK'
    BY SMTT(60), <2>1, <2>2, <2>3
  <2>5. CarriedAlone'
    BY <2>1, <2>2, <2>3
  <2>6. WaitsOnce'
    BY SMTT(60), <2>1, <2>2, <2>3
  <2>7. SessionsLook'
    BY <2>1, <2>2, <2>3
  <2>8. SeenInTime'
    BY <2>1, <2>2, <2>3
  <2>9. ToldTheTruth'
    <3>1. ASSUME NEW x \in told PROVE Accounted(x)'
      <4>1. CASE x = t
        BY <2>1, <4>1
      <4>2. CASE x # t
        BY <2>1, <4>2
      <4> QED
        BY <4>1, <4>2
    <3>2. ASSUME NEW x \in Texts, fate'[x] \notin {"moving", "unread"}
          PROVE  x \notin kept' /\ \A m \in SessionIds : delivery'[m] # x
      <4>1. CASE x = t
        BY <2>1, <2>2, <4>1
      <4>2. CASE x # t
        BY <2>1, <3>2, <4>2
      <4> QED
        BY <4>1, <4>2
    <3> QED
      BY <2>1, <3>1, <3>2
  <2> QED
    BY <2>4, <2>5, <2>6, <2>7, <2>8, <2>9
<1>17. ASSUME NEW n \in SessionIds, PopFails(n), UNCHANGED ofPlugin PROVE MessageInv'
  <2>1. /\ delivery[n] = "pop" /\ delivery' = [delivery EXCEPT ![n] = "failed"]
        /\ messagesLeft' \in [MessageOps -> Nat]
        /\ UNCHANGED <<fate, told, kept, phone, request, ofPlugin>>
    BY <1>17 DEF PopFails
  <2>2. MessageTypeOK'
    BY <2>1
  <2>3. CarriedAlone'
    BY <2>1
  <2>4. WaitsOnce'
    BY <2>1
  <2>5. SessionsLook'
    BY <2>1
  <2>6. SeenInTime'
    BY <2>1
  <2>7. ToldTheTruth'
    BY <2>1
  <2> QED
    BY <2>2, <2>3, <2>4, <2>5, <2>6, <2>7
<1>16. CASE UNCHANGED messageVars
  BY <1>16 DEF messageVars
<1> QED
  BY <1>1, <1>3, <1>4, <1>5, <1>6, <1>7, <1>8, <1>9, <1>10, <1>11, <1>12, <1>13, <1>14, <1>15, <1>16,
     <1>17
  DEF MessageNext, PhoneStep, ReceiveSMS, PlatformUserSendSms, SendFromRemoteServer, SendSmsNotification

(***************************************************************************)
(* No message is forgotten or given twice, and no sender was misled        *)
(* (SmsNotification.js), when redis stores a message within the three      *)
(* seconds after which a new session looks for some.                       *)
(***************************************************************************)
THEOREM NothingForgotten == ~SlowStore => (Spec => []MessagesArrive)
<1> SUFFICES ASSUME ~SlowStore PROVE Spec => []MessagesArrive
  OBVIOUS
<1>1. Init => MessageInv
  BY MessageStart DEF Init
<1>2. MessageInv /\ [Next]_vars => MessageInv'
  BY MessageStep DEF Next, vars, messageVars
<1>3. MessageInv => MessagesArrive
  BY DEF MessageInv, MessagesArrive, NoneForgotten, SeenInTime, ToldTheTruth, Accounted, CarriedAlone, WaitsOnce,
     MessageTypeOK, Delivered, TextOf, MessageAt
<1> QED
  BY <1>1, <1>2, <1>3, PTL DEF Spec

-----------------------------------------------------------------------------
(* Plugins: the values that its operators work with. *)

LEMMA ValueTypes ==
    /\ InstalledRow \in PluginRow /\ NoThread \in PluginThread
    /\ \A item \in PluginRow : NewPlugin(item) \in PluginObject
    /\ \A v \in SecretValue : DecryptSecret(v, TRUE) \in SecretValue
    /\ \A v, w \in SecretValue, d \in BOOLEAN :
          EncryptSecret(v, d) \in SecretValue /\ KeepSecret(v, w, d) \in SecretValue
    /\ \A o \in PluginObject : /\ StoppedObj(o) \in PluginObject /\ OffObj(o) \in PluginObject
                               /\ RequiredObj(o) \in PluginObject
    /\ \A o \in PluginObject, code \in Nat : LoadedObj(o, code) \in PluginObject
    /\ \A o \in PluginObject, v \in SecretValue : EditedObj(o, v) \in PluginObject
    /\ \A o \in PluginObject, b \in BOOLEAN : SwitchedObj(o, b) \in PluginObject
<1> USE DEF SecretValue, SecretText, PluginRow, PluginObject
<1>1. InstalledRow \in PluginRow
  BY DEF InstalledRow, EmptySecret, Plain
<1>2. NoThread \in PluginThread
  BY <1>1 DEF NoThread, PluginThread, PluginPlaces
<1>3. \A v \in SecretValue : DecryptSecret(v, TRUE) \in SecretValue
  BY DEF DecryptSecret, Plain
<1>4. \A v, w \in SecretValue, d \in BOOLEAN :
          EncryptSecret(v, d) \in SecretValue /\ KeepSecret(v, w, d) \in SecretValue
  BY DEF EncryptSecret, KeepSecret, Cipher, Placeholder
<1>5. \A item \in PluginRow : NewPlugin(item) \in PluginObject
  BY DEF NewPlugin
<1>6. \A o \in PluginObject : StoppedObj(o) \in PluginObject /\ OffObj(o) \in PluginObject
  BY DEF StoppedObj, OffObj
<1>7. \A o \in PluginObject : RequiredObj(o) \in PluginObject
  BY <1>3 DEF RequiredObj
<1>8. \A o \in PluginObject, code \in Nat : LoadedObj(o, code) \in PluginObject
  <2> SUFFICES ASSUME NEW o \in PluginObject, NEW code \in Nat PROVE LoadedObj(o, code) \in PluginObject
    OBVIOUS
  <2> DEFINE r == RequiredObj(o)
  <2>1. r \in PluginObject
    BY <1>7
  <2>2. LoadedObj(o, code) = [r EXCEPT !.code = code, !.response = o.active, !.initialized = o.active]
    BY DEF LoadedObj
  <2> HIDE DEF r
  <2> QED
    BY <2>1, <2>2
<1>9. \A o \in PluginObject, v \in SecretValue : EditedObj(o, v) \in PluginObject
  <2> SUFFICES ASSUME NEW o \in PluginObject, NEW v \in SecretValue PROVE EditedObj(o, v) \in PluginObject
    OBVIOUS
  <2> DEFINE mine == KeepSecret(v, o.conf, o.desc)
             saved == EncryptSecret(KeepSecret(v, o.stored, o.desc), o.desc)
  <2>1. o.conf \in SecretValue /\ o.stored \in SecretValue /\ o.desc \in BOOLEAN
    OBVIOUS
  <2>2. mine \in SecretValue /\ saved \in SecretValue
    BY <1>4, <2>1
  <2>3. EditedObj(o, v) = [o EXCEPT !.conf = mine, !.stored = saved]
    BY DEF EditedObj
  <2> HIDE DEF mine, saved
  <2> QED
    BY <2>2, <2>3
<1>10. \A o \in PluginObject, b \in BOOLEAN : SwitchedObj(o, b) \in PluginObject
  BY DEF SwitchedObj
<1> QED
  BY <1>1, <1>2, <1>3, <1>4, <1>5, <1>6, <1>7, <1>8, <1>9, <1>10

\* What a handler that changes an object of a process leaves alone.
LEMMA ObjectChanges ==
    ASSUME PluginTypeOK, NEW p \in Processes, NEW n \in 1 .. Len(objs[p]), NEW o \in PluginObject,
           objs' = [objs EXCEPT ![p][n] = o]
    PROVE  /\ objs' \in [Processes -> Seq(PluginObject)]
           /\ \A q \in Processes : Len(objs'[q]) = Len(objs[q]) /\ (q # p => objs'[q] = objs[q])
           /\ objs'[p][n] = o
           /\ \A m \in 1 .. Len(objs[p]) : m # n => objs'[p][m] = objs[p][m]
<1>1. objs[p] \in Seq(PluginObject) /\ objs \in [Processes -> Seq(PluginObject)]
  BY DEF PluginTypeOK
<1>2. objs' = [objs EXCEPT ![p] = [objs[p] EXCEPT ![n] = o]]
  OBVIOUS
<1> DEFINE s == [objs[p] EXCEPT ![n] = o]
<1>3. s \in Seq(PluginObject) /\ Len(s) = Len(objs[p])
      /\ \A m \in 1 .. Len(objs[p]) : s[m] = IF m = n THEN o ELSE objs[p][m]
  BY <1>1, ExceptSeq
<1> HIDE DEF s
<1>4. objs' = [objs EXCEPT ![p] = s]
  BY <1>2 DEF s
<1> QED
  BY <1>1, <1>3, <1>4

ChangesObj(p, n, o) == objs' = [objs EXCEPT ![p][n] = o]

LEMMA ObjectChanged ==
    ASSUME PluginTypeOK, NEW p \in Processes, NEW n \in 1 .. Len(objs[p]), NEW o \in PluginObject,
           ChangesObj(p, n, o)
    PROVE  /\ \A q \in Processes : q # p => objs'[q] = objs[q]
           /\ objs'[p][n] = o
           /\ \A m \in 1 .. Len(objs[p]) : m # n => objs'[p][m] = objs[p][m]
<1>1. objs[p] \in Seq(PluginObject) /\ objs \in [Processes -> Seq(PluginObject)]
  BY DEF PluginTypeOK
<1>2. objs' = [objs EXCEPT ![p] = [objs[p] EXCEPT ![n] = o]]
  BY DEF ChangesObj
<1> DEFINE s == [objs[p] EXCEPT ![n] = o]
<1>3. s \in Seq(PluginObject) /\ Len(s) = Len(objs[p])
      /\ \A m \in 1 .. Len(objs[p]) : s[m] = IF m = n THEN o ELSE objs[p][m]
  BY <1>1, ExceptSeq
<1> HIDE DEF s
<1>4. objs' = [objs EXCEPT ![p] = s]
  BY <1>2 DEF s
<1>5. objs'[p] = s /\ \A q \in Processes : q # p => objs'[q] = objs[q]
  BY <1>1, <1>4
<1> QED
  BY <1>3, <1>5

\* A new object comes last.
LEMMA ObjectListed ==
    ASSUME PluginTypeOK, NEW p \in Processes, NEW o \in PluginObject,
           objs' = [objs EXCEPT ![p] = Append(@, o)]
    PROVE  /\ objs' \in [Processes -> Seq(PluginObject)]
           /\ \A q \in Processes : q # p => objs'[q] = objs[q]
           /\ Len(objs'[p]) = Len(objs[p]) + 1 /\ Len(objs[p]) \in Nat
           /\ objs'[p][Len(objs[p]) + 1] = o
           /\ \A m \in 1 .. Len(objs[p]) : objs'[p][m] = objs[p][m]
<1>1. objs[p] \in Seq(PluginObject) /\ objs \in [Processes -> Seq(PluginObject)]
  BY DEF PluginTypeOK
<1> DEFINE s == Append(objs[p], o)
<1>2. /\ s \in Seq(PluginObject) /\ Len(s) = Len(objs[p]) + 1 /\ s[Len(objs[p]) + 1] = o
      /\ \A m \in 1 .. Len(objs[p]) : s[m] = objs[p][m]
      /\ Len(objs[p]) \in Nat
  BY <1>1
<1> HIDE DEF s
<1>3. objs' = [objs EXCEPT ![p] = s]
  BY DEF s
<1>4. objs'[p] = s /\ \A q \in Processes : q # p => objs'[q] = objs[q]
  BY <1>1, <1>3
<1>5. objs' \in [Processes -> Seq(PluginObject)]
  BY <1>1, <1>2, <1>3
<1> QED
  BY <1>2, <1>4, <1>5

\* A message goes to the processes that have subscribed.
LEMMA Published ==
    ASSUME PluginTypeOK, NEW m \in {"init", "delete"}, Publish(m)
    PROVE  /\ chan' \in [Processes -> Seq({"init", "delete"})]
           /\ \A q \in Processes : chan[q] = <<>> =>
                 chan'[q] = IF subscribed[q] THEN <<m>> ELSE <<>>
           /\ \A q \in Processes : ~subscribed[q] => chan'[q] = chan[q]
           /\ \A q \in Processes : subscribed[q] => chan'[q] = Append(chan[q], m)
<1>1. chan \in [Processes -> Seq({"init", "delete"})]
  BY DEF PluginTypeOK
<1>2. \A q \in Processes : chan'[q] = IF subscribed[q] THEN Append(chan[q], m) ELSE chan[q]
  BY DEF Publish
<1>3. \A q \in Processes : chan[q] \in Seq({"init", "delete"}) /\ Append(chan[q], m) \in Seq({"init", "delete"})
  BY <1>1
<1>4. chan' \in [Processes -> Seq({"init", "delete"})]
  BY <1>2, <1>3 DEF Publish
<1>5. Append(<<>>, m) = <<m>>
  OBVIOUS
<1> QED
  BY <1>2, <1>4, <1>5

\* The objects of a process that are there.
LEMMA ObjectsThere ==
    ASSUME PluginTypeOK, NEW p \in Processes, NEW n \in 1 .. Len(objs[p])
    PROVE  objs[p][n] \in PluginObject
BY ElementOfSeq DEF PluginTypeOK

LEMMA StaysKnown ==
    ASSUME ObjectsKnown, NEW t \in PluginThreads,
           \A u \in PluginThreads \ {t} : thread'[u] = thread[u],
           \A q \in Processes : /\ Len(objs[q]) \in Nat /\ Len(objs'[q]) \in Nat
                                /\ Len(objs[q]) <= Len(objs'[q])
                                /\ current'[q] \in 0 .. Len(objs'[q]),
           ThreadKnown(thread[t])'
    PROVE  ObjectsKnown'
<1>1. ASSUME NEW u \in PluginThreads, u # t PROVE ThreadKnown(thread[u])'
  <2>1. thread'[u] = thread[u] /\ ThreadKnown(thread[u])
    BY <1>1 DEF ObjectsKnown
  <2>2. ASSUME thread[u].p \in Processes, thread[u].obj \in 0 .. Len(objs[thread[u].p])
        PROVE  thread[u].obj \in 0 .. Len(objs'[thread[u].p])
    BY <2>2
  <2> QED
    BY <2>1, <2>2 DEF ThreadKnown
<1> QED
  BY <1>1 DEF ObjectsKnown

LEMMA LengthsAreNat ==
    PluginTypeOK => \A q \in Processes : Len(objs[q]) \in Nat
BY DEF PluginTypeOK

LEMMA GoesKeeps ==
    ASSUME PluginTypeOK, NEW t \in PluginThreads, NEW place \in PluginPlaces, ThreadGoes(t, place)
    PROVE  /\ thread' \in [PluginThreads -> PluginThread] /\ thread'[t].at = place
           /\ thread'[t].p = thread[t].p /\ thread'[t].then = thread[t].then
           /\ thread'[t].obj = thread[t].obj /\ thread'[t].item = thread[t].item
           /\ \A u \in PluginThreads \ {t} : thread'[u] = thread[u]
<1>1. thread \in [PluginThreads -> PluginThread] /\ thread[t] \in PluginThread
  BY DEF PluginTypeOK
<1> DEFINE new == [thread[t] EXCEPT !.at = place]
<1>2. /\ new \in PluginThread /\ new.at = place /\ new.p = thread[t].p
      /\ new.then = thread[t].then /\ new.obj = thread[t].obj /\ new.item = thread[t].item
  BY <1>1 DEF PluginThread
<1>3. thread' = [thread EXCEPT ![t] = new]
  BY DEF ThreadGoes, ThreadMoves
<1> HIDE DEF new
<1> QED
  BY <1>1, <1>2, <1>3

\* A thread that is given something else to do.
LEMMA MovesKeeps ==
    ASSUME PluginTypeOK, NEW t \in PluginThreads,
           NEW new, thread' = [thread EXCEPT ![t] = new], new \in PluginThread
    PROVE  /\ thread' \in [PluginThreads -> PluginThread] /\ thread'[t] = new
           /\ \A u \in PluginThreads \ {t} : thread'[u] = thread[u]
BY DEF PluginTypeOK

LEMMA DoneKeeps ==
    ASSUME PluginTypeOK, NEW t \in PluginThreads, ThreadDone(t)
    PROVE  /\ thread' \in [PluginThreads -> PluginThread]
           /\ \A u \in PluginThreads \ {t} : thread'[u] = thread[u]
           /\ thread[t].then = "subscribe" =>
                 /\ thread'[t].at = "subscribe" /\ thread'[t].p = thread[t].p
                 /\ thread'[t].then = "subscribe" /\ thread'[t].obj = thread[t].obj
                 /\ thread'[t].item = thread[t].item
           /\ thread[t].then # "subscribe" => thread'[t] = NoThread
<1>1. thread \in [PluginThreads -> PluginThread] /\ thread[t] \in PluginThread
  BY DEF PluginTypeOK
<1>2. CASE thread[t].then = "subscribe"
  <2>1. ThreadGoes(t, "subscribe")
    BY <1>2 DEF ThreadDone, ThreadGoes
  <2> QED
    BY <2>1, <1>2, GoesKeeps DEF PluginPlaces
<1>3. CASE thread[t].then # "subscribe"
  <2>1. thread' = [thread EXCEPT ![t] = NoThread]
    BY <1>3 DEF ThreadDone, ThreadMoves
  <2> QED
    BY <2>1, <1>1, <1>3, ValueTypes
<1> QED
  BY <1>2, <1>3

\* What both ends of deinit share: the objects are those of before, the one at
\* hand perhaps without module and path.
LEMMA DeinitEnds ==
    ASSUME PluginTypeOK, ObjectsKnown, NEW t \in PluginThreads, FinishDeinit(t) \/ DeinitFails(t)
    PROVE  /\ thread[t].at = "deinit" /\ thread[t].p \in Processes
           /\ thread[t].obj \in 1 .. Len(objs[thread[t].p]) /\ thread[t].obj # 0
           /\ objs[thread[t].p][thread[t].obj] \in PluginObject
           /\ thread[t].then \in {"new", "drop", "place", "erase"}
           /\ UNCHANGED <<row, codeDir, chan, subscribed, made, typed>>
           /\ routes' = routes \/ \E r \in SUBSET Nat : routes' = [routes EXCEPT ![thread[t].p] = r]
           /\ triggers' = triggers \/ \E k \in Nat : triggers' = [triggers EXCEPT ![thread[t].p] = k]
           /\ cached' = cached \/ \E k \in Nat : cached' = [cached EXCEPT ![thread[t].p] = k]
           /\ asked' \in [PluginOps -> Nat] /\ astray \subseteq astray' /\ astray' \subseteq AllProcesses
           /\ \E off \in Seq(PluginObject) :
                 /\ Len(off) = Len(objs[thread[t].p]) /\ AfterDeinit(t, off)
                 /\ \A m \in 1 .. Len(objs[thread[t].p]) :
                       off[m] = objs[thread[t].p][m]
                       \/ (m = thread[t].obj /\ off[m] = OffObj(objs[thread[t].p][m]))
<1> DEFINE p == thread[t].p  n == thread[t].obj
<1>1. /\ ThreadKnown(thread[t]) /\ asked \in [PluginOps -> Nat] /\ astray \subseteq AllProcesses
      /\ objs \in [Processes -> Seq(PluginObject)] /\ routes \in [Processes -> SUBSET Nat]
      /\ triggers \in [Processes -> Nat] /\ cached \in [Processes -> Nat]
  BY DEF ObjectsKnown, PluginTypeOK
<1>2. thread[t].at = "deinit"
  BY DEF FinishDeinit, DeinitFails, ThreadAt
<1>3. p \in Processes /\ n \in 0 .. Len(objs[p]) /\ n # 0 /\ Len(objs[p]) \in Nat
      /\ thread[t].then \in {"new", "drop", "place", "erase"}
  BY <1>1, <1>2, LengthsAreNat DEF ThreadKnown, FolderPlaces
<1>4. n \in 1 .. Len(objs[p])
  BY <1>3, \A k \in Nat : \A m \in 0 .. k : m # 0 => m \in 1 .. k
<1>5. objs[p][n] \in PluginObject /\ objs[p] \in Seq(PluginObject)
  BY <1>1, <1>3, <1>4, ObjectsThere
<1>6. CASE FinishDeinit(t)
  <2> DEFINE off == [objs[p] EXCEPT ![n] = OffObj(@)]
  <2>1. /\ Unregister(p, n) /\ AfterDeinit(t, off)
        /\ UNCHANGED <<row, codeDir, chan, subscribed, made, typed, asked, astray>>
    BY <1>6 DEF FinishDeinit, outside
  <2>2. OffObj(objs[p][n]) \in PluginObject /\ off = [objs[p] EXCEPT ![n] = OffObj(objs[p][n])]
    BY <1>5, ValueTypes
  <2>3. /\ off \in Seq(PluginObject) /\ Len(off) = Len(objs[p])
        /\ \A m \in 1 .. Len(objs[p]) : off[m] = IF m = n THEN OffObj(objs[p][n]) ELSE objs[p][m]
    BY <1>4, <1>5, <2>2, ExceptSeq
  <2>4. /\ routes[p] \ {n} \in SUBSET Nat
        /\ routes' = [routes EXCEPT ![p] = routes[p] \ {n}]
    BY <2>1, <1>1, <1>3 DEF Unregister
  <2>5. \E k \in Nat : triggers' = [triggers EXCEPT ![p] = k]
    <3>1. /\ triggers' = [triggers EXCEPT ![p] = IF objs[p][n].response /\ triggers[p] > 0
                                                 THEN triggers[p] - 1 ELSE triggers[p]]
          /\ triggers[p] \in Nat
      BY <2>1, <1>1, <1>3 DEF Unregister
    <3>2. \A k \in Nat : k > 0 => k - 1 \in Nat
      OBVIOUS
    <3>3. CASE objs[p][n].response /\ triggers[p] > 0
      BY <3>1, <3>2, <3>3, Zenon
    <3>4. CASE ~(objs[p][n].response /\ triggers[p] > 0)
      BY <3>1, <3>4, Zenon
    <3> QED
      BY <3>3, <3>4
  <2>6. \E k \in Nat : cached' = [cached EXCEPT ![p] = k]
    <3>1. /\ cached' = [cached EXCEPT ![p] = IF objs[p][n].path THEN 0 ELSE cached[p]]
          /\ cached[p] \in Nat
      BY <2>1, <1>1, <1>3 DEF Unregister
    <3> QED
      BY <3>1
  <2> HIDE DEF off
  <2> QED
    BY <2>1, <2>3, <2>4, <2>5, <2>6, <1>1, <1>2, <1>3, <1>4, <1>5
<1>7. CASE DeinitFails(t)
  <2>1. /\ AfterDeinit(t, objs[p])
        /\ UNCHANGED <<row, codeDir, routes, triggers, cached, chan, subscribed, made, typed>>
    BY <1>7 DEF DeinitFails
  <2>2. /\ astray' = astray \cup {p}
        /\ asked["fault"] > 0 /\ asked' = [asked EXCEPT !["fault"] = @ - 1]
    BY <1>7 DEF DeinitFails, AskPlugin, ExcuseProcesses
  <2>3. asked' \in [PluginOps -> Nat] /\ astray' \subseteq AllProcesses
    BY <2>2, <1>1, <1>3 DEF PluginOps, AllProcesses
  <2> QED
    BY <2>1, <2>2, <2>3, <1>2, <1>3, <1>4, <1>5
<1> QED
  BY <1>6, <1>7

-----------------------------------------------------------------------------
(* Types and objects: each step. *)

\* The steps of init and deinit keep the types.
LEMMA ShapeOfInit ==
    ASSUME PluginTypeOK, ObjectsKnown, NEW t \in PluginThreads,
           \/ ClearFolder(t) \/ Install(t) \/ WriteHash(t) \/ Load(t) \/ InitFails(t)
           \/ FinishDeinit(t) \/ DeinitFails(t)
    PROVE  PluginTypeOK' /\ ObjectsKnown'
<1> DEFINE p == thread[t].p
           n == thread[t].obj
<1>1. /\ thread \in [PluginThreads -> PluginThread] /\ thread[t] \in PluginThread
      /\ ThreadKnown(thread[t]) /\ thread[t].item \in PluginRow /\ n \in Nat
      /\ row \in PluginRow /\ codeDir \in [Hosts -> Folder]
  BY DEF PluginTypeOK, ObjectsKnown, PluginThread
<1>2. \A q \in Processes : Len(objs[q]) \in Nat /\ current[q] \in 0 .. Len(objs[q]) /\ HostOf[q] \in Hosts
  BY PluginsAssumption, LengthsAreNat DEF ObjectsKnown
<1>3. thread[t].at # "idle" => p \in Processes /\ n \in 0 .. Len(objs[p])
  BY <1>1 DEF ThreadKnown
<1>4. ASSUME p \in Processes, n # 0, n \in 0 .. Len(objs[p])
      PROVE  objs[p][n] \in PluginObject /\ n \in 1 .. Len(objs[p])
  <2>1. n \in 1 .. Len(objs[p])
    BY <1>1, <1>2, <1>4
  <2> QED
    BY <2>1, <1>4, ObjectsThere
<1>5. NoThread \in PluginThread /\ NoThread.at = "idle"
  BY ValueTypes DEF NoThread
<1>6. ASSUME ClearFolder(t) PROVE PluginTypeOK' /\ ObjectsKnown'
  <2>1. codeDir' \in [Hosts -> Folder]
    BY <1>1, <1>2, <1>3, <1>6 DEF ClearFolder, ThreadAt, ThreadHost, NoFolder, Folder
  <2>2. /\ ThreadGoes(t, "install") /\ thread[t].at = "folder"
        /\ UNCHANGED <<objs, current, routes, triggers, cached, row, chan, subscribed, made, typed, astray, asked>>
    BY <1>6 DEF ClearFolder, ThreadAt, memory
  <2>3. PluginTypeOK' /\ \A u \in PluginThreads \ {t} : thread'[u] = thread[u]
    BY <2>1, <2>2, GoesKeeps DEF PluginTypeOK, PluginPlaces, FolderPlaces
  <2>4. /\ thread'[t].at = "install" /\ thread'[t].p = p
        /\ thread'[t].then = thread[t].then /\ thread'[t].obj = n
    BY <2>2, GoesKeeps DEF PluginPlaces, FolderPlaces
  <2>5. ThreadKnown(thread[t])'
    BY <1>1, <1>3, <2>1, <2>2, <2>2, <2>4 DEF ThreadKnown, FolderPlaces
  <2> QED
    BY <2>2, <2>3, <2>5, <1>2, StaysKnown
<1>7. ASSUME Install(t) PROVE PluginTypeOK' /\ ObjectsKnown'
  <2>1. /\ thread[t].at = "install"
        /\ UNCHANGED <<objs, current, routes, triggers, cached, row, chan, subscribed, made, typed, astray, asked>>
    BY <1>7 DEF Install, ThreadAt, memory
  <2>2. row.version \in Nat \ {0}
    BY <1>1 DEF PluginRow
  <2>3. CASE row.there /\ codeDir[ThreadHost(t)].there
    <3> DEFINE new == [thread[t] EXCEPT !.at = "hash", !.item.version = row.version]
    <3>1. /\ new \in PluginThread /\ new.at = "hash" /\ new.p = p /\ new.obj = n
          /\ new.then = thread[t].then
      BY <1>1, <2>2 DEF PluginThread, PluginPlaces, FolderPlaces, PluginRow
    <3>2. thread' = [thread EXCEPT ![t] = new]
      BY <1>7, <2>3 DEF Install, ThreadMoves
    <3>3. codeDir' = [codeDir EXCEPT ![ThreadHost(t)].code = row.version]
      BY <1>7, <2>3 DEF Install
    <3>4. codeDir' \in [Hosts -> Folder]
      BY <3>3, <1>1, <2>2 DEF Folder
    <3> HIDE DEF new
    <3>5. thread' \in [PluginThreads -> PluginThread] /\ thread'[t] = new
          /\ \A u \in PluginThreads \ {t} : thread'[u] = thread[u]
      BY <3>1, <3>2, MovesKeeps
    <3>6. PluginTypeOK'
      BY <2>1, <3>4, <3>5 DEF PluginTypeOK
    <3>7. ThreadKnown(thread[t])'
      BY <1>1, <2>1, <3>1, <3>5 DEF ThreadKnown, FolderPlaces
    <3> QED
      BY <2>1, <3>5, <3>6, <3>7, <1>2, StaysKnown
  <2>4. CASE ~(row.there /\ codeDir[ThreadHost(t)].there)
    <3>1. ThreadGoes(t, "load") /\ codeDir' = codeDir
      BY <1>7, <2>4 DEF Install
    <3>2. PluginTypeOK' /\ \A u \in PluginThreads \ {t} : thread'[u] = thread[u]
      BY <2>1, <3>1, GoesKeeps DEF PluginTypeOK, PluginPlaces, FolderPlaces
    <3>3. /\ thread'[t].at = "load" /\ thread'[t].p = p
          /\ thread'[t].then = thread[t].then /\ thread'[t].obj = n
      BY <3>1, GoesKeeps DEF PluginPlaces, FolderPlaces
    <3>4. ThreadKnown(thread[t])'
      BY <1>1, <1>3, <2>1, <2>2, <3>1, <3>3 DEF ThreadKnown, FolderPlaces
    <3> QED
      BY <2>1, <3>2, <3>4, <1>2, StaysKnown
  <2> QED
    BY <2>3, <2>4
<1>8. ASSUME WriteHash(t) PROVE PluginTypeOK' /\ ObjectsKnown'
  <2>1. codeDir' \in [Hosts -> Folder]
    <3>1. thread[t].item.version \in Nat
      BY <1>1 DEF PluginRow
    <3> QED
      BY <3>1, <1>1, <1>2, <1>3, <1>8 DEF WriteHash, ThreadAt, ThreadHost, Folder
  <2>2. /\ ThreadGoes(t, "load") /\ thread[t].at = "hash"
        /\ UNCHANGED <<objs, current, routes, triggers, cached, row, chan, subscribed, made, typed, astray, asked>>
    BY <1>8 DEF WriteHash, ThreadAt, memory
  <2>3. PluginTypeOK' /\ \A u \in PluginThreads \ {t} : thread'[u] = thread[u]
    BY <2>1, <2>2, GoesKeeps DEF PluginTypeOK, PluginPlaces, FolderPlaces
  <2>4. /\ thread'[t].at = "load" /\ thread'[t].p = p
        /\ thread'[t].then = thread[t].then /\ thread'[t].obj = n
    BY <2>2, GoesKeeps DEF PluginPlaces, FolderPlaces
  <2>5. ThreadKnown(thread[t])'
    BY <1>1, <1>3, <2>1, <2>2, <2>2, <2>4 DEF ThreadKnown, FolderPlaces
  <2> QED
    BY <2>2, <2>3, <2>5, <1>2, StaysKnown
<1>9. ASSUME Load(t) \/ InitFails(t) PROVE PluginTypeOK' /\ ObjectsKnown'
  <2>1. /\ ThreadDone(t) /\ thread[t].at \in {"folder", "load"}
        /\ UNCHANGED <<row, codeDir, current, chan, subscribed, made, typed>>
    BY <1>9 DEF Load, InitFails, ReadyToLoad, ThreadAt, memory, outside
  <2>2. p \in Processes /\ n \in 1 .. Len(objs[p]) /\ ThreadObj(t) \in PluginObject
        /\ codeDir[ThreadHost(t)].code \in Nat /\ cached \in [Processes -> Nat]
    BY <2>1, <1>1, <1>2, <1>3, <1>4 DEF ThreadKnown, FolderPlaces, ThreadObj, ThreadHost, Folder, PluginTypeOK
  <2>3. /\ objs' \in [Processes -> Seq(PluginObject)] /\ \A q \in Processes : Len(objs'[q]) = Len(objs[q])
        /\ routes' \in [Processes -> SUBSET Nat] /\ triggers' \in [Processes -> Nat]
        /\ cached' \in [Processes -> Nat] /\ astray' \subseteq AllProcesses /\ asked' \in [PluginOps -> Nat]
    <3> DEFINE here == codeDir[ThreadHost(t)].code
               code == IF cached[p] = 0 THEN here ELSE cached[p]
    <3>1. CASE Load(t) /\ here = 0
      BY <3>1 DEF Load, memory, PluginTypeOK, outside
    <3>2. CASE Load(t) /\ here # 0
      <4>1. code \in Nat
        BY <2>2
      <4>2. /\ cached' = [cached EXCEPT ![p] = code]
            /\ objs' = [objs EXCEPT ![p][n] = LoadedObj(ThreadObj(t), code)]
            /\ routes' = [routes EXCEPT ![p] = IF ThreadObj(t).active THEN @ \cup {n} ELSE @]
            /\ triggers' = [triggers EXCEPT ![p] = IF ThreadObj(t).active THEN @ + 1 ELSE @]
            /\ astray' = astray /\ asked' = asked
        BY <3>2 DEF Load, outside, ThreadObj
      <4>3. LoadedObj(ThreadObj(t), code) \in PluginObject
        BY <4>1, <2>2, ValueTypes
      <4>4. objs' \in [Processes -> Seq(PluginObject)] /\ \A q \in Processes : Len(objs'[q]) = Len(objs[q])
        BY <4>2, <4>3, <2>2, ObjectChanges
      <4> HIDE DEF code
      <4> QED
        BY SMTT(60), <4>1, <4>2, <4>4, <1>1, <2>2 DEF PluginTypeOK
    <3>3. CASE InitFails(t)
      <4>1. /\ objs' = [objs EXCEPT ![p][n] = RequiredObj(ThreadObj(t))]
            /\ cached' = [cached EXCEPT ![p] = IF @ = 0 THEN here ELSE @]
            /\ routes' = routes /\ triggers' = triggers /\ astray' = astray \cup AllProcesses
            /\ asked' = [asked EXCEPT !["fault"] = @ - 1] /\ asked["fault"] > 0
        BY <3>3 DEF InitFails, ThreadObj, AskPlugin, ExcuseProcesses
      <4>2. RequiredObj(ThreadObj(t)) \in PluginObject
        BY <2>2, ValueTypes
      <4>3. objs' \in [Processes -> Seq(PluginObject)] /\ \A q \in Processes : Len(objs'[q]) = Len(objs[q])
        BY <4>1, <4>2, <2>2, ObjectChanges
      <4>4. here \in Nat /\ asked \in [PluginOps -> Nat] /\ astray \subseteq AllProcesses
            /\ routes \in [Processes -> SUBSET Nat] /\ triggers \in [Processes -> Nat]
        BY <2>2 DEF PluginTypeOK
      <4>5. cached' \in [Processes -> Nat]
        BY <4>1, <4>4, <2>2
      <4>6. asked' \in [PluginOps -> Nat]
        BY <4>1, <4>4 DEF PluginOps
      <4> QED
        BY <4>1, <4>3, <4>4, <4>5, <4>6
    <3> QED
      BY <3>1, <3>2, <3>3, <1>9
  <2>4. PluginTypeOK' /\ \A u \in PluginThreads \ {t} : thread'[u] = thread[u]
    BY <2>1, <2>3, DoneKeeps DEF PluginTypeOK
  <2>5. ThreadKnown(thread[t])'
    <3>1. CASE thread[t].then = "subscribe"
      <4>1. /\ thread'[t].at = "subscribe" /\ thread'[t].p = p
            /\ thread'[t].then = "subscribe" /\ thread'[t].obj = n
        BY <2>1, <3>1, DoneKeeps
      <4> QED
        BY <4>1, <2>1, <2>2, <2>3, <1>3, <1>2 DEF ThreadKnown, FolderPlaces
    <3>2. CASE thread[t].then # "subscribe"
      <4>1. thread'[t] = NoThread
        BY <2>1, <3>2, DoneKeeps
      <4> QED
        BY <4>1, <1>5 DEF ThreadKnown
    <3> QED
      BY <3>1, <3>2
  <2>6. \A q \in Processes : /\ Len(objs'[q]) = Len(objs[q]) /\ current'[q] = current[q]
    BY <2>1, <2>3
  <2>7. \A q \in Processes : /\ Len(objs[q]) \in Nat /\ Len(objs'[q]) \in Nat
                             /\ Len(objs[q]) <= Len(objs'[q]) /\ current'[q] \in 0 .. Len(objs'[q])
    BY <2>6, <1>2
  <2> QED
    BY <2>4, <2>5, <2>7, StaysKnown
<1>10. ASSUME FinishDeinit(t) \/ DeinitFails(t) PROVE PluginTypeOK' /\ ObjectsKnown'
  <2> DEFINE new == NewPlugin(thread[t].item)
  <2>1. thread[t].at = "deinit" /\ UNCHANGED <<row, codeDir, chan, subscribed, made, typed>>
        /\ asked' \in [PluginOps -> Nat] /\ astray' \subseteq AllProcesses
    BY <1>10, DeinitEnds
  <2>2. p \in Processes /\ n \in 1 .. Len(objs[p]) /\ n # 0 /\ objs[p][n] \in PluginObject
        /\ thread[t].then \in {"new", "drop", "place", "erase"}
    BY <1>10, DeinitEnds
  <2>3. routes' \in [Processes -> SUBSET Nat] /\ triggers' \in [Processes -> Nat] /\ cached' \in [Processes -> Nat]
    <3>1. /\ routes' = routes \/ \E r \in SUBSET Nat : routes' = [routes EXCEPT ![p] = r]
          /\ triggers' = triggers \/ \E k \in Nat : triggers' = [triggers EXCEPT ![p] = k]
          /\ cached' = cached \/ \E k \in Nat : cached' = [cached EXCEPT ![p] = k]
      BY <1>10, DeinitEnds
    <3>2. /\ routes \in [Processes -> SUBSET Nat] /\ triggers \in [Processes -> Nat]
          /\ cached \in [Processes -> Nat]
      BY DEF PluginTypeOK
    <3>3. routes' \in [Processes -> SUBSET Nat]
      BY <3>1, <3>2
    <3>4. triggers' \in [Processes -> Nat]
      BY <3>1, <3>2
    <3>5. cached' \in [Processes -> Nat]
      BY <3>1, <3>2
    <3> QED
      BY <3>3, <3>4, <3>5
  <2> PICK off \in Seq(PluginObject) : Len(off) = Len(objs[p]) /\ AfterDeinit(t, off)
    BY <1>10, DeinitEnds
  <2>4. new \in PluginObject
    BY <1>1, ValueTypes
  <2>5. Append(off, new) \in Seq(PluginObject) /\ Len(Append(off, new)) = Len(objs[p]) + 1
    BY <2>4
  <2>6. /\ thread[t].then = "new" =>
              /\ objs' = [objs EXCEPT ![p] = Append(off, new)]
              /\ current' = [current EXCEPT ![p] = Len(off) + 1] /\ ThreadMoves(t, StartingObj(t))
        /\ thread[t].then = "drop" =>
              objs' = [objs EXCEPT ![p] = off] /\ current' = [current EXCEPT ![p] = 0] /\ ThreadMoves(t, NoThread)
        /\ thread[t].then \in {"place", "erase"} =>
              objs' = [objs EXCEPT ![p] = off] /\ current' = current /\ ThreadGoes(t, thread[t].then)
    BY <2>2 DEF AfterDeinit
  <2> HIDE DEF new
  <2>7. objs \in [Processes -> Seq(PluginObject)] /\ current \in [Processes -> Nat]
    BY DEF PluginTypeOK
  <2>8. CASE thread[t].then = "new"
    <3> DEFINE go == StartingObj(t)
    <3>1. /\ go \in PluginThread /\ go.at = "folder" /\ go.then = "" /\ go.p = p
          /\ go.obj = Len(objs[p]) + 1
      <4>1. Len(objs[p]) + 1 \in Nat
        BY <1>2, <2>2
      <4> QED
        BY <4>1, <1>1, <2>2 DEF StartingObj, PluginThread, PluginPlaces, FolderPlaces
    <3>2. thread' = [thread EXCEPT ![t] = go]
      BY <2>6, <2>8 DEF ThreadMoves
    <3> HIDE DEF go
    <3>3. thread' \in [PluginThreads -> PluginThread] /\ thread'[t] = go
          /\ \A u \in PluginThreads \ {t} : thread'[u] = thread[u]
      BY <3>1, <3>2, MovesKeeps
    <3>4. /\ objs' \in [Processes -> Seq(PluginObject)] /\ current' \in [Processes -> Nat]
          /\ Len(objs'[p]) = Len(objs[p]) + 1 /\ current'[p] = Len(objs[p]) + 1
          /\ \A q \in Processes \ {p} : objs'[q] = objs[q] /\ current'[q] = current[q]
      <4>1. /\ objs' = [objs EXCEPT ![p] = Append(off, new)] /\ Len(off) + 1 \in Nat
            /\ current' = [current EXCEPT ![p] = Len(off) + 1] /\ Len(off) = Len(objs[p])
        BY <2>2, <2>4, <2>6, <2>8, <1>2
      <4>2. objs'[p] = Append(off, new) /\ current'[p] = Len(off) + 1
        BY <4>1, <2>2, <2>7
      <4>3. objs' \in [Processes -> Seq(PluginObject)] /\ current' \in [Processes -> Nat]
        BY <4>1, <2>5, <2>7
      <4>4. \A q \in Processes \ {p} : objs'[q] = objs[q] /\ current'[q] = current[q]
        BY <4>1, <2>7
      <4> QED
        BY <4>1, <4>2, <4>3, <4>4, <2>5
    <3>5. ThreadKnown(thread[t])'
      <4>1. /\ thread'[t].at = "folder" /\ thread'[t].then = "" /\ thread'[t].p = p
            /\ thread'[t].obj = Len(objs[p]) + 1 /\ thread'[t].obj \in 0 .. Len(objs'[p])
            /\ thread'[t].obj # 0
        <5>1. thread'[t] = go /\ go.at = "folder" /\ go.then = "" /\ go.p = p /\ go.obj = Len(objs[p]) + 1
          BY <3>1, <3>3
        <5>2. Len(objs[p]) \in Nat /\ Len(objs'[p]) = Len(objs[p]) + 1
          BY <3>4, <2>2, <1>2
        <5>3. go.obj \in 0 .. Len(objs'[p]) /\ go.obj # 0
          <6>1. \A k \in Nat : k + 1 \in 0 .. k + 1 /\ k + 1 # 0
            OBVIOUS
          <6> QED
            BY <6>1, <5>1, <5>2
        <5> QED
          BY <5>1, <5>3
      <4> QED
        BY <4>1, <2>2 DEF ThreadKnown, FolderPlaces
    <3>6. PluginTypeOK'
      BY <2>1, <2>3, <3>3, <3>4 DEF PluginTypeOK
    <3>7. \A q \in Processes : /\ Len(objs[q]) \in Nat /\ Len(objs'[q]) \in Nat
                               /\ Len(objs[q]) <= Len(objs'[q]) /\ current'[q] \in 0 .. Len(objs'[q])
      <4> SUFFICES ASSUME NEW q \in Processes
                   PROVE  /\ Len(objs[q]) \in Nat /\ Len(objs'[q]) \in Nat
                          /\ Len(objs[q]) <= Len(objs'[q]) /\ current'[q] \in 0 .. Len(objs'[q])
        OBVIOUS
      <4>1. CASE q = p
        <5>1. Len(objs[p]) \in Nat /\ Len(objs'[p]) = Len(objs[p]) + 1 /\ current'[p] = Len(objs[p]) + 1
          BY <3>4, <2>2, <1>2
        <5> QED
          BY <5>1, <4>1
      <4>2. CASE q # p
        <5>1. /\ objs'[q] = objs[q] /\ current'[q] = current[q] /\ Len(objs[q]) \in Nat
              /\ current[q] \in 0 .. Len(objs[q])
          BY <4>2, <3>4, <1>2
        <5> QED
          BY <5>1
      <4> QED
        BY <4>1, <4>2
    <3> QED
      BY <3>3, <3>5, <3>6, <3>7, StaysKnown
  <2>9. CASE thread[t].then # "new"
    <3>1. /\ objs' \in [Processes -> Seq(PluginObject)] /\ current' \in [Processes -> Nat]
          /\ \A q \in Processes : Len(objs'[q]) = Len(objs[q]) /\ current'[q] \in {current[q], 0}
      <4>1. /\ objs' = [objs EXCEPT ![p] = off]
            /\ current' = [current EXCEPT ![p] = 0] \/ current' = current
        BY <2>2, <2>6, <2>9
      <4>2. objs' \in [Processes -> Seq(PluginObject)] /\ \A q \in Processes : Len(objs'[q]) = Len(objs[q])
        BY <4>1, <2>2, <2>4, <2>7
      <4>3. current' \in [Processes -> Nat] /\ \A q \in Processes : current'[q] \in {current[q], 0}
        <5>1. CASE current' = current
          BY <5>1, <2>7
        <5>2. CASE current' = [current EXCEPT ![p] = 0]
          BY <5>2, <2>7
        <5> QED
          BY <5>1, <5>2, <4>1
      <4> QED
        BY <4>2, <4>3
    <3>2. /\ thread' \in [PluginThreads -> PluginThread] /\ ThreadKnown(thread[t])'
          /\ \A u \in PluginThreads \ {t} : thread'[u] = thread[u]
      <4>1. CASE thread[t].then = "drop"
        <5>1. thread' = [thread EXCEPT ![t] = NoThread]
          BY <2>6, <4>1 DEF ThreadMoves
        <5>2. thread'[t] = NoThread
          BY <5>1, <1>1
        <5> QED
          BY <5>1, <5>2, <1>1, <1>5 DEF ThreadKnown
      <4>2. CASE thread[t].then \in {"place", "erase"}
        <5>1. /\ thread'[t].at = thread[t].then /\ thread'[t].p = p
              /\ thread'[t].then = thread[t].then /\ thread'[t].obj = n
              /\ thread' \in [PluginThreads -> PluginThread]
              /\ \A u \in PluginThreads \ {t} : thread'[u] = thread[u]
          BY <4>2, <2>6, GoesKeeps DEF PluginPlaces, RequestPlaces
        <5> QED
          <6>1. n \in 0 .. Len(objs'[p]) /\ n # 0
            BY <3>1, <2>2, <1>2
          <6> QED
            BY <6>1, <5>1, <4>2, <2>2 DEF ThreadKnown, FolderPlaces
      <4> QED
        BY <4>1, <4>2, <2>2, <2>9
    <3>3. PluginTypeOK'
      BY <2>1, <2>3, <3>1, <3>2 DEF PluginTypeOK
    <3>4. \A q \in Processes : /\ Len(objs[q]) \in Nat /\ Len(objs'[q]) \in Nat
                               /\ Len(objs[q]) <= Len(objs'[q]) /\ current'[q] \in 0 .. Len(objs'[q])
      <4>1. ASSUME NEW q \in Processes
            PROVE  Len(objs[q]) \in Nat /\ current[q] \in 0 .. Len(objs[q])
        BY <1>2
      <4>2. ASSUME NEW q \in Processes
            PROVE  /\ Len(objs[q]) \in Nat /\ Len(objs'[q]) \in Nat
                   /\ Len(objs[q]) <= Len(objs'[q]) /\ current'[q] \in 0 .. Len(objs'[q])
        <5>1. Len(objs'[q]) = Len(objs[q]) /\ current'[q] \in {current[q], 0}
          BY <3>1
        <5> QED
          BY ONLY <4>1, <5>1
      <4> QED
        BY <4>2
    <3> QED
      BY <3>2, <3>3, <3>4, StaysKnown
  <2> QED
    BY <2>8, <2>9
<1> QED
  BY <1>6, <1>7, <1>8, <1>9, <1>10

\* A new object of a process, and the handler that starts it.
LEMMA ListedKeeps ==
    ASSUME PluginTypeOK, NEW p \in Processes, NEW item \in PluginRow, Listed(p, item)
    PROVE  /\ objs' \in [Processes -> Seq(PluginObject)] /\ current' \in [Processes -> Nat]
           /\ Len(objs[p]) \in Nat /\ Len(objs'[p]) = Len(objs[p]) + 1
           /\ current'[p] = Len(objs[p]) + 1 /\ objs'[p][Len(objs[p]) + 1] = NewPlugin(item)
           /\ \A m \in 1 .. Len(objs[p]) : objs'[p][m] = objs[p][m]
           /\ \A q \in Processes : q # p => objs'[q] = objs[q] /\ current'[q] = current[q]
<1>1. NewPlugin(item) \in PluginObject /\ Len(objs[p]) \in Nat
  BY ValueTypes, LengthsAreNat
<1>2. objs' = [objs EXCEPT ![p] = Append(@, NewPlugin(item))] /\ current' = [current EXCEPT ![p] = Len(objs[p]) + 1]
  BY DEF Listed
<1>3. current \in [Processes -> Nat] /\ Len(objs[p]) + 1 \in Nat
  BY <1>1 DEF PluginTypeOK
<1> QED
  BY <1>1, <1>2, <1>3, ObjectListed

\* Nobody's objects get fewer.
LEMMA NotFewer ==
    ASSUME PluginTypeOK, ObjectsKnown, NEW p \in Processes,
           objs' \in [Processes -> Seq(PluginObject)],
           Len(objs'[p]) = Len(objs[p]) + 1, current'[p] = Len(objs[p]) + 1,
           \A q \in Processes : q # p => objs'[q] = objs[q] /\ current'[q] = current[q]
    PROVE  \A q \in Processes : /\ Len(objs[q]) \in Nat /\ Len(objs'[q]) \in Nat
                               /\ Len(objs[q]) <= Len(objs'[q]) /\ current'[q] \in 0 .. Len(objs'[q])
<1> SUFFICES ASSUME NEW q \in Processes
             PROVE  /\ Len(objs[q]) \in Nat /\ Len(objs'[q]) \in Nat
                    /\ Len(objs[q]) <= Len(objs'[q]) /\ current'[q] \in 0 .. Len(objs'[q])
  OBVIOUS
<1>1. Len(objs[q]) \in Nat /\ current[q] \in 0 .. Len(objs[q])
  BY LengthsAreNat DEF ObjectsKnown
<1>2. CASE q = p
  BY <1>1, <1>2
<1>3. CASE q # p
  <2>1. objs'[q] = objs[q] /\ current'[q] = current[q]
    BY <1>3
  <2> QED
    BY <2>1, <1>1
<1> QED
  BY <1>2, <1>3

LEMMA SameNumber ==
    ASSUME PluginTypeOK, ObjectsKnown,
           \A q \in Processes : Len(objs'[q]) = Len(objs[q]) /\ current'[q] = current[q]
    PROVE  \A q \in Processes : /\ Len(objs[q]) \in Nat /\ Len(objs'[q]) \in Nat
                               /\ Len(objs[q]) <= Len(objs'[q]) /\ current'[q] \in 0 .. Len(objs'[q])
BY LengthsAreNat DEF ObjectsKnown

\* The steps of messages, starts and requests keep the types.
LEMMA ShapeOfRequest ==
    ASSUME PluginTypeOK, ObjectsKnown, NEW t \in PluginThreads,
           \/ ReadRow(t) \/ LoadFromDB(t) \/ Subscribe(t) \/ SaveConf(t) \/ SaveActive(t)
           \/ Build(t) \/ Invalid(t) \/ Place(t) \/ Record(t) \/ Erase(t)
    PROVE  PluginTypeOK' /\ ObjectsKnown'
<1> DEFINE p == thread[t].p
           n == thread[t].obj
<1>1. /\ thread \in [PluginThreads -> PluginThread] /\ thread[t] \in PluginThread
      /\ ThreadKnown(thread[t]) /\ thread[t].item \in PluginRow /\ n \in Nat
      /\ row \in PluginRow /\ codeDir \in [Hosts -> Folder]
  BY DEF PluginTypeOK, ObjectsKnown, PluginThread
<1>2. \A q \in Processes : Len(objs[q]) \in Nat /\ current[q] \in 0 .. Len(objs[q]) /\ HostOf[q] \in Hosts
  BY PluginsAssumption, LengthsAreNat DEF ObjectsKnown
<1>3. thread[t].at # "idle" => p \in Processes /\ n \in 0 .. Len(objs[p])
  BY <1>1 DEF ThreadKnown
<1>4. ASSUME p \in Processes, n # 0, n \in 0 .. Len(objs[p])
      PROVE  objs[p][n] \in PluginObject /\ n \in 1 .. Len(objs[p])
  <2>1. n \in 1 .. Len(objs[p])
    BY <1>1, <1>2, <1>4
  <2> QED
    BY <2>1, <1>4, ObjectsThere
<1>5. NoThread \in PluginThread /\ NoThread.at = "idle"
  BY ValueTypes DEF NoThread
<1>6. /\ current \in [Processes -> Nat] /\ objs \in [Processes -> Seq(PluginObject)]
      /\ made \in Nat \ {0} /\ astray \subseteq AllProcesses /\ asked \in [PluginOps -> Nat]
      /\ typed \in SecretText /\ subscribed \in [Processes -> BOOLEAN]
  BY DEF PluginTypeOK
<1>7. ASSUME ThreadMoves(t, NoThread)
      PROVE  /\ thread' \in [PluginThreads -> PluginThread] /\ ThreadKnown(thread[t])'
             /\ \A u \in PluginThreads \ {t} : thread'[u] = thread[u]
  <2>1. thread' = [thread EXCEPT ![t] = NoThread] /\ thread'[t] = NoThread
    BY <1>7, <1>1 DEF ThreadMoves
  <2> QED
    BY <2>1, <1>1, <1>5 DEF ThreadKnown
<1>8. ASSUME NEW new \in PluginThread, thread' = [thread EXCEPT ![t] = new], new.at = "folder",
             new.then \in {"", "subscribe"}, new.p = p, p \in Processes, new.obj \in {1, Len(objs[p]) + 1},
             Listed(p, row)
      PROVE  /\ thread' \in [PluginThreads -> PluginThread] /\ ObjectsKnown'
             /\ objs' \in [Processes -> Seq(PluginObject)] /\ current' \in [Processes -> Nat]
  <2>1. /\ thread' \in [PluginThreads -> PluginThread] /\ thread'[t] = new
        /\ \A u \in PluginThreads \ {t} : thread'[u] = thread[u]
    BY <1>8, MovesKeeps
  <2>2. /\ objs' \in [Processes -> Seq(PluginObject)] /\ current' \in [Processes -> Nat]
        /\ Len(objs[p]) \in Nat /\ Len(objs'[p]) = Len(objs[p]) + 1
        /\ current'[p] = Len(objs[p]) + 1
        /\ \A q \in Processes : q # p => objs'[q] = objs[q] /\ current'[q] = current[q]
    BY <1>8, <1>1, ListedKeeps
  <2>3. \A q \in Processes : /\ Len(objs[q]) \in Nat /\ Len(objs'[q]) \in Nat
                             /\ Len(objs[q]) <= Len(objs'[q]) /\ current'[q] \in 0 .. Len(objs'[q])
    BY <2>2, <1>8, NotFewer
  <2>4. ThreadKnown(thread[t])'
    <3>1. \A k \in Nat : k + 1 \in 0 .. k + 1 /\ k + 1 # 0 /\ 1 \in 0 .. k + 1
      OBVIOUS
    <3>2. Len(objs[p]) + 1 \in 0 .. Len(objs'[p]) /\ Len(objs[p]) + 1 # 0 /\ 1 \in 0 .. Len(objs'[p])
      BY <3>1, <2>2
    <3>3. new.obj = 1 \/ new.obj = Len(objs[p]) + 1
      BY <1>8
    <3>4. new.obj \in 0 .. Len(objs'[p]) /\ new.obj # 0
      <4>1. CASE new.obj = 1
        BY <4>1, <3>2
      <4>2. CASE new.obj = Len(objs[p]) + 1
        BY <4>2, <3>2
      <4> QED
        BY <4>1, <4>2, <3>3
    <3> QED
      BY <3>4, <2>1, <1>8 DEF ThreadKnown, FolderPlaces
  <2> QED
    BY <2>1, <2>2, <2>3, <2>4, StaysKnown
<1>9. ASSUME ReadRow(t) PROVE PluginTypeOK' /\ ObjectsKnown'
  <2>1. thread[t].at = "row" /\ UNCHANGED <<row, codeDir, chan, subscribed, made, typed, asked, routes, triggers, cached, astray>>
    BY <1>9 DEF ReadRow, ThreadAt, outside
  <2>2. p \in Processes /\ n \in 0 .. Len(objs[p]) /\ (n # 0 => n \in 1 .. Len(objs[p]) /\ objs[p][n] \in PluginObject)
    BY <2>1, <1>3, <1>4
  <2>3. CASE ~row.there
    <3>1. ThreadMoves(t, NoThread) /\ UNCHANGED <<objs, current>>
      BY <1>9, <2>3 DEF ReadRow
    <3>2. PluginTypeOK'
      BY <3>1, <2>1, <1>7 DEF PluginTypeOK
    <3> QED
      BY <3>1, <3>2, <1>7, SameNumber, StaysKnown
  <2>4. CASE row.there /\ n # 0 /\ ThreadObj(t).initialized
    <3> DEFINE new == [thread[t] EXCEPT !.at = "deinit", !.then = "new", !.item = row]
    <3>1. /\ new \in PluginThread /\ new.at = "deinit" /\ new.then = "new" /\ new.p = p /\ new.obj = n
      BY <1>1 DEF PluginThread, PluginPlaces
    <3>2. /\ thread' = [thread EXCEPT ![t] = new] /\ current' = current
          /\ objs' = [objs EXCEPT ![p][n] = StoppedObj(objs[p][n])]
      BY <1>9, <2>4 DEF ReadRow, ThreadMoves
    <3> HIDE DEF new
    <3>3. /\ thread' \in [PluginThreads -> PluginThread] /\ thread'[t] = new
          /\ \A u \in PluginThreads \ {t} : thread'[u] = thread[u]
      BY <3>1, <3>2, MovesKeeps
    <3>4. StoppedObj(objs[p][n]) \in PluginObject
      BY <2>2, <2>4, ValueTypes
    <3>5. objs' \in [Processes -> Seq(PluginObject)] /\ \A q \in Processes : Len(objs'[q]) = Len(objs[q])
      BY <2>2, <2>4, <3>2, <3>4, ObjectChanges
    <3>6. PluginTypeOK'
      BY <2>1, <3>2, <3>3, <3>5 DEF PluginTypeOK
    <3>7. ThreadKnown(thread[t])'
      <4>1. n \in 0 .. Len(objs'[p]) /\ n # 0
        BY <3>5, <2>2, <2>4
      <4> QED
        BY <4>1, <3>1, <3>3, <2>2 DEF ThreadKnown, FolderPlaces
    <3> QED
      BY <3>2, <3>3, <3>5, <3>6, <3>7, SameNumber, StaysKnown
  <2>5. CASE row.there /\ ~(n # 0 /\ ThreadObj(t).initialized)
    <3> DEFINE new == [StartingObj(t) EXCEPT !.item = row]
    <3>1. Len(objs[p]) + 1 \in Nat
      BY <1>2, <2>2
    <3>2. /\ new \in PluginThread /\ new.at = "folder" /\ new.then = "" /\ new.p = p
          /\ new.obj = Len(objs[p]) + 1
      BY <3>1, <1>1 DEF StartingObj, PluginThread, PluginPlaces, FolderPlaces
    <3>3. thread' = [thread EXCEPT ![t] = new] /\ Listed(p, row)
      BY <1>9, <2>5 DEF ReadRow, ThreadMoves
    <3> HIDE DEF new
    <3> QED
      BY <3>2, <3>3, <2>1, <2>2, <1>8 DEF PluginTypeOK
  <2> QED
    BY <2>3, <2>4, <2>5
<1>10. ASSUME LoadFromDB(t) PROVE PluginTypeOK' /\ ObjectsKnown'
  <2>1. /\ thread[t].at = "boot"
        /\ UNCHANGED <<row, codeDir, chan, subscribed, made, typed, asked, routes, triggers, cached, astray>>
    BY <1>10 DEF LoadFromDB, ThreadAt, outside
  <2>2. p \in Processes /\ thread[t].then = "subscribe"
    BY <2>1, <1>1, <1>3 DEF ThreadKnown, FolderPlaces
  <2>3. CASE row.there
    <3> DEFINE new == [thread[t] EXCEPT !.at = "folder", !.obj = 1, !.item = row]
    <3>1. /\ new \in PluginThread /\ new.at = "folder" /\ new.then = "subscribe" /\ new.p = p
          /\ new.obj = 1
      BY <2>2, <1>1 DEF PluginThread, PluginPlaces, FolderPlaces
    <3>2. thread' = [thread EXCEPT ![t] = new] /\ Listed(p, row)
      BY <1>10, <2>3 DEF LoadFromDB, ThreadMoves
    <3> HIDE DEF new
    <3> QED
      BY <3>1, <3>2, <2>1, <2>2, <1>8 DEF PluginTypeOK
  <2>4. CASE ~row.there
    <3>1. ThreadGoes(t, "subscribe") /\ UNCHANGED <<objs, current>>
      BY <1>10, <2>4 DEF LoadFromDB
    <3>2. /\ thread'[t].at = "subscribe" /\ thread'[t].p = p
          /\ thread'[t].then = thread[t].then /\ thread'[t].obj = n
          /\ thread' \in [PluginThreads -> PluginThread]
          /\ \A u \in PluginThreads \ {t} : thread'[u] = thread[u]
      BY <3>1, GoesKeeps DEF PluginPlaces
    <3>3. PluginTypeOK'
      BY <2>1, <3>1, <3>2 DEF PluginTypeOK
    <3>4. ThreadKnown(thread[t])'
      BY <3>1, <3>2, <2>1, <2>2, <1>3 DEF ThreadKnown, FolderPlaces
    <3> QED
      BY <3>1, <3>2, <3>3, <3>4, SameNumber, StaysKnown
  <2> QED
    BY <2>3, <2>4
<1>11. ASSUME Subscribe(t) \/ SaveActive(t) \/ Invalid(t) \/ Record(t) \/ Erase(t)
       PROVE  PluginTypeOK' /\ ObjectsKnown'
  <2>1. ThreadMoves(t, NoThread) /\ UNCHANGED <<objs, current, routes, triggers, cached, made>>
        /\ thread[t].at # "idle"
    BY <1>11 DEF Subscribe, SaveActive, Invalid, Record, Erase, memory, ThreadAt
  <2>2. p \in Processes
    BY <2>1, <1>3
  <2>3. chan' \in [Processes -> Seq({"init", "delete"})]
    <3>1. CASE chan' = chan
      BY <3>1 DEF PluginTypeOK
    <3>2. CASE Publish("init") \/ Publish("delete")
      BY <3>2, Published
    <3> QED
      BY <3>1, <3>2, <1>11 DEF Subscribe, SaveActive, Invalid, Record, Erase
  <2>4. row' \in PluginRow
    <3>1. \A b \in BOOLEAN : /\ [row EXCEPT !.active = b] \in PluginRow
                             /\ [row EXCEPT !.there = b] \in PluginRow
      BY <1>1 DEF PluginRow
    <3>2. \A v \in Nat \ {0} : /\ [row EXCEPT !.version = v] \in PluginRow
                               /\ [there |-> TRUE, active |-> FALSE, version |-> v, conf |-> EmptySecret] \in PluginRow
      BY <1>1 DEF PluginRow, EmptySecret, Plain, SecretValue, SecretText
    <3>3. thread[t].item.active \in BOOLEAN /\ thread[t].item.version \in Nat \ {0}
      BY <1>1 DEF PluginRow
    <3> QED
      BY <3>1, <3>2, <3>3, <1>1, <1>11 DEF Subscribe, SaveActive, Invalid, Record, Erase
  <2>5. codeDir' \in [Hosts -> Folder]
    <3>1. codeDir' = codeDir \/ codeDir' = [codeDir EXCEPT ![ThreadHost(t)] = NoFolder]
      BY <1>11 DEF Subscribe, SaveActive, Invalid, Record, Erase
    <3>2. NoFolder \in Folder
      BY DEF NoFolder, Folder
    <3> QED
      BY <3>1, <3>2, <1>1
  <2>6. subscribed' \in [Processes -> BOOLEAN] /\ typed' \in SecretText
    BY <1>6, <1>11 DEF Subscribe, SaveActive, Invalid, Record, Erase, SecretText
  <2>7. astray' \subseteq AllProcesses /\ asked' \in [PluginOps -> Nat]
    <3>1. CASE Invalid(t)
      <4>1. /\ asked' = [asked EXCEPT !["fault"] = @ - 1] /\ asked["fault"] > 0
            /\ astray' = astray \cup (IF n # 0 THEN {p} ELSE {})
        BY <3>1 DEF Invalid, AskPlugin, ExcuseProcesses
      <4> QED
        BY <4>1, <1>6, <2>2 DEF PluginOps, AllProcesses
    <3>2. CASE ~Invalid(t)
      BY <3>2, <1>6, <1>11 DEF Subscribe, SaveActive, Record, Erase
    <3> QED
      BY <3>1, <3>2
  <2>8. PluginTypeOK'
    BY <2>1, <2>3, <2>4, <2>5, <2>6, <2>7, <1>7 DEF PluginTypeOK
  <2> QED
    BY <2>1, <2>8, <1>7, SameNumber, StaysKnown
<1>12. ASSUME SaveConf(t) PROVE PluginTypeOK' /\ ObjectsKnown'
  <2> DEFINE act == thread[t].item.active
             o == SwitchedObj(objs[p][n], act)
  <2>1. /\ thread[t].at = "conf" /\ Publish("init")
        /\ UNCHANGED <<codeDir, current, routes, triggers, cached, subscribed, made, typed, astray, asked>>
        /\ objs' = [objs EXCEPT ![p][n] = o]
    BY <1>12 DEF SaveConf, ThreadAt
  <2>2. p \in Processes /\ n \in 1 .. Len(objs[p]) /\ objs[p][n] \in PluginObject /\ act \in BOOLEAN
        /\ thread[t].then = ""
    BY <2>1, <1>1, <1>3, <1>4 DEF ThreadKnown, PluginRow, FolderPlaces
  <2>3. o \in PluginObject
    BY <2>2, ValueTypes
  <2> HIDE DEF o
  <2>4. objs' \in [Processes -> Seq(PluginObject)] /\ \A q \in Processes : Len(objs'[q]) = Len(objs[q])
    BY <2>1, <2>2, <2>3, ObjectChanges
  <2>5. row' \in PluginRow
    <3>1. thread[t].item.conf \in SecretValue
      BY <1>1 DEF PluginRow
    <3> QED
      BY <3>1, <1>1, <1>12 DEF SaveConf, PluginRow
  <2>6. /\ thread' \in [PluginThreads -> PluginThread] /\ ThreadKnown(thread[t])'
        /\ \A u \in PluginThreads \ {t} : thread'[u] = thread[u]
    <3>1. CASE ThreadMoves(t, NoThread)
      BY <3>1, <1>7
    <3>2. CASE ThreadGoes(t, "active")
      <4>1. /\ thread' \in [PluginThreads -> PluginThread] /\ thread'[t].at = "active"
            /\ thread'[t].p = p /\ thread'[t].then = "" /\ thread'[t].obj = n
            /\ \A u \in PluginThreads \ {t} : thread'[u] = thread[u]
        BY <3>2, <2>2, GoesKeeps DEF PluginPlaces, RequestPlaces
      <4>2. n \in 0 .. Len(objs'[p]) /\ n # 0
        <5>1. Len(objs'[p]) = Len(objs[p]) /\ Len(objs[p]) \in Nat
          BY <2>2, <2>4, <1>2
        <5>2. \A k \in Nat : \A m \in 1 .. k : m \in 0 .. k /\ m # 0
          OBVIOUS
        <5>3. n \in 0 .. Len(objs[p]) /\ n # 0
          BY <5>1, <5>2, <2>2
        <5> QED
          BY <5>1, <5>3
      <4> QED
        BY <4>1, <4>2, <2>2 DEF ThreadKnown, FolderPlaces
    <3> QED
      BY <3>1, <3>2, <1>12 DEF SaveConf
  <2>7. PluginTypeOK'
    BY <2>1, <2>4, <2>5, <2>6, Published DEF PluginTypeOK
  <2> QED
    BY <2>1, <2>4, <2>6, <2>7, SameNumber, StaysKnown
<1>13. ASSUME Build(t) PROVE PluginTypeOK' /\ ObjectsKnown'
  <2>1. /\ thread[t].at = "build"
        /\ UNCHANGED <<row, codeDir, chan, subscribed, made, typed, asked, current, routes, triggers, cached, astray>>
    BY <1>13 DEF Build, ThreadAt, outside
  <2>2. p \in Processes /\ n \in 0 .. Len(objs[p]) /\ (n # 0 => n \in 1 .. Len(objs[p]) /\ objs[p][n] \in PluginObject)
        /\ thread[t].then = ""
    BY <2>1, <1>1, <1>3, <1>4 DEF ThreadKnown, FolderPlaces
  <2>3. CASE n # 0
    <3> DEFINE new == [thread[t] EXCEPT !.at = "deinit", !.then = "place"]
    <3>1. /\ new \in PluginThread /\ new.at = "deinit" /\ new.then = "place" /\ new.p = p /\ new.obj = n
      BY <1>1 DEF PluginThread, PluginPlaces
    <3>2. /\ thread' = [thread EXCEPT ![t] = new]
          /\ objs' = [objs EXCEPT ![p][n] = StoppedObj(objs[p][n])]
      BY <1>13, <2>3 DEF Build, ThreadMoves
    <3> HIDE DEF new
    <3>3. /\ thread' \in [PluginThreads -> PluginThread] /\ thread'[t] = new
          /\ \A u \in PluginThreads \ {t} : thread'[u] = thread[u]
      BY <3>1, <3>2, MovesKeeps
    <3>4. StoppedObj(objs[p][n]) \in PluginObject
      BY <2>2, <2>3, ValueTypes
    <3>5. objs' \in [Processes -> Seq(PluginObject)] /\ \A q \in Processes : Len(objs'[q]) = Len(objs[q])
      BY <2>2, <2>3, <3>2, <3>4, ObjectChanges
    <3>6. PluginTypeOK'
      BY <2>1, <3>3, <3>5 DEF PluginTypeOK
    <3>7. ThreadKnown(thread[t])'
      <4>1. n \in 0 .. Len(objs'[p]) /\ n # 0
        BY <3>5, <2>2, <2>3
      <4> QED
        BY <4>1, <3>1, <3>3, <2>2 DEF ThreadKnown, FolderPlaces
    <3> QED
      BY <2>1, <3>3, <3>5, <3>6, <3>7, SameNumber, StaysKnown
  <2>4. CASE n = 0
    <3>1. objs' = objs
      BY <1>13, <2>4 DEF Build
    <3>2. /\ thread' \in [PluginThreads -> PluginThread] /\ ThreadKnown(thread[t])'
          /\ \A u \in PluginThreads \ {t} : thread'[u] = thread[u]
      <4>1. CASE ThreadMoves(t, NoThread)
        BY <4>1, <1>7
      <4>2. CASE ThreadGoes(t, "place")
        <5>1. /\ thread'[t].at = "place" /\ thread'[t].p = p
              /\ thread'[t].then = thread[t].then /\ thread'[t].obj = n
              /\ thread' \in [PluginThreads -> PluginThread]
              /\ \A u \in PluginThreads \ {t} : thread'[u] = thread[u]
          BY <4>2, GoesKeeps DEF PluginPlaces, RequestPlaces
        <5> QED
          BY <5>1, <3>1, <2>2 DEF ThreadKnown, FolderPlaces
      <4> QED
        BY <4>1, <4>2, <2>4, <1>13 DEF Build
    <3>3. PluginTypeOK'
      BY <2>1, <3>1, <3>2 DEF PluginTypeOK
    <3> QED
      BY <2>1, <3>1, <3>2, <3>3, SameNumber, StaysKnown
  <2> QED
    BY <2>3, <2>4
<1>14. ASSUME Place(t) PROVE PluginTypeOK' /\ ObjectsKnown'
  <2>1. /\ thread[t].at = "place"
        /\ UNCHANGED <<objs, current, routes, triggers, cached, row, chan, subscribed, typed, astray, asked>>
    BY <1>14 DEF Place, ThreadAt, memory
  <2>2. p \in Processes /\ thread[t].then \in {"", "place"} /\ n \in 0 .. Len(objs[p])
    BY <2>1, <1>1, <1>3 DEF ThreadKnown, FolderPlaces
  <2>3. CASE n = 0 /\ codeDir[ThreadHost(t)].there
    <3>1. ThreadMoves(t, NoThread) /\ codeDir' = codeDir /\ made' = made
      BY <1>14, <2>3 DEF Place
    <3>2. PluginTypeOK'
      BY <2>1, <3>1, <1>7 DEF PluginTypeOK
    <3> QED
      BY <2>1, <3>1, <3>2, <1>7, SameNumber, StaysKnown
  <2>4. CASE ~(n = 0 /\ codeDir[ThreadHost(t)].there)
    <3> DEFINE new == [thread[t] EXCEPT !.at = "record", !.item.version = made + 1]
               folder == [there |-> TRUE, code |-> made + 1, hash |-> made + 1]
    <3>1. made' = made + 1 /\ thread' = [thread EXCEPT ![t] = new] /\ codeDir' = [codeDir EXCEPT ![ThreadHost(t)] = folder]
      BY <1>14, <2>4 DEF Place, ThreadMoves
    <3>2. made + 1 \in Nat \ {0} /\ made + 1 \in Nat
      BY <1>6
    <3>3. /\ new \in PluginThread /\ new.at = "record" /\ new.then = thread[t].then
          /\ new.p = p /\ new.obj = n
      BY <3>2, <1>1 DEF PluginThread, PluginPlaces, RequestPlaces, PluginRow
    <3>4. folder \in Folder
      BY <3>2 DEF Folder
    <3> HIDE DEF new, folder
    <3>5. /\ thread' \in [PluginThreads -> PluginThread] /\ thread'[t] = new
          /\ \A u \in PluginThreads \ {t} : thread'[u] = thread[u]
      BY <3>1, <3>3, MovesKeeps
    <3>6. PluginTypeOK'
      BY <2>1, <3>1, <3>2, <3>4, <3>5, <1>1 DEF PluginTypeOK
    <3>7. ThreadKnown(thread[t])'
      BY <2>1, <2>2, <3>3, <3>5 DEF ThreadKnown, FolderPlaces
    <3> QED
      BY <2>1, <3>5, <3>6, <3>7, SameNumber, StaysKnown
  <2> QED
    BY <2>3, <2>4
<1> QED
  BY <1>9, <1>10, <1>11, <1>12, <1>13, <1>14

\* A request or a message gets a thread of its own.
LEMMA BeginsKeeps ==
    ASSUME PluginTypeOK, ObjectsKnown, NEW new \in PluginThread, BeginThread(new)
    PROVE  \E t \in PluginThreads :
              /\ thread[t] = NoThread /\ thread'[t] = new
              /\ thread' \in [PluginThreads -> PluginThread]
              /\ \A u \in PluginThreads \ {t} : thread'[u] = thread[u]
<1>1. PICK t \in PluginThreads : thread[t].at = "idle" /\ thread' = [thread EXCEPT ![t] = new]
  BY DEF BeginThread, ThreadIdle, ThreadAt, ThreadMoves
<1>2. thread[t] = NoThread
  BY <1>1 DEF ObjectsKnown, ThreadKnown
<1> QED
  BY <1>1, <1>2, MovesKeeps

LEMMA InRange == \A k \in Nat : \A m \in 1 .. k : m \in 0 .. k /\ m # 0
OBVIOUS

LEMMA InRangeOne == \A k \in Nat : \A m \in 0 .. k : m # 0 => m \in 1 .. k
OBVIOUS

\* What the next lemmas all begin with.
LEMMA ProcessTypes ==
    ASSUME PluginTypeOK, ObjectsKnown, NEW p \in Processes
    PROVE  /\ current[p] \in 0 .. Len(objs[p]) /\ Len(objs[p]) \in Nat /\ current[p] \in Nat
           /\ current[p] # 0 => /\ current[p] \in 1 .. Len(objs[p])
                                /\ objs[p][current[p]] \in PluginObject
<1>1. current[p] \in 0 .. Len(objs[p]) /\ Len(objs[p]) \in Nat
  BY LengthsAreNat DEF ObjectsKnown
<1>2. current[p] # 0 => current[p] \in 1 .. Len(objs[p])
  BY <1>1, InRangeOne
<1>3. current[p] # 0 => objs[p][current[p]] \in PluginObject
  BY <1>2, ObjectsThere
<1>4. \A k \in Nat : \A m \in 0 .. k : m \in Nat
  OBVIOUS
<1> QED
  BY <1>1, <1>2, <1>3, <1>4

LEMMA ShapeOfMessages ==
    ASSUME PluginTypeOK, ObjectsKnown, NEW p \in Processes, Deliver(p)
    PROVE  PluginTypeOK' /\ ObjectsKnown'
<1> DEFINE n == current[p]
           handler == [NoThread EXCEPT !.p = p, !.obj = n]
           fresh == [handler EXCEPT !.at = "row"]
           last == [handler EXCEPT !.at = "deinit", !.then = "drop"]
<1>1. /\ n \in 0 .. Len(objs[p]) /\ Len(objs[p]) \in Nat /\ n \in Nat
      /\ n # 0 => n \in 1 .. Len(objs[p]) /\ objs[p][n] \in PluginObject
  BY ProcessTypes
<1>2. NoThread \in PluginThread /\ NoThread.then = ""
  BY ValueTypes DEF NoThread
<1>3. /\ fresh \in PluginThread /\ fresh.at = "row" /\ fresh.p = p /\ fresh.obj = n /\ fresh.then = ""
      /\ last \in PluginThread /\ last.at = "deinit" /\ last.p = p /\ last.obj = n /\ last.then = "drop"
  BY <1>1, <1>2 DEF PluginThread, PluginPlaces
<1>4. /\ chan' = [chan EXCEPT ![p] = Tail(@)] /\ chan[p] # <<>>
      /\ UNCHANGED <<row, codeDir, routes, triggers, cached, subscribed, made, typed, astray, asked>>
  BY DEF Deliver
<1>5. chan' \in [Processes -> Seq({"init", "delete"})]
  <2>1. chan \in [Processes -> Seq({"init", "delete"})] /\ chan[p] \in Seq({"init", "delete"})
    BY DEF PluginTypeOK
  <2>2. Tail(chan[p]) \in Seq({"init", "delete"})
    BY <2>1, <1>4
  <2> QED
    BY <2>1, <2>2, <1>4
<1>6. \/ BeginThread(fresh) /\ UNCHANGED <<objs, current>>
      \/ /\ objs' = [objs EXCEPT ![p][n] = StoppedObj(objs[p][n])] /\ UNCHANGED current /\ n # 0
         /\ BeginThread(last)
      \/ current' = [current EXCEPT ![p] = 0] /\ UNCHANGED <<objs, thread>>
  BY DEF Deliver
<1> HIDE DEF fresh, last
<1>7. CASE BeginThread(fresh) /\ UNCHANGED <<objs, current>>
  <2>1. PICK t \in PluginThreads :
              /\ thread[t] = NoThread /\ thread'[t] = fresh
              /\ thread' \in [PluginThreads -> PluginThread]
              /\ \A u \in PluginThreads \ {t} : thread'[u] = thread[u]
    BY <1>3, <1>7, BeginsKeeps
  <2>2. PluginTypeOK'
    BY <1>4, <1>5, <1>7, <2>1 DEF PluginTypeOK
  <2>3. ThreadKnown(thread[t])'
    BY <2>1, <1>1, <1>3, <1>7 DEF ThreadKnown, FolderPlaces
  <2> QED
    BY <2>1, <2>2, <2>3, <1>7, SameNumber, StaysKnown
<1>8. CASE /\ objs' = [objs EXCEPT ![p][n] = StoppedObj(objs[p][n])] /\ UNCHANGED current /\ n # 0
           /\ BeginThread(last)
  <2>1. PICK t \in PluginThreads :
              /\ thread[t] = NoThread /\ thread'[t] = last
              /\ thread' \in [PluginThreads -> PluginThread]
              /\ \A u \in PluginThreads \ {t} : thread'[u] = thread[u]
    BY <1>3, <1>8, BeginsKeeps
  <2>2. objs' \in [Processes -> Seq(PluginObject)] /\ \A q \in Processes : Len(objs'[q]) = Len(objs[q])
    <3>1. StoppedObj(objs[p][n]) \in PluginObject
      BY <1>1, <1>8, ValueTypes
    <3> QED
      BY <3>1, <1>1, <1>8, ObjectChanges
  <2>3. PluginTypeOK'
    BY <1>4, <1>5, <1>8, <2>1, <2>2 DEF PluginTypeOK
  <2>4. n \in 0 .. Len(objs'[p])
    BY <1>1, <2>2
  <2>5. ThreadKnown(thread[t])'
    BY <2>1, <2>4, <1>3, <1>8 DEF ThreadKnown, FolderPlaces
  <2> QED
    BY <2>1, <2>2, <2>3, <2>5, <1>8, SameNumber, StaysKnown
<1>9. CASE current' = [current EXCEPT ![p] = 0] /\ UNCHANGED <<objs, thread>>
  <2>1. PluginTypeOK'
    BY <1>4, <1>5, <1>9 DEF PluginTypeOK
  <2>2. \A q \in Processes : current'[q] \in 0 .. Len(objs'[q])
    <3>1. \A q \in Processes : /\ current[q] \in 0 .. Len(objs[q]) /\ Len(objs[q]) \in Nat
                               /\ 0 \in 0 .. Len(objs[q])
      BY ProcessTypes
    <3>2. current \in [Processes -> Nat]
      BY DEF PluginTypeOK
    <3> QED
      BY <3>1, <3>2, <1>9
  <2>3. \A u \in PluginThreads : ThreadKnown(thread[u])'
    BY <1>9 DEF ObjectsKnown, ThreadKnown
  <2> QED
    BY <2>1, <2>2, <2>3 DEF ObjectsKnown
<1> QED
  BY <1>6, <1>7, <1>8, <1>9

LEMMA ShapeOfRestart ==
    ASSUME PluginTypeOK, ObjectsKnown, NEW p \in Processes, Restart(p)
    PROVE  PluginTypeOK' /\ ObjectsKnown'
<1> DEFINE boots == [NoThread EXCEPT !.at = "boot", !.p = p, !.then = "subscribe"]
<1>1. /\ objs' = [objs EXCEPT ![p] = <<>>] /\ current' = [current EXCEPT ![p] = 0]
      /\ routes' = [routes EXCEPT ![p] = {}] /\ triggers' = [triggers EXCEPT ![p] = 0]
      /\ cached' = [cached EXCEPT ![p] = 0] /\ chan' = [chan EXCEPT ![p] = <<>>]
      /\ subscribed' = [subscribed EXCEPT ![p] = FALSE]
      /\ UNCHANGED <<row, codeDir, made, typed>>
  BY DEF Restart
<1>2. PICK boot \in PluginThreads :
          /\ thread[boot].at = "idle" \/ thread[boot].p = p
          /\ thread' = [t \in PluginThreads |-> IF t = boot THEN boots
                                   ELSE IF thread[t].p = p THEN NoThread ELSE thread[t]]
  BY DEF Restart, ThreadIdle, ThreadAt
<1>3. NoThread \in PluginThread /\ NoThread.obj = 0 /\ NoThread.at = "idle"
  BY ValueTypes DEF NoThread
<1>4. boots \in PluginThread /\ boots.at = "boot" /\ boots.p = p /\ boots.then = "subscribe" /\ boots.obj = 0
  BY <1>3 DEF PluginThread, PluginPlaces
<1> HIDE DEF boots
<1>5. thread' \in [PluginThreads -> PluginThread]
  BY <1>2, <1>3, <1>4 DEF PluginTypeOK
<1>6. objs' \in [Processes -> Seq(PluginObject)] /\ objs'[p] = <<>> /\ \A q \in Processes : q # p => objs'[q] = objs[q]
  <2>1. <<>> \in Seq(PluginObject) /\ objs \in [Processes -> Seq(PluginObject)]
    BY DEF PluginTypeOK
  <2> QED
    BY <2>1, <1>1
<1>7. chan' \in [Processes -> Seq({"init", "delete"})]
  <2>1. <<>> \in Seq({"init", "delete"}) /\ chan \in [Processes -> Seq({"init", "delete"})]
    BY DEF PluginTypeOK
  <2> QED
    BY <2>1, <1>1
<1>8. astray' \subseteq AllProcesses /\ asked' \in [PluginOps -> Nat]
  <2>1. asked' = [asked EXCEPT !["restart"] = @ - 1] /\ asked["restart"] > 0
    BY DEF Restart, AskPlugin
  <2>2. asked' \in [PluginOps -> Nat]
    BY <2>1 DEF PluginTypeOK, PluginOps
  <2>3. astray' \in {AllProcesses, astray \cup {p}, astray \ {p}, astray}
    BY DEF Restart
  <2> QED
    BY <2>2, <2>3 DEF PluginTypeOK, AllProcesses
<1>9. PluginTypeOK'
  BY <1>1, <1>5, <1>6, <1>7, <1>8 DEF PluginTypeOK
<1>10. \A q \in Processes : current'[q] \in 0 .. Len(objs'[q])
  <2>1. current \in [Processes -> Nat]
    BY DEF PluginTypeOK
  <2>2. 0 \in 0 .. Len(objs'[p])
    BY <1>6
  <2>3. \A q \in Processes : current[q] \in 0 .. Len(objs[q])
    BY DEF ObjectsKnown
  <2> QED
    BY <2>1, <2>2, <2>3, <1>1, <1>6
<1>11. ASSUME NEW u \in PluginThreads PROVE ThreadKnown(thread[u])'
  <2>1. CASE thread'[u] = NoThread
    BY <2>1, <1>3 DEF ThreadKnown
  <2>2. CASE u = boot
    <3>1. thread'[u] = boots /\ 0 \in 0 .. Len(objs'[p])
      BY <2>2, <1>2, <1>6
    <3> QED
      BY <3>1, <1>4 DEF ThreadKnown, FolderPlaces
  <2>3. CASE u # boot /\ thread'[u] # NoThread
    <3>1. thread'[u] = thread[u] /\ thread[u].p # p /\ ThreadKnown(thread[u])
      BY <2>3, <1>2 DEF ObjectsKnown
    <3>2. thread[u].p \in Processes => objs'[thread[u].p] = objs[thread[u].p]
      BY <3>1, <1>6
    <3> QED
      BY <3>1, <3>2 DEF ThreadKnown
  <2> QED
    BY <2>1, <2>2, <2>3
<1> QED
  BY <1>9, <1>10, <1>11 DEF ObjectsKnown

\* A request gets a thread, or there is nothing to do.
LEMMA RequestKnown ==
    ASSUME PluginTypeOK, ObjectsKnown, NEW p \in Processes, NEW new \in PluginThread,
           new.p = p, new.obj \in 0 .. Len(objs[p]), new.at \in {"conf", "active", "build", "deinit"},
           new.at # "build" => new.obj # 0, new.then = (IF new.at = "deinit" THEN "erase" ELSE ""),
           BeginThread(new), current' = current,
           \A q \in Processes : Len(objs'[q]) = Len(objs[q])
    PROVE  thread' \in [PluginThreads -> PluginThread] /\ ObjectsKnown'
<1>1. PICK t \in PluginThreads :
              /\ thread[t] = NoThread /\ thread'[t] = new
              /\ thread' \in [PluginThreads -> PluginThread]
              /\ \A u \in PluginThreads \ {t} : thread'[u] = thread[u]
  BY BeginsKeeps
<1>2. new.obj \in 0 .. Len(objs'[p])
  OBVIOUS
<1>3. ThreadKnown(thread[t])'
  BY <1>1, <1>2 DEF ThreadKnown, FolderPlaces
<1>4. \A q \in Processes : current'[q] = current[q]
  OBVIOUS
<1>5. \A q \in Processes : /\ Len(objs[q]) \in Nat /\ Len(objs'[q]) \in Nat
                           /\ Len(objs[q]) <= Len(objs'[q]) /\ current'[q] \in 0 .. Len(objs'[q])
  BY <1>4, SameNumber
<1> QED
  BY <1>1, <1>3, <1>5, StaysKnown

LEMMA AskedKeeps ==
    ASSUME PluginTypeOK, NEW op \in PluginOps, AskPlugin(op)
    PROVE  /\ asked' \in [PluginOps -> Nat]
           /\ \A k \in PluginOps : asked'[k] <= asked[k]
<1>1. asked \in [PluginOps -> Nat] /\ asked[op] > 0 /\ asked' = [asked EXCEPT ![op] = @ - 1]
  BY DEF PluginTypeOK, AskPlugin
<1> QED
  BY <1>1

LEMMA ShapeOfUpload ==
    ASSUME PluginTypeOK, ObjectsKnown, NEW p \in Processes, NEW update \in BOOLEAN, Upload(p, update)
    PROVE  PluginTypeOK' /\ ObjectsKnown'
<1> DEFINE new == [NoThread EXCEPT !.p = p, !.at = "build", !.obj = IF update THEN current[p] ELSE 0]
<1>1. BeginThread(new) /\ AskPlugin("upload")
      /\ UNCHANGED <<objs, current, routes, triggers, cached, row, codeDir, chan, subscribed, made, typed>>
  BY DEF Upload, AskPluginNow, memory
<1>2. current[p] \in Nat /\ current[p] \in 0 .. Len(objs[p]) /\ Len(objs[p]) \in Nat
      /\ 0 \in 0 .. Len(objs[p])
  BY ProcessTypes
<1>3. NoThread \in PluginThread /\ NoThread.then = ""
  BY ValueTypes DEF NoThread
<1>4. /\ new \in PluginThread /\ new.p = p /\ new.at = "build" /\ new.then = ""
      /\ new.obj \in 0 .. Len(objs[p])
  BY <1>2, <1>3 DEF PluginThread, PluginPlaces, RequestPlaces
<1> HIDE DEF new
<1>5. thread' \in [PluginThreads -> PluginThread] /\ ObjectsKnown'
  BY <1>1, <1>4, RequestKnown
<1>6. astray' \subseteq AllProcesses
  <2>1. \E who \in SUBSET Processes : astray' = astray \cup who
    BY DEF Upload, ExcuseProcesses
  <2> QED
    BY <2>1 DEF PluginTypeOK, AllProcesses
<1>7. asked' \in [PluginOps -> Nat]
  BY <1>1, AskedKeeps DEF PluginOps
<1> QED
  BY <1>1, <1>5, <1>6, <1>7 DEF PluginTypeOK

LEMMA ShapeOfDelete ==
    ASSUME PluginTypeOK, ObjectsKnown, NEW p \in Processes, Delete(p)
    PROVE  PluginTypeOK' /\ ObjectsKnown'
<1> DEFINE new == [NoThread EXCEPT !.p = p, !.at = "deinit", !.then = "erase", !.obj = current[p]]
<1>1. BeginThread(new) /\ AskPlugin("delete") /\ current[p] # 0
      /\ objs' = [objs EXCEPT ![p][current[p]] = StoppedObj(objs[p][current[p]])]
      /\ UNCHANGED <<current, routes, triggers, cached, row, codeDir, chan, subscribed, made, typed, astray>>
  BY DEF Delete, AskPluginNow
<1>2. /\ current[p] \in Nat /\ current[p] \in 0 .. Len(objs[p]) /\ Len(objs[p]) \in Nat
      /\ current[p] \in 1 .. Len(objs[p]) /\ objs[p][current[p]] \in PluginObject
  BY <1>1, ProcessTypes
<1>3. NoThread \in PluginThread
  BY ValueTypes
<1>4. /\ new \in PluginThread /\ new.p = p /\ new.at = "deinit" /\ new.then = "erase"
      /\ new.obj = current[p]
  BY <1>2, <1>3 DEF PluginThread, PluginPlaces
<1> HIDE DEF new
<1>5. objs' \in [Processes -> Seq(PluginObject)] /\ \A q \in Processes : Len(objs'[q]) = Len(objs[q])
  <2>1. StoppedObj(objs[p][current[p]]) \in PluginObject
    BY <1>2, ValueTypes
  <2> QED
    BY <2>1, <1>1, <1>2, ObjectChanges
<1>6. thread' \in [PluginThreads -> PluginThread] /\ ObjectsKnown'
  BY <1>1, <1>2, <1>4, <1>5, RequestKnown
<1>7. asked' \in [PluginOps -> Nat]
  BY <1>1, AskedKeeps DEF PluginOps
<1> QED
  BY <1>1, <1>5, <1>6, <1>7 DEF PluginTypeOK

\* What an administrator may type or leave as shown.
LEMMA AskedValues ==
    ASSUME PluginTypeOK, ObjectsKnown,
           NEW value \in ShownSecrets \cup {Plain(s) : s \in Secrets}
    PROVE  value \in SecretValue
<1>1. CASE value \in {Plain(s) : s \in Secrets}
  <2>1. PICK s \in Secrets : value = Plain(s)
    BY <1>1
  <2> QED
    BY <2>1 DEF Plain, SecretValue, SecretText
<1>2. CASE value \in ShownSecrets
  <2>1. PICK p \in Processes : /\ current[p] # 0
                               /\ value = FilterSecret(objs[p][current[p]].conf, objs[p][current[p]].desc)
    BY <1>2 DEF ShownSecrets
  <2>2. objs[p][current[p]].conf \in SecretValue
    BY <2>1, ProcessTypes DEF PluginObject
  <2> QED
    BY <2>1, <2>2 DEF FilterSecret, Placeholder, SecretValue, SecretText
<1> QED
  BY <1>1, <1>2

\* What an update does to the object and which thread it begins.
LEMMA UpdateSteps ==
    ASSUME PluginTypeOK, ObjectsKnown, NEW p \in Processes, NEW active \in BOOLEAN, NEW more, NEW value,
           Update(p, active, value, more)
    PROVE  /\ current[p] \in 1 .. Len(objs[p]) /\ objs[p][current[p]] \in PluginObject
           /\ \/ /\ objs' = [objs EXCEPT ![p][current[p]] = EditedObj(objs[p][current[p]], value)]
                 /\ BeginThread(SavesBoth(p, current[p], active,
                                          EditedObj(objs[p][current[p]], value).stored))
                 /\ \/ objs[p][current[p]].active = active \/ "pair" \notin Excused
                    \/ Processes \subseteq astray'
              \/ /\ objs' = [objs EXCEPT ![p][current[p]] = SwitchedObj(objs[p][current[p]], active)]
                 /\ (objs[p][current[p]].desc /\ value = Placeholder) \/ value = objs[p][current[p]].conf
                 /\ \/ objs[p][current[p]].active = active /\ UNCHANGED thread
                    \/ BeginThread(SavesActive(p, current[p], active))
<1> DEFINE n == current[p]  o == objs[p][n]
           differs == more \/ ((~o.desc \/ value # Placeholder) /\ value # o.conf)
           pair == differs /\ ~SameActive(p, n, active)
<1>1. n # 0
  BY DEF Update
<1>2. n \in 1 .. Len(objs[p]) /\ o \in PluginObject
  BY <1>1, ProcessTypes
<1>3. o.active = active <=> SameActive(p, n, active)
  BY DEF SameActive
<1>4. CASE differs
  <2>1. /\ objs' = [objs EXCEPT ![p][n] = EditedObj(o, value)]
        /\ BeginThread(SavesBoth(p, n, active, EditedObj(o, value).stored))
    BY <1>4 DEF Update
  <2>2. pair /\ "pair" \in Excused => Processes \subseteq astray'
    BY DEF Update, ExcuseProcesses
  <2> QED
    BY <2>1, <2>2, <1>2, <1>3, <1>4
<1>5. CASE ~differs
  <2>1. /\ objs' = [objs EXCEPT ![p][n] = SwitchedObj(o, active)]
        /\ IF SameActive(p, n, active) THEN UNCHANGED thread
           ELSE BeginThread(SavesActive(p, n, active))
    BY <1>5 DEF Update
  <2> QED
    BY <2>1, <1>2, <1>3, <1>5
<1> QED
  BY <1>4, <1>5

LEMMA ShapeOfUpdate ==
    ASSUME PluginTypeOK, ObjectsKnown, NEW p \in Processes, NEW active \in BOOLEAN, NEW more \in BOOLEAN,
           NEW value \in ShownSecrets \cup {Plain(s) : s \in Secrets},
           Update(p, active, value, more)
    PROVE  PluginTypeOK' /\ ObjectsKnown'
<1> DEFINE n == current[p]  o == objs[p][n]
           edited == EditedObj(o, value)
           switched == SwitchedObj(o, active)
           saves == SavesBoth(p, n, active, edited.stored)
           sets == SavesActive(p, n, active)
<1>1. /\ n \in 1 .. Len(objs[p]) /\ o \in PluginObject
      /\ \/ objs' = [objs EXCEPT ![p][n] = edited] /\ BeginThread(saves)
         \/ objs' = [objs EXCEPT ![p][n] = switched] /\ UNCHANGED thread
         \/ objs' = [objs EXCEPT ![p][n] = switched] /\ BeginThread(sets)
  BY UpdateSteps
<1>2. value \in SecretValue
  BY AskedValues
<1>3. edited \in PluginObject /\ switched \in PluginObject
  BY <1>1, <1>2, ValueTypes
<1>4. n \in Nat /\ edited.stored \in SecretValue
  BY <1>3, ProcessTypes DEF PluginObject
<1>5. ASSUME NEW new, new = saves \/ new = sets
      PROVE  /\ new \in PluginThread /\ new.at \in {"conf", "active"} /\ new.p = p /\ new.then = ""
             /\ new.obj = n
  <2> DEFINE saved == edited.stored
  <2>1. (new = SavesBoth(p, n, active, saved) \/ new = SavesActive(p, n, active)) /\ saved \in SecretValue
    BY <1>4, <1>5
  <2>2. /\ NoThread \in PluginThread /\ NoThread.then = "" /\ NoThread.item = InstalledRow
        /\ InstalledRow \in PluginRow
    BY ValueTypes DEF NoThread
  <2> HIDE DEF saved, saves, sets, edited
  <2>3. CASE new = SavesBoth(p, n, active, saved)
    BY <1>4, <2>1, <2>2, <2>3 DEF SavesBoth, PluginThread, PluginPlaces, RequestPlaces, PluginRow
  <2>4. CASE new = SavesActive(p, n, active)
    BY <1>4, <2>1, <2>2, <2>4 DEF SavesActive, PluginThread, PluginPlaces, RequestPlaces, PluginRow
  <2> QED
    BY <2>1, <2>3, <2>4
<1> HIDE DEF edited, switched, saves, sets
<1>6. objs' \in [Processes -> Seq(PluginObject)] /\ \A q \in Processes : Len(objs'[q]) = Len(objs[q])
  BY <1>1, <1>3, ObjectChanges
<1>7. UNCHANGED <<row, codeDir, current, routes, triggers, cached, chan, subscribed, made>> /\ AskPlugin("update")
  BY DEF Update, AskPluginNow
<1>8. n \in 0 .. Len(objs[p]) /\ n # 0
  BY <1>1, ProcessTypes, InRange
<1>9. thread' \in [PluginThreads -> PluginThread] /\ ObjectsKnown'
  <2>1. CASE BeginThread(saves)
    BY <2>1, <1>5, <1>6, <1>7, <1>8, RequestKnown
  <2>2. CASE BeginThread(sets)
    BY <2>2, <1>5, <1>6, <1>7, <1>8, RequestKnown
  <2>3. CASE UNCHANGED thread
    <3>1. \A q \in Processes : current'[q] \in 0 .. Len(objs'[q])
      BY <1>6, <1>7 DEF ObjectsKnown
    <3>2. \A u \in PluginThreads : ThreadKnown(thread[u])'
      <4> SUFFICES ASSUME NEW u \in PluginThreads PROVE ThreadKnown(thread[u])'
        OBVIOUS
      <4>1. thread'[u] = thread[u] /\ ThreadKnown(thread[u])
        BY <2>3 DEF ObjectsKnown
      <4> QED
        BY <4>1, <1>6 DEF ThreadKnown
    <3>3. thread' \in [PluginThreads -> PluginThread]
      BY <2>3 DEF PluginTypeOK
    <3> QED
      BY <3>1, <3>2, <3>3 DEF ObjectsKnown
  <2> QED
    BY <2>1, <2>2, <2>3, <1>1
<1>10. astray' \subseteq AllProcesses
  <2>1. \E who \in SUBSET Processes : astray' = astray \cup who
    BY DEF Update, ExcuseProcesses
  <2> QED
    BY <2>1 DEF PluginTypeOK, AllProcesses
<1>11. typed' \in SecretText
  BY <1>2 DEF Update, SecretValue, PluginTypeOK
<1>12. asked' \in [PluginOps -> Nat]
  BY <1>7, AskedKeeps DEF PluginOps
<1> QED
  BY <1>6, <1>7, <1>9, <1>10, <1>11, <1>12 DEF PluginTypeOK

\* Every step keeps the types.
LEMMA PluginShape ==
    ASSUME PluginTypeOK, ObjectsKnown, [PluginNext]_pluginVars
    PROVE  PluginTypeOK' /\ ObjectsKnown'
<1>1. CASE UNCHANGED pluginVars
  BY <1>1 DEF pluginVars, PluginTypeOK, ObjectsKnown, ThreadKnown
<1>2. CASE \E t \in PluginThreads : PluginStep(t)
  BY <1>2, ShapeOfInit, ShapeOfRequest DEF PluginStep
<1>3. CASE \E p \in Processes : Deliver(p) \/ Restart(p) \/ Delete(p)
  BY <1>3, ShapeOfMessages, ShapeOfRestart, ShapeOfDelete
<1>4. CASE \E p \in Processes : \E update \in BOOLEAN : Upload(p, update)
  BY <1>4, ShapeOfUpload
<1>5. CASE \E p \in Processes : \E active, more \in BOOLEAN :
              \E value \in ShownSecrets \cup {Plain(s) : s \in Secrets} : Update(p, active, value, more)
  BY <1>5, ShapeOfUpdate
<1> QED
  BY <1>1, <1>2, <1>3, <1>4, <1>5 DEF PluginNext

-----------------------------------------------------------------------------
(* What a step of a thread, or of a process, leaves alone. *)

\* What a step leaves alone in the process q.
SameMemory(q) ==
    /\ objs'[q] = objs[q] /\ current'[q] = current[q] /\ routes'[q] = routes[q]
    /\ triggers'[q] = triggers[q] /\ cached'[q] = cached[q] /\ subscribed'[q] = subscribed[q]

\* What a thread may go on to.
ThreadSteps(t) ==
    /\ thread[t].at # "idle" /\ thread[t].p \in Processes
    /\ \A u \in PluginThreads \ {t} : thread'[u] = thread[u]
    /\ thread'[t] = NoThread \/ thread'[t].p = thread[t].p
    /\ IsRequest(t)' => IsRequest(t)
    /\ ~ThreadAt(t, "conf")'
    /\ Renews(t)' => Renews(t)
    /\ ThreadAt(t, "record")' => /\ thread[t].at = "place" /\ made' = made + 1
                                /\ thread'[t].item.version = made + 1
    /\ thread'[t].item.version \in {thread[t].item.version, row.version, 1} \/ ThreadAt(t, "record")'
    /\ thread'[t].at = "install" => thread[t].at = "folder" /\ Outdated(t)
    /\ thread'[t].at \in {"hash", "load"} => thread[t].at \in {"install", "hash"}

LEMMA StepThreads ==
    ASSUME PluginTypeOK, ObjectsKnown, NEW t \in PluginThreads, PluginStep(t)
    PROVE  ThreadSteps(t)
<1> DEFINE p == thread[t].p
<1>1. /\ thread \in [PluginThreads -> PluginThread] /\ thread[t] \in PluginThread
      /\ ThreadKnown(thread[t])
  BY DEF PluginTypeOK, ObjectsKnown
<1>2. NoThread.at = "idle" /\ NoThread.then = "" /\ NoThread.item.version = 1
  BY DEF NoThread, InstalledRow
<1>3. thread[t].at # "idle"
  BY DEF PluginStep, ClearFolder, Install, WriteHash, Load, InitFails, ReadyToLoad, FinishDeinit, DeinitFails,
     ReadRow, LoadFromDB, Subscribe, SaveConf, SaveActive, Build, Invalid, Place, Record, Erase, ThreadAt
<1>4. p \in Processes
  BY <1>1, <1>3 DEF ThreadKnown
<1>5. ASSUME ThreadMoves(t, NoThread) PROVE ThreadSteps(t)
  <2>1. thread'[t] = NoThread /\ \A u \in PluginThreads \ {t} : thread'[u] = thread[u]
    BY <1>1, <1>5 DEF ThreadMoves
  <2> QED
    BY <2>1, <1>2, <1>3, <1>4 DEF ThreadSteps, IsRequest, Renews, RequestPlaces, ThreadAt
<1>6. ASSUME NEW place \in PluginPlaces \ {"conf", "record"}, ThreadGoes(t, place),
             place \in RequestPlaces => IsRequest(t), place \in {"build", "place"} => Renews(t),
             place = "install" => thread[t].at = "folder" /\ Outdated(t),
             place \in {"hash", "load"} => thread[t].at \in {"install", "hash"},
             place # "deinit"
      PROVE ThreadSteps(t)
  <2>1. /\ thread'[t].at = place
        /\ thread'[t].p = thread[t].p /\ thread'[t].then = thread[t].then
        /\ thread'[t].item = thread[t].item
        /\ \A u \in PluginThreads \ {t} : thread'[u] = thread[u]
    BY <1>6, GoesKeeps
  <2> QED
    BY <2>1, <1>3, <1>4, <1>6 DEF ThreadSteps, IsRequest, Renews, ThreadAt
<1>7. CASE ClearFolder(t)
  BY <1>6, <1>7 DEF ClearFolder, PluginPlaces, FolderPlaces, RequestPlaces, ThreadAt
<1>8. CASE Install(t)
  <2>1. CASE ThreadGoes(t, "load")
    BY <2>1, <1>6, <1>8 DEF Install, PluginPlaces, FolderPlaces, RequestPlaces, ThreadAt
  <2>2. CASE ThreadMoves(t, [thread[t] EXCEPT !.at = "hash", !.item.version = row.version])
    <3> DEFINE new == [thread[t] EXCEPT !.at = "hash", !.item.version = row.version]
    <3>1. new.at = "hash" /\ new.p = p /\ new.then = thread[t].then /\ new.item.version = row.version
      BY <1>1 DEF PluginThread, PluginRow
    <3>2. thread' = [thread EXCEPT ![t] = new]
      BY <2>2 DEF ThreadMoves
    <3> HIDE DEF new
    <3>3. thread'[t] = new /\ \A u \in PluginThreads \ {t} : thread'[u] = thread[u]
      BY <3>2, <1>1
    <3> QED
      BY <3>1, <3>3, <1>3, <1>4, <1>8 DEF ThreadSteps, IsRequest, Renews, RequestPlaces, ThreadAt, Install
  <2> QED
    BY <2>1, <2>2, <1>8 DEF Install
<1>9. CASE WriteHash(t)
  BY <1>6, <1>9 DEF WriteHash, PluginPlaces, FolderPlaces, RequestPlaces, ThreadAt
<1>10. CASE Load(t) \/ InitFails(t)
  <2>1. ThreadDone(t)
    BY <1>10 DEF Load, InitFails
  <2>2. CASE thread[t].then # "subscribe"
    BY <2>1, <2>2, <1>5 DEF ThreadDone
  <2>3. CASE thread[t].then = "subscribe"
    <3>1. ThreadGoes(t, "subscribe")
      BY <2>1, <2>3 DEF ThreadDone, ThreadGoes
    <3> QED
      BY <3>1, <1>6 DEF PluginPlaces, FolderPlaces, RequestPlaces
  <2> QED
    BY <2>2, <2>3
<1>11. CASE FinishDeinit(t) \/ DeinitFails(t)
  <2>1. thread[t].at = "deinit" /\ thread[t].then \in {"new", "drop", "place", "erase"}
    BY <1>11, DeinitEnds
  <2> PICK off : AfterDeinit(t, off)
    BY <1>11, DeinitEnds
  <2>2. CASE thread[t].then = "drop"
    BY <2>2, <1>5 DEF AfterDeinit
  <2>3. CASE thread[t].then = "new"
    <3> DEFINE new == StartingObj(t)
    <3>1. new.at = "folder" /\ new.p = p /\ new.then = "" /\ new.item = thread[t].item
      BY <1>1 DEF StartingObj, PluginThread
    <3>2. thread' = [thread EXCEPT ![t] = new]
      BY <2>3 DEF ThreadMoves, AfterDeinit
    <3> HIDE DEF new
    <3>3. thread'[t] = new /\ \A u \in PluginThreads \ {t} : thread'[u] = thread[u]
      BY <3>2, <1>1
    <3> QED
      BY <3>1, <3>3, <1>3, <1>4 DEF ThreadSteps, IsRequest, Renews, RequestPlaces, ThreadAt
  <2>4. CASE thread[t].then \in {"place", "erase"}
    <3>1. ThreadGoes(t, thread[t].then)
      BY <2>4 DEF AfterDeinit
    <3> QED
      BY <2>1, <2>4, <3>1, <1>6 DEF PluginPlaces, FolderPlaces, RequestPlaces, IsRequest, Renews, ThreadAt
  <2> QED
    BY <2>1, <2>2, <2>3, <2>4
<1>12. CASE ReadRow(t)
  <2>1. CASE ThreadMoves(t, NoThread)
    BY <2>1, <1>5
  <2>2. CASE ThreadMoves(t, [thread[t] EXCEPT !.at = "deinit", !.then = "new", !.item = row])
    <3> DEFINE new == [thread[t] EXCEPT !.at = "deinit", !.then = "new", !.item = row]
    <3>1. new.at = "deinit" /\ new.p = p /\ new.then = "new" /\ new.item = row
      BY <1>1 DEF PluginThread
    <3>2. thread' = [thread EXCEPT ![t] = new]
      BY <2>2 DEF ThreadMoves
    <3> HIDE DEF new
    <3>3. thread'[t] = new /\ \A u \in PluginThreads \ {t} : thread'[u] = thread[u]
      BY <3>2, <1>1
    <3> QED
      BY <3>1, <3>3, <1>3, <1>4 DEF ThreadSteps, IsRequest, Renews, RequestPlaces, ThreadAt
  <2>3. CASE ThreadMoves(t, [StartingObj(t) EXCEPT !.item = row])
    <3> DEFINE new == [StartingObj(t) EXCEPT !.item = row]
    <3>1. new.at = "folder" /\ new.p = p /\ new.then = "" /\ new.item = row
      BY <1>1 DEF PluginThread, StartingObj
    <3>2. thread' = [thread EXCEPT ![t] = new]
      BY <2>3 DEF ThreadMoves
    <3> HIDE DEF new
    <3>3. thread'[t] = new /\ \A u \in PluginThreads \ {t} : thread'[u] = thread[u]
      BY <3>2, <1>1
    <3> QED
      BY <3>1, <3>3, <1>3, <1>4 DEF ThreadSteps, IsRequest, Renews, RequestPlaces, ThreadAt
  <2> QED
    BY <2>1, <2>2, <2>3, <1>12 DEF ReadRow
<1>13. CASE LoadFromDB(t)
  <2>1. CASE ThreadGoes(t, "subscribe")
    BY <2>1, <1>6 DEF PluginPlaces, FolderPlaces, RequestPlaces
  <2>2. CASE ThreadMoves(t, [thread[t] EXCEPT !.at = "folder", !.obj = 1, !.item = row])
    <3> DEFINE new == [thread[t] EXCEPT !.at = "folder", !.obj = 1, !.item = row]
    <3>1. new.at = "folder" /\ new.p = p /\ new.then = thread[t].then /\ new.item = row
      BY <1>1 DEF PluginThread
    <3>2. thread' = [thread EXCEPT ![t] = new]
      BY <2>2 DEF ThreadMoves
    <3> HIDE DEF new
    <3>3. thread'[t] = new /\ \A u \in PluginThreads \ {t} : thread'[u] = thread[u]
      BY <3>2, <1>1
    <3> QED
      BY <3>1, <3>3, <1>3, <1>4 DEF ThreadSteps, IsRequest, Renews, RequestPlaces, ThreadAt
  <2> QED
    BY <2>1, <2>2, <1>13 DEF LoadFromDB
<1>14. CASE Subscribe(t) \/ SaveActive(t) \/ Invalid(t) \/ Record(t) \/ Erase(t)
  BY <1>5, <1>14 DEF Subscribe, SaveActive, Invalid, Record, Erase
<1>15. CASE SaveConf(t)
  <2>1. CASE ThreadMoves(t, NoThread)
    BY <2>1, <1>5
  <2>2. CASE ThreadGoes(t, "active")
    BY <2>2, <1>6, <1>15 DEF PluginPlaces, FolderPlaces, RequestPlaces, SaveConf, IsRequest, ThreadAt
  <2> QED
    BY <2>1, <2>2, <1>15 DEF SaveConf
<1>16. CASE Build(t)
  <2>1. CASE ThreadMoves(t, NoThread)
    BY <2>1, <1>5
  <2>2. CASE ThreadGoes(t, "place")
    BY <2>2, <1>6, <1>16 DEF PluginPlaces, FolderPlaces, RequestPlaces, Build, IsRequest, ThreadAt, Renews
  <2>3. CASE ThreadMoves(t, [thread[t] EXCEPT !.at = "deinit", !.then = "place"])
    <3> DEFINE new == [thread[t] EXCEPT !.at = "deinit", !.then = "place"]
    <3>1. new.at = "deinit" /\ new.p = p /\ new.then = "place" /\ new.item = thread[t].item
      BY <1>1 DEF PluginThread
    <3>2. thread' = [thread EXCEPT ![t] = new]
      BY <2>3 DEF ThreadMoves
    <3> HIDE DEF new
    <3>3. thread'[t] = new /\ \A u \in PluginThreads \ {t} : thread'[u] = thread[u]
      BY <3>2, <1>1
    <3> QED
      BY <3>1, <3>3, <1>3, <1>4, <1>16 DEF ThreadSteps, IsRequest, Renews, RequestPlaces, ThreadAt, Build
  <2> QED
    BY <2>1, <2>2, <2>3, <1>16 DEF Build
<1>17. CASE Place(t)
  <2>1. CASE ThreadMoves(t, NoThread)
    BY <2>1, <1>5
  <2>2. CASE ThreadMoves(t, [thread[t] EXCEPT !.at = "record", !.item.version = made + 1]) /\ made' = made + 1
    <3> DEFINE new == [thread[t] EXCEPT !.at = "record", !.item.version = made + 1]
    <3>1. new.at = "record" /\ new.p = p /\ new.then = thread[t].then /\ new.item.version = made + 1
      BY <1>1 DEF PluginThread, PluginRow
    <3>2. thread' = [thread EXCEPT ![t] = new]
      BY <2>2 DEF ThreadMoves
    <3> HIDE DEF new
    <3>3. thread'[t] = new /\ \A u \in PluginThreads \ {t} : thread'[u] = thread[u]
      BY <3>2, <1>1
    <3> QED
      BY <3>1, <3>3, <2>2, <1>3, <1>4, <1>17 DEF ThreadSteps, IsRequest, Renews, RequestPlaces, ThreadAt, Place
  <2> QED
    BY <2>1, <2>2, <1>17 DEF Place
<1> QED
  BY <1>7, <1>8, <1>9, <1>10, <1>11, <1>12, <1>13, <1>14, <1>15, <1>16, <1>17 DEF PluginStep

Publishes(t) == SaveConf(t) \/ SaveActive(t) \/ Record(t) \/ Erase(t)

\* A step of a thread is about its own process and its host.
LEMMA StepMemory ==
    ASSUME PluginTypeOK, ObjectsKnown, NEW t \in PluginThreads, PluginStep(t)
    PROVE  /\ \A q \in Processes : q # thread[t].p => SameMemory(q)
           /\ \A h \in Hosts : h # HostOf[thread[t].p] => codeDir'[h] = codeDir[h]
           /\ Publishes(t) \/ (row' = row /\ chan' = chan)
           /\ astray \subseteq astray'
<1> DEFINE p == thread[t].p  n == thread[t].obj
<1>1. p \in Processes /\ thread[t].at # "idle" /\ ThreadKnown(thread[t])
  BY StepThreads DEF ThreadSteps, ObjectsKnown
<1>2. objs \in [Processes -> Seq(PluginObject)] /\ current \in [Processes -> Nat]
      /\ routes \in [Processes -> SUBSET Nat] /\ triggers \in [Processes -> Nat]
      /\ cached \in [Processes -> Nat] /\ subscribed \in [Processes -> BOOLEAN]
      /\ codeDir \in [Hosts -> Folder]
  BY DEF PluginTypeOK
<1> USE DEF SameMemory
<1>3. CASE ClearFolder(t) \/ Install(t) \/ WriteHash(t) \/ Place(t)
  <2>1. UNCHANGED <<objs, current, routes, triggers, cached, row, chan, subscribed, astray>>
    BY <1>3 DEF ClearFolder, Install, WriteHash, Place, memory
  <2>2. codeDir' = codeDir \/ \E f : codeDir' = [codeDir EXCEPT ![ThreadHost(t)] = f]
    BY <1>3 DEF ClearFolder, Install, WriteHash, Place
  <2> QED
    BY <2>1, <2>2, <1>2 DEF ThreadHost
<1>4. CASE Load(t) \/ InitFails(t)
  <2>1. UNCHANGED <<row, codeDir, current, chan, subscribed>> /\ astray \subseteq astray'
    BY <1>4 DEF Load, InitFails, memory, outside, ExcuseProcesses
  <2>2. /\ objs' = objs \/ \E o : objs' = [objs EXCEPT ![p][n] = o]
        /\ routes' = routes \/ \E r : routes' = [routes EXCEPT ![p] = r]
        /\ triggers' = triggers \/ \E k : triggers' = [triggers EXCEPT ![p] = k]
        /\ cached' = cached \/ \E k : cached' = [cached EXCEPT ![p] = k]
    <3>1. CASE Load(t) /\ UNCHANGED memory
      BY <3>1 DEF memory
    <3>2. CASE Load(t) /\ ~UNCHANGED memory
      BY <3>2 DEF Load
    <3>3. CASE InitFails(t)
      BY <3>3 DEF InitFails
    <3> QED
      BY <3>1, <3>2, <3>3, <1>4
  <2> QED
    BY <2>1, <2>2, <1>2
<1>5. CASE FinishDeinit(t) \/ DeinitFails(t)
  <2>1. UNCHANGED <<row, codeDir, chan, subscribed>> /\ astray \subseteq astray'
    BY <1>5, DeinitEnds
  <2>2. /\ cached' = cached \/ \E k : cached' = [cached EXCEPT ![p] = k]
        /\ routes' = routes \/ \E r : routes' = [routes EXCEPT ![p] = r]
        /\ triggers' = triggers \/ \E k : triggers' = [triggers EXCEPT ![p] = k]
    BY <1>5, DeinitEnds
  <2>3. /\ \E o : objs' = [objs EXCEPT ![p] = o]
        /\ current' = current \/ \E k : current' = [current EXCEPT ![p] = k]
    <3> PICK off : AfterDeinit(t, off)
      BY <1>5, DeinitEnds
    <3>1. CASE thread[t].then = "new"
      BY <3>1, Zenon DEF AfterDeinit
    <3>2. CASE thread[t].then = "drop"
      BY <3>2, Zenon DEF AfterDeinit
    <3>3. CASE thread[t].then \notin {"new", "drop"}
      BY <3>3 DEF AfterDeinit
    <3> QED
      BY <3>1, <3>2, <3>3
  <2> QED
    BY <2>1, <2>2, <2>3, <1>2
<1>6. CASE ReadRow(t) \/ LoadFromDB(t)
  <2>1. UNCHANGED <<row, codeDir, chan, subscribed, astray, routes, triggers, cached>>
    BY <1>6 DEF ReadRow, LoadFromDB, outside
  <2>2. \/ objs' = objs /\ current' = current
        \/ \E o : objs' = [objs EXCEPT ![p][n] = o] /\ current' = current
        \/ Listed(p, row)
    BY <1>6 DEF ReadRow, LoadFromDB
  <2>3. Listed(p, row) => \A q \in Processes : q # p => objs'[q] = objs[q] /\ current'[q] = current[q]
    BY <1>2 DEF Listed
  <2> QED
    BY <2>1, <2>2, <2>3, <1>2
<1>7. CASE Subscribe(t)
  BY <1>2, <1>7 DEF Subscribe, memory
<1>8. CASE SaveConf(t)
  <2>1. UNCHANGED <<codeDir, current, routes, triggers, cached, subscribed, astray>>
        /\ \E o : objs' = [objs EXCEPT ![p][n] = o]
    BY <1>8 DEF SaveConf
  <2> QED
    BY <2>1, <1>2, <1>8 DEF Publishes
<1>9. CASE SaveActive(t) \/ Record(t) \/ Erase(t)
  <2>1. UNCHANGED <<objs, current, routes, triggers, cached, subscribed, astray>>
        /\ (codeDir' = codeDir \/ codeDir' = [codeDir EXCEPT ![ThreadHost(t)] = NoFolder])
    BY <1>9 DEF SaveActive, Record, Erase, memory
  <2> QED
    BY <2>1, <1>2, <1>9 DEF Publishes, ThreadHost
<1>10. CASE Build(t) \/ Invalid(t)
  <2>1. UNCHANGED <<row, codeDir, current, chan, subscribed, routes, triggers, cached>> /\ astray \subseteq astray'
    BY <1>10 DEF Build, Invalid, memory, outside, ExcuseProcesses
  <2>2. objs' = objs \/ \E o : objs' = [objs EXCEPT ![p][n] = o]
    BY <1>10 DEF Build, Invalid, memory
  <2> QED
    BY <2>1, <2>2, <1>2
<1> QED
  BY <1>3, <1>4, <1>5, <1>6, <1>7, <1>8, <1>9, <1>10 DEF PluginStep

-----------------------------------------------------------------------------
(* Versions, and the one request. *)

UploadPlaces == {"install", "hash", "load", "build", "place", "record"}

\* Steps that build nothing.
LEMMA VersionsStay ==
    ASSUME PluginTypeOK, PluginTypeOK', VersionsKnown, made' = made, asked'["upload"] <= asked["upload"],
           row'.version = row.version, row'.there => row.there, codeDir' = codeDir,
           \A u \in PluginThreads :
              /\ thread'[u].item.version \in {thread[u].item.version, row.version, 1}
              /\ NoUploads /\ thread'[u].at \in UploadPlaces =>
                    thread[u].at \in UploadPlaces \/ thread[u].then = "place"
              /\ thread'[u].then = "place" => thread[u].then = "place" \/ thread[u].at \in UploadPlaces
    PROVE  VersionsKnown'
<1>1. made \in Nat \ {0} /\ asked["upload"] \in Nat /\ asked'["upload"] \in Nat
  BY DEF PluginTypeOK, PluginOps
<1>2. 1 <= made
  BY <1>1
<1>3. \A u \in PluginThreads : thread'[u].item.version <= made'
  BY <1>2 DEF VersionsKnown
<1>4. ASSUME NoUploads
      PROVE  /\ asked'["upload"] = 0 /\ made' = 1
             /\ row'.there => \A h \in Hosts : codeDir'[h] = [there |-> TRUE, code |-> 1, hash |-> 1]
             /\ \A h \in Hosts : codeDir'[h].there => codeDir'[h].hash = 1
             /\ \A u \in PluginThreads : thread'[u].at \notin UploadPlaces /\ thread'[u].then # "place"
  BY <1>1, <1>4 DEF VersionsKnown, UploadPlaces
<1> QED
  BY <1>3, <1>4 DEF VersionsKnown, UploadPlaces, NoUploads

\* Without uploads no folder is out of date.
LEMMA NoneOutdated ==
    ASSUME PluginTypeOK, VersionsKnown, NoUploads, NEW t \in PluginThreads, thread[t].p \in Processes
    PROVE  ~Outdated(t) /\ made = 1 /\ row.version = 1 /\ thread[t].item.version = 1
<1>1. row.version \in Nat \ {0} /\ thread[t].item.version \in Nat \ {0}
  BY DEF PluginTypeOK, PluginRow, PluginThread
<1>2. made = 1 /\ row.version <= 1 /\ thread[t].item.version <= 1
  BY DEF VersionsKnown
<1>3. HostOf[thread[t].p] \in Hosts
  BY PluginsAssumption
<1>4. codeDir[HostOf[thread[t].p]].there => codeDir[HostOf[thread[t].p]].hash = 1
  BY <1>3 DEF VersionsKnown
<1> QED
  BY <1>1, <1>2, <1>4 DEF Outdated, ThreadHost

\* No step changes whether an object is active, but the last of an update.
LEMMA ActivesStay ==
    ASSUME PluginTypeOK, ObjectsKnown, NEW t \in PluginThreads, PluginStep(t), ~SaveConf(t),
           NEW q \in Processes, NEW m \in 1 .. Len(objs[q])
    PROVE  objs'[q][m].active = objs[q][m].active
<1> DEFINE p == thread[t].p  n == thread[t].obj
<1>1. p \in Processes /\ thread[t].at # "idle" /\ ThreadKnown(thread[t])
  BY StepThreads DEF ThreadSteps, ObjectsKnown
<1>2. q # p => objs'[q] = objs[q]
  BY StepMemory DEF SameMemory
<1>3. n # 0 => n \in 1 .. Len(objs[p]) /\ objs[p][n] \in PluginObject
  <2>1. n \in 0 .. Len(objs[p]) /\ Len(objs[p]) \in Nat
    BY <1>1, LengthsAreNat DEF ThreadKnown
  <2> QED
    BY <2>1, <1>1, InRangeOne, ObjectsThere
<1>4. ASSUME NEW o \in PluginObject, objs' = [objs EXCEPT ![p][n] = o], n # 0, o.active = objs[p][n].active
      PROVE  objs'[q][m].active = objs[q][m].active
  <2>1. n \in 1 .. Len(objs[p])
    BY <1>3, <1>4
  <2>2. p \in Processes /\ ChangesObj(p, n, o)
    BY <1>1, <1>4 DEF ChangesObj
  <2> HIDE DEF p, n
  <2>3. objs'[p][n] = o /\ \A k \in 1 .. Len(objs[p]) : k # n => objs'[p][k] = objs[p][k]
    BY <2>1, <2>2, <1>4, ObjectChanged
  <2>4. CASE q = p /\ m # n
    <3>1. m \in 1 .. Len(objs[p])
      BY <2>4
    <3> QED
      BY <2>3, <2>4, <3>1
  <2>5. CASE q = p /\ m = n
    BY <2>3, <2>5, <1>4
  <2>6. CASE q # p
    BY <2>6, <1>2 DEF p
  <2> QED
    BY <2>4, <2>5, <2>6
<1>5. ASSUME NEW item \in PluginRow, Listed(p, item) PROVE objs'[q][m].active = objs[q][m].active
  <2>1. \A k \in 1 .. Len(objs[p]) : objs'[p][k] = objs[p][k]
    BY <1>1, <1>5, ListedKeeps
  <2> QED
    BY <2>1, <1>2
<1>6. \A o \in PluginObject : /\ StoppedObj(o) \in PluginObject /\ StoppedObj(o).active = o.active
                              /\ OffObj(o) \in PluginObject /\ OffObj(o).active = o.active
                              /\ RequiredObj(o) \in PluginObject /\ RequiredObj(o).active = o.active
  <2> TAKE o \in PluginObject
  <2>1. StoppedObj(o) \in PluginObject /\ OffObj(o) \in PluginObject /\ RequiredObj(o) \in PluginObject
    BY ValueTypes
  <2>2. StoppedObj(o).active = o.active /\ OffObj(o).active = o.active /\ RequiredObj(o).active = o.active
    BY DEF PluginObject, StoppedObj, OffObj, RequiredObj
  <2> QED
    BY <2>1, <2>2
<1>7. row \in PluginRow /\ thread[t].item \in PluginRow
  BY DEF PluginTypeOK, PluginThread
<1>8. CASE UNCHANGED objs
  BY <1>8
<1>9. CASE Load(t) /\ ~UNCHANGED objs
  <2> DEFINE code == IF cached[p] = 0 THEN codeDir[ThreadHost(t)].code ELSE cached[p]
             o == LoadedObj(objs[p][n], code)
  <2>1. objs' = [objs EXCEPT ![p][n] = o] /\ n # 0 /\ code \in Nat
    <3>1. objs' = [objs EXCEPT ![p][n] = o]
      BY <1>9 DEF Load, memory
    <3>2. n # 0
      BY <1>1, <1>9 DEF Load, ReadyToLoad, ThreadAt, ThreadKnown, FolderPlaces
    <3>3. HostOf[p] \in Hosts
      BY <1>1, PluginsAssumption
    <3>4. codeDir[HostOf[p]].code \in Nat /\ cached[p] \in Nat
      BY <1>1, <3>3 DEF PluginTypeOK, Folder
    <3> QED
      BY <3>1, <3>2, <3>4 DEF ThreadHost
  <2>2. o \in PluginObject /\ o.active = objs[p][n].active
    <3>1. o \in PluginObject
      BY <2>1, <1>3, ValueTypes
    <3>2. RequiredObj(objs[p][n]) \in PluginObject /\ RequiredObj(objs[p][n]).active = objs[p][n].active
      BY <2>1, <1>3, <1>6
    <3>3. \A r \in PluginObject : \A c, x, y : [r EXCEPT !.code = c, !.response = x, !.initialized = y].active = r.active
      BY DEF PluginObject
    <3> QED
      BY <3>1, <3>2, <3>3 DEF LoadedObj
  <2> HIDE DEF o, code
  <2> QED
    BY <2>1, <2>2, <1>4
<1>10. CASE InitFails(t)
  <2>1. objs' = [objs EXCEPT ![p][n] = RequiredObj(objs[p][n])] /\ n # 0
    BY <1>1, <1>10 DEF InitFails, ReadyToLoad, ThreadAt, ThreadKnown, FolderPlaces
  <2> QED
    BY <2>1, <1>3, <1>4, <1>6
<1>11. CASE FinishDeinit(t) \/ DeinitFails(t)
  <2> PICK off \in Seq(PluginObject) :
        /\ Len(off) = Len(objs[p]) /\ AfterDeinit(t, off)
        /\ \A k \in 1 .. Len(objs[p]) : off[k] = objs[p][k] \/ (k = n /\ off[k] = OffObj(objs[p][k]))
    BY <1>11, DeinitEnds
  <2>1. objs \in [Processes -> Seq(PluginObject)] /\ n \in 1 .. Len(objs[p])
    BY <1>11, DeinitEnds DEF PluginTypeOK
  <2>2. \A k \in 1 .. Len(objs[p]) : off[k].active = objs[p][k].active
    BY <1>3, <1>6
  <2>3. objs' = [objs EXCEPT ![p] = off] \/ objs' = [objs EXCEPT ![p] = Append(off, NewPlugin(thread[t].item))]
    BY DEF AfterDeinit
  <2>4. objs'[p] = off \/ objs'[p] = Append(off, NewPlugin(thread[t].item))
    BY <2>1, <2>3, <1>1
  <2>5. \A k \in 1 .. Len(objs[p]) : Append(off, NewPlugin(thread[t].item))[k] = off[k]
    BY <1>7, ValueTypes
  <2> QED
    BY <2>2, <2>4, <2>5, <1>2
<1>12. CASE ReadRow(t)
  <2>1. CASE Listed(p, row)
    BY <2>1, <1>5, <1>7
  <2>2. CASE ~Listed(p, row)
    <3>1. UNCHANGED objs \/ (n # 0 /\ objs' = [objs EXCEPT ![p][n] = StoppedObj(objs[p][n])])
      BY <2>2, <1>12 DEF ReadRow
    <3> QED
      BY <3>1, <1>3, <1>4, <1>6
  <2> QED
    BY <2>1, <2>2
<1>13. CASE LoadFromDB(t) /\ ~UNCHANGED objs
  <2>1. Listed(p, row)
    BY <1>13 DEF LoadFromDB
  <2> QED
    BY <2>1, <1>5, <1>7
<1>14. CASE Build(t)
  <2>1. UNCHANGED objs \/ (n # 0 /\ objs' = [objs EXCEPT ![p][n] = StoppedObj(objs[p][n])])
    BY <1>14 DEF Build
  <2> QED
    BY <2>1, <1>3, <1>4, <1>6
<1>15. CASE \/ ClearFolder(t) \/ Install(t) \/ WriteHash(t) \/ Subscribe(t) \/ SaveActive(t) \/ Invalid(t)
            \/ Place(t) \/ Record(t) \/ Erase(t)
  <2>1. UNCHANGED objs
    BY <1>15 DEF ClearFolder, Install, WriteHash, Subscribe, SaveActive, Invalid, Place, Record, Erase, memory
  <2> QED
    BY <2>1
<1> QED
  BY <1>8, <1>9, <1>10, <1>11, <1>12, <1>13, <1>14, <1>15 DEF PluginStep

\* The versions stay known, whatever a thread does.
LEMMA VersionsOfStep ==
    ASSUME PluginTypeOK, PluginTypeOK', ObjectsKnown, VersionsKnown, NEW t \in PluginThreads, PluginStep(t)
    PROVE  VersionsKnown'
<1> DEFINE h == ThreadHost(t)
<1>1. /\ made \in Nat \ {0} /\ row \in PluginRow /\ row.version \in Nat \ {0}
      /\ codeDir \in [Hosts -> Folder] /\ codeDir' \in [Hosts -> Folder]
      /\ thread[t] \in PluginThread /\ thread[t].item.version \in Nat \ {0}
      /\ asked["upload"] \in Nat /\ asked'["upload"] \in Nat
  BY DEF PluginTypeOK, PluginRow, PluginThread, PluginOps
<1>2. ThreadSteps(t) /\ thread[t].p \in Processes /\ HostOf[thread[t].p] \in Hosts
  BY StepThreads, PluginsAssumption DEF ThreadSteps
<1>3. \A u \in PluginThreads \ {t} : thread'[u] = thread[u]
  BY <1>2 DEF ThreadSteps
<1>4. ASSUME thread'[t] = NoThread, made' = made
       PROVE  \A u \in PluginThreads : thread'[u].item.version <= made'
  <2>1. NoThread.item.version = 1 /\ 1 <= made
    BY <1>1 DEF NoThread, InstalledRow
  <2>2. \A u \in PluginThreads : thread[u].item.version <= made
    BY DEF VersionsKnown
  <2> QED
    BY <2>1, <2>2, <1>3, <1>4
<1>5. ASSUME NoUploads
      PROVE  /\ asked["upload"] = 0 /\ made = 1 /\ row.version = 1 /\ thread[t].item.version = 1
             /\ thread[t].at \notin UploadPlaces /\ thread[t].then # "place"
             /\ codeDir[h].there => codeDir[h].hash = 1
  <2>1. /\ asked["upload"] = 0
        /\ thread[t].at \notin UploadPlaces /\ thread[t].then # "place"
    BY <1>5 DEF VersionsKnown, UploadPlaces
  <2>2. codeDir[h].there => codeDir[h].hash = 1
    BY <1>2, <1>5 DEF VersionsKnown, ThreadHost
  <2> QED
    BY <2>1, <2>2, <1>2, <1>5, NoneOutdated
<1>6. asked'["upload"] <= asked["upload"]
  <2>1. CASE UNCHANGED asked
    BY <2>1, <1>1
  <2>2. CASE AskPlugin("fault")
    BY <2>2, AskedKeeps DEF PluginOps
  <2> QED
    BY <2>1, <2>2 DEF PluginStep, ClearFolder, Install, WriteHash, Load, InitFails, FinishDeinit, DeinitFails, ReadRow,
     LoadFromDB, Subscribe, SaveConf, SaveActive, Build, Invalid, Place, Record, Erase, outside
<1>7. CASE ClearFolder(t)
  <2>1. /\ codeDir' = [codeDir EXCEPT ![h] = [NoFolder EXCEPT !.there = TRUE]] /\ made' = made /\ row' = row
        /\ codeDir[h].there /\ codeDir[h].hash # thread[t].item.version
    BY <1>7 DEF ClearFolder, Outdated, ThreadHost
  <2>2. ~NoUploads
    BY <2>1, <1>5
  <2>3. \A g \in Hosts : codeDir'[g].hash <= made'
    BY <2>1, <1>1 DEF VersionsKnown, NoFolder
  <2>4. \A u \in PluginThreads : thread'[u].item.version <= made'
    <3>1. 1 <= made /\ made' # made + 1
      BY <2>1, <1>1
    <3> QED
      BY <2>1, <3>1, <1>2, <1>3 DEF VersionsKnown, ThreadSteps
  <2>5. row'.version <= made'
    BY <2>1 DEF VersionsKnown
  <2> QED
    BY <2>2, <2>3, <2>4, <2>5 DEF VersionsKnown, NoUploads
<1>8. CASE Install(t)
  <2>1. /\ made' = made /\ row' = row /\ thread[t].at = "install"
        /\ codeDir' = codeDir \/ codeDir' = [codeDir EXCEPT ![h].code = row.version]
    BY <1>8 DEF Install, ThreadAt
  <2>2. ~NoUploads
    BY <2>1, <1>5 DEF UploadPlaces
  <2>3. \A g \in Hosts : codeDir'[g].hash <= made'
    BY <2>1, <1>1 DEF VersionsKnown, Folder
  <2>4. \A u \in PluginThreads : thread'[u].item.version <= made'
    <3>1. 1 <= made /\ made' # made + 1
      BY <2>1, <1>1
    <3> QED
      BY <2>1, <3>1, <1>2, <1>3 DEF VersionsKnown, ThreadSteps
  <2>5. row'.version <= made'
    BY <2>1 DEF VersionsKnown
  <2> QED
    BY <2>2, <2>3, <2>4, <2>5 DEF VersionsKnown, NoUploads
<1>9. CASE WriteHash(t)
  <2>1. /\ made' = made /\ row' = row /\ thread[t].at = "hash"
        /\ codeDir' = codeDir \/ codeDir' = [codeDir EXCEPT ![h].hash = thread[t].item.version]
    BY <1>9 DEF WriteHash, ThreadAt
  <2>2. ~NoUploads
    BY <2>1, <1>5 DEF UploadPlaces
  <2>3. \A g \in Hosts : codeDir'[g].hash <= made'
    <3>1. thread[t].item.version <= made
      BY DEF VersionsKnown
    <3> QED
      BY <2>1, <3>1, <1>1 DEF VersionsKnown, Folder
  <2>4. \A u \in PluginThreads : thread'[u].item.version <= made'
    <3>1. 1 <= made /\ made' # made + 1
      BY <2>1, <1>1
    <3> QED
      BY <2>1, <3>1, <1>2, <1>3 DEF VersionsKnown, ThreadSteps
  <2>5. row'.version <= made'
    BY <2>1 DEF VersionsKnown
  <2> QED
    BY <2>2, <2>3, <2>4, <2>5 DEF VersionsKnown, NoUploads
<1>10. CASE Place(t)
  <2>1. thread[t].at = "place" /\ row' = row
    BY <1>10 DEF Place, ThreadAt
  <2>2. ~NoUploads
    BY <2>1, <1>5 DEF UploadPlaces
  <2>3. CASE made' = made
    <3>1. codeDir' = codeDir /\ thread'[t] = NoThread
      BY <2>3, <1>1, <1>10 DEF Place, ThreadMoves, PluginTypeOK
    <3>2. \A u \in PluginThreads : thread'[u].item.version <= made'
      BY <2>3, <3>1, <1>4
    <3> QED
      BY <2>1, <2>2, <2>3, <3>1, <3>2 DEF VersionsKnown, NoUploads
  <2>4. CASE made' # made
    <3>1. /\ made' = made + 1
          /\ codeDir' = [codeDir EXCEPT ![h] = [there |-> TRUE, code |-> made + 1, hash |-> made + 1]]
          /\ thread' = [thread EXCEPT ![t] = [thread[t] EXCEPT !.at = "record", !.item.version = made + 1]]
      BY <2>4, <1>10 DEF Place, ThreadMoves
    <3>2. \A k \in Nat : k <= made => k <= made'
      BY <3>1, <1>1
    <3>3. \A g \in Hosts : codeDir'[g].hash <= made'
      <4>1. \A g \in Hosts : codeDir[g].hash \in Nat
        BY <1>1 DEF Folder
      <4> QED
        BY <3>1, <3>2, <4>1, <1>1 DEF VersionsKnown
    <3>4. thread'[t].item.version = made + 1
      BY <3>1, <1>1 DEF PluginTypeOK, PluginThread, PluginRow
    <3>5. \A u \in PluginThreads : thread'[u].item.version <= made'
      <4>1. \A u \in PluginThreads : thread[u].item.version \in Nat
        BY DEF PluginTypeOK, PluginThread, PluginRow
      <4> QED
        BY <3>1, <3>2, <3>4, <4>1, <1>1, <1>3 DEF VersionsKnown
    <3>6. row'.version <= made'
      BY <2>1, <3>2, <1>1 DEF VersionsKnown
    <3> QED
      BY <2>2, <3>3, <3>5, <3>6 DEF VersionsKnown, NoUploads
  <2> QED
    BY <2>3, <2>4
<1>11. CASE Record(t)
  <2>1. thread[t].at = "record" /\ UNCHANGED <<codeDir, made>> /\ thread'[t] = NoThread
    BY <1>11 DEF Record, ThreadAt, ThreadMoves, PluginTypeOK
  <2>2. ~NoUploads
    BY <2>1, <1>5 DEF UploadPlaces
  <2>3. row'.version \in {row.version, thread[t].item.version}
    <3>1. \/ row' = row
          \/ row' = [row EXCEPT !.version = thread[t].item.version]
          \/ row'.version = thread[t].item.version
      <4>1. CASE thread[t].obj = 0
        <5>1. row.there => row' = row
          BY <4>1, <1>11 DEF Record
        <5>2. ~row.there => row' = [there |-> TRUE, active |-> FALSE, version |-> thread[t].item.version,
                                   conf |-> EmptySecret]
          BY <4>1, <1>11, Zenon DEF Record
        <5>3. ~row.there => row'.version = thread[t].item.version
          BY <5>2
        <5> QED
          BY <5>1, <5>3
      <4>2. CASE thread[t].obj # 0
        BY <4>2, <1>11 DEF Record
      <4> QED
        BY <4>1, <4>2
    <3> QED
      BY <3>1, <1>1 DEF PluginRow
  <2>4. \A u \in PluginThreads : thread'[u].item.version <= made'
    BY <2>1, <1>4
  <2> QED
    BY <2>1, <2>2, <2>3, <2>4 DEF VersionsKnown, NoUploads
<1>12. CASE Erase(t)
  <2>1. /\ codeDir' = [codeDir EXCEPT ![h] = NoFolder] /\ made' = made /\ thread'[t] = NoThread
        /\ row' = [row EXCEPT !.there = FALSE]
    BY <1>12 DEF Erase, ThreadMoves, PluginTypeOK
  <2>2. ~row'.there /\ row'.version = row.version
    BY <2>1, <1>1 DEF PluginRow
  <2>3. \A g \in Hosts : codeDir'[g] = NoFolder \/ codeDir'[g] = codeDir[g]
    BY <2>1, <1>1
  <2>4. NoFolder.hash = 0 /\ ~NoFolder.there /\ 0 <= made
    BY <1>1 DEF NoFolder
  <2>5. \A g \in Hosts : codeDir'[g].hash <= made'
    BY <2>1, <2>3, <2>4 DEF VersionsKnown
  <2>6. \A u \in PluginThreads : thread'[u].item.version <= made'
    BY <2>1, <1>4
  <2>7. ASSUME NoUploads
        PROVE  /\ asked'["upload"] = 0 /\ made' = 1
               /\ \A g \in Hosts : codeDir'[g].there => codeDir'[g].hash = 1
               /\ \A u \in PluginThreads : thread'[u].at \notin UploadPlaces /\ thread'[u].then # "place"
    <3>1. NoThread.at = "idle" /\ NoThread.then = ""
      BY DEF NoThread
    <3>2. \A u \in PluginThreads : thread'[u].at \notin UploadPlaces /\ thread'[u].then # "place"
      BY <2>1, <2>7, <3>1, <1>3 DEF VersionsKnown, UploadPlaces
    <3>3. \A g \in Hosts : codeDir'[g].there => codeDir'[g].hash = 1
      BY <2>3, <2>4, <2>7 DEF VersionsKnown
    <3> QED
      BY <3>2, <3>3, <2>1, <2>7, <1>5, <1>6, <1>1
  <2> QED
    BY <2>1, <2>2, <2>5, <2>6, <2>7 DEF VersionsKnown, UploadPlaces, NoUploads
<1>13. CASE \/ Load(t) \/ InitFails(t) \/ FinishDeinit(t) \/ DeinitFails(t) \/ ReadRow(t)
            \/ LoadFromDB(t) \/ Subscribe(t) \/ SaveConf(t) \/ SaveActive(t) \/ Build(t) \/ Invalid(t)
  <2>1. made' = made /\ codeDir' = codeDir
    BY <1>13 DEF Load, InitFails, FinishDeinit, DeinitFails, ReadRow, LoadFromDB, Subscribe, SaveConf,
       SaveActive, Build, Invalid, outside
  <2>2. row'.version = row.version /\ (row'.there => row.there)
    BY <1>1, <1>13 DEF Load, InitFails, FinishDeinit, DeinitFails, ReadRow, LoadFromDB, Subscribe, SaveConf,
       SaveActive, Build, Invalid, outside, PluginRow
  <2>3. thread'[t].item.version \in {thread[t].item.version, row.version, 1}
    BY <2>1, <1>1, <1>2 DEF ThreadSteps, ThreadAt
  <2>4. thread'[t].at \in UploadPlaces /\ NoUploads => thread[t].at \in UploadPlaces \/ thread[t].then = "place"
    BY <2>1, <1>1, <1>2, NoneOutdated DEF ThreadSteps, UploadPlaces, Renews, ThreadAt
  <2>5. thread'[t].then = "place" => thread[t].then = "place" \/ thread[t].at \in UploadPlaces
    BY <1>2 DEF ThreadSteps, UploadPlaces, Renews
  <2> QED
    BY <2>1, <2>2, <2>3, <2>4, <2>5, <1>3, <1>6, VersionsStay
<1> QED
  BY <1>7, <1>8, <1>9, <1>10, <1>11, <1>12, <1>13 DEF PluginStep

\* The steps of a process and of an administrator, as its threads see them.
ProcessSteps(p) ==
    \/ Deliver(p) \/ Restart(p) \/ Delete(p)
    \/ \E update \in BOOLEAN : Upload(p, update)
    \/ \E active, more \in BOOLEAN, value \in ShownSecrets \cup {Plain(s) : s \in Secrets} :
          Update(p, active, value, more)

NewThread(u, p, places) ==
    /\ thread[u] = NoThread \/ thread[u].p = p
    /\ thread'[u].p = p /\ thread'[u].at \in places /\ thread'[u].item.version = 1

LEMMA ThreadsOfProcess ==
    ASSUME PluginTypeOK, ObjectsKnown, NEW p \in Processes, ProcessSteps(p)
    PROVE  /\ UNCHANGED <<row, codeDir, made>> /\ asked'["upload"] <= asked["upload"]
           /\ \A u \in PluginThreads :
                 \/ thread'[u] = thread[u] \/ (thread'[u] = NoThread /\ Restart(p))
                 \/ /\ NewThread(u, p, {"row", "deinit", "boot"})
                    /\ thread'[u].then \in {"", "drop", "subscribe", "erase"}
                    /\ (Deliver(p) /\ thread'[u].then # "erase") \/ Delete(p)
                       \/ (Restart(p) /\ thread'[u].at = "boot")
                 \/ /\ NewThread(u, p, {"conf", "active"}) /\ thread'[u].then = ""
                    /\ \E active, more \in BOOLEAN, value \in ShownSecrets \cup {Plain(s) : s \in Secrets} :
                          Update(p, active, value, more)
                 \/ /\ NewThread(u, p, {"build"}) /\ thread'[u].then = ""
                    /\ \E update \in BOOLEAN : Upload(p, update)
<1>1. /\ NoThread.at = "idle" /\ NoThread.then = "" /\ NoThread.item = InstalledRow
      /\ InstalledRow.version = 1 /\ InstalledRow \in PluginRow /\ NoThread \in PluginThread
      /\ NoThread.item.version = 1
  BY ValueTypes DEF NoThread, InstalledRow
<1>2. thread \in [PluginThreads -> PluginThread] /\ asked["upload"] \in Nat
  BY DEF PluginTypeOK, PluginOps
<1>3. CASE Deliver(p)
  <2>1. UNCHANGED <<row, codeDir, made, asked>>
    BY <1>3 DEF Deliver
  <2> DEFINE handler == [NoThread EXCEPT !.p = p, !.obj = current[p]]
             fresh == [handler EXCEPT !.at = "row"]
             last == [handler EXCEPT !.at = "deinit", !.then = "drop"]
  <2>2. /\ fresh.at = "row" /\ fresh.p = p /\ fresh.then = "" /\ fresh.item.version = 1
        /\ last.at = "deinit" /\ last.p = p /\ last.then = "drop" /\ last.item.version = 1
    BY <1>1 DEF PluginThread
  <2>3. UNCHANGED thread \/ BeginThread(fresh) \/ BeginThread(last)
    BY <1>3 DEF Deliver
  <2> HIDE DEF fresh, last
  <2>4. \A u \in PluginThreads : thread'[u] = thread[u] \/ (thread[u] = NoThread /\ thread'[u] \in {fresh, last})
    BY <2>3, <1>2 DEF BeginThread, ThreadMoves, ThreadIdle, ThreadAt, ObjectsKnown, ThreadKnown
  <2> QED
    <3>1. asked'["upload"] <= asked["upload"]
      BY <2>1, <1>2
    <3>2. ASSUME NEW u \in PluginThreads, thread'[u] # thread[u]
          PROVE  NewThread(u, p, {"row", "deinit", "boot"}) /\ thread'[u].then \in {"", "drop"}
      BY <3>2, <2>2, <2>4 DEF NewThread
    <3> QED
      BY <2>1, <3>1, <3>2, <1>3
<1>4. CASE Restart(p)
  <2>1. UNCHANGED <<row, codeDir, made>> /\ AskPlugin("restart")
    BY <1>4 DEF Restart
  <2>2. asked'["upload"] <= asked["upload"]
    BY <2>1, AskedKeeps DEF PluginOps
  <2> DEFINE boots == [NoThread EXCEPT !.at = "boot", !.p = p, !.then = "subscribe"]
  <2>3. boots.at = "boot" /\ boots.p = p /\ boots.then = "subscribe" /\ boots.item.version = 1
    BY <1>1 DEF PluginThread
  <2>4. PICK boot \in PluginThreads :
          /\ thread[boot].at = "idle" \/ thread[boot].p = p
          /\ thread' = [t \in PluginThreads |-> IF t = boot THEN boots
                                   ELSE IF thread[t].p = p THEN NoThread ELSE thread[t]]
    BY <1>4 DEF Restart, ThreadIdle, ThreadAt
  <2> HIDE DEF boots
  <2>5. thread[boot] = NoThread \/ thread[boot].p = p
    BY <2>4 DEF ObjectsKnown, ThreadKnown
  <2>6. thread'[boot] = boots /\ \A u \in PluginThreads : u # boot => thread'[u] \in {NoThread, thread[u]}
    BY <2>4
  <2> QED
    BY <2>1, <2>2, <2>3, <2>5, <2>6, <1>4 DEF NewThread
<1>5. CASE Delete(p)
  <2>1. UNCHANGED <<row, codeDir, made>> /\ AskPlugin("delete")
    BY <1>5 DEF Delete, AskPluginNow
  <2>2. asked'["upload"] <= asked["upload"]
    BY <2>1, AskedKeeps DEF PluginOps
  <2> DEFINE last == [NoThread EXCEPT !.p = p, !.at = "deinit", !.then = "erase", !.obj = current[p]]
  <2>3. last.at = "deinit" /\ last.p = p /\ last.then = "erase" /\ last.item.version = 1
    BY <1>1 DEF PluginThread
  <2>4. BeginThread(last)
    BY <1>5 DEF Delete
  <2> HIDE DEF last
  <2>5. \A u \in PluginThreads : thread'[u] = thread[u] \/ (thread[u] = NoThread /\ thread'[u] = last)
    BY <2>4, <1>2 DEF BeginThread, ThreadMoves, ThreadIdle, ThreadAt, ObjectsKnown, ThreadKnown
  <2> QED
    BY <2>1, <2>2, <2>3, <2>5, <1>5 DEF NewThread
<1>6. ASSUME NEW update \in BOOLEAN, Upload(p, update)
      PROVE  /\ UNCHANGED <<row, codeDir, made>> /\ asked'["upload"] <= asked["upload"]
             /\ \A u \in PluginThreads :
                   \/ thread'[u] = thread[u]
                   \/ NewThread(u, p, {"build"}) /\ thread'[u].then = ""
  <2>1. UNCHANGED <<row, codeDir, made>> /\ AskPlugin("upload")
    BY <1>6 DEF Upload, AskPluginNow
  <2>2. asked'["upload"] <= asked["upload"]
    BY <2>1, AskedKeeps DEF PluginOps
  <2> DEFINE last == [NoThread EXCEPT !.p = p, !.at = "build", !.obj = IF update THEN current[p] ELSE 0]
  <2>3. last.at = "build" /\ last.p = p /\ last.then = "" /\ last.item.version = 1
    BY <1>1 DEF PluginThread
  <2>4. BeginThread(last)
    BY <1>6 DEF Upload
  <2> HIDE DEF last
  <2>5. \A u \in PluginThreads : thread'[u] = thread[u] \/ (thread[u] = NoThread /\ thread'[u] = last)
    BY <2>4, <1>2 DEF BeginThread, ThreadMoves, ThreadIdle, ThreadAt, ObjectsKnown, ThreadKnown
  <2> QED
    BY <2>1, <2>2, <2>3, <2>5 DEF NewThread
<1>7. ASSUME NEW active \in BOOLEAN, NEW more \in BOOLEAN,
             NEW value \in ShownSecrets \cup {Plain(s) : s \in Secrets}, Update(p, active, value, more)
      PROVE  /\ UNCHANGED <<row, codeDir, made>> /\ asked'["upload"] <= asked["upload"]
             /\ \A u \in PluginThreads :
                   \/ thread'[u] = thread[u]
                   \/ NewThread(u, p, {"conf", "active"}) /\ thread'[u].then = ""
  <2>1. UNCHANGED <<row, codeDir, made>> /\ AskPlugin("update")
    BY <1>7 DEF Update, AskPluginNow
  <2>2. asked'["upload"] <= asked["upload"]
    BY <2>1, AskedKeeps DEF PluginOps
  <2> DEFINE saved == EditedObj(objs[p][current[p]], value).stored
             saves == SavesBoth(p, current[p], active, saved)
             sets == SavesActive(p, current[p], active)
  <2>3. BeginThread(saves) \/ UNCHANGED thread \/ BeginThread(sets)
    BY <1>7, UpdateSteps
  <2> HIDE DEF saved
  <2>4. /\ saves.at = "conf" /\ saves.p = p /\ saves.then = "" /\ saves.item.version = 1
        /\ sets.at = "active" /\ sets.p = p /\ sets.then = "" /\ sets.item.version = 1
    BY <1>1 DEF PluginThread, PluginRow, SavesBoth, SavesActive
  <2> HIDE DEF saves, sets
  <2>5. \A u \in PluginThreads : thread'[u] = thread[u] \/ (thread[u] = NoThread /\ thread'[u] \in {saves, sets})
    BY <2>3, <1>2 DEF BeginThread, ThreadMoves, ThreadIdle, ThreadAt, ObjectsKnown, ThreadKnown
  <2> QED
    BY <2>1, <2>2, <2>4, <2>5 DEF NewThread
<1> QED
  BY <1>3, <1>4, <1>5, <1>6, <1>7 DEF ProcessSteps

LEMMA VersionsOfProcess ==
    ASSUME PluginTypeOK, PluginTypeOK', ObjectsKnown, VersionsKnown, NEW p \in Processes, ProcessSteps(p)
    PROVE  VersionsKnown'
<1>1. UNCHANGED <<row, codeDir, made>> /\ asked'["upload"] <= asked["upload"]
  BY ThreadsOfProcess
<1>2. NoThread.at = "idle" /\ NoThread.then = "" /\ NoThread.item.version = 1
  BY DEF NoThread, InstalledRow
<1>3. NoUploads => \A update \in BOOLEAN : ~Upload(p, update)
  BY DEF VersionsKnown, Upload, AskPluginNow, AskPlugin
<1>4. ASSUME NEW u \in PluginThreads
      PROVE  /\ thread'[u].item.version \in {thread[u].item.version, row.version, 1}
             /\ NoUploads /\ thread'[u].at \in UploadPlaces =>
                   thread[u].at \in UploadPlaces \/ thread[u].then = "place"
             /\ thread'[u].then = "place" => thread[u].then = "place" \/ thread[u].at \in UploadPlaces
  <2>1. \/ thread'[u] = thread[u] \/ thread'[u] = NoThread
        \/ /\ thread'[u].at \in {"row", "deinit", "boot", "conf", "active"} \/ ~NoUploads
           /\ thread'[u].item.version = 1
           /\ thread'[u].then \in {"", "drop", "subscribe", "erase"}
    BY ZenonT(60), <1>3, ThreadsOfProcess DEF NewThread
  <2> QED
    BY <2>1, <1>2 DEF UploadPlaces
<1> QED
  BY <1>1, <1>4, VersionsStay

\* Requests that go on are still the only ones.
LEMMA RequestsStay ==
    ASSUME OneRequest, \A u \in PluginThreads : IsRequest(u)' => IsRequest(u),
           \A u \in PluginThreads : ThreadAt(u, "conf")' =>
              /\ thread'[u] = thread[u]
              /\ ThreadObj(u)'.active = ThreadObj(u).active
              /\ Processes \subseteq astray => Processes \subseteq astray'
    PROVE  OneRequest'
<1>1. ASSUME NEW t \in PluginThreads, NEW u \in PluginThreads, IsRequest(t)', IsRequest(u)'
      PROVE  t = u
  BY <1>1 DEF OneRequest
<1>2. ASSUME NEW t \in PluginThreads, ThreadAt(t, "conf")'
      PROVE  (ThreadObj(t).active = thread[t].item.active)' \/ Processes \subseteq astray'
  <2>1. thread'[t] = thread[t] /\ ThreadAt(t, "conf")
    BY <1>2 DEF ThreadAt
  <2>2. ThreadObj(t).active = thread[t].item.active \/ Processes \subseteq astray
    BY <2>1 DEF OneRequest
  <2> QED
    BY <1>2, <2>1, <2>2
<1> QED
  BY <1>1, <1>2 DEF OneRequest

LEMMA RequestOfStep ==
    ASSUME PluginTypeOK, ObjectsKnown, OneRequest, NEW t \in PluginThreads, PluginStep(t)
    PROVE  OneRequest'
<1>1. ThreadSteps(t)
  BY StepThreads
<1>2. \A u \in PluginThreads : IsRequest(u)' => IsRequest(u)
  BY <1>1 DEF ThreadSteps, IsRequest, ThreadAt
<1>3. ASSUME NEW u \in PluginThreads, ThreadAt(u, "conf")'
      PROVE  /\ thread'[u] = thread[u] /\ ThreadObj(u)'.active = ThreadObj(u).active
             /\ Processes \subseteq astray => Processes \subseteq astray'
  <2>1. u # t /\ thread'[u] = thread[u] /\ ThreadAt(u, "conf")
    BY <1>1, <1>3 DEF ThreadSteps, ThreadAt
  <2>2. ~SaveConf(t)
    BY <2>1 DEF SaveConf, OneRequest, IsRequest, ThreadAt, RequestPlaces
  <2>3. thread[u].p \in Processes /\ thread[u].obj \in 1 .. Len(objs[thread[u].p])
    <3>1. /\ thread[u].p \in Processes /\ thread[u].obj \in 0 .. Len(objs[thread[u].p])
          /\ thread[u].obj # 0
      BY <2>1 DEF ObjectsKnown, ThreadKnown, ThreadAt
    <3> QED
      BY <3>1, LengthsAreNat, InRangeOne
  <2>4. objs'[thread[u].p][thread[u].obj].active = objs[thread[u].p][thread[u].obj].active
    BY <2>2, <2>3, ActivesStay
  <2>5. astray \subseteq astray'
    BY StepMemory
  <2> QED
    BY <2>1, <2>4, <2>5 DEF ThreadObj
<1> QED
  BY <1>2, <1>3, RequestsStay

\* A request begins when there is no other.
LEMMA RequestBegins ==
    ASSUME PluginTypeOK, ObjectsKnown, NEW p \in Processes, PluginsQuiet, NEW new \in PluginThread,
           BeginThread(new),
           new.at = "conf" => /\ new.p = p
                              /\ objs'[p][new.obj].active = new.item.active \/ Processes \subseteq astray'
    PROVE  OneRequest'
<1>1. PICK t \in PluginThreads :
              /\ thread'[t] = new
              /\ \A u \in PluginThreads \ {t} : thread'[u] = thread[u]
  BY BeginsKeeps
<1>2. \A u \in PluginThreads \ {t} : thread'[u].at = "idle"
  BY <1>1 DEF PluginsQuiet, ThreadIdle, ThreadAt
<1>3. \A u \in PluginThreads \ {t} : ~IsRequest(u)' /\ ~ThreadAt(u, "conf")'
  BY <1>2 DEF IsRequest, ThreadAt, RequestPlaces
<1> QED
  BY <1>1, <1>3 DEF OneRequest, ThreadObj, ThreadAt

LEMMA RequestOfProcess ==
    ASSUME PluginTypeOK, ObjectsKnown, OneRequest, "pair" \in Excused, NEW p \in Processes, ProcessSteps(p)
    PROVE  OneRequest'
<1>1. /\ NoThread \in PluginThread /\ NoThread.at = "idle" /\ NoThread.then = ""
      /\ NoThread.item = InstalledRow /\ InstalledRow \in PluginRow
  BY ValueTypes DEF NoThread
<1>2. current[p] \in Nat /\ Len(objs[p]) \in Nat /\ current[p] \in 0 .. Len(objs[p])
      /\ objs \in [Processes -> Seq(PluginObject)]
  BY ProcessTypes DEF PluginTypeOK
<1>3. CASE Delete(p)
  <2> DEFINE new == [NoThread EXCEPT !.p = p, !.at = "deinit", !.then = "erase", !.obj = current[p]]
  <2>1. BeginThread(new) /\ PluginsQuiet
    BY <1>3 DEF Delete, AskPluginNow
  <2>2. new \in PluginThread /\ new.at = "deinit"
    BY <1>1, <1>2 DEF PluginThread, PluginPlaces
  <2> HIDE DEF new
  <2> QED
    BY <2>1, <2>2, RequestBegins
<1>4. ASSUME NEW update \in BOOLEAN, Upload(p, update) PROVE OneRequest'
  <2> DEFINE new == [NoThread EXCEPT !.p = p, !.at = "build", !.obj = IF update THEN current[p] ELSE 0]
  <2>1. BeginThread(new) /\ PluginsQuiet
    BY <1>4 DEF Upload, AskPluginNow
  <2>2. new \in PluginThread /\ new.at = "build"
    BY <1>1, <1>2 DEF PluginThread, PluginPlaces, RequestPlaces
  <2> HIDE DEF new
  <2> QED
    BY <2>1, <2>2, RequestBegins
<1>5. ASSUME NEW active \in BOOLEAN, NEW more \in BOOLEAN,
             NEW value \in ShownSecrets \cup {Plain(s) : s \in Secrets}, Update(p, active, value, more)
      PROVE  OneRequest'
  <2> DEFINE n == current[p]
             edited == EditedObj(objs[p][n], value)
             saved == edited.stored
             saves == SavesBoth(p, n, active, saved)
             sets == SavesActive(p, n, active)
  <2>1. PluginsQuiet
    BY <1>5 DEF Update, AskPluginNow
  <2>2. /\ n \in 1 .. Len(objs[p]) /\ objs[p][n] \in PluginObject
        /\ \/ /\ objs' = [objs EXCEPT ![p][n] = edited] /\ BeginThread(saves)
              /\ objs[p][n].active = active \/ Processes \subseteq astray'
           \/ UNCHANGED thread
           \/ BeginThread(sets)
    BY <1>5, UpdateSteps
  <2>3. saved \in SecretValue /\ edited \in PluginObject /\ edited.active = objs[p][n].active
    <3>1. value \in SecretValue
      BY AskedValues
    <3>2. edited \in PluginObject
      BY <2>2, <3>1, ValueTypes
    <3>3. edited.active = objs[p][n].active
      BY <2>2 DEF EditedObj, PluginObject
    <3> QED
      BY <3>2, <3>3 DEF PluginObject
  <2> HIDE DEF saved, edited
  <2>4. /\ saves \in PluginThread /\ saves.at = "conf" /\ saves.p = p /\ saves.obj = n
        /\ saves.item.active = active
    BY <1>1, <1>2, <2>3 DEF SavesBoth, PluginThread, PluginPlaces, RequestPlaces, PluginRow
  <2>5. sets \in PluginThread /\ sets.at = "active"
    BY <1>1, <1>2, <2>3 DEF SavesActive, PluginThread, PluginPlaces, RequestPlaces, PluginRow
  <2> HIDE DEF saves, sets
  <2>6. CASE BeginThread(sets)
    BY <2>1, <2>5, <2>6, RequestBegins
  <2>7. CASE UNCHANGED thread
    <3>1. \A u \in PluginThreads : ~IsRequest(u)' /\ ~ThreadAt(u, "conf")'
      BY <2>1, <2>7 DEF PluginsQuiet, ThreadIdle, IsRequest, ThreadAt, RequestPlaces
    <3> QED
      BY <3>1 DEF OneRequest
  <2>8. CASE /\ objs' = [objs EXCEPT ![p][n] = edited] /\ BeginThread(saves)
             /\ objs[p][n].active = active \/ Processes \subseteq astray'
    <3> HIDE DEF n
    <3>1. n \in 1 .. Len(objs[p]) /\ edited \in PluginObject /\ ChangesObj(p, n, edited)
      BY <2>2, <2>3, <2>8 DEF ChangesObj
    <3>2. objs'[p][n] = edited
      BY <3>1, ObjectChanged
    <3> QED
      BY <2>1, <2>3, <2>4, <2>8, <3>2, RequestBegins
  <2> QED
    BY <2>2, <2>6, <2>7, <2>8
<1>6. CASE Deliver(p) \/ Restart(p)
  <2>1. ASSUME NEW u \in PluginThreads
        PROVE  \/ thread'[u] = thread[u] \/ (thread'[u] = NoThread /\ Restart(p))
               \/ /\ thread'[u].at \in {"row", "boot"} \/ (thread'[u].at = "deinit" /\ thread'[u].then = "drop")
                  /\ thread'[u].at # "conf"
    <3>1. CASE Deliver(p)
      <4> DEFINE handler == [NoThread EXCEPT !.p = p, !.obj = current[p]]
                 fresh == [handler EXCEPT !.at = "row"]
                 last == [handler EXCEPT !.at = "deinit", !.then = "drop"]
      <4>1. fresh.at = "row" /\ last.at = "deinit" /\ last.then = "drop"
        BY <1>1 DEF PluginThread
      <4>2. UNCHANGED thread \/ BeginThread(fresh) \/ BeginThread(last)
        BY <3>1 DEF Deliver
      <4> HIDE DEF fresh, last
      <4>3. thread'[u] \in {thread[u], fresh, last}
        BY <4>2 DEF BeginThread, ThreadMoves, PluginTypeOK
      <4> QED
        BY <4>1, <4>3
    <3>2. CASE Restart(p)
      <4> DEFINE boots == [NoThread EXCEPT !.at = "boot", !.p = p, !.then = "subscribe"]
      <4>1. boots.at = "boot"
        BY <1>1 DEF PluginThread
      <4> HIDE DEF boots
      <4>2. thread'[u] \in {boots, NoThread, thread[u]}
        BY <3>2 DEF Restart, boots
      <4> QED
        BY <3>2, <4>1, <4>2
    <3> QED
      BY <3>1, <3>2, <1>6
  <2>2. \A u \in PluginThreads : IsRequest(u)' => IsRequest(u)
    BY <2>1, <1>1 DEF IsRequest, ThreadAt, RequestPlaces
  <2>3. ASSUME NEW u \in PluginThreads, ThreadAt(u, "conf")'
        PROVE  /\ thread'[u] = thread[u] /\ ThreadObj(u)'.active = ThreadObj(u).active
               /\ Processes \subseteq astray => Processes \subseteq astray'
    <3>1. thread'[u] = thread[u] /\ ThreadAt(u, "conf") /\ thread[u].at = "conf"
      BY <2>1, <2>3, <1>1 DEF ThreadAt
    <3>2. thread[u].p \in Processes /\ thread[u].obj \in 1 .. Len(objs[thread[u].p])
      <4>1. /\ thread[u].p \in Processes /\ thread[u].obj \in 0 .. Len(objs[thread[u].p])
            /\ thread[u].obj # 0
        BY <3>1 DEF ObjectsKnown, ThreadKnown
      <4> QED
        BY <4>1, LengthsAreNat, InRangeOne
    <3>3. CASE Deliver(p)
      <4> DEFINE n == current[p]
                 o == StoppedObj(objs[p][n])
                 q == thread[u].p
                 m == thread[u].obj
      <4>1. UNCHANGED objs \/ (n # 0 /\ objs' = [objs EXCEPT ![p][n] = o])
        BY <3>3 DEF Deliver
      <4>2. ASSUME n # 0, objs' = [objs EXCEPT ![p][n] = o] PROVE objs'[q][m].active = objs[q][m].active
        <5>1. n \in 1 .. Len(objs[p]) /\ objs[p][n] \in PluginObject
          BY <4>2, ProcessTypes
        <5>2. o \in PluginObject /\ o.active = objs[p][n].active
          BY ZenonT(60), <5>1, ValueTypes DEF StoppedObj, PluginObject
        <5> HIDE DEF o, n
        <5>3. ChangesObj(p, n, o)
          BY <4>2 DEF ChangesObj
        <5>4. objs'[p][n] = o /\ \A k \in Processes : k # p => objs'[k] = objs[k]
          BY <5>1, <5>2, <5>3, ObjectChanged
        <5>5. CASE q # p
          BY <5>4, <5>5, <3>2
        <5>6. CASE q = p /\ m = n
          BY <5>2, <5>4, <5>6
        <5>7. CASE q = p /\ m # n
          <6> HIDE DEF m
          <6>1. m \in 1 .. Len(objs[p])
            BY <5>7, <3>2 DEF m
          <6>2. objs'[p][m] = objs[p][m]
            BY <5>1, <5>2, <5>7, <5>3, <6>1, ObjectChanged
          <6> QED
            BY <6>2, <5>7
        <5> QED
          BY <5>5, <5>6, <5>7
      <4>3. UNCHANGED objs => objs'[q][m].active = objs[q][m].active
        OBVIOUS
      <4>4. objs'[q][m].active = objs[q][m].active
        <5> HIDE DEF o, n, q, m
        <5> QED
          BY <4>1, <4>2, <4>3
      <4> QED
        BY <4>4, <3>1, <3>3 DEF ThreadObj, Deliver
    <3>4. CASE Restart(p)
      <4> DEFINE boots == [NoThread EXCEPT !.at = "boot", !.p = p, !.then = "subscribe"]
      <4>1. boots.at = "boot"
        BY <1>1 DEF PluginThread
      <4> HIDE DEF boots
      <4>2. thread'[u] = boots \/ thread'[u] = (IF thread[u].p = p THEN NoThread ELSE thread[u])
        BY <3>4 DEF Restart, boots
      <4>3. thread[u].p # p
        BY <3>1, <4>1, <4>2, <1>1
      <4>4. objs'[thread[u].p] = objs[thread[u].p]
        BY <4>3, <3>2, <3>4, <1>2 DEF Restart
      <4>5. ~PluginsQuiet
        BY <3>1 DEF PluginsQuiet, ThreadIdle, ThreadAt
      <4>6. Processes \subseteq astray => Processes \subseteq astray'
        BY <4>5, <3>4 DEF Restart, AllProcesses
      <4> QED
        BY <3>1, <4>4, <4>6 DEF ThreadObj
    <3> QED
      BY <3>3, <3>4, <1>6
  <2> QED
    BY <2>2, <2>3, RequestsStay
<1> QED
  BY <1>3, <1>4, <1>5, <1>6 DEF ProcessSteps

-----------------------------------------------------------------------------
(* Each process for itself. *)

\* What a process is judged by, when nothing of that changes.
LEMMA SameViews ==
    ASSUME NEW q \in Processes, SameMemory(q), row' = row, codeDir'[HostOf[q]] = codeDir[HostOf[q]]
    PROVE  /\ Settled(q)' <=> Settled(q)
           /\ Agrees(q)' <=> Agrees(q)
           /\ CanLoad(q)' <=> CanLoad(q)
           /\ CanRenew(q)' <=> CanRenew(q)
           /\ Unregistered(q)' <=> Unregistered(q)
           /\ FolderIsWhole(HostOf[q])' <=> FolderIsWhole(HostOf[q])
<1> USE DEF SameMemory
<1>1. Unregistered(q)' <=> Unregistered(q)
  BY DEF Unregistered
<1>2. FolderIsWhole(HostOf[q])' <=> FolderIsWhole(HostOf[q])
  BY DEF FolderIsWhole
<1>3. Settled(q)' <=> Settled(q)
  BY <1>1 DEF Settled
<1>4. Agrees(q)' <=> Agrees(q)
  BY <1>2, <1>3 DEF Agrees
<1>5. CanLoad(q)' <=> CanLoad(q)
  BY <1>2, <1>3 DEF CanLoad
<1>6. CanRenew(q)' <=> CanRenew(q)
  BY DEF CanRenew
<1> QED
  BY <1>1, <1>2, <1>3, <1>4, <1>5, <1>6

LEMMA SameHandler ==
    ASSUME NEW q \in Processes, SameMemory(q), row' = row, codeDir'[HostOf[q]] = codeDir[HostOf[q]],
           NEW t \in PluginThreads, thread'[t] = thread[t], thread[t].p = q, HandlerSound(t)
    PROVE  HandlerSound(t)'
<1>1. /\ Settled(q)' <=> Settled(q)
      /\ Agrees(q)' <=> Agrees(q)
      /\ CanLoad(q)' <=> CanLoad(q)
      /\ Unregistered(q)' <=> Unregistered(q)
      /\ FolderIsWhole(HostOf[q])' <=> FolderIsWhole(HostOf[q])
  BY SameViews
<1>2. ThreadObj(t)' = ThreadObj(t)
  BY DEF SameMemory, ThreadObj
<1>3. Stopping(t)' <=> Stopping(t)
  BY <1>2 DEF SameMemory, Stopping
<1>4. Starting(t)' <=> Starting(t)
  BY <1>1, <1>2 DEF SameMemory, Starting
<1>5. Stopped(t)' <=> Stopped(t)
  BY <1>1, <1>2 DEF SameMemory, Stopped
<1> QED
  BY <1>1, <1>3, <1>4, <1>5 DEF HandlerSound, SameMemory, ThreadAt

\* A process that a step is not about.
LEMMA OthersSound ==
    ASSUME NEW q \in Processes, ProcessSound(q), SameMemory(q), row' = row, chan'[q] = chan[q],
           codeDir'[HostOf[q]] = codeDir[HostOf[q]],
           \A u \in PluginThreads :
              \/ thread'[u] = thread[u]
              \/ /\ thread[u].p # q /\ thread'[u].p # q
                 /\ IsRequest(u)' => /\ IsRequest(u)
                                     /\ Renews(u)' => Renews(u)
                                     /\ ThreadAt(u, "record")' =>
                                           codeDir[HostOf[q]].hash # thread'[u].item.version
    PROVE  ProcessSound(q)'
<1>1. OwnThreads(q)' = OwnThreads(q) /\ \A t \in OwnThreads(q) : t \in PluginThreads /\ thread'[t] = thread[t]
  BY DEF OwnThreads
<1>2. /\ Settled(q)' <=> Settled(q)
      /\ Agrees(q)' <=> Agrees(q)
      /\ CanLoad(q)' <=> CanLoad(q)
      /\ CanRenew(q)' <=> CanRenew(q)
  BY SameViews
<1>3. \A t, u \in OwnThreads(q)' : t = u
  BY <1>1 DEF ProcessSound
<1>4. \A t \in OwnThreads(q)' : HandlerSound(t)' /\ chan'[q] = <<>>
  <2> SUFFICES ASSUME NEW t \in OwnThreads(q) PROVE HandlerSound(t)' /\ chan'[q] = <<>>
    BY <1>1
  <2>1. t \in PluginThreads /\ thread'[t] = thread[t] /\ thread[t].p = q /\ HandlerSound(t) /\ chan[q] = <<>>
    BY <1>1 DEF ProcessSound, OwnThreads
  <2> QED
    BY <2>1, SameHandler
<1>5. subscribed'[q] = (\A t \in OwnThreads(q)' : thread'[t].then # "subscribe")
  BY <1>1 DEF ProcessSound, SameMemory
<1>6. ASSUME NEW t \in PluginThreads, IsRequest(t)'
      PROVE  /\ chan'[q] = <<>> /\ OwnThreads(q)' \subseteq {t}
             /\ thread'[t].p # q /\ Renews(t)' => CanRenew(q)'
             /\ thread'[t].p # q /\ ThreadAt(t, "record")' =>
                   codeDir'[HostOf[q]].hash # thread'[t].item.version
  <2>1. CASE thread'[t] = thread[t]
    <3>1. IsRequest(t) /\ (Renews(t)' => Renews(t)) /\ (ThreadAt(t, "record")' => ThreadAt(t, "record"))
      BY <1>6, <2>1 DEF IsRequest, Renews, ThreadAt
    <3> QED
      BY <2>1, <3>1, <1>1, <1>2 DEF ProcessSound
  <2>2. CASE thread'[t] # thread[t]
    <3>1. /\ thread[t].p # q /\ IsRequest(t) /\ (Renews(t)' => Renews(t))
          /\ ThreadAt(t, "record")' => codeDir[HostOf[q]].hash # thread'[t].item.version
      BY <1>6, <2>2
    <3> QED
      BY <3>1, <1>1, <1>2 DEF ProcessSound
  <2> QED
    BY <2>1, <2>2
<1> QED
  BY <1>1, <1>2, <1>3, <1>4, <1>5, <1>6 DEF ProcessSound

\* A process that has one handler, and nothing else to do.
LEMMA OneHandler ==
    ASSUME NEW t \in PluginThreads, NEW p \in Processes, OwnThreads(p)' = {t}, HandlerSound(t)',
           chan'[p] = <<>>, subscribed'[p] = (thread'[t].then # "subscribe"),
           \A u \in PluginThreads : IsRequest(u)' => u = t
    PROVE  ProcessSound(p)'
<1>1. thread'[t].p = p
  BY DEF OwnThreads
<1>2. \A u \in PluginThreads : IsRequest(u)' =>
         /\ chan'[p] = <<>> /\ OwnThreads(p)' \subseteq {u}
         /\ thread'[u].p # p /\ Renews(u)' => CanRenew(p)'
         /\ thread'[u].p # p /\ ThreadAt(u, "record")' => codeDir'[HostOf[p]].hash # thread'[u].item.version
  BY <1>1
<1>3. subscribed'[p] = (\A u \in OwnThreads(p)' : thread'[u].then # "subscribe")
  BY Zenon
<1>4. <<>> # <<"init">> /\ <<>> # <<"delete">>
  OBVIOUS
<1> QED
  BY <1>2, <1>3, <1>4 DEF ProcessSound

\* A process that has nothing to do.
LEMMA NoHandler ==
    ASSUME NEW p \in Processes, OwnThreads(p)' = {}, chan'[p] = <<>>, Agrees(p)', subscribed'[p] = TRUE,
           \A u \in PluginThreads : IsRequest(u)' /\ Renews(u)' => CanRenew(p)',
           \A u \in PluginThreads : ThreadAt(u, "record")' => codeDir'[HostOf[p]].hash # thread'[u].item.version
    PROVE  ProcessSound(p)'
<1>1. subscribed'[p] = (\A u \in OwnThreads(p)' : thread'[u].then # "subscribe")
  BY Zenon
<1>2. <<>> # <<"init">> /\ <<>> # <<"delete">>
  OBVIOUS
<1>3. \A u \in PluginThreads : IsRequest(u)' =>
         /\ chan'[p] = <<>> /\ OwnThreads(p)' \subseteq {u}
         /\ thread'[u].p # p /\ Renews(u)' => CanRenew(p)'
         /\ thread'[u].p # p /\ ThreadAt(u, "record")' => codeDir'[HostOf[p]].hash # thread'[u].item.version
  OBVIOUS
<1> QED
  BY <1>1, <1>2, <1>3 DEF ProcessSound

\* A process that has been told of a change.
LEMMA ToldOfChange ==
    ASSUME NEW p \in Processes, OwnThreads(p)' = {}, subscribed'[p] = TRUE,
           \/ chan'[p] = <<"init">> /\ CanLoad(p)'
           \/ chan'[p] = <<"delete">> /\ Settled(p)' /\ ~row'.there,
           \A u \in PluginThreads : ~IsRequest(u)'
    PROVE  ProcessSound(p)'
<1>1. subscribed'[p] = (\A u \in OwnThreads(p)' : thread'[u].then # "subscribe")
  BY Zenon
<1>2. <<>> # <<"init">> /\ <<>> # <<"delete">> /\ <<"init">> # <<"delete">>
  OBVIOUS
<1> QED
  BY <1>1, <1>2 DEF ProcessSound

\* A process whose one handler goes on, or is done.
LEMMA OwnSound ==
    ASSUME NEW t \in PluginThreads, NEW p \in Processes, ProcessSound(p), thread[t].p = p,
           \A u \in PluginThreads \ {t} : thread'[u] = thread[u], chan'[p] = chan[p],
           IsRequest(t)' => IsRequest(t),
           \/ /\ thread'[t].p = p /\ HandlerSound(t)'
              /\ subscribed'[p] = (thread'[t].then # "subscribe")
           \/ thread'[t] = NoThread /\ Agrees(p)' /\ subscribed'[p] = TRUE
    PROVE  ProcessSound(p)'
<1>1. t \in OwnThreads(p) /\ chan[p] = <<>> /\ \A u \in PluginThreads : thread[u].p = p => u = t
  BY DEF ProcessSound, OwnThreads
<1>2. NoThread.p = "none" /\ "none" \notin Processes /\ NoThread.at = "idle"
  BY PluginsAssumption DEF NoThread
<1>3. \A u \in PluginThreads : thread'[u].p = p => u = t
  BY <1>1
<1>4. \A u \in PluginThreads : IsRequest(u)' => u = t
  <2>1. ASSUME NEW u \in PluginThreads, IsRequest(u)', u # t PROVE FALSE
    <3>1. IsRequest(u)
      BY <2>1 DEF IsRequest, ThreadAt
    <3> QED
      BY <3>1, <2>1, <1>1 DEF ProcessSound
  <2> QED
    BY <2>1
<1>5. CASE thread'[t].p = p /\ HandlerSound(t)' /\ subscribed'[p] = (thread'[t].then # "subscribe")
  <2>1. OwnThreads(p)' = {t}
    BY <1>3, <1>5 DEF OwnThreads
  <2> QED
    BY <2>1, <1>1, <1>4, <1>5, OneHandler
<1>6. CASE thread'[t] = NoThread /\ Agrees(p)' /\ subscribed'[p] = TRUE
  <2>1. OwnThreads(p)' = {}
    BY <1>2, <1>3, <1>6 DEF OwnThreads
  <2>2. \A u \in PluginThreads : ~IsRequest(u)'
    BY <1>2, <1>4, <1>6 DEF IsRequest, ThreadAt, RequestPlaces
  <2>3. \A u \in PluginThreads : ~ThreadAt(u, "record")'
    BY <2>2 DEF IsRequest, ThreadAt, RequestPlaces
  <2> QED
    BY <2>1, <2>2, <2>3, <1>1, <1>6, NoHandler
<1> QED
  BY <1>5, <1>6

\* What is known of the handler that takes a step.
LEMMA OwnHandler ==
    ASSUME PluginTypeOK, ObjectsKnown, NEW t \in PluginThreads, PluginStep(t), ProcessSound(thread[t].p)
    PROVE  /\ thread[t].p \in Processes /\ HostOf[thread[t].p] \in Hosts /\ HandlerSound(t)
           /\ chan[thread[t].p] = <<>>
           /\ subscribed[thread[t].p] = (thread[t].then # "subscribe")
           /\ \A u \in PluginThreads : thread[u].p = thread[t].p => u = t
<1>1. thread[t].p \in Processes
  BY StepThreads DEF ThreadSteps
<1>2. HostOf[thread[t].p] \in Hosts
  BY <1>1, PluginsAssumption
<1>3. t \in OwnThreads(thread[t].p)
  BY DEF OwnThreads
<1>4. \A u \in OwnThreads(thread[t].p) : u = t
  BY <1>3 DEF ProcessSound
<1>5. HandlerSound(t) /\ chan[thread[t].p] = <<>>
  BY <1>3 DEF ProcessSound
<1>6. subscribed[thread[t].p] = (\A u \in OwnThreads(thread[t].p) : thread[u].then # "subscribe")
  BY DEF ProcessSound
<1>7. (\A u \in OwnThreads(thread[t].p) : thread[u].then # "subscribe") = (thread[t].then # "subscribe")
  BY <1>3, <1>4
<1> QED
  BY <1>1, <1>2, <1>4, <1>5, <1>6, <1>7 DEF OwnThreads

\* No process loses the folder of its host to another.
LEMMA FoldersStay ==
    ASSUME OwnFolders, PluginTypeOK, ObjectsKnown, VersionsKnown, NEW t \in PluginThreads, PluginStep(t),
           ~Publishes(t), NEW q \in Processes, q # thread[t].p
    PROVE  codeDir'[HostOf[q]] = codeDir[HostOf[q]]
<1>1. thread[t].p \in Processes /\ HostOf[q] \in Hosts
  BY StepThreads, PluginsAssumption DEF ThreadSteps
<1>2. CASE HostOf[q] # HostOf[thread[t].p]
  BY <1>1, <1>2, StepMemory
<1>3. CASE HostOf[q] = HostOf[thread[t].p]
  <2>1. NoUploads
    BY <1>1, <1>3 DEF OwnFolders
  <2>2. /\ ~Outdated(t)
        /\ thread[t].at \notin {"install", "hash", "load", "build", "place", "record"}
    BY <2>1, <1>1, NoneOutdated DEF VersionsKnown
  <2>3. ~ClearFolder(t) /\ ~Install(t) /\ ~WriteHash(t) /\ ~Place(t)
    BY <2>2 DEF ClearFolder, Install, WriteHash, Place, ThreadAt
  <2>4. UNCHANGED codeDir
    BY <2>3 DEF PluginStep, Publishes, Load, InitFails, FinishDeinit, DeinitFails, ReadRow, LoadFromDB, Subscribe, Build,
       Invalid, outside
  <2> QED
    BY <2>4
<1> QED
  BY <1>2, <1>3

\* A step of another process.
LEMMA OthersOfStep ==
    ASSUME OwnFolders, PluginTypeOK, ObjectsKnown, VersionsKnown, NEW t \in PluginThreads, PluginStep(t),
           ~Publishes(t), NEW q \in Processes, q # thread[t].p, ProcessSound(q)
    PROVE  ProcessSound(q)'
<1>1. codeDir'[HostOf[q]] = codeDir[HostOf[q]]
  BY FoldersStay
<1>2. SameMemory(q) /\ row' = row /\ chan'[q] = chan[q]
  BY StepMemory
<1>3. ThreadSteps(t)
  BY StepThreads
<1>4. NoThread.p # q
  BY PluginsAssumption DEF NoThread
<1>5. codeDir[HostOf[q]].hash <= made /\ codeDir[HostOf[q]].hash \in Nat /\ made \in Nat
  <2>1. HostOf[q] \in Hosts
    BY PluginsAssumption
  <2> QED
    BY <2>1 DEF VersionsKnown, PluginTypeOK, Folder
<1>6. ThreadAt(t, "record")' => codeDir[HostOf[q]].hash # thread'[t].item.version
  BY <1>3, <1>5 DEF ThreadSteps
<1>7. \A u \in PluginThreads :
         \/ thread'[u] = thread[u]
         \/ /\ thread[u].p # q /\ thread'[u].p # q
            /\ IsRequest(u)' => /\ IsRequest(u)
                                /\ Renews(u)' => Renews(u)
                                /\ ThreadAt(u, "record")' => codeDir[HostOf[q]].hash # thread'[u].item.version
  BY <1>3, <1>4, <1>6 DEF ThreadSteps
<1> QED
  BY <1>1, <1>2, <1>7, OthersSound

\* The process itself.
LEMMA OwnOfStep ==
    ASSUME PluginTypeOK, ObjectsKnown, NEW t \in PluginThreads, PluginStep(t), ~Publishes(t),
           NEW p \in Processes, thread[t].p = p, ProcessSound(p),
           \/ /\ thread'[t].p = p /\ HandlerSound(t)'
              /\ subscribed'[p] = (thread'[t].then # "subscribe")
           \/ thread'[t] = NoThread /\ Agrees(p)' /\ subscribed'[p] = TRUE
    PROVE  ProcessSound(p)'
<1>1. (\A u \in PluginThreads \ {t} : thread'[u] = thread[u]) /\ (IsRequest(t)' => IsRequest(t))
  BY StepThreads DEF ThreadSteps
<1>2. chan'[p] = chan[p]
  BY StepMemory
<1> QED
  BY <1>1, <1>2, OwnSound

\* A handler that prepares the folder.
LEMMA StillStarting ==
    ASSUME NEW t \in PluginThreads, NEW p \in Processes, thread[t].p = p, thread'[t].p = p, Starting(t),
           UNCHANGED <<objs, current, routes, triggers, cached, row>>, codeDir'[HostOf[p]].there,
           thread'[t].obj = thread[t].obj, thread'[t].item = thread[t].item
    PROVE  Starting(t)'
BY DEF Starting, Unregistered, ThreadObj

LEMMA SoundFolder ==
    ASSUME PluginTypeOK, ObjectsKnown, NEW t \in PluginThreads, NEW p \in Processes, thread[t].p = p,
           ProcessSound(p), ClearFolder(t) \/ Install(t) \/ WriteHash(t)
    PROVE  ProcessSound(p)'
<1>1. PluginStep(t) /\ ~Publishes(t) /\ thread[t].at \in {"folder", "install", "hash"}
  BY DEF PluginStep, ClearFolder, Install, WriteHash, ThreadAt, Publishes, SaveConf, SaveActive, Record, Erase
<1>2. /\ HostOf[p] \in Hosts /\ HandlerSound(t)
      /\ subscribed[p] = (thread[t].then # "subscribe")
  BY <1>1, OwnHandler
<1>3. Starting(t)
  BY <1>1, <1>2 DEF HandlerSound, FolderPlaces
<1>4. UNCHANGED <<objs, current, routes, triggers, cached, row, subscribed>>
  BY DEF ClearFolder, Install, WriteHash, memory
<1>5. codeDir \in [Hosts -> Folder] /\ codeDir[HostOf[p]] \in Folder /\ codeDir[HostOf[p]].there
  BY <1>2, <1>3 DEF PluginTypeOK, Starting
<1>6. row.version \in Nat \ {0} /\ row \in PluginRow /\ row.there /\ thread[t].item = row
  BY <1>3 DEF PluginTypeOK, PluginRow, Starting
<1>7. thread \in [PluginThreads -> PluginThread] /\ thread[t] \in PluginThread
  BY DEF PluginTypeOK
<1>8. CASE ClearFolder(t)
  <2>1. ThreadGoes(t, "install") /\ codeDir' = [codeDir EXCEPT ![HostOf[p]] = [NoFolder EXCEPT !.there = TRUE]]
    BY <1>8 DEF ClearFolder, ThreadHost
  <2>2. codeDir'[HostOf[p]].there
    BY <2>1, <1>2, <1>5 DEF NoFolder
  <2>3. /\ thread'[t].at = "install" /\ thread'[t].p = p /\ thread'[t].then = thread[t].then
        /\ thread'[t].obj = thread[t].obj /\ thread'[t].item = thread[t].item
    BY <2>1, GoesKeeps DEF PluginPlaces, FolderPlaces
  <2>4. Starting(t)'
    BY <2>2, <2>3, <1>3, <1>4, StillStarting
  <2>5. HandlerSound(t)'
    BY <2>3, <2>4 DEF HandlerSound, ThreadAt, FolderPlaces
  <2> QED
    BY <1>1, <1>2, <1>4, <2>3, <2>5, OwnOfStep
<1>9. CASE Install(t)
  <2> DEFINE new == [thread[t] EXCEPT !.at = "hash", !.item.version = row.version]
             folder == [codeDir[HostOf[p]] EXCEPT !.code = row.version]
  <2>1. thread' = [thread EXCEPT ![t] = new] /\ codeDir' = [codeDir EXCEPT ![HostOf[p]] = folder]
    BY <1>5, <1>6, <1>9 DEF Install, ThreadHost, ThreadMoves
  <2>2. folder.there /\ folder.code = row.version
    BY <1>5 DEF Folder
  <2>3. [row EXCEPT !.version = row.version] = row
    BY <1>6 DEF PluginRow
  <2>4. new.at = "hash" /\ new.p = p /\ new.then = thread[t].then /\ new.obj = thread[t].obj
        /\ new.item = [thread[t].item EXCEPT !.version = row.version]
    BY <1>7 DEF PluginThread
  <2>5. new.item = thread[t].item
    BY <2>3, <2>4, <1>6
  <2> HIDE DEF new, folder
  <2>6. thread'[t] = new /\ codeDir'[HostOf[p]] = folder
    BY <2>1, <1>5, <1>2, <1>7
  <2>7. Starting(t)'
    BY <2>2, <2>4, <2>5, <2>6, <1>3, <1>4, StillStarting
  <2>8. HandlerSound(t)'
    BY <2>2, <2>4, <2>6, <2>7, <1>4 DEF HandlerSound, ThreadAt, FolderPlaces
  <2> QED
    BY <1>1, <1>2, <1>4, <2>4, <2>6, <2>8, OwnOfStep
<1>10. CASE WriteHash(t)
  <2> DEFINE folder == [codeDir[HostOf[p]] EXCEPT !.hash = row.version]
  <2>1. codeDir[HostOf[p]].code = row.version
    BY <1>2, <1>10 DEF HandlerSound, WriteHash, ThreadAt
  <2>2. codeDir[HostOf[p]] # NoFolder
    BY <2>1, <1>6 DEF NoFolder
  <2>3. ThreadGoes(t, "load") /\ codeDir' = [codeDir EXCEPT ![HostOf[p]] = folder]
    BY <2>2, <1>6, <1>10 DEF WriteHash, ThreadHost
  <2>4. folder.there /\ folder.code = row.version /\ folder.hash = row.version
    BY <2>1, <1>5 DEF Folder
  <2> HIDE DEF folder
  <2>5. codeDir'[HostOf[p]] = folder
    BY <2>3, <1>2, <1>5
  <2>6. /\ thread'[t].at = "load" /\ thread'[t].p = p /\ thread'[t].then = thread[t].then
        /\ thread'[t].obj = thread[t].obj /\ thread'[t].item = thread[t].item
    BY <2>3, GoesKeeps DEF PluginPlaces, FolderPlaces
  <2>7. Starting(t)'
    BY <2>4, <2>5, <2>6, <1>3, <1>4, StillStarting
  <2>8. HandlerSound(t)'
    BY <2>4, <2>5, <2>6, <2>7, <1>4 DEF HandlerSound, ThreadAt, FolderPlaces
  <2> QED
    BY <1>1, <1>2, <1>4, <2>6, <2>8, OwnOfStep
<1> QED
  BY <1>8, <1>9, <1>10

\* The plugin is loaded: the process runs what the row says.
LEMMA SoundLoad ==
    ASSUME PluginTypeOK, ObjectsKnown, NEW t \in PluginThreads, NEW p \in Processes, thread[t].p = p,
           ProcessSound(p), Load(t)
    PROVE  ProcessSound(p)'
<1> DEFINE n == thread[t].obj  here == codeDir[HostOf[p]].code
           code == IF cached[p] = 0 THEN here ELSE cached[p]
           o == LoadedObj(objs[p][n], code)  runs == objs[p][n].active
<1>1. PluginStep(t) /\ ~Publishes(t) /\ thread[t].at \in {"folder", "load"}
  BY DEF PluginStep, Load, ReadyToLoad, ThreadAt, Publishes, SaveConf, SaveActive, Record, Erase
<1>2. /\ HostOf[p] \in Hosts /\ HandlerSound(t)
      /\ subscribed[p] = (thread[t].then # "subscribe")
  BY <1>1, OwnHandler
<1>3. Starting(t)
  BY <1>1, <1>2 DEF HandlerSound, FolderPlaces
<1>4. row.there /\ row.version \in Nat \ {0} /\ row.active \in BOOLEAN /\ row.conf \in SecretValue
      /\ thread[t].item = row
  BY <1>3 DEF PluginTypeOK, PluginRow, Starting
<1>5. n \in 1 .. Len(objs[p]) /\ objs[p][n] \in PluginObject /\ n = current[p] /\ n # 0
  <2>1. n # 0 /\ n = current[p]
    BY <1>1, <1>3 DEF ObjectsKnown, ThreadKnown, FolderPlaces, Starting
  <2> QED
    BY <2>1, ProcessTypes
<1>6. codeDir[HostOf[p]].there /\ here = row.version /\ FolderIsWhole(HostOf[p])
  <2>1. codeDir[HostOf[p]].there
    BY <1>3 DEF Starting
  <2>2. CASE thread[t].at = "load"
    BY <2>1, <2>2, <1>2 DEF HandlerSound, ThreadAt, FolderIsWhole
  <2>3. CASE thread[t].at = "folder"
    <3>1. ~Outdated(t) /\ FolderIsWhole(HostOf[p])
      BY <2>3, <1>2 DEF HandlerSound, ThreadAt, Load, ReadyToLoad
    <3> QED
      BY <2>1, <3>1, <1>4 DEF Outdated, FolderIsWhole, ThreadHost
  <2> QED
    BY <1>1, <2>2, <2>3
<1>7. code = row.version
  BY <1>3, <1>4, <1>6 DEF Starting
<1>8. /\ cached' = [cached EXCEPT ![p] = code] /\ objs' = [objs EXCEPT ![p][n] = o]
      /\ routes' = [routes EXCEPT ![p] = IF runs THEN routes[p] \cup {n} ELSE routes[p]]
      /\ triggers' = [triggers EXCEPT ![p] = IF runs THEN triggers[p] + 1 ELSE triggers[p]]
      /\ current' = current
  <2>1. codeDir[ThreadHost(t)].code # 0 /\ ThreadHost(t) = HostOf[p] /\ ThreadObj(t) = objs[p][n]
    BY <1>4, <1>6 DEF ThreadHost, ThreadObj
  <2> QED
    BY <2>1 DEF Load
<1>9. UNCHANGED <<row, codeDir, chan, subscribed>> /\ ThreadDone(t)
  BY DEF Load, outside
<1>10. /\ o \in PluginObject /\ o.active = runs /\ o.initialized = runs /\ o.response = runs
       /\ o.code = code /\ o.path /\ o.conf = DecryptSecret(objs[p][n].conf, TRUE)
  <2>1. o \in PluginObject
    BY <1>4, <1>5, <1>7, ValueTypes
  <2> QED
    BY <2>1, <1>5 DEF LoadedObj, RequiredObj, PluginObject
<1>11. routes[p] = {} /\ triggers[p] = 0 /\ runs = row.active /\ objs[p][n].conf = row.conf
  BY <1>3, <1>5 DEF Starting, Unregistered, ThreadObj
<1>12. objs'[p][n] = o
  <2>1. ChangesObj(p, n, o)
    BY <1>8 DEF ChangesObj
  <2> HIDE DEF o, n
  <2> QED
    BY <2>1, <1>5, <1>10, ObjectChanged
<1>13. /\ cached'[p] = row.version /\ routes'[p] = (IF runs THEN {n} ELSE {})
       /\ triggers'[p] = (IF runs THEN 1 ELSE 0) /\ current'[p] = n
  <2>1. /\ cached'[p] = code /\ routes'[p] = (IF runs THEN routes[p] \cup {n} ELSE routes[p])
        /\ triggers'[p] = (IF runs THEN triggers[p] + 1 ELSE triggers[p]) /\ current'[p] = n
    BY <1>5, <1>8 DEF PluginTypeOK
  <2> HIDE DEF code, n, runs
  <2> QED
    BY <2>1, <1>7, <1>11
<1> HIDE DEF o, n, here, code, runs
<1>14. FolderIsWhole(HostOf[p])' /\ row' = row
  BY <1>6, <1>9 DEF FolderIsWhole
<1>15. Settled(p)'
  BY <1>4, <1>5, <1>10, <1>11, <1>12, <1>13 DEF Settled, Unregistered
<1>16. Agrees(p)'
  BY <1>4, <1>5, <1>7, <1>10, <1>11, <1>12, <1>13, <1>14, <1>15 DEF Agrees
<1>17. CASE thread[t].then = "subscribe"
  <2>1. thread'[t].at = "subscribe" /\ thread'[t].p = p /\ thread'[t].then = "subscribe"
    BY <1>9, <1>17, DoneKeeps
  <2>2. HandlerSound(t)'
    BY <2>1, <1>16 DEF HandlerSound, ThreadAt, FolderPlaces
  <2> QED
    BY <1>1, <1>2, <1>9, <1>17, <2>1, <2>2, OwnOfStep
<1>18. CASE thread[t].then # "subscribe"
  <2>1. thread'[t] = NoThread
    BY <1>9, <1>18, DoneKeeps
  <2> QED
    BY <1>1, <1>2, <1>9, <1>16, <1>18, <2>1, OwnOfStep
<1> QED
  BY <1>17, <1>18

\* An object is unregistered.
LEMMA SoundDeinit ==
    ASSUME PluginTypeOK, ObjectsKnown, NEW t \in PluginThreads, NEW p \in Processes, thread[t].p = p,
           ProcessSound(p), FinishDeinit(t)
    PROVE  ProcessSound(p)'
<1> DEFINE n == thread[t].obj  o == OffObj(objs[p][n])  off == [objs[p] EXCEPT ![n] = o]
           new == NewPlugin(thread[t].item)  th == StartingObj(t)
<1>1. PluginStep(t) /\ ~Publishes(t) /\ thread[t].at = "deinit"
  BY DEF PluginStep, FinishDeinit, ThreadAt, Publishes, SaveConf, SaveActive, Record, Erase
<1>2. /\ HostOf[p] \in Hosts /\ HandlerSound(t)
      /\ subscribed[p] = (thread[t].then # "subscribe")
  BY <1>1, OwnHandler
<1>3. /\ Stopping(t) /\ row.there = (thread[t].then # "drop")
      /\ thread[t].then = "new" => thread[t].item = row /\ FolderIsWhole(HostOf[p])
  BY <1>1, <1>2 DEF HandlerSound, ThreadAt
<1>4. n \in 1 .. Len(objs[p]) /\ objs[p][n] \in PluginObject /\ n = current[p] /\ n # 0
      /\ Len(objs[p]) \in Nat /\ thread[t].then \in {"new", "drop", "place", "erase"}
  <2>1. n # 0 /\ n = current[p] /\ thread[t].then \in {"new", "drop", "place", "erase"}
    BY <1>1, <1>3 DEF ObjectsKnown, ThreadKnown, FolderPlaces, Stopping
  <2> QED
    BY <2>1, ProcessTypes
<1>5. UNCHANGED <<row, codeDir, subscribed>>
  BY DEF FinishDeinit, outside
<1>6. /\ routes[p] \subseteq {n} /\ triggers[p] = (IF objs[p][n].response THEN 1 ELSE 0)
      /\ objs[p][n].path /\ ~objs[p][n].initialized
  BY <1>3 DEF Stopping, ThreadObj
<1>7. Unregistered(p)' /\ cached'[p] = 0
  <2>1. /\ cached' = [cached EXCEPT ![p] = IF objs[p][n].path THEN 0 ELSE cached[p]]
        /\ routes' = [routes EXCEPT ![p] = routes[p] \ {n}]
        /\ triggers' = [triggers EXCEPT ![p] = IF objs[p][n].response /\ triggers[p] > 0 THEN triggers[p] - 1
                                               ELSE triggers[p]]
    BY DEF FinishDeinit, Unregister
  <2>2. /\ cached'[p] = 0 /\ routes'[p] = routes[p] \ {n}
        /\ triggers'[p] = (IF objs[p][n].response /\ triggers[p] > 0 THEN triggers[p] - 1 ELSE triggers[p])
    BY <2>1, <1>6 DEF PluginTypeOK
  <2>3. routes[p] \ {n} = {}
    BY <1>6
  <2> HIDE DEF n
  <2>4. triggers'[p] = 0
    BY <2>2, <1>6
  <2> QED
    BY <2>2, <2>3, <2>4 DEF Unregistered
<1>8. o \in PluginObject /\ ~o.initialized
  <2>1. o \in PluginObject
    BY <1>4, ValueTypes
  <2> QED
    BY <2>1, <1>4, <1>6 DEF OffObj, PluginObject
<1>9. /\ off \in Seq(PluginObject) /\ Len(off) = Len(objs[p]) /\ off[n] = o
  BY <1>4, <1>8, ExceptSeq DEF PluginTypeOK
<1>10. /\ objs \in [Processes -> Seq(PluginObject)] /\ current \in [Processes -> Nat]
       /\ thread \in [PluginThreads -> PluginThread] /\ thread[t] \in PluginThread
  BY DEF PluginTypeOK
<1>11. CASE thread[t].then = "new"
  <2>1. /\ objs' = [objs EXCEPT ![p] = Append(off, new)]
        /\ current' = [current EXCEPT ![p] = Len(off) + 1] /\ thread' = [thread EXCEPT ![t] = th]
    BY <1>11 DEF FinishDeinit, AfterDeinit, ThreadMoves
  <2>2. /\ th.at = "folder" /\ th.p = p /\ th.then = "" /\ th.item = thread[t].item
        /\ th.obj = Len(objs[p]) + 1
    BY <1>10 DEF StartingObj, PluginThread
  <2>3. row \in PluginRow /\ new = NewPlugin(row)
    BY <1>3, <1>11 DEF PluginTypeOK
  <2>4. /\ new \in PluginObject /\ ~new.initialized /\ ~new.response /\ new.active = row.active
        /\ new.conf = row.conf
    <3>1. new \in PluginObject
      BY <2>3, ValueTypes
    <3> QED
      BY <3>1, <2>3 DEF NewPlugin
  <2> HIDE DEF new, th, off
  <2>5. Append(off, new)[Len(objs[p]) + 1] = new
    BY <1>9, <2>4
  <2>6. objs'[p] = Append(off, new) /\ current'[p] = Len(objs[p]) + 1 /\ thread'[t] = th
    BY <2>1, <1>9, <1>10
  <2>7. ThreadObj(t)' = new
    BY <2>2, <2>5, <2>6 DEF ThreadObj
  <2>8. codeDir[HostOf[p]].there /\ FolderIsWhole(HostOf[p])'
    BY <1>3, <1>5, <1>11 DEF FolderIsWhole
  <2>9. Starting(t)'
    BY <2>2, <2>4, <2>6, <2>7, <2>8, <1>3, <1>5, <1>7, <1>11 DEF Starting
  <2>10. HandlerSound(t)'
    BY <2>2, <2>6, <2>8, <2>9 DEF HandlerSound, ThreadAt, FolderPlaces
  <2> QED
    BY <1>1, <1>2, <1>5, <1>11, <2>2, <2>6, <2>10, OwnOfStep
<1>12. CASE thread[t].then = "drop"
  <2>1. /\ current' = [current EXCEPT ![p] = 0] /\ ThreadMoves(t, NoThread)
    BY <1>12, Zenon DEF FinishDeinit, AfterDeinit
  <2>2. current'[p] = 0 /\ thread'[t] = NoThread
    BY <2>1, <1>10 DEF ThreadMoves
  <2>3. Settled(p)'
    BY <2>2, <1>7 DEF Settled
  <2>4. Agrees(p)'
    BY <2>2, <2>3, <1>3, <1>5, <1>12 DEF Agrees
  <2> QED
    BY <1>1, <1>2, <1>5, <1>12, <2>2, <2>4, OwnOfStep
<1>13. CASE thread[t].then \in {"place", "erase"}
  <2>1. /\ objs' = [objs EXCEPT ![p] = off] /\ current' = current /\ ThreadGoes(t, thread[t].then)
    BY <1>13 DEF FinishDeinit, AfterDeinit
  <2>2. /\ thread'[t].at = thread[t].then /\ thread'[t].p = p /\ thread'[t].then = thread[t].then
        /\ thread'[t].obj = n
    BY <2>1, <1>13, GoesKeeps DEF PluginPlaces, RequestPlaces
  <2>3. objs'[p] = off
    BY <2>1, <1>10
  <2> HIDE DEF off, o
  <2>4. ThreadObj(t)' = o
    BY <2>2, <2>3, <1>9 DEF ThreadObj
  <2>5. Stopped(t)'
    BY <2>1, <2>2, <2>4, <1>3, <1>4, <1>5, <1>7, <1>8, <1>13 DEF Stopped
  <2>6. HandlerSound(t)'
    BY <2>2, <2>5, <1>13 DEF HandlerSound, ThreadAt, FolderPlaces
  <2> QED
    BY <1>1, <1>2, <1>5, <1>13, <2>2, <2>6, OwnOfStep
<1> QED
  BY <1>4, <1>11, <1>12, <1>13

\* The object of a row that is read is listed.
LEMMA SoundListed ==
    ASSUME PluginTypeOK, ObjectsKnown, NEW t \in PluginThreads, NEW p \in Processes, thread'[t].p = p,
           Listed(p, row), row.there, FolderIsWhole(HostOf[p]), Unregistered(p),
           cached[p] \in {0, row.version}, UNCHANGED <<row, codeDir, routes, triggers, cached>>,
           thread'[t].at = "folder", thread'[t].item = row, thread'[t].obj = Len(objs[p]) + 1
    PROVE  HandlerSound(t)'
<1>1. row \in PluginRow
  BY DEF PluginTypeOK
<1>2. current'[p] = Len(objs[p]) + 1 /\ objs'[p][Len(objs[p]) + 1] = NewPlugin(row)
  BY <1>1, ListedKeeps
<1>3. /\ ~NewPlugin(row).initialized /\ ~NewPlugin(row).response /\ NewPlugin(row).active = row.active
      /\ NewPlugin(row).conf = row.conf
  BY <1>1 DEF NewPlugin
<1>4. ThreadObj(t)' = NewPlugin(row)
  BY <1>2 DEF ThreadObj
<1>5. codeDir[HostOf[p]].there /\ FolderIsWhole(HostOf[p])' /\ Unregistered(p)'
  BY DEF FolderIsWhole, Unregistered
<1>6. Starting(t)'
  BY <1>2, <1>3, <1>4, <1>5 DEF Starting
<1> QED
  BY <1>5, <1>6 DEF HandlerSound, ThreadAt, FolderPlaces

\* The object of a process is stopped.
LEMMA SoundStop ==
    ASSUME PluginTypeOK, ObjectsKnown, NEW t \in PluginThreads, NEW p \in Processes,
           Settled(p), current[p] # 0,
           \/ objs[p][current[p]].initialized
           \/ objs[p][current[p]].path /\ ~objs[p][current[p]].response,
           objs' = [objs EXCEPT ![p][current[p]] = StoppedObj(objs[p][current[p]])],
           UNCHANGED <<current, routes, triggers>>, thread'[t].p = p, thread'[t].obj = current[p]
    PROVE  Stopping(t)'
<1> DEFINE n == current[p]  o == StoppedObj(objs[p][n])
<1>1. n \in 1 .. Len(objs[p]) /\ objs[p][n] \in PluginObject
  BY ProcessTypes
<1>2. o \in PluginObject /\ ~o.initialized /\ o.response = objs[p][n].response /\ o.path = objs[p][n].path
  <2>1. o \in PluginObject
    BY <1>1, ValueTypes
  <2> QED
    BY <2>1, <1>1 DEF StoppedObj, PluginObject
<1>3. ChangesObj(p, n, o)
  BY DEF ChangesObj
<1>4. /\ routes[p] \subseteq {n} /\ triggers[p] = (IF objs[p][n].response THEN 1 ELSE 0) /\ objs[p][n].path
  BY DEF Settled, Unregistered
<1>5. current' = current /\ current[p] = n
  OBVIOUS
<1> HIDE DEF n, o
<1>6. objs'[p][n] = o
  BY <1>1, <1>2, <1>3, ObjectChanged
<1>7. ThreadObj(t)' = o
  BY <1>5, <1>6 DEF ThreadObj
<1> QED
  BY <1>2, <1>4, <1>5, <1>7 DEF Stopping

LEMMA SoundReadRow ==
    ASSUME PluginTypeOK, ObjectsKnown, NEW t \in PluginThreads, NEW p \in Processes, thread[t].p = p,
           ProcessSound(p), ReadRow(t)
    PROVE  ProcessSound(p)'
<1> DEFINE n == thread[t].obj
<1>1. PluginStep(t) /\ ~Publishes(t) /\ thread[t].at = "row"
  BY DEF PluginStep, ReadRow, ThreadAt, Publishes, SaveConf, SaveActive, Record, Erase
<1>2. /\ HostOf[p] \in Hosts /\ HandlerSound(t)
      /\ subscribed[p] = (thread[t].then # "subscribe") /\ thread[t].then = ""
  BY <1>1, OwnHandler DEF ObjectsKnown, ThreadKnown
<1>3. n = current[p] /\ CanLoad(p)
  BY <1>1, <1>2 DEF HandlerSound, ThreadAt
<1>4. UNCHANGED <<row, codeDir, routes, triggers, cached, subscribed>>
  BY DEF ReadRow, outside
<1>5. thread \in [PluginThreads -> PluginThread] /\ thread[t] \in PluginThread
  BY DEF PluginTypeOK
<1>6. CASE ~row.there
  <2>1. ThreadMoves(t, NoThread) /\ UNCHANGED <<objs, current>>
    BY <1>6 DEF ReadRow
  <2>2. thread'[t] = NoThread
    BY <2>1, <1>5 DEF ThreadMoves
  <2>3. Settled(p)'
    BY <2>1, <1>3, <1>4 DEF CanLoad, Settled, Unregistered
  <2>4. row.there = FALSE /\ current[p] = 0
    BY <1>3, <1>6 DEF CanLoad, PluginTypeOK, PluginRow
  <2>5. Agrees(p)'
    BY <2>1, <2>3, <2>4, <1>4 DEF Agrees
  <2> QED
    BY <1>1, <1>2, <1>4, <2>2, <2>5, OwnOfStep
<1>7. CASE row.there /\ n # 0 /\ objs[p][n].initialized
  <2> DEFINE new == [thread[t] EXCEPT !.at = "deinit", !.then = "new", !.item = row]
  <2>1. /\ objs' = [objs EXCEPT ![p][n] = StoppedObj(objs[p][n])] /\ UNCHANGED current
        /\ thread' = [thread EXCEPT ![t] = new]
    BY <1>7 DEF ReadRow, ThreadObj, ThreadMoves
  <2>2. new.at = "deinit" /\ new.then = "new" /\ new.item = row /\ new.p = p /\ new.obj = n
    BY <1>5 DEF PluginThread
  <2> HIDE DEF new
  <2>3. thread'[t] = new
    BY <2>1, <1>5
  <2>4. Settled(p) /\ FolderIsWhole(HostOf[p])
    BY <1>3, <1>7 DEF CanLoad
  <2>5. Stopping(t)'
    BY <2>1, <2>2, <2>3, <2>4, <1>3, <1>4, <1>7, SoundStop
  <2>6. FolderIsWhole(HostOf[p])'
    BY <2>4, <1>4 DEF FolderIsWhole
  <2>7. HandlerSound(t)'
    BY <2>2, <2>3, <2>5, <2>6, <1>4, <1>7 DEF HandlerSound, ThreadAt, FolderPlaces
  <2> QED
    BY <1>1, <1>2, <1>4, <2>2, <2>3, <2>7, OwnOfStep
<1>8. CASE row.there /\ ~(n # 0 /\ objs[p][n].initialized)
  <2> DEFINE new == [StartingObj(t) EXCEPT !.item = row]
  <2>1. Listed(p, row) /\ thread' = [thread EXCEPT ![t] = new]
    BY <1>8 DEF ReadRow, ThreadObj, ThreadMoves
  <2>2. /\ new.at = "folder" /\ new.then = "" /\ new.item = row /\ new.p = p
        /\ new.obj = Len(objs[p]) + 1
    BY <1>5 DEF PluginThread, StartingObj
  <2> HIDE DEF new
  <2>3. thread'[t] = new
    BY <2>1, <1>5
  <2>4. Unregistered(p) /\ FolderIsWhole(HostOf[p]) /\ cached[p] \in {0, row.version}
    BY <1>3, <1>8 DEF CanLoad, Settled
  <2>5. HandlerSound(t)'
    BY <2>1, <2>2, <2>3, <2>4, <1>4, <1>8, SoundListed
  <2> QED
    BY <1>1, <1>2, <1>4, <2>2, <2>3, <2>5, OwnOfStep
<1> QED
  BY <1>6, <1>7, <1>8

\* A process starts.
LEMMA SoundStart ==
    ASSUME PluginTypeOK, ObjectsKnown, NEW t \in PluginThreads, NEW p \in Processes, thread[t].p = p,
           ProcessSound(p), LoadFromDB(t) \/ Subscribe(t)
    PROVE  ProcessSound(p)'
<1>1. PluginStep(t) /\ ~Publishes(t) /\ thread[t].at \in {"boot", "subscribe"}
  BY DEF PluginStep, LoadFromDB, Subscribe, ThreadAt, Publishes, SaveConf, SaveActive, Record, Erase
<1>2. /\ HostOf[p] \in Hosts /\ HandlerSound(t)
      /\ subscribed[p] = (thread[t].then # "subscribe") /\ thread[t].then = "subscribe"
  BY <1>1, OwnHandler DEF ObjectsKnown, ThreadKnown
<1>3. thread \in [PluginThreads -> PluginThread] /\ thread[t] \in PluginThread
      /\ subscribed \in [Processes -> BOOLEAN] /\ current[p] \in Nat
  BY DEF PluginTypeOK
<1>4. CASE LoadFromDB(t) /\ row.there
  <2> DEFINE new == [thread[t] EXCEPT !.at = "folder", !.obj = 1, !.item = row]
  <2>1. Listed(p, row) /\ thread' = [thread EXCEPT ![t] = new]
        /\ UNCHANGED <<row, codeDir, routes, triggers, cached, subscribed>>
    BY <1>4 DEF LoadFromDB, ThreadMoves, outside
  <2>2. /\ new.at = "folder" /\ new.then = "subscribe" /\ new.item = row /\ new.p = p
        /\ new.obj = 1
    BY <1>2, <1>3 DEF PluginThread
  <2> HIDE DEF new
  <2>3. thread'[t] = new
    BY <2>1, <1>3
  <2>4. Unregistered(p) /\ FolderIsWhole(HostOf[p]) /\ cached[p] = 0 /\ objs[p] = <<>>
    BY <1>2, <1>4 DEF HandlerSound, LoadFromDB, ThreadAt
  <2>5. HandlerSound(t)'
    BY <2>1, <2>2, <2>3, <2>4, <1>4, SoundListed
  <2> QED
    BY <1>1, <1>2, <2>1, <2>2, <2>3, <2>5, OwnOfStep
<1>5. CASE LoadFromDB(t) /\ ~row.there
  <2>1. ThreadGoes(t, "subscribe")
        /\ UNCHANGED <<objs, current, row, codeDir, routes, triggers, cached, subscribed>>
    BY <1>5 DEF LoadFromDB, outside
  <2>2. thread'[t].at = "subscribe" /\ thread'[t].p = p /\ thread'[t].then = "subscribe"
    BY <2>1, <1>2, GoesKeeps DEF PluginPlaces
  <2>3. Unregistered(p) /\ objs[p] = <<>>
    BY <1>2, <1>5 DEF HandlerSound, LoadFromDB, ThreadAt
  <2>4. current[p] = 0
    BY <2>3, ProcessTypes
  <2>5. row.there = FALSE
    BY <1>5 DEF PluginTypeOK, PluginRow
  <2>6. Agrees(p)'
    BY <2>1, <2>3, <2>4, <2>5 DEF Agrees, Settled, Unregistered
  <2>7. HandlerSound(t)'
    BY <2>2, <2>6 DEF HandlerSound, ThreadAt, FolderPlaces
  <2> QED
    BY <1>1, <1>2, <2>1, <2>2, <2>7, OwnOfStep
<1>6. CASE Subscribe(t)
  <2>1. thread'[t] = NoThread /\ subscribed'[p] = TRUE
        /\ UNCHANGED <<objs, current, row, codeDir, routes, triggers, cached>>
    BY <1>3, <1>6 DEF Subscribe, ThreadMoves, memory
  <2>2. Agrees(p)
    BY <1>2, <1>6 DEF HandlerSound, Subscribe, ThreadAt
  <2>3. Agrees(p)'
    BY <2>1, <2>2 DEF Agrees, Settled, Unregistered, FolderIsWhole
  <2> QED
    BY <1>1, <2>1, <2>3, OwnOfStep
<1> QED
  BY <1>4, <1>5, <1>6

\* An upload, up to the record.
LEMMA SoundBuild ==
    ASSUME PluginTypeOK, ObjectsKnown, NEW t \in PluginThreads, NEW p \in Processes, thread[t].p = p,
           ProcessSound(p), Build(t)
    PROVE  ProcessSound(p)'
<1> DEFINE n == thread[t].obj
<1>1. PluginStep(t) /\ ~Publishes(t) /\ thread[t].at = "build"
  BY DEF PluginStep, Build, ThreadAt, Publishes, SaveConf, SaveActive, Record, Erase
<1>2. /\ HostOf[p] \in Hosts /\ HandlerSound(t)
      /\ subscribed[p] = (thread[t].then # "subscribe") /\ thread[t].then = ""
  BY <1>1, OwnHandler DEF ObjectsKnown, ThreadKnown
<1>3. Agrees(p) /\ n \in {0, current[p]} /\ (current[p] = 0 => cached[p] = 0)
  BY <1>1, <1>2 DEF HandlerSound, ThreadAt
<1>4. thread \in [PluginThreads -> PluginThread] /\ thread[t] \in PluginThread
  BY DEF PluginTypeOK
<1>5. UNCHANGED <<current, row, codeDir, routes, triggers, cached, subscribed>>
  BY DEF Build, outside
<1>6. CASE n # 0
  <2> DEFINE new == [thread[t] EXCEPT !.at = "deinit", !.then = "place"]
  <2>1. /\ objs' = [objs EXCEPT ![p][n] = StoppedObj(objs[p][n])]
        /\ thread' = [thread EXCEPT ![t] = new]
    BY <1>6 DEF Build, ThreadMoves
  <2>2. new.at = "deinit" /\ new.then = "place" /\ new.p = p /\ new.obj = n
    BY <1>4 DEF PluginThread
  <2> HIDE DEF new
  <2>3. thread'[t] = new
    BY <2>1, <1>4
  <2>4. /\ Settled(p) /\ row.there /\ objs[p][n].path
        /\ objs[p][n].initialized = row.active /\ objs[p][n].response = row.active
    BY <1>3, <1>6 DEF Agrees
  <2>5. row.active \in BOOLEAN /\ row'.there = TRUE
    BY <2>4, <1>5 DEF PluginTypeOK, PluginRow
  <2>6. Stopping(t)'
    BY <2>1, <2>2, <2>3, <2>4, <2>5, <1>3, <1>5, <1>6, SoundStop
  <2>7. HandlerSound(t)'
    BY <2>2, <2>3, <2>5, <2>6 DEF HandlerSound, ThreadAt, FolderPlaces
  <2> QED
    BY <1>1, <1>2, <1>5, <2>2, <2>3, <2>7, OwnOfStep
<1>7. CASE n = 0 /\ current[p] # 0
  <2>1. ThreadMoves(t, NoThread) /\ UNCHANGED objs
    BY <1>7 DEF Build
  <2>2. thread'[t] = NoThread
    BY <2>1, <1>4 DEF ThreadMoves
  <2>3. Agrees(p)'
    BY <2>1, <1>3, <1>5 DEF Agrees, Settled, Unregistered, FolderIsWhole
  <2> QED
    BY <1>1, <1>2, <1>5, <2>2, <2>3, OwnOfStep
<1>8. CASE n = 0 /\ current[p] = 0
  <2>1. ThreadGoes(t, "place") /\ UNCHANGED objs
    BY <1>8 DEF Build
  <2>2. thread'[t].at = "place" /\ thread'[t].p = p /\ thread'[t].then = "" /\ thread'[t].obj = 0
    BY <2>1, <1>2, <1>8, GoesKeeps DEF PluginPlaces, RequestPlaces
  <2>3. Unregistered(p) /\ row.there = FALSE
    BY <1>3, <1>8 DEF Agrees, Settled, PluginTypeOK, PluginRow
  <2>4. Stopped(t)'
    BY <2>1, <2>2, <2>3, <1>3, <1>5, <1>8 DEF Stopped, Unregistered
  <2>5. HandlerSound(t)'
    BY <2>2, <2>4 DEF HandlerSound, ThreadAt, FolderPlaces
  <2> QED
    BY <1>1, <1>2, <1>5, <2>2, <2>5, OwnOfStep
<1> QED
  BY <1>6, <1>7, <1>8

\* A process without the plugin, after an upload that came to nothing.
LEMMA AgreesAgain ==
    ASSUME NEW t \in PluginThreads, NEW p \in Processes, thread[t].p = p, thread[t].obj = 0, Stopped(t),
           UNCHANGED <<objs, current, row, codeDir, routes, triggers, cached>>
    PROVE  Agrees(p)'
<1>1. Unregistered(p) /\ ~row.there /\ current[p] = 0 /\ row.there = FALSE
  BY DEF Stopped
<1> QED
  BY <1>1 DEF Agrees, Settled, Unregistered

LEMMA SoundPlace ==
    ASSUME PluginTypeOK, ObjectsKnown, NEW t \in PluginThreads, NEW p \in Processes, thread[t].p = p,
           ProcessSound(p), p \notin astray', Invalid(t) \/ Place(t)
    PROVE  ProcessSound(p)'
<1> DEFINE n == thread[t].obj
<1>1. PluginStep(t) /\ ~Publishes(t) /\ thread[t].at = "place"
  BY DEF PluginStep, Invalid, Place, ThreadAt, Publishes, SaveConf, SaveActive, Record, Erase
<1>2. /\ HostOf[p] \in Hosts /\ HandlerSound(t)
      /\ subscribed[p] = (thread[t].then # "subscribe") /\ thread[t].then # "subscribe"
  BY <1>1, OwnHandler DEF ObjectsKnown, ThreadKnown
<1>3. Stopped(t)
  BY <1>1, <1>2 DEF HandlerSound
<1>4. thread \in [PluginThreads -> PluginThread] /\ thread[t] \in PluginThread
      /\ codeDir \in [Hosts -> Folder]
  BY DEF PluginTypeOK
<1>5. UNCHANGED <<objs, current, row, routes, triggers, cached, subscribed>>
  BY DEF Invalid, Place, memory
<1>6. CASE Invalid(t)
  <2>1. n = 0 /\ thread' = [thread EXCEPT ![t] = NoThread] /\ UNCHANGED codeDir
    BY <1>6 DEF Invalid, ThreadMoves, ExcuseProcesses
  <2>2. thread'[t] = NoThread
    BY <2>1, <1>4
  <2>3. Agrees(p)'
    BY <2>1, <1>3, <1>5, AgreesAgain
  <2> QED
    BY <1>1, <1>2, <1>5, <2>2, <2>3, OwnOfStep
<1>7. CASE Place(t) /\ n = 0 /\ codeDir[HostOf[p]].there
  <2>1. thread' = [thread EXCEPT ![t] = NoThread] /\ UNCHANGED codeDir
    BY <1>7 DEF Place, ThreadMoves, ThreadHost
  <2>2. thread'[t] = NoThread
    BY <2>1, <1>4
  <2>3. Agrees(p)'
    BY <2>1, <1>3, <1>5, <1>7, AgreesAgain
  <2> QED
    BY <1>1, <1>2, <1>5, <2>2, <2>3, OwnOfStep
<1>8. CASE Place(t) /\ ~(n = 0 /\ codeDir[HostOf[p]].there)
  <2> DEFINE new == [thread[t] EXCEPT !.at = "record", !.item.version = made + 1]
             folder == [there |-> TRUE, code |-> made + 1, hash |-> made + 1]
  <2>1. thread' = [thread EXCEPT ![t] = new] /\ codeDir' = [codeDir EXCEPT ![HostOf[p]] = folder]
    BY <1>8 DEF Place, ThreadMoves, ThreadHost
  <2>2. /\ new.at = "record" /\ new.p = p /\ new.obj = n /\ new.then = thread[t].then
        /\ new.item.version = made + 1
    BY <1>4 DEF PluginThread, PluginRow
  <2>3. codeDir'[HostOf[p]] = folder
    BY <2>1, <1>2, <1>4
  <2> HIDE DEF new
  <2>4. thread'[t] = new
    BY <2>1, <1>4
  <2>5. Stopped(t)'
    BY <2>2, <2>4, <1>3, <1>5 DEF Stopped, Unregistered, ThreadObj
  <2>6. HandlerSound(t)'
    BY <2>2, <2>3, <2>4, <2>5 DEF HandlerSound, ThreadAt, FolderPlaces
  <2> QED
    BY <1>1, <1>2, <1>5, <2>2, <2>4, <2>6, OwnOfStep
<1> QED
  BY <1>6, <1>7, <1>8

\* While a request is under way elsewhere, a process has nothing to do.
LEMMA NothingToDo ==
    ASSUME NEW t \in PluginThreads, IsRequest(t), NEW q \in Processes, q # thread[t].p, ProcessSound(q)
    PROVE  OwnThreads(q) = {} /\ chan[q] = <<>> /\ Agrees(q)
<1>1. chan[q] = <<>> /\ OwnThreads(q) \subseteq {t}
  BY DEF ProcessSound
<1>2. OwnThreads(q) = {}
  BY <1>1 DEF OwnThreads
<1> QED
  BY <1>1, <1>2 DEF ProcessSound

\* The request ends: everyone is told.
LEMMA SoundTold ==
    ASSUME PluginTypeOK, OneRequest, NEW t \in PluginThreads, IsRequest(t), thread[t].then # "subscribe",
           ThreadMoves(t, NoThread), NEW m \in {"init", "delete"}, Publish(m), UNCHANGED subscribed,
           NEW q \in Processes, ProcessSound(q),
           m = "init" => CanLoad(q)', m = "delete" => Settled(q)' /\ ~row'.there
    PROVE  ProcessSound(q)'
<1>1. chan[q] = <<>> /\ OwnThreads(q) \subseteq {t}
  BY DEF ProcessSound
<1>2. subscribed[q] = TRUE
  <2>1. subscribed[q] = (\A u \in OwnThreads(q) : thread[u].then # "subscribe")
    BY DEF ProcessSound
  <2>2. \A u \in OwnThreads(q) : thread[u].then # "subscribe"
    BY <1>1
  <2> QED
    BY <2>1, <2>2, Zenon
<1>3. NoThread.p = "none" /\ "none" \notin Processes /\ NoThread.at = "idle"
  BY PluginsAssumption DEF NoThread
<1>4. thread'[t] = NoThread /\ \A u \in PluginThreads \ {t} : thread'[u] = thread[u]
  BY DEF ThreadMoves, PluginTypeOK
<1>5. OwnThreads(q)' = {}
  BY <1>1, <1>3, <1>4 DEF OwnThreads
<1>6. \A u \in PluginThreads : ~IsRequest(u)'
  BY <1>3, <1>4 DEF OneRequest, IsRequest, ThreadAt, RequestPlaces
<1>7. chan'[q] = <<m>>
  BY <1>1, <1>2, Published
<1> QED
  BY <1>2, <1>5, <1>6, <1>7, ToldOfChange

\* What the handler of a request knows.
LEMMA OwnRequest ==
    ASSUME PluginTypeOK, ObjectsKnown, NEW t \in PluginThreads, PluginStep(t), Publishes(t)
    PROVE  /\ IsRequest(t) /\ thread[t].then # "subscribe" /\ thread[t].p \in Processes
           /\ thread[t].at \in {"conf", "active", "record", "erase"}
           /\ UNCHANGED subscribed
<1>1. thread[t].p \in Processes /\ ThreadKnown(thread[t])
  BY StepThreads DEF ThreadSteps, ObjectsKnown
<1> QED
  BY <1>1 DEF Publishes, SaveConf, SaveActive, Record, Erase, ThreadAt, ThreadKnown, IsRequest, RequestPlaces

\* A configuration is saved.
LEMMA CanStillLoad ==
    ASSUME NEW q \in Processes, CanLoad(q), UNCHANGED <<codeDir, current, routes, triggers, cached>>,
           row'.there = row.there, row'.version = row.version,
           current[q] # 0 => /\ objs'[q][current[q]].initialized = objs[q][current[q]].initialized
                             /\ objs'[q][current[q]].path = objs[q][current[q]].path
                             /\ objs'[q][current[q]].response = objs[q][current[q]].response
    PROVE  CanLoad(q)'
<1>1. Settled(q)'
  BY DEF CanLoad, Settled, Unregistered
<1> QED
  BY <1>1 DEF CanLoad, FolderIsWhole

LEMMA AgreesLoads ==
    ASSUME NEW q \in Processes, PluginTypeOK, Agrees(q)
    PROVE  CanLoad(q)
BY DEF Agrees, CanLoad, PluginTypeOK, PluginRow

LEMMA SwitchedKeeps ==
    ASSUME PluginTypeOK, NEW p \in Processes, NEW n \in 1 .. Len(objs[p]), NEW active \in BOOLEAN,
           ChangesObj(p, n, SwitchedObj(objs[p][n], active))
    PROVE  /\ \A q \in Processes : q # p => objs'[q] = objs[q]
           /\ objs'[p][n] = SwitchedObj(objs[p][n], active) /\ objs[p][n] \in PluginObject
           /\ objs'[p][n].initialized = objs[p][n].initialized
           /\ objs'[p][n].path = objs[p][n].path /\ objs'[p][n].response = objs[p][n].response
           /\ objs'[p][n].code = objs[p][n].code /\ objs'[p][n].conf = objs[p][n].conf
           /\ objs'[p][n].active = active
           /\ \A m \in 1 .. Len(objs[p]) : m # n => objs'[p][m] = objs[p][m]
<1> DEFINE o == SwitchedObj(objs[p][n], active)
<1>1. objs[p][n] \in PluginObject
  BY ObjectsThere
<1>2. o \in PluginObject
  BY <1>1, ValueTypes
<1>3. /\ o.initialized = objs[p][n].initialized /\ o.path = objs[p][n].path
      /\ o.response = objs[p][n].response /\ o.code = objs[p][n].code /\ o.conf = objs[p][n].conf
      /\ o.active = active
  BY <1>1 DEF SwitchedObj, PluginObject
<1>4. ChangesObj(p, n, o)
  OBVIOUS
<1> HIDE DEF o
<1>5. /\ \A q \in Processes : q # p => objs'[q] = objs[q]
      /\ objs'[p][n] = o
      /\ \A m \in 1 .. Len(objs[p]) : m # n => objs'[p][m] = objs[p][m]
  BY <1>2, <1>4, ObjectChanged
<1> QED
  BY <1>1, <1>3, <1>5 DEF o

LEMMA SoundSaved ==
    ASSUME PluginTypeOK, ObjectsKnown, OneRequest, NEW t \in PluginThreads, SaveConf(t) \/ SaveActive(t),
           NEW q \in Processes \ astray, ProcessSound(q)
    PROVE  ProcessSound(q)'
<1> DEFINE p == thread[t].p  n == thread[t].obj  active == thread[t].item.active
<1>1. PluginStep(t) /\ Publishes(t) /\ thread[t].at \in {"conf", "active"}
  BY DEF PluginStep, Publishes, SaveConf, SaveActive, ThreadAt
<1>2. /\ IsRequest(t) /\ thread[t].then # "subscribe" /\ p \in Processes /\ UNCHANGED subscribed
  BY <1>1, OwnRequest
<1>3. n \in 1 .. Len(objs[p]) /\ active \in BOOLEAN
  <2>1. n \in 0 .. Len(objs[p]) /\ n # 0
    BY <1>1 DEF ObjectsKnown, ThreadKnown
  <2>2. Len(objs[p]) \in Nat
    BY <1>2, LengthsAreNat
  <2>3. thread[t] \in PluginThread
    BY DEF PluginTypeOK
  <2> QED
    BY <2>1, <2>2, <2>3, InRangeOne DEF PluginThread, PluginRow
<1>4. CanLoad(q)
  <2>1. CASE q = p
    <3>1. HandlerSound(t)
      BY <1>1, <1>2, <2>1, OwnHandler
    <3> QED
      BY <1>1, <2>1, <3>1 DEF HandlerSound
  <2>2. CASE q # p
    BY <1>2, <2>2, NothingToDo, AgreesLoads
  <2> QED
    BY <2>1, <2>2
<1>5. /\ Publish("init") /\ ThreadMoves(t, NoThread)
      /\ UNCHANGED <<codeDir, current, routes, triggers, cached>>
  <2>1. CASE SaveActive(t)
    BY <2>1 DEF SaveActive, memory
  <2>2. CASE SaveConf(t)
    <3>1. objs[p][n].active = active
      <4>1. ThreadAt(t, "conf") /\ ~(Processes \subseteq astray)
        BY <2>2 DEF SaveConf
      <4>2. ThreadObj(t).active = active
        BY <4>1 DEF OneRequest
      <4> QED
        BY <4>2 DEF ThreadObj
    <3> QED
      BY <2>2, <3>1 DEF SaveConf, SameActive
  <2> QED
    BY <2>1, <2>2
<1>6. row'.there = row.there /\ row'.version = row.version
  BY DEF SaveConf, SaveActive, PluginTypeOK, PluginRow
<1>7. \A m \in 1 .. Len(objs[q]) : /\ objs'[q][m].initialized = objs[q][m].initialized
                                  /\ objs'[q][m].path = objs[q][m].path
                                  /\ objs'[q][m].response = objs[q][m].response
  <2>1. CASE SaveActive(t)
    BY <2>1 DEF SaveActive, memory
  <2>2. CASE SaveConf(t)
    <3>1. ChangesObj(p, n, SwitchedObj(objs[p][n], active))
      BY <2>2 DEF SaveConf, ChangesObj
    <3>2. p \in Processes /\ n \in 1 .. Len(objs[p]) /\ active \in BOOLEAN
      BY <1>2, <1>3
    <3> HIDE DEF p, n, active
    <3>3. /\ \A r \in Processes : r # p => objs'[r] = objs[r]
          /\ objs'[p][n].initialized = objs[p][n].initialized
          /\ objs'[p][n].path = objs[p][n].path /\ objs'[p][n].response = objs[p][n].response
          /\ \A m \in 1 .. Len(objs[p]) : m # n => objs'[p][m] = objs[p][m]
      BY <3>1, <3>2, SwitchedKeeps
    <3> QED
      BY <3>3
  <2> QED
    BY <2>1, <2>2
<1>8. CanLoad(q)'
  <2>1. current[q] # 0 => current[q] \in 1 .. Len(objs[q])
    BY ProcessTypes
  <2> QED
    BY <2>1, <1>4, <1>5, <1>6, <1>7, CanStillLoad
<1> QED
  BY <1>2, <1>5, <1>8, SoundTold

\* A version is recorded.
LEMMA SoundRecorded ==
    ASSUME PluginTypeOK, ObjectsKnown, OneRequest, NEW t \in PluginThreads, Record(t),
           NEW q \in Processes, ProcessSound(q)
    PROVE  ProcessSound(q)'
<1> DEFINE p == thread[t].p  n == thread[t].obj  v == thread[t].item.version
<1>1. PluginStep(t) /\ Publishes(t) /\ thread[t].at = "record"
  BY DEF PluginStep, Publishes, Record, ThreadAt
<1>2. /\ IsRequest(t) /\ thread[t].then # "subscribe" /\ p \in Processes /\ UNCHANGED subscribed
  BY <1>1, OwnRequest
<1>3. UNCHANGED <<objs, current, routes, triggers, cached, codeDir>> /\ ThreadMoves(t, NoThread)
  BY DEF Record, memory
<1>4. CASE n = 0 /\ row.there
  <2>1. row' = row /\ chan' = chan
    BY <1>4 DEF Record
  <2>2. NoThread.at = "idle" /\ NoThread.p # q /\ thread'[t] = NoThread
        /\ \A u \in PluginThreads \ {t} : thread'[u] = thread[u]
    BY <1>3, PluginsAssumption DEF NoThread, ThreadMoves, PluginTypeOK
  <2>3. q # p
    <3>1. ASSUME q = p PROVE FALSE
      <4>1. HandlerSound(t)
        BY <1>1, <3>1, OwnHandler
      <4>2. Stopped(t)
        BY <1>1, <4>1 DEF HandlerSound
      <4> QED
        BY <4>2, <1>4 DEF Stopped
    <3> QED
      BY <3>1
  <2>4. \A u \in PluginThreads :
           \/ thread'[u] = thread[u]
           \/ /\ thread[u].p # q /\ thread'[u].p # q
              /\ IsRequest(u)' => /\ IsRequest(u)
                                  /\ Renews(u)' => Renews(u)
                                  /\ ThreadAt(u, "record")' => codeDir[HostOf[q]].hash # thread'[u].item.version
    BY <2>2, <2>3 DEF IsRequest, ThreadAt, RequestPlaces
  <2> QED
    BY <1>2, <1>3, <2>1, <2>4, OthersSound DEF SameMemory
<1>5. CASE n # 0 \/ ~row.there
  <2>1. Publish("init")
    BY <1>5 DEF Record
  <2>2. /\ row'.there = (n = 0 \/ row.there) /\ (row'.there => row'.version = v)
    <3>1. CASE n = 0
      <4>1. row' = [there |-> TRUE, active |-> FALSE, version |-> v, conf |-> EmptySecret]
        BY <1>5, <3>1, Zenon DEF Record
      <4>2. row'.there = TRUE /\ row'.version = v
        BY <4>1
      <4> QED
        BY <3>1, <4>2
    <3>2. CASE n # 0
      <4>1. /\ row' = IF row.there THEN [row EXCEPT !.version = v] ELSE row
            /\ row \in PluginRow
        BY <3>2 DEF Record, PluginTypeOK
      <4>2. row'.there = row.there /\ (row.there => row'.version = v) /\ row.there \in BOOLEAN
        BY <4>1 DEF PluginRow
      <4> QED
        BY <3>2, <4>2
    <3> QED
      BY <3>1, <3>2
  <2>3. CASE q = p
    <3>1. HandlerSound(t) /\ HostOf[q] \in Hosts
      BY <1>1, <2>3, OwnHandler
    <3>2. /\ Stopped(t) /\ codeDir[HostOf[q]] = [there |-> TRUE, code |-> v, hash |-> v]
      BY <1>1, <2>3, <3>1 DEF HandlerSound, ThreadAt
    <3>3. /\ n = current[q] /\ Unregistered(q) /\ cached[q] = 0 /\ (n # 0) = row.there
          /\ n # 0 => ~objs[q][n].initialized
      BY <2>3, <3>2 DEF Stopped, ThreadObj
    <3>4. Settled(q)'
      BY <1>3, <3>3 DEF Settled, Unregistered
    <3>5. row'.there => FolderIsWhole(HostOf[q])'
      BY <1>3, <2>2, <3>2 DEF FolderIsWhole
    <3>6. row'.there
      BY <1>5, <2>2, <3>3
    <3>7. CanLoad(q)'
      BY <1>3, <3>3, <3>4, <3>5, <3>6 DEF CanLoad
    <3> QED
      BY <1>2, <1>3, <2>1, <3>7, SoundTold
  <2>4. CASE q # p
    <3>1. Agrees(q)
      BY <1>2, <2>4, NothingToDo
    <3>2. CanRenew(q) /\ codeDir[HostOf[q]].hash # v
      BY <1>1, <1>2, <2>4 DEF ProcessSound, Renews, ThreadAt
    <3>3. Settled(q)'
      BY <1>3, <3>1 DEF Agrees, Settled, Unregistered
    <3>4. row'.there => FolderIsWhole(HostOf[q])'
      BY <1>3, <2>2, <3>2 DEF FolderIsWhole, CanRenew
    <3>5. \/ current[q] # 0 /\ objs[q][current[q]].initialized
          \/ cached[q] = 0
      BY <3>1, <3>2 DEF CanRenew, Agrees
    <3>6. ~row'.there => current[q] = 0
      BY <2>2, <3>1 DEF Agrees
    <3>7. CanLoad(q)'
      BY <1>3, <3>3, <3>4, <3>5, <3>6 DEF CanLoad
    <3> QED
      BY <1>2, <1>3, <2>1, <3>7, SoundTold
  <2> QED
    BY <2>3, <2>4
<1> QED
  BY <1>4, <1>5

\* The plugin is deleted.
LEMMA SoundErased ==
    ASSUME PluginTypeOK, ObjectsKnown, OneRequest, NEW t \in PluginThreads, Erase(t),
           NEW q \in Processes, ProcessSound(q)
    PROVE  ProcessSound(q)'
<1> DEFINE p == thread[t].p
<1>1. PluginStep(t) /\ Publishes(t) /\ thread[t].at = "erase"
  BY DEF PluginStep, Publishes, Erase, ThreadAt
<1>2. /\ IsRequest(t) /\ thread[t].then # "subscribe" /\ p \in Processes /\ UNCHANGED subscribed
  BY <1>1, OwnRequest
<1>3. /\ UNCHANGED <<objs, current, routes, triggers, cached>> /\ ThreadMoves(t, NoThread)
      /\ Publish("delete") /\ ~row'.there
  BY DEF Erase, memory, PluginTypeOK, PluginRow
<1>4. Settled(q)
  <2>1. CASE q = p
    <3>1. HandlerSound(t)
      BY <1>1, <2>1, OwnHandler
    <3>2. Stopped(t)
      BY <1>1, <3>1 DEF HandlerSound
    <3> QED
      BY <2>1, <3>2 DEF Stopped, Settled, ThreadObj
  <2>2. CASE q # p
    BY <1>2, <2>2, NothingToDo DEF Agrees
  <2> QED
    BY <2>1, <2>2
<1>5. Settled(q)'
  BY <1>3, <1>4 DEF Settled, Unregistered
<1> QED
  BY <1>2, <1>3, <1>5, SoundTold

\* A message, or a restart, is nothing to another process.
LEMMA MemoryOfProcess ==
    ASSUME PluginTypeOK, ObjectsKnown, NEW p \in Processes, ProcessSteps(p), NEW q \in Processes, q # p
    PROVE  SameMemory(q) /\ chan'[q] = chan[q] /\ row' = row /\ codeDir' = codeDir
<1>1. row' = row /\ codeDir' = codeDir
  BY ThreadsOfProcess
<1>2. /\ objs \in [Processes -> Seq(PluginObject)] /\ current \in [Processes -> Nat]
      /\ routes \in [Processes -> SUBSET Nat] /\ triggers \in [Processes -> Nat]
      /\ cached \in [Processes -> Nat] /\ subscribed \in [Processes -> BOOLEAN]
      /\ chan \in [Processes -> Seq({"init", "delete"})]
  BY DEF PluginTypeOK
<1>3. CASE Deliver(p)
  <2>1. UNCHANGED <<routes, triggers, cached, subscribed>>
        /\ chan' = [chan EXCEPT ![p] = Tail(chan[p])]
    BY <1>3 DEF Deliver
  <2>2. objs' = objs \/ \E o : objs' = [objs EXCEPT ![p][current[p]] = o]
    BY <1>3 DEF Deliver
  <2>3. current' = current \/ current' = [current EXCEPT ![p] = 0]
    BY <1>3 DEF Deliver
  <2> QED
    BY <2>1, <2>2, <2>3, <1>1, <1>2 DEF SameMemory
<1>4. CASE Restart(p)
  BY <1>1, <1>2, <1>4 DEF SameMemory, Restart
<1>5. CASE Delete(p)
  <2>1. UNCHANGED <<current, routes, triggers, cached, chan, subscribed>>
        /\ \E o : objs' = [objs EXCEPT ![p][current[p]] = o]
    BY <1>5 DEF Delete
  <2> QED
    BY <2>1, <1>1, <1>2 DEF SameMemory
<1>6. CASE \E update \in BOOLEAN : Upload(p, update)
  BY <1>1, <1>6 DEF SameMemory, Upload, memory
<1>7. ASSUME NEW active \in BOOLEAN, NEW more \in BOOLEAN,
             NEW value \in ShownSecrets \cup {Plain(s) : s \in Secrets}, Update(p, active, value, more)
      PROVE  SameMemory(q) /\ chan'[q] = chan[q]
  <2>1. UNCHANGED <<current, routes, triggers, cached, chan, subscribed>>
    BY <1>7 DEF Update
  <2>2. \/ objs' = [objs EXCEPT ![p][current[p]] = EditedObj(objs[p][current[p]], value)]
        \/ objs' = [objs EXCEPT ![p][current[p]] = SwitchedObj(objs[p][current[p]], active)]
    BY <1>7 DEF Update
  <2> QED
    BY <2>1, <2>2, <1>2 DEF SameMemory
<1> QED
  BY <1>1, <1>3, <1>4, <1>5, <1>6, <1>7 DEF ProcessSteps

LEMMA OthersOfDeliver ==
    ASSUME PluginTypeOK, ObjectsKnown, NEW p \in Processes, Deliver(p) \/ Restart(p),
           NEW q \in Processes, q # p, ProcessSound(q)
    PROVE  ProcessSound(q)'
<1>1. SameMemory(q) /\ chan'[q] = chan[q] /\ row' = row /\ codeDir' = codeDir
  BY MemoryOfProcess DEF ProcessSteps
<1>2. NoThread.at = "idle" /\ NoThread.p # q
  BY PluginsAssumption DEF NoThread
<1>3. \A u \in PluginThreads :
         \/ thread'[u] = thread[u]
         \/ thread[u].p # q /\ thread'[u].p # q /\ ~IsRequest(u)'
  <2>1. CASE Deliver(p)
    <3> DEFINE handler == [NoThread EXCEPT !.p = p, !.obj = current[p]]
               reads == [handler EXCEPT !.at = "row"]
               drops == [handler EXCEPT !.at = "deinit", !.then = "drop"]
    <3>1. UNCHANGED thread \/ BeginThread(reads) \/ BeginThread(drops)
      BY <2>1 DEF Deliver
    <3>2. reads.p = p /\ reads.at = "row" /\ drops.p = p /\ drops.at = "deinit" /\ drops.then = "drop"
      BY DEF NoThread
    <3>3. reads \in PluginThread /\ drops \in PluginThread
      <4>1. current[p] \in Nat
        BY DEF PluginTypeOK
      <4> QED
        BY <4>1, ValueTypes DEF PluginThread, PluginPlaces
    <3> HIDE DEF reads, drops
    <3>4. CASE BeginThread(reads)
      <4>1. \E t \in PluginThreads : /\ thread[t] = NoThread /\ thread'[t] = reads
                                     /\ \A u \in PluginThreads \ {t} : thread'[u] = thread[u]
        BY <3>3, <3>4, BeginsKeeps
      <4> QED
        BY <4>1, <3>2, <1>2 DEF IsRequest, ThreadAt, RequestPlaces
    <3>5. CASE BeginThread(drops)
      <4>1. \E t \in PluginThreads : /\ thread[t] = NoThread /\ thread'[t] = drops
                                     /\ \A u \in PluginThreads \ {t} : thread'[u] = thread[u]
        BY <3>3, <3>5, BeginsKeeps
      <4> QED
        BY <4>1, <3>2, <1>2 DEF IsRequest, ThreadAt, RequestPlaces
    <3> QED
      BY <3>1, <3>4, <3>5
  <2>2. CASE Restart(p)
    <3> DEFINE boots == [NoThread EXCEPT !.at = "boot", !.p = p, !.then = "subscribe"]
    <3>1. PICK boot \in PluginThreads :
             /\ ThreadIdle(boot) \/ thread[boot].p = p
             /\ thread' = [t \in PluginThreads |-> IF t = boot THEN boots
                                                   ELSE IF thread[t].p = p THEN NoThread ELSE thread[t]]
      BY <2>2 DEF Restart
    <3>2. boots.at = "boot" /\ boots.p = p
      BY DEF NoThread
    <3> HIDE DEF boots
    <3>3. \A u \in PluginThreads : thread'[u] = (IF u = boot THEN boots
                                                 ELSE IF thread[u].p = p THEN NoThread ELSE thread[u])
      BY <3>1
    <3>4. thread[boot].p # q
      BY <3>1, <1>2 DEF ObjectsKnown, ThreadKnown, ThreadIdle, ThreadAt
    <3> QED
      BY <3>2, <3>3, <3>4, <1>2 DEF IsRequest, ThreadAt, RequestPlaces
  <2> QED
    BY <2>1, <2>2
<1>4. \A u \in PluginThreads :
         \/ thread'[u] = thread[u]
         \/ /\ thread[u].p # q /\ thread'[u].p # q
            /\ IsRequest(u)' => /\ IsRequest(u)
                                /\ Renews(u)' => Renews(u)
                                /\ ThreadAt(u, "record")' => codeDir[HostOf[q]].hash # thread'[u].item.version
  BY <1>3
<1> QED
  BY <1>1, <1>4, OthersSound

\* An administrator asks when nothing goes on.
LEMMA QuietAgrees ==
    ASSUME PluginTypeOK, ObjectsKnown, PluginsQuiet, NEW q \in Processes, ProcessSound(q)
    PROVE  OwnThreads(q) = {} /\ chan[q] = <<>> /\ Agrees(q) /\ \A u \in PluginThreads : thread[u] = NoThread
<1>1. \A u \in PluginThreads : thread[u] = NoThread
  BY DEF PluginsQuiet, ThreadIdle, ThreadAt, ObjectsKnown, ThreadKnown
<1>2. OwnThreads(q) = {}
  <2>1. NoThread.p # q
    BY PluginsAssumption DEF NoThread
  <2> QED
    BY <1>1, <2>1 DEF OwnThreads
<1>3. chan[q] = <<>>
  BY DEF PluginsQuiet
<1>4. Agrees(q)
  BY <1>2, <1>3 DEF ProcessSound
<1> QED
  BY <1>1, <1>2, <1>3, <1>4

\* A new request, for the other processes and for its own.
LEMMA OthersOfRequest ==
    ASSUME PluginTypeOK, ObjectsKnown, PluginsQuiet, NEW p \in Processes, NEW new \in PluginThread,
           new.p = p, new.at # "record", BeginThread(new),
           NEW q \in Processes, q # p, ProcessSound(q), SameMemory(q), chan'[q] = chan[q], row' = row,
           codeDir' = codeDir, subscribed[q], new.at = "build" \/ new.then = "place" => CanRenew(q),
           new.at # "place"
    PROVE  ProcessSound(q)'
<1>1. /\ OwnThreads(q) = {} /\ chan[q] = <<>> /\ Agrees(q)
      /\ \A u \in PluginThreads : thread[u] = NoThread
  BY QuietAgrees
<1>2. PICK t \in PluginThreads : /\ thread'[t] = new
                                 /\ \A u \in PluginThreads \ {t} : thread'[u] = thread[u]
  BY BeginsKeeps
<1>3. NoThread.at = "idle" /\ NoThread.p # q /\ NoThread.then = ""
  BY PluginsAssumption DEF NoThread
<1>4. OwnThreads(q)' = {}
  BY <1>1, <1>2, <1>3 DEF OwnThreads
<1>5. Agrees(q)' /\ (CanRenew(q) => CanRenew(q)')
  BY <1>1, SameViews
<1>6. \A u \in PluginThreads : ~ThreadAt(u, "record")' /\ (Renews(u)' => CanRenew(q)')
  BY <1>1, <1>2, <1>3, <1>5 DEF Renews, ThreadAt
<1>7. subscribed'[q] = TRUE /\ chan'[q] = <<>>
  BY <1>1 DEF SameMemory, PluginTypeOK
<1> QED
  BY <1>4, <1>5, <1>6, <1>7, NoHandler

LEMMA OwnOfRequest ==
    ASSUME PluginTypeOK, ObjectsKnown, PluginsQuiet, NEW p \in Processes, NEW new \in PluginThread,
           new.p = p, BeginThread(new), new.then # "subscribe", subscribed'[p], PluginTypeOK',
           chan' = chan,
           \A t \in PluginThreads : thread'[t] = new => HandlerSound(t)'
    PROVE  ProcessSound(p)'
<1>1. \A u \in PluginThreads : thread[u] = NoThread
  BY DEF PluginsQuiet, ThreadIdle, ThreadAt, ObjectsKnown, ThreadKnown
<1>2. PICK t \in PluginThreads : /\ thread'[t] = new
                                 /\ \A u \in PluginThreads \ {t} : thread'[u] = thread[u]
  BY BeginsKeeps
<1>3. NoThread.at = "idle" /\ NoThread.p # p
  BY PluginsAssumption DEF NoThread
<1>4. OwnThreads(p)' = {t} /\ \A u \in PluginThreads : IsRequest(u)' => u = t
  BY <1>1, <1>2, <1>3 DEF OwnThreads, IsRequest, ThreadAt, RequestPlaces
<1>5. subscribed'[p] = TRUE /\ chan'[p] = <<>>
  BY DEF PluginTypeOK, PluginsQuiet
<1>6. subscribed'[p] = (thread'[t].then # "subscribe")
  BY <1>2, <1>5
<1>7. HandlerSound(t)'
  BY <1>2
<1> QED
  BY <1>4, <1>5, <1>6, <1>7, OneHandler

LEMMA SoundDelivered ==
    ASSUME PluginTypeOK, ObjectsKnown, NEW p \in Processes, ProcessSound(p), Deliver(p)
    PROVE  ProcessSound(p)'
<1> DEFINE n == current[p]  handler == [NoThread EXCEPT !.p = p, !.obj = n]
           reads == [handler EXCEPT !.at = "row"]
           drops == [handler EXCEPT !.at = "deinit", !.then = "drop"]
<1>1. /\ OwnThreads(p) = {} /\ chan[p] \in {<<"init">>, <<"delete">>}
      /\ \A u \in PluginThreads : ~IsRequest(u)
  BY DEF ProcessSound, Deliver
<1>2. subscribed'[p] = TRUE
  <2>1. subscribed[p] = (\A u \in OwnThreads(p) : thread[u].then # "subscribe") /\ UNCHANGED subscribed
    BY DEF ProcessSound, Deliver
  <2>2. \A u \in OwnThreads(p) : thread[u].then # "subscribe"
    BY <1>1
  <2> QED
    BY <2>1, <2>2, Zenon
<1>3. chan'[p] = <<>>
  <2>1. chan'[p] = Tail(chan[p])
    BY DEF Deliver, PluginTypeOK
  <2>2. chan[p] \in Seq({"init", "delete"}) /\ chan[p] # <<>> /\ Len(chan[p]) = 1
    <3>1. Len(<<"init">>) = 1 /\ Len(<<"delete">>) = 1 /\ <<>> # <<"init">> /\ <<>> # <<"delete">>
      OBVIOUS
    <3>2. chan[p] # <<>> /\ Len(chan[p]) = 1
      BY <1>1, <3>1
    <3> QED
      BY <3>2 DEF PluginTypeOK
  <2>3. Tail(chan[p]) \in Seq({"init", "delete"}) /\ Len(Tail(chan[p])) = 0
    BY <2>2, HeadTailProperties
  <2> QED
    BY <2>1, <2>3, EmptySeq
<1>4. UNCHANGED <<row, codeDir, routes, triggers, cached>>
  BY DEF Deliver
<1>5. n \in Nat /\ (n # 0 => n \in 1 .. Len(objs[p]))
  BY ProcessTypes
<1>6. /\ reads \in PluginThread /\ drops \in PluginThread
      /\ reads.at = "row" /\ reads.p = p /\ reads.then = "" /\ reads.obj = n
      /\ drops.at = "deinit" /\ drops.p = p /\ drops.then = "drop" /\ drops.obj = n
  BY <1>5, ValueTypes DEF PluginThread, PluginPlaces, NoThread
<1>7. NoThread.at = "idle" /\ NoThread.p # p
  BY PluginsAssumption DEF NoThread
<1>8. ASSUME NEW new \in PluginThread, BeginThread(new), new.p = p, new.then # "subscribe",
             new.at \notin RequestPlaces, new.then \notin {"place", "erase"},
             \A t \in PluginThreads : thread'[t] = new => HandlerSound(t)'
      PROVE  ProcessSound(p)'
  <2>1. PICK t \in PluginThreads : /\ thread[t] = NoThread /\ thread'[t] = new
                                   /\ \A u \in PluginThreads \ {t} : thread'[u] = thread[u]
    BY <1>8, BeginsKeeps
  <2>2. OwnThreads(p)' = {t}
    BY <2>1, <1>1, <1>8 DEF OwnThreads
  <2>3. \A u \in PluginThreads : ~IsRequest(u)'
    BY <2>1, <1>1, <1>8 DEF IsRequest, ThreadAt
  <2>4. subscribed'[p] = (thread'[t].then # "subscribe")
    BY <2>1, <1>2, <1>8
  <2> QED
    BY <2>1, <2>2, <2>3, <2>4, <1>3, <1>8, OneHandler
<1>9. CASE chan[p] = <<"init">>
  <2>1. BeginThread(reads) /\ UNCHANGED <<objs, current>>
    BY <1>9 DEF Deliver
  <2>2. CanLoad(p)'
    <3>1. CanLoad(p)
      BY <1>9 DEF ProcessSound
    <3> QED
      BY <3>1, <2>1, <1>4 DEF CanLoad, Settled, Unregistered, FolderIsWhole
  <2> HIDE DEF reads
  <2>3. ASSUME NEW t \in PluginThreads, thread'[t] = reads PROVE HandlerSound(t)'
    BY <2>1, <2>2, <2>3, <1>6 DEF HandlerSound, ThreadAt, FolderPlaces
  <2> QED
    BY <2>1, <2>3, <1>6, <1>8 DEF RequestPlaces
<1>10. CASE chan[p] = <<"delete">>
  <2>1. Settled(p) /\ row.there = FALSE
    <3>1. <<"delete">> # <<"init">>
      OBVIOUS
    <3> QED
      BY <3>1, <1>10 DEF ProcessSound, PluginTypeOK, PluginRow
  <2>2. Head(chan[p]) = "delete"
    BY <1>10
  <2>3. CASE n # 0 /\ objs[p][n].initialized
    <3>1. /\ objs' = [objs EXCEPT ![p][n] = StoppedObj(objs[p][n])] /\ UNCHANGED current
          /\ BeginThread(drops)
      BY <2>2, <2>3 DEF Deliver
    <3> HIDE DEF drops
    <3>2. ASSUME NEW t \in PluginThreads, thread'[t] = drops PROVE HandlerSound(t)'
      <4>1. Stopping(t)'
        BY <2>1, <2>3, <3>1, <3>2, <1>4, <1>6, SoundStop
      <4> QED
        BY <4>1, <2>1, <3>2, <1>4, <1>6 DEF HandlerSound, ThreadAt, FolderPlaces
    <3> QED
      BY <3>1, <3>2, <1>6, <1>8 DEF RequestPlaces
  <2>4. CASE ~(n # 0 /\ objs[p][n].initialized)
    <3>1. current' = [current EXCEPT ![p] = 0] /\ UNCHANGED <<objs, thread>>
      BY <2>2, <2>4 DEF Deliver
    <3>2. current'[p] = 0
      BY <3>1 DEF PluginTypeOK
    <3>3. Unregistered(p)'
      BY <2>1, <2>4, <1>4 DEF Settled, Unregistered
    <3>4. Agrees(p)'
      BY <2>1, <3>2, <3>3, <1>4 DEF Agrees, Settled
    <3>5. OwnThreads(p)' = {} /\ \A u \in PluginThreads : ~IsRequest(u)'
      BY <3>1, <1>1 DEF OwnThreads, IsRequest, ThreadAt
    <3>6. \A u \in PluginThreads : ~ThreadAt(u, "record")'
      BY <3>5 DEF IsRequest, ThreadAt, RequestPlaces
    <3> QED
      BY <3>4, <3>5, <3>6, <1>2, <1>3, NoHandler
  <2> QED
    BY <2>3, <2>4
<1> QED
  BY <1>1, <1>9, <1>10

LEMMA SoundRestarted ==
    ASSUME PluginTypeOK, ObjectsKnown, NEW p \in Processes, p \notin astray', Restart(p),
           p \notin astray => ProcessSound(p)
    PROVE  ProcessSound(p)'
<1> DEFINE boots == [NoThread EXCEPT !.at = "boot", !.p = p, !.then = "subscribe"]
<1>1. PluginsQuiet /\ (row.there => FolderIsWhole(HostOf[p]))
  <2>1. astray' = IF \E t \in PluginThreads : thread[t].p = p /\ Changing(t) THEN AllProcesses
                  ELSE IF ~PluginsQuiet THEN astray \cup {p}
                  ELSE IF row.there => FolderIsWhole(HostOf[p]) THEN astray \ {p} ELSE astray
    BY DEF Restart
  <2>2. p \in AllProcesses
    BY DEF AllProcesses
  <2>3. PluginsQuiet
    BY <2>1, <2>2
  <2>4. ASSUME p \notin astray PROVE row.there => FolderIsWhole(HostOf[p])
    <3>1. Agrees(p)
      BY <2>3, <2>4, QuietAgrees
    <3> QED
      BY <3>1 DEF Agrees
  <2> QED
    BY <2>1, <2>2, <2>3, <2>4
<1>2. \A u \in PluginThreads : thread[u] = NoThread
  BY <1>1 DEF PluginsQuiet, ThreadIdle, ThreadAt, ObjectsKnown, ThreadKnown
<1>3. NoThread.at = "idle" /\ NoThread.p # p
  BY PluginsAssumption DEF NoThread
<1>4. PICK boot \in PluginThreads :
         thread' = [t \in PluginThreads |-> IF t = boot THEN boots
                                            ELSE IF thread[t].p = p THEN NoThread ELSE thread[t]]
  BY DEF Restart
<1>5. boots.at = "boot" /\ boots.p = p /\ boots.then = "subscribe"
  BY DEF NoThread
<1> HIDE DEF boots
<1>6. thread'[boot] = boots /\ \A u \in PluginThreads \ {boot} : thread'[u] = NoThread
  BY <1>2, <1>4
<1>7. OwnThreads(p)' = {boot}
  BY <1>3, <1>5, <1>6 DEF OwnThreads
<1>8. \A u \in PluginThreads : ~IsRequest(u)'
  BY <1>3, <1>5, <1>6 DEF IsRequest, ThreadAt, RequestPlaces
<1>9. /\ objs'[p] = <<>> /\ routes'[p] = {} /\ triggers'[p] = 0 /\ cached'[p] = 0 /\ chan'[p] = <<>>
      /\ subscribed'[p] = FALSE /\ row' = row /\ codeDir' = codeDir
  BY DEF Restart, PluginTypeOK
<1>10. HandlerSound(boot)'
  BY <1>1, <1>5, <1>6, <1>9 DEF HandlerSound, ThreadAt, FolderPlaces, Unregistered, FolderIsWhole
<1>11. subscribed'[p] = (thread'[boot].then # "subscribe")
  BY <1>5, <1>6, <1>9
<1> QED
  BY <1>7, <1>8, <1>9, <1>10, <1>11, OneHandler

LEMMA SoundDeleting ==
    ASSUME PluginTypeOK, PluginTypeOK', ObjectsKnown, NEW p \in Processes, Delete(p),
           NEW q \in Processes, ProcessSound(q)
    PROVE  ProcessSound(q)'
<1> DEFINE n == current[p]
           new == [NoThread EXCEPT !.p = p, !.at = "deinit", !.then = "erase", !.obj = n]
<1>1. /\ PluginsQuiet /\ subscribed[p] /\ n # 0 /\ BeginThread(new)
      /\ objs' = [objs EXCEPT ![p][n] = StoppedObj(objs[p][n])]
      /\ UNCHANGED <<row, codeDir, current, routes, triggers, cached, chan, subscribed>>
  BY DEF Delete, AskPluginNow
<1>2. /\ new \in PluginThread /\ new.p = p /\ new.at = "deinit" /\ new.then = "erase" /\ new.obj = n
  <2>1. n \in Nat
    BY ProcessTypes
  <2> QED
    BY <2>1, ValueTypes DEF PluginThread, PluginPlaces, NoThread
<1> HIDE DEF new
<1>3. OwnThreads(q) = {} /\ Agrees(q)
  BY <1>1, QuietAgrees
<1>4. subscribed[q]
  BY <1>3 DEF ProcessSound
<1>5. CASE q # p
  <2>1. SameMemory(q)
    BY <1>5, MemoryOfProcess DEF ProcessSteps
  <2> QED
    BY <2>1, <1>1, <1>2, <1>4, <1>5, OthersOfRequest
<1>6. CASE q = p
  <2>1. /\ Settled(p) /\ row.there = TRUE /\ objs[p][n].path
        /\ objs[p][n].initialized = row.active /\ objs[p][n].response = row.active
        /\ row.active \in BOOLEAN
    BY <1>1, <1>3, <1>6 DEF Agrees, PluginTypeOK, PluginRow
  <2>2. ASSUME NEW t \in PluginThreads, thread'[t] = new PROVE HandlerSound(t)'
    <3>1. Stopping(t)'
      BY <2>1, <2>2, <1>1, <1>2, SoundStop
    <3> QED
      BY <3>1, <2>1, <2>2, <1>1, <1>2 DEF HandlerSound, ThreadAt, FolderPlaces
  <2> QED
    BY <2>2, <1>1, <1>2, <1>6, OwnOfRequest
<1> QED
  BY <1>5, <1>6

LEMMA SoundUploading ==
    ASSUME OwnFolders, {"module", "host"} \subseteq Excused, PluginTypeOK, PluginTypeOK', ObjectsKnown,
           VersionsKnown, NEW p \in Processes, NEW update \in BOOLEAN, Upload(p, update),
           NEW q \in Processes \ astray', ProcessSound(q)
    PROVE  ProcessSound(q)'
<1> DEFINE new == [NoThread EXCEPT !.p = p, !.at = "build", !.obj = IF update THEN current[p] ELSE 0]
           behind == {r \in Processes : cached[r] # 0 /\ \/ current[r] = 0
                                                         \/ r # p /\ ~objs[r][current[r]].active}
           away == {r \in Processes : /\ HostOf[r] # HostOf[p]
                                      /\ \/ ~codeDir[HostOf[r]].there
                                         \/ \E o \in Processes \ {r} : HostOf[o] = HostOf[r]}
<1>1. /\ PluginsQuiet /\ subscribed[p] /\ BeginThread(new) /\ asked["upload"] > 0
      /\ UNCHANGED <<memory, row, codeDir, chan, subscribed>>
  BY DEF Upload, AskPluginNow, AskPlugin
<1>2. q \notin behind /\ q \notin away
  BY DEF Upload, ExcuseProcesses
<1>3. /\ new \in PluginThread /\ new.p = p /\ new.at = "build" /\ new.then = ""
      /\ new.obj \in {0, current[p]}
  <2>1. current[p] \in Nat
    BY ProcessTypes
  <2> QED
    BY <2>1, ValueTypes DEF PluginThread, PluginPlaces, RequestPlaces, NoThread
<1> HIDE DEF new
<1>4. OwnThreads(q) = {} /\ Agrees(q)
  BY <1>1, QuietAgrees
<1>5. subscribed[q]
  BY <1>4 DEF ProcessSound
<1>6. CASE q # p
  <2>1. HostOf[q] # HostOf[p]
    BY <1>1, <1>6 DEF OwnFolders, VersionsKnown
  <2>2. CanRenew(q)
    BY <2>1, <1>2, <1>6 DEF CanRenew
  <2>3. SameMemory(q)
    BY <1>6, MemoryOfProcess DEF ProcessSteps
  <2> QED
    BY <2>2, <2>3, <1>1, <1>3, <1>5, <1>6, OthersOfRequest
<1>7. CASE q = p
  <2>1. current[p] = 0 => cached[p] = 0
    BY <1>2, <1>7
  <2>2. Agrees(p)'
    BY <1>1, <1>4, <1>7 DEF memory, Agrees, Settled, Unregistered, FolderIsWhole
  <2>3. ASSUME NEW t \in PluginThreads, thread'[t] = new PROVE HandlerSound(t)'
    BY <2>1, <2>2, <2>3, <1>1, <1>3 DEF HandlerSound, ThreadAt, FolderPlaces, memory
  <2> QED
    BY <2>3, <1>1, <1>3, <1>7, OwnOfRequest
<1> QED
  BY <1>6, <1>7

LEMMA EditedKeeps ==
    ASSUME PluginTypeOK, NEW p \in Processes, NEW n \in 1 .. Len(objs[p]), NEW v \in SecretValue,
           ChangesObj(p, n, EditedObj(objs[p][n], v))
    PROVE  /\ objs'[p][n].initialized = objs[p][n].initialized
           /\ objs'[p][n].path = objs[p][n].path /\ objs'[p][n].response = objs[p][n].response
<1> DEFINE o == EditedObj(objs[p][n], v)
<1>1. objs[p][n] \in PluginObject
  BY ObjectsThere
<1>2. o \in PluginObject
  BY <1>1, ValueTypes
<1>3. /\ o.initialized = objs[p][n].initialized /\ o.path = objs[p][n].path
      /\ o.response = objs[p][n].response
  BY <1>1 DEF EditedObj, PluginObject
<1>4. ChangesObj(p, n, o)
  OBVIOUS
<1> HIDE DEF o
<1>5. objs'[p][n] = o
  BY <1>2, <1>4, ObjectChanged
<1> QED
  BY <1>3, <1>5

\* The handlers of an update have the process's object.
LEMMA SoundRequest ==
    ASSUME NEW t \in PluginThreads, NEW p \in Processes, thread'[t].p = p, thread'[t].at \in {"conf", "active"},
           thread'[t].obj = current'[p], row'.there, CanLoad(p)'
    PROVE  HandlerSound(t)'
BY DEF HandlerSound, ThreadAt, FolderPlaces

LEMMA SoundUpdating ==
    ASSUME PluginTypeOK, PluginTypeOK', ObjectsKnown, NEW p \in Processes, NEW active \in BOOLEAN,
           NEW more \in BOOLEAN, NEW value \in ShownSecrets \cup {Plain(s) : s \in Secrets},
           Update(p, active, value, more), NEW q \in Processes, ProcessSound(q)
    PROVE  ProcessSound(q)'
<1> DEFINE n == current[p]  both == SavesBoth(p, n, active, EditedObj(objs[p][n], value).stored)
           one == SavesActive(p, n, active)
<1>1. /\ PluginsQuiet /\ subscribed[p] /\ n # 0
      /\ UNCHANGED <<row, codeDir, current, routes, triggers, cached, chan, subscribed>>
  BY DEF Update, AskPluginNow
<1>2. value \in SecretValue /\ n \in 1 .. Len(objs[p]) /\ objs[p][n] \in PluginObject
  BY AskedValues, UpdateSteps
<1>3. /\ both \in PluginThread /\ both.p = p /\ both.at = "conf" /\ both.then = "" /\ both.obj = n
      /\ one \in PluginThread /\ one.p = p /\ one.at = "active" /\ one.then = "" /\ one.obj = n
  <2>1. EditedObj(objs[p][n], value) \in PluginObject
    BY <1>2, ValueTypes
  <2>2. EditedObj(objs[p][n], value).stored \in SecretValue
    BY <2>1 DEF PluginObject
  <2>3. NoThread.item \in PluginRow /\ NoThread \in PluginThread /\ n \in Nat
    <3>1. NoThread \in PluginThread /\ n \in Nat
      BY ValueTypes, ProcessTypes
    <3> QED
      BY <3>1 DEF PluginThread
  <2> QED
    BY <2>2, <2>3 DEF SavesBoth, SavesActive, PluginThread, PluginPlaces, RequestPlaces, PluginRow, NoThread
<1>4. \/ ChangesObj(p, n, EditedObj(objs[p][n], value)) /\ BeginThread(both)
      \/ /\ ChangesObj(p, n, SwitchedObj(objs[p][n], active))
         /\ (objs[p][n].active = active /\ UNCHANGED thread) \/ BeginThread(one)
  BY UpdateSteps DEF ChangesObj
<1> HIDE DEF both, one
<1>5. OwnThreads(q) = {} /\ chan[q] = <<>> /\ Agrees(q) /\ \A u \in PluginThreads : thread[u] = NoThread
  BY <1>1, QuietAgrees
<1>6. subscribed[q]
  BY <1>5 DEF ProcessSound
<1>7. NoThread.at = "idle"
  BY DEF NoThread
<1>8. CASE q # p
  <2>1. SameMemory(q)
    BY <1>8, MemoryOfProcess DEF ProcessSteps
  <2>2. ASSUME NEW new \in {both, one}, BeginThread(new) PROVE ProcessSound(q)'
    BY <2>1, <2>2, <1>1, <1>3, <1>6, <1>8, OthersOfRequest
  <2>3. CASE UNCHANGED thread
    <3>1. Agrees(q)'
      BY <2>1, <1>1, <1>5, SameViews
    <3>2. OwnThreads(q)' = {} /\ \A u \in PluginThreads : ~ThreadAt(u, "record")' /\ ~IsRequest(u)'
      BY <2>3, <1>5, <1>7 DEF OwnThreads, ThreadAt, IsRequest, RequestPlaces
    <3>3. subscribed'[q] = TRUE /\ chan'[q] = <<>>
      BY <1>1, <1>5, <1>6 DEF PluginTypeOK
    <3> QED
      BY <3>1, <3>2, <3>3, NoHandler
  <2> QED
    BY <2>2, <2>3, <1>4
<1>9. CASE q = p
  <2>1. CanLoad(p) /\ row.there
    BY <1>1, <1>5, <1>9, AgreesLoads DEF Agrees
  <2>2. /\ objs'[p][n].initialized = objs[p][n].initialized
        /\ objs'[p][n].path = objs[p][n].path /\ objs'[p][n].response = objs[p][n].response
    BY <1>2, <1>4, EditedKeeps, SwitchedKeeps
  <2>3. CanLoad(p)' /\ row'.there /\ current'[p] = n
    BY <2>1, <2>2, <1>1, CanStillLoad
  <2>4. ASSUME NEW new \in {both, one}, BeginThread(new) PROVE ProcessSound(q)'
    <3>1. ASSUME NEW t \in PluginThreads, thread'[t] = new PROVE HandlerSound(t)'
      BY <2>3, <2>4, <3>1, <1>3, SoundRequest
    <3> QED
      BY <3>1, <2>4, <1>1, <1>3, <1>9, OwnOfRequest
  <2>5. CASE /\ ChangesObj(p, n, SwitchedObj(objs[p][n], active)) /\ objs[p][n].active = active
             /\ UNCHANGED thread
    <3>1. /\ objs'[p][n].code = objs[p][n].code /\ objs'[p][n].conf = objs[p][n].conf
          /\ objs'[p][n].active = objs[p][n].active
      BY <2>5, <1>2, SwitchedKeeps
    <3>2. Settled(p)'
      BY <2>2, <1>1, <1>5, <1>9 DEF Agrees, Settled, Unregistered
    <3>3. Agrees(p)'
      BY <2>2, <3>1, <3>2, <1>1, <1>5, <1>9 DEF Agrees, FolderIsWhole
    <3>4. OwnThreads(q)' = {} /\ \A u \in PluginThreads : ~ThreadAt(u, "record")' /\ ~IsRequest(u)'
      BY <2>5, <1>5, <1>7 DEF OwnThreads, ThreadAt, IsRequest, RequestPlaces
    <3>5. subscribed'[q] = TRUE /\ chan'[q] = <<>>
      BY <1>1, <1>5, <1>6 DEF PluginTypeOK
    <3> QED
      BY <3>3, <3>4, <3>5, <1>9, NoHandler
  <2> QED
    BY <2>4, <2>5, <1>4
<1> QED
  BY <1>8, <1>9

\* Every step.
LEMMA SoundOfStep ==
    ASSUME OwnFolders, PluginTypeOK, ObjectsKnown, VersionsKnown, OneRequest, NEW t \in PluginThreads,
           PluginStep(t), NEW q \in Processes \ astray', ProcessSound(q), q \notin astray
    PROVE  ProcessSound(q)'
<1>1. CASE Publishes(t)
  BY <1>1, SoundSaved, SoundRecorded, SoundErased DEF Publishes
<1>2. CASE ~Publishes(t) /\ q # thread[t].p
  BY <1>2, OthersOfStep
<1>3. CASE ~Publishes(t) /\ q = thread[t].p
  <2>1. CASE ClearFolder(t) \/ Install(t) \/ WriteHash(t)
    BY <2>1, <1>3, SoundFolder
  <2>2. CASE Load(t)
    BY <2>2, <1>3, SoundLoad
  <2>3. CASE InitFails(t)
    BY <2>3 DEF InitFails, ExcuseProcesses, AllProcesses
  <2>4. CASE FinishDeinit(t)
    BY <2>4, <1>3, SoundDeinit
  <2>5. CASE ReadRow(t)
    BY <2>5, <1>3, SoundReadRow
  <2>9. CASE DeinitFails(t)
    BY <2>9, <1>3 DEF DeinitFails, ExcuseProcesses
  <2>6. CASE LoadFromDB(t) \/ Subscribe(t)
    BY <2>6, <1>3, SoundStart
  <2>7. CASE Build(t)
    BY <2>7, <1>3, SoundBuild
  <2>8. CASE Invalid(t) \/ Place(t)
    BY <2>8, <1>3, SoundPlace
  <2> QED
    BY <2>1, <2>2, <2>3, <2>4, <2>5, <2>6, <2>7, <2>8, <2>9, <1>3 DEF PluginStep, Publishes
<1> QED
  BY <1>1, <1>2, <1>3

LEMMA SoundOfProcess ==
    ASSUME OwnFolders, {"module", "host"} \subseteq Excused, PluginTypeOK, PluginTypeOK', ObjectsKnown,
           VersionsKnown, NEW p \in Processes, ProcessSteps(p), NEW q \in Processes \ astray',
           q \notin astray => ProcessSound(q)
    PROVE  ProcessSound(q)'
<1>1. q \in astray => Restart(p) /\ q = p
  <2>1. CASE Restart(p)
    <3>1. \/ astray' = AllProcesses \/ astray' = astray \cup {p} \/ astray' = astray \ {p} \/ astray' = astray
      BY <2>1 DEF Restart
    <3> QED
      BY <2>1, <3>1 DEF AllProcesses
  <2>2. CASE Deliver(p) \/ Delete(p)
    BY <2>2 DEF Deliver, Delete
  <2>3. CASE \E update \in BOOLEAN : Upload(p, update)
    BY <2>3 DEF Upload, ExcuseProcesses
  <2>4. ASSUME NEW active \in BOOLEAN, NEW more \in BOOLEAN,
               NEW value \in ShownSecrets \cup {Plain(s) : s \in Secrets}, Update(p, active, value, more)
        PROVE  astray \subseteq astray'
    BY <2>4 DEF Update, ExcuseProcesses
  <2> QED
    BY <2>1, <2>2, <2>3, <2>4 DEF ProcessSteps
<1>2. CASE Restart(p) /\ q = p
  BY <1>2, SoundRestarted
<1>3. CASE ProcessSound(q) /\ q # p /\ Restart(p)
  BY <1>3, OthersOfDeliver
<1>4. CASE ProcessSound(q) /\ Deliver(p)
  <2>1. CASE q = p
    BY <2>1, <1>4, SoundDelivered
  <2>2. CASE q # p
    BY <2>2, <1>4, OthersOfDeliver
  <2> QED
    BY <2>1, <2>2
<1>5. CASE ProcessSound(q) /\ Delete(p)
  BY <1>5, SoundDeleting
<1>6. CASE ProcessSound(q) /\ \E update \in BOOLEAN : Upload(p, update)
  BY <1>6, SoundUploading
<1>7. CASE /\ ProcessSound(q)
           /\ \E active, more \in BOOLEAN, value \in ShownSecrets \cup {Plain(s) : s \in Secrets} :
                 Update(p, active, value, more)
  BY <1>7, SoundUpdating
<1> QED
  BY <1>1, <1>2, <1>3, <1>4, <1>5, <1>6, <1>7 DEF ProcessSteps

-----------------------------------------------------------------------------
(* All together. *)

LEMMA AgreeStart == PluginInit => AgreeInv
<1> SUFFICES ASSUME PluginInit PROVE AgreeInv
  OBVIOUS
<1>1. PICK there \in BOOLEAN :
         /\ row = [InstalledRow EXCEPT !.there = there]
         /\ codeDir = [h \in Hosts |-> IF there THEN [there |-> TRUE, code |-> 1, hash |-> 1] ELSE NoFolder]
         /\ objs = [p \in Processes |-> IF there THEN <<RunningPlugin>> ELSE <<>>]
         /\ current = [p \in Processes |-> IF there THEN 1 ELSE 0]
         /\ routes = [p \in Processes |-> IF there THEN {1} ELSE {}]
         /\ triggers = [p \in Processes |-> IF there THEN 1 ELSE 0]
         /\ cached = [p \in Processes |-> IF there THEN 1 ELSE 0]
         /\ chan = [p \in Processes |-> <<>>] /\ subscribed = [p \in Processes |-> TRUE]
         /\ thread = [t \in PluginThreads |-> NoThread]
         /\ made = 1 /\ typed = "" /\ astray = {} /\ asked \in PluginBudgets
  BY DEF PluginInit
<1>2. typed = ""
  BY <1>1, Zenon
<1>3. made = 1 /\ astray = {} /\ asked \in PluginBudgets
  BY <1>1, Zenon
<1>4. /\ current = [p \in Processes |-> IF there THEN 1 ELSE 0]
       /\ routes = [p \in Processes |-> IF there THEN {1} ELSE {}]
       /\ triggers = [p \in Processes |-> IF there THEN 1 ELSE 0]
       /\ cached = [p \in Processes |-> IF there THEN 1 ELSE 0]
       /\ subscribed = [p \in Processes |-> TRUE] /\ thread = [t \in PluginThreads |-> NoThread]
       /\ chan = [p \in Processes |-> <<>>]
       /\ objs = [p \in Processes |-> IF there THEN <<RunningPlugin>> ELSE <<>>]
  BY <1>1, Zenon
<1>5. \A p \in Processes :
         /\ current[p] = (IF there THEN 1 ELSE 0) /\ routes[p] = (IF there THEN {1} ELSE {})
         /\ triggers[p] = (IF there THEN 1 ELSE 0) /\ cached[p] = (IF there THEN 1 ELSE 0)
         /\ subscribed[p] = TRUE /\ chan[p] = <<>>
         /\ objs[p] = (IF there THEN <<RunningPlugin>> ELSE <<>>)
  BY <1>4
<1>6. NoThread.at = "idle" /\ NoThread.then = "" /\ NoThread.item.version = 1 /\ NoThread.p \notin Processes
  BY PluginsAssumption DEF NoThread, InstalledRow
<1>7. \A t \in PluginThreads : thread[t] = NoThread
  BY <1>4
<1>8. row.there = there /\ row.active = TRUE /\ row.version = 1 /\ row.conf = EmptySecret
  BY <1>1 DEF InstalledRow
<1>9. \A h \in Hosts : codeDir[h] = IF there THEN [there |-> TRUE, code |-> 1, hash |-> 1]
                                   ELSE [there |-> FALSE, code |-> 0, hash |-> 0]
  BY <1>1 DEF NoFolder
<1>10. PluginTypeOK /\ ObjectsKnown
  <2>1. InstalledRow \in PluginRow /\ NoThread \in PluginThread /\ NewPlugin(InstalledRow) \in PluginObject
    BY ValueTypes
  <2>2. row \in PluginRow
    BY <2>1, <1>1 DEF PluginRow
  <2>3. RunningPlugin \in PluginObject
    BY <2>1 DEF RunningPlugin, PluginObject
  <2>4. objs \in [Processes -> Seq(PluginObject)]
    <3>1. <<>> \in Seq(PluginObject) /\ <<RunningPlugin>> \in Seq(PluginObject)
      BY <2>3
    <3> QED
      BY <3>1, <1>4
  <2>5. codeDir \in [Hosts -> Folder]
    BY <1>1 DEF Folder, NoFolder
  <2>6. /\ current \in [Processes -> Nat] /\ routes \in [Processes -> SUBSET Nat]
        /\ triggers \in [Processes -> Nat] /\ cached \in [Processes -> Nat]
        /\ subscribed \in [Processes -> BOOLEAN] /\ thread \in [PluginThreads -> PluginThread]
    BY <2>1, <1>4
  <2>7. chan \in [Processes -> Seq({"init", "delete"})]
    <3>1. <<>> \in Seq({"init", "delete"})
      OBVIOUS
    <3> QED
      BY <3>1, <1>4
  <2>8. asked \in [PluginOps -> Nat] /\ astray \subseteq AllProcesses /\ made \in Nat \ {0}
    BY <1>3, PluginsAssumption
  <2>9. typed \in SecretText
    BY <1>2 DEF SecretText
  <2>10. \A p \in Processes : current[p] \in 0 .. Len(objs[p])
    <3>1. Len(<<RunningPlugin>>) = 1 /\ Len(<<>>) = 0
      OBVIOUS
    <3> QED
      BY <3>1, <1>4
  <2>11. ObjectsKnown
    BY <2>10, <1>6, <1>7 DEF ObjectsKnown, ThreadKnown
  <2> QED
    BY <2>2, <2>4, <2>5, <2>6, <2>7, <2>8, <2>11, <2>9 DEF PluginTypeOK
<1>11. VersionsKnown
  <2>1. \A h \in Hosts : codeDir[h].hash <= made /\ (codeDir[h].there => codeDir[h].hash = 1)
    BY <1>3, <1>9
  <2>2. NoUploads => asked["upload"] = 0
    BY <1>3 DEF NoUploads
  <2>3. row.there => \A h \in Hosts : codeDir[h] = [there |-> TRUE, code |-> 1, hash |-> 1]
    BY <1>8, <1>9
  <2>4. \A t \in PluginThreads : thread[t].item.version = 1 /\ thread[t].at = "idle" /\ thread[t].then = ""
    BY <1>6, <1>7
  <2>5. \A t \in PluginThreads :
           /\ thread[t].item.version <= made /\ thread[t].at = "idle" /\ thread[t].then = ""
    <3>1. \A t \in PluginThreads : thread[t].item.version = 1
      BY <2>4
    <3>2. \A t \in PluginThreads : thread[t].item.version <= made
      BY <1>3, <3>1
    <3> QED
      BY <2>4, <3>2
  <2>6. row.version <= made /\ made = 1
    BY <1>3, <1>8
  <2> QED
    BY <2>1, <2>2, <2>3, <2>5, <2>6 DEF VersionsKnown
<1>12. OneRequest /\ \A t \in PluginThreads : ~IsRequest(t)
  BY <1>6, <1>7 DEF OneRequest, IsRequest, ThreadAt, RequestPlaces
<1>13. ASSUME NEW p \in Processes PROVE ProcessSound(p)
  <2>1. OwnThreads(p) = {}
    BY <1>6, <1>7 DEF OwnThreads
  <2>2. chan[p] = <<>> /\ subscribed[p] = TRUE /\ HostOf[p] \in Hosts
    BY <1>5, PluginsAssumption
  <2>3. Agrees(p)
    <3>1. CASE ~there
      <4>1. current[p] = 0 /\ routes[p] = {} /\ triggers[p] = 0 /\ row.there = FALSE
        BY <3>1, <1>5, <1>8
      <4> QED
        BY <4>1 DEF Agrees, Settled, Unregistered
    <3>2. CASE there
      <4>1. /\ current[p] = 1 /\ routes[p] = {1} /\ triggers[p] = 1 /\ row.there = TRUE /\ cached[p] = 1
            /\ objs[p] = <<RunningPlugin>>
        BY <3>2, <1>5, <1>8
      <4>2. objs[p][1] = RunningPlugin
        BY <4>1
      <4>3. /\ RunningPlugin.initialized /\ RunningPlugin.path /\ RunningPlugin.response = TRUE
            /\ RunningPlugin.initialized = TRUE /\ RunningPlugin.active = TRUE /\ RunningPlugin.code = 1
            /\ RunningPlugin.conf = EmptySecret
        BY DEF RunningPlugin, NewPlugin, InstalledRow
      <4>4. DecryptSecret(EmptySecret, TRUE) = EmptySecret
        BY DEF DecryptSecret, EmptySecret, Plain
      <4>5. FolderIsWhole(HostOf[p])
        BY <3>2, <2>2, <1>8, <1>9 DEF FolderIsWhole
      <4>6. Settled(p)
        BY <4>1, <4>2, <4>3 DEF Settled
      <4>7. current[p] # 0 /\ row.there = TRUE
        BY <4>1
      <4>8. (current[p] # 0) = row.there
        BY <4>7
      <4>9. /\ objs[p][current[p]].initialized = row.active /\ objs[p][current[p]].response = row.active
            /\ objs[p][current[p]].active = row.active /\ objs[p][current[p]].path
            /\ objs[p][current[p]].code = row.version
            /\ objs[p][current[p]].conf = DecryptSecret(row.conf, TRUE) /\ cached[p] = row.version
        BY <4>1, <4>2, <4>3, <4>4, <1>8
      <4> QED
        BY <4>5, <4>6, <4>8, <4>9 DEF Agrees
    <3> QED
      BY <3>1, <3>2
  <2>4. subscribed[p] = (\A t \in OwnThreads(p) : thread[t].then # "subscribe")
    BY <2>1, <2>2, Zenon
  <2>5. <<>> # <<"init">> /\ <<>> # <<"delete">>
    OBVIOUS
  <2> QED
    BY <2>1, <2>2, <2>3, <2>4, <2>5, <1>12 DEF ProcessSound
<1> QED
  BY <1>10, <1>11, <1>12, <1>13 DEF AgreeInv

\* Every step of the module.
LEMMA AgreeStep ==
    ASSUME OwnFolders, {"pair", "module", "host"} \subseteq Excused, AgreeInv, [PluginNext]_pluginVars
    PROVE  AgreeInv'
<1>1. /\ PluginTypeOK /\ ObjectsKnown /\ VersionsKnown /\ OneRequest
      /\ \A q \in Processes \ astray : ProcessSound(q)
  BY DEF AgreeInv
<1>2. PluginTypeOK' /\ ObjectsKnown'
  BY <1>1, PluginShape
<1>3. ASSUME NEW t \in PluginThreads, PluginStep(t) PROVE AgreeInv'
  <2>1. VersionsKnown' /\ OneRequest'
    BY <1>1, <1>2, <1>3, VersionsOfStep, RequestOfStep
  <2>2. astray \subseteq astray'
    BY <1>1, <1>3, StepMemory
  <2>3. \A q \in Processes \ astray' : ProcessSound(q)'
    BY <2>2, <1>1, <1>3, SoundOfStep
  <2> QED
    BY <2>1, <2>3, <1>2 DEF AgreeInv
<1>4. ASSUME NEW p \in Processes, ProcessSteps(p) PROVE AgreeInv'
  <2>1. VersionsKnown' /\ OneRequest'
    BY <1>1, <1>2, <1>4, VersionsOfProcess, RequestOfProcess
  <2>2. \A q \in Processes \ astray' : ProcessSound(q)'
    BY <1>1, <1>2, <1>4, SoundOfProcess
  <2> QED
    BY <2>1, <2>2, <1>2 DEF AgreeInv
<1>5. CASE UNCHANGED pluginVars
  <2>1. UNCHANGED <<row, codeDir, objs, current, routes, triggers, cached, chan, subscribed, thread, made, astray,
                    asked>>
    BY <1>5 DEF pluginVars
  <2>2. VersionsKnown'
    BY <2>1, <1>1 DEF VersionsKnown
  <2>3. OneRequest'
    BY <2>1, <1>1 DEF OneRequest, IsRequest, ThreadAt, ThreadObj
  <2>4. ASSUME NEW q \in Processes \ astray' PROVE ProcessSound(q)'
    <3>1. ProcessSound(q) /\ SameMemory(q)
      BY <2>1, <2>4, <1>1 DEF SameMemory
    <3> QED
      BY <3>1, <2>1, OthersSound
  <2> QED
    BY <2>2, <2>3, <2>4, <1>2 DEF AgreeInv
<1> QED
  BY <1>3, <1>4, <1>5 DEF PluginNext, ProcessSteps

LEMMA AgreeSuffices == AgreeInv => PluginsAgree
<1> SUFFICES ASSUME AgreeInv, PluginsQuiet, NEW p \in Processes \ astray
             PROVE  LET n == current[p]  runs == row.there /\ row.active
                    IN  /\ (n # 0) = row.there
                        /\ routes[p] = (IF runs THEN {n} ELSE {})
                        /\ triggers[p] = (IF runs THEN 1 ELSE 0)
                        /\ row.there => /\ objs[p][n].initialized = row.active
                                        /\ objs[p][n].code = row.version
                                        /\ objs[p][n].conf = DecryptSecret(row.conf, TRUE)
  BY DEF PluginsAgree
<1>1. Agrees(p)
  BY QuietAgrees DEF AgreeInv
<1>2. row.there \in BOOLEAN /\ row.active \in BOOLEAN
  BY DEF AgreeInv, PluginTypeOK, PluginRow
<1> QED
  BY <1>1, <1>2 DEF Agrees, Settled, Unregistered

(***************************************************************************)
(* When all messages of the redis channel are handled, every process runs   *)
(* what the plugin's row says, registered once (plugin.js), for any number  *)
(* of processes, threads and requests.  Left out are the processes that the *)
(* known violations concern, and hosts whose processes share a folder that  *)
(* an upload changes.                                                       *)
(***************************************************************************)
THEOREM ProcessesRunTheRow ==
    ASSUME OwnFolders, {"pair", "module", "host"} \subseteq Excused
    PROVE  Spec => []PluginsAgree
<1>1. Init => AgreeInv
  BY AgreeStart DEF Init
<1>2. AgreeInv /\ [Next]_vars => AgreeInv'
  <2> SUFFICES ASSUME AgreeInv, [Next]_vars PROVE AgreeInv'
    OBVIOUS
  <2>1. [PluginNext]_pluginVars
    BY DEF Next, vars
  <2> QED
    BY <2>1, AgreeStep
<1> QED
  BY <1>1, <1>2, AgreeSuffices, PTL DEF Spec

-----------------------------------------------------------------------------
(* The secret: what each step does to the row, to the objects and to what handlers carry. *)

\* What encryption and decryption do to a value twice.
LEMMA SecretsDecrypt ==
    \A v \in SecretValue :
        /\ DecryptSecret(DecryptSecret(v, TRUE), TRUE) = DecryptSecret(v, TRUE)
        /\ HasSecret(v) => v.kind # "placeholder"
        /\ v.kind # "placeholder" =>
              DecryptSecret(EncryptSecret(v, TRUE), TRUE) = DecryptSecret(v, TRUE)
<1> SUFFICES ASSUME NEW v \in SecretValue
             PROVE  /\ DecryptSecret(DecryptSecret(v, TRUE), TRUE) = DecryptSecret(v, TRUE)
                    /\ HasSecret(v) => v.kind # "placeholder"
                    /\ v.kind # "placeholder" =>
                          DecryptSecret(EncryptSecret(v, TRUE), TRUE) = DecryptSecret(v, TRUE)
  OBVIOUS
<1>1. DecryptSecret(DecryptSecret(v, TRUE), TRUE) = DecryptSecret(v, TRUE)
  BY DEF DecryptSecret, Plain
<1>2. HasSecret(v) => v.kind # "placeholder"
  BY DEF HasSecret, DecryptSecret, Plain
<1>3. v.kind # "placeholder" => DecryptSecret(EncryptSecret(v, TRUE), TRUE) = DecryptSecret(v, TRUE)
  <2>1. CASE v.kind = "enc" \/ v = EmptySecret
    BY <2>1 DEF EncryptSecret
  <2>2. CASE v.kind = "plain" /\ v # EmptySecret
    <3>1. EncryptSecret(v, TRUE) = Cipher(v.text)
      BY <2>2 DEF EncryptSecret
    <3>2. DecryptSecret(Cipher(v.text), TRUE) = Plain(v.text)
      BY DEF DecryptSecret, Cipher, Plain
    <3>3. v = Plain(v.text) /\ DecryptSecret(v, TRUE) = v
      BY <2>2 DEF SecretValue, Plain, DecryptSecret
    <3> QED
      BY <3>1, <3>2, <3>3
  <2> QED
    BY <2>1, <2>2 DEF SecretValue
<1> QED
  BY <1>1, <1>2, <1>3

\* A step that changes one object changes no other, and no list.
LEMMA ObjectSwapped ==
    ASSUME PluginTypeOK, NEW p \in Processes, NEW n \in 1 .. Len(objs[p]), NEW o \in PluginObject,
           ChangesObj(p, n, o)
    PROVE  /\ \A q \in Processes : Len(objs'[q]) = Len(objs[q]) /\ (q # p => objs'[q] = objs[q])
           /\ objs'[p][n] = o /\ \A m \in 1 .. Len(objs[p]) : m # n => objs'[p][m] = objs[p][m]
<1>1. objs' = [objs EXCEPT ![p][n] = o]
  BY DEF ChangesObj
<1>2. \A q \in Processes : Len(objs'[q]) = Len(objs[q]) /\ (q # p => objs'[q] = objs[q])
  BY <1>1, ObjectChanges
<1> QED
  BY <1>2, ObjectChanged

\* Two objects with the same configuration.
SameSecret(o, o2) == o2.stored = o.stored /\ o2.conf = o.conf /\ o2.desc = o.desc

LEMMA ObjectsKeepSecrets ==
    /\ \A o \in PluginObject : SameSecret(o, StoppedObj(o)) /\ SameSecret(o, OffObj(o)) /\ SameSecret(o, o)
    /\ \A o \in PluginObject, b \in BOOLEAN : SameSecret(o, SwitchedObj(o, b))
    /\ \A o \in PluginObject, code \in Nat :
          /\ LoadedObj(o, code).stored = o.stored /\ LoadedObj(o, code).desc = TRUE
          /\ LoadedObj(o, code).conf = DecryptSecret(o.conf, TRUE)
    /\ \A item \in PluginRow : /\ NewPlugin(item).stored = item.conf /\ NewPlugin(item).conf = item.conf
                               /\ NewPlugin(item).desc = FALSE
<1>1. \A o \in PluginObject : SameSecret(o, StoppedObj(o)) /\ SameSecret(o, OffObj(o)) /\ SameSecret(o, o)
  BY DEF SameSecret, StoppedObj, OffObj, PluginObject
<1>2. \A o \in PluginObject, b \in BOOLEAN : SameSecret(o, SwitchedObj(o, b))
  BY DEF SameSecret, SwitchedObj, PluginObject
<1>3. ASSUME NEW o \in PluginObject, NEW code \in Nat
      PROVE  /\ LoadedObj(o, code).stored = o.stored /\ LoadedObj(o, code).desc = TRUE
             /\ LoadedObj(o, code).conf = DecryptSecret(o.conf, TRUE)
  <2>1. RequiredObj(o) \in PluginObject
    BY ValueTypes
  <2>2. /\ RequiredObj(o).stored = o.stored /\ RequiredObj(o).desc = TRUE
        /\ RequiredObj(o).conf = DecryptSecret(o.conf, TRUE)
    BY DEF RequiredObj, PluginObject
  <2> QED
    BY <2>1, <2>2 DEF LoadedObj, PluginObject
<1>4. \A item \in PluginRow : /\ NewPlugin(item).stored = item.conf /\ NewPlugin(item).conf = item.conf
                               /\ NewPlugin(item).desc = FALSE
  BY DEF NewPlugin
<1> QED
  BY <1>1, <1>2, <1>3, <1>4

\* A step that changes no configuration of an object, nor a handler that loads one.
LEMMA DecryptsStay ==
    ASSUME ObjectsDecrypt, NEW t \in PluginThreads, \A u \in PluginThreads \ {t} : thread'[u] = thread[u],
           ~ThreadAt(t, "folder"),
           \A q \in Processes : /\ Len(objs'[q]) = Len(objs[q])
                                /\ \A m \in 1 .. Len(objs[q]) : SameSecret(objs[q][m], objs'[q][m])
    PROVE  ObjectsDecrypt'
<1> SUFFICES ASSUME NEW q \in Processes, NEW m \in 1 .. Len(objs'[q]) PROVE ObjectDecrypts(q, m)'
  BY DEF ObjectsDecrypt
<1>1. m \in 1 .. Len(objs[q]) /\ SameSecret(objs[q][m], objs'[q][m])
  OBVIOUS
<1>2. ObjectDecrypts(q, m)
  BY <1>1 DEF ObjectsDecrypt
<1>3. WillLoad(q, m) => WillLoad(q, m)'
  BY DEF WillLoad, ThreadAt
<1> QED
  BY <1>1, <1>2, <1>3 DEF ObjectDecrypts, SameSecret

\* A handler lists a new object, and goes on to load it.
LEMMA DecryptsListed ==
    ASSUME ObjectsDecrypt, NEW t \in PluginThreads, \A u \in PluginThreads \ {t} : thread'[u] = thread[u],
           ~ThreadAt(t, "folder"), NEW p \in Processes, NEW item \in PluginRow,
           \A q \in Processes : q # p => objs'[q] = objs[q],
           Len(objs[p]) \in Nat, Len(objs'[p]) = Len(objs[p]) + 1,
           objs'[p][Len(objs[p]) + 1] = NewPlugin(item),
           \A m \in 1 .. Len(objs[p]) : SameSecret(objs[p][m], objs'[p][m]),
           thread'[t].at = "folder", thread'[t].p = p, thread'[t].obj = Len(objs[p]) + 1
    PROVE  ObjectsDecrypt'
<1> SUFFICES ASSUME NEW q \in Processes, NEW m \in 1 .. Len(objs'[q]) PROVE ObjectDecrypts(q, m)'
  BY DEF ObjectsDecrypt
<1>1. WillLoad(q, m) => WillLoad(q, m)'
  BY DEF WillLoad, ThreadAt
<1>2. CASE q # p
  <2>1. objs'[q] = objs[q] /\ ObjectDecrypts(q, m)
    BY <1>2 DEF ObjectsDecrypt
  <2> QED
    BY <2>1, <1>1 DEF ObjectDecrypts
<1>3. CASE q = p /\ m \in 1 .. Len(objs[p])
  <2>1. SameSecret(objs[q][m], objs'[q][m]) /\ ObjectDecrypts(q, m)
    BY <1>3 DEF ObjectsDecrypt
  <2> QED
    BY <2>1, <1>1 DEF ObjectDecrypts, SameSecret
<1>4. CASE q = p /\ m = Len(objs[p]) + 1
  <2>1. /\ objs'[q][m].stored = item.conf /\ objs'[q][m].conf = item.conf /\ objs'[q][m].desc = FALSE
    BY <1>4, ObjectsKeepSecrets
  <2>2. WillLoad(q, m)'
    BY <1>4 DEF WillLoad, ThreadAt
  <2> QED
    BY <2>1, <2>2 DEF ObjectDecrypts
<1> QED
  BY <1>2, <1>3, <1>4

\* What a step of another process does not change.
LEMMA StillKnows ==
    ASSUME NEW q \in Processes, KnowsSecret(q), typed' = typed, chan[q] # <<>> => chan'[q] # <<>>,
           objs'[q][current'[q]].stored = objs[q][current[q]].stored,
           NEW t \in PluginThreads, \A u \in PluginThreads \ {t} : thread'[u] = thread[u],
           thread[t].p # q \/ thread[t].at \notin {"row", "deinit"} \/ (ThreadAt(t, "deinit") /\ ~TakesRow(t))
    PROVE  KnowsSecret(q)'
BY DEF KnowsSecret, HasSecret, TakesRow, ThreadAt

\* While a handler is at work that saves no configuration, none is saved.
LEMMA NoneSaves ==
    ASSUME SavesSecret, NEW t \in PluginThreads, thread[t].at \notin {"idle", "conf"},
           \A u \in PluginThreads \ {t} : thread'[u] = thread[u], thread'[t].at # "conf"
    PROVE  /\ \A u \in PluginThreads : ~ThreadAt(u, "conf")
           /\ \A u \in PluginThreads : ~ThreadAt(u, "conf")'
           /\ SavesSecret'
<1>1. \A u \in PluginThreads : ~ThreadAt(u, "conf")
  BY DEF SavesSecret, ThreadAt, ThreadIdle
<1>2. \A u \in PluginThreads : ~ThreadAt(u, "conf")'
  BY <1>1 DEF ThreadAt
<1> QED
  BY <1>1, <1>2 DEF SavesSecret

\* Folders, lists and channels that stay in use.
LEMMA LoadsStay ==
    ASSUME OnlyLoads, row'.version = row.version, UNCHANGED <<codeDir, subscribed>>,
           \A q \in Processes : current'[q] # 0 /\ chan'[q] \in Seq({"init"}),
           NEW t \in PluginThreads, \A u \in PluginThreads \ {t} : thread'[u] = thread[u],
           thread'[t].item.version = 1, thread'[t].then \in {"", "new", "erase"},
           thread'[t].at \in {"idle", "row", "deinit", "folder", "conf", "active", "erase"}
    PROVE  OnlyLoads'
BY DEF OnlyLoads

\* What is known of the thread of a step, of its object and of the processes.
LEMMA StepOfLoads ==
    ASSUME PluginTypeOK, ObjectsKnown, OnlyLoads, NEW t \in PluginThreads, PluginStep(t)
    PROVE  /\ thread[t].p \in Processes /\ HostOf[thread[t].p] \in Hosts
           /\ thread[t].at \in {"row", "deinit", "folder", "conf", "active", "erase"}
           /\ thread[t].at # "row" => /\ thread[t].obj \in 1 .. Len(objs[thread[t].p])
                                      /\ objs[thread[t].p][thread[t].obj] \in PluginObject
           /\ thread[t].obj \in 0 .. Len(objs[thread[t].p])
           /\ thread[t].then \in {"", "new", "erase"} /\ thread[t] \in PluginThread
           /\ thread[t].at \in {"row", "folder", "conf", "active"} => thread[t].then = ""
           /\ thread[t].at = "deinit" => thread[t].then \in {"new", "erase"}
           /\ \A u \in PluginThreads \ {t} : thread'[u] = thread[u]
           /\ thread'[t].at # "conf"
<1> DEFINE p == thread[t].p  n == thread[t].obj
<1>1. ThreadSteps(t) /\ thread[t] \in PluginThread
  BY StepThreads DEF PluginTypeOK
<1>2. /\ thread[t].at # "idle" /\ p \in Processes /\ \A u \in PluginThreads \ {t} : thread'[u] = thread[u]
      /\ thread'[t].at # "conf"
  BY <1>1 DEF ThreadSteps, ThreadAt
<1>3. /\ thread[t].at \in {"row", "deinit", "folder", "conf", "active", "erase"}
      /\ thread[t].then \in {"", "new", "erase"}
  BY <1>2 DEF OnlyLoads
<1>4. ThreadKnown(thread[t])
  BY DEF ObjectsKnown
<1>5. n \in 0 .. Len(objs[p]) /\ (thread[t].at # "row" => n # 0)
      /\ (thread[t].at \in {"row", "folder", "conf", "active"} => thread[t].then = "")
      /\ (thread[t].at = "deinit" => thread[t].then \in {"new", "erase"})
  BY <1>2, <1>3, <1>4 DEF ThreadKnown, FolderPlaces
<1>6. Len(objs[p]) \in Nat
  BY <1>2, LengthsAreNat
<1>7. thread[t].at # "row" => n \in 1 .. Len(objs[p])
  BY <1>5, <1>6, InRangeOne
<1>8. thread[t].at # "row" => objs[p][n] \in PluginObject
  BY <1>2, <1>7, ObjectsThere
<1>9. HostOf[p] \in Hosts
  BY <1>2, PluginsAssumption
<1> QED
  BY <1>1, <1>2, <1>3, <1>5, <1>7, <1>8, <1>9

\* What an empty thread is, for all that follows.
LEMMA EmptyThread ==
    /\ NoThread.at = "idle" /\ NoThread.then = "" /\ NoThread.item.version = 1 /\ NoThread.obj = 0
    /\ NoThread.p \notin Processes
BY PluginsAssumption DEF NoThread, InstalledRow

\* The secrets that are held, after a step of t that saves none.
LEMMA HoldsAfter ==
    ASSUME SavesSecret, HoldsSecret, NEW t \in PluginThreads, thread[t].at \notin {"idle", "conf"},
           \A u \in PluginThreads \ {t} : thread'[u] = thread[u], thread'[t].at # "conf",
           typed' = typed, row'.conf = row.conf,
           TakesRow(t)' => HasSecret(thread[t].item.conf)',
           \A q \in Processes : KnowsSecret(q) => KnowsSecret(q)'
    PROVE  HoldsSecret'
<1>1. /\ \A u \in PluginThreads : ~ThreadAt(u, "conf")
      /\ \A u \in PluginThreads : ~ThreadAt(u, "conf")'
  BY NoneSaves
<1>2. /\ HasSecret(row.conf)
      /\ \A u \in PluginThreads : TakesRow(u) => HasSecret(thread[u].item.conf)
      /\ \A q \in Processes : KnowsSecret(q)
  BY <1>1 DEF HoldsSecret
<1>3. HasSecret(row.conf)'
  BY <1>2 DEF HasSecret
<1>4. \A u \in PluginThreads \ {t} : TakesRow(u)' => HasSecret(thread[u].item.conf)'
  BY <1>2 DEF HasSecret, TakesRow, ThreadAt
<1>5. \A u \in PluginThreads : TakesRow(u)' => HasSecret(thread[u].item.conf)'
  BY <1>4
<1> QED
  BY <1>2, <1>3, <1>5 DEF HoldsSecret

\* A step of t that changes one object of its process, and no configuration.
LEMMA KnowsAfter ==
    ASSUME PluginTypeOK, ObjectsKnown, OnlyLoads, NEW t \in PluginThreads, NEW p \in Processes,
           \A u \in PluginThreads \ {t} : thread'[u] = thread[u], UNCHANGED <<current, typed>>,
           \A q \in Processes : chan[q] # <<>> => chan'[q] # <<>>,
           \A q \in Processes : \A m \in 1 .. Len(objs[q]) : objs'[q][m].stored = objs[q][m].stored,
           thread[t].at \notin {"row", "deinit"} \/ (ThreadAt(t, "deinit") /\ ~TakesRow(t))
    PROVE  \A q \in Processes : KnowsSecret(q) => KnowsSecret(q)'
<1> SUFFICES ASSUME NEW q \in Processes, KnowsSecret(q) PROVE KnowsSecret(q)'
  OBVIOUS
<1>1. current[q] \in 1 .. Len(objs[q])
  BY ProcessTypes DEF OnlyLoads
<1>2. objs'[q][current'[q]].stored = objs[q][current[q]].stored
  BY <1>1
<1> QED
  BY <1>2, StillKnows

LEMMA SecretOfLoad ==
    ASSUME PluginTypeOK, ObjectsKnown, SecretSound, NEW t \in PluginThreads, Load(t)
    PROVE  SecretSound'
<1> DEFINE p == thread[t].p  n == thread[t].obj
<1>1. OnlyLoads /\ SavesSecret /\ HoldsSecret /\ ObjectsDecrypt /\ PluginStep(t)
  BY DEF SecretSound, PluginStep
<1>2. /\ p \in Processes /\ HostOf[p] \in Hosts /\ \A u \in PluginThreads \ {t} : thread'[u] = thread[u]
      /\ thread[t].at \in {"row", "deinit", "folder", "conf", "active", "erase"}
      /\ thread[t].at # "row" => n \in 1 .. Len(objs[p]) /\ objs[p][n] \in PluginObject
      /\ thread[t].at = "folder" => thread[t].then = ""
  BY <1>1, StepOfLoads, Zenon
<1>3. thread[t].at = "folder"
  BY <1>2 DEF Load, ReadyToLoad, ThreadAt
<1>4. n \in 1 .. Len(objs[p]) /\ objs[p][n] \in PluginObject /\ thread[t].then = ""
  BY <1>2, <1>3
<1>5. codeDir[HostOf[p]].code = 1 /\ row.version = 1
  <2>1. codeDir[HostOf[p]] = [there |-> TRUE, code |-> 1, hash |-> 1] /\ row.version = 1
    BY <1>1, <1>2, Zenon DEF OnlyLoads
  <2> QED
    BY <2>1
<1>6. PICK code : /\ code = (IF cached[p] = 0 THEN 1 ELSE cached[p])
                  /\ objs' = [objs EXCEPT ![p][n] = LoadedObj(objs[p][n], code)]
                  /\ current' = current /\ ThreadDone(t)
                  /\ UNCHANGED <<row, codeDir, chan, subscribed, made, typed, asked, astray>>
  BY SMTT(20), <1>5 DEF Load, ThreadHost, outside
<1>7. code \in Nat
  BY <1>2, <1>6 DEF PluginTypeOK
<1>8. LoadedObj(objs[p][n], code) \in PluginObject
  BY <1>4, <1>7, ValueTypes
<1>9. thread'[t] = NoThread
  BY <1>6, <1>4, DoneKeeps
<1> DEFINE o2 == LoadedObj(objs[p][n], code)
<1>10. /\ \A q \in Processes : Len(objs'[q]) = Len(objs[q]) /\ (q # p => objs'[q] = objs[q])
      /\ objs'[p][n] = o2 /\ \A m \in 1 .. Len(objs[p]) : m # n => objs'[p][m] = objs[p][m]
  <2> HIDE DEF o2
  <2>1. o2 \in PluginObject /\ ChangesObj(p, n, o2)
    BY <1>6, <1>8 DEF o2, ChangesObj
  <2>2. p \in Processes /\ n \in 1 .. Len(objs[p])
    BY <1>2, <1>4
  <2> HIDE DEF p, n
  <2> QED
    BY <2>1, <2>2, ObjectSwapped
<1>11. /\ o2.stored = objs[p][n].stored /\ o2.desc = TRUE
       /\ o2.conf = DecryptSecret(objs[p][n].conf, TRUE)
  BY <1>4, <1>7, ObjectsKeepSecrets
<1> HIDE DEF o2
<1>12. SavesSecret'
  BY <1>1, <1>2, <1>3, <1>9, EmptyThread, NoneSaves
<1>13. OnlyLoads'
  <2>1. \A q \in Processes : current'[q] # 0 /\ chan'[q] \in Seq({"init"})
    BY <1>1, <1>6 DEF OnlyLoads
  <2> QED
    BY <2>1, <1>1, <1>2, <1>6, <1>9, EmptyThread, LoadsStay
<1>14. \A q \in Processes : \A m \in 1 .. Len(objs[q]) : objs'[q][m].stored = objs[q][m].stored
  BY <1>10, <1>11
<1>15. HoldsSecret'
  <2>1. \A q \in Processes : KnowsSecret(q) => KnowsSecret(q)'
    BY <1>1, <1>2, <1>3, <1>6, <1>14, KnowsAfter
  <2>2. ~TakesRow(t)'
    BY <1>9, EmptyThread DEF TakesRow, ThreadAt
  <2> QED
    BY <2>1, <2>2, <1>1, <1>2, <1>3, <1>6, <1>9, EmptyThread, HoldsAfter
<1>16. ObjectsDecrypt'
  <2> SUFFICES ASSUME NEW q \in Processes, NEW m \in 1 .. Len(objs'[q]) PROVE ObjectDecrypts(q, m)'
    BY DEF ObjectsDecrypt
  <2>1. m \in 1 .. Len(objs[q]) /\ ObjectDecrypts(q, m)
    BY <1>1, <1>10 DEF ObjectsDecrypt
  <2>2. CASE q = p /\ m = n
    <3>1. objs[p][n].conf \in SecretValue /\ objs[p][n].stored \in SecretValue
      BY <1>4 DEF PluginObject
    <3>2. o2.conf = DecryptSecret(objs[p][n].stored, TRUE)
      BY <3>1, <2>1, <2>2, <1>11, SecretsDecrypt DEF ObjectDecrypts
    <3> QED
      BY <3>2, <2>2, <1>10, <1>11 DEF ObjectDecrypts
  <2>3. CASE ~(q = p /\ m = n)
    <3>1. objs'[q][m] = objs[q][m]
      BY <2>1, <2>3, <1>10
    <3>2. WillLoad(q, m) => WillLoad(q, m)'
      BY <2>3, <1>2 DEF WillLoad, ThreadAt
    <3> QED
      BY <3>1, <3>2, <2>1 DEF ObjectDecrypts
  <2> QED
    BY <2>2, <2>3
<1> QED
  BY <1>12, <1>13, <1>15, <1>16 DEF SecretSound

\* A handler that starts to load the object it has listed.
LEMMA ThreadStarts ==
    ASSUME PluginTypeOK, NEW t \in PluginThreads, ThreadMoves(t, StartingObj(t))
    PROVE  /\ thread'[t].at = "folder" /\ thread'[t].then = "" /\ thread'[t].p = thread[t].p
           /\ thread'[t].obj = Len(objs[thread[t].p]) + 1 /\ thread'[t].item = thread[t].item
           /\ \A u \in PluginThreads \ {t} : thread'[u] = thread[u]
<1> DEFINE new == StartingObj(t)  n == Len(objs[thread[t].p]) + 1
<1>1. thread \in [PluginThreads -> PluginThread] /\ thread[t] \in PluginThread
  BY DEF PluginTypeOK
<1>2. /\ new.at = "folder" /\ new.then = "" /\ new.p = thread[t].p
      /\ new.obj = n /\ new.item = thread[t].item
  <2> HIDE DEF n
  <2>1. new = [thread[t] EXCEPT !.at = "folder", !.then = "", !.obj = n]
    BY DEF StartingObj, n
  <2> QED
    BY <2>1, <1>1 DEF PluginThread
<1>3. thread' = [thread EXCEPT ![t] = new]
  BY DEF ThreadMoves
<1> HIDE DEF new
<1> QED
  BY <1>1, <1>2, <1>3

\* It goes on with what it has read, if it has read the row.
LEMMA ThreadStartsWith ==
    ASSUME PluginTypeOK, NEW t \in PluginThreads, NEW item,
           ThreadMoves(t, [StartingObj(t) EXCEPT !.item = item])
    PROVE  /\ thread'[t].at = "folder" /\ thread'[t].then = "" /\ thread'[t].p = thread[t].p
           /\ thread'[t].obj = Len(objs[thread[t].p]) + 1 /\ thread'[t].item = item
<1> DEFINE new == [StartingObj(t) EXCEPT !.item = item]  n == Len(objs[thread[t].p]) + 1
<1>1. thread \in [PluginThreads -> PluginThread] /\ thread[t] \in PluginThread
  BY DEF PluginTypeOK
<1>2. /\ new.at = "folder" /\ new.then = "" /\ new.p = thread[t].p
      /\ new.obj = n /\ new.item = item
  <2> HIDE DEF n
  <2>1. new = [thread[t] EXCEPT !.at = "folder", !.then = "", !.obj = n, !.item = item]
    BY <1>1 DEF StartingObj, n, PluginThread
  <2> HIDE DEF new
  <2> QED
    BY <2>1, <1>1 DEF PluginThread
<1>3. thread' = [thread EXCEPT ![t] = new]
  BY DEF ThreadMoves
<1> HIDE DEF new
<1> QED
  BY <1>1, <1>2, <1>3

\* An object is stopped or switched, and keeps its configuration.
LEMMA SecretStays ==
    ASSUME PluginTypeOK, NEW p \in Processes, NEW n \in 1 .. Len(objs[p]), NEW o \in PluginObject,
           objs' = [objs EXCEPT ![p][n] = o], SameSecret(objs[p][n], o)
    PROVE  \A q \in Processes : /\ Len(objs'[q]) = Len(objs[q])
                                /\ \A m \in 1 .. Len(objs[q]) : SameSecret(objs[q][m], objs'[q][m])
<1>1. ChangesObj(p, n, o)
  BY DEF ChangesObj
<1>2. /\ \A q \in Processes : Len(objs'[q]) = Len(objs[q]) /\ (q # p => objs'[q] = objs[q])
      /\ objs'[p][n] = o /\ \A m \in 1 .. Len(objs[p]) : m # n => objs'[p][m] = objs[p][m]
  BY <1>1, ObjectSwapped
<1> QED
  BY <1>2 DEF SameSecret

LEMMA SuccessorIsSome == \A k \in Nat : k + 1 # 0
OBVIOUS

\* A handler lists an object with the secret, and goes on to load it.
LEMMA SecretOfListing ==
    ASSUME PluginTypeOK, SecretSound, NEW t \in PluginThreads, thread[t].at \notin {"idle", "conf", "folder"},
           \A u \in PluginThreads \ {t} : thread'[u] = thread[u], NEW p \in Processes, thread[t].p = p,
           NEW item \in PluginRow, item.version = 1, HasSecret(item.conf),
           UNCHANGED <<row, codeDir, chan, subscribed, typed>>,
           \A q \in Processes : q # p => objs'[q] = objs[q] /\ current'[q] = current[q],
           current'[p] = Len(objs[p]) + 1, Len(objs'[p]) = Len(objs[p]) + 1,
           objs'[p][Len(objs[p]) + 1] = NewPlugin(item),
           \A m \in 1 .. Len(objs[p]) : SameSecret(objs[p][m], objs'[p][m]),
           thread'[t].at = "folder", thread'[t].then = "", thread'[t].p = p,
           thread'[t].obj = Len(objs[p]) + 1, thread'[t].item = item
    PROVE  SecretSound'
<1>1. OnlyLoads /\ SavesSecret /\ HoldsSecret /\ ObjectsDecrypt
  BY DEF SecretSound
<1>2. Len(objs[p]) \in Nat /\ Len(objs[p]) + 1 # 0
  <2>1. Len(objs[p]) \in Nat
    BY LengthsAreNat
  <2>2. \A k \in Nat : k + 1 # 0
    BY SuccessorIsSome
  <2> QED
    BY <2>1, <2>2, Zenon
<1>3. SavesSecret'
  BY <1>1, NoneSaves
<1>4. OnlyLoads'
  <2>1. \A q \in Processes : current'[q] # 0
    <3>1. \A q \in Processes : current[q] # 0
      BY <1>1 DEF OnlyLoads
    <3> QED
      BY <3>1, <1>2, Zenon
  <2>2. \A q \in Processes : chan'[q] \in Seq({"init"})
    BY <1>1 DEF OnlyLoads
  <2> QED
    BY <2>1, <2>2, <1>1, LoadsStay
<1>5. HoldsSecret'
  <2>1. ASSUME NEW q \in Processes, KnowsSecret(q) PROVE KnowsSecret(q)'
    <3>1. CASE q # p
      <4>1. objs'[q][current'[q]].stored = objs[q][current[q]].stored
        BY <3>1
      <4>2. thread[t].p # q
        BY <3>1, Zenon
      <4>3. typed' = typed /\ chan' = chan
        OBVIOUS
      <4> QED
        BY <4>1, <4>2, <4>3, <2>1, StillKnows, Zenon
    <3>2. CASE q = p
      <4>1. objs'[q][current'[q]] = NewPlugin(item)
        BY <3>2, Zenon
      <4>2. objs'[q][current'[q]].stored = item.conf
        BY <4>1, ObjectsKeepSecrets, Zenon
      <4>3. HasSecret(objs[q][current[q]].stored)'
        BY <4>2 DEF HasSecret
      <4> QED
        BY <4>3 DEF KnowsSecret
    <3> QED
      BY <3>1, <3>2
  <2>2. ~TakesRow(t)'
    BY DEF TakesRow, ThreadAt
  <2> QED
    BY <2>1, <2>2, <1>1, HoldsAfter
<1>6. ObjectsDecrypt'
  <2>1. ~ThreadAt(t, "folder")
    BY DEF ThreadAt
  <2> QED
    BY <2>1, <1>1, <1>2, DecryptsListed
<1> QED
  BY <1>3, <1>4, <1>5, <1>6 DEF SecretSound

LEMMA SecretOfDeinit ==
    ASSUME PluginTypeOK, ObjectsKnown, SecretSound, NEW t \in PluginThreads,
           FinishDeinit(t) \/ DeinitFails(t)
    PROVE  SecretSound'
<1> DEFINE p == thread[t].p  n == thread[t].obj
           new == NewPlugin(thread[t].item)
<1>1. OnlyLoads /\ SavesSecret /\ HoldsSecret /\ ObjectsDecrypt /\ PluginStep(t)
  BY DEF SecretSound, PluginStep
<1>2. /\ p \in Processes /\ \A u \in PluginThreads \ {t} : thread'[u] = thread[u]
      /\ thread[t].at # "row" => n \in 1 .. Len(objs[p]) /\ objs[p][n] \in PluginObject
      /\ thread[t].at = "deinit" => thread[t].then \in {"new", "erase"}
      /\ thread[t] \in PluginThread
  BY <1>1, StepOfLoads, Zenon
<1>3. /\ thread[t].at = "deinit" /\ n \in 1 .. Len(objs[p]) /\ objs[p][n] \in PluginObject
      /\ thread[t].then \in {"new", "erase"}
      /\ UNCHANGED <<row, codeDir, chan, subscribed, made, typed>>
  BY <1>2, DeinitEnds
<1> PICK off \in Seq(PluginObject) :
      /\ Len(off) = Len(objs[p]) /\ AfterDeinit(t, off)
      /\ \A m \in 1 .. Len(objs[p]) : off[m] = objs[p][m] \/ (m = n /\ off[m] = OffObj(objs[p][m]))
  BY DeinitEnds
<1>4. /\ thread[t].then = "new" => /\ objs' = [objs EXCEPT ![p] = Append(off, new)]
                                   /\ current' = [current EXCEPT ![p] = Len(off) + 1]
                                   /\ ThreadMoves(t, StartingObj(t))
      /\ thread[t].then = "erase" => /\ objs' = [objs EXCEPT ![p] = off] /\ current' = current
                                     /\ ThreadGoes(t, "erase")
  BY <1>3 DEF AfterDeinit
<1> HIDE DEF new
<1>5. /\ objs \in [Processes -> Seq(PluginObject)] /\ current \in [Processes -> Nat]
      /\ thread \in [PluginThreads -> PluginThread] /\ objs[p] \in Seq(PluginObject)
      /\ Len(objs[p]) \in Nat /\ thread[t].item \in PluginRow
  <2>1. /\ objs \in [Processes -> Seq(PluginObject)] /\ current \in [Processes -> Nat]
        /\ thread \in [PluginThreads -> PluginThread]
    BY DEF PluginTypeOK
  <2>2. thread[t].item \in PluginRow
    BY <1>2, Zenon DEF PluginThread
  <2>3. objs[p] \in Seq(PluginObject)
    BY <1>2, <2>1
  <2>4. Len(objs[p]) \in Nat
    BY <2>3, LenProperties
  <2> QED
    BY <2>1, <2>2, <2>3, <2>4
<1> USE DEF new
<1>6. /\ OffObj(objs[p][n]) \in PluginObject /\ new \in PluginObject /\ new.stored = thread[t].item.conf
      /\ SameSecret(objs[p][n], OffObj(objs[p][n]))
  BY <1>3, <1>5, ValueTypes, ObjectsKeepSecrets
<1>7. /\ off \in Seq(PluginObject) /\ Len(off) = Len(objs[p])
      /\ \A m \in 1 .. Len(objs[p]) : off[m] \in {objs[p][m], OffObj(objs[p][n])}
  OBVIOUS
<1> HIDE DEF new
<1>8. \A m \in 1 .. Len(objs[p]) : SameSecret(objs[p][m], off[m])
  BY <1>6, <1>7 DEF SameSecret
<1>9. thread[t].item.version = 1 /\ thread[t].at \notin {"idle", "conf"}
  BY <1>1, <1>3 DEF OnlyLoads
<1>10. CASE thread[t].then = "new"
  <2>1. /\ objs'[p] = Append(off, new) /\ current'[p] = Len(objs[p]) + 1
        /\ \A q \in Processes : q # p => objs'[q] = objs[q] /\ current'[q] = current[q]
    BY <1>2, <1>4, <1>5, <1>7, <1>10
  <2>2. /\ Len(objs'[p]) = Len(objs[p]) + 1 /\ objs'[p][Len(objs[p]) + 1] = new
        /\ \A m \in 1 .. Len(objs[p]) : objs'[p][m] = off[m]
    BY <2>1, <1>5, <1>6, <1>7
  <2>3. /\ thread'[t].at = "folder" /\ thread'[t].then = "" /\ thread'[t].p = p
        /\ thread'[t].obj = Len(objs[p]) + 1 /\ thread'[t].item = thread[t].item
    BY <1>4, <1>10, ThreadStarts
  <2>4. HasSecret(thread[t].item.conf)
    <3>1. \A u \in PluginThreads : ~ThreadAt(u, "conf")
      BY <1>1, <1>2, <1>9, <2>3, NoneSaves
    <3>2. TakesRow(t)
      BY <1>3, <1>10 DEF TakesRow, ThreadAt
    <3> QED
      BY <3>1, <3>2, <1>1 DEF HoldsSecret
  <2>5. \A m \in 1 .. Len(objs[p]) : SameSecret(objs[p][m], objs'[p][m])
    BY <1>8, <2>2
  <2>6. ~ThreadAt(t, "folder") /\ new = NewPlugin(thread[t].item)
    BY <1>3 DEF ThreadAt, new
  <2> QED
    BY <1>2, <1>3, <1>5, <1>9, <2>1, <2>2, <2>3, <2>4, <2>5, <2>6, SecretOfListing
<1>11. CASE thread[t].then = "erase"
  <2>1. objs'[p] = off /\ current' = current /\ \A q \in Processes : q # p => objs'[q] = objs[q]
    BY <1>2, <1>4, <1>5, <1>11
  <2>2. /\ thread'[t].at = "erase" /\ thread'[t].then = "erase" /\ thread'[t].item = thread[t].item
    BY <1>2, <1>4, <1>5, <1>11, GoesKeeps DEF PluginPlaces, RequestPlaces
  <2>3. \A q \in Processes : /\ Len(objs'[q]) = Len(objs[q])
                             /\ \A m \in 1 .. Len(objs[q]) : SameSecret(objs[q][m], objs'[q][m])
    BY <1>7, <1>8, <2>1 DEF SameSecret
  <2>4. SavesSecret'
    BY <1>1, <1>2, <1>9, <2>2, NoneSaves
  <2>5. OnlyLoads'
    <3>1. \A q \in Processes : current'[q] # 0 /\ chan'[q] \in Seq({"init"})
      BY <1>1, <1>3, <2>1 DEF OnlyLoads
    <3> QED
      BY <3>1, <1>1, <1>2, <1>3, <1>9, <2>2, LoadsStay
  <2>6. HoldsSecret'
    <3>1. ThreadAt(t, "deinit") /\ ~TakesRow(t) /\ ~TakesRow(t)'
      BY <1>3, <1>11, <2>2 DEF TakesRow, ThreadAt
    <3>2. \A q \in Processes : \A m \in 1 .. Len(objs[q]) : objs'[q][m].stored = objs[q][m].stored
      BY <2>3 DEF SameSecret
    <3>3. \A q \in Processes : KnowsSecret(q) => KnowsSecret(q)'
      BY <3>1, <3>2, <1>1, <1>2, <1>3, <2>1, KnowsAfter
    <3> QED
      BY <3>1, <3>3, <1>1, <1>2, <1>3, <1>9, <2>2, HoldsAfter
  <2>7. ObjectsDecrypt'
    BY <1>1, <1>2, <1>3, <2>3, DecryptsStay DEF ThreadAt
  <2> QED
    BY <2>4, <2>5, <2>6, <2>7 DEF SecretSound
<1> QED
  BY <1>3, <1>10, <1>11

LEMMA SecretOfRead ==
    ASSUME PluginTypeOK, ObjectsKnown, SecretSound, NEW t \in PluginThreads, ReadRow(t), row.there
    PROVE  SecretSound'
<1> DEFINE p == thread[t].p  n == thread[t].obj
<1>1. OnlyLoads /\ SavesSecret /\ HoldsSecret /\ ObjectsDecrypt /\ PluginStep(t)
  BY DEF SecretSound, PluginStep
<1>2. /\ p \in Processes /\ n \in 0 .. Len(objs[p]) /\ thread[t] \in PluginThread
      /\ \A u \in PluginThreads \ {t} : thread'[u] = thread[u]
      /\ thread'[t].at # "conf"
  BY <1>1, StepOfLoads, Zenon
<1>3. /\ thread[t].at = "row" /\ UNCHANGED <<row, codeDir, chan, subscribed, made, typed, asked, astray>>
      /\ \/ /\ n # 0 /\ objs' = [objs EXCEPT ![p][n] = StoppedObj(objs[p][n])] /\ current' = current
            /\ thread' = [thread EXCEPT ![t] =
                            [thread[t] EXCEPT !.at = "deinit", !.then = "new", !.item = row]]
         \/ /\ Listed(p, row) /\ ThreadMoves(t, [StartingObj(t) EXCEPT !.item = row])
  BY DEF ReadRow, ThreadAt, ThreadMoves, ThreadObj, outside
<1>4. /\ \A u \in PluginThreads : ~ThreadAt(u, "conf")
      /\ SavesSecret'
  BY <1>1, <1>2, <1>3, NoneSaves
<1>5. HasSecret(row.conf) /\ row.version = 1 /\ row \in PluginRow /\ \A q \in Processes : KnowsSecret(q)
  BY <1>1, <1>4 DEF HoldsSecret, OnlyLoads, PluginTypeOK
<1>6. /\ objs \in [Processes -> Seq(PluginObject)] /\ current \in [Processes -> Nat]
      /\ thread \in [PluginThreads -> PluginThread] /\ objs[p] \in Seq(PluginObject)
      /\ Len(objs[p]) \in Nat
  <2>1. /\ objs \in [Processes -> Seq(PluginObject)] /\ current \in [Processes -> Nat]
        /\ thread \in [PluginThreads -> PluginThread]
    BY DEF PluginTypeOK
  <2>2. objs[p] \in Seq(PluginObject) /\ Len(objs[p]) \in Nat
    BY <1>2, <2>1, LenProperties
  <2> QED
    BY <2>1, <2>2
<1>7. CASE Listed(p, row) /\ ThreadMoves(t, [StartingObj(t) EXCEPT !.item = row])
  <2> DEFINE new == NewPlugin(row)
  <2>1. new \in PluginObject
    BY <1>5, ValueTypes
  <2>2. objs' = [objs EXCEPT ![p] = Append(objs[p], new)] /\ current' = [current EXCEPT ![p] = Len(objs[p]) + 1]
    BY <1>7 DEF Listed
  <2> HIDE DEF new
  <2>3. /\ objs'[p] = Append(objs[p], new) /\ current'[p] = Len(objs[p]) + 1
        /\ \A q \in Processes : q # p => objs'[q] = objs[q] /\ current'[q] = current[q]
    BY <1>2, <1>6, <2>2
  <2>4. /\ Len(objs'[p]) = Len(objs[p]) + 1 /\ objs'[p][Len(objs[p]) + 1] = new
        /\ \A m \in 1 .. Len(objs[p]) : objs'[p][m] = objs[p][m]
    BY <2>1, <2>3, <1>6
  <2>5. \A m \in 1 .. Len(objs[p]) : SameSecret(objs[p][m], objs'[p][m])
    BY <2>4 DEF SameSecret
  <2>6. /\ thread'[t].at = "folder" /\ thread'[t].then = "" /\ thread'[t].p = p
        /\ thread'[t].obj = Len(objs[p]) + 1 /\ thread'[t].item = row
    BY <1>7, ThreadStartsWith
  <2> QED
    BY <1>1, <1>2, <1>3, <1>5, <2>3, <2>4, <2>5, <2>6, SecretOfListing DEF new
<1>8. CASE /\ n # 0 /\ objs' = [objs EXCEPT ![p][n] = StoppedObj(objs[p][n])] /\ current' = current
           /\ thread' = [thread EXCEPT ![t] =
                            [thread[t] EXCEPT !.at = "deinit", !.then = "new", !.item = row]]
  <2>1. n \in 1 .. Len(objs[p]) /\ objs[p][n] \in PluginObject
    <3>1. n \in 1 .. Len(objs[p])
      BY <1>2, <1>6, <1>8, InRangeOne
    <3> QED
      BY <3>1, <1>2, ObjectsThere
  <2>2. /\ thread'[t].at = "deinit" /\ thread'[t].then = "new" /\ thread'[t].item = row
        /\ thread'[t].p = p
    <3> DEFINE new == [thread[t] EXCEPT !.at = "deinit", !.then = "new", !.item = row]
    <3>1. new.at = "deinit" /\ new.then = "new" /\ new.item = row /\ new.p = p
      BY <1>2 DEF PluginThread
    <3>2. thread' = [thread EXCEPT ![t] = new]
      BY <1>8
    <3> HIDE DEF new
    <3> QED
      BY <3>1, <3>2, <1>6
  <2>3. \A q \in Processes : /\ Len(objs'[q]) = Len(objs[q])
                             /\ \A m \in 1 .. Len(objs[q]) : SameSecret(objs[q][m], objs'[q][m])
    <3> DEFINE o2 == StoppedObj(objs[p][n])
    <3>1. o2 \in PluginObject /\ SameSecret(objs[p][n], o2)
      BY <2>1, ValueTypes, ObjectsKeepSecrets
    <3>2. objs' = [objs EXCEPT ![p][n] = o2]
      BY <1>8
    <3> HIDE DEF o2
    <3> QED
      BY <3>1, <3>2, <1>2, <2>1, SecretStays
  <2>4. OnlyLoads'
    <3>1. \A q \in Processes : current'[q] # 0 /\ chan'[q] \in Seq({"init"})
      BY <1>1, <1>3, <1>8 DEF OnlyLoads
    <3> QED
      BY <3>1, <1>1, <1>2, <1>3, <1>5, <2>2, LoadsStay
  <2>5. HoldsSecret'
    <3>1. ASSUME NEW q \in Processes PROVE KnowsSecret(q)'
      <4>1. CASE q = p
        BY <4>1, <2>2 DEF KnowsSecret, TakesRow, ThreadAt
      <4>2. CASE q # p
        <5>1. current[q] \in 1 .. Len(objs[q])
          BY <1>1, ProcessTypes DEF OnlyLoads
        <5>2. objs'[q][current'[q]].stored = objs[q][current[q]].stored
          BY <5>1, <2>3, <1>8 DEF SameSecret
        <5>3. typed' = typed /\ chan' = chan /\ thread[t].p # q
          BY <1>3, <4>2
        <5> QED
          BY <5>2, <5>3, <1>2, <1>5, StillKnows, Zenon
      <4> QED
        BY <4>1, <4>2
    <3>2. HasSecret(thread[t].item.conf)'
      BY <1>3, <1>5, <2>2 DEF HasSecret
    <3> QED
      BY <3>1, <3>2, <1>1, <1>2, <1>3, HoldsAfter
  <2>6. ObjectsDecrypt'
    <3>1. ~ThreadAt(t, "folder")
      BY <1>3 DEF ThreadAt
    <3> QED
      BY <3>1, <1>1, <1>2, <2>3, DecryptsStay
  <2> QED
    BY <1>4, <2>4, <2>5, <2>6 DEF SecretSound
<1> QED
  BY <1>3, <1>7, <1>8

\* A message about the row reaches every process.
LEMMA AllAreTold ==
    ASSUME PluginTypeOK, OnlyLoads, Publish("init")
    PROVE  \A q \in Processes : chan'[q] # <<>> /\ chan'[q] \in Seq({"init"})
<1>1. \A q \in Processes : chan'[q] = Append(chan[q], "init")
  BY Published DEF OnlyLoads
<1>2. \A q \in Processes : chan[q] \in Seq({"init"})
  BY DEF OnlyLoads
<1>3. \A s \in Seq({"init"}) : Append(s, "init") # <<>> /\ Append(s, "init") \in Seq({"init"})
  <2> SUFFICES ASSUME NEW s \in Seq({"init"})
               PROVE  Append(s, "init") # <<>> /\ Append(s, "init") \in Seq({"init"})
    OBVIOUS
  <2>1. Len(Append(s, "init")) = Len(s) + 1 /\ Len(s) \in Nat
    OBVIOUS
  <2> QED
    BY <2>1
<1> QED
  BY <1>1, <1>2, <1>3

LEMMA SecretOfActive ==
    ASSUME PluginTypeOK, ObjectsKnown, SecretSound, NEW t \in PluginThreads, SaveActive(t)
    PROVE  SecretSound'
<1>1. OnlyLoads /\ SavesSecret /\ HoldsSecret /\ ObjectsDecrypt /\ PluginStep(t)
  BY DEF SecretSound, PluginStep
<1>2. /\ \A u \in PluginThreads \ {t} : thread'[u] = thread[u]
      /\ thread[t].at = "active" /\ thread' = [thread EXCEPT ![t] = NoThread] /\ Publish("init")
      /\ UNCHANGED <<objs, current, codeDir, subscribed, typed>>
      /\ row' = IF row.there THEN [row EXCEPT !.active = thread[t].item.active] ELSE row
  BY <1>1, StepOfLoads, Zenon DEF SaveActive, ThreadAt, ThreadMoves, memory
<1>3. thread'[t] = NoThread
  BY <1>2 DEF PluginTypeOK
<1>4. row'.conf = row.conf /\ row'.version = row.version
  BY <1>2 DEF PluginTypeOK, PluginRow
<1>5. \A q \in Processes : chan'[q] # <<>> /\ chan'[q] \in Seq({"init"})
  BY <1>1, <1>2, AllAreTold
<1>6. SavesSecret'
  BY <1>1, <1>2, <1>3, EmptyThread, NoneSaves
<1>7. OnlyLoads'
  <2>1. \A q \in Processes : current'[q] # 0 /\ chan'[q] \in Seq({"init"})
    BY <1>1, <1>2, <1>5 DEF OnlyLoads
  <2> QED
    BY <2>1, <1>1, <1>2, <1>3, <1>4, EmptyThread, LoadsStay
<1>8. HoldsSecret'
  <2>1. \A q \in Processes : KnowsSecret(q)'
    BY <1>5 DEF KnowsSecret
  <2>2. ~TakesRow(t)'
    BY <1>3, EmptyThread DEF TakesRow, ThreadAt
  <2>3. thread'[t].at # "conf" /\ thread[t].at \notin {"idle", "conf"} /\ typed' = typed
    BY <1>2, <1>3, EmptyThread
  <2> QED
    BY <2>1, <2>2, <2>3, <1>1, <1>2, <1>4, HoldsAfter, Zenon
<1>9. ObjectsDecrypt'
  <2>1. \A q \in Processes : /\ Len(objs'[q]) = Len(objs[q])
                             /\ \A m \in 1 .. Len(objs[q]) : SameSecret(objs[q][m], objs'[q][m])
    BY <1>2 DEF SameSecret
  <2>2. ~ThreadAt(t, "folder")
    BY <1>2 DEF ThreadAt
  <2> QED
    BY <2>1, <2>2, <1>1, <1>2, DecryptsStay
<1> QED
  BY <1>6, <1>7, <1>8, <1>9 DEF SecretSound

LEMMA SecretOfConf ==
    ASSUME PluginTypeOK, ObjectsKnown, SecretSound, NEW t \in PluginThreads, SaveConf(t), row.there
    PROVE  SecretSound'
<1> DEFINE p == thread[t].p  n == thread[t].obj  active == thread[t].item.active
           o2 == SwitchedObj(objs[p][n], active)
<1>1. OnlyLoads /\ SavesSecret /\ HoldsSecret /\ ObjectsDecrypt /\ PluginStep(t)
  BY DEF SecretSound, PluginStep
<1>2. /\ thread[t].at = "conf" /\ Publish("init")
      /\ UNCHANGED <<current, codeDir, subscribed, typed>>
      /\ row' = [row EXCEPT !.conf = thread[t].item.conf]
      /\ ThreadMoves(t, NoThread) \/ ThreadGoes(t, "active")
      /\ objs' = [objs EXCEPT ![p][n] = o2]
  BY DEF SaveConf, ThreadAt
<1>3. /\ \A u \in PluginThreads \ {t} : thread'[u] = thread[u]
      /\ p \in Processes /\ n \in 1 .. Len(objs[p]) /\ objs[p][n] \in PluginObject
      /\ thread[t] \in PluginThread /\ thread[t].then = ""
  <2>1. thread[t].at # "row" /\ thread[t].at \in {"row", "folder", "conf", "active"}
    BY <1>2
  <2> QED
    BY <2>1, <1>1, StepOfLoads, Zenon
<1>4. active \in BOOLEAN /\ thread[t].item.version = 1
  BY <1>1, <1>3 DEF PluginThread, PluginRow, OnlyLoads
<1>5. o2 \in PluginObject /\ SameSecret(objs[p][n], o2)
  BY <1>3, <1>4, ValueTypes, ObjectsKeepSecrets
<1> HIDE DEF o2
<1>6. \A q \in Processes : /\ Len(objs'[q]) = Len(objs[q])
                           /\ \A m \in 1 .. Len(objs[q]) : SameSecret(objs[q][m], objs'[q][m])
  BY <1>2, <1>3, <1>5, SecretStays
<1>7. /\ thread'[t].at \in {"idle", "active"} /\ thread'[t].then = ""
      /\ thread'[t].item.version = 1
  <2>1. CASE ThreadMoves(t, NoThread)
    <3>1. thread'[t] = NoThread
      BY <2>1 DEF ThreadMoves, PluginTypeOK
    <3> QED
      BY <3>1, EmptyThread
  <2>2. CASE ThreadGoes(t, "active")
    BY <2>2, <1>3, <1>4, GoesKeeps DEF PluginPlaces, RequestPlaces
  <2> QED
    BY <2>1, <2>2, <1>2
<1>8. row'.conf = thread[t].item.conf /\ row'.version = row.version
  BY <1>2 DEF PluginTypeOK, PluginRow
<1>9. \A q \in Processes : chan'[q] # <<>> /\ chan'[q] \in Seq({"init"})
  BY <1>1, <1>2, AllAreTold
<1>10. HasSecret(thread[t].item.conf) /\ \A u \in PluginThreads \ {t} : thread[u].at = "idle"
  BY <1>1, <1>2 DEF SavesSecret, ThreadAt, ThreadIdle
<1>11. \A u \in PluginThreads : thread'[u].at \in {"idle", "active"}
  BY <1>3, <1>7, <1>10
<1>12. SavesSecret'
  BY <1>11 DEF SavesSecret, ThreadAt
<1>13. OnlyLoads'
  <2>1. \A q \in Processes : current'[q] # 0 /\ chan'[q] \in Seq({"init"})
    BY <1>1, <1>2, <1>9 DEF OnlyLoads
  <2> QED
    BY <2>1, <1>1, <1>2, <1>3, <1>7, <1>8, LoadsStay
<1>14. HoldsSecret'
  <2>1. \A q \in Processes : KnowsSecret(q)'
    BY <1>9 DEF KnowsSecret
  <2>2. \A u \in PluginThreads : ~TakesRow(u)'
    BY <1>11 DEF TakesRow, ThreadAt
  <2>3. HasSecret(row.conf)'
    BY <1>2, <1>8, <1>10 DEF HasSecret
  <2> QED
    BY <2>1, <2>2, <2>3 DEF HoldsSecret
<1>15. ObjectsDecrypt'
  <2>1. ~ThreadAt(t, "folder")
    BY <1>2 DEF ThreadAt
  <2> QED
    BY <2>1, <1>1, <1>3, <1>6, DecryptsStay
<1> QED
  BY <1>12, <1>13, <1>14, <1>15 DEF SecretSound

\* A message becomes a handler that will read the row.
LEMMA SecretOfMessage ==
    ASSUME PluginTypeOK, ObjectsKnown, SecretSound, NEW p \in Processes, Deliver(p)
    PROVE  SecretSound'
<1> DEFINE n == current[p]  fresh == [NoThread EXCEPT !.p = p, !.obj = n, !.at = "row"]
<1>1. OnlyLoads /\ SavesSecret /\ HoldsSecret /\ ObjectsDecrypt
  BY DEF SecretSound
<1>2. /\ chan \in [Processes -> Seq({"init", "delete"})] /\ chan[p] # <<>> /\ chan[p] \in Seq({"init"})
      /\ chan' = [chan EXCEPT ![p] = Tail(chan[p])]
      /\ UNCHANGED <<row, codeDir, subscribed, typed>>
  BY <1>1 DEF PluginTypeOK, OnlyLoads, Deliver
<1>3. Head(chan[p]) = "init" /\ Tail(chan[p]) \in Seq({"init"})
  <2>1. \A s \in Seq({"init"}) : s # <<>> => Head(s) = "init" /\ Tail(s) \in Seq({"init"})
    OBVIOUS
  <2> QED
    BY <2>1, <1>2
<1>4. BeginThread(fresh) /\ objs' = objs /\ current' = current
  <2>1. CASE Head(chan[p]) = "init"
    BY <2>1, <1>3 DEF Deliver
  <2> QED
    BY <2>1, <1>3
<1>5. /\ fresh \in PluginThread /\ fresh.at = "row" /\ fresh.p = p /\ fresh.then = ""
      /\ fresh.item.version = 1
  <2>1. n \in Nat /\ NoThread \in PluginThread /\ NoThread.then = "" /\ NoThread.item.version = 1
    BY ProcessTypes, ValueTypes, EmptyThread
  <2> HIDE DEF n
  <2> QED
    BY <2>1 DEF PluginThread, PluginPlaces
<1> HIDE DEF fresh
<1>6. PICK t \in PluginThreads : /\ thread[t] = NoThread /\ thread'[t] = fresh
                                 /\ \A u \in PluginThreads \ {t} : thread'[u] = thread[u]
  BY <1>4, <1>5, BeginsKeeps
<1>7. thread[t].at = "idle" /\ thread'[t].at = "row" /\ thread'[t].p = p
  BY <1>5, <1>6, EmptyThread
<1>8. \A u \in PluginThreads : ~ThreadAt(u, "conf")
  BY <1>1, <1>2 DEF SavesSecret
<1>9. \A u \in PluginThreads : ~ThreadAt(u, "conf")'
  BY <1>6, <1>7, <1>8 DEF ThreadAt
<1>10. SavesSecret'
  BY <1>9 DEF SavesSecret
<1>11. \A q \in Processes : chan'[q] = IF q = p THEN Tail(chan[p]) ELSE chan[q]
  BY <1>2
<1>12. OnlyLoads'
  <2>1. \A q \in Processes : current'[q] # 0 /\ chan'[q] \in Seq({"init"})
    BY <1>1, <1>3, <1>4, <1>11 DEF OnlyLoads
  <2>2. /\ thread'[t].item.version = 1 /\ thread'[t].then \in {"", "new", "erase"}
        /\ thread'[t].at \in {"idle", "row", "deinit", "folder", "conf", "active", "erase"}
    BY <1>5, <1>6
  <2> QED
    BY <2>1, <2>2, <1>1, <1>2, <1>6, LoadsStay
<1>13. HoldsSecret'
  <2>1. ASSUME NEW q \in Processes PROVE KnowsSecret(q)'
    <3>1. CASE q = p
      BY <3>1, <1>7 DEF KnowsSecret, ThreadAt
    <3>2. CASE q # p
      <4>1. objs'[q][current'[q]].stored = objs[q][current[q]].stored /\ typed' = typed /\ chan'[q] = chan[q]
        BY <3>2, <1>2, <1>4, <1>11
      <4>2. KnowsSecret(q) /\ thread[t].at \notin {"row", "deinit"}
        BY <1>1, <1>7, <1>8 DEF HoldsSecret
      <4> QED
        BY <4>1, <4>2, <1>6, StillKnows
    <3> QED
      BY <3>1, <3>2
  <2>2. HasSecret(row.conf)'
    BY <1>1, <1>2, <1>8 DEF HoldsSecret, HasSecret
  <2>3. \A u \in PluginThreads : TakesRow(u)' => HasSecret(thread[u].item.conf)'
    <3>1. ~TakesRow(t)'
      BY <1>7 DEF TakesRow, ThreadAt
    <3>2. ASSUME NEW u \in PluginThreads, TakesRow(u)' PROVE HasSecret(thread[u].item.conf)'
      <4>1. thread'[u] = thread[u]
        BY <3>1, <3>2, <1>6
      <4>2. TakesRow(u)
        BY <4>1, <3>2 DEF TakesRow, ThreadAt
      <4>3. HasSecret(thread[u].item.conf)
        BY <4>2, <1>1, <1>8 DEF HoldsSecret
      <4> QED
        BY <4>1, <4>3, <1>2 DEF HasSecret
    <3> QED
      BY <3>2
  <2> QED
    BY <2>1, <2>2, <2>3 DEF HoldsSecret
<1>14. ObjectsDecrypt'
  <2>1. \A q \in Processes : /\ Len(objs'[q]) = Len(objs[q])
                             /\ \A m \in 1 .. Len(objs[q]) : SameSecret(objs[q][m], objs'[q][m])
    BY <1>4 DEF SameSecret
  <2>2. ~ThreadAt(t, "folder")
    BY <1>7 DEF ThreadAt
  <2> QED
    BY <2>1, <2>2, <1>1, <1>6, DecryptsStay
<1> QED
  BY <1>10, <1>12, <1>13, <1>14 DEF SecretSound

\* When nothing goes on, everyone has loaded what has the secret.
LEMMA SecretWhenQuiet ==
    ASSUME PluginTypeOK, ObjectsKnown, SecretSound, PluginsQuiet
    PROVE  /\ HasSecret(row.conf)
           /\ \A q \in Processes : /\ current[q] \in 1 .. Len(objs[q])
                                   /\ HasSecret(objs[q][current[q]].stored)
           /\ \A q \in Processes : \A m \in 1 .. Len(objs[q]) :
                 objs[q][m].desc /\ objs[q][m].conf = DecryptSecret(objs[q][m].stored, TRUE)
<1>1. OnlyLoads /\ HoldsSecret /\ ObjectsDecrypt
  BY DEF SecretSound
<1>2. (\A t \in PluginThreads : thread[t].at = "idle") /\ \A q \in Processes : chan[q] = <<>>
  BY DEF PluginsQuiet, ThreadIdle, ThreadAt
<1>3. HasSecret(row.conf) /\ \A q \in Processes : KnowsSecret(q)
  BY <1>1, <1>2 DEF HoldsSecret, ThreadAt
<1>4. \A q \in Processes : HasSecret(objs[q][current[q]].stored)
  BY <1>2, <1>3 DEF KnowsSecret, TakesRow, ThreadAt
<1>5. \A q \in Processes : current[q] \in 1 .. Len(objs[q])
  BY <1>1, ProcessTypes DEF OnlyLoads
<1>6. \A q \in Processes : \A m \in 1 .. Len(objs[q]) :
         objs[q][m].desc /\ objs[q][m].conf = DecryptSecret(objs[q][m].stored, TRUE)
  BY <1>1, <1>2 DEF ObjectsDecrypt, ObjectDecrypts, WillLoad, ThreadAt
<1> QED
  BY <1>3, <1>4, <1>5, <1>6

\* A request starts that changes no configuration.
LEMMA SecretOfStart ==
    ASSUME PluginTypeOK, ObjectsKnown, SecretSound, PluginsQuiet,
           UNCHANGED <<row, codeDir, current, chan, subscribed, typed>>,
           \A q \in Processes : /\ Len(objs'[q]) = Len(objs[q])
                                /\ \A m \in 1 .. Len(objs[q]) : SameSecret(objs[q][m], objs'[q][m]),
           \A u \in PluginThreads : /\ thread'[u].item.version = 1 /\ thread'[u].then \in {"", "erase"}
                                    /\ thread'[u].at \in {"idle", "deinit", "active"}
    PROVE  SecretSound'
<1>1. OnlyLoads /\ SavesSecret /\ HoldsSecret /\ ObjectsDecrypt
  BY DEF SecretSound
<1>2. /\ HasSecret(row.conf)
      /\ \A q \in Processes : /\ current[q] \in 1 .. Len(objs[q])
                              /\ HasSecret(objs[q][current[q]].stored)
      /\ \A q \in Processes : \A m \in 1 .. Len(objs[q]) :
            objs[q][m].desc /\ objs[q][m].conf = DecryptSecret(objs[q][m].stored, TRUE)
  BY SecretWhenQuiet
<1>3. SavesSecret'
  BY DEF SavesSecret, ThreadAt
<1>4. OnlyLoads'
  BY <1>1 DEF OnlyLoads
<1>5. HoldsSecret'
  <2>1. \A q \in Processes : KnowsSecret(q)'
    <3> SUFFICES ASSUME NEW q \in Processes PROVE KnowsSecret(q)'
      OBVIOUS
    <3>1. objs'[q][current'[q]].stored = objs[q][current[q]].stored
      BY <1>2 DEF SameSecret
    <3> QED
      BY <3>1, <1>2 DEF KnowsSecret, HasSecret
  <2>2. \A u \in PluginThreads : ~TakesRow(u)'
    BY DEF TakesRow, ThreadAt
  <2>3. HasSecret(row.conf)'
    BY <1>2 DEF HasSecret
  <2> QED
    BY <2>1, <2>2, <2>3 DEF HoldsSecret
<1>6. ObjectsDecrypt'
  <2> SUFFICES ASSUME NEW q \in Processes, NEW m \in 1 .. Len(objs'[q]) PROVE ObjectDecrypts(q, m)'
    BY DEF ObjectsDecrypt
  <2>1. m \in 1 .. Len(objs[q]) /\ SameSecret(objs[q][m], objs'[q][m])
    OBVIOUS
  <2>2. objs[q][m].desc /\ objs[q][m].conf = DecryptSecret(objs[q][m].stored, TRUE)
    BY <1>2, <2>1
  <2> QED
    BY <2>1, <2>2 DEF ObjectDecrypts, SameSecret
<1> QED
  BY <1>3, <1>4, <1>5, <1>6 DEF SecretSound

LEMMA SecretOfDelete ==
    ASSUME PluginTypeOK, ObjectsKnown, SecretSound, NEW p \in Processes, Delete(p)
    PROVE  SecretSound'
<1> DEFINE n == current[p]  o2 == StoppedObj(objs[p][n])
           last == [NoThread EXCEPT !.p = p, !.at = "deinit", !.then = "erase", !.obj = n]
<1>1. /\ PluginsQuiet /\ BeginThread(last) /\ objs' = [objs EXCEPT ![p][n] = o2]
      /\ UNCHANGED <<row, codeDir, current, chan, subscribed, typed>>
  BY DEF Delete, AskPluginNow
<1>2. n \in 1 .. Len(objs[p]) /\ objs[p][n] \in PluginObject /\ n \in Nat
  BY ProcessTypes DEF Delete
<1>3. o2 \in PluginObject /\ SameSecret(objs[p][n], o2)
  BY <1>2, ValueTypes, ObjectsKeepSecrets
<1>4. last \in PluginThread /\ last.at = "deinit" /\ last.then = "erase" /\ last.item.version = 1
  <2>1. NoThread \in PluginThread /\ NoThread.item.version = 1
    BY ValueTypes, EmptyThread
  <2> HIDE DEF n
  <2> QED
    BY <2>1, <1>2 DEF PluginThread, PluginPlaces
<1> HIDE DEF o2, last
<1>5. \A q \in Processes : /\ Len(objs'[q]) = Len(objs[q])
                           /\ \A m \in 1 .. Len(objs[q]) : SameSecret(objs[q][m], objs'[q][m])
  BY <1>1, <1>2, <1>3, SecretStays
<1>6. PICK t \in PluginThreads : /\ thread'[t] = last
                                 /\ \A u \in PluginThreads \ {t} : thread'[u] = thread[u]
  BY <1>1, <1>4, BeginsKeeps
<1>7. \A u \in PluginThreads : thread[u] = NoThread
  BY <1>1 DEF PluginsQuiet, ThreadIdle, ThreadAt, ObjectsKnown, ThreadKnown
<1>8. \A u \in PluginThreads : /\ thread'[u].item.version = 1 /\ thread'[u].then \in {"", "erase"}
                               /\ thread'[u].at \in {"idle", "deinit", "active"}
  BY <1>4, <1>6, <1>7, EmptyThread
<1> QED
  BY <1>1, <1>5, <1>8, SecretOfStart

\* A console sends the placeholder or a new secret, never what was stored.
LEMMA SentValues ==
    ASSUME PluginTypeOK, ObjectsKnown, SecretSound, PluginsQuiet,
           NEW value \in ShownSecrets \cup {Plain(s) : s \in Secrets}
    PROVE  value = Placeholder \/ value = Plain(value.text)
<1>1. CASE value \in {Plain(s) : s \in Secrets}
  BY <1>1 DEF Plain
<1>2. CASE value \in ShownSecrets
  <2>1. PICK q \in Processes : value = FilterSecret(objs[q][current[q]].conf, objs[q][current[q]].desc)
    BY <1>2 DEF ShownSecrets
  <2>2. objs[q][current[q]].desc
    BY SecretWhenQuiet
  <2>3. value = Placeholder \/ value = EmptySecret
    BY <2>1, <2>2, Zenon DEF FilterSecret
  <2>4. EmptySecret = Plain(EmptySecret.text)
    BY DEF EmptySecret, Plain
  <2> QED
    BY <2>3, <2>4
<1> QED
  BY <1>1, <1>2

\* The object is given what the console meant, and keeps it encrypted.
LEMMA EditedSecret ==
    ASSUME NEW o \in PluginObject, NEW value \in SecretValue, o.desc,
           o.conf = DecryptSecret(o.stored, TRUE), HasSecret(o.stored),
           value = Placeholder \/ value = Plain(value.text)
    PROVE  LET edited == EditedObj(o, value)
           IN  /\ edited.desc /\ edited.conf = DecryptSecret(edited.stored, TRUE)
               /\ DecryptSecret(edited.stored, TRUE) =
                     Plain(IF value = Placeholder THEN typed ELSE value.text)
<1> DEFINE edited == EditedObj(o, value)
<1>1. o.stored \in SecretValue /\ o.desc = TRUE
  BY DEF PluginObject
<1>2. /\ edited.desc = TRUE /\ edited.conf = KeepSecret(value, o.conf, TRUE)
      /\ edited.stored = EncryptSecret(KeepSecret(value, o.stored, TRUE), TRUE)
  <2>1. /\ edited.desc = o.desc /\ edited.conf = KeepSecret(value, o.conf, o.desc)
        /\ edited.stored = EncryptSecret(KeepSecret(value, o.stored, o.desc), o.desc)
    BY DEF EditedObj, PluginObject
  <2> QED
    BY <2>1, <1>1
<1> HIDE DEF edited
<1>3. CASE value = Placeholder
  <2>1. edited.conf = o.conf /\ edited.stored = EncryptSecret(o.stored, TRUE)
    BY <1>2, <1>3 DEF KeepSecret
  <2>2. DecryptSecret(EncryptSecret(o.stored, TRUE), TRUE) = DecryptSecret(o.stored, TRUE)
    BY <1>1, SecretsDecrypt
  <2> QED
    BY <2>1, <2>2, <1>2, <1>3 DEF HasSecret, edited
<1>4. CASE value # Placeholder
  <2>1. value = Plain(value.text) /\ value.kind = "plain"
    BY <1>4 DEF Plain
  <2>2. edited.conf = value /\ edited.stored = EncryptSecret(value, TRUE)
    BY <1>2, <1>4 DEF KeepSecret
  <2>3. DecryptSecret(EncryptSecret(value, TRUE), TRUE) = DecryptSecret(value, TRUE)
    BY <2>1, SecretsDecrypt
  <2>4. DecryptSecret(value, TRUE) = value
    BY <2>1 DEF DecryptSecret
  <2> QED
    BY <2>1, <2>2, <2>3, <2>4, <1>2, <1>4 DEF edited
<1> QED
  BY <1>3, <1>4

LEMMA SecretOfUpdate ==
    ASSUME PluginTypeOK, ObjectsKnown, SecretSound, NEW p \in Processes, NEW active \in BOOLEAN,
           NEW more \in BOOLEAN, NEW value \in ShownSecrets \cup {Plain(s) : s \in Secrets},
           Update(p, active, value, more)
    PROVE  SecretSound'
<1> DEFINE n == current[p]  o == objs[p][n]
           edited == EditedObj(o, value)
           switched == SwitchedObj(o, active)
           saves == SavesBoth(p, n, active, edited.stored)
           sets == SavesActive(p, n, active)
<1>1. OnlyLoads /\ SavesSecret /\ HoldsSecret /\ ObjectsDecrypt
  BY DEF SecretSound
<1>2. /\ n \in 1 .. Len(objs[p]) /\ o \in PluginObject
      /\ \/ objs' = [objs EXCEPT ![p][n] = edited] /\ BeginThread(saves)
         \/ /\ objs' = [objs EXCEPT ![p][n] = switched]
            /\ (o.desc /\ value = Placeholder) \/ value = o.conf
            /\ UNCHANGED thread \/ BeginThread(sets)
  BY UpdateSteps
<1>3. /\ PluginsQuiet /\ UNCHANGED <<row, codeDir, current, chan, subscribed>>
      /\ typed' = IF value = Placeholder THEN typed ELSE value.text
  BY DEF Update, AskPluginNow
<1>4. /\ \A q \in Processes : /\ current[q] \in 1 .. Len(objs[q])
                              /\ HasSecret(objs[q][current[q]].stored)
      /\ \A q \in Processes : \A m \in 1 .. Len(objs[q]) :
            objs[q][m].desc /\ objs[q][m].conf = DecryptSecret(objs[q][m].stored, TRUE)
  BY <1>3, SecretWhenQuiet
<1>5. o.desc /\ o.conf = DecryptSecret(o.stored, TRUE) /\ HasSecret(o.stored)
  BY <1>2, <1>4
<1>6. value \in SecretValue /\ (value = Placeholder \/ value = Plain(value.text))
  BY <1>3, AskedValues, SentValues
<1>7. /\ edited \in PluginObject /\ switched \in PluginObject /\ SameSecret(o, switched)
      /\ edited.stored \in SecretValue
  BY <1>2, <1>6, ValueTypes, ObjectsKeepSecrets DEF PluginObject
<1>8. \A u \in PluginThreads : thread[u] = NoThread
  BY <1>3 DEF PluginsQuiet, ThreadIdle, ThreadAt, ObjectsKnown, ThreadKnown
<1>9. /\ saves \in PluginThread /\ saves.at = "conf" /\ saves.then = "" /\ saves.item.version = 1
      /\ saves.item.conf = edited.stored
      /\ sets \in PluginThread /\ sets.at = "active" /\ sets.then = "" /\ sets.item.version = 1
  <2> DEFINE stored == edited.stored
  <2>1. /\ NoThread \in PluginThread /\ NoThread.item = InstalledRow /\ NoThread.then = ""
        /\ InstalledRow \in PluginRow /\ InstalledRow.version = 1 /\ n \in Nat /\ stored \in SecretValue
    BY <1>7, ValueTypes, ProcessTypes DEF NoThread, InstalledRow
  <2>2. saves = SavesBoth(p, n, active, stored) /\ sets = SavesActive(p, n, active)
    OBVIOUS
  <2> HIDE DEF stored, saves, sets, edited, n
  <2>3. /\ saves \in PluginThread /\ saves.at = "conf" /\ saves.then = "" /\ saves.item.version = 1
        /\ saves.item.conf = stored
    BY <2>1, <2>2 DEF SavesBoth, PluginThread, PluginPlaces, RequestPlaces, PluginRow
  <2>4. sets \in PluginThread /\ sets.at = "active" /\ sets.then = "" /\ sets.item.version = 1
    BY <2>1, <2>2 DEF SavesActive, PluginThread, PluginPlaces, RequestPlaces, PluginRow
  <2> QED
    BY <2>3, <2>4 DEF stored
<1> HIDE DEF saves, sets, switched
<1>10. CASE objs' = [objs EXCEPT ![p][n] = switched] /\ ((o.desc /\ value = Placeholder) \/ value = o.conf)
           /\ (UNCHANGED thread \/ BeginThread(sets))
  <2>1. typed' = typed
    <3>1. CASE value = Placeholder
      BY <3>1, <1>3
    <3>2. CASE value # Placeholder
      <4>1. value = Plain(typed)
        BY <3>2, <1>5, <1>10 DEF HasSecret
      <4> QED
        BY <4>1, <3>2, <1>3 DEF Plain
    <3> QED
      BY <3>1, <3>2
  <2>2. \A q \in Processes : /\ Len(objs'[q]) = Len(objs[q])
                             /\ \A m \in 1 .. Len(objs[q]) : SameSecret(objs[q][m], objs'[q][m])
    BY <1>2, <1>7, <1>10, SecretStays
  <2>3. \A u \in PluginThreads : thread'[u] = NoThread \/ thread'[u] = sets
    <3>1. CASE BeginThread(sets)
      BY <3>1, <1>8, <1>9, BeginsKeeps
    <3>2. CASE UNCHANGED thread
      BY <3>2, <1>8
    <3> QED
      BY <3>1, <3>2, <1>10
  <2>4. \A u \in PluginThreads : /\ thread'[u].item.version = 1 /\ thread'[u].then \in {"", "erase"}
                                 /\ thread'[u].at \in {"idle", "deinit", "active"}
    BY <2>3, <1>9, EmptyThread
  <2> QED
    BY <2>1, <2>2, <2>4, <1>3, SecretOfStart
<1>11. CASE objs' = [objs EXCEPT ![p][n] = edited] /\ BeginThread(saves)
  <2>1. /\ edited.desc /\ edited.conf = DecryptSecret(edited.stored, TRUE)
        /\ DecryptSecret(edited.stored, TRUE) = Plain(typed')
    BY <1>2, <1>3, <1>5, <1>6, EditedSecret
  <2> HIDE DEF edited
  <2>2. PICK t \in PluginThreads : /\ thread'[t] = saves
                                   /\ \A u \in PluginThreads \ {t} : thread'[u] = thread[u]
    BY <1>9, <1>11, BeginsKeeps
  <2>3. \A u \in PluginThreads \ {t} : thread'[u].at = "idle"
    BY <2>2, <1>8, EmptyThread
  <2>4. chan' = chan /\ \A q \in Processes : chan[q] = <<>>
    BY <1>3 DEF PluginsQuiet
  <2>5. SavesSecret'
    <3> SUFFICES ASSUME NEW u \in PluginThreads, thread'[u].at = "conf"
                 PROVE  /\ HasSecret(thread[u].item.conf)'
                        /\ \A w \in PluginThreads \ {u} : thread'[w].at = "idle"
                        /\ \A q \in Processes : chan'[q] = <<>>
      BY DEF SavesSecret, ThreadAt, ThreadIdle
    <3>1. u = t
      BY <2>3
    <3>2. thread'[u].item.conf = edited.stored
      BY <3>1, <2>2, <1>9
    <3> QED
      BY <3>1, <3>2, <2>1, <2>3, <2>4 DEF HasSecret
  <2>6. OnlyLoads'
    <3>1. \A q \in Processes : current'[q] # 0 /\ chan'[q] \in Seq({"init"})
      BY <1>1, <1>3 DEF OnlyLoads
    <3>2. /\ thread'[t].item.version = 1 /\ thread'[t].then \in {"", "new", "erase"}
          /\ thread'[t].at \in {"idle", "row", "deinit", "folder", "conf", "active", "erase"}
      BY <2>2, <1>9
    <3> QED
      BY <3>1, <3>2, <1>1, <1>3, <2>2, LoadsStay
  <2>7. HoldsSecret'
    BY <2>2, <1>9 DEF HoldsSecret, ThreadAt
  <2>8. ObjectsDecrypt'
    <3>1. /\ \A q \in Processes : Len(objs'[q]) = Len(objs[q]) /\ (q # p => objs'[q] = objs[q])
          /\ objs'[p][n] = edited /\ \A m \in 1 .. Len(objs[p]) : m # n => objs'[p][m] = objs[p][m]
      <4>1. ChangesObj(p, n, edited)
        BY <1>11 DEF ChangesObj
      <4> QED
        BY <4>1, <1>2, <1>7, ObjectSwapped
    <3> SUFFICES ASSUME NEW q \in Processes, NEW m \in 1 .. Len(objs'[q]) PROVE ObjectDecrypts(q, m)'
      BY DEF ObjectsDecrypt
    <3>2. CASE q = p /\ m = n
      BY <3>1, <3>2, <2>1 DEF ObjectDecrypts
    <3>3. CASE ~(q = p /\ m = n)
      <4>1. m \in 1 .. Len(objs[q]) /\ objs'[q][m] = objs[q][m]
        BY <3>1, <3>3
      <4>2. objs[q][m].desc /\ objs[q][m].conf = DecryptSecret(objs[q][m].stored, TRUE)
        BY <4>1, <1>4
      <4> QED
        BY <4>1, <4>2 DEF ObjectDecrypts
    <3> QED
      BY <3>2, <3>3
  <2> QED
    BY <2>5, <2>6, <2>7, <2>8 DEF SecretSound
<1> QED
  BY <1>2, <1>10, <1>11

\* While nothing is uploaded, nothing is built.
LEMMA NothingIsBuilt ==
    ASSUME PluginTypeOK, ObjectsKnown, UpdatesOnly, NothingBuilt, [PluginNext]_pluginVars
    PROVE  UpdatesOnly' /\ NothingBuilt'
<1>1. asked \in [PluginOps -> Nat] /\ asked["upload"] = 0 /\ asked["restart"] = 0
  BY DEF PluginTypeOK, UpdatesOnly
<1>2. ASSUME asked' = asked \/ \E op \in PluginOps : AskPlugin(op) PROVE UpdatesOnly'
  <2>1. CASE asked' = asked
    BY <2>1, <1>1 DEF UpdatesOnly
  <2>2. CASE \E op \in PluginOps : AskPlugin(op)
    <3>1. /\ asked' \in [PluginOps -> Nat] /\ "upload" \in PluginOps /\ "restart" \in PluginOps
          /\ \A k \in PluginOps : asked'[k] <= asked[k]
      BY <2>2, AskedKeeps DEF PluginOps
    <3>2. asked'["upload"] \in Nat /\ asked'["upload"] <= 0 /\ asked'["restart"] \in Nat /\ asked'["restart"] <= 0
      BY <3>1, <1>1
    <3> QED
      BY <3>2 DEF UpdatesOnly
  <2> QED
    BY <1>2, <2>1, <2>2
<1>3. CASE UNCHANGED pluginVars
  BY <1>3, <1>2 DEF pluginVars, NothingBuilt, Renews, ThreadAt
<1>4. ASSUME NEW t \in PluginThreads, PluginStep(t) PROVE UpdatesOnly' /\ NothingBuilt'
  <2>1. asked' = asked \/ \E op \in PluginOps : AskPlugin(op)
    BY <1>4 DEF PluginStep, ClearFolder, Install, WriteHash, Load, InitFails, FinishDeinit, DeinitFails, ReadRow,
       LoadFromDB, Subscribe, SaveConf, SaveActive, Build, Invalid, Place, Record, Erase, outside, PluginOps
  <2>2. (Renews(t)' => Renews(t)) /\ \A u \in PluginThreads \ {t} : thread'[u] = thread[u]
    BY <1>4, StepThreads DEF ThreadSteps
  <2>3. NothingBuilt'
    <3> SUFFICES ASSUME NEW u \in PluginThreads PROVE ~Renews(u)'
      BY DEF NothingBuilt
    <3>1. ~Renews(u)
      BY DEF NothingBuilt
    <3>2. CASE u # t
      BY <3>1, <3>2, <2>2 DEF Renews, ThreadAt
    <3>3. CASE u = t
      BY <3>1, <3>3, <2>2
    <3> QED
      BY <3>2, <3>3
  <2> QED
    BY <2>1, <2>3, <1>2
<1>5. ASSUME NEW p \in Processes, ProcessSteps(p) PROVE UpdatesOnly' /\ NothingBuilt'
  <2>1. asked' = asked \/ \E op \in PluginOps : AskPlugin(op)
    BY <1>5 DEF ProcessSteps, Deliver, Restart, Delete, Upload, Update, AskPluginNow, PluginOps
  <2>2. ~Restart(p) /\ \A update \in BOOLEAN : ~Upload(p, update)
    <3>1. Restart(p) => asked["restart"] > 0
      BY DEF Restart, AskPlugin
    <3>2. \A update \in BOOLEAN : Upload(p, update) => asked["upload"] > 0
      BY DEF Upload, AskPluginNow, AskPlugin
    <3> QED
      BY <1>1, <3>1, <3>2
  <2>3. NothingBuilt'
    <3> SUFFICES ASSUME NEW u \in PluginThreads PROVE ~Renews(u)'
      BY DEF NothingBuilt
    <3>1. ~Renews(u)
      BY DEF NothingBuilt
    <3>2. \/ thread'[u] = thread[u]
          \/ thread'[u].at \in {"row", "deinit", "boot"} /\ thread'[u].then \in {"", "drop", "subscribe", "erase"}
          \/ thread'[u].at \in {"conf", "active"} /\ thread'[u].then = ""
      BY ZenonT(40), <1>5, <2>2, ThreadsOfProcess DEF NewThread
    <3> QED
      BY <3>1, <3>2 DEF Renews, ThreadAt
  <2> QED
    BY <2>1, <2>3, <1>2
<1> QED
  BY <1>3, <1>4, <1>5 DEF PluginNext, ProcessSteps

\* A row that is gone is not written again, and an excuse is not taken back.
LEMMA SecretIsSought ==
    ASSUME PluginTypeOK, ObjectsKnown, UpdatesOnly, NothingBuilt, [PluginNext]_pluginVars,
           row'.there, "secret" \notin astray'
    PROVE  row.there /\ "secret" \notin astray
<1>1. row \in PluginRow
  BY DEF PluginTypeOK
<1>2. CASE UNCHANGED pluginVars
  BY <1>2 DEF pluginVars
<1>3. ASSUME NEW t \in PluginThreads, PluginStep(t) PROVE row.there /\ "secret" \notin astray
  <2>1. Publishes(t) \/ row' = row
    BY <1>3, StepMemory
  <2>2. astray \subseteq astray'
    BY <1>3, StepMemory
  <2>3. ~Record(t)
    BY DEF Record, NothingBuilt, Renews, ThreadAt
  <2>4. CASE SaveConf(t)
    BY <2>2, <2>4, <1>1 DEF SaveConf, PluginRow
  <2>5. CASE SaveActive(t)
    BY <2>2, <2>5, <1>1 DEF SaveActive, PluginRow
  <2>6. CASE Erase(t)
    BY <2>6, <1>1 DEF Erase, PluginRow
  <2>7. CASE row' = row
    BY <2>2, <2>7
  <2> QED
    BY <2>1, <2>3, <2>4, <2>5, <2>6, <2>7 DEF Publishes
<1>4. ASSUME NEW p \in Processes, ProcessSteps(p) PROVE row.there /\ "secret" \notin astray
  <2>1. row' = row
    BY <1>4, ThreadsOfProcess
  <2>2. astray \subseteq astray'
    <3>1. ~Restart(p)
      <4>1. Restart(p) => asked["restart"] > 0
        BY DEF Restart, AskPlugin
      <4> QED
        BY <4>1 DEF UpdatesOnly
    <3> QED
      BY <1>4, <3>1 DEF ProcessSteps, Deliver, Delete, Upload, Update, ExcuseProcesses
  <2> QED
    BY <2>1, <2>2
<1> QED
  BY <1>2, <1>3, <1>4 DEF PluginNext, ProcessSteps

LEMMA SecretOfStep ==
    ASSUME PluginTypeOK, ObjectsKnown, SecretSound, row.there, NEW t \in PluginThreads, PluginStep(t),
           row'.there, "secret" \notin astray'
    PROVE  SecretSound'
<1>1. OnlyLoads
  BY DEF SecretSound
<1>2. /\ HostOf[thread[t].p] \in Hosts
      /\ thread[t].at \in {"row", "deinit", "folder", "conf", "active", "erase"}
  BY <1>1, StepOfLoads
<1>3. ~Outdated(t)
  <2>1. codeDir[HostOf[thread[t].p]] = [there |-> TRUE, code |-> 1, hash |-> 1] /\ thread[t].item.version = 1
    BY <1>1, <1>2, Zenon DEF OnlyLoads
  <2>2. codeDir[HostOf[thread[t].p]].hash = thread[t].item.version
    BY <2>1
  <2> QED
    BY <2>2 DEF Outdated, ThreadHost
<1>4. ~ClearFolder(t)
  BY <1>3 DEF ClearFolder
<1>5. ~(Install(t) \/ WriteHash(t) \/ LoadFromDB(t) \/ Subscribe(t) \/ Build(t) \/ Invalid(t)
        \/ Place(t) \/ Record(t))
  BY <1>2 DEF Install, WriteHash, LoadFromDB, Subscribe, Build, Invalid, Place, Record, ThreadAt
<1>6. ~InitFails(t)
  BY DEF InitFails, ExcuseProcesses, AllProcesses
<1>7. ~Erase(t)
  <2>1. row \in PluginRow
    BY DEF PluginTypeOK
  <2> QED
    BY <2>1 DEF Erase, PluginRow
<1> QED
  BY <1>4, <1>5, <1>6, <1>7, SecretOfLoad, SecretOfDeinit, SecretOfRead, SecretOfConf, SecretOfActive
     DEF PluginStep

\* Every step keeps what SecretIsKept rests on.
LEMMA SecretStep ==
    ASSUME PluginTypeOK, ObjectsKnown, SecretInv, [PluginNext]_pluginVars
    PROVE  SecretInv'
<1>1. UpdatesOnly /\ NothingBuilt /\ (row.there /\ "secret" \notin astray => SecretSound)
  BY DEF SecretInv
<1>2. UpdatesOnly' /\ NothingBuilt'
  BY <1>1, NothingIsBuilt
<1>3. ASSUME row'.there, "secret" \notin astray' PROVE SecretSound'
  <2>1. row.there /\ SecretSound
    BY <1>1, <1>3, SecretIsSought
  <2>2. CASE UNCHANGED pluginVars
    <3>1. UNCHANGED <<row, codeDir, objs, current, chan, subscribed, thread, typed>>
      BY <2>2 DEF pluginVars
    <3>2. OnlyLoads'
      BY <2>1, <3>1 DEF SecretSound, OnlyLoads
    <3>3. SavesSecret'
      BY <2>1, <3>1 DEF SecretSound, SavesSecret, HasSecret, ThreadAt, ThreadIdle
    <3>4. HoldsSecret'
      BY <2>1, <3>1 DEF SecretSound, HoldsSecret, KnowsSecret, HasSecret, TakesRow, ThreadAt
    <3>5. ObjectsDecrypt'
      BY <2>1, <3>1 DEF SecretSound, ObjectsDecrypt, ObjectDecrypts, WillLoad, ThreadAt
    <3> QED
      BY <3>2, <3>3, <3>4, <3>5 DEF SecretSound
  <2>3. CASE \E t \in PluginThreads : PluginStep(t)
    BY <2>1, <2>3, <1>3, SecretOfStep
  <2>4. ASSUME NEW p \in Processes, ProcessSteps(p) PROVE SecretSound'
    <3>1. ~Restart(p)
      <4>1. Restart(p) => asked["restart"] > 0
        BY DEF Restart, AskPlugin
      <4> QED
        BY <4>1, <1>1 DEF UpdatesOnly
    <3>2. \A update \in BOOLEAN : ~Upload(p, update)
      <4>1. \A update \in BOOLEAN : Upload(p, update) => asked["upload"] > 0
        BY DEF Upload, AskPluginNow, AskPlugin
      <4> QED
        BY <4>1, <1>1 DEF UpdatesOnly
    <3>3. CASE Deliver(p)
      BY <3>3, <2>1, SecretOfMessage
    <3>4. CASE Delete(p)
      BY <3>4, <2>1, SecretOfDelete
    <3>5. CASE \E active, more \in BOOLEAN, value \in ShownSecrets \cup {Plain(s) : s \in Secrets} :
                  Update(p, active, value, more)
      BY <3>5, <2>1, SecretOfUpdate
    <3> QED
      BY <2>4, <3>1, <3>2, <3>3, <3>4, <3>5 DEF ProcessSteps
  <2> QED
    BY <2>2, <2>3, <2>4 DEF PluginNext, ProcessSteps
<1> QED
  BY <1>2, <1>3 DEF SecretInv

\* The plugin that is there at the start has no secret.
LEMMA SecretStart ==
    ASSUME PluginInit, UpdatesOnly
    PROVE  SecretInv
<1>1. PICK there \in BOOLEAN :
        /\ row = [InstalledRow EXCEPT !.there = there]
        /\ codeDir = [h \in Hosts |-> IF there THEN [there |-> TRUE, code |-> 1, hash |-> 1]
                                     ELSE NoFolder]
        /\ objs = [p \in Processes |-> IF there THEN <<RunningPlugin>> ELSE <<>>]
        /\ current = [p \in Processes |-> IF there THEN 1 ELSE 0]
        /\ chan = [p \in Processes |-> <<>>] /\ subscribed = [p \in Processes |-> TRUE]
        /\ thread = [t \in PluginThreads |-> NoThread] /\ typed = ""
  BY DEF PluginInit
<1>2. /\ row.there = there /\ row.version = 1 /\ row.conf = EmptySecret
      /\ RunningPlugin.stored = EmptySecret /\ RunningPlugin.conf = EmptySecret /\ RunningPlugin.desc = TRUE
  BY <1>1 DEF InstalledRow, RunningPlugin, NewPlugin
<1>3. \A t \in PluginThreads : /\ thread[t].at = "idle" /\ thread[t].then = "" /\ thread[t].item.version = 1
  BY <1>1, EmptyThread
<1>4. NothingBuilt
  BY <1>3 DEF NothingBuilt, Renews, ThreadAt
<1>5. HasSecret(EmptySecret) /\ EmptySecret = DecryptSecret(EmptySecret, TRUE)
  BY <1>1 DEF HasSecret, DecryptSecret, EmptySecret, Plain
<1>6. ASSUME there PROVE SecretSound
  <2>1. \A p \in Processes : objs[p] = <<RunningPlugin>> /\ current[p] = 1 /\ chan[p] = <<>> /\ subscribed[p]
    BY <1>1, <1>6
  <2>2. OnlyLoads
    <3>1. \A h \in Hosts : codeDir[h] = [there |-> TRUE, code |-> 1, hash |-> 1]
      BY <1>1, <1>6
    <3>2. <<>> \in Seq({"init"})
      OBVIOUS
    <3>3. \A p \in Processes : current[p] # 0 /\ subscribed[p] /\ chan[p] \in Seq({"init"})
      <4>1. \A p \in Processes : chan[p] \in Seq({"init"}) /\ subscribed[p]
        BY <2>1, <3>2, Zenon
      <4>2. \A p \in Processes : current[p] # 0
        <5>1. 1 # 0
          OBVIOUS
        <5> QED
          BY <5>1, <2>1, Zenon
      <4> QED
        BY <4>1, <4>2
    <3>4. \A t \in PluginThreads :
             /\ thread[t].item.version = 1 /\ thread[t].then \in {"", "new", "erase"}
             /\ thread[t].at \in {"idle", "row", "deinit", "folder", "conf", "active", "erase"}
      BY <1>3
    <3> QED
      BY <1>2, <3>1, <3>3, <3>4, Zenon DEF OnlyLoads
  <2>3. SavesSecret
    BY <1>3 DEF SavesSecret, ThreadAt
  <2>4. \A p \in Processes : Len(objs[p]) = 1 /\ objs[p][1] = RunningPlugin
    <3>1. \A o : Len(<<o>>) = 1 /\ <<o>>[1] = o
      OBVIOUS
    <3>2. \A p \in Processes : objs[p] = <<RunningPlugin>>
      BY <2>1
    <3> QED
      BY <3>1, <3>2, Zenon
  <2>5. HoldsSecret
    <3>1. \A p \in Processes : KnowsSecret(p)
      <4> SUFFICES ASSUME NEW p \in Processes PROVE KnowsSecret(p)
        OBVIOUS
      <4>1. objs[p][current[p]].stored = EmptySecret
        BY <1>2, <2>1, <2>4
      <4> QED
        BY <4>1, <1>5, Zenon DEF KnowsSecret
    <3>2. \A t \in PluginThreads : ~TakesRow(t)
      BY <1>3 DEF TakesRow, ThreadAt
    <3> QED
      BY <3>1, <3>2, <1>2, <1>5, Zenon DEF HoldsSecret
  <2>6. ObjectsDecrypt
    <3> SUFFICES ASSUME NEW p \in Processes, NEW n \in 1 .. Len(objs[p]) PROVE ObjectDecrypts(p, n)
      BY DEF ObjectsDecrypt
    <3>1. objs[p][n] = RunningPlugin
      BY <2>4
    <3> QED
      BY <3>1, <1>2, <1>5 DEF ObjectDecrypts
  <2> QED
    BY <2>2, <2>3, <2>5, <2>6 DEF SecretSound
<1> QED
  BY <1>2, <1>4, <1>6 DEF SecretInv

LEMMA SecretOfInv ==
    ASSUME PluginTypeOK, ObjectsKnown, SecretInv
    PROVE  SecretIsKept
BY SecretWhenQuiet DEF SecretInv, SecretIsKept, HasSecret

(***************************************************************************)
(* When all messages are handled, the database keeps the secret that was    *)
(* typed last, never the placeholder that a console shows, nor what another *)
(* process had before (encryptSecretValues and updatePlugin of plugin.js),  *)
(* for any number of processes, threads, updates, deletions and failures of *)
(* init.  Uploads and restarts are left out: a process that has missed a    *)
(* message, or cannot load the plugin, saves what it holds.                 *)
(***************************************************************************)
THEOREM SecretsAreKept ==
    Spec /\ UpdatesOnly => []SecretIsKept
<1> DEFINE Kept == PluginTypeOK /\ ObjectsKnown /\ SecretInv
<1>1. Init /\ UpdatesOnly => Kept
  BY AgreeStart, SecretStart DEF Init, AgreeInv
<1>2. Kept /\ [Next]_vars => Kept'
  <2> SUFFICES ASSUME Kept, [Next]_vars PROVE Kept'
    OBVIOUS
  <2>1. [PluginNext]_pluginVars
    BY DEF Next, vars
  <2> QED
    BY <2>1, PluginShape, SecretStep
<1>3. Kept => SecretIsKept
  BY SecretOfInv
<1> HIDE DEF Kept
<1> QED
  BY <1>1, <1>2, <1>3, PTL DEF Spec

-----------------------------------------------------------------------------
(* Settings. *)

(***************************************************************************)
(* When nothing moves, each process of a host holds what Settings.json and  *)
(* the tables say, and the file has what the last tool wrote, with its      *)
(* secrets encrypted (common.js, config.js, nuboConfig.js), for any number  *)
(* of processes, workers and changes and any failures, with one tool at a   *)
(* time and outside docker, where the watcher of the file is not removed.   *)
(***************************************************************************)
THEOREM SettingsComeToRest ==
    ASSUME ~InDocker, OneTool
    PROVE  Spec => []SettingsAgree
<1>1. Init => SettingsInv
  BY SettingsStart DEF Init
<1>2. SettingsInv /\ [Next]_vars => SettingsInv'
  <2> SUFFICES ASSUME SettingsInv, [Next]_vars PROVE SettingsInv'
    OBVIOUS
  <2>1. [SettingsNext]_settingsVars
    BY DEF Next, vars, settingsVars
  <2> QED
    BY <2>1, SettingsStep
<1> QED
  BY <1>1, <1>2, SettingsRest, PTL DEF Spec
=============================================================================

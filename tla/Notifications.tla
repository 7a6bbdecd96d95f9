---------------------------- MODULE Notifications ----------------------------
(* Push notifications (Notifications.js, platformUserNotification.js): rows of
   activations keep the token under which a phone is reached. All rows here are
   of one phone, whose token its maker replaces now and then. Titles, sound and
   the users who turned an application off are left out.                      *)
EXTENDS Naturals, FiniteSets

CONSTANTS
    Rows,           \* rows of activations, of different users
    ImeiOf,         \* [Rows -> device ids]: the phone had another before
    LastToken,      \* tokens of the phone are 1 .. LastToken; 0 is none
    PushThreads,    \* requests that push
    PushBudgets     \* how many operations of each kind may be asked for, one per behaviour

PushOps == {"row", "login", "push", "rotate"}

ASSUME PushesAssumption ==
    LastToken \in Nat \ {0} /\ "none" \notin Rows /\ PushBudgets \subseteq [PushOps -> Nat]

Tokens == 0 .. LastToken

VARIABLES
    rowStatus,  \* of each row: "no", "wait", "ok" or "expired"
    regid,      \* its pushregid
    liveToken,  \* the token of the phone
    link,       \* activationLink of each row: [at, regid]
    conf,       \* checkValidLogin of each row: [at, regid], the token it was sent
    push,       \* what each request does: [at, row, regid]
    revived,    \* expired rows that got a token from a login that had begun before
    pushesLeft
pushVars == <<rowStatus, regid, liveToken, link, conf, push, revived, pushesLeft>>
-----------------------------------------------------------------------------
Quiet0 == [at |-> "idle", regid |-> 0]
NoPush == [at |-> "idle", row |-> "none", regid |-> 0]
PushAsked(op) == /\ pushesLeft[op] > 0 /\ pushesLeft' = [pushesLeft EXCEPT ![op] = @ - 1]
PushDone(p) == push' = [push EXCEPT ![p] = NoPush]

PushInit ==
    /\ rowStatus = [k \in Rows |-> "no"] /\ regid = [k \in Rows |-> 0]
    /\ liveToken = 1 /\ revived = {}
    /\ link = [k \in Rows |-> Quiet0] /\ conf = [k \in Rows |-> Quiet0]
    /\ push = [p \in PushThreads |-> NoPush]
    /\ pushesLeft \in PushBudgets
-----------------------------------------------------------------------------
\* A user asks for an activation from the phone.
RegisterRow(k) ==
    /\ rowStatus[k] = "no" /\ PushAsked("row")
    /\ rowStatus' = [rowStatus EXCEPT ![k] = "wait"]
    /\ regid' = [regid EXCEPT ![k] = liveToken]
    /\ UNCHANGED <<liveToken, link, conf, push, revived>>

\* Its link is followed: the row is read, made active ...
FollowRow(k) ==
    /\ link[k].at = "idle" /\ rowStatus[k] = "wait"
    /\ link' = [link EXCEPT ![k] = [at |-> "approve", regid |-> regid[k]]]
    /\ UNCHANGED <<rowStatus, regid, liveToken, conf, push, revived, pushesLeft>>

ApproveRow(k) ==
    /\ link[k].at = "approve"
    /\ rowStatus' = [rowStatus EXCEPT ![k] = "ok"]
    /\ link' = [link EXCEPT ![k].at = "expire"]
    /\ UNCHANGED <<regid, liveToken, conf, push, revived, pushesLeft>>

\* ... and the other rows of the device, by its id and by the token, expire.
SamePhone(k, j) == ImeiOf[j] = ImeiOf[k] \/ (link[k].regid # 0 /\ regid[j] = link[k].regid)
Displaced(k) == {j \in Rows \ {k} : rowStatus[j] \notin {"no", "expired"} /\ SamePhone(k, j)}

ExpireRows(k) ==
    /\ link[k].at = "expire"
    /\ rowStatus' = [j \in Rows |-> IF j \in Displaced(k) THEN "expired" ELSE rowStatus[j]]
    /\ regid' = [j \in Rows |-> IF j \in Displaced(k) THEN 0 ELSE regid[j]]
    /\ link' = [link EXCEPT ![k] = Quiet0]
    /\ UNCHANGED <<liveToken, conf, push, revived, pushesLeft>>

\* The maker of the phone replaces the token.
Rotate ==
    /\ liveToken < LastToken /\ PushAsked("rotate")
    /\ liveToken' = liveToken + 1
    /\ UNCHANGED <<rowStatus, regid, link, conf, push, revived>>

\* A login reads its row, which must be active, and waits for other things;
\* a token that differs from what it read is then written to the row.
LoginReads(k) ==
    /\ conf[k].at = "idle" /\ rowStatus[k] = "ok" /\ PushAsked("login")
    /\ IF regid[k] # liveToken
       THEN conf' = [conf EXCEPT ![k] = [at |-> "write", regid |-> liveToken]]
       ELSE UNCHANGED conf
    /\ UNCHANGED <<rowStatus, regid, liveToken, link, push, revived>>

LoginWrites(k) ==
    /\ conf[k].at = "write"
    /\ regid' = [regid EXCEPT ![k] = conf[k].regid]
    /\ revived' = IF rowStatus[k] = "expired" THEN revived \cup {k} ELSE revived
    /\ conf' = [conf EXCEPT ![k] = Quiet0]
    /\ UNCHANGED <<rowStatus, liveToken, link, push, pushesLeft>>
-----------------------------------------------------------------------------
StartPush(p, k) ==
    /\ push[p].at = "idle" /\ PushAsked("push")
    /\ push' = [push EXCEPT ![p] = [at |-> "read", row |-> k, regid |-> 0]]
    /\ UNCHANGED <<rowStatus, regid, liveToken, link, conf, revived>>

\* To all active devices of users who are named; rows are read again one by one.
Targeted(k) == rowStatus[k] = "ok"
PushToUser(p, k) == Targeted(k) /\ StartPush(p, k)

\* To the administrators of an organization, active or not.
PushToAdmins(p, k) == rowStatus[k] # "no" /\ StartPush(p, k)

\* From a session, to the row it was started for: what its platform shows, a
\* window of a suspended session, and its end.
OfSession(k) == rowStatus[k] \in {"ok", "expired"}
PushFromSession(p, k) == OfSession(k) /\ StartPush(p, k)
PushFromWindow(p, k) == OfSession(k) /\ StartPush(p, k)
RemoveSessionNotifications(p, k) == OfSession(k) /\ StartPush(p, k)

\* Without a token nothing is sent.
TokenOf(k) == regid[k]
SendPush(p) ==
    /\ push[p].at = "read"
    /\ LET token == TokenOf(push[p].row) IN
       IF token = 0 THEN PushDone(p)
       ELSE push' = [push EXCEPT ![p].at = "sent", ![p].regid = token]
    /\ UNCHANGED <<rowStatus, regid, liveToken, link, conf, revived, pushesLeft>>

SyncsItsRow(p, token) == regid' = [regid EXCEPT ![push[p].row] = token]

\* The gateway answers with the token that replaced the one it was given, and
\* rows that still hold the old one get the new.
SyncToken(p, token) ==
    regid' = [j \in Rows |-> IF regid[j] = push[p].regid THEN token ELSE regid[j]]

GatewayAnswers(p) ==
    /\ push[p].at = "sent"
    /\ \E token \in push[p].regid + 1 .. liveToken : SyncToken(p, token)
    /\ PushDone(p)
    /\ UNCHANGED <<rowStatus, liveToken, link, conf, revived, pushesLeft>>

\* It has nothing to tell, as another installation of this server never has, or
\* does not answer in five seconds.
GatewaySilent(p) ==
    /\ push[p].at = "sent"
    /\ PushDone(p)
    /\ UNCHANGED <<rowStatus, regid, liveToken, link, conf, revived, pushesLeft>>

PushNext ==
    \/ \E k \in Rows :
          \/ RegisterRow(k) \/ FollowRow(k) \/ ApproveRow(k) \/ ExpireRows(k)
          \/ LoginReads(k) \/ LoginWrites(k)
          \/ \E p \in PushThreads :
                \/ PushToUser(p, k) \/ PushToAdmins(p, k) \/ PushFromSession(p, k)
                \/ PushFromWindow(p, k) \/ RemoveSessionNotifications(p, k)
    \/ Rotate
    \/ \E p \in PushThreads : SendPush(p) \/ GatewayAnswers(p) \/ GatewaySilent(p)
-----------------------------------------------------------------------------
PushTypeOK ==
    /\ rowStatus \in [Rows -> {"no", "wait", "ok", "expired"}]
    /\ regid \in [Rows -> Tokens]
    /\ liveToken \in Tokens
    /\ link \in [Rows -> [at : {"idle", "approve", "expire"}, regid : Tokens]]
    /\ conf \in [Rows -> [at : {"idle", "write"}, regid : Tokens]]
    /\ push \in [PushThreads -> [at : {"idle", "read", "sent"}, row : Rows \cup {"none"}, regid : Tokens]]
    /\ revived \subseteq Rows
    /\ pushesLeft \in [PushOps -> Nat]

\* A row that a later activation of the phone made expire is never targeted
\* again (the comment at activationLink.js:452): it keeps no token, whatever
\* pushes and answers of the gateway are late, unless a login that had begun
\* before writes one.
NeverTargeted == \A k \in Rows \ revived : rowStatus[k] = "expired" => regid[k] = 0

\* Why it holds: only tokens that exist are sent and answered, and only pushes
\* that read a row get as far.
TokensAreSent ==
    /\ liveToken > 0
    /\ \A k \in Rows : conf[k].at = "write" => conf[k].regid > 0
    /\ \A p \in PushThreads :
          /\ push[p].at # "idle" => push[p].row \in Rows
          /\ push[p].at = "sent" => push[p].regid > 0

PushInv == PushTypeOK /\ TokensAreSent /\ NeverTargeted
=============================================================================

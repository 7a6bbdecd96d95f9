----------------------------- MODULE Activation -----------------------------
(* The rows of the table Activation, one for each time a device asked to be
   registered, and the handlers that move them: the request of a device
   (activateDevice.js), the link in its mail (activationLink.js), a reset of
   the passcode or of a second factor (resetPasscode.js) and the
   administrator (ControlPanel/approveUsers.js, ControlPanel/activateDevice.js).
   Every handler is a chain of statements of SQL without a transaction; each
   statement is a step, and other handlers move between two of them.          *)
EXTENDS Naturals, FiniteSets

CONSTANTS
    Keys,           \* activation keys; each is drawn once
    Users, Devices,
    Owner,          \* Owner[k]: the user and the device that ask for key k
    Requests,       \* handlers that run at the same time
    Approvals,      \* how organizations approve: subset of {"auto", "mail", "sms"}
    AllowDeviceReg,             \* allowdevicereg of the organization
    AllowMultipleUsersPerDevice,
    Budgets         \* how often each operation is asked for: one is chosen

Accounts == Users \X Devices

ASSUME ActivationAssumption ==
    /\ Owner \in [Keys -> Accounts]
    /\ Approvals \subseteq {"auto", "mail", "sms"}
    /\ AllowDeviceReg \in BOOLEAN /\ AllowMultipleUsersPerDevice \in BOOLEAN

VARIABLES
    act,        \* act[k]: the row of key k
    device,     \* device[a]: the row of UserDevices of an account
    user,       \* users that have a row
    req,        \* req[r]: the handler that runs in r
    left,       \* what may still be asked for
    broken      \* history: keys whose row nothing repairs any more, because a
                \* handler was interrupted or a row that had expired was revived

activationVars == <<act, device, user, req, left, broken>>

-----------------------------------------------------------------------------
Resets == {"passcode", "biometric", "otp"}      \* STATUS_RESET_..._PENDING

\* link: emailtoken is set and expirationdate is not over.
NoRow == [status |-> "none", link |-> FALSE, reset |-> FALSE, wipe |-> FALSE,
          push |-> FALSE, factors |-> {}]
NewRow == [NoRow EXCEPT !.status = "pending", !.link = TRUE, !.push = TRUE]
NoDevice == [row |-> FALSE, active |-> FALSE, attempts |-> 0]
NewDevice == [NoDevice EXCEPT !.row = TRUE, !.active = TRUE]
Idle == [at |-> "idle", key |-> CHOOSE k \in Keys : TRUE, mem |-> ""]

Exists(k) == act[k].status \notin {"none", "gone"}
At(r, place) == req[r].at = place
Key(r) == req[r].key
Of(r) == Owner[req[r].key]
Goto(r, place) == req' = [req EXCEPT ![r].at = place]
Done(r) == req' = [req EXCEPT ![r] = Idle]
KeysOf(a) == {k \in Keys : Owner[k] = a}
Ask(op) == left[op] > 0 /\ left' = [left EXCEPT ![op] = @ - 1]
Begin(r, k, place, mem) ==
    /\ At(r, "idle")
    /\ req' = [req EXCEPT ![r] = IF place = "idle" THEN Idle
                                 ELSE [at |-> place, key |-> k, mem |-> mem]]

\* Statements that change rows.
SetRow(k, row) == act' = IF Exists(k) THEN [act EXCEPT ![k] = row] ELSE act
Expire(K) == act' = [k \in Keys |-> IF k \in K THEN [act[k] EXCEPT !.status = "expired"] ELSE act[k]]

ActivationInit ==
    /\ act = [k \in Keys |-> NoRow]
    /\ device = [a \in Accounts |-> NoDevice]
    /\ user = {}
    /\ req = [r \in Requests |-> Idle]
    /\ left \in Budgets
    /\ broken = {}

-----------------------------------------------------------------------------
(* activate: a device asks to be registered.                               *)

Activate(r, k) ==
    /\ act[k].status = "none" /\ \A q \in Requests : ~At(q, "insert") \/ Key(q) # k
    /\ AllowDeviceReg \/ device[Owner[k]].row
    /\ Ask("activate")
    /\ Begin(r, k, "insert", "")
    /\ UNCHANGED <<act, device, user, broken>>

Insert(r) ==
    /\ At(r, "insert")
    /\ act' = [act EXCEPT ![Key(r)] = NewRow]
    /\ Goto(r, "expire")
    /\ UNCHANGED <<device, user, left, broken>>

\* The other rows of the account expire whatever their status; only then the
\* answer, and the link, the code or the automatic approval leave.
ExpireOwn(r) ==
    /\ At(r, "expire")
    /\ Expire({k \in Keys \ {Key(r)} : Exists(k) /\ Owner[k] = Of(r)})
    /\ \E approval \in Approvals :
          CASE approval = "auto" -> Goto(r, "find")
            [] approval = "sms" -> Goto(r, "code")
            [] OTHER -> Done(r)
    /\ UNCHANGED <<device, user, left, broken>>

\* The code replaces the token of the mail (also that of a reset).
SendCode(r) ==
    /\ At(r, "code")
    /\ SetRow(Key(r), [act[Key(r)] EXCEPT !.link = TRUE])
    /\ Done(r)
    /\ UNCHANGED <<device, user, left, broken>>

-----------------------------------------------------------------------------
(* activationLink: what a link does depends on the row it finds.            *)

Found(k) ==
    CASE ~act[k].link -> "idle"
      [] act[k].status = "pending" -> "user"
      [] act[k].status = "passcode" /\ act[k].wipe -> "wipe"
      [] act[k].status \in Resets -> "confirm"
      [] act[k].status = "ok" -> "unlock"
      [] OTHER -> "idle"

Kind(k) == IF act[k].status \in Resets THEN act[k].status ELSE ""

Link(r, k) ==
    /\ act[k].link
    /\ Ask("link")
    /\ Begin(r, k, Found(k), Kind(k))
    /\ UNCHANGED <<act, device, user, broken>>

\* The same link, called by activate or by the administrator's approval.
FindRow(r) ==
    /\ At(r, "find")
    /\ req' = [req EXCEPT ![r] = IF Found(Key(r)) = "idle" THEN Idle
                                 ELSE [at |-> Found(Key(r)), key |-> Key(r), mem |-> Kind(Key(r))]]
    /\ UNCHANGED <<act, device, user, left, broken>>

\* A new user is enrolled in the group All before the handler goes on (see
\* Directory).
CreateUser(r) ==
    /\ At(r, "user")
    /\ user' = user \cup {Of(r)[1]}
    /\ Goto(r, IF Of(r)[1] \in user THEN "activate" ELSE "enrol")
    /\ UNCHANGED <<act, device, left, broken>>

\* The row may have been refused, expired or deleted since it was found: its
\* status is not looked at again.
SetOk(r) ==
    /\ At(r, "activate")
    /\ SetRow(Key(r), [act[Key(r)] EXCEPT !.status = "ok"])
    /\ Goto(r, "others")
    /\ UNCHANGED <<device, user, left, broken>>

\* Mutant: only the rows that still wait are looked for.
OnSameDeviceMutant(r) ==
    {k \in Keys \ {Key(r)} :
        /\ act[k].status = "pending"
        /\ Owner[k][2] = Of(r)[2]
        /\ AllowMultipleUsersPerDevice => Owner[k] = Of(r)}

OnSameDevice(r) ==
    {k \in Keys \ {Key(r)} :
        /\ Exists(k) /\ act[k].status # "expired"
        /\ Owner[k][2] = Of(r)[2]
        /\ AllowMultipleUsersPerDevice => Owner[k] = Of(r)}

\* Every other account of the device; an error is only logged.
ExpireOthers(r) ==
    /\ At(r, "others")
    /\ \/ /\ act' = [k \in Keys |-> IF k \in OnSameDevice(r)
                                      THEN [act[k] EXCEPT !.status = "expired", !.push = FALSE]
                                      ELSE act[k]]
          /\ UNCHANGED <<left, broken>>
       \/ Ask("fault") /\ UNCHANGED act /\ broken' = broken \cup OnSameDevice(r)
    /\ Goto(r, "load")
    /\ UNCHANGED <<device, user>>

LoadDevice(r) ==
    /\ At(r, "load")
    /\ req' = [req EXCEPT ![r].at = "write", ![r].mem = IF device[Of(r)].row THEN "found" ELSE ""]
    /\ UNCHANGED <<act, device, user, left, broken>>

\* A row that was not there is created; if somebody else did it meanwhile
\* the statement fails.  One that was there gets new details.
WriteDevice(r) ==
    /\ At(r, "write")
    /\ IF req[r].mem = "" /\ ~device[Of(r)].row
         THEN device' = [device EXCEPT ![Of(r)] = NewDevice]
         ELSE UNCHANGED device
    /\ Done(r)
    /\ UNCHANGED <<act, user, left, broken>>

\* userUtils.wipeUserDevice, before the row is touched.
Wipe(r) ==
    /\ At(r, "wipe")
    /\ Goto(r, "confirm")
    /\ UNCHANGED <<act, device, user, left, broken>>

\* The reset is approved, if it still waits.
Approved(row, kind) ==
    IF kind = "passcode" THEN [row EXCEPT !.status = "ok", !.reset = TRUE]
    ELSE [row EXCEPT !.status = "ok", !.factors = @ \ {kind}]

Confirm(r) ==
    /\ At(r, "confirm")
    /\ LET row == act[Key(r)] IN
          IF row.status = req[r].mem THEN SetRow(Key(r), Approved(row, req[r].mem))
          ELSE UNCHANGED act
    /\ Done(r)
    /\ UNCHANGED <<device, user, left, broken>>

\* The link of an active row unlocks the passcode.
UnlockByLink(r) ==
    /\ At(r, "unlock")
    /\ device' = [device EXCEPT ![Of(r)].attempts = 0]
    /\ Done(r)
    /\ UNCHANGED <<act, user, left, broken>>

-----------------------------------------------------------------------------
(* resetPasscode.                                                          *)

\* Asked with a login of the key (see Login); only that the row exists is
\* looked at, not its status.
ResetPasscode(r, k, kind) ==
    /\ Exists(k)
    /\ Ask("reset")
    /\ Begin(r, k, "mark", kind)
    /\ UNCHANGED <<act, device, user, broken>>

MarkReset(r) ==
    /\ At(r, "mark")
    /\ \E wipe \in BOOLEAN :
          /\ wipe => req[r].mem = "passcode"
          /\ SetRow(Key(r), [act[Key(r)] EXCEPT !.status = req[r].mem, !.link = TRUE,
                                                !.reset = FALSE, !.wipe = wipe])
    /\ \/ "sms" \in Approvals /\ device[Of(r)].row /\ Goto(r, "code")
       \/ Approvals # {"sms"} /\ Done(r)
    /\ UNCHANGED <<device, user, left>>
    /\ broken' = IF act[Key(r)].status = "expired" THEN broken \cup {Key(r)} ELSE broken

CancelReset(r, k) ==
    /\ act[k].status \in Resets
    /\ Ask("cancel")
    /\ Begin(r, k, "restore", "")
    /\ UNCHANGED <<act, device, user, broken>>

\* Whatever the row has become since.
Restore(r) ==
    /\ At(r, "restore")
    /\ SetRow(Key(r), [act[Key(r)] EXCEPT !.status = "ok", !.link = FALSE, !.reset = FALSE])
    /\ Done(r)
    /\ UNCHANGED <<device, user, left>>
    /\ broken' = IF act[Key(r)].status = "expired" THEN broken \cup {Key(r)} ELSE broken

-----------------------------------------------------------------------------
(* The administrator.                                                      *)

\* ActivateByEmailAndDeviceId and activateAll click the links themselves and
\* wait for none of them.
Approve(r, k) ==
    /\ act[k].status = "pending"
    /\ Ask("admin")
    /\ Begin(r, k, "find", "")
    /\ UNCHANGED <<act, device, user, broken>>

Deny(a) ==
    /\ Ask("admin")
    /\ Expire({k \in Keys : act[k].status = "pending" /\ Owner[k] = a})
    /\ UNCHANGED <<device, user, req, broken>>

DenyAll ==
    /\ Ask("admin")
    /\ Expire({k \in Keys : act[k].status = "pending"})
    /\ UNCHANGED <<device, user, req, broken>>

\* resetPasscodeUser, resetBiometricFunc, resetOTPFunc.
AnswerReset(a, kind, yes) ==
    /\ Ask("admin")
    /\ act' = [k \in Keys |->
          IF act[k].status # kind \/ Owner[k] # a THEN act[k]
          ELSE IF yes THEN [Approved(act[k], kind) EXCEPT !.link = FALSE]
          ELSE [act[k] EXCEPT !.status = "ok", !.link = FALSE,
                              !.reset = IF kind = "passcode" THEN FALSE ELSE @]]
    /\ UNCHANGED <<device, user, req, broken>>

UnlockUser(a) ==
    /\ Ask("admin")
    /\ device' = [device EXCEPT ![a].attempts = 0]
    /\ UNCHANGED <<act, user, req, broken>>

\* Mutant: the rows of the activations are left.
DeleteDeviceMutant(r, k) ==
    /\ Ask("device")
    /\ Begin(r, k, "idle", "")
    /\ device' = [device EXCEPT ![Owner[k]] = NoDevice]
    /\ UNCHANGED <<act, user, broken>>

\* deleteDevice: the row of the device, then those of its activations.
DeleteDevice(r, k) ==
    /\ Ask("device")
    /\ Begin(r, k, "rows", "")
    /\ device' = [device EXCEPT ![Owner[k]] = NoDevice]
    /\ UNCHANGED <<act, user, broken>>

DeleteRows(r) ==
    /\ At(r, "rows")
    /\ act' = [k \in Keys |-> IF Exists(k) /\ Owner[k] = Of(r)
                                THEN [NoRow EXCEPT !.status = "gone"] ELSE act[k]]
    /\ Done(r)
    /\ UNCHANGED <<device, user, left, broken>>

AddDevice(r, k) ==
    /\ ~device[Owner[k]].row
    /\ Ask("device")
    /\ Begin(r, k, "create", "")
    /\ UNCHANGED <<act, device, user, broken>>

CreateDevice(r) ==
    /\ At(r, "create")
    /\ device' = IF device[Of(r)].row THEN device ELSE [device EXCEPT ![Of(r)] = NewDevice]
    /\ Done(r)
    /\ UNCHANGED <<act, user, left, broken>>

\* activateDevice of the control panel: found, then enabled or disabled.
EnableDevice(r, k, yes) ==
    /\ device[Owner[k]].row
    /\ Ask("device")
    /\ Begin(r, k, "active", IF yes THEN "yes" ELSE "no")
    /\ UNCHANGED <<act, device, user, broken>>

SetActive(r) ==
    /\ At(r, "active")
    /\ device' = IF device[Of(r)].row
                   THEN [device EXCEPT ![Of(r)].active = (req[r].mem = "yes")] ELSE device
    /\ Done(r)
    /\ UNCHANGED <<act, user, left, broken>>

-----------------------------------------------------------------------------
\* expirationdate is over.
LinkExpires(k) ==
    /\ act[k].link
    /\ Ask("expire")
    /\ act' = [act EXCEPT ![k].link = FALSE]
    /\ UNCHANGED <<device, user, req, broken>>

\* A statement fails or the process ends: what was done stays.
Interrupted(r) ==
    /\ ~At(r, "idle")
    /\ Ask("fault")
    /\ Done(r)
    /\ broken' = IF req[r].at \in {"others", "load", "write", "rows"}
                   THEN broken \cup KeysOf(Of(r)) \cup OnSameDevice(r) ELSE broken
    /\ UNCHANGED <<act, device, user>>

RequestStep(r) ==
    \/ Insert(r) \/ ExpireOwn(r) \/ SendCode(r)
    \/ FindRow(r) \/ CreateUser(r) \/ SetOk(r) \/ ExpireOthers(r) \/ LoadDevice(r) \/ WriteDevice(r)
    \/ Wipe(r) \/ Confirm(r) \/ UnlockByLink(r) \/ MarkReset(r) \/ Restore(r)
    \/ DeleteRows(r) \/ CreateDevice(r) \/ SetActive(r)

\* Operations on an account are given by one of its keys.
Lead(k) == k = CHOOSE j \in Keys : Owner[j] = Owner[k]

\* What users, devices and administrators ask for, apart from resets, which
\* need a login.
Asked ==
    \/ \E r \in Requests, k \in Keys :
          Activate(r, k) \/ Link(r, k) \/ CancelReset(r, k) \/ Approve(r, k)
    \/ \E r \in Requests, k \in {j \in Keys : Lead(j)} :
          \/ DeleteDevice(r, k) \/ AddDevice(r, k)
          \/ \E yes \in BOOLEAN : EnableDevice(r, k, yes)
    \/ \E k \in {j \in Keys : Lead(j)} :
          \/ Deny(Owner[k]) \/ UnlockUser(Owner[k])
          \/ \E kind \in Resets, yes \in BOOLEAN : AnswerReset(Owner[k], kind, yes)
    \/ DenyAll
    \/ \E k \in Keys : LinkExpires(k)
=============================================================================

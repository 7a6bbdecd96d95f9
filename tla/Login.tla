------------------------------- MODULE Login --------------------------------
(* The login of a device: a hash of Redis under a random token, made by
   validate, and the handlers that collect in it the factors the user has
   given (login.js, validate.js, checkPasscode.js, setPasscode.js,
   checkBiometric.js, otp.js, otpNubo.js, loginAttempts.js, unlockPassword.js).
   Every handler loads the whole hash, waits for the database and saves the
   whole copy: what another handler wrote meanwhile is lost, and a hash that
   was deleted is there again.                                              *)
EXTENDS Activation

CONSTANTS
    Tokens,             \* login tokens; each is drawn once
    MaxLoginAttempts,
    SecondMethods,      \* second factors of the organization
    OtpLockDevice,      \* a wrong second factor counts as a wrong passcode
    WebDevices          \* devices whose id contains "web"

ASSUME LoginAssumption ==
    /\ MaxLoginAttempts \in Nat \ {0}
    /\ SecondMethods \subseteq {"biometric", "otp", "sms"}
    /\ OtpLockDevice \in BOOLEAN
    /\ WebDevices \subseteq Devices
    /\ "none" \notin Keys

VARIABLES
    login,      \* login[t]: the hash of token t
    copy,       \* copy[r]: the login object of handler r and what it read
    passcode,   \* users that have a passcode
    disabled,   \* users an administrator deactivated
    mail,       \* mail[u]: the device named in the last unlock mail of u
    given       \* history: the factors given under each token

loginVars == <<login, copy, passcode, disabled, mail, given>>

-----------------------------------------------------------------------------
NoLogin == [key |-> "none", live |-> FALSE, pend |-> FALSE, password |-> FALSE, second |-> FALSE]
Nothing == [token |-> CHOOSE t \in Tokens : TRUE, login |-> NoLogin, attempts |-> 0, right |-> FALSE]
Unused == {t \in Tokens : login[t].key = "none"}

WebClient(k) == Owner[k][2] \in WebDevices

\* checkValidLogin for each clientauthtype of an organization: one of the
\* console (adminLogin) needs the password whatever the type is, and a web
\* client the password alone where others need both factors.
Valid(l, clientauthtype, adminLogin) ==
    IF adminLogin THEN l.password
    ELSE CASE clientauthtype = "none" -> TRUE
           [] clientauthtype = "password" -> l.password
           [] clientauthtype = "second" -> l.second
           [] clientauthtype = "both" -> l.password /\ (l.second \/ WebClient(l.key))
           [] clientauthtype = "either" -> l.password \/ l.second

LoginInit ==
    /\ login = [t \in Tokens |-> NoLogin]
    /\ copy = [r \in Requests |-> Nothing]
    /\ passcode = {} /\ disabled = {}
    /\ mail = [u \in Users |-> "none"]
    /\ given = [t \in Tokens |-> {}]

-----------------------------------------------------------------------------
(* A handler's place is in req; Load starts it with a copy of the hash.     *)

User(r) == Owner[copy[r].login.key][1]
Account(r) == Owner[copy[r].login.key]
Row(r) == copy[r].login.key

End(r) == Done(r) /\ copy' = [copy EXCEPT ![r] = Nothing]

Load(r, t, place, method, right) ==
    /\ login[t].live
    /\ Begin(r, login[t].key, place, method)
    /\ copy' = [copy EXCEPT ![r] = [Nothing EXCEPT !.token = t, !.login = login[t], !.right = right]]

\* HMSET of the copy: a hash that is gone comes back.
Save(r, l) == login' = [login EXCEPT ![copy[r].token] = l]
Del(r) == login' = [login EXCEPT ![copy[r].token].live = FALSE]
Give(r, factor) == given' = [given EXCEPT ![copy[r].token] = @ \cup {factor}]

\* What a step leaves alone.
SameRows == UNCHANGED <<act, device, user, left, broken>>
SamePeople == UNCHANGED <<passcode, disabled, mail>>

-----------------------------------------------------------------------------
(* validate: the row of the activation, the user, the device; then a login.  *)

Validate(r, k) ==
    /\ act[k].status = "ok"
    /\ Ask("validate")
    /\ Begin(r, k, "vuser", "")
    /\ copy' = [copy EXCEPT ![r].login = [NoLogin EXCEPT !.key = k, !.pend = act[k].reset]]
    /\ UNCHANGED <<act, device, user, broken, login, given>> /\ SamePeople

\* A user that was deleted meanwhile is created again, without a passcode.
ValidateUser(r) ==
    /\ At(r, "vuser")
    /\ user' = user \cup {User(r)}
    /\ \/ User(r) \notin user /\ Goto(r, "venrol")
       \/ User(r) \in user \ disabled /\ Goto(r, "vdevice")
       \/ User(r) \in user \cap disabled /\ Done(r)
    /\ copy' = IF User(r) \in user \cap disabled THEN [copy EXCEPT ![r] = Nothing]
               ELSE [copy EXCEPT ![r].login.pend = @ \/ User(r) \notin passcode]
    /\ UNCHANGED <<act, device, left, broken, login, given>> /\ SamePeople

ValidateDevice(r) ==
    /\ At(r, "vdevice")
    /\ IF device[Account(r)].row /\ device[Account(r)].active
          /\ device[Account(r)].attempts < MaxLoginAttempts
         THEN Goto(r, "vsave") /\ UNCHANGED copy
         ELSE End(r)
    /\ SameRows /\ UNCHANGED <<login, given>> /\ SamePeople

CreateLogin(r) ==
    /\ At(r, "vsave")
    /\ Unused # {}
    /\ login' = [login EXCEPT ![CHOOSE t \in Unused : TRUE] = [copy[r].login EXCEPT !.live = TRUE]]
    /\ End(r)
    /\ SameRows /\ UNCHANGED given /\ SamePeople

-----------------------------------------------------------------------------
(* getClientConf, which refuses a web client, and resendOtpCode, which only
   saves its copy.                                                          *)

GetClientConf(r, t) ==
    /\ Ask("conf")
    /\ \/ Load(r, t, "push", "", FALSE) /\ ~WebClient(login[t].key)
       \/ Load(r, t, "save", "", FALSE)
    /\ UNCHANGED <<act, device, user, broken, login, given>> /\ SamePeople

\* The new registration of push is written to the row whatever its status.
UpdatePush(r) ==
    /\ At(r, "push")
    /\ SetRow(Row(r), [act[Row(r)] EXCEPT !.push = TRUE])
    /\ Goto(r, "save")
    /\ UNCHANGED <<device, user, left, broken, copy, login, given>> /\ SamePeople

SaveConf(r) ==
    /\ At(r, "save")
    /\ Save(r, copy[r].login)
    /\ End(r)
    /\ SameRows /\ UNCHANGED given /\ SamePeople

-----------------------------------------------------------------------------
(* checkPasscode; right: the passcode is the user's.                        *)

CheckPasscode(r, t, right) ==
    /\ Ask("passcode")
    /\ ~login[t].pend
    /\ Load(r, t, "puser", "", right)
    /\ UNCHANGED <<act, device, user, broken, login, given>> /\ SamePeople

\* Any error deletes the login.
PasscodeUser(r) ==
    /\ At(r, "puser")
    /\ IF User(r) \in user
         THEN /\ req' = [req EXCEPT ![r].at = "pdevice",
                                     ![r].mem = IF User(r) \in disabled THEN "no" ELSE ""]
              /\ copy' = [copy EXCEPT ![r].right = @ /\ User(r) \in passcode]
              /\ UNCHANGED login
         ELSE End(r) /\ Del(r)
    /\ SameRows /\ UNCHANGED given /\ SamePeople

PasscodeDevice(r) ==
    /\ At(r, "pdevice")
    /\ LET d == device[Account(r)] IN
          IF ~d.row \/ ~d.active \/ req[r].mem = "no"
            THEN End(r) /\ Del(r) /\ UNCHANGED given
            ELSE /\ UNCHANGED login
                 /\ copy' = [copy EXCEPT ![r].attempts = d.attempts]
                 /\ IF copy[r].right THEN Goto(r, "pright") /\ Give(r, "passcode")
                    ELSE Goto(r, "pwrong") /\ UNCHANGED given
    /\ SameRows /\ SamePeople

\* The flag is saved before the attempts are reset and the age of the
\* passcode is looked at.
PasscodeRight(r) ==
    /\ At(r, "pright")
    /\ copy' = [copy EXCEPT ![r].login.password = TRUE]
    /\ Save(r, [copy[r].login EXCEPT !.password = TRUE])
    /\ Goto(r, IF copy[r].attempts = 0 THEN "pdone" ELSE "preset")
    /\ SameRows /\ UNCHANGED given /\ SamePeople

\* checkAndUpdateAttempts; it throws if the device is gone, and checkPasscode
\* then deletes the login.
ResetAttempts(r) ==
    /\ At(r, "preset")
    /\ LET d == device[Account(r)] IN
          /\ device' = [device EXCEPT ![Account(r)].attempts = 0]
          /\ IF d.row /\ req[r].mem = "" THEN Goto(r, "pdone") /\ UNCHANGED copy ELSE End(r)
          /\ IF d.row \/ req[r].mem # "" THEN UNCHANGED login ELSE Del(r)
    /\ UNCHANGED <<act, user, left, broken, given>> /\ SamePeople

\* An expired passcode ends without the second save.
PasscodeDone(r) ==
    /\ At(r, "pdone")
    /\ Save(r, copy[r].login) \/ UNCHANGED login
    /\ End(r)
    /\ SameRows /\ UNCHANGED given /\ SamePeople

\* checkAndUpdateAttempts reads the number and writes it in a later statement.
ReadAttempts(r) ==
    /\ At(r, "pwrong")
    /\ IF device[Account(r)].row
         THEN /\ copy' = [copy EXCEPT ![r].attempts = device[Account(r)].attempts]
              /\ Goto(r, "pcount")
              /\ UNCHANGED login
         ELSE End(r) /\ IF req[r].mem = "" THEN Del(r) ELSE UNCHANGED login
    /\ SameRows /\ UNCHANGED given /\ SamePeople

CountAttempt(r) ==
    /\ At(r, "pcount")
    /\ device' = IF device[Account(r)].row
                   THEN [device EXCEPT ![Account(r)].attempts = copy[r].attempts + 1] ELSE device
    /\ IF copy[r].attempts + 1 >= MaxLoginAttempts THEN Goto(r, "plock") /\ UNCHANGED copy
       ELSE End(r)
    /\ UNCHANGED <<act, user, left, broken, login, given>> /\ SamePeople

\* findUserSendLockNotification: a new token of the user goes out with the
\* name of this device; by SMS the code goes into the row.
LockNotification(r) ==
    /\ At(r, "plock")
    /\ Del(r)
    /\ IF User(r) \in user THEN mail' = [mail EXCEPT ![User(r)] = Account(r)[2]] ELSE UNCHANGED mail
    /\ \/ Approvals # {"sms"} /\ UNCHANGED act
       \/ "sms" \in Approvals /\ User(r) \in user /\ SetRow(Row(r), [act[Row(r)] EXCEPT !.link = TRUE])
    /\ End(r)
    /\ UNCHANGED <<device, user, left, broken, given, passcode, disabled>>

ResendUnlockLink(k) ==
    /\ act[k].status = "ok" /\ Owner[k][1] \in user
    /\ Ask("unlock")
    /\ mail' = [mail EXCEPT ![Owner[k][1]] = Owner[k][2]]
    /\ UNCHANGED <<act, device, user, req, broken, login, copy, passcode, disabled, given>>

\* Only the last mail's token is the user's.
UnlockPassword(u) ==
    /\ mail[u] # "none" /\ u \in user
    /\ Ask("unlock")
    /\ device' = [device EXCEPT ![<<u, mail[u]>>].attempts = 0]
    /\ UNCHANGED <<act, user, req, broken>> /\ UNCHANGED loginVars

-----------------------------------------------------------------------------
(* setPasscode: for a login that has to, or with the old passcode.          *)

SetPasscode(r, t, old) ==
    /\ Ask("passcode")
    /\ Load(r, t, "suser", "", old)
    /\ UNCHANGED <<act, device, user, broken, login, given>> /\ SamePeople

Allowed(r) == User(r) \in user /\ IF copy[r].right THEN User(r) \in passcode ELSE copy[r].login.pend

SetPasscodeUser(r) ==
    /\ At(r, "suser")
    /\ \/ Allowed(r) /\ Goto(r, "swrite") /\ UNCHANGED copy
       \/ End(r)          \* refused, or a passcode that was used before
    /\ SameRows /\ UNCHANGED <<login, given>> /\ SamePeople

WritePasscode(r) ==
    /\ At(r, "swrite")
    /\ passcode' = IF User(r) \in user THEN passcode \cup {User(r)} ELSE passcode
    /\ Give(r, "passcode")
    /\ Goto(r, "sclear")
    /\ SameRows /\ UNCHANGED <<copy, login, disabled, mail>>

\* A reset that was approved meanwhile is forgotten too.
ClearReset(r) ==
    /\ At(r, "sclear")
    /\ SetRow(Row(r), [act[Row(r)] EXCEPT !.reset = FALSE])
    /\ copy' = [copy EXCEPT ![r].login.pend = FALSE, ![r].login.password = TRUE]
    /\ Goto(r, "save")
    /\ UNCHANGED <<device, user, left, broken, login, given>> /\ SamePeople

-----------------------------------------------------------------------------
(* checkBiometric and checkOtpAuth with a token of the device; kind is the
   factor whose token the row holds, "sms" a code that was sent.            *)

CheckSecond(r, t, kind, right) ==
    /\ kind \in SecondMethods
    /\ Ask("second")
    /\ Load(r, t, IF kind = "sms" THEN "sms" ELSE "factor", kind, right)
    /\ UNCHANGED <<act, device, user, broken, login, given>> /\ SamePeople

Refuse(r) ==
    IF OtpLockDevice /\ req[r].mem # "biometric" THEN Goto(r, "pwrong") /\ UNCHANGED copy ELSE End(r)

\* A row without a token takes the first one it is given; a biometric token
\* is written again even if it was there.
ReadSecond(r) ==
    /\ At(r, "factor")
    /\ LET kind == req[r].mem
           new == kind \notin act[Row(r)].factors IN
          IF Exists(Row(r)) /\ (copy[r].right \/ new)
            THEN /\ Goto(r, IF new \/ kind = "biometric" THEN "token" ELSE "second")
                 /\ Give(r, "second")
                 /\ UNCHANGED copy
            ELSE Refuse(r) /\ UNCHANGED given
    /\ SameRows /\ UNCHANGED login /\ SamePeople

\* This undoes a reset that was approved since the token was read.
WriteToken(r) ==
    /\ At(r, "token")
    /\ SetRow(Row(r), [act[Row(r)] EXCEPT !.factors = @ \cup {req[r].mem}])
    /\ Goto(r, "second")
    /\ UNCHANGED <<device, user, left, broken, copy, login, given>> /\ SamePeople

\* Mutant: the flag is saved with the counter, before the code is compared.
CheckSmsMutant(r) ==
    /\ At(r, "sms")
    /\ \/ Refuse(r) /\ UNCHANGED <<login, given>>
       \/ /\ Save(r, [copy[r].login EXCEPT !.second = TRUE])
          /\ IF copy[r].right THEN Goto(r, "second") /\ Give(r, "second") /\ UNCHANGED copy
             ELSE Refuse(r) /\ UNCHANGED given
    /\ SameRows /\ SamePeople

\* The counter of the codes is saved before the code is compared; no code is
\* compared when its timer is over.
CheckSms(r) ==
    /\ At(r, "sms")
    /\ \/ Refuse(r) /\ UNCHANGED <<login, given>>
       \/ /\ Save(r, copy[r].login)
          /\ IF copy[r].right THEN Goto(r, "second") /\ Give(r, "second") /\ UNCHANGED copy
             ELSE Refuse(r) /\ UNCHANGED given
    /\ SameRows /\ SamePeople

SaveSecond(r) ==
    /\ At(r, "second")
    /\ Save(r, [copy[r].login EXCEPT !.second = TRUE])
    /\ IF OtpLockDevice /\ req[r].mem # "biometric" THEN Goto(r, "preset") /\ UNCHANGED copy ELSE End(r)
    /\ SameRows /\ UNCHANGED given /\ SamePeople

-----------------------------------------------------------------------------
\* expireSeconds of the hash are over.
LoginExpires(t) ==
    /\ login[t].live
    /\ Ask("expire")
    /\ login' = [login EXCEPT ![t].live = FALSE]
    /\ UNCHANGED <<act, device, user, req, broken, copy, given>> /\ SamePeople

\* A reset is asked for with a login.
AskReset(r, t, kind) == login[t].live /\ ResetPasscode(r, login[t].key, kind)

LoginStep(r) ==
    \/ ValidateUser(r) \/ ValidateDevice(r) \/ CreateLogin(r)
    \/ UpdatePush(r) \/ SaveConf(r)
    \/ PasscodeUser(r) \/ PasscodeDevice(r) \/ PasscodeRight(r) \/ ResetAttempts(r)
    \/ PasscodeDone(r) \/ ReadAttempts(r) \/ CountAttempt(r) \/ LockNotification(r)
    \/ SetPasscodeUser(r) \/ WritePasscode(r) \/ ClearReset(r)
    \/ ReadSecond(r) \/ WriteToken(r) \/ CheckSms(r) \/ SaveSecond(r)

LoginAsked ==
    \/ \E r \in Requests, k \in Keys : Validate(r, k)
    \/ \E r \in Requests, t \in Tokens :
          \/ GetClientConf(r, t)
          \/ \E yes \in BOOLEAN : CheckPasscode(r, t, yes) \/ SetPasscode(r, t, yes)
          \/ \E kind \in SecondMethods, right \in BOOLEAN : CheckSecond(r, t, kind, right)
    \/ \E k \in Keys : ResendUnlockLink(k)
    \/ \E u \in Users : UnlockPassword(u)
    \/ \E t \in Tokens : LoginExpires(t)
=============================================================================

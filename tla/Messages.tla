------------------------------ MODULE Messages -------------------------------
(* Text messages between users and the world (SmsNotification.js): a message
   for a user goes to the platform of his session, or waits in redis until the
   next session of his device has started. Each request runs in a process of
   its own. The session itself is SessionController's; here it is what the
   requests see of it. Equal texts, which the redis set would merge, are left
   out.                                                                       *)
EXTENDS Naturals, FiniteSets

CONSTANTS
    Texts,           \* messages
    MessageThreads,  \* requests
    SmsRoutes,       \* what sendSms may find: "remote", "provider", "script", "none"
    LastSession,     \* sessions are numbered up to this
    SlowStore,       \* a store in redis may take longer than the 3 s before a delivery
    MessageBudgets   \* how many operations of each kind may be asked for, one per behaviour

MessageOps == {"message", "session", "end", "fault"}

ASSUME MessagesAssumption ==
    /\ LastSession \in Nat /\ MessageBudgets \subseteq [MessageOps -> Nat]
    /\ Texts \cap {"none", "no", "timer", "pop", "failed"} = {}

SessionIds == 1 .. LastSession

VARIABLES
    fate,      \* of each text: "new", "moving", "unread" (its session could not be read),
               \* "given", "outside", "refused", "unanswered" or "dropped"
    told,      \* texts whose sender was told that they are on their way
    kept,      \* msgs_<email>_<deviceid>
    phone,     \* the session of the device: [n, is], is "none", "building", "running" or "plugin"
    ofPlugin,  \* sessions that plugins run
    delivery,  \* of each session: "no", "timer", "pop", "failed", or the text that is being given
    request,   \* what each request does: [at, t, from, wakes]
    messagesLeft
messageVars == <<fate, told, kept, phone, ofPlugin, delivery, request, messagesLeft>>
-----------------------------------------------------------------------------
NoRequest == [at |-> "idle", t |-> "none", from |-> "none"]
MessageAt(r, place) == request[r].at = place
TextOf(r) == request[r].t
FromUser(r) == request[r].from = "user"
MessageGoes(r, place) == request' = [request EXCEPT ![r].at = place]
Answered(r) == request' = [request EXCEPT ![r] = NoRequest]
Fated(r, f) == fate' = [fate EXCEPT ![TextOf(r)] = f]
MessageAsked(op) ==
    /\ messagesLeft[op] > 0
    /\ messagesLeft' = [messagesLeft EXCEPT ![op] = @ - 1]
MessageFault == MessageAsked("fault")

MessageInit ==
    /\ fate = [t \in Texts |-> "new"] /\ told = {} /\ kept = {}
    /\ phone = [n |-> 0, is |-> "none"] /\ ofPlugin = {}
    /\ delivery = [n \in SessionIds |-> "no"]
    /\ request = [r \in MessageThreads |-> NoRequest]
    /\ messagesLeft \in MessageBudgets

Accept(r, t, from, place) ==
    /\ MessageAt(r, "idle") /\ fate[t] = "new"
    /\ MessageAsked("message")
    /\ fate' = [fate EXCEPT ![t] = "moving"]
    /\ request' = [request EXCEPT ![r] = [at |-> place, t |-> t, from |-> from]]
    /\ UNCHANGED <<told, kept, phone, delivery>>

\* A provider brings a message. It is acknowledged whatever becomes of it.
ReceiveSMS(r, t) == Accept(r, t, "provider", "device")

\* A user sends one: from the number of his row, or from the shared number of
\* the old route.
PlatformUserSendSms(r, t) == Accept(r, t, "user", "sender")

\* Another installation has one sent; it is told of a failure whatever happens.
SendFromRemoteServer(r, t) == Accept(r, t, "remote", "outside")

\* A plain request passes its callback as the number of the sender, so that it is
\* never answered.
SendSmsNotification(r, t) == Accept(r, t, "remote", "outside")

Refuse(r) ==
    /\ Fated(r, "refused") /\ Answered(r)
    /\ UNCHANGED <<told, kept, phone, delivery>>

FindSender(r) ==
    /\ MessageAt(r, "sender")
    /\ \/ /\ MessageGoes(r, "device") /\ UNCHANGED messagesLeft
          /\ UNCHANGED <<fate, told, kept, phone, delivery>>
       \/ MessageFault /\ Refuse(r)

\* The user row of the number. Without one, or when the database fails, a
\* provider's message is refused and a user's goes to a provider.
FindRecipient(r) ==
    /\ MessageAt(r, "device")
    /\ \/ /\ MessageGoes(r, "session") /\ UNCHANGED messagesLeft
          /\ UNCHANGED <<fate, told, kept, phone, delivery>>
       \/ /\ MessageFault
          /\ \/ FromUser(r) /\ MessageGoes(r, "outside")
                /\ UNCHANGED <<fate, told, kept, phone, delivery>>
             \/ ~FromUser(r) /\ Refuse(r)

\* A session that is still being built or that belongs to a plugin has no localid.
Reachable(s) == s.is = "running"

Tell(r) == told' = IF FromUser(r) THEN told \cup {TextOf(r)} ELSE told

\* Without a session that can be reached the message is to be added to the set
\* of the device; its sender is told before redis has answered.
FindSession(r) ==
    /\ MessageAt(r, "session")
    /\ \/ /\ Reachable(phone) /\ MessageGoes(r, "platform")
          /\ UNCHANGED <<fate, told, messagesLeft>>
       \/ /\ ~Reachable(phone) /\ MessageGoes(r, "keep")
          /\ Tell(r)
          /\ UNCHANGED <<fate, messagesLeft>>
       \/ /\ Reachable(phone) /\ MessageFault
          /\ Fated(r, "unread") /\ Tell(r) /\ MessageGoes(r, "keep")
    /\ UNCHANGED <<kept, phone, delivery>>

\* The platform takes the message. When it does not (the session has ended, the
\* platform fails), callback(msg) names no variable: the exception is only
\* logged, and the message is neither kept nor answered.
GiveToPlatform(r) ==
    /\ MessageAt(r, "platform")
    /\ \/ phone.is = "running" /\ Fated(r, "given") /\ Tell(r) /\ UNCHANGED messagesLeft
       \/ phone.is # "running" /\ Fated(r, "dropped") /\ UNCHANGED <<told, messagesLeft>>
       \/ MessageFault /\ Fated(r, "dropped") /\ UNCHANGED told
    /\ Answered(r)
    /\ UNCHANGED <<kept, phone, delivery>>

\* The message is added to the set of the device, and a session is asked for.
\* An error of redis is only logged.
KeepForLater(r) ==
    /\ MessageAt(r, "keep")
    /\ \/ kept' = kept \cup {TextOf(r)} /\ UNCHANGED <<fate, messagesLeft>>
       \/ MessageFault /\ Fated(r, "dropped") /\ UNCHANGED kept
    /\ MessageGoes(r, "wake")
    /\ UNCHANGED <<told, phone, delivery>>

CannotStart == phone.is # "none" \/ phone.n = LastSession

\* startSessionByDevice joins a session that is there, and its errors are ignored.
WakeUp(r) ==
    /\ MessageAt(r, "wake")
    /\ IF CannotStart THEN UNCHANGED phone
       ELSE phone' = [n |-> phone.n + 1, is |-> "building"] \/ UNCHANGED phone
    /\ Answered(r)
    /\ UNCHANGED <<fate, told, kept, delivery, messagesLeft>>

\* To another number: by the notification gateway, ...
Sent(r) ==
    /\ Fated(r, "outside") /\ Tell(r) /\ Answered(r)
    /\ UNCHANGED <<kept, phone, delivery, messagesLeft>>

SendToRemoteServer(r) == "remote" \in SmsRoutes /\ (Sent(r) \/ (MessageFault /\ Refuse(r)))

\* ... the provider of the sender's number ...
SendByProvider(r) == "provider" \in SmsRoutes /\ (Sent(r) \/ (MessageFault /\ Refuse(r)))

\* ... or a script. A script that throws, or none of them, answers nobody.
SendByScript(r) ==
    \/ "script" \in SmsRoutes /\ Sent(r)
    \/ /\ \/ "script" \in SmsRoutes /\ MessageFault
          \/ "none" \in SmsRoutes /\ UNCHANGED messagesLeft
       /\ Fated(r, "unanswered") /\ Answered(r)
       /\ UNCHANGED <<told, kept, phone, delivery>>

SendSms(r) ==
    /\ MessageAt(r, "outside")
    /\ SendToRemoteServer(r) \/ SendByProvider(r) \/ SendByScript(r)
-----------------------------------------------------------------------------
\* The session of the device.
Connects ==
    /\ MessageAsked("session")
    /\ ~CannotStart
    /\ phone' = [n |-> phone.n + 1, is |-> "building"]
    /\ UNCHANGED <<fate, told, kept, delivery, request>>

\* A start that succeeds looks for messages three seconds later.
Started ==
    /\ phone.is = "building"
    /\ \E is \in {"running", "plugin"} :
          /\ phone' = [phone EXCEPT !.is = is]
          /\ ofPlugin' = IF is = "plugin" THEN ofPlugin \cup {phone.n} ELSE ofPlugin
    /\ delivery' = [delivery EXCEPT ![phone.n] = "timer"]
    /\ UNCHANGED <<fate, told, kept, request, messagesLeft>>

StartFails ==
    /\ phone.is = "building"
    /\ MessageFault
    /\ phone' = [phone EXCEPT !.is = "none"]
    /\ UNCHANGED <<fate, told, kept, delivery, request>>

Disconnects ==
    /\ phone.is \in {"running", "plugin"}
    /\ MessageAsked("end")
    /\ phone' = [phone EXCEPT !.is = "none"]
    /\ UNCHANGED <<fate, told, kept, delivery, request>>

TimeIsUp(n) ==
    /\ delivery[n] = "timer"
    /\ SlowStore \/ \A r \in MessageThreads : ~MessageAt(r, "keep")
    /\ delivery' = [delivery EXCEPT ![n] = "pop"]
    /\ UNCHANGED <<fate, told, kept, phone, request, messagesLeft>>

PopOne(n) ==
    /\ delivery[n] = "pop"
    /\ \/ \E t \in kept : kept' = kept \ {t} /\ delivery' = [delivery EXCEPT ![n] = t]
       \/ delivery' = [delivery EXCEPT ![n] = "no"] /\ UNCHANGED kept
    /\ UNCHANGED <<fate, told, phone, request, messagesLeft>>

\* One message after the other, until the set is empty ...
Pop(n) ==
    /\ delivery[n] = "pop"
    /\ \/ \E t \in kept : kept' = kept \ {t} /\ delivery' = [delivery EXCEPT ![n] = t]
       \/ kept = {} /\ delivery' = [delivery EXCEPT ![n] = "no"] /\ UNCHANGED kept
    /\ UNCHANGED <<fate, told, phone, request, messagesLeft>>

\* ... or redis fails, which ends the delivery with messages left, ...
PopFails(n) ==
    /\ delivery[n] = "pop"
    /\ MessageFault
    /\ delivery' = [delivery EXCEPT ![n] = "failed"]
    /\ UNCHANGED <<fate, told, kept, phone, request>>

\* ... and whether the platform takes a message or not. The session of a plugin
\* has no platform: the exception, which is only logged, ends its delivery.
HandOver(n) ==
    /\ delivery[n] \in Texts
    /\ LET taken == phone = [n |-> n, is |-> "running"] IN
       \/ taken /\ fate' = [fate EXCEPT ![delivery[n]] = "given"] /\ UNCHANGED messagesLeft
       \/ ~taken /\ fate' = [fate EXCEPT ![delivery[n]] = "dropped"] /\ UNCHANGED messagesLeft
       \/ MessageFault /\ fate' = [fate EXCEPT ![delivery[n]] = "dropped"]
    /\ delivery' = [delivery EXCEPT ![n] = IF n \in ofPlugin THEN "no" ELSE "pop"]
    /\ UNCHANGED <<told, kept, phone, request>>

PhoneStep ==
    \/ \E r \in MessageThreads, t \in Texts :
          \/ ReceiveSMS(r, t) \/ PlatformUserSendSms(r, t)
          \/ SendFromRemoteServer(r, t) \/ SendSmsNotification(r, t)
    \/ \E r \in MessageThreads :
          \/ FindSender(r) \/ FindRecipient(r) \/ FindSession(r) \/ GiveToPlatform(r)
          \/ KeepForLater(r) \/ WakeUp(r) \/ SendSms(r)
    \/ Connects \/ StartFails \/ Disconnects
    \/ \E n \in SessionIds : TimeIsUp(n) \/ Pop(n) \/ PopFails(n) \/ HandOver(n)

MessageNext == Started \/ (PhoneStep /\ UNCHANGED ofPlugin)
-----------------------------------------------------------------------------
MessageTypeOK ==
    /\ fate \in [Texts -> {"new", "moving", "unread", "given", "outside", "refused",
                          "unanswered", "dropped"}]
    /\ told \subseteq Texts /\ kept \subseteq Texts
    /\ phone \in [n : 0 .. LastSession, is : {"none", "building", "running", "plugin"}]
    /\ ofPlugin \subseteq SessionIds
    /\ delivery \in [SessionIds -> {"no", "timer", "pop", "failed"} \cup Texts]
    /\ request \in [MessageThreads ->
          [at : {"idle", "sender", "device", "session", "platform", "keep", "wake", "outside"},
           t : Texts \cup {"none"}, from : {"none", "provider", "user", "remote"}]]
    /\ messagesLeft \in [MessageOps -> Nat]

\* A message waits only for a session: once the session of the device runs, has
\* looked for messages to the end and no request is about to add one, none
\* waits but those whose request could not read the session. A look that redis
\* cut off ("failed") promises nothing: what is left waits for the next session.
NoneForgotten ==
    Reachable(phone) /\ delivery[phone.n] = "no" /\ (\A r \in MessageThreads : ~MessageAt(r, "keep"))
        => \A t \in kept : fate[t] = "unread"

\* What a sender was told is true: his message was given to a platform or a
\* provider, is on its way to the set, waits, is being delivered, or was lost by
\* an error of redis or of the platform, or by a session that ended meanwhile.
\* None is given twice.
Accounted(t) ==
    \/ fate[t] \in {"given", "outside", "dropped"}
    \/ t \in kept
    \/ \E n \in SessionIds : delivery[n] = t
    \/ \E r \in MessageThreads : MessageAt(r, "keep") /\ TextOf(r) = t

ToldTheTruth ==
    /\ \A t \in told : Accounted(t)
    /\ \A t \in Texts : fate[t] \notin {"moving", "unread"} =>
          t \notin kept /\ \A n \in SessionIds : delivery[n] # t

MessagesArrive == NoneForgotten /\ ToldTheTruth
-----------------------------------------------------------------------------
(* Why it holds. *)

\* A request that has not handed its text on has it alone, and nobody was told
\* before it is to be kept.
Carries(r, t) == request[r].t = t /\ request[r].at \notin {"idle", "wake"}
Delivered(t) == \E n \in SessionIds : delivery[n] = t

CarriedAlone ==
    /\ \A r \in MessageThreads : request[r].at # "idle" => TextOf(r) \in Texts
    /\ \A r \in MessageThreads, t \in Texts : Carries(r, t) =>
          /\ fate[t] = "moving" \/ (fate[t] = "unread" /\ MessageAt(r, "keep"))
          /\ t \notin kept /\ ~Delivered(t) /\ (t \in told => MessageAt(r, "keep"))
          /\ \A q \in MessageThreads \ {r} : ~Carries(q, t)

\* A text that waits or is being given is in one place, and its fate is open.
WaitsOnce ==
    /\ \A t \in kept : fate[t] \in {"moving", "unread"} /\ ~Delivered(t)
    /\ \A n \in SessionIds : delivery[n] \in Texts =>
          /\ fate[delivery[n]] \in {"moving", "unread"}
          /\ \A m \in SessionIds \ {n} : delivery[m] # delivery[n]
    /\ \A t \in told : fate[t] # "new"

\* Sessions look for messages once they have started, those of plugins in vain.
SessionsLook ==
    /\ phone.is # "none" => phone.n \in SessionIds
    /\ \A n \in SessionIds :
          (n > phone.n \/ (n = phone.n /\ phone.is = "building"))
             => delivery[n] = "no" /\ n \notin ofPlugin
    /\ Reachable(phone) => phone.n \notin ofPlugin

\* Only a request that saw no session adds a text after a session began to run,
\* and the session has not looked before it has.
SeenInTime ==
    Reachable(phone) =>
       /\ delivery[phone.n] # "timer" =>
             \A r \in MessageThreads : MessageAt(r, "keep") => fate[TextOf(r)] = "unread"
       /\ delivery[phone.n] = "no" => \A t \in kept : fate[t] = "unread"

MessageInv == MessageTypeOK /\ CarriedAlone /\ WaitsOnce /\ SessionsLook /\ SeenInTime /\ ToldTheTruth
=============================================================================

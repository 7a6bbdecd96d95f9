-------------------------- MODULE GatewayRegistry --------------------------
(***************************************************************************)
(* The registry of gateways (src/Gateway.js) and the sessions that follow  *)
(* it: registration, the TTL of a gateway, its removal, counting a session *)
(* on a gateway, and moving the sessions of a gateway that was removed     *)
(* (reconnectSessions of src/session.js).                                  *)
(*                                                                         *)
(* A gateway is an external process; its registration is the hash          *)
(* gateway_<i>, the key gateway_<i>_ttl and a member of the sorted set     *)
(* gateways.  The three are written by one MULTI and deleted by another,   *)
(* but removeGateway executes its MULTI object twice.                      *)
(***************************************************************************)
EXTENDS Integers, FiniteSets

CONSTANTS
    Gateways,     \* indices of gateways: baseIndex + offset, so they are used again
    Restarted,    \* gateways that always come back; another may be gone for good
    Sessions,     \* session ids; each is started at most once
    Removers,     \* calls of removeGateway in progress: TTL events, the monitor, a REST request
    None,
    MaxLosses,    \* how often a TTL runs out or a gateway unregisters
    MaxFailures   \* how often a call of a move fails after the session was counted

ASSUME RegistryAssumption ==
    /\ Restarted \subseteq Gateways /\ None \notin Gateways
    /\ MaxLosses \in Nat /\ MaxFailures \in Nat

VARIABLES
    up,           \* gateways that run and believe they are registered
    hashes,       \* gateways with a hash gateway_<i>
    ttl,          \* gateways whose key gateway_<i>_ttl exists
    listed,       \* members of the sorted set gateways
    score,        \* their scores
    gwsesslist,   \* gwsesslist_<i>
    disconnected, \* sessions_disconnected
    remover,      \* where each removeGateway is
    session,      \* where the start or the end of a session is, and its hash
    move,         \* where reassignAvalibleGatewayForSession is
    losses, failures

redisVars == <<hashes, ttl, listed, score, gwsesslist>>
vars == <<up, redisVars, disconnected, remover, session, move, losses, failures>>

StartSteps == {"count", "add", "score", "save"}
EndSteps == {"uncount", "remove", "unscore", "delete"}
MoveSteps == {"find", "count", "add", "score", "save", "drop"}

TypeOK ==
    /\ up \subseteq Gateways /\ hashes \subseteq Gateways
    /\ ttl \subseteq hashes
    /\ listed \subseteq Gateways
    /\ score \in [Gateways -> Int]
    /\ \A g \in Gateways \ listed : score[g] = 0
    /\ gwsesslist \in [Gateways -> SUBSET Sessions]
    /\ disconnected \subseteq Sessions
    /\ remover \in [Removers -> [at : {"idle", "first", "second"}, gw : Gateways \cup {None},
                                 found : SUBSET Sessions]]
    /\ session \in [Sessions -> [at : {"none", "active", "gone"} \cup StartSteps \cup EndSteps,
                                 gw : Gateways \cup {None}, hash : BOOLEAN]]
    /\ move \in [Sessions -> [at : {"no", "loaded"} \cup MoveSteps, gw : Gateways \cup {None}]]
    /\ losses \in 0..MaxLosses /\ failures \in 0..MaxFailures

Init ==
    /\ up = {} /\ hashes = {} /\ ttl = {} /\ listed = {}
    /\ score = [g \in Gateways |-> 0]
    /\ gwsesslist = [g \in Gateways |-> {}]
    /\ disconnected = {}
    /\ remover = [r \in Removers |-> [at |-> "idle", gw |-> None, found |-> {}]]
    /\ session = [s \in Sessions |-> [at |-> "none", gw |-> None, hash |-> FALSE]]
    /\ move = [s \in Sessions |-> [at |-> "no", gw |-> None]]
    /\ losses = 0 /\ failures = 0

-----------------------------------------------------------------------------
(* Commands of redis and the lock of a gateway. *)

\* lock_gateway_<g> is kept over several commands only by endSession.
Locked(g) == \E s \in Sessions : session[s].gw = g /\ session[s].at \in {"remove", "unscore"}

Unlist(g) ==
    /\ listed' = listed \ {g}
    /\ score' = [score EXCEPT ![g] = 0]

\* ZINCRBY lists a member that was not there.
ZIncr(g, n) ==
    /\ listed' = listed \cup {g}
    /\ score' = [score EXCEPT ![g] = @ + n]

\* The MULTI of removeGateway, as it is queued for its first exec.
DeleteGateway(g) ==
    /\ hashes' = hashes \ {g}
    /\ ttl' = ttl \ {g}
    /\ Unlist(g)

-----------------------------------------------------------------------------
(* Gateways: registerGateway, refreshGatewayTTL, the TTL. *)

Register(g) ==
    /\ g \notin up
    /\ ~Locked(g)
    /\ up' = up \cup {g}
    /\ hashes' = hashes \cup {g}
    /\ ttl' = ttl \cup {g}
    /\ listed' = listed \cup {g}
    /\ score' = [score EXCEPT ![g] = 0]
    /\ UNCHANGED <<gwsesslist, disconnected, remover, session, move, losses, failures>>

\* EXPIRE answers 0: the gateway is told so and registers again.
RefreshRefused(g) ==
    /\ g \in up \ ttl
    /\ up' = up \ {g}
    /\ UNCHANGED <<redisVars, disconnected, remover, session, move, losses, failures>>

StartRemoval(r, g) ==
    /\ remover[r].at = "idle"
    /\ remover' = [remover EXCEPT ![r] = [at |-> "first", gw |-> g, found |-> {}]]

\* The gateway died or is late; a process that listens is told of it
\* (gatewayTTLExpired), but nobody may be listening.
TtlExpires(g) ==
    /\ g \in ttl /\ losses < MaxLosses
    /\ losses' = losses + 1
    /\ ttl' = ttl \ {g}
    /\ \/ UNCHANGED up
       \/ up' = up \ {g}
    /\ \/ \E r \in Removers : StartRemoval(r, g)
       \/ UNCHANGED remover
    /\ UNCHANGED <<hashes, listed, score, gwsesslist, disconnected, session, move, failures>>

Unregister(g) ==
    /\ g \in up /\ losses < MaxLosses
    /\ losses' = losses + 1
    /\ up' = up \ {g}
    /\ \E r \in Removers : StartRemoval(r, g)
    /\ UNCHANGED <<redisVars, disconnected, session, move, failures>>

\* A mutant of RemoveTTLExpired: a gateway without a hash has nothing to remove.
RemoveTTLExpiredHash(r, g) ==
    /\ g \in hashes \ ttl
    /\ StartRemoval(r, g)
    /\ UNCHANGED <<up, redisVars, disconnected, session, move, losses, failures>>

\* removeTTLExpiredGWs, for one gateway of the list.
RemoveTTLExpired(r, g) ==
    /\ g \in listed \ ttl
    /\ StartRemoval(r, g)
    /\ UNCHANGED <<up, redisVars, disconnected, session, move, losses, failures>>

-----------------------------------------------------------------------------
(* removeGateway. *)

\* The first exec, in the critical section of lock_gateway_<g>.
RemoveFirst(r) ==
    LET g == remover[r].gw IN
    /\ remover[r].at = "first"
    /\ ~Locked(g)
    /\ DeleteGateway(g)
    /\ remover' = [remover EXCEPT ![r].at = "second", ![r].found = gwsesslist[g]]
    /\ UNCHANGED <<up, gwsesslist, disconnected, session, move, losses, failures>>

RemoveRefused(r) ==
    /\ remover[r].at = "first"
    /\ Locked(remover[r].gw)
    /\ remover' = [remover EXCEPT ![r] = [at |-> "idle", gw |-> None, found |-> {}]]
    /\ UNCHANGED <<up, redisVars, disconnected, session, move, losses, failures>>

\* A mutant: the sessions are only taken off the list.
RemoveSecondListOnly(r) ==
    LET g == remover[r].gw IN
    /\ remover[r].at = "second"
    /\ DeleteGateway(g)
    /\ gwsesslist' = [gwsesslist EXCEPT ![g] = {}]
    /\ remover' = [remover EXCEPT ![r] = [at |-> "idle", gw |-> None, found |-> {}]]
    /\ UNCHANGED <<up, disconnected, session, move, losses, failures>>

\* The second exec, without the lock: the queue still holds the first commands.
RemoveSecond(r) ==
    LET g == remover[r].gw IN
    /\ remover[r].at = "second"
    /\ DeleteGateway(g)
    /\ disconnected' = disconnected \cup remover[r].found
    /\ gwsesslist' = [gwsesslist EXCEPT ![g] = {}]
    /\ remover' = [remover EXCEPT ![r] = [at |-> "idle", gw |-> None, found |-> {}]]
    /\ UNCHANGED <<up, session, move, losses, failures>>

-----------------------------------------------------------------------------
(* getAvailableGW: the gateway with the lowest score among those with a    *)
(* hash.  One without a hash that comes before it is removed on the way.   *)

Available ==
    {g \in listed \cap hashes : \A h \in listed \cap hashes : score[g] <= score[h]}

RemoveUnknown(r, g) ==
    /\ g \in listed \ hashes
    /\ \E h \in Available : score[g] <= score[h]
    /\ \/ \E s \in Sessions : session[s].at = "none" \/ move[s].at = "find"
    /\ StartRemoval(r, g)
    /\ UNCHANGED <<up, redisVars, disconnected, session, move, losses, failures>>

-----------------------------------------------------------------------------
(* A start and an end of a session, as far as its gateway is concerned;    *)
(* both hold the lock of the device.                                       *)

At(s, step) == session' = [session EXCEPT ![s].at = step]

ChooseGateway(s) ==
    /\ session[s].at = "none"
    /\ \E g \in Available :
          session' = [session EXCEPT ![s] = [at |-> "count", gw |-> g, hash |-> TRUE]]
    /\ UNCHANGED <<up, redisVars, disconnected, remover, move, losses, failures>>

\* updateGWSessionScore asks for the hash; without one it succeeds and does nothing.
CountSession(s) ==
    /\ session[s].at = "count"
    /\ At(s, IF session[s].gw \in hashes THEN "add" ELSE "save")
    /\ UNCHANGED <<up, redisVars, disconnected, remover, move, losses, failures>>

AddSession(s) ==
    /\ session[s].at = "add"
    /\ gwsesslist' = [gwsesslist EXCEPT ![session[s].gw] = @ \cup {s}]
    /\ At(s, "score")
    /\ UNCHANGED <<up, hashes, ttl, listed, score, disconnected, remover, move, losses, failures>>

ScoreSession(s) ==
    /\ session[s].at = "score"
    /\ ZIncr(session[s].gw, 1)
    /\ At(s, "save")
    /\ UNCHANGED <<up, hashes, ttl, gwsesslist, disconnected, remover, move, losses, failures>>

SaveSession(s) ==
    /\ session[s].at = "save"
    /\ At(s, "active")
    /\ UNCHANGED <<up, redisVars, disconnected, remover, move, losses, failures>>

\* endSession takes the device's lock; its copy of the session is the saved one.
EndSession(s) ==
    /\ session[s].at = "active"
    /\ move[s].at \in {"no", "loaded"}
    /\ At(s, "uncount")
    /\ UNCHANGED <<up, redisVars, disconnected, remover, move, losses, failures>>

\* Under lock_gateway; a refused lock is an error, and then the session is deleted all the same.
Uncount(s) ==
    /\ session[s].at = "uncount"
    /\ At(s, IF ~Locked(session[s].gw) /\ session[s].gw \in hashes THEN "remove" ELSE "delete")
    /\ UNCHANGED <<up, redisVars, disconnected, remover, move, losses, failures>>

RemoveSession(s) ==
    /\ session[s].at = "remove"
    /\ gwsesslist' = [gwsesslist EXCEPT ![session[s].gw] = @ \ {s}]
    /\ At(s, "unscore")
    /\ UNCHANGED <<up, hashes, ttl, listed, score, disconnected, remover, move, losses, failures>>

UnscoreSession(s) ==
    /\ session[s].at = "unscore"
    /\ ZIncr(session[s].gw, -1)
    /\ At(s, "delete")
    /\ UNCHANGED <<up, hashes, ttl, gwsesslist, disconnected, remover, move, losses, failures>>

DeleteSession(s) ==
    /\ session[s].at = "delete"
    /\ session' = [session EXCEPT ![s].at = "gone", ![s].hash = FALSE]
    /\ disconnected' = disconnected \ {s}
    /\ UNCHANGED <<up, redisVars, remover, move, losses, failures>>

-----------------------------------------------------------------------------
(* reassignAvalibleGatewayForSession, for each member of                   *)
(* sessions_disconnected, by the one process that has                      *)
(* lock_disconnected_sessions.                                             *)

MoveAt(s, step) == move' = [move EXCEPT ![s].at = step]

\* The session is loaded before the lock of its device is asked for.
LoadSession(s) ==
    /\ s \in disconnected
    /\ move[s].at = "no"
    /\ session[s].hash
    /\ MoveAt(s, "loaded")
    /\ UNCHANGED <<up, redisVars, disconnected, remover, session, losses, failures>>

SessionNotFound(s) ==
    /\ s \in disconnected
    /\ move[s].at = "no"
    /\ ~session[s].hash
    /\ disconnected' = disconnected \ {s}
    /\ UNCHANGED <<up, redisVars, remover, session, move, losses, failures>>

LockDevice(s) ==
    /\ move[s].at = "loaded"
    /\ MoveAt(s, IF session[s].at \in {"active", "gone"} THEN "find" ELSE "no")
    /\ UNCHANGED <<up, redisVars, disconnected, remover, session, losses, failures>>

FindGateway(s) ==
    /\ move[s].at = "find"
    /\ \/ \E g \in Available : move' = [move EXCEPT ![s] = [at |-> "count", gw |-> g]]
       \/ Available = {} /\ MoveAt(s, "no")
    /\ UNCHANGED <<up, redisVars, disconnected, remover, session, losses, failures>>

CountMoved(s) ==
    /\ move[s].at = "count"
    /\ MoveAt(s, IF move[s].gw \in hashes THEN "add" ELSE "save")
    /\ UNCHANGED <<up, redisVars, disconnected, remover, session, losses, failures>>

AddMoved(s) ==
    /\ move[s].at = "add"
    /\ gwsesslist' = [gwsesslist EXCEPT ![move[s].gw] = @ \cup {s}]
    /\ MoveAt(s, "score")
    /\ UNCHANGED <<up, hashes, ttl, listed, score, disconnected, remover, session, losses, failures>>

ScoreMoved(s) ==
    /\ move[s].at = "score"
    /\ ZIncr(move[s].gw, 1)
    /\ MoveAt(s, "save")
    /\ UNCHANGED <<up, hashes, ttl, gwsesslist, disconnected, remover, session, losses, failures>>

\* The save is an hmset of the whole copy: it creates the hash of an ended session again.
SaveMoved(s) ==
    /\ move[s].at = "save"
    /\ session' = [session EXCEPT ![s].gw = move[s].gw, ![s].hash = TRUE]
    /\ MoveAt(s, "drop")
    /\ UNCHANGED <<up, redisVars, disconnected, remover, losses, failures>>

\* The mobile part or the database fails: nothing is undone, and the next round tries again.
MoveFails(s) ==
    /\ move[s].at \in {"save", "drop"} /\ failures < MaxFailures
    /\ failures' = failures + 1
    /\ move' = [move EXCEPT ![s] = [at |-> "no", gw |-> None]]
    /\ UNCHANGED <<up, redisVars, disconnected, remover, session, losses>>

DropDisconnected(s) ==
    /\ move[s].at = "drop"
    /\ disconnected' = disconnected \ {s}
    /\ move' = [move EXCEPT ![s] = [at |-> "no", gw |-> None]]
    /\ UNCHANGED <<up, redisVars, remover, session, losses, failures>>

-----------------------------------------------------------------------------
SessionStep(s) ==
    \/ CountSession(s) \/ AddSession(s) \/ ScoreSession(s) \/ SaveSession(s)
    \/ Uncount(s) \/ RemoveSession(s) \/ UnscoreSession(s) \/ DeleteSession(s)

MoveStep(s) ==
    \/ LoadSession(s) \/ SessionNotFound(s) \/ LockDevice(s) \/ FindGateway(s) \/ CountMoved(s)
    \/ AddMoved(s) \/ ScoreMoved(s) \/ SaveMoved(s) \/ DropDisconnected(s)

RemoverStep(r) == RemoveFirst(r) \/ RemoveRefused(r) \/ RemoveSecond(r)

Next ==
    \/ \E g \in Gateways : Register(g) \/ RefreshRefused(g) \/ TtlExpires(g) \/ Unregister(g)
    \/ \E r \in Removers, g \in Gateways : RemoveTTLExpired(r, g) \/ RemoveUnknown(r, g)
    \/ \E r \in Removers : RemoverStep(r)
    \/ \E s \in Sessions :
          ChooseGateway(s) \/ EndSession(s) \/ SessionStep(s) \/ MoveStep(s) \/ MoveFails(s)

\* Calls return, the monitor (gatewayTTLExpiredMonitorService) and the
\* reconnect service come round again, and some gateways register again when
\* they are told that they are not registered.  No session has to start or to end.
Fairness ==
    /\ \A g \in Gateways : WF_vars(RefreshRefused(g))
    /\ \A g \in Restarted : WF_vars(Register(g))
    /\ \A g \in Gateways : SF_vars(\E r \in Removers : RemoveTTLExpired(r, g))
    /\ \A r \in Removers : WF_vars(RemoverStep(r))
    /\ \A s \in Sessions : WF_vars(SessionStep(s)) /\ SF_vars(MoveStep(s))

Spec == Init /\ [][Next]_vars /\ Fairness

-----------------------------------------------------------------------------
\* A gateway that is listed without a TTL, also one that a late ZINCRBY listed
\* again after its removal, does not stay: it is taken off the list or registers.
GhostLeaves == \A g \in Gateways : (g \in listed \ ttl) ~> (g \notin listed \/ g \in ttl)

\* A session that is counted on a registered gateway whose TTL runs out is
\* ended, or gets a gateway that is registered and counts it, so that it will
\* be found again when that one is lost.
Counted(s) == s \in gwsesslist[session[s].gw]

CountedSessionsMove ==
    \A s \in Sessions :
       (session[s].at = "active" /\ session[s].gw \in hashes \ ttl /\ Counted(s))
          ~> (session[s].at = "gone" \/ (session[s].gw \in hashes \cap ttl /\ Counted(s)))
=============================================================================

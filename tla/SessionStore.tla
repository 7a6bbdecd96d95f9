---------------------------- MODULE SessionStore ----------------------------
(***************************************************************************)
(* The redis state of the sessions (src/session.js) and the commands that  *)
(* change it.  A session id is random and never used twice.                *)
(*                                                                         *)
(* A session hash is the set of its fields that matter here; the empty set *)
(* is a hash that does not exist.  A 0/1 field is in the set when it is 1. *)
(***************************************************************************)
EXTENDS Integers, FiniteSets

CONSTANTS
    Devices,    \* the (email, deviceid) pairs
    Users,      \* the emails
    UserOf,     \* [Devices -> Users]
    Sessions,   \* session ids
    Platforms,
    Gateways,
    None

ASSUME StoreAssumption ==
    /\ UserOf \in [Devices -> Users]
    /\ None \notin Devices \cup Sessions \cup Platforms \cup Gateways

\* An id is 48 random bytes (session.js:444).
ASSUME FiniteSessions == IsFiniteSet(Sessions)

\* active: the fields that every hmset has, so that each creates the hash;
\* device: email, deviceid, activation; plugin: sessionType is "plugin:...";
\* domain: platDomain; placed: platid, localid and gatewayIndex, or pluginName.
Fields  == {"active", "device", "plugin", "domain", "placed",
            "deleteFlag", "forceExit", "suspend"}
Sticky  == {"active", "device", "plugin", "domain", "placed"}

VARIABLES
    hash,       \* sess_<id>
    usersess,   \* usersess_<email>_<deviceid>: the session of the device
    userset,    \* usersess_<email>: the sessions of the user
    listed,     \* sessions
    unlisted,   \* sessions_undefined: platDomain is not known at the first save
    suspended,  \* suspend_sessions: "no", "later" or "due" (the score is past)
    platlist,   \* platsesslist_<platid> and platsess_<platid>_<localid>
    platScore,  \* sessions counted for the platform in the platforms lists
    gwlist,     \* gwsesslist_<index>
    gwScore,    \* sessions counted for the gateway in gateways
    deviceOf,   \* what the id was created for, None while it is unused
    platOf,     \* the platform and the gateway chosen for the session
    gwOf

keys == <<hash, usersess, userset, listed, unlisted, suspended>>
refs == <<platlist, platScore, gwlist, gwScore>>
ids  == <<deviceOf, platOf, gwOf>>
store == <<keys, refs, ids>>

StoreTypeOK ==
    /\ hash \in [Sessions -> SUBSET Fields]
    /\ usersess \in [Devices -> Sessions \cup {None}]
    /\ userset \in [Users -> SUBSET Sessions]
    /\ listed \in SUBSET Sessions
    /\ unlisted \in SUBSET Sessions
    /\ suspended \in [Sessions -> {"no", "later", "due"}]
    /\ platlist \in [Platforms -> SUBSET Sessions]
    /\ platScore \in [Platforms -> Int]
    /\ gwlist \in [Gateways -> SUBSET Sessions]
    /\ gwScore \in [Gateways -> Int]
    /\ deviceOf \in [Sessions -> Devices \cup {None}]
    /\ platOf \in [Sessions -> Platforms \cup {None}]
    /\ gwOf \in [Sessions -> Gateways \cup {None}]

StoreInit ==
    /\ hash = [s \in Sessions |-> {}]
    /\ usersess = [d \in Devices |-> None]
    /\ userset = [u \in Users |-> {}]
    /\ listed = {}
    /\ unlisted = {}
    /\ suspended = [s \in Sessions |-> "no"]
    /\ platlist = [p \in Platforms |-> {}]
    /\ platScore = [p \in Platforms |-> 0]
    /\ gwlist = [g \in Gateways |-> {}]
    /\ gwScore = [g \in Gateways |-> 0]
    /\ deviceOf = [s \in Sessions |-> None]
    /\ platOf = [s \in Sessions |-> None]
    /\ gwOf = [s \in Sessions |-> None]

Exists(s) == hash[s] # {}
UserOfSession(s) == UserOf[deviceOf[s]]
SessionOfUserDevice(d) == usersess[d]
SessionsOfUser(u) == userset[u]

----------------------------------------------------------------------------
(* Commands.  Each says how it changes the keys it is about.               *)

\* hmset of all the parameters of an in-memory session: it creates the hash
\* if it is not there and never removes a field, but writes the 0/1 fields.
Saved(s, params) == [hash EXCEPT ![s] = (@ \cap Sticky) \cup params]

Save(s, params) == hash' = Saved(s, params)

\* setUserAndDevice, first part: the save of a new session, which also lists it.
Create(s, params) ==
    /\ Save(s, params)
    /\ listed' = listed \cup {s}
    /\ unlisted' = unlisted \cup {s}

\* suspend(1): a save, then a place in suspend_sessions.
Suspend(s, params) ==
    /\ Save(s, params)
    /\ suspended' = [suspended EXCEPT ![s] = "later"]

\* Variants with a plausible mistake.
DelKeepsPointer(s, params) ==
    /\ hash' = [hash EXCEPT ![s] = {}]
    /\ userset' = [userset EXCEPT ![UserOfSession(s)] = @ \ {s}]
    /\ listed' = listed \ {s}
    /\ suspended' = [suspended EXCEPT ![s] = "no"]
    /\ unlisted' = unlisted \ {s}
    /\ UNCHANGED usersess

\* del: one MULTI.  Once platDomain is set the id is taken out of
\* sessions_<platDomain>, and sessions_undefined keeps it.
Del(s, params) ==
    /\ hash' = [hash EXCEPT ![s] = {}]
    /\ usersess' = [usersess EXCEPT ![deviceOf[s]] = None]
    /\ userset' = [userset EXCEPT ![UserOfSession(s)] = @ \ {s}]
    /\ listed' = listed \ {s}
    /\ suspended' = [suspended EXCEPT ![s] = "no"]
    /\ unlisted' = IF "domain" \in params THEN unlisted ELSE unlisted \ {s}

\* increaseReference
IncreaseReference(s, inc) ==
    platScore' = [platScore EXCEPT ![platOf[s]] = @ + inc]

GwScoreOnlyGrows(s, inc) ==
    /\ gwlist' = [gwlist EXCEPT ![gwOf[s]] = IF inc = 1 THEN @ \cup {s} ELSE @ \ {s}]
    /\ gwScore' = [gwScore EXCEPT ![gwOf[s]] = @ + 1]

\* updateGWSessionScore: the set of the gateway, then its score.
UpdateGWSessionScore(s, inc) ==
    /\ gwlist' = [gwlist EXCEPT ![gwOf[s]] = IF inc = 1 THEN @ \cup {s} ELSE @ \ {s}]
    /\ gwScore' = [gwScore EXCEPT ![gwOf[s]] = @ + inc]
=============================================================================

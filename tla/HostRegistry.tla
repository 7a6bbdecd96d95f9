---------------------------- MODULE HostRegistry ----------------------------
(***************************************************************************)
(* Processes that register themselves: front ends (src/frontEndService.js) *)
(* and the hosts of platforms (src/platformSelfReg.js).  The monitors that *)
(* take expired registrations out belong to the daemon; DaemonServices     *)
(* says when it runs them.                                                 *)
(*                                                                         *)
(* An index of a front end is never used again (INCR) and its three keys   *)
(* change in one MULTI.  The id of a platform is the smallest that is not  *)
(* in platform_regs, so it is used again, and its keys change one by one.  *)
(***************************************************************************)
EXTENDS Naturals, FiniteSets

CONSTANTS
    FrontEnds,   \* processes of the front end
    MaxIndex,    \* bound of frontendseq
    Ips,         \* hosts of platforms, by their addresses
    MaxId,       \* platform ids that are tried (100000 in the code)
    MaxExpiries  \* how often a registration is not renewed in time

ASSUME HostAssumption ==
    /\ MaxIndex \in Nat /\ MaxId \in Nat /\ MaxExpiries \in Nat
    /\ "none" \notin Ips

VARIABLES
    frontendseq, frontends, frontendTtl,
    frontEnd,      \* each process: its step and its index
    leaving,       \* calls of unregisterFrontEnd that wait for their lock, by who made them
    regIds,        \* platform_reg_id_<i>: the address, or "none"
    regIps,        \* platform_reg_ip_<a>: the id, or 0
    platformRegs,
    registrar,     \* selfRegisterPlatform, for each address
    cleaner,       \* removeTTLExpired, in the daemon
    expiries

frontVars == <<frontendseq, frontends, frontendTtl, frontEnd, leaving>>
regVars == <<regIds, regIps, platformRegs, registrar, cleaner>>
hostVars == <<frontVars, regVars, expiries>>

Ids == 1..MaxId
Indices == 1..MaxIndex
Callers == {"event", "monitor"}   \* an event of redis or a request, and the monitor

Idle == [at |-> "idle", todo |-> {}, id |-> 0]

HostTypeOK ==
    /\ frontendseq \in 0..MaxIndex
    /\ frontends \subseteq 1..frontendseq
    /\ frontendTtl \subseteq frontends
    /\ frontEnd \in [FrontEnds -> [at : {"off", "indexed", "up"}, index : 0..MaxIndex]]
    /\ leaving \in [Callers -> SUBSET (1..frontendseq)]
    /\ regIds \in [Ids -> Ips \cup {"none"}]
    /\ regIps \in [Ips -> 0..MaxId]
    /\ platformRegs \subseteq Ids
    /\ registrar \in [Ips -> [at : {"off", "members", "id", "ip", "add", "up"}, id : 0..MaxId]]
    /\ cleaner \in [at : {"idle", "check", "remove"}, todo : SUBSET Ids, id : 0..MaxId]
    /\ expiries \in 0..MaxExpiries

HostInit ==
    /\ frontendseq = 0 /\ frontends = {} /\ frontendTtl = {}
    /\ leaving = [c \in Callers |-> {}]
    /\ frontEnd = [f \in FrontEnds |-> [at |-> "off", index |-> 0]]
    /\ regIds = [i \in Ids |-> "none"] /\ regIps = [a \in Ips |-> 0] /\ platformRegs = {}
    /\ registrar = [a \in Ips |-> [at |-> "off", id |-> 0]]
    /\ cleaner = Idle
    /\ expiries = 0

-----------------------------------------------------------------------------
(* Front ends. *)

\* A mutant of TakeIndex: the smallest index that is not listed.
TakeFreeIndex(f) ==
    /\ frontEnd[f].at = "off"
    /\ \E i \in Indices \ frontends :
          /\ \A j \in Indices \ frontends : i <= j
          /\ frontEnd' = [frontEnd EXCEPT ![f] = [at |-> "indexed", index |-> i]]
          /\ frontendseq' = IF frontendseq < i THEN i ELSE frontendseq
    /\ UNCHANGED <<frontends, frontendTtl, leaving, regVars, expiries>>

\* INCR of frontendseq.
TakeIndex(f) ==
    /\ frontEnd[f].at = "off" /\ frontendseq < MaxIndex
    /\ frontendseq' = frontendseq + 1
    /\ frontEnd' = [frontEnd EXCEPT ![f] = [at |-> "indexed", index |-> frontendseq + 1]]
    /\ UNCHANGED <<frontends, frontendTtl, leaving, regVars, expiries>>

RegisterFrontEnd(f) ==
    LET i == frontEnd[f].index IN
    /\ frontEnd[f].at = "indexed"
    /\ frontends' = frontends \cup {i}
    /\ frontendTtl' = frontendTtl \cup {i}
    /\ frontEnd' = [frontEnd EXCEPT ![f].at = "up"]
    /\ UNCHANGED <<frontendseq, leaving, regVars, expiries>>

\* EXPIRE answers 0: "not registered", and the front end registers again.
RefreshFrontEnd(f) ==
    /\ frontEnd[f].at = "up" /\ frontEnd[f].index \notin frontendTtl
    /\ frontEnd' = [frontEnd EXCEPT ![f] = [at |-> "off", index |-> 0]]
    /\ UNCHANGED <<frontendseq, frontends, frontendTtl, leaving, regVars, expiries>>

\* The event reaches the daemon if it listens; heard says so.
FrontEndExpires(i, heard) ==
    /\ i \in frontendTtl /\ expiries < MaxExpiries
    /\ expiries' = expiries + 1
    /\ frontendTtl' = frontendTtl \ {i}
    /\ leaving' = IF heard THEN [leaving EXCEPT !["event"] = @ \cup {i}] ELSE leaving
    /\ UNCHANGED <<frontendseq, frontends, frontEnd, regVars>>

\* unregisterFrontEndRestApi: the front end shuts down.
LeaveFrontEnd(f) ==
    /\ frontEnd[f].at = "up" /\ expiries < MaxExpiries
    /\ expiries' = expiries + 1
    /\ frontEnd' = [frontEnd EXCEPT ![f] = [at |-> "off", index |-> 0]]
    /\ leaving' = [leaving EXCEPT !["event"] = @ \cup {frontEnd[f].index}]
    /\ UNCHANGED <<frontendseq, frontends, frontendTtl, regVars>>

\* A mutant of MonitorFrontEnds: only front ends that an event has announced.
MonitorAnnounced ==
    /\ leaving["monitor"] = {} /\ (frontends \ frontendTtl) \cap leaving["event"] # {}
    /\ leaving' = [leaving EXCEPT !["monitor"] = (frontends \ frontendTtl) \cap leaving["event"]]
    /\ UNCHANGED <<frontendseq, frontends, frontendTtl, frontEnd, regVars, expiries>>

\* unregisterTTLExpiredFrontEnds: what it found missing is removed later.
MonitorFrontEnds ==
    /\ leaving["monitor"] = {} /\ frontends \ frontendTtl # {}
    /\ leaving' = [leaving EXCEPT !["monitor"] = frontends \ frontendTtl]
    /\ UNCHANGED <<frontendseq, frontends, frontendTtl, frontEnd, regVars, expiries>>

UnregisterFrontEnd(c, i) ==
    /\ i \in leaving[c]
    /\ frontends' = frontends \ {i}
    /\ frontendTtl' = frontendTtl \ {i}
    /\ leaving' = [leaving EXCEPT ![c] = @ \ {i}]
    /\ UNCHANGED <<frontendseq, frontEnd, regVars, expiries>>

-----------------------------------------------------------------------------
(* selfRegisterPlatform. *)

RegistrarAt(a, step) == registrar' = [registrar EXCEPT ![a].at = step]

SmallestFree(set) ==
    CHOOSE i \in Ids \ set : \A j \in Ids \ set : i <= j

\* A mutant of LookUp: the first id without a key, listed or not.
LookUpFreeKey(a) ==
    /\ registrar[a].at = "off"
    /\ regIps[a] # 0 \/ \E i \in Ids : regIds[i] = "none"
    /\ registrar' = [registrar EXCEPT ![a] =
         IF regIps[a] # 0 THEN [at |-> "up", id |-> regIps[a]]
                          ELSE [at |-> "id", id |-> CHOOSE i \in Ids : regIds[i] = "none"]]
    /\ UNCHANGED <<frontVars, regIds, regIps, platformRegs, cleaner, expiries>>

\* An address that is known gets its id back, without another look; otherwise
\* the first id that is not listed.  "Cannot found any platform ID!" if there is none.
LookUp(a) ==
    /\ registrar[a].at = "off"
    /\ regIps[a] # 0 \/ platformRegs # Ids
    /\ registrar' = [registrar EXCEPT ![a] =
         IF regIps[a] # 0 THEN [at |-> "up", id |-> regIps[a]]
                          ELSE [at |-> "id", id |-> SmallestFree(platformRegs)]]
    /\ UNCHANGED <<frontVars, regIds, regIps, platformRegs, cleaner, expiries>>

\* The loop reads the set again after a failure.
Members(a) ==
    /\ registrar[a].at = "members"
    /\ registrar' = [registrar EXCEPT ![a] =
         IF platformRegs = Ids THEN [at |-> "off", id |-> 0]
                               ELSE [at |-> "id", id |-> SmallestFree(platformRegs)]]
    /\ UNCHANGED <<frontVars, regIds, regIps, platformRegs, cleaner, expiries>>

\* SET ... NX
SetId(a) ==
    LET i == registrar[a].id IN
    /\ registrar[a].at = "id"
    /\ IF regIds[i] = "none"
         THEN /\ regIds' = [regIds EXCEPT ![i] = a]
              /\ RegistrarAt(a, "ip")
         ELSE /\ RegistrarAt(a, "members")
              /\ UNCHANGED regIds
    /\ UNCHANGED <<frontVars, regIps, platformRegs, cleaner, expiries>>

SetIp(a) ==
    /\ registrar[a].at = "ip" /\ RegistrarAt(a, "add")
    /\ regIps' = [regIps EXCEPT ![a] = registrar[a].id]
    /\ UNCHANGED <<frontVars, regIds, platformRegs, cleaner, expiries>>

AddId(a) ==
    /\ registrar[a].at = "add"
    /\ platformRegs' = platformRegs \cup {registrar[a].id}
    /\ RegistrarAt(a, "up")
    /\ UNCHANGED <<frontVars, regIds, regIps, cleaner, expiries>>

\* selfRegisterPlatformTtl: the id must still be this address's.
RefusePlatform(a) ==
    /\ registrar[a].at = "up" /\ regIds[registrar[a].id] # a
    /\ registrar' = [registrar EXCEPT ![a] = [at |-> "off", id |-> 0]]
    /\ UNCHANGED <<frontVars, regIds, regIps, platformRegs, cleaner, expiries>>

\* A host that is up is silent for a day, longer than a registration takes: the
\* id was renewed first and expires first.
PlatformExpires(a) ==
    /\ registrar[a].at = "up" /\ regIds[registrar[a].id] = a
    /\ \A b \in Ips : registrar[b].at \in {"off", "members", "up"}
    /\ expiries < MaxExpiries
    /\ expiries' = expiries + 1
    /\ regIds' = [regIds EXCEPT ![registrar[a].id] = "none"]
    /\ UNCHANGED <<frontVars, regIps, platformRegs, registrar, cleaner>>

\* The key of the address follows within the milliseconds between the two commands.
IpExpires(a) ==
    /\ regIps[a] # 0 /\ registrar[a].at \in {"off", "up"} /\ regIds[regIps[a]] # a
    /\ regIps' = [regIps EXCEPT ![a] = 0]
    /\ UNCHANGED <<frontVars, regIds, platformRegs, registrar, cleaner, expiries>>

-----------------------------------------------------------------------------
(* removeTTLExpired, one run at a time. *)

StartCleaning ==
    /\ cleaner.at = "idle" /\ \E i \in platformRegs : regIds[i] = "none"
    /\ cleaner' = [at |-> "check", todo |-> platformRegs, id |-> 0]
    /\ UNCHANGED <<frontVars, regIds, regIps, platformRegs, registrar, expiries>>

CheckId ==
    /\ cleaner.at = "check"
    /\ \E i \in cleaner.todo :
          cleaner' = [at |-> IF regIds[i] = "none" THEN "remove" ELSE "check",
                      todo |-> cleaner.todo \ {i}, id |-> IF regIds[i] = "none" THEN i ELSE 0]
    /\ UNCHANGED <<frontVars, regIds, regIps, platformRegs, registrar, expiries>>

RemoveId ==
    /\ cleaner.at = "remove"
    /\ platformRegs' = platformRegs \ {cleaner.id}
    /\ cleaner' = [cleaner EXCEPT !.at = "check", !.id = 0]
    /\ UNCHANGED <<frontVars, regIds, regIps, registrar, expiries>>

EndCleaning ==
    /\ cleaner.at = "check" /\ cleaner.todo = {}
    /\ cleaner' = Idle
    /\ UNCHANGED <<frontVars, regIds, regIps, platformRegs, registrar, expiries>>

CleanerStep == CheckId \/ RemoveId \/ EndCleaning

RegistrarStep(a) == LookUp(a) \/ Members(a) \/ SetId(a) \/ SetIp(a) \/ AddId(a)

HostStep ==
    \/ \E f \in FrontEnds :
          TakeIndex(f) \/ RegisterFrontEnd(f) \/ RefreshFrontEnd(f) \/ LeaveFrontEnd(f)
    \/ \E c \in Callers, i \in Indices : UnregisterFrontEnd(c, i)
    \/ \E a \in Ips : RegistrarStep(a) \/ RefusePlatform(a) \/ PlatformExpires(a) \/ IpExpires(a)

-----------------------------------------------------------------------------
\* A registration that is complete is in platform_regs: an id that has its key
\* but is not listed makes every other registration try that id again and
\* again, without a pause, for as long as the host renews it.
RegisteredIsListed ==
    \A a \in Ips :
       (registrar[a].at = "up" /\ regIds[registrar[a].id] = a) => registrar[a].id \in platformRegs

\* No front end that renews its TTL is taken off the list by a monitor, an
\* event or an unregistration that comes late.
RenewedStays ==
    [][\A f \in FrontEnds :
          (frontEnd[f].at = "up" /\ frontEnd[f].index \in frontendTtl) => frontEnd[f].index \in frontends']_hostVars

-----------------------------------------------------------------------------
(* Why they hold. *)
\* An index belongs to the front end that drew it; what waits to be taken out
\* is not renewed by anybody, and will not be.
IndexOwned ==
    /\ \A f \in FrontEnds : frontEnd[f].at # "off" => frontEnd[f].index \in 1..frontendseq
    /\ \A f, g \in FrontEnds :
          f # g /\ frontEnd[f].at # "off" /\ frontEnd[g].at # "off" => frontEnd[f].index # frontEnd[g].index
    /\ \A f \in FrontEnds : frontEnd[f].at = "indexed" => frontEnd[f].index \notin frontends
LeaversAreOld == \A f \in FrontEnds, c \in Callers : frontEnd[f].index \in leaving[c] =>
    /\ frontEnd[f].at # "indexed"
    /\ frontEnd[f].at = "up" => frontEnd[f].index \notin frontendTtl

\* An id has its key from SET to the expiry and is listed from SADD on; a
\* registrar that tries an id, and the cleaner that removes one, exclude each other.
IdHeld ==
    /\ \A a \in Ips : registrar[a].at \in {"id", "ip", "add", "up"} => registrar[a].id \in Ids
    /\ \A a \in Ips : registrar[a].at \in {"ip", "add"} => regIds[registrar[a].id] = a
    /\ \A a \in Ips, i \in Ids :
          regIds[i] = a => i \in platformRegs \/ (registrar[a].at \in {"ip", "add"} /\ registrar[a].id = i)
    /\ \A a \in Ips : registrar[a].at = "id" =>
          registrar[a].id \notin platformRegs \/ regIds[registrar[a].id] # "none"
CleanerRight ==
    /\ cleaner.todo \subseteq platformRegs
    /\ cleaner.at = "remove" =>
          /\ cleaner.id \in platformRegs \ cleaner.todo
          /\ regIds[cleaner.id] = "none"

HostInv == HostTypeOK /\ IndexOwned /\ LeaversAreOld /\ IdHeld /\ CleanerRight
=============================================================================

------------------------ MODULE DaemonServicesProofs --------------------------
(***************************************************************************)
(* Proofs about DaemonServices, for any number of front ends, hosts, jobs, *)
(* expiries and ends of the daemon: what is renewed stays listed, a host   *)
(* that is registered is listed, and a job runs once at a time.            *)
(***************************************************************************)
EXTENDS DaemonServices, WellFoundedInduction, TLAPS

-----------------------------------------------------------------------------
(* Front ends. *)

LEMMA FrontTyped ==
    ASSUME HostTypeOK
    PROVE  /\ frontendseq \in Nat /\ frontends \subseteq Nat /\ frontendTtl \subseteq frontends
           /\ \A i \in frontends : i <= frontendseq
           /\ frontEnd \in [FrontEnds -> [at : {"off", "indexed", "up"}, index : 0..MaxIndex]]
           /\ leaving \in [Callers -> SUBSET (1..frontendseq)]
BY HostAssumption DEF HostTypeOK

LEMMA TakeIndexKeeps ==
    ASSUME HostInv, NEW f \in FrontEnds, TakeIndex(f)
    PROVE  HostInv'
<1> USE HostAssumption DEF HostInv
<1> DEFINE e == [at |-> "indexed", index |-> frontendseq + 1]
<1>1. frontendseq \in Nat /\ frontendseq + 1 \in 1..MaxIndex /\ frontendseq' = frontendseq + 1
  BY DEF TakeIndex, HostTypeOK
<1>2. /\ frontEnd' = [frontEnd EXCEPT ![f] = e]
      /\ e \in [at : {"off", "indexed", "up"}, index : 0..MaxIndex]
      /\ e.at = "indexed" /\ e.index = frontendseq + 1
  BY <1>1 DEF TakeIndex
<1> HIDE DEF e
<1>3. /\ frontEnd' \in [FrontEnds -> [at : {"off", "indexed", "up"}, index : 0..MaxIndex]]
      /\ frontEnd'[f] = e /\ \A g \in FrontEnds \ {f} : frontEnd'[g] = frontEnd[g]
  BY <1>2 DEF HostTypeOK
<1>4. UNCHANGED <<frontends, frontendTtl, leaving, regIds, regIps, platformRegs, registrar, cleaner, expiries>>
  BY DEF TakeIndex, regVars
<1>5. 1..frontendseq \subseteq 1..frontendseq'
  BY <1>1
<1>6. HostTypeOK'
  BY <1>1, <1>3, <1>4, <1>5 DEF HostTypeOK
<1>7. IndexOwned'
  <2>1. \A g \in FrontEnds \ {f} : frontEnd[g].at # "off" => frontEnd[g].index \in 1..frontendseq
    BY DEF IndexOwned
  <2>2. frontendseq + 1 \notin frontends /\ frontendseq + 1 \notin 1..frontendseq
    BY <1>1 DEF HostTypeOK
  <2> QED
    BY <1>1, <1>2, <1>3, <1>4, <1>5, <2>1, <2>2 DEF IndexOwned
<1>8. LeaversAreOld'
  <2>1. \A c \in Callers : frontendseq + 1 \notin leaving[c]
    BY <1>1 DEF HostTypeOK
  <2> QED
    BY <1>2, <1>3, <1>4, <2>1 DEF LeaversAreOld
<1>9. IdHeld' /\ CleanerRight'
  BY <1>4 DEF IdHeld, CleanerRight
<1> QED
  BY <1>6, <1>7, <1>8, <1>9

LEMMA RegisterFrontEndKeeps ==
    ASSUME HostInv, NEW f \in FrontEnds, RegisterFrontEnd(f)
    PROVE  HostInv'
<1> USE HostAssumption DEF HostInv
<1> DEFINE i == frontEnd[f].index
<1>1. frontEnd[f].at = "indexed" /\ i \in 1..frontendseq /\ i \notin frontends
  BY DEF RegisterFrontEnd, IndexOwned
<1>2. frontends' = frontends \cup {i} /\ frontendTtl' = frontendTtl \cup {i}
  BY DEF RegisterFrontEnd
<1>3. /\ frontEnd' \in [FrontEnds -> [at : {"off", "indexed", "up"}, index : 0..MaxIndex]]
      /\ frontEnd'[f].at = "up" /\ frontEnd'[f].index = i /\ \A g \in FrontEnds \ {f} : frontEnd'[g] = frontEnd[g]
  BY DEF RegisterFrontEnd, HostTypeOK
<1>4. UNCHANGED <<frontendseq, leaving, regIds, regIps, platformRegs, registrar, cleaner, expiries>>
  BY DEF RegisterFrontEnd, regVars
<1>5. HostTypeOK'
  BY <1>1, <1>2, <1>3, <1>4 DEF HostTypeOK
<1>6. IndexOwned'
  BY <1>1, <1>2, <1>3, <1>4 DEF IndexOwned
<1>7. LeaversAreOld'
  <2>1. \A c \in Callers : i \notin leaving[c]
    BY <1>1 DEF LeaversAreOld
  <2>2. \A g \in FrontEnds \ {f} : frontEnd[g].at = "up" => frontEnd[g].index # i
    BY <1>1 DEF IndexOwned
  <2> QED
    BY <1>2, <1>3, <1>4, <2>1, <2>2 DEF LeaversAreOld
<1>8. IdHeld' /\ CleanerRight'
  BY <1>4 DEF IdHeld, CleanerRight
<1> QED
  BY <1>5, <1>6, <1>7, <1>8

LEMMA RefreshFrontEndKeeps ==
    ASSUME HostInv, NEW f \in FrontEnds, RefreshFrontEnd(f)
    PROVE  HostInv'
<1> USE HostAssumption DEF HostInv
<1>1. /\ frontEnd' \in [FrontEnds -> [at : {"off", "indexed", "up"}, index : 0..MaxIndex]]
      /\ frontEnd'[f].at = "off" /\ \A g \in FrontEnds \ {f} : frontEnd'[g] = frontEnd[g]
  BY DEF RefreshFrontEnd, HostTypeOK
<1>2. UNCHANGED <<frontendseq, frontends, frontendTtl, leaving, regIds, regIps, platformRegs, registrar, cleaner,
                  expiries>>
  BY DEF RefreshFrontEnd, regVars
<1>3. HostTypeOK'
  BY <1>1, <1>2 DEF HostTypeOK
<1>4. IndexOwned'
  BY <1>1, <1>2 DEF IndexOwned
<1>5. LeaversAreOld'
  BY <1>1, <1>2 DEF LeaversAreOld
<1>6. IdHeld' /\ CleanerRight'
  BY <1>2 DEF IdHeld, CleanerRight
<1> QED
  BY <1>3, <1>4, <1>5, <1>6

LEMMA FrontEndExpiresKeeps ==
    ASSUME HostInv, NEW i \in Indices, NEW heard, FrontEndExpires(i, heard)
    PROVE  HostInv'
<1> USE HostAssumption DEF HostInv
<1>1. i \in frontendTtl /\ i \in frontends /\ i \in 1..frontendseq
  BY DEF FrontEndExpires, HostTypeOK
<1>2. frontendTtl' = frontendTtl \ {i} /\ expiries' \in 0..MaxExpiries
  BY DEF FrontEndExpires, HostTypeOK
<1>3. /\ leaving' \in [Callers -> SUBSET (1..frontendseq)]
      /\ \A c \in Callers : leaving'[c] \subseteq leaving[c] \cup {i}
  BY <1>1 DEF FrontEndExpires, HostTypeOK, Callers
<1>4. UNCHANGED <<frontendseq, frontends, frontEnd, regIds, regIps, platformRegs, registrar, cleaner>>
  BY DEF FrontEndExpires, regVars
<1>5. HostTypeOK'
  BY <1>2, <1>3, <1>4 DEF HostTypeOK
<1>6. IndexOwned'
  BY <1>4 DEF IndexOwned
<1>7. LeaversAreOld'
  <2>1. \A f \in FrontEnds : frontEnd[f].at = "indexed" => frontEnd[f].index # i
    BY <1>1 DEF IndexOwned
  <2> QED
    BY <1>2, <1>3, <1>4, <2>1 DEF LeaversAreOld
<1>8. IdHeld' /\ CleanerRight'
  BY <1>4 DEF IdHeld, CleanerRight
<1> QED
  BY <1>5, <1>6, <1>7, <1>8

LEMMA LeaveFrontEndKeeps ==
    ASSUME HostInv, NEW f \in FrontEnds, LeaveFrontEnd(f)
    PROVE  HostInv'
<1> USE HostAssumption DEF HostInv
<1> DEFINE i == frontEnd[f].index
<1>1. frontEnd[f].at = "up" /\ i \in 1..frontendseq /\ expiries' \in 0..MaxExpiries
  BY DEF LeaveFrontEnd, IndexOwned, HostTypeOK
<1>2. /\ frontEnd' \in [FrontEnds -> [at : {"off", "indexed", "up"}, index : 0..MaxIndex]]
      /\ frontEnd'[f].at = "off" /\ \A g \in FrontEnds \ {f} : frontEnd'[g] = frontEnd[g]
  BY DEF LeaveFrontEnd, HostTypeOK
<1>3. /\ leaving' \in [Callers -> SUBSET (1..frontendseq)]
      /\ \A c \in Callers : leaving'[c] \subseteq leaving[c] \cup {i}
  BY <1>1 DEF LeaveFrontEnd, HostTypeOK, Callers
<1>4. UNCHANGED <<frontendseq, frontends, frontendTtl, regIds, regIps, platformRegs, registrar, cleaner>>
  BY DEF LeaveFrontEnd, regVars
<1>5. HostTypeOK'
  BY <1>1, <1>2, <1>3, <1>4 DEF HostTypeOK
<1>6. IndexOwned'
  BY <1>2, <1>4 DEF IndexOwned
<1>7. LeaversAreOld'
  <2>1. \A g \in FrontEnds \ {f} : frontEnd[g].at # "off" => frontEnd[g].index # i
    BY <1>1 DEF IndexOwned
  <2> QED
    BY <1>2, <1>3, <1>4, <2>1 DEF LeaversAreOld
<1>8. IdHeld' /\ CleanerRight'
  BY <1>4 DEF IdHeld, CleanerRight
<1> QED
  BY <1>5, <1>6, <1>7, <1>8

LEMMA MonitorFrontEndsKeeps ==
    ASSUME HostInv, MonitorFrontEnds
    PROVE  HostInv'
<1> USE HostAssumption DEF HostInv
<1>1. /\ leaving' \in [Callers -> SUBSET (1..frontendseq)]
      /\ \A c \in Callers : leaving'[c] \subseteq leaving[c] \cup (frontends \ frontendTtl)
  BY DEF MonitorFrontEnds, HostTypeOK, Callers
<1>2. UNCHANGED <<frontendseq, frontends, frontendTtl, frontEnd, regIds, regIps, platformRegs, registrar, cleaner,
                  expiries>>
  BY DEF MonitorFrontEnds, regVars
<1>3. HostTypeOK'
  BY <1>1, <1>2 DEF HostTypeOK
<1>4. IndexOwned'
  BY <1>2 DEF IndexOwned
<1>5. LeaversAreOld'
  BY <1>1, <1>2 DEF LeaversAreOld, IndexOwned
<1>6. IdHeld' /\ CleanerRight'
  BY <1>2 DEF IdHeld, CleanerRight
<1> QED
  BY <1>3, <1>4, <1>5, <1>6

LEMMA UnregisterFrontEndKeeps ==
    ASSUME HostInv, NEW c \in Callers, NEW i \in Indices, UnregisterFrontEnd(c, i)
    PROVE  HostInv'
<1> USE HostAssumption DEF HostInv
<1>1. frontends' = frontends \ {i} /\ frontendTtl' = frontendTtl \ {i}
  BY DEF UnregisterFrontEnd
<1>2. /\ leaving' \in [Callers -> SUBSET (1..frontendseq)]
      /\ \A d \in Callers : leaving'[d] \subseteq leaving[d]
  BY DEF UnregisterFrontEnd, HostTypeOK
<1>3. UNCHANGED <<frontendseq, frontEnd, regIds, regIps, platformRegs, registrar, cleaner, expiries>>
  BY DEF UnregisterFrontEnd, regVars
<1>4. HostTypeOK'
  BY <1>1, <1>2, <1>3 DEF HostTypeOK
<1>5. IndexOwned'
  BY <1>1, <1>3 DEF IndexOwned
<1>6. LeaversAreOld'
  BY <1>1, <1>2, <1>3 DEF LeaversAreOld
<1>7. IdHeld' /\ CleanerRight'
  BY <1>3 DEF IdHeld, CleanerRight
<1> QED
  BY <1>4, <1>5, <1>6, <1>7

-----------------------------------------------------------------------------
(* Hosts of platforms. *)
RegistrarRec == [at : {"off", "members", "id", "ip", "add", "up"}, id : 0..MaxId]

\* There is a smallest free id as long as one is free.
LEMMA SmallestFreeIs ==
    ASSUME NEW set \in SUBSET Ids, set # Ids
    PROVE  SmallestFree(set) \in Ids \ set
<1> USE HostAssumption
<1>1. Ids \ set \subseteq Nat /\ Ids \ set # {}
  <2>1. Ids \subseteq Nat
    BY DEF Ids
  <2>2. Ids \ set # {}
    OBVIOUS
  <2> QED
    BY <2>1, <2>2
<1>2. PICK R : R = OpToRel(<, Nat) /\ IsWellFoundedOn(R, Nat)
  BY NatLessThanWellFounded
<1>3. PICK i \in Ids \ set : \A j \in Ids \ set : <<j, i>> \notin R
  BY <1>1, <1>2, WFMin
<1>4. ASSUME NEW j \in Ids \ set PROVE i <= j
  <2>1. i \in Nat /\ j \in Nat
    BY <1>1
  <2>2. <<j, i>> \notin R
    BY <1>3
  <2>3. ~(j < i)
    BY <1>2, <2>1, <2>2 DEF OpToRel
  <2> QED
    BY <2>1, <2>3
<1> QED
  BY <1>4 DEF SmallestFree

\* A step of a registrar that leaves the tables alone.
LEMMA RegistrarMoves ==
    ASSUME HostInv, NEW a \in Ips, NEW c \in RegistrarRec, registrar' = [registrar EXCEPT ![a] = c],
           UNCHANGED <<frontVars, regIds, regIps, platformRegs, cleaner, expiries>>,
           registrar[a].at \notin {"ip", "add"}, c.at \notin {"ip", "add"},
           c.at \in {"id", "up"} => c.id \in Ids,
           c.at = "id" => c.id \notin platformRegs \/ regIds[c.id] # "none"
    PROVE  HostInv'
<1> USE DEF HostInv
<1>1. registrar' \in [Ips -> RegistrarRec] /\ registrar'[a] = c /\ \A b \in Ips \ {a} : registrar'[b] = registrar[b]
  BY DEF HostTypeOK, RegistrarRec
<1>2. UNCHANGED <<frontendseq, frontends, frontendTtl, frontEnd, leaving>>
  BY DEF frontVars
<1>3. HostTypeOK'
  BY <1>1, <1>2 DEF HostTypeOK, RegistrarRec
<1>4. IdHeld'
  BY <1>1 DEF IdHeld
<1>5. IndexOwned' /\ LeaversAreOld' /\ CleanerRight'
  BY <1>2 DEF IndexOwned, LeaversAreOld, CleanerRight
<1> QED
  BY <1>3, <1>4, <1>5

LEMMA LookUpKeeps ==
    ASSUME HostInv, NEW a \in Ips, LookUp(a)
    PROVE  HostInv'
<1>1. CASE regIps[a] # 0
  <2> DEFINE c == [at |-> "up", id |-> regIps[a]]
  <2>1. registrar' = [registrar EXCEPT ![a] = c]
    BY <1>1 DEF LookUp
  <2>2. c \in RegistrarRec /\ c.at = "up" /\ c.id \in Ids
    BY <1>1, HostAssumption DEF HostInv, HostTypeOK, RegistrarRec, Ids
  <2> HIDE DEF c
  <2> QED
    BY <2>1, <2>2, RegistrarMoves DEF LookUp
<1>2. CASE regIps[a] = 0
  <2> DEFINE c == [at |-> "id", id |-> SmallestFree(platformRegs)]
  <2>1. registrar' = [registrar EXCEPT ![a] = c]
    BY <1>2 DEF LookUp
  <2>2. SmallestFree(platformRegs) \in Ids \ platformRegs
    BY <1>2, SmallestFreeIs DEF LookUp, HostInv, HostTypeOK
  <2>3. c \in RegistrarRec /\ c.at = "id" /\ c.id \in Ids \ platformRegs
    BY <2>2, HostAssumption DEF RegistrarRec, Ids
  <2> HIDE DEF c
  <2> QED
    BY <2>1, <2>3, RegistrarMoves DEF LookUp
<1> QED
  BY <1>1, <1>2

LEMMA MembersKeeps ==
    ASSUME HostInv, NEW a \in Ips, Members(a)
    PROVE  HostInv'
<1>1. CASE platformRegs = Ids
  <2> DEFINE c == [at |-> "off", id |-> 0]
  <2>1. registrar' = [registrar EXCEPT ![a] = c]
    BY <1>1 DEF Members
  <2>2. c \in RegistrarRec /\ c.at = "off"
    BY HostAssumption DEF RegistrarRec
  <2> HIDE DEF c
  <2> QED
    BY <2>1, <2>2, RegistrarMoves DEF Members
<1>2. CASE platformRegs # Ids
  <2> DEFINE c == [at |-> "id", id |-> SmallestFree(platformRegs)]
  <2>1. registrar' = [registrar EXCEPT ![a] = c]
    BY <1>2 DEF Members
  <2>2. SmallestFree(platformRegs) \in Ids \ platformRegs
    BY <1>2, SmallestFreeIs DEF HostInv, HostTypeOK
  <2>3. c \in RegistrarRec /\ c.at = "id" /\ c.id \in Ids \ platformRegs
    BY <2>2, HostAssumption DEF RegistrarRec, Ids
  <2> HIDE DEF c
  <2> QED
    BY <2>1, <2>3, RegistrarMoves DEF Members
<1> QED
  BY <1>1, <1>2

LEMMA SetIdKeeps ==
    ASSUME HostInv, NEW a \in Ips, SetId(a)
    PROVE  HostInv'
<1> USE HostAssumption DEF HostInv
<1>1. PICK i : i = registrar[a].id
  OBVIOUS
<1>2. registrar[a].at = "id" /\ i \in Ids
  BY <1>1 DEF SetId, IdHeld
<1>3. UNCHANGED <<frontendseq, frontends, frontendTtl, frontEnd, leaving, regIps, platformRegs, cleaner, expiries>>
  BY DEF SetId, frontVars
<1>4. /\ registrar' \in [Ips -> RegistrarRec] /\ registrar'[a].id = i
      /\ registrar'[a].at = IF regIds[i] = "none" THEN "ip" ELSE "members"
      /\ \A b \in Ips \ {a} : registrar'[b] = registrar[b]
  <2>1. PICK step \in {"ip", "members"} :
            RegistrarAt(a, step) /\ step = IF regIds[i] = "none" THEN "ip" ELSE "members"
    BY <1>1 DEF SetId
  <2> QED
    BY <1>1, <2>1 DEF RegistrarAt, HostTypeOK, RegistrarRec
<1>5. CASE regIds[i] = "none"
  <2>1. regIds' = [regIds EXCEPT ![i] = a]
    BY <1>1, <1>5 DEF SetId
  <2>2. HostTypeOK'
    BY <1>2, <1>3, <1>4, <2>1 DEF HostTypeOK, RegistrarRec, Ids
  <2>3. i \notin platformRegs
    BY <1>1, <1>2, <1>5 DEF IdHeld
  <2>4. regIds'[i] = a /\ \A j \in Ids \ {i} : regIds'[j] = regIds[j]
    BY <1>2, <2>1 DEF HostTypeOK
  <2>5. IdHeld'
    <3>1. \A b \in Ips : registrar'[b].at \in {"id", "ip", "add", "up"} => registrar'[b].id \in Ids
      BY <1>2, <1>4 DEF IdHeld
    <3>2. \A b \in Ips : registrar'[b].at \in {"ip", "add"} => regIds'[registrar'[b].id] = b
      BY <1>2, <1>4, <1>5, <2>4 DEF IdHeld
    <3>3. ASSUME NEW b \in Ips, NEW j \in Ids, regIds'[j] = b
          PROVE  j \in platformRegs' \/ (registrar'[b].at \in {"ip", "add"} /\ registrar'[b].id = j)
      BY <1>2, <1>3, <1>4, <1>5, <2>4, <3>3 DEF IdHeld
    <3>4. \A b \in Ips : registrar'[b].at = "id" => registrar'[b].id \notin platformRegs' \/ regIds'[registrar'[b].id] # "none"
      BY <1>2, <1>3, <1>4, <1>5, <2>4 DEF IdHeld
    <3> QED
      BY <3>1, <3>2, <3>3, <3>4 DEF IdHeld
  <2>6. CleanerRight'
    BY <1>3, <2>3, <2>4 DEF CleanerRight, HostTypeOK
  <2>7. IndexOwned' /\ LeaversAreOld'
    BY <1>3 DEF IndexOwned, LeaversAreOld
  <2> QED
    BY <2>2, <2>5, <2>6, <2>7
<1>6. CASE regIds[i] # "none"
  <2>1. UNCHANGED regIds
    BY <1>1, <1>6 DEF SetId
  <2>2. HostTypeOK'
    BY <1>3, <1>4, <2>1 DEF HostTypeOK, RegistrarRec
  <2>3. IdHeld'
    BY <1>2, <1>3, <1>4, <1>6, <2>1 DEF IdHeld
  <2>4. IndexOwned' /\ LeaversAreOld' /\ CleanerRight'
    BY <1>3, <2>1 DEF IndexOwned, LeaversAreOld, CleanerRight
  <2> QED
    BY <2>2, <2>3, <2>4
<1> QED
  BY <1>5, <1>6

LEMMA SetIpKeeps ==
    ASSUME HostInv, NEW a \in Ips, SetIp(a)
    PROVE  HostInv'
<1> USE HostAssumption DEF HostInv
<1>1. registrar[a].at = "ip" /\ registrar[a].id \in Ids
  BY DEF SetIp, IdHeld
<1>2. regIps' = [regIps EXCEPT ![a] = registrar[a].id]
  BY DEF SetIp
<1>3. /\ registrar' \in [Ips -> RegistrarRec] /\ registrar'[a].id = registrar[a].id /\ registrar'[a].at = "add"
      /\ \A b \in Ips \ {a} : registrar'[b] = registrar[b]
  BY DEF SetIp, RegistrarAt, HostTypeOK, RegistrarRec
<1>4. UNCHANGED <<frontendseq, frontends, frontendTtl, frontEnd, leaving, regIds, platformRegs, cleaner, expiries>>
  BY DEF SetIp, frontVars
<1>5. HostTypeOK'
  BY <1>1, <1>2, <1>3, <1>4 DEF HostTypeOK, RegistrarRec, Ids
<1>6. IdHeld'
  BY <1>1, <1>3, <1>4 DEF IdHeld
<1>7. IndexOwned' /\ LeaversAreOld' /\ CleanerRight'
  BY <1>4 DEF IndexOwned, LeaversAreOld, CleanerRight
<1> QED
  BY <1>5, <1>6, <1>7

LEMMA AddIdKeeps ==
    ASSUME HostInv, NEW a \in Ips, AddId(a)
    PROVE  HostInv'
<1> USE HostAssumption DEF HostInv
<1>1. registrar[a].at = "add" /\ registrar[a].id \in Ids /\ regIds[registrar[a].id] = a
  BY DEF AddId, IdHeld
<1>2. platformRegs' = platformRegs \cup {registrar[a].id}
  BY DEF AddId
<1>3. /\ registrar' \in [Ips -> RegistrarRec] /\ registrar'[a].id = registrar[a].id /\ registrar'[a].at = "up"
      /\ \A b \in Ips \ {a} : registrar'[b] = registrar[b]
  BY DEF AddId, RegistrarAt, HostTypeOK, RegistrarRec
<1>4. UNCHANGED <<frontendseq, frontends, frontendTtl, frontEnd, leaving, regIds, regIps, cleaner, expiries>>
  BY DEF AddId, frontVars
<1>5. HostTypeOK'
  BY <1>1, <1>2, <1>3, <1>4 DEF HostTypeOK, RegistrarRec
<1>6. IdHeld'
  BY <1>1, <1>2, <1>3, <1>4 DEF IdHeld
<1>7. CleanerRight'
  BY <1>1, <1>2, <1>4 DEF CleanerRight
<1>8. IndexOwned' /\ LeaversAreOld'
  BY <1>4 DEF IndexOwned, LeaversAreOld
<1> QED
  BY <1>5, <1>6, <1>7, <1>8

LEMMA RefusePlatformKeeps ==
    ASSUME HostInv, NEW a \in Ips, RefusePlatform(a)
    PROVE  HostInv'
<1> DEFINE c == [at |-> "off", id |-> 0]
<1>1. registrar' = [registrar EXCEPT ![a] = c]
  BY DEF RefusePlatform
<1>2. c \in RegistrarRec /\ c.at = "off"
  BY HostAssumption DEF RegistrarRec
<1> HIDE DEF c
<1> QED
  BY <1>1, <1>2, RegistrarMoves DEF RefusePlatform

LEMMA PlatformExpiresKeeps ==
    ASSUME HostInv, NEW a \in Ips, PlatformExpires(a)
    PROVE  HostInv'
<1> USE HostAssumption DEF HostInv
<1>1. PICK i : i = registrar[a].id
  OBVIOUS
<1>2. i \in Ids /\ regIds' = [regIds EXCEPT ![i] = "none"] /\ expiries' \in 0..MaxExpiries
  BY <1>1 DEF PlatformExpires, IdHeld, HostTypeOK
<1>3. UNCHANGED <<frontendseq, frontends, frontendTtl, frontEnd, leaving, regIps, platformRegs, registrar, cleaner>>
  BY DEF PlatformExpires, frontVars
<1>4. regIds' \in [Ids -> Ips \cup {"none"}] /\ regIds'[i] = "none" /\ \A j \in Ids \ {i} : regIds'[j] = regIds[j]
  BY <1>2 DEF HostTypeOK
<1>5. HostTypeOK'
  BY <1>2, <1>3, <1>4 DEF HostTypeOK
<1>6. \A b \in Ips : registrar[b].at \notin {"id", "ip", "add"}
  BY DEF PlatformExpires
<1>7. IdHeld'
  BY <1>3, <1>4, <1>6 DEF IdHeld
<1>8. CleanerRight'
  BY <1>3, <1>4 DEF CleanerRight, HostTypeOK
<1>9. IndexOwned' /\ LeaversAreOld'
  BY <1>3 DEF IndexOwned, LeaversAreOld
<1> QED
  BY <1>5, <1>7, <1>8, <1>9

LEMMA IpExpiresKeeps ==
    ASSUME HostInv, NEW a \in Ips, IpExpires(a)
    PROVE  HostInv'
<1> USE HostAssumption DEF HostInv
<1>1. regIps' \in [Ips -> 0..MaxId]
  BY DEF IpExpires, HostTypeOK
<1>2. UNCHANGED <<frontendseq, frontends, frontendTtl, frontEnd, leaving, regIds, platformRegs, registrar, cleaner,
                  expiries>>
  BY DEF IpExpires, frontVars
<1>3. HostTypeOK'
  BY <1>1, <1>2 DEF HostTypeOK
<1>4. IndexOwned' /\ LeaversAreOld' /\ IdHeld' /\ CleanerRight'
  BY <1>2 DEF IndexOwned, LeaversAreOld, IdHeld, CleanerRight
<1> QED
  BY <1>3, <1>4

-----------------------------------------------------------------------------
(* The cleaner. *)
CleanerRec == [at : {"idle", "check", "remove"}, todo : SUBSET Ids, id : 0..MaxId]

\* A step of the cleaner that takes no id out.
LEMMA CleanerMoves ==
    ASSUME HostInv, cleaner' \in CleanerRec,
           UNCHANGED <<frontVars, regIds, regIps, platformRegs, registrar, expiries>>, CleanerRight'
    PROVE  HostInv'
<1> USE DEF HostInv
<1>1. UNCHANGED <<frontendseq, frontends, frontendTtl, frontEnd, leaving>>
  BY DEF frontVars
<1>2. HostTypeOK'
  BY <1>1 DEF HostTypeOK, CleanerRec
<1>3. IndexOwned' /\ LeaversAreOld' /\ IdHeld'
  BY <1>1 DEF IndexOwned, LeaversAreOld, IdHeld
<1> QED
  BY <1>2, <1>3

LEMMA CleanerRests ==
    ASSUME HostInv, cleaner' = Idle,
           UNCHANGED <<frontVars, regIds, regIps, platformRegs, registrar, expiries>>
    PROVE  HostInv'
<1>1. Idle \in CleanerRec /\ Idle.at = "idle" /\ Idle.todo = {}
  BY HostAssumption DEF Idle, CleanerRec
<1>2. CleanerRight'
  BY <1>1 DEF CleanerRight
<1> QED
  BY <1>1, <1>2, CleanerMoves

LEMMA StartCleaningKeeps ==
    ASSUME HostInv, StartCleaning
    PROVE  HostInv'
<1>1. cleaner' = [at |-> "check", todo |-> platformRegs, id |-> 0] /\ platformRegs' = platformRegs
  BY DEF StartCleaning
<1>2. cleaner' \in CleanerRec /\ CleanerRight'
  BY <1>1, HostAssumption DEF CleanerRec, CleanerRight, HostInv, HostTypeOK
<1> QED
  BY <1>2, CleanerMoves DEF StartCleaning

LEMMA CheckIdKeeps ==
    ASSUME HostInv, CheckId
    PROVE  HostInv'
<1>1. PICK i \in cleaner.todo :
          cleaner' = [at |-> IF regIds[i] = "none" THEN "remove" ELSE "check",
                      todo |-> cleaner.todo \ {i}, id |-> IF regIds[i] = "none" THEN i ELSE 0]
  BY DEF CheckId
<1>2. cleaner.todo \subseteq platformRegs /\ cleaner.todo \subseteq Ids /\ i \in 0..MaxId /\ 0 \in 0..MaxId
  BY HostAssumption DEF HostInv, HostTypeOK, CleanerRight, Ids
<1>3. UNCHANGED <<platformRegs, regIds>>
  BY DEF CheckId
<1>4. cleaner' \in CleanerRec
  BY <1>1, <1>2 DEF CleanerRec
<1>5. CleanerRight'
  BY <1>1, <1>2, <1>3 DEF CleanerRight
<1> QED
  BY <1>4, <1>5, CleanerMoves DEF CheckId

LEMMA RemoveIdKeeps ==
    ASSUME HostInv, RemoveId
    PROVE  HostInv'
<1> USE HostAssumption DEF HostInv
<1>1. PICK i : i = cleaner.id
  OBVIOUS
<1>2. cleaner.at = "remove" /\ regIds[i] = "none" /\ i \notin cleaner.todo /\ platformRegs' = platformRegs \ {i}
  BY <1>1 DEF RemoveId, CleanerRight
<1>3. cleaner' \in CleanerRec /\ cleaner'.at = "check" /\ cleaner'.todo = cleaner.todo
  <2>1. cleaner \in CleanerRec /\ 0 \in 0..MaxId
    BY DEF HostTypeOK, CleanerRec
  <2>2. cleaner' = [cleaner EXCEPT !.at = "check", !.id = 0]
    BY DEF RemoveId
  <2> QED
    BY <2>1, <2>2 DEF CleanerRec
<1>4. UNCHANGED <<frontendseq, frontends, frontendTtl, frontEnd, leaving, regIds, regIps, registrar, expiries>>
  BY DEF RemoveId, frontVars
<1>5. HostTypeOK'
  BY <1>2, <1>3, <1>4 DEF HostTypeOK, CleanerRec
<1>6. CleanerRight'
  BY <1>2, <1>3, <1>4 DEF CleanerRight
<1>7. IdHeld'
  <2>1. \A a \in Ips : regIds[i] # a
    BY <1>2
  <2> QED
    BY <1>2, <1>4, <2>1 DEF IdHeld
<1>8. IndexOwned' /\ LeaversAreOld'
  BY <1>4 DEF IndexOwned, LeaversAreOld
<1> QED
  BY <1>5, <1>6, <1>7, <1>8

LEMMA EndCleaningKeeps ==
    ASSUME HostInv, EndCleaning
    PROVE  HostInv'
BY CleanerRests DEF EndCleaning

-----------------------------------------------------------------------------
(* The scheduler. *)
RowRec == [there : BOOLEAN, active : BOOLEAN, interval : Intervals, now : BOOLEAN, update : BOOLEAN]
EntryRec == [there : BOOLEAN, interval : Intervals, running : BOOLEAN, stopped : BOOLEAN]
AdderRec == [at : {"idle", "update", "now", "cron"}, job : Jobs \cup {"none"}, row : RowRec]
TableTyped == table' \in [Jobs -> RowRec]

LEMMA NoEntryIs ==
    /\ NoRow \in RowRec
    /\ NoEntry \in EntryRec /\ ~NoEntry.there /\ ~NoEntry.running
    /\ NoAdder \in AdderRec /\ NoAdder.at = "idle"
BY DEF NoRow, NoEntry, NoAdder, RowRec, EntryRec, AdderRec, Intervals

LEMMA SchedulerTyped ==
    ASSUME SchedulerInv
    PROVE  /\ table \in [Jobs -> RowRec] /\ entry \in [Jobs -> EntryRec] /\ adder \in [Adders -> AdderRec]
           /\ cron \subseteq Jobs \X Intervals /\ runs \in [Jobs -> Nat]
BY DEF SchedulerInv, SchedulerTypeOK, RowRec, EntryRec, AdderRec

\* Only the table changes.
LEMMA TableMoves ==
    ASSUME SchedulerInv, TableTyped, UNCHANGED <<entry, cron, runs, adder>>
    PROVE  SchedulerInv'
<1> USE DEF SchedulerInv
<1>1. SchedulerTypeOK'
  BY DEF SchedulerTypeOK, TableTyped, RowRec
<1>2. OneRunAtATime' /\ WorkIsListed' /\ CronIsListed' /\ AddersAlone'
  BY DEF OneRunAtATime, WorkIsListed, CronIsListed, AddersAlone, AdderFree
<1> QED
  BY <1>1, <1>2

LEMMA AddJobKeeps ==
    ASSUME SchedulerInv, NEW j \in Jobs, NEW i \in Intervals, NEW active \in BOOLEAN, NEW now \in BOOLEAN,
           AddJob(j, i, active, now)
    PROVE  SchedulerInv'
<1> DEFINE row == [there |-> TRUE, active |-> active, interval |-> i, now |-> now, update |-> table[j].there]
<1>1. table[j].there \in BOOLEAN
  BY SchedulerTyped DEF RowRec
<1>2. row \in RowRec
  BY <1>1 DEF RowRec
<1>3. table' = [table EXCEPT ![j] = row]
  BY DEF AddJob
<1> HIDE DEF row
<1>4. TableTyped
  BY <1>2, <1>3, SchedulerTyped DEF TableTyped
<1> QED
  BY <1>4, TableMoves DEF AddJob

LEMMA RemoveJobKeeps ==
    ASSUME SchedulerInv, NEW j \in Jobs, RemoveJob(j)
    PROVE  SchedulerInv'
<1>1. TableTyped
  BY SchedulerTyped DEF RemoveJob, TableTyped, RowRec
<1> QED
  BY <1>1, TableMoves DEF RemoveJob

\* The CronJob of an entry is stopped: none is left of the job.
LEMMA CronStops ==
    ASSUME SchedulerInv, NEW j \in Jobs, StopCron(j)
    PROVE  /\ cron' \subseteq cron /\ (\A c \in cron' : c[1] # j) /\ \A c \in cron : c[1] # j => c \in cron'
           /\ entry' \in [Jobs -> EntryRec] /\ \A i \in Jobs \ {j} : entry'[i] = entry[i]
           /\ entry'[j].there = entry[j].there /\ entry'[j].running = entry[j].running
<1> USE DEF SchedulerInv
<1>1. \A c \in cron : c = <<c[1], c[2]>> /\ c[1] \in Jobs
  BY SchedulerTyped
<1>2. CASE entry[j].there
  <2>1. cron' = cron \ {<<j, entry[j].interval>>}
    BY <1>2 DEF StopCron
  <2>2. entry' = [entry EXCEPT ![j].stopped = TRUE]
    BY <1>2 DEF StopCron
  <2>3. \A c \in cron : c[1] = j => c = <<j, entry[j].interval>>
    BY <1>1 DEF CronIsListed
  <2>4. /\ entry' \in [Jobs -> EntryRec] /\ \A i \in Jobs \ {j} : entry'[i] = entry[i]
        /\ entry'[j].there = entry[j].there /\ entry'[j].running = entry[j].running
    BY <2>2, SchedulerTyped DEF EntryRec
  <2>5. \A c \in cron : c[1] # j => c # <<j, entry[j].interval>>
    OBVIOUS
  <2> QED
    BY <2>1, <2>3, <2>4, <2>5
<1>3. CASE ~entry[j].there
  <2>1. cron' = cron /\ entry' = entry
    BY <1>3 DEF StopCron
  <2>2. \A c \in cron : c[1] # j
    BY <1>3 DEF CronIsListed
  <2> QED
    BY <2>1, <2>2, SchedulerTyped
<1> QED
  BY <1>2, <1>3

LEMMA UnscheduleKeeps ==
    ASSUME SchedulerInv, NEW j \in Jobs, Unschedule(j)
    PROVE  SchedulerInv'
<1> USE DEF SchedulerInv
<1>1. UNCHANGED <<table, runs, adder>> /\ StopCron(j)
  BY DEF Unschedule
<1>2. /\ cron' \subseteq cron /\ (\A c \in cron' : c[1] # j)
      /\ entry' \in [Jobs -> EntryRec] /\ \A i \in Jobs \ {j} : entry'[i] = entry[i]
      /\ entry'[j].there = entry[j].there /\ entry'[j].running = entry[j].running
  BY <1>1, CronStops
<1>3. SchedulerTypeOK'
  BY <1>1, <1>2 DEF SchedulerTypeOK, EntryRec
<1>4. OneRunAtATime' /\ WorkIsListed'
  BY <1>1, <1>2 DEF OneRunAtATime, WorkIsListed
<1>5. CronIsListed'
  BY <1>2, SchedulerTyped DEF CronIsListed
<1>6. AddersAlone'
  BY <1>1, <1>2 DEF AddersAlone, AdderFree
<1> QED
  BY <1>3, <1>4, <1>5, <1>6

\* A call of addJobToRunningJobs begins.
LEMMA AdderBegins ==
    ASSUME SchedulerInv, ~SlowDb, NEW a \in Adders, NEW j \in Jobs, NEW c \in AdderRec, c.job = j,
           adder' = [adder EXCEPT ![a] = c], \A b \in Adders : adder[b].job # j,
           UNCHANGED <<table, runs>>, runs[j] = 0,
           cron' \subseteq cron, \A x \in cron' : x[1] # j,
           entry' \in [Jobs -> EntryRec], \A i \in Jobs \ {j} : entry'[i] = entry[i]
    PROVE  SchedulerInv'
<1> USE DEF SchedulerInv
<1>1. adder' \in [Adders -> AdderRec] /\ adder'[a] = c /\ \A b \in Adders \ {a} : adder'[b] = adder[b]
  BY SchedulerTyped
<1>2. SchedulerTypeOK'
  BY <1>1 DEF SchedulerTypeOK, EntryRec, AdderRec, RowRec
<1>3. OneRunAtATime' /\ WorkIsListed'
  BY DEF OneRunAtATime, WorkIsListed
<1>4. CronIsListed'
  BY SchedulerTyped DEF CronIsListed
<1>5. AddersAlone'
  BY <1>1 DEF AddersAlone, AdderFree
<1> QED
  BY <1>2, <1>3, <1>4, <1>5

LEMMA ScheduleKeeps ==
    ASSUME SchedulerInv, ~SlowDb, NEW a \in Adders, NEW j \in Jobs, Schedule(a, j)
    PROVE  SchedulerInv'
<1> USE DEF SchedulerInv
<1>1. UNCHANGED <<table, runs>> /\ \A b \in Adders : adder[b].job # j
  BY DEF Schedule
<1>2. table[j] \in RowRec /\ runs[j] \in Nat
  BY SchedulerTyped
<1>3. CASE ~table[j].update
  <2> DEFINE c == [at |-> NextPlace(table[j]), job |-> j, row |-> table[j]]
  <2>1. adder' = [adder EXCEPT ![a] = c] /\ UNCHANGED <<entry, cron>> /\ ~entry[j].there
    BY <1>3 DEF Schedule
  <2>2. c \in AdderRec /\ c.job = j
    BY <1>2 DEF AdderRec, NextPlace
  <2> HIDE DEF c
  <2>3. runs[j] = 0 /\ \A x \in cron : x[1] # j
    BY <1>2, <2>1 DEF WorkIsListed, CronIsListed
  <2> QED
    BY ZenonT(60), <1>1, <2>1, <2>2, <2>3, AdderBegins, SchedulerTyped
<1>4. CASE table[j].update
  <2>1. StopCron(j)
    BY <1>4 DEF Schedule
  <2>2. /\ cron' \subseteq cron /\ (\A x \in cron' : x[1] # j)
        /\ entry' \in [Jobs -> EntryRec] /\ \A i \in Jobs \ {j} : entry'[i] = entry[i]
        /\ entry'[j].there = entry[j].there /\ entry'[j].running = entry[j].running
    BY <2>1, CronStops
  <2>3. CASE entry[j].there /\ entry[j].running
    <3>1. adder' = adder
      BY <1>4, <2>3 DEF Schedule
    <3>2. SchedulerTypeOK'
      BY <1>1, <2>2, <3>1 DEF SchedulerTypeOK, EntryRec
    <3>3. OneRunAtATime' /\ WorkIsListed'
      BY <1>1, <2>2 DEF OneRunAtATime, WorkIsListed
    <3>4. CronIsListed'
      BY <2>2, SchedulerTyped DEF CronIsListed
    <3>5. AddersAlone'
      BY <1>1, <2>2, <3>1 DEF AddersAlone, AdderFree
    <3> QED
      BY <3>2, <3>3, <3>4, <3>5
  <2>4. CASE ~(entry[j].there /\ entry[j].running)
    <3> DEFINE c == [at |-> "update", job |-> j, row |-> table[j]]
    <3>1. adder' = [adder EXCEPT ![a] = c]
      BY <1>4, <2>4 DEF Schedule
    <3>2. c \in AdderRec /\ c.job = j
      BY <1>2 DEF AdderRec
    <3> HIDE DEF c
    <3>3. runs[j] = 0
      BY <1>2, <2>4 DEF WorkIsListed
    <3> QED
      BY <1>1, <2>2, <3>1, <3>2, <3>3, AdderBegins
  <2> QED
    BY <2>3, <2>4
<1> QED
  BY <1>3, <1>4

LEMMA ClearUpdateKeeps ==
    ASSUME SchedulerInv, NEW a \in Adders, ClearUpdate(a)
    PROVE  SchedulerInv'
<1> USE DEF SchedulerInv
<1>1. UNCHANGED <<entry, cron, runs>> /\ adder[a].at = "update"
  BY DEF ClearUpdate
<1>2. TableTyped
  BY SchedulerTyped DEF ClearUpdate, TableTyped, RowRec
<1>3. /\ adder' \in [Adders -> AdderRec] /\ adder'[a].job = adder[a].job
      /\ \A b \in Adders \ {a} : adder'[b] = adder[b]
  BY SchedulerTyped DEF ClearUpdate, AdderGoes, AdderRec, NextPlace
<1>4. SchedulerTypeOK'
  BY <1>1, <1>2, <1>3 DEF SchedulerTypeOK, TableTyped, RowRec, AdderRec
<1>5. OneRunAtATime' /\ WorkIsListed' /\ CronIsListed'
  BY <1>1 DEF OneRunAtATime, WorkIsListed, CronIsListed
<1>6. \A b \in Adders : adder'[b].job = adder[b].job /\ (AdderFree(b)' <=> AdderFree(b))
  <2>1. adder'[a].at \in {"now", "cron"}
    BY SchedulerTyped DEF ClearUpdate, AdderGoes, AdderRec, NextPlace
  <2> QED
    BY <1>1, <1>3, <2>1 DEF AdderFree
<1>7. AddersAlone'
  BY <1>1, <1>6 DEF AddersAlone
<1> QED
  BY <1>4, <1>5, <1>7

LEMMA ClearNowKeeps ==
    ASSUME SchedulerInv, NEW a \in Adders, ClearNow(a)
    PROVE  SchedulerInv'
<1> USE DEF SchedulerInv
<1>1. UNCHANGED <<entry, cron, runs>> /\ adder[a].at = "now"
  BY DEF ClearNow
<1>2. TableTyped
  BY SchedulerTyped DEF ClearNow, TableTyped, RowRec
<1>3. /\ adder' \in [Adders -> AdderRec] /\ adder'[a].job = adder[a].job
      /\ \A b \in Adders \ {a} : adder'[b] = adder[b]
  BY SchedulerTyped DEF ClearNow, AdderGoes, AdderRec
<1>4. SchedulerTypeOK'
  BY <1>1, <1>2, <1>3 DEF SchedulerTypeOK, TableTyped, RowRec, AdderRec
<1>5. OneRunAtATime' /\ WorkIsListed' /\ CronIsListed'
  BY <1>1 DEF OneRunAtATime, WorkIsListed, CronIsListed
<1>6. \A b \in Adders : adder'[b].job = adder[b].job /\ (AdderFree(b)' <=> AdderFree(b))
  <2>1. adder'[a].at = "cron"
    BY SchedulerTyped DEF ClearNow, AdderGoes, AdderRec
  <2> QED
    BY <1>1, <1>3, <2>1 DEF AdderFree
<1>7. AddersAlone'
  BY <1>1, <1>6 DEF AddersAlone
<1> QED
  BY <1>4, <1>5, <1>7

LEMMA MakeCronKeeps ==
    ASSUME SchedulerInv, NEW a \in Adders, MakeCron(a)
    PROVE  SchedulerInv'
<1> USE DEF SchedulerInv
<1>1. PICK j \in Jobs, r \in RowRec : j = adder[a].job /\ r = adder[a].row
  <2>1. ~AdderFree(a)
    BY DEF MakeCron, AdderFree
  <2>2. adder[a].job \in Jobs
    BY <2>1 DEF AddersAlone
  <2>3. adder[a].row \in RowRec
    BY SchedulerTyped DEF AdderRec
  <2> QED
    BY <2>2, <2>3
<1>2. /\ ~AdderFree(a) /\ runs[j] = 0 /\ (\A c \in cron : c[1] # j)
      /\ \A b \in Adders \ {a} : ~AdderFree(b) => adder[b].job # j
  BY <1>1 DEF MakeCron, AdderFree, AddersAlone
<1> DEFINE e == [there |-> TRUE, interval |-> r.interval, running |-> r.now, stopped |-> FALSE]
<1>3. e \in EntryRec /\ e.there /\ e.interval = r.interval /\ e.running = r.now /\ ~e.stopped
      /\ r.interval \in Intervals /\ r.now \in BOOLEAN
  BY DEF EntryRec, RowRec
<1>4. /\ cron' = cron \cup {<<j, r.interval>>} /\ entry' = [entry EXCEPT ![j] = e]
      /\ runs' = [runs EXCEPT ![j] = IF r.now THEN @ + 1 ELSE @]
      /\ table' = table
  BY <1>1 DEF MakeCron
<1> HIDE DEF e
<1>5. entry' \in [Jobs -> EntryRec] /\ entry'[j] = e /\ \A i \in Jobs \ {j} : entry'[i] = entry[i]
  BY <1>3, <1>4, SchedulerTyped
<1>6. runs' \in [Jobs -> Nat] /\ runs'[j] = (IF r.now THEN 1 ELSE 0) /\ \A i \in Jobs \ {j} : runs'[i] = runs[i]
  BY <1>2, <1>4, SchedulerTyped
<1>7. adder' \in [Adders -> AdderRec] /\ adder'[a].at = "idle" /\ \A b \in Adders \ {a} : adder'[b] = adder[b]
  BY NoEntryIs, SchedulerTyped DEF MakeCron, AdderEnds
<1>8. TableTyped
  BY <1>4, SchedulerTyped DEF TableTyped, RowRec
<1>9. cron' \subseteq Jobs \X Intervals
  BY <1>3, <1>4, SchedulerTyped
<1>10. SchedulerTypeOK'
  BY <1>5, <1>6, <1>7, <1>8, <1>9 DEF SchedulerTypeOK, TableTyped, RowRec, EntryRec, AdderRec
<1>11. OneRunAtATime'
  BY <1>6 DEF OneRunAtATime
<1>12. WorkIsListed'
  BY <1>3, <1>5, <1>6 DEF WorkIsListed
<1>13. CronIsListed'
  <2>1. ASSUME NEW c \in cron' PROVE (entry[c[1]].there /\ entry[c[1]].interval = c[2] /\ ~entry[c[1]].stopped)'
    <3>1. CASE c \in cron
      <4>1. c[1] \in Jobs \ {j}
        BY <1>2, <3>1, SchedulerTyped
      <4> QED
        BY <1>5, <3>1, <4>1 DEF CronIsListed
    <3>2. CASE c = <<j, r.interval>>
      BY <1>3, <1>5, <3>2
    <3> QED
      BY <1>4, <2>1, <3>1, <3>2
  <2> QED
    BY <2>1 DEF CronIsListed
<1>14. AddersAlone'
  <2>1. \A b \in Adders : AdderFree(b)' \/ (b # a /\ ~AdderFree(b) /\ adder'[b] = adder[b] /\ adder[b].job # j)
    BY <1>2, <1>7 DEF AdderFree
  <2>2. \A c \in cron' : c[1] = j \/ c \in cron
    BY <1>4
  <2> QED
    BY <1>6, <2>1, <2>2 DEF AddersAlone
<1> QED
  BY <1>10, <1>11, <1>12, <1>13, <1>14

LEMMA CronTicksKeeps ==
    ASSUME SchedulerInv, NEW j \in Jobs, NEW i \in Intervals, CronTicks(j, i)
    PROVE  SchedulerInv'
<1> USE DEF SchedulerInv
<1>1. <<j, i>> \in cron /\ entry[j].there /\ ~entry[j].running /\ UNCHANGED <<table, cron, adder>>
  BY DEF CronTicks, MayRun
<1>2. runs[j] = 0
  BY <1>1, SchedulerTyped DEF WorkIsListed
<1>3. /\ entry' \in [Jobs -> EntryRec] /\ (\A k \in Jobs \ {j} : entry'[k] = entry[k])
      /\ entry'[j].running /\ entry'[j].there /\ entry'[j].interval = entry[j].interval
      /\ entry'[j].stopped = entry[j].stopped
  BY <1>1, SchedulerTyped DEF CronTicks, EntryRec
<1>4. runs' \in [Jobs -> Nat] /\ runs'[j] = 1 /\ \A k \in Jobs \ {j} : runs'[k] = runs[k]
  BY <1>2, SchedulerTyped DEF CronTicks
<1>5. SchedulerTypeOK'
  BY <1>1, <1>3, <1>4 DEF SchedulerTypeOK, EntryRec
<1>6. OneRunAtATime' /\ WorkIsListed'
  BY <1>3, <1>4 DEF OneRunAtATime, WorkIsListed
<1>7. CronIsListed'
  BY <1>1, <1>3, SchedulerTyped DEF CronIsListed
<1>8. AddersAlone'
  <2>1. <<j, i>>[1] = j
    OBVIOUS
  <2>2. \A a \in Adders : ~AdderFree(a) => adder[a].job # j
    BY <1>1, <2>1 DEF AddersAlone
  <2> QED
    BY <1>1, <1>4, <2>2 DEF AddersAlone, AdderFree
<1> QED
  BY <1>5, <1>6, <1>7, <1>8

LEMMA FinishKeeps ==
    ASSUME SchedulerInv, NEW j \in Jobs, Finish(j)
    PROVE  SchedulerInv'
<1> USE DEF SchedulerInv
<1>1. runs[j] = 1 /\ entry[j].there /\ UNCHANGED <<table, cron, adder>>
  BY SchedulerTyped DEF Finish, OneRunAtATime, WorkIsListed
<1>2. runs' \in [Jobs -> Nat] /\ runs'[j] = 0 /\ \A k \in Jobs \ {j} : runs'[k] = runs[k]
  BY <1>1, SchedulerTyped DEF Finish
<1>3. PICK e \in EntryRec : /\ entry' = [entry EXCEPT ![j] = e]
                            /\ ~entry[j].stopped => e.there /\ e.interval = entry[j].interval /\ ~e.stopped
  <2>1. CASE entry[j].stopped
    BY <1>1, <2>1, NoEntryIs DEF Finish
  <2>2. CASE ~entry[j].stopped
    <3> DEFINE f == [entry[j] EXCEPT !.running = FALSE]
    <3>1. f \in EntryRec /\ f.there /\ f.interval = entry[j].interval /\ ~f.stopped
      BY <1>1, <2>2, SchedulerTyped DEF EntryRec
    <3>2. entry' = [entry EXCEPT ![j] = f]
      BY <1>1, <2>2 DEF Finish
    <3> HIDE DEF f
    <3> QED
      BY <3>1, <3>2
  <2> QED
    BY <2>1, <2>2
<1>4. entry' \in [Jobs -> EntryRec] /\ entry'[j] = e /\ \A k \in Jobs \ {j} : entry'[k] = entry[k]
  BY <1>3, SchedulerTyped
<1>5. SchedulerTypeOK'
  BY <1>1, <1>2, <1>4 DEF SchedulerTypeOK, EntryRec
<1>6. OneRunAtATime' /\ WorkIsListed'
  BY <1>2, <1>4 DEF OneRunAtATime, WorkIsListed
<1>7. CronIsListed'
  BY <1>1, <1>3, <1>4, SchedulerTyped DEF CronIsListed
<1>8. AddersAlone'
  BY <1>1, <1>2 DEF AddersAlone, AdderFree
<1> QED
  BY <1>5, <1>6, <1>7, <1>8

LEMMA StopSchedulerKeeps ==
    ASSUME SchedulerInv, StopScheduler
    PROVE  SchedulerInv'
<1> USE DEF SchedulerInv
<1>1. UNCHANGED <<table, runs, adder>>
  BY DEF StopScheduler
<1>2. cron' = {}
  BY DEF StopScheduler, CronIsListed
<1>3. /\ entry' \in [Jobs -> EntryRec]
      /\ \A j \in Jobs : entry[j].there /\ entry[j].running => entry'[j].there /\ entry'[j].running
  <2>1. \A j \in Jobs : [entry[j] EXCEPT !.stopped = TRUE] \in EntryRec
    BY SchedulerTyped DEF EntryRec
  <2>2. \A j \in Jobs : entry[j].there /\ entry[j].running => entry'[j].there /\ entry'[j].running
    BY SchedulerTyped DEF StopScheduler, EntryRec
  <2> QED
    BY <2>1, <2>2, NoEntryIs DEF StopScheduler
<1>4. SchedulerTypeOK'
  BY <1>1, <1>2, <1>3 DEF SchedulerTypeOK, EntryRec
<1>5. OneRunAtATime' /\ WorkIsListed' /\ CronIsListed' /\ AddersAlone'
  BY <1>1, <1>2, <1>3 DEF OneRunAtATime, WorkIsListed, CronIsListed, AddersAlone, AdderFree
<1> QED
  BY <1>4, <1>5

\* Of a daemon that starts nothing runs.
LEMMA SchedulerEmpty ==
    ASSUME entry = [j \in Jobs |-> NoEntry], cron = {}, runs = [j \in Jobs |-> 0],
           adder = [a \in Adders |-> NoAdder], table \in [Jobs -> RowRec]
    PROVE  SchedulerInv
<1>1. SchedulerTypeOK
  BY NoEntryIs DEF SchedulerTypeOK, RowRec, EntryRec, AdderRec
<1>2. OneRunAtATime /\ WorkIsListed /\ CronIsListed
  BY DEF OneRunAtATime, WorkIsListed, CronIsListed
<1>3. AddersAlone
  BY NoEntryIs DEF AddersAlone, AdderFree
<1> QED
  BY <1>1, <1>2, <1>3 DEF SchedulerInv

LEMMA SchedulerDiesKeeps ==
    ASSUME SchedulerInv, SchedulerDies
    PROVE  SchedulerInv'
<1> USE DEF SchedulerInv
<1>1. SchedulerTypeOK'
  BY NoEntryIs, SchedulerTyped DEF SchedulerDies, SchedulerTypeOK, RowRec, EntryRec, AdderRec
<1>2. OneRunAtATime' /\ WorkIsListed' /\ CronIsListed'
  BY DEF SchedulerDies, OneRunAtATime, WorkIsListed, CronIsListed
<1>3. AddersAlone'
  BY NoEntryIs DEF SchedulerDies, AddersAlone, AdderFree
<1> QED
  BY <1>1, <1>2, <1>3

-----------------------------------------------------------------------------
(* Every step. *)
LEMMA HostStays ==
    ASSUME HostInv, UNCHANGED hostVars
    PROVE  HostInv'
<1>1. /\ UNCHANGED <<frontendseq, frontends, frontendTtl, frontEnd, leaving>>
      /\ UNCHANGED <<regIds, regIps, platformRegs, registrar, cleaner, expiries>>
  BY DEF hostVars, frontVars, regVars
<1> QED
  BY <1>1 DEF HostInv, HostTypeOK, IndexOwned, LeaversAreOld, IdHeld, CleanerRight

LEMMA HostStepKeeps ==
    ASSUME HostInv, HostStep
    PROVE  HostInv'
<1>1. ASSUME NEW f \in FrontEnds, TakeIndex(f) \/ RegisterFrontEnd(f) \/ RefreshFrontEnd(f) \/ LeaveFrontEnd(f)
      PROVE  HostInv'
  BY <1>1, TakeIndexKeeps, RegisterFrontEndKeeps, RefreshFrontEndKeeps, LeaveFrontEndKeeps
<1>2. ASSUME NEW c \in Callers, NEW i \in Indices, UnregisterFrontEnd(c, i) PROVE HostInv'
  BY <1>2, UnregisterFrontEndKeeps
<1>3. ASSUME NEW a \in Ips, RegistrarStep(a) PROVE HostInv'
  BY <1>3, LookUpKeeps, MembersKeeps, SetIdKeeps, SetIpKeeps, AddIdKeeps DEF RegistrarStep
<1>4. ASSUME NEW a \in Ips, RefusePlatform(a) \/ PlatformExpires(a) \/ IpExpires(a) PROVE HostInv'
  BY <1>4, RefusePlatformKeeps, PlatformExpiresKeeps, IpExpiresKeeps
<1> QED
  BY <1>1, <1>2, <1>3, <1>4 DEF HostStep

LEMMA HostInvStep ==
    ASSUME HostInv, [Next]_vars
    PROVE  HostInv'
<1>1. CASE UNCHANGED hostVars
  BY <1>1, HostStays
<1>2. CASE DaemonMoves
  <2>1. UNCHANGED <<frontVars, regIds, regIps, platformRegs, registrar, expiries>>
    BY <1>2 DEF DaemonMoves
  <2>2. cleaner' = Idle \/ cleaner' = cleaner
    BY <1>2 DEF DaemonMoves, Stopping, OtherMoves
  <2>3. CASE cleaner' = Idle
    BY <2>1, <2>3, CleanerRests
  <2>4. CASE cleaner' = cleaner
    BY <2>1, <2>4, HostStays DEF hostVars, regVars
  <2> QED
    BY <2>2, <2>3, <2>4
<1>3. CASE Monitor
  BY <1>3, MonitorFrontEndsKeeps DEF Monitor
<1>4. CASE Clean
  BY <1>4, StartCleaningKeeps DEF Clean
<1>5. CASE Cleaning
  BY <1>5, CheckIdKeeps, RemoveIdKeeps, EndCleaningKeeps DEF Cleaning, CleanerStep
<1>6. CASE Host
  BY <1>6, HostStepKeeps DEF Host
<1>7. ASSUME NEW i \in Indices, FrontEndTtl(i) PROVE HostInv'
  <2>1. PICK heard : heard = (phase = "run")
    OBVIOUS
  <2>2. FrontEndExpires(i, heard)
    BY <1>7, <2>1 DEF FrontEndTtl
  <2> QED
    BY <2>2, FrontEndExpiresKeeps
<1>8. ASSUME UNCHANGED besideJobs PROVE HostInv'
  BY <1>1, <1>8 DEF besideJobs
<1>9. CASE ApiCall \/ JobTick \/ (\E j \in Jobs : JobRound(j) \/ JobFinishes(j)) \/ \E a \in Adders : JobAdding(a)
  BY <1>8, <1>9 DEF ApiCall, JobTick, JobRound, JobFinishes, JobAdding
<1> QED
  BY <1>1, <1>2, <1>3, <1>4, <1>5, <1>6, <1>7, <1>9 DEF Next, vars

LEMMA HostStart == Init => HostInv
<1> SUFFICES ASSUME Init PROVE HostInv
  OBVIOUS
<1> USE HostAssumption DEF Init, HostInit
<1>1. HostTypeOK
  BY DEF HostTypeOK, Idle
<1>2. IndexOwned /\ LeaversAreOld /\ IdHeld /\ CleanerRight
  BY DEF IndexOwned, LeaversAreOld, IdHeld, CleanerRight, Idle
<1> QED
  BY <1>1, <1>2 DEF HostInv

LEMMA SchedulerStays ==
    ASSUME SchedulerInv, UNCHANGED schedulerVars
    PROVE  SchedulerInv'
<1>1. UNCHANGED <<table, entry, cron, runs, adder>>
  BY DEF schedulerVars
<1>2. TableTyped
  BY <1>1, SchedulerTyped DEF TableTyped
<1> QED
  BY <1>1, <1>2, TableMoves

LEMMA SchedulerStep ==
    ASSUME SchedulerInv, ~SlowDb, [Next]_vars
    PROVE  SchedulerInv'
<1>1. CASE UNCHANGED schedulerVars
  BY <1>1, SchedulerStays
<1>2. CASE DaemonMoves
  BY <1>2, StopSchedulerKeeps, SchedulerDiesKeeps, SchedulerStays DEF DaemonMoves, Stopping, OtherMoves
<1>3. CASE Monitor \/ Clean \/ Cleaning \/ Host \/ \E i \in Indices : FrontEndTtl(i)
  BY <1>1, <1>3 DEF Monitor, Clean, Cleaning, Host, FrontEndTtl, besideHosts
<1>4. CASE ApiCall
  BY <1>4, RemoveJobKeeps, AddJobKeeps DEF ApiCall, JobCalls
<1>5. CASE JobTick
  BY <1>5, CronTicksKeeps DEF JobTick, JobTicks
<1>6. ASSUME NEW j \in Jobs, JobRound(j) \/ JobFinishes(j) PROVE SchedulerInv'
  BY <1>6, UnscheduleKeeps, ScheduleKeeps, FinishKeeps DEF JobRound, SchedulerRound, JobFinishes
<1>7. ASSUME NEW a \in Adders, JobAdding(a) PROVE SchedulerInv'
  BY <1>7, ClearUpdateKeeps, ClearNowKeeps, MakeCronKeeps DEF JobAdding, Adding
<1> QED
  BY <1>1, <1>2, <1>3, <1>4, <1>5, <1>6, <1>7 DEF Next, vars

LEMMA SchedulerStart == Init => SchedulerInv
<1> SUFFICES ASSUME Init PROVE SchedulerInv
  OBVIOUS
<1>1. table \in [Jobs -> RowRec]
  BY NoEntryIs DEF Init, SchedulerInit
<1> QED
  BY <1>1, SchedulerEmpty DEF Init, SchedulerInit

LEMMA HostsListed == HostInv => RegisteredIsListed
BY DEF HostInv, IdHeld, RegisteredIsListed

\* Only what waits to be taken out leaves the list of front ends.
LEMMA OnlyLeaversLeave ==
    ASSUME HostInv, [Next]_vars, NEW i \in frontends, i \notin frontends'
    PROVE  \E c \in Callers : i \in leaving[c]
<1>1. ASSUME UNCHANGED frontVars PROVE FALSE
  BY <1>1 DEF frontVars
<1>2. CASE Host
  <2>1. ASSUME NEW f \in FrontEnds, TakeIndex(f) \/ RegisterFrontEnd(f) \/ RefreshFrontEnd(f) \/ LeaveFrontEnd(f)
        PROVE  FALSE
    BY <2>1 DEF TakeIndex, RegisterFrontEnd, RefreshFrontEnd, LeaveFrontEnd
  <2>2. ASSUME NEW a \in Ips, RegistrarStep(a) \/ RefusePlatform(a) \/ PlatformExpires(a) \/ IpExpires(a) PROVE FALSE
    BY <1>1, <2>2 DEF RegistrarStep, LookUp, Members, SetId, SetIp, AddId, RefusePlatform, PlatformExpires, IpExpires
  <2>3. PICK c \in Callers, j \in Indices : UnregisterFrontEnd(c, j)
    BY <1>2, <2>1, <2>2 DEF Host, HostStep
  <2>4. i = j /\ i \in leaving[c]
    BY <2>3 DEF UnregisterFrontEnd
  <2> QED
    BY <2>4
<1>3. CASE DaemonMoves \/ Monitor \/ Clean \/ Cleaning \/ \E j \in Indices : FrontEndTtl(j)
  BY <1>1, <1>3 DEF DaemonMoves, Monitor, MonitorFrontEnds, Clean, StartCleaning, Cleaning, CleanerStep, CheckId,
                    RemoveId, EndCleaning, FrontEndTtl, FrontEndExpires
<1>4. ASSUME UNCHANGED besideJobs PROVE FALSE
  BY <1>1, <1>4 DEF besideJobs, hostVars
<1>5. CASE ApiCall \/ JobTick \/ (\E j \in Jobs : JobRound(j) \/ JobFinishes(j)) \/ \E a \in Adders : JobAdding(a)
  BY <1>4, <1>5 DEF ApiCall, JobTick, JobRound, JobFinishes, JobAdding
<1>6. CASE UNCHANGED vars
  BY <1>1, <1>6 DEF vars, hostVars
<1> QED
  BY <1>2, <1>3, <1>5, <1>6 DEF Next

LEMMA RenewedKept ==
    ASSUME HostInv, [Next]_vars, NEW f \in FrontEnds, frontEnd[f].at = "up", frontEnd[f].index \in frontendTtl
    PROVE  frontEnd[f].index \in frontends'
<1>1. frontEnd[f].index \in frontends
  BY DEF HostInv, HostTypeOK
<1>2. \A c \in Callers : frontEnd[f].index \notin leaving[c]
  BY DEF HostInv, LeaversAreOld
<1> QED
  BY <1>1, <1>2, OnlyLeaversLeave

-----------------------------------------------------------------------------
(* The theorems. *)
LEMMA HostsHold == Spec => []HostInv
<1>1. Init => HostInv
  BY HostStart
<1>2. HostInv /\ [Next]_vars => HostInv'
  BY HostInvStep
<1> QED
  BY <1>1, <1>2, PTL DEF Spec

\* A host whose registration is complete is in platform_regs
\* (platformSelfReg.js), whatever expires, registers or is cleaned meanwhile.
THEOREM RegisteredHostsAreListed == Spec => []RegisteredIsListed
BY HostsHold, HostsListed, PTL

\* No front end that renews its TTL is taken off the list (frontEndService.js),
\* by a monitor, an event or a call that comes late.
THEOREM RenewedFrontEndsStay == Spec => RenewedStays
<1>1. HostInv /\ [Next]_vars =>
          [\A f \in FrontEnds :
              (frontEnd[f].at = "up" /\ frontEnd[f].index \in frontendTtl) => frontEnd[f].index \in frontends']_hostVars
  BY RenewedKept
<1> QED
  BY <1>1, HostsHold, PTL DEF Spec, RenewedStays

\* A job runs once at a time (nubocronScheduler.js, nuboCronJobs.js) as long as
\* a statement ends before the next round reads the table.
THEOREM JobsRunOnce == ~SlowDb => (Spec => []OneRunAtATime)
<1> SUFFICES ASSUME ~SlowDb PROVE Spec => []OneRunAtATime
  OBVIOUS
<1>1. Init => SchedulerInv
  BY SchedulerStart
<1>2. SchedulerInv /\ [Next]_vars => SchedulerInv'
  BY SchedulerStep
<1>3. SchedulerInv => OneRunAtATime
  BY DEF SchedulerInv
<1> QED
  BY <1>1, <1>2, <1>3, PTL DEF Spec
=============================================================================

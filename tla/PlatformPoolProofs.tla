------------------------- MODULE PlatformPoolProofs -------------------------
(***************************************************************************)
(* Proofs about PlatformPool, for any number of platforms, any finite sets *)
(* of tasks, checkers and sessions, and all parameters of the pool.        *)
(***************************************************************************)
EXTENDS PlatformPool, FiniteSetTheorems, TLAPS

-----------------------------------------------------------------------------
(* Sorted sets.                                                             *)

\* The score of a member, or 0, is a number.
LEMMA ZScoreType ==
    ASSUME NEW z, IsZSet(z), NEW p \in Platforms
    PROVE  ZScore(z, p) \in Int
BY DEF IsZSet, ZScore

\* zadd and zincrby give a sorted set of platforms.
LEMMA ZAddType ==
    ASSUME NEW z, IsZSet(z), NEW p \in Platforms, NEW s \in Int
    PROVE  IsZSet(ZAdd(z, p, s))
<1> PICK D \in SUBSET Platforms : z \in [D -> Int]
  BY DEF IsZSet
<1> ZAdd(z, p, s) \in [D \cup {p} -> Int]
  BY DEF ZAdd
<1> QED
  BY DEF IsZSet

LEMMA ZIncrType ==
    ASSUME NEW z, IsZSet(z), NEW p \in Platforms, NEW i \in Int
    PROVE  IsZSet(ZIncr(z, p, i))
BY ZAddType, ZScoreType DEF ZIncr

\* zrem gives a sorted set of platforms.
LEMMA ZRemType ==
    ASSUME NEW z, IsZSet(z), NEW p
    PROVE  IsZSet(ZRem(z, p))
<1> PICK D \in SUBSET Platforms : z \in [D -> Int]
  BY DEF IsZSet
<1> ZRem(z, p) \in [D \ {p} -> Int]
  BY DEF ZRem, Restrict
<1> QED
  BY DEF IsZSet

\* Its members are counted.
LEMMA ZSetFinite ==
    ASSUME NEW z, IsZSet(z)
    PROVE  Cardinality(DOMAIN z) \in Nat
<1>1. NumPlatforms \in Nat
  BY PoolAssumption
<1>2. IsFiniteSet(Platforms)
  BY <1>1, FS_Interval DEF Platforms
<1>3. DOMAIN z \subseteq Platforms
  BY DEF IsZSet
<1> QED
  BY <1>2, <1>3, FS_Subset, FS_CardinalityType

-----------------------------------------------------------------------------
(* The number of platforms to start.                                        *)

LEMMA CeilDivType ==
    ASSUME NEW a \in Int, NEW b \in Nat \ {0}
    PROVE  CeilDiv(a, b) \in Int
BY DEF CeilDiv

\* refreshHelper never asks for fewer than no platforms, whatever the lists
\* and the parameters say.
LEMMA RequiredType ==
    ASSUME TypeOK
    PROVE  Required \in Nat
<1> DEFINE S == {s \in Sessions : pc[s] \in {"active", "unrefer", "decr", "decr_domain"}}
           inQueue == queued + Cardinality(PoolBusy)
           nRunning == Cardinality(DOMAIN domRunning)
           nErrs == Cardinality(DOMAIN domErrs)
           total == Smallest(CeilDiv(Cardinality(S) * 100, UpperCapacity * UsersPerPlatform),
                             CeilDiv(MaxCapacity, UsersPerPlatform))
           byDefault == PoolSize - nRunning - inQueue - (IF FixedPool THEN nErrs ELSE 0)
           above == nRunning > 0
                      /\ Cardinality(S) * 100 > UpperCapacity * UsersPerPlatform * nRunning
<1>1. Cardinality(S) \in Nat
  <2>1. IsFiniteSet(S)
    BY PoolAssumption, FS_Subset, S \subseteq Tasks \cup Sessions
  <2> QED
    BY <2>1, FS_CardinalityType
<1>2. inQueue \in Nat
  <2>1. PoolBusy \subseteq Tasks \cup Sessions
    BY DEF PoolBusy, Tasks
  <2>2. Cardinality(PoolBusy) \in Nat
    BY <2>1, PoolAssumption, FS_Subset, FS_CardinalityType
  <2> QED
    BY <2>2 DEF TypeOK, DaemonTypeOK
<1>3. nRunning \in Nat /\ nErrs \in Nat
  BY ZSetFinite DEF TypeOK, ListsTypeOK
<1>4. total \in Int
  <2>1. /\ UpperCapacity \in Nat \ {0} /\ UsersPerPlatform \in Nat \ {0}
        /\ MaxCapacity \in Nat
    BY PoolAssumption
  <2>2. UpperCapacity * UsersPerPlatform \in Nat \ {0}
    BY <2>1
  <2>3. Cardinality(S) * 100 \in Int
    BY <1>1
  <2>4. CeilDiv(Cardinality(S) * 100, UpperCapacity * UsersPerPlatform) \in Int
    BY <2>2, <2>3, CeilDivType
  <2>5. CeilDiv(MaxCapacity, UsersPerPlatform) \in Int
    BY <2>1, CeilDivType
  <2> QED
    BY <2>4, <2>5 DEF Smallest
<1>5. byDefault \in Int
  BY <1>2, <1>3, PoolAssumption
<1>6. Largest(total - nRunning - inQueue, 0) \in Nat
  BY <1>2, <1>3, <1>4 DEF Largest
<1>7. Required = IF byDefault > 0 THEN byDefault
                 ELSE IF above THEN Largest(total - nRunning - inQueue, 0) ELSE 0
  BY DEF Required
<1> HIDE DEF byDefault, above, total, inQueue, nRunning
<1> QED
  BY <1>5, <1>6, <1>7

-----------------------------------------------------------------------------
(* The type invariant.                                                      *)

LEMMA InitTypes == Init => TypeOK
<1> SUFFICES ASSUME Init PROVE TypeOK
  OBVIOUS
<1>1. 1 \in Platforms
  BY PoolAssumption DEF Platforms
<1>2. IsZSet(ZEmpty)
  BY DEF IsZSet, ZEmpty
<1>3. ListsTypeOK
  BY <1>2 DEF Init, ListsTypeOK
<1>4. DaemonTypeOK
  BY DEF Init, DaemonTypeOK
<1>5. ProcsTypeOK
  BY <1>1, PoolAssumption DEF Init, ProcsTypeOK, Procs, PCs
<1> QED
  BY <1>3, <1>4, <1>5 DEF TypeOK

\* The lists, hashes and hosts.
LEMMA ListsPreserved ==
    ASSUME TypeOK, [Next]_vars
    PROVE  ListsTypeOK'
<1> USE DEF TypeOK, ListsTypeOK, ProcsTypeOK, Procs, Tasks, redis, lists
<1>1. ASSUME NEW t \in Tasks, Dispatch(t) PROVE ListsTypeOK'
  BY <1>1 DEF Dispatch
<1>2. ASSUME NEW t \in Tasks, FindAvailable(t) PROVE ListsTypeOK'
  BY <1>2 DEF FindAvailable
<1>3. ASSUME NEW t \in Tasks, MarkIdle(t) PROVE ListsTypeOK'
  BY <1>3 DEF MarkIdle
<1>4. ASSUME NEW t \in Tasks, MarkDomainIdle(t) PROVE ListsTypeOK'
  BY <1>4 DEF MarkDomainIdle
<1>5. ASSUME NEW t \in Tasks, SavePlatform(t) PROVE ListsTypeOK'
  BY <1>5 DEF SavePlatform
<1>6. ASSUME NEW t \in Tasks, StartHost(t) PROVE ListsTypeOK'
  BY <1>6 DEF StartHost
<1>7. ASSUME NEW t \in Tasks, AddToRunning(t) PROVE ListsTypeOK'
  <2>1. IsZSet(ZAdd(running, at[t], 0)) /\ IsZSet(ZAdd(domRunning, at[t], 0))
    BY ZAddType
  <2> QED
    BY <1>7, <2>1 DEF AddToRunning
<1>8. ASSUME NEW t \in Tasks, Unmark(t) PROVE ListsTypeOK'
  BY <1>8 DEF Unmark
<1>9. ASSUME NEW s \in Sessions, ChoosePlatform(s) PROVE ListsTypeOK'
  BY <1>9 DEF ChoosePlatform
<1>10. ASSUME NEW s \in Sessions, EndSession(s) PROVE ListsTypeOK'
  BY <1>10 DEF EndSession
<1>11. ASSUME NEW s \in Sessions, LoadPlatform(s) PROVE ListsTypeOK'
  BY <1>11 DEF LoadPlatform
<1>12. ASSUME NEW s \in Sessions, Reference(s) PROVE ListsTypeOK'
  <2>1. \A i \in {1, -1} :
          /\ IsZSet(ZIncr(running, at[s], i)) /\ IsZSet(ZIncr(domRunning, at[s], i))
          /\ IsZSet(ZIncr(errs, at[s], i)) /\ IsZSet(ZIncr(domErrs, at[s], i))
    BY ZIncrType
  <2> QED
    BY <1>12, <2>1 DEF Reference, IncreaseReference, IncreaseDomainReference
<1>13. ASSUME NEW s \in Sessions, AttachUser(s) PROVE ListsTypeOK'
  BY <1>13 DEF AttachUser
<1>14. ASSUME NEW s \in Sessions, UpdatePlatformReference(s) PROVE ListsTypeOK'
  BY <1>14 DEF UpdatePlatformReference
<1>15. ASSUME NEW s \in Sessions, DeletePlatformReference(s) PROVE ListsTypeOK'
  BY <1>15 DEF DeletePlatformReference
<1>16. ASSUME NEW s \in Sessions, LastReference(s) PROVE ListsTypeOK'
  <2>1. IsZSet(ZIncr(domRunning, at[s], -1)) /\ IsZSet(ZIncr(domErrs, at[s], -1))
    BY ZIncrType
  <2> QED
    BY <1>16, <2>1 DEF LastReference, IncreaseDomainReference
<1>17. ASSUME NEW c \in Procs, ReadScore(c) PROVE ListsTypeOK'
  BY <1>17 DEF ReadScore
<1>18. ASSUME NEW c \in Procs, AddToErrors(c) PROVE ListsTypeOK'
  BY <1>18, ZAddType, ZIncrType, ZRemType, ZScoreType DEF AddToErrors
<1>19. ASSUME NEW c \in Procs, AddToClose(c) PROVE ListsTypeOK'
  <2>1. /\ IsZSet(ZRem(running, at[c])) /\ IsZSet(ZRem(domRunning, at[c]))
        /\ IsZSet(ZRem(errs, at[c])) /\ IsZSet(ZRem(domErrs, at[c]))
    BY ZRemType
  <2> QED
    BY <1>19, <2>1 DEF AddToClose, RemoveFromLists
<1>20. ASSUME NEW p \in Platforms, KillLoad(p) PROVE ListsTypeOK'
  BY <1>20 DEF KillLoad
<1>21. ASSUME NEW p \in Platforms, KillListSessions(p) PROVE ListsTypeOK'
  BY <1>21 DEF KillListSessions
<1>35. ASSUME NEW p \in Platforms, KillForceExit(p) PROVE ListsTypeOK'
  BY <1>35 DEF KillForceExit
<1>36. ASSUME NEW p \in Platforms, SetFails(p) PROVE ListsTypeOK'
  BY <1>36, PoolAssumption DEF SetFails
<1>22. ASSUME NEW p \in Platforms, KillStop(p) PROVE ListsTypeOK'
  BY <1>22 DEF KillStop
<1>23. ASSUME NEW p \in Platforms, DeletePlatform(p) PROVE ListsTypeOK'
  BY <1>23, ZAddType, ZIncrType, ZRemType, ZScoreType DEF DeletePlatform,
     RemoveFromLists
<1>24. ASSUME NEW r \in Runners, Refresh(r) PROVE ListsTypeOK'
  BY <1>24 DEF Refresh
<1>25. ASSUME NEW r \in Runners, FindOrganizations(r) PROVE ListsTypeOK'
  BY <1>25 DEF FindOrganizations
<1>26. ASSUME NEW r \in Runners, FillPool(r) PROVE ListsTypeOK'
  BY <1>26 DEF FillPool
<1>27. ASSUME NEW r \in Runners, ClosePlatforms(r) PROVE ListsTypeOK'
  BY <1>27 DEF ClosePlatforms
<1>28. ASSUME NEW r \in Runners, CloseReturns(r) PROVE ListsTypeOK'
  BY <1>28 DEF CloseReturns
<1>29. ASSUME NEW t \in Tasks, NEW p \in Platforms, StartPlatform(t, p) PROVE ListsTypeOK'
  BY <1>29 DEF StartPlatform
<1>30. ASSUME NEW c \in Checkers, NEW p \in Platforms, CheckPlatform(c, p) PROVE ListsTypeOK'
  BY <1>30 DEF CheckPlatform
<1>31. ASSUME NEW c \in Checkers, CheckAnswer(c) PROVE ListsTypeOK'
  BY <1>31 DEF CheckAnswer
<1>32. ASSUME NEW p \in Platforms, StopPlatform(p) PROVE ListsTypeOK'
  BY <1>32 DEF StopPlatform
<1>33. ASSUME RefreshDropped PROVE ListsTypeOK'
  BY <1>33 DEF RefreshDropped
<1>34. ASSUME UNCHANGED vars PROVE ListsTypeOK'
  BY <1>34 DEF vars
<1> QED
  BY <1>1, <1>2, <1>3, <1>4, <1>5, <1>6, <1>7, <1>8, <1>9, <1>10, <1>11,
     <1>12, <1>13, <1>14, <1>15, <1>16, <1>17, <1>18, <1>19, <1>20, <1>21,
     <1>22, <1>23, <1>24, <1>25, <1>26, <1>27, <1>28, <1>29, <1>30, <1>31,
     <1>32, <1>33, <1>34, <1>35, <1>36
     DEF Next, Register, SessionSteps, Move, KillPlatform, Serve, Procs, Tasks

\* The queue, the services, killPlatform and the messages.
LEMMA DaemonPreserved ==
    ASSUME TypeOK, [Next]_vars
    PROVE  DaemonTypeOK'
<1> USE DEF TypeOK, DaemonTypeOK, queue, daemon, kills, Runners, Refreshers, Closers
<1>1. ASSUME NEW t \in Tasks, Dispatch(t) PROVE DaemonTypeOK'
  BY <1>1 DEF Dispatch
<1>2. ASSUME NEW t \in Tasks, FindAvailable(t) PROVE DaemonTypeOK'
  BY <1>2 DEF FindAvailable, TaskEnds
<1>3. ASSUME NEW t \in Tasks, MarkIdle(t) PROVE DaemonTypeOK'
  BY <1>3 DEF MarkIdle
<1>4. ASSUME NEW t \in Tasks, MarkDomainIdle(t) PROVE DaemonTypeOK'
  BY <1>4 DEF MarkDomainIdle
<1>5. ASSUME NEW t \in Tasks, SavePlatform(t) PROVE DaemonTypeOK'
  BY <1>5 DEF SavePlatform
<1>6. ASSUME NEW t \in Tasks, StartHost(t) PROVE DaemonTypeOK'
  BY <1>6 DEF StartHost
<1>7. ASSUME NEW t \in Tasks, AddToRunning(t) PROVE DaemonTypeOK'
  BY <1>7 DEF AddToRunning, TaskEnds
<1>8. ASSUME NEW t \in Tasks, Unmark(t) PROVE DaemonTypeOK'
  BY <1>8 DEF Unmark, TaskEnds
<1>9. ASSUME NEW s \in Sessions, ChoosePlatform(s) PROVE DaemonTypeOK'
  BY <1>9 DEF ChoosePlatform
<1>10. ASSUME NEW s \in Sessions, EndSession(s) PROVE DaemonTypeOK'
  BY <1>10 DEF EndSession
<1>11. ASSUME NEW s \in Sessions, LoadPlatform(s) PROVE DaemonTypeOK'
  BY <1>11 DEF LoadPlatform
<1>12. ASSUME NEW s \in Sessions, Reference(s) PROVE DaemonTypeOK'
  BY <1>12 DEF Reference
<1>13. ASSUME NEW s \in Sessions, AttachUser(s) PROVE DaemonTypeOK'
  BY <1>13 DEF AttachUser
<1>14. ASSUME NEW s \in Sessions, UpdatePlatformReference(s) PROVE DaemonTypeOK'
  BY <1>14 DEF UpdatePlatformReference, Publish
<1>15. ASSUME NEW s \in Sessions, DeletePlatformReference(s) PROVE DaemonTypeOK'
  BY <1>15 DEF DeletePlatformReference
<1>16. ASSUME NEW s \in Sessions, LastReference(s) PROVE DaemonTypeOK'
  BY <1>16 DEF LastReference, Publish
<1>17. ASSUME NEW c \in Procs, ReadScore(c) PROVE DaemonTypeOK'
  BY <1>17 DEF ReadScore
<1>18. ASSUME NEW c \in Procs, AddToErrors(c) PROVE DaemonTypeOK'
  BY <1>18 DEF AddToErrors, Publish
<1>19. ASSUME NEW c \in Procs, AddToClose(c) PROVE DaemonTypeOK'
  BY <1>19 DEF AddToClose, Publish
<1>20. ASSUME NEW p \in Platforms, KillLoad(p) PROVE DaemonTypeOK'
  BY <1>20 DEF KillLoad, KillStep
<1>21. ASSUME NEW p \in Platforms, KillListSessions(p) PROVE DaemonTypeOK'
  BY <1>21 DEF KillListSessions, KillStep, KillEnds, ListsTypeOK
<1>35. ASSUME NEW p \in Platforms, KillForceExit(p) PROVE DaemonTypeOK'
  BY <1>35 DEF KillForceExit, KillStep, KillEnds
<1>36. ASSUME NEW p \in Platforms, SetFails(p) PROVE DaemonTypeOK'
  BY <1>36 DEF SetFails
<1>22. ASSUME NEW p \in Platforms, KillStop(p) PROVE DaemonTypeOK'
  BY <1>22 DEF KillStop, KillStep
<1>23. ASSUME NEW p \in Platforms, DeletePlatform(p) PROVE DaemonTypeOK'
  BY <1>23 DEF DeletePlatform, KillStep, KillEnds
<1>24. ASSUME NEW r \in Runners, Refresh(r) PROVE DaemonTypeOK'
  BY <1>24 DEF Refresh, Taken
<1>25. ASSUME NEW r \in Runners, FindOrganizations(r) PROVE DaemonTypeOK'
  BY <1>25 DEF FindOrganizations, StartKills
<1>26. ASSUME NEW r \in Runners, FillPool(r) PROVE DaemonTypeOK'
  <2>1. queued' \in Nat
    BY <1>26, RequiredType DEF FillPool
  <2>2. r \in Refreshers /\ drain' \in Refreshers \cup {None}
    BY <1>26 DEF FillPool
  <2>3. runner' \in [Runners -> {"idle", "orgs", "kills", "wait", "lost"}]
    BY <1>26 DEF FillPool
  <2> QED
    BY <1>26, <2>1, <2>2, <2>3 DEF FillPool
<1>27. ASSUME NEW r \in Runners, ClosePlatforms(r) PROVE DaemonTypeOK'
  BY <1>27 DEF ClosePlatforms, StartKills, Taken
<1>28. ASSUME NEW r \in Runners, CloseReturns(r) PROVE DaemonTypeOK'
  BY <1>28 DEF CloseReturns
<1>29. ASSUME NEW t \in Tasks, NEW p \in Platforms, StartPlatform(t, p) PROVE DaemonTypeOK'
  BY <1>29 DEF StartPlatform
<1>30. ASSUME NEW c \in Checkers, NEW p \in Platforms, CheckPlatform(c, p) PROVE DaemonTypeOK'
  BY <1>30 DEF CheckPlatform
<1>31. ASSUME NEW c \in Checkers, CheckAnswer(c) PROVE DaemonTypeOK'
  BY <1>31 DEF CheckAnswer
<1>32. ASSUME NEW p \in Platforms, StopPlatform(p) PROVE DaemonTypeOK'
  BY <1>32 DEF StopPlatform
<1>33. ASSUME RefreshDropped PROVE DaemonTypeOK'
  BY <1>33 DEF RefreshDropped
<1>34. ASSUME UNCHANGED vars PROVE DaemonTypeOK'
  BY <1>34 DEF vars
<1> QED
  BY <1>1, <1>2, <1>3, <1>4, <1>5, <1>6, <1>7, <1>8, <1>9, <1>10, <1>11,
     <1>12, <1>13, <1>14, <1>15, <1>16, <1>17, <1>18, <1>19, <1>20, <1>21,
     <1>22, <1>23, <1>24, <1>25, <1>26, <1>27, <1>28, <1>29, <1>30, <1>31,
     <1>32, <1>33, <1>34, <1>35, <1>36
     DEF Next, Register, SessionSteps, Move, KillPlatform, Serve, Procs, Tasks

\* The processes and the counters.
LEMMA ProcsPreserved ==
    ASSUME TypeOK, [Next]_vars
    PROVE  ProcsTypeOK'
<1> USE DEF TypeOK, ProcsTypeOK, Procs, Tasks, local, bounds, PCs, TaskPCs, MovePCs, SessionPCs
<1> 1 \in Platforms
  BY PoolAssumption DEF Platforms
<1> USE PoolAssumption
<1>1. ASSUME NEW t \in Tasks, Dispatch(t) PROVE ProcsTypeOK'
  BY <1>1 DEF Dispatch, Goto, Fail
<1>2. ASSUME NEW t \in Tasks, FindAvailable(t) PROVE ProcsTypeOK'
  BY <1>2 DEF FindAvailable, TaskEnds, Finish, Goto, LastPlatform, Platforms
<1>3. ASSUME NEW t \in Tasks, MarkIdle(t) PROVE ProcsTypeOK'
  BY <1>3 DEF MarkIdle, Goto, Fail
<1>4. ASSUME NEW t \in Tasks, MarkDomainIdle(t) PROVE ProcsTypeOK'
  BY <1>4 DEF MarkDomainIdle, Goto, Fail
<1>5. ASSUME NEW t \in Tasks, SavePlatform(t) PROVE ProcsTypeOK'
  BY <1>5 DEF SavePlatform, Goto, Fail
<1>6. ASSUME NEW t \in Tasks, StartHost(t) PROVE ProcsTypeOK'
  BY <1>6 DEF StartHost, Goto, Fail
<1>7. ASSUME NEW t \in Tasks, AddToRunning(t) PROVE ProcsTypeOK'
  BY <1>7 DEF AddToRunning, TaskEnds, Finish, Goto
<1>8. ASSUME NEW t \in Tasks, Unmark(t) PROVE ProcsTypeOK'
  BY <1>8 DEF Unmark, TaskEnds, Finish, Goto
<1>9. ASSUME NEW s \in Sessions, ChoosePlatform(s) PROVE ProcsTypeOK'
  <2>1. Candidates \subseteq Platforms
    BY DEF Candidates, IsZSet, ListsTypeOK
  <2> QED
    BY <1>9, <2>1 DEF ChoosePlatform, Goto
<1>10. ASSUME NEW s \in Sessions, EndSession(s) PROVE ProcsTypeOK'
  BY <1>10 DEF EndSession, Goto, ListsTypeOK
<1>11. ASSUME NEW s \in Sessions, LoadPlatform(s) PROVE ProcsTypeOK'
  BY <1>11 DEF LoadPlatform, Finish, Goto, ListsTypeOK
<1>12. ASSUME NEW s \in Sessions, Reference(s) PROVE ProcsTypeOK'
  BY <1>12 DEF Reference, Goto, Fail
<1>13. ASSUME NEW s \in Sessions, AttachUser(s) PROVE ProcsTypeOK'
  BY <1>13 DEF AttachUser, Goto, Fail
<1>14. ASSUME NEW s \in Sessions, UpdatePlatformReference(s) PROVE ProcsTypeOK'
  BY <1>14 DEF UpdatePlatformReference, Goto, Fail
<1>15. ASSUME NEW s \in Sessions, DeletePlatformReference(s) PROVE ProcsTypeOK'
  BY <1>15 DEF DeletePlatformReference, Goto, Fail
<1>16. ASSUME NEW s \in Sessions, LastReference(s) PROVE ProcsTypeOK'
  BY <1>16 DEF LastReference, Finish, Goto
<1>17. ASSUME NEW c \in Procs, ReadScore(c) PROVE ProcsTypeOK'
  BY <1>17, ZScoreType DEF ReadScore, Goto, Fail, ListsTypeOK
<1>18. ASSUME NEW c \in Procs, AddToErrors(c) PROVE ProcsTypeOK'
  BY <1>18 DEF AddToErrors, AfterMove, Finish, Goto
<1>19. ASSUME NEW c \in Procs, AddToClose(c) PROVE ProcsTypeOK'
  BY <1>19 DEF AddToClose, AfterMove, Finish, Goto
<1>20. ASSUME NEW p \in Platforms, KillLoad(p) PROVE ProcsTypeOK'
  BY <1>20 DEF KillLoad, Goto, Fail
<1>21. ASSUME NEW p \in Platforms, KillListSessions(p) PROVE ProcsTypeOK'
  BY <1>21 DEF KillListSessions, Fail
<1>35. ASSUME NEW p \in Platforms, KillForceExit(p) PROVE ProcsTypeOK'
  <2>1. forced' \in SUBSET Sessions
    BY <1>35 DEF KillForceExit, DaemonTypeOK
  <2> QED
    BY <1>35, <2>1 DEF KillForceExit
<1>36. ASSUME NEW p \in Platforms, SetFails(p) PROVE ProcsTypeOK'
  BY <1>36 DEF SetFails, Ask
<1>22. ASSUME NEW p \in Platforms, KillStop(p) PROVE ProcsTypeOK'
  BY <1>22 DEF KillStop, Goto, Fail
<1>23. ASSUME NEW p \in Platforms, DeletePlatform(p) PROVE ProcsTypeOK'
  BY <1>23 DEF DeletePlatform, Goto, Fail
<1>24. ASSUME NEW r \in Runners, Refresh(r) PROVE ProcsTypeOK'
  BY <1>24 DEF Refresh, Goto, Fail
<1>25. ASSUME NEW r \in Runners, FindOrganizations(r) PROVE ProcsTypeOK'
  BY <1>25 DEF FindOrganizations, Goto, Fail
<1>26. ASSUME NEW r \in Runners, FillPool(r) PROVE ProcsTypeOK'
  BY <1>26 DEF FillPool, Goto, Fail
<1>27. ASSUME NEW r \in Runners, ClosePlatforms(r) PROVE ProcsTypeOK'
  BY <1>27 DEF ClosePlatforms, Goto, Fail
<1>28. ASSUME NEW r \in Runners, CloseReturns(r) PROVE ProcsTypeOK'
  BY <1>28 DEF CloseReturns, Goto, Fail
<1>29. ASSUME NEW t \in Tasks, NEW p \in Platforms, StartPlatform(t, p) PROVE ProcsTypeOK'
  BY <1>29 DEF StartPlatform, Goto, Ask
<1>30. ASSUME NEW c \in Checkers, NEW p \in Platforms, CheckPlatform(c, p) PROVE ProcsTypeOK'
  BY <1>30 DEF CheckPlatform, Goto, ListsTypeOK
<1>31. ASSUME NEW c \in Checkers, CheckAnswer(c) PROVE ProcsTypeOK'
  BY <1>31 DEF CheckAnswer, Finish, Goto, Fail
<1>32. ASSUME NEW p \in Platforms, StopPlatform(p) PROVE ProcsTypeOK'
  BY <1>32 DEF StopPlatform, Goto, Ask
<1>33. ASSUME RefreshDropped PROVE ProcsTypeOK'
  BY <1>33 DEF RefreshDropped, Goto, Fail
<1>34. ASSUME UNCHANGED vars PROVE ProcsTypeOK'
  BY <1>34 DEF vars
<1> QED
  BY <1>1, <1>2, <1>3, <1>4, <1>5, <1>6, <1>7, <1>8, <1>9, <1>10, <1>11,
     <1>12, <1>13, <1>14, <1>15, <1>16, <1>17, <1>18, <1>19, <1>20, <1>21,
     <1>22, <1>23, <1>24, <1>25, <1>26, <1>27, <1>28, <1>29, <1>30, <1>31,
     <1>32, <1>33, <1>34, <1>35, <1>36
     DEF Next, Register, SessionSteps, Move, KillPlatform, Serve, Procs, Tasks

\* The type invariant, which is inductive.
THEOREM TypeCorrect == Spec => []TypeOK
<1>1. TypeOK /\ [Next]_vars => TypeOK'
  BY ListsPreserved, DaemonPreserved, ProcsPreserved DEF TypeOK
<1> QED
  BY <1>1, InitTypes, PTL DEF Spec

-----------------------------------------------------------------------------
(* An id in platforms_idle has its task.                                    *)

\* Nothing is marked and the tasks stay where they are.
LEMMA TasksStay ==
    ASSUME IdleHasTask, idle' \subseteq idle, domIdle' \subseteq domIdle,
           \A t \in Tasks : pc'[t] = pc[t] /\ at'[t] = at[t]
    PROVE  IdleHasTask'
BY DEF IdleHasTask

\* Nothing is marked and one task goes on without letting its platform go.
LEMMA TaskHolds ==
    ASSUME TypeOK, IdleHasTask, NEW t \in Tasks,
           NEW l \in HoldingPCs \ {"mark_domain", "unmark_domain"},
           idle' \subseteq idle, domIdle' \subseteq domIdle,
           pc' = [pc EXCEPT ![t] = l], UNCHANGED at
    PROVE  IdleHasTask'
BY DEF IdleHasTask, TypeOK, ProcsTypeOK, Procs

\* A task that marks or holds nothing goes elsewhere.
LEMMA OthersHold ==
    ASSUME TypeOK, IdleHasTask, NEW t \in Tasks,
           idle' \subseteq idle, domIdle' \subseteq domIdle,
           pc[t] \notin HoldingPCs \/ (at[t] \notin idle' /\ at[t] \notin domIdle'),
           \A u \in Tasks \ {t} : pc'[u] = pc[u] /\ at'[u] = at[u]
    PROVE  IdleHasTask'
BY DEF IdleHasTask

\* What moves a platform out of the lists keeps it in the hands of the task.
LEMMA IdlePreserved ==
    ASSUME TypeOK, IdleHasTask, [Next]_vars
    PROVE  IdleHasTask'
<1>1. ASSUME NEW t \in Tasks, Dispatch(t) PROVE IdleHasTask'
  BY <1>1, OthersHold DEF Dispatch, At, Goto, TaskEnds, Finish, redis, lists, local,
     HoldingPCs, MovePCs, TypeOK, ProcsTypeOK, Procs, Tasks
<1>2. ASSUME NEW t \in Tasks, FindAvailable(t) PROVE IdleHasTask'
  BY <1>2, OthersHold DEF FindAvailable, At, Goto, TaskEnds, Finish, redis, lists,
     local, HoldingPCs, MovePCs, TypeOK, ProcsTypeOK, Procs, Tasks
<1>3. ASSUME NEW t \in Tasks, MarkIdle(t) PROVE IdleHasTask'
  BY <1>3 DEF MarkIdle, At, Goto, TaskEnds, Finish, IdleHasTask, local, HoldingPCs,
     MovePCs, TypeOK, ProcsTypeOK, Procs, Tasks
<1>4. ASSUME NEW t \in Tasks, MarkDomainIdle(t) PROVE IdleHasTask'
  BY <1>4 DEF MarkDomainIdle, At, Goto, TaskEnds, Finish, IdleHasTask, local,
     HoldingPCs, MovePCs, TypeOK, ProcsTypeOK, Procs, Tasks
<1>5. ASSUME NEW t \in Tasks, SavePlatform(t) PROVE IdleHasTask'
  BY <1>5, TaskHolds DEF SavePlatform, Goto, lists, local, HoldingPCs, MovePCs
<1>6. ASSUME NEW t \in Tasks, StartHost(t) PROVE IdleHasTask'
  BY <1>6, TaskHolds DEF StartHost, Goto, lists, local, HoldingPCs, MovePCs
<1>7. ASSUME NEW t \in Tasks, AddToRunning(t) PROVE IdleHasTask'
  BY <1>7, OthersHold DEF AddToRunning, At, Goto, TaskEnds, Finish, TypeOK,
     ProcsTypeOK, Procs, Tasks
<1>8. ASSUME NEW t \in Tasks, Unmark(t) PROVE IdleHasTask'
  BY <1>8 DEF Unmark, At, Goto, TaskEnds, Finish, IdleHasTask, local, HoldingPCs,
     MovePCs, TypeOK, ProcsTypeOK, Procs, Tasks
<1>9. ASSUME NEW s \in Sessions, ChoosePlatform(s) PROVE IdleHasTask'
  BY <1>9, PoolAssumption, TasksStay DEF ChoosePlatform, Goto, redis, lists, local,
     TypeOK, ProcsTypeOK, Procs, Tasks
<1>10. ASSUME NEW s \in Sessions, EndSession(s) PROVE IdleHasTask'
  BY <1>10, PoolAssumption, TasksStay DEF EndSession, Goto, redis, lists, local,
     TypeOK, ProcsTypeOK, Procs, Tasks
<1>11. ASSUME NEW s \in Sessions, LoadPlatform(s) PROVE IdleHasTask'
  BY <1>11, PoolAssumption, TasksStay DEF LoadPlatform, Goto, Finish, redis, lists,
     local, TypeOK, ProcsTypeOK, Procs, Tasks
<1>12. ASSUME NEW s \in Sessions, Reference(s) PROVE IdleHasTask'
  BY <1>12, PoolAssumption, TasksStay DEF Reference, Goto, redis, lists, local,
     TypeOK, ProcsTypeOK, Procs, Tasks
<1>13. ASSUME NEW s \in Sessions, AttachUser(s) PROVE IdleHasTask'
  BY <1>13, PoolAssumption, TasksStay DEF AttachUser, Goto, redis, lists, local,
     TypeOK, ProcsTypeOK, Procs, Tasks
<1>14. ASSUME NEW s \in Sessions, UpdatePlatformReference(s) PROVE IdleHasTask'
  BY <1>14, PoolAssumption, TasksStay DEF UpdatePlatformReference, Goto, redis,
     lists, local, TypeOK, ProcsTypeOK, Procs, Tasks
<1>15. ASSUME NEW s \in Sessions, DeletePlatformReference(s) PROVE IdleHasTask'
  BY <1>15, PoolAssumption, TasksStay DEF DeletePlatformReference, Goto, redis,
     lists, local, TypeOK, ProcsTypeOK, Procs, Tasks
<1>16. ASSUME NEW s \in Sessions, LastReference(s) PROVE IdleHasTask'
  BY <1>16, PoolAssumption, TasksStay DEF LastReference, Goto, Finish, redis, lists,
     local, TypeOK, ProcsTypeOK, Procs, Tasks
<1>17. ASSUME NEW c \in Procs, ReadScore(c) PROVE IdleHasTask'
  <2>1. CASE c \in Tasks
    <3>1. c \notin Sessions /\ c # Admin
      BY <2>1, PoolAssumption
    <3>2. \E l \in HoldingPCs \ {"mark_domain", "unmark_domain"} :
              pc' = [pc EXCEPT ![c] = l] /\ UNCHANGED at
      BY <1>17, <2>1, <3>1 DEF ReadScore, Goto, local, HoldingPCs, MovePCs
    <3> QED
      BY <1>17, <2>1, <3>2, TaskHolds DEF ReadScore, redis, lists
  <2>2. CASE c \notin Tasks
    <3>1. \A t \in Tasks : pc'[t] = pc[t] /\ at'[t] = at[t]
      BY <1>17, <2>2 DEF ReadScore, Goto, local, TypeOK, ProcsTypeOK, Procs, Tasks
    <3> QED
      BY <1>17, <3>1, TasksStay DEF ReadScore, redis, lists
  <2> QED
    BY <2>1, <2>2
<1>18. ASSUME NEW c \in Procs, AddToErrors(c) PROVE IdleHasTask'
  <2>1. CASE c \in Tasks
    <3>1. c \notin Sessions /\ c # Admin
      BY <2>1, PoolAssumption
    <3>2. \E l \in HoldingPCs \ {"mark_domain", "unmark_domain"} :
              pc' = [pc EXCEPT ![c] = l] /\ UNCHANGED at
      BY <1>18, <2>1, <3>1 DEF AddToErrors, AfterMove, Finish, Goto, local,
         HoldingPCs, MovePCs
    <3> QED
      BY <1>18, <2>1, <3>2, TaskHolds DEF AddToErrors, lists
  <2>2. CASE c \notin Tasks
    <3>1. \A t \in Tasks : pc'[t] = pc[t] /\ at'[t] = at[t]
      BY <1>18, <2>2 DEF AddToErrors, AfterMove, Finish, Goto, local, TypeOK,
         ProcsTypeOK, Procs, Tasks
    <3> QED
      BY <1>18, <3>1, TasksStay DEF AddToErrors, lists
  <2> QED
    BY <2>1, <2>2
<1>19. ASSUME NEW c \in Procs, AddToClose(c) PROVE IdleHasTask'
  <2>1. CASE c \in Tasks
    <3>1. c \notin Sessions /\ c # Admin
      BY <2>1, PoolAssumption
    <3>2. \E l \in HoldingPCs \ {"mark_domain", "unmark_domain"} :
              pc' = [pc EXCEPT ![c] = l] /\ UNCHANGED at
      BY <1>19, <2>1, <3>1 DEF AddToClose, RemoveFromLists, AfterMove, Finish, Goto,
         local, HoldingPCs, MovePCs
    <3> QED
      BY <1>19, <2>1, <3>2, TaskHolds DEF AddToClose, RemoveFromLists, lists
  <2>2. CASE c \notin Tasks
    <3>1. \A t \in Tasks : pc'[t] = pc[t] /\ at'[t] = at[t]
      BY <1>19, <2>2 DEF AddToClose, RemoveFromLists, AfterMove, Finish, Goto,
         local, TypeOK, ProcsTypeOK, Procs, Tasks
    <3> QED
      BY <1>19, <3>1, TasksStay DEF AddToClose, RemoveFromLists, lists
  <2> QED
    BY <2>1, <2>2
<1>20. ASSUME NEW p \in Platforms, KillLoad(p) PROVE IdleHasTask'
  BY <1>20, TasksStay DEF KillLoad, RemoveFromLists, redis, lists, local
<1>21. ASSUME NEW p \in Platforms, KillListSessions(p) PROVE IdleHasTask'
  BY <1>21, TasksStay DEF KillListSessions, redis, lists, local
<1>35. ASSUME NEW p \in Platforms, KillForceExit(p) PROVE IdleHasTask'
  BY <1>35, TasksStay DEF KillForceExit, redis, lists, local
<1>36. ASSUME NEW p \in Platforms, SetFails(p) PROVE IdleHasTask'
  BY <1>36, TasksStay DEF SetFails, lists, local
<1>22. ASSUME NEW p \in Platforms, KillStop(p) PROVE IdleHasTask'
  BY <1>22, TasksStay DEF KillStop, RemoveFromLists, redis, lists, local
<1>23. ASSUME NEW p \in Platforms, DeletePlatform(p) PROVE IdleHasTask'
  BY <1>23, TasksStay DEF DeletePlatform, RemoveFromLists, redis, lists, local
<1>24. ASSUME NEW r \in Runners, Refresh(r) PROVE IdleHasTask'
  BY <1>24, TasksStay DEF Refresh, redis, lists, local
<1>25. ASSUME NEW r \in Runners, FindOrganizations(r) PROVE IdleHasTask'
  BY <1>25, TasksStay DEF FindOrganizations, redis, lists, local
<1>26. ASSUME NEW r \in Runners, FillPool(r) PROVE IdleHasTask'
  BY <1>26, TasksStay DEF FillPool, redis, lists, local
<1>27. ASSUME NEW r \in Runners, ClosePlatforms(r) PROVE IdleHasTask'
  BY <1>27, TasksStay DEF ClosePlatforms, redis, lists, local
<1>28. ASSUME NEW r \in Runners, CloseReturns(r) PROVE IdleHasTask'
  BY <1>28, TasksStay DEF CloseReturns, redis, lists, local
<1>29. ASSUME NEW t \in Tasks, NEW p \in Platforms, StartPlatform(t, p) PROVE IdleHasTask'
  BY <1>29, OthersHold DEF StartPlatform, At, Goto, TaskEnds, Finish, redis, lists,
     local, HoldingPCs, MovePCs, TypeOK, ProcsTypeOK, Procs, Tasks
<1>30. ASSUME NEW c \in Checkers, NEW p \in Platforms, CheckPlatform(c, p) PROVE IdleHasTask'
  BY <1>30, PoolAssumption, TasksStay DEF CheckPlatform, Goto, redis, lists, local,
     TypeOK, ProcsTypeOK, Procs, Tasks
<1>31. ASSUME NEW c \in Checkers, CheckAnswer(c) PROVE IdleHasTask'
  BY <1>31, PoolAssumption, TasksStay DEF CheckAnswer, Goto, Finish, redis, lists,
     local, TypeOK, ProcsTypeOK, Procs, Tasks
<1>32. ASSUME NEW p \in Platforms, StopPlatform(p) PROVE IdleHasTask'
  BY <1>32, PoolAssumption, TasksStay DEF StopPlatform, Goto, redis, lists, local,
     TypeOK, ProcsTypeOK, Procs, Tasks
<1>33. ASSUME RefreshDropped PROVE IdleHasTask'
  BY <1>33, TasksStay DEF RefreshDropped, redis, lists, local
<1>34. ASSUME UNCHANGED vars PROVE IdleHasTask'
  BY <1>34, TasksStay DEF vars, redis, lists, local
<1> QED
  BY <1>1, <1>2, <1>3, <1>4, <1>5, <1>6, <1>7, <1>8, <1>9, <1>10, <1>11,
     <1>12, <1>13, <1>14, <1>15, <1>16, <1>17, <1>18, <1>19, <1>20, <1>21,
     <1>22, <1>23, <1>24, <1>25, <1>26, <1>27, <1>28, <1>29, <1>30, <1>31,
     <1>32, <1>33, <1>34, <1>35, <1>36
     DEF Next, Register, SessionSteps, Move, KillPlatform, Serve, Procs, Tasks

\* An id is never left in platforms_idle, in every configuration of the pool.
THEOREM IdleIdsHaveTasks == Spec => []IdleHasTask
<1>1. Init => IdleHasTask
  BY DEF Init, IdleHasTask
<1>2. TypeOK /\ IdleHasTask /\ [Next]_vars => IdleHasTask'
  BY IdlePreserved
<1> QED
  BY <1>1, <1>2, TypeCorrect, PTL DEF Spec

-----------------------------------------------------------------------------
(* killPlatform takes nothing from a session it told to exit.               *)

\* The states from which a session has not yet been seen by killPlatform.
UnseenPCs == {"idle", "load", "incr", "incr_domain", "attach", "refer"}

\* Why a session with forceExit is gone before its host is stopped and its
\* hash deleted: it is in platsesslist of its platform for as long as it is
\* active, killPlatform goes on to the stop when it has found that list empty,
\* and the sessions that start on the platform afterwards have no forceExit.
\* Those it has still to tell were in the list, and only the loop has any.
ListedWhereItIs == \A p \in Platforms : \A s \in sess[p] :
    \/ pc[s] = "gone"
    \/ at[s] = p /\ pc[s] \in {"undo", "undo_domain", "active", "unrefer"} \cup MovePCs
ForcedWasSeen   == \A s \in forced : pc[s] \notin UnseenPCs
ActiveIsListed  == \A s \in Sessions : pc[s] \in {"active", "unrefer"} => s \in sess[at[s]]
StopFindsNone   == \A s \in forced :
    pc[s] # "gone" /\ killing[at[s]] \in {"stop", "delete"} => s \notin sess[at[s]]
ToldWasListed   == \A p \in Platforms : \A s \in toForce[p] :
    /\ killing[p] \in {"sessions", "sessions_only"}
    /\ pc[s] = "gone" \/ (at[s] = p /\ pc[s] \notin UnseenPCs)
ForcedInv == ListedWhereItIs /\ ForcedWasSeen /\ ActiveIsListed /\ StopFindsNone /\ ToldWasListed

\* Nothing that the invariant reads changes.
LEMMA ForcedStays ==
    ASSUME ForcedInv, UNCHANGED <<sess, forced, killing, toForce>>,
           \A s \in Sessions : pc'[s] = pc[s] /\ at'[s] = at[s], TypeOK
    PROVE  ForcedInv'
BY DEF ForcedInv, ListedWhereItIs, ForcedWasSeen, ActiveIsListed, StopFindsNone, ToldWasListed,
       TypeOK, ListsTypeOK, DaemonTypeOK, ProcsTypeOK

LEMMA ForcedPreserved ==
    ASSUME TypeOK, ForcedInv, [Next]_vars
    PROVE  ForcedInv'
<1>1. ASSUME NEW t \in Tasks, Dispatch(t) PROVE ForcedInv'
  <2>1. t \notin Sessions /\ t \in Procs
    BY PoolAssumption DEF Tasks, Procs
  <2> QED
    BY <1>1, <2>1, ForcedStays DEF Dispatch, Goto, redis, daemon, kills, local, TypeOK,
       ProcsTypeOK, Procs
<1>2. ASSUME NEW t \in Tasks, FindAvailable(t) PROVE ForcedInv'
  <2>1. t \notin Sessions /\ t \in Procs
    BY PoolAssumption DEF Tasks, Procs
  <2> QED
    BY <1>2, <2>1, ForcedStays DEF FindAvailable, Goto, TaskEnds, Finish, redis,
       daemon, kills, local, TypeOK, ProcsTypeOK, Procs
<1>3. ASSUME NEW t \in Tasks, MarkIdle(t) PROVE ForcedInv'
  <2>1. t \notin Sessions /\ t \in Procs
    BY PoolAssumption DEF Tasks, Procs
  <2> QED
    BY <1>3, <2>1, ForcedStays DEF MarkIdle, Goto, redis, daemon, kills, local, TypeOK,
       ProcsTypeOK, Procs
<1>4. ASSUME NEW t \in Tasks, MarkDomainIdle(t) PROVE ForcedInv'
  <2>1. t \notin Sessions /\ t \in Procs
    BY PoolAssumption DEF Tasks, Procs
  <2> QED
    BY <1>4, <2>1, ForcedStays DEF MarkDomainIdle, Goto, redis, daemon, kills, local,
       TypeOK, ProcsTypeOK, Procs
<1>5. ASSUME NEW t \in Tasks, SavePlatform(t) PROVE ForcedInv'
  <2>1. t \notin Sessions /\ t \in Procs
    BY PoolAssumption DEF Tasks, Procs
  <2> QED
    BY <1>5, <2>1, ForcedStays DEF SavePlatform, Goto, redis, daemon, kills, local, TypeOK,
       ProcsTypeOK, Procs
<1>6. ASSUME NEW t \in Tasks, StartHost(t) PROVE ForcedInv'
  <2>1. t \notin Sessions /\ t \in Procs
    BY PoolAssumption DEF Tasks, Procs
  <2> QED
    BY <1>6, <2>1, ForcedStays DEF StartHost, Goto, redis, daemon, kills, local, TypeOK,
       ProcsTypeOK, Procs
<1>7. ASSUME NEW t \in Tasks, AddToRunning(t) PROVE ForcedInv'
  <2>1. t \notin Sessions /\ t \in Procs
    BY PoolAssumption DEF Tasks, Procs
  <2> QED
    BY <1>7, <2>1, ForcedStays DEF AddToRunning, Goto, TaskEnds, Finish, redis,
       daemon, kills, local, TypeOK, ProcsTypeOK, Procs
<1>8. ASSUME NEW t \in Tasks, Unmark(t) PROVE ForcedInv'
  <2>1. t \notin Sessions /\ t \in Procs
    BY PoolAssumption DEF Tasks, Procs
  <2> QED
    BY <1>8, <2>1, ForcedStays DEF Unmark, Goto, TaskEnds, Finish, redis, daemon, kills,
       local, TypeOK, ProcsTypeOK, Procs
<1>9. ASSUME NEW s \in Sessions, ChoosePlatform(s) PROVE ForcedInv'
  BY <1>9, PoolAssumption DEF ChoosePlatform, At, Goto, redis, daemon, kills, local,
     ForcedInv, ListedWhereItIs, ForcedWasSeen, ActiveIsListed, StopFindsNone, ToldWasListed,
     UnseenPCs, MovePCs, TypeOK, ListsTypeOK, DaemonTypeOK, ProcsTypeOK, Procs,
     Tasks
<1>10. ASSUME NEW s \in Sessions, EndSession(s) PROVE ForcedInv'
  BY <1>10, PoolAssumption DEF EndSession, At, Goto, redis, daemon, kills, local,
     ForcedInv, ListedWhereItIs, ForcedWasSeen, ActiveIsListed, StopFindsNone, ToldWasListed,
     UnseenPCs, MovePCs, TypeOK, ListsTypeOK, DaemonTypeOK, ProcsTypeOK, Procs,
     Tasks
<1>11. ASSUME NEW s \in Sessions, LoadPlatform(s) PROVE ForcedInv'
  BY <1>11, PoolAssumption DEF LoadPlatform, At, Goto, Finish, redis, daemon, kills, local,
     ForcedInv, ListedWhereItIs, ForcedWasSeen, ActiveIsListed, StopFindsNone, ToldWasListed,
     UnseenPCs, MovePCs, TypeOK, ListsTypeOK, DaemonTypeOK, ProcsTypeOK, Procs,
     Tasks
<1>12. ASSUME NEW s \in Sessions, Reference(s) PROVE ForcedInv'
  BY <1>12, PoolAssumption DEF Reference, At, Goto, redis, daemon, kills, local, ForcedInv,
     ListedWhereItIs, ForcedWasSeen, ActiveIsListed, StopFindsNone, ToldWasListed, UnseenPCs,
     MovePCs, TypeOK, ListsTypeOK, DaemonTypeOK, ProcsTypeOK, Procs, Tasks
<1>13. ASSUME NEW s \in Sessions, AttachUser(s) PROVE ForcedInv'
  BY <1>13, PoolAssumption DEF AttachUser, At, Goto, redis, daemon, kills, local,
     ForcedInv, ListedWhereItIs, ForcedWasSeen, ActiveIsListed, StopFindsNone, ToldWasListed,
     UnseenPCs, MovePCs, TypeOK, ListsTypeOK, DaemonTypeOK, ProcsTypeOK, Procs,
     Tasks
<1>14. ASSUME NEW s \in Sessions, UpdatePlatformReference(s) PROVE ForcedInv'
  BY <1>14, PoolAssumption DEF UpdatePlatformReference, At, Goto, redis, daemon, kills,
     local, ForcedInv, ListedWhereItIs, ForcedWasSeen, ActiveIsListed,
     StopFindsNone, ToldWasListed, UnseenPCs, MovePCs, TypeOK, ListsTypeOK, DaemonTypeOK,
     ProcsTypeOK, Procs, Tasks
<1>15. ASSUME NEW s \in Sessions, DeletePlatformReference(s) PROVE ForcedInv'
  BY <1>15, PoolAssumption DEF DeletePlatformReference, At, Goto, redis, daemon, kills,
     local, ForcedInv, ListedWhereItIs, ForcedWasSeen, ActiveIsListed,
     StopFindsNone, ToldWasListed, UnseenPCs, MovePCs, TypeOK, ListsTypeOK, DaemonTypeOK,
     ProcsTypeOK, Procs, Tasks
<1>16. ASSUME NEW s \in Sessions, LastReference(s) PROVE ForcedInv'
  BY <1>16, PoolAssumption DEF LastReference, At, Goto, Finish, redis, daemon, kills,
     local, ForcedInv, ListedWhereItIs, ForcedWasSeen, ActiveIsListed,
     StopFindsNone, ToldWasListed, UnseenPCs, MovePCs, TypeOK, ListsTypeOK, DaemonTypeOK,
     ProcsTypeOK, Procs, Tasks
<1>17. ASSUME NEW c \in Procs, ReadScore(c) PROVE ForcedInv'
  BY <1>17, PoolAssumption DEF ReadScore, At, Goto, redis, daemon, kills, local, ForcedInv,
     ListedWhereItIs, ForcedWasSeen, ActiveIsListed, StopFindsNone, ToldWasListed, UnseenPCs,
     MovePCs, TypeOK, ListsTypeOK, DaemonTypeOK, ProcsTypeOK, Procs, Tasks
<1>18. ASSUME NEW c \in Procs, AddToErrors(c) PROVE ForcedInv'
  BY <1>18, PoolAssumption DEF AddToErrors, At, Goto, AfterMove, Finish, Revives,
     redis, daemon, kills, local, ForcedInv, ListedWhereItIs, ForcedWasSeen,
     ActiveIsListed, StopFindsNone, ToldWasListed, UnseenPCs, MovePCs, TypeOK, ListsTypeOK,
     DaemonTypeOK, ProcsTypeOK, Procs, Tasks
<1>19. ASSUME NEW c \in Procs, AddToClose(c) PROVE ForcedInv'
  BY <1>19, PoolAssumption DEF AddToClose, At, Goto, AfterMove, Finish, Revives,
     redis, daemon, kills, local, ForcedInv, ListedWhereItIs, ForcedWasSeen,
     ActiveIsListed, StopFindsNone, ToldWasListed, UnseenPCs, MovePCs, TypeOK, ListsTypeOK,
     DaemonTypeOK, ProcsTypeOK, Procs, Tasks
<1>20. ASSUME NEW p \in Platforms, KillLoad(p) PROVE ForcedInv'
  BY <1>20 DEF KillLoad, KillStep, KillEnds, redis, local, ForcedInv,
     ListedWhereItIs, ForcedWasSeen, ActiveIsListed, StopFindsNone, ToldWasListed, UnseenPCs,
     MovePCs, TypeOK, ListsTypeOK, DaemonTypeOK, ProcsTypeOK, Procs, Tasks
<1>21. ASSUME NEW p \in Platforms, KillListSessions(p) PROVE ForcedInv'
  BY <1>21 DEF KillListSessions, KillStep, KillEnds, redis, local, ForcedInv,
     ListedWhereItIs, ForcedWasSeen, ActiveIsListed, StopFindsNone, ToldWasListed, UnseenPCs,
     MovePCs, TypeOK, ListsTypeOK, DaemonTypeOK, ProcsTypeOK, Procs, Tasks
<1>35. ASSUME NEW p \in Platforms, KillForceExit(p) PROVE ForcedInv'
  BY <1>35 DEF KillForceExit, KillStep, KillEnds, redis, local, ForcedInv,
     ListedWhereItIs, ForcedWasSeen, ActiveIsListed, StopFindsNone, ToldWasListed, UnseenPCs,
     MovePCs, At, TypeOK, ListsTypeOK, DaemonTypeOK, ProcsTypeOK, Procs, Tasks
<1>36. ASSUME NEW p \in Platforms, SetFails(p) PROVE ForcedInv'
  BY <1>36, ForcedStays DEF SetFails, daemon, kills, local
<1>22. ASSUME NEW p \in Platforms, KillStop(p) PROVE ForcedInv'
  BY <1>22 DEF KillStop, KillStep, KillEnds, redis, local, ForcedInv,
     ListedWhereItIs, ForcedWasSeen, ActiveIsListed, StopFindsNone, ToldWasListed, UnseenPCs,
     MovePCs, TypeOK, ListsTypeOK, DaemonTypeOK, ProcsTypeOK, Procs, Tasks
<1>23. ASSUME NEW p \in Platforms, DeletePlatform(p) PROVE ForcedInv'
  BY <1>23 DEF DeletePlatform, KillStep, KillEnds, redis, local, ForcedInv,
     ListedWhereItIs, ForcedWasSeen, ActiveIsListed, StopFindsNone, ToldWasListed, UnseenPCs,
     MovePCs, TypeOK, ListsTypeOK, DaemonTypeOK, ProcsTypeOK, Procs, Tasks
<1>24. ASSUME NEW r \in Runners, Refresh(r) PROVE ForcedInv'
  BY <1>24, ForcedStays DEF Refresh, redis, daemon, kills, local
<1>25. ASSUME NEW r \in Runners, FindOrganizations(r) PROVE ForcedInv'
  BY <1>25 DEF FindOrganizations, StartKills, redis, kills, local, ForcedInv,
     ListedWhereItIs, ForcedWasSeen, ActiveIsListed, StopFindsNone, ToldWasListed, TypeOK,
     ListsTypeOK, DaemonTypeOK, ProcsTypeOK, Procs, Tasks
<1>26. ASSUME NEW r \in Runners, FillPool(r) PROVE ForcedInv'
  BY <1>26, ForcedStays DEF FillPool, redis, daemon, kills, local
<1>27. ASSUME NEW r \in Runners, ClosePlatforms(r) PROVE ForcedInv'
  BY <1>27 DEF ClosePlatforms, StartKills, redis, local, ForcedInv, ListedWhereItIs,
     ForcedWasSeen, ActiveIsListed, StopFindsNone, ToldWasListed, TypeOK, ListsTypeOK,
     DaemonTypeOK, ProcsTypeOK, Procs, Tasks
<1>28. ASSUME NEW r \in Runners, CloseReturns(r) PROVE ForcedInv'
  BY <1>28, ForcedStays DEF CloseReturns, redis, daemon, kills, local
<1>29. ASSUME NEW t \in Tasks, NEW p \in Platforms, StartPlatform(t, p) PROVE ForcedInv'
  <2>1. t \notin Sessions /\ t \in Procs
    BY PoolAssumption DEF Tasks, Procs
  <2> QED
    BY <1>29, <2>1, ForcedStays DEF StartPlatform, Goto, redis, daemon, kills, local,
       TypeOK, ProcsTypeOK, Procs
<1>30. ASSUME NEW c \in Checkers, NEW p \in Platforms, CheckPlatform(c, p) PROVE ForcedInv'
  <2>1. c \notin Sessions /\ c \in Procs
    BY PoolAssumption DEF Tasks, Procs
  <2> QED
    BY <1>30, <2>1, ForcedStays DEF CheckPlatform, Goto, redis, daemon, kills, local,
       TypeOK, ProcsTypeOK, Procs
<1>31. ASSUME NEW c \in Checkers, CheckAnswer(c) PROVE ForcedInv'
  <2>1. /\ \A s \in Sessions : pc'[s] = pc[s] /\ at'[s] = at[s]
        /\ UNCHANGED <<forced, killing, toForce>>
    BY <1>31, PoolAssumption DEF CheckAnswer, Goto, Finish, daemon, kills, local, TypeOK,
       ProcsTypeOK, Procs
  <2>2. \A q \in Platforms : \A s \in Sessions :
          /\ s \in sess'[q] => s \in sess[q]
          /\ s \in sess[q] /\ pc[s] # "gone" => s \in sess'[q]
    BY <1>31 DEF CheckAnswer, At, TypeOK, ListsTypeOK
  <2>3. sess' \in [Platforms -> SUBSET Sessions]
    BY ListsPreserved DEF ListsTypeOK
  <2>4. forced \subseteq Sessions /\ \A s \in Sessions : at[s] \in Platforms
    BY DEF TypeOK, ProcsTypeOK, Procs
  <2>5. ListedWhereItIs' /\ ForcedWasSeen'
    BY <2>1, <2>2, <2>3, <2>4 DEF ForcedInv, ListedWhereItIs, ForcedWasSeen
  <2>6. ActiveIsListed' /\ StopFindsNone' /\ ToldWasListed'
    BY <2>1, <2>2, <2>4 DEF ForcedInv, ActiveIsListed, StopFindsNone, ToldWasListed, TypeOK,
       DaemonTypeOK
  <2> QED
    BY <2>5, <2>6 DEF ForcedInv
<1>32. ASSUME NEW p \in Platforms, StopPlatform(p) PROVE ForcedInv'
  <2>1. Admin \notin Sessions /\ Admin \in Procs
    BY PoolAssumption DEF Tasks, Procs
  <2> QED
    BY <1>32, <2>1, ForcedStays DEF StopPlatform, Goto, redis, daemon, kills, local,
       TypeOK, ProcsTypeOK, Procs
<1>33. ASSUME RefreshDropped PROVE ForcedInv'
  BY <1>33, ForcedStays DEF RefreshDropped, redis, daemon, kills, local
<1>34. ASSUME UNCHANGED vars PROVE ForcedInv'
  BY <1>34, ForcedStays DEF vars, redis, daemon, kills, local
<1> QED
  BY <1>1, <1>2, <1>3, <1>4, <1>5, <1>6, <1>7, <1>8, <1>9, <1>10, <1>11,
     <1>12, <1>13, <1>14, <1>15, <1>16, <1>17, <1>18, <1>19, <1>20, <1>21,
     <1>22, <1>23, <1>24, <1>25, <1>26, <1>27, <1>28, <1>29, <1>30, <1>31,
     <1>32, <1>33, <1>34, <1>35, <1>36
     DEF Next, Register, SessionSteps, Move, KillPlatform, Serve, Procs, Tasks

\* A step takes the host or the hash of p away.
TakesHost(p) == p \in alive /\ p \notin alive'
TakesHash(p) == errorset[p] # "none" /\ errorset'[p] = "none"
EndsKill(p)  == killing[p] \in {"stop", "delete"}

\* Only killPlatform does so, in its last two steps.
LEMMA OnlyKillTakes ==
    ASSUME TypeOK, Next, NEW p \in Platforms, TakesHost(p) \/ TakesHash(p)
    PROVE  EndsKill(p)
<1> USE DEF TakesHost, TakesHash, EndsKill, redis
<1>1. ASSUME NEW t \in Tasks, Dispatch(t) PROVE EndsKill(p)
  BY <1>1 DEF Dispatch
<1>2. ASSUME NEW t \in Tasks, FindAvailable(t) PROVE EndsKill(p)
  BY <1>2 DEF FindAvailable
<1>3. ASSUME NEW t \in Tasks, MarkIdle(t) PROVE EndsKill(p)
  BY <1>3 DEF MarkIdle
<1>4. ASSUME NEW t \in Tasks, MarkDomainIdle(t) PROVE EndsKill(p)
  BY <1>4 DEF MarkDomainIdle
<1>5. ASSUME NEW t \in Tasks, SavePlatform(t) PROVE EndsKill(p)
  BY <1>5 DEF SavePlatform, TypeOK, ListsTypeOK
<1>6. ASSUME NEW t \in Tasks, StartHost(t) PROVE EndsKill(p)
  BY <1>6 DEF StartHost
<1>7. ASSUME NEW t \in Tasks, AddToRunning(t) PROVE EndsKill(p)
  BY <1>7 DEF AddToRunning
<1>8. ASSUME NEW t \in Tasks, Unmark(t) PROVE EndsKill(p)
  BY <1>8 DEF Unmark
<1>9. ASSUME NEW s \in Sessions, ChoosePlatform(s) PROVE EndsKill(p)
  BY <1>9 DEF ChoosePlatform
<1>10. ASSUME NEW s \in Sessions, EndSession(s) PROVE EndsKill(p)
  BY <1>10 DEF EndSession
<1>11. ASSUME NEW s \in Sessions, LoadPlatform(s) PROVE EndsKill(p)
  BY <1>11 DEF LoadPlatform
<1>12. ASSUME NEW s \in Sessions, Reference(s) PROVE EndsKill(p)
  BY <1>12 DEF Reference
<1>13. ASSUME NEW s \in Sessions, AttachUser(s) PROVE EndsKill(p)
  BY <1>13 DEF AttachUser
<1>14. ASSUME NEW s \in Sessions, UpdatePlatformReference(s) PROVE EndsKill(p)
  BY <1>14 DEF UpdatePlatformReference, TypeOK, ListsTypeOK
<1>15. ASSUME NEW s \in Sessions, DeletePlatformReference(s) PROVE EndsKill(p)
  BY <1>15 DEF DeletePlatformReference
<1>16. ASSUME NEW s \in Sessions, LastReference(s) PROVE EndsKill(p)
  BY <1>16 DEF LastReference
<1>17. ASSUME NEW c \in Procs, ReadScore(c) PROVE EndsKill(p)
  BY <1>17 DEF ReadScore
<1>18. ASSUME NEW c \in Procs, AddToErrors(c) PROVE EndsKill(p)
  BY <1>18 DEF AddToErrors, TypeOK, ListsTypeOK
<1>19. ASSUME NEW c \in Procs, AddToClose(c) PROVE EndsKill(p)
  BY <1>19 DEF AddToClose
<1>20. ASSUME NEW q \in Platforms, KillLoad(q) PROVE EndsKill(p)
  BY <1>20 DEF KillLoad
<1>21. ASSUME NEW q \in Platforms, KillListSessions(q) PROVE EndsKill(p)
  BY <1>21 DEF KillListSessions
<1>35. ASSUME NEW q \in Platforms, KillForceExit(q) PROVE EndsKill(p)
  BY <1>35 DEF KillForceExit
<1>36. ASSUME NEW q \in Platforms, SetFails(q) PROVE EndsKill(p)
  BY <1>36 DEF SetFails
<1>22. ASSUME NEW q \in Platforms, KillStop(q) PROVE EndsKill(p)
  BY <1>22 DEF KillStop
<1>23. ASSUME NEW q \in Platforms, DeletePlatform(q) PROVE EndsKill(p)
  BY <1>23 DEF DeletePlatform, TypeOK, ListsTypeOK
<1>24. ASSUME NEW r \in Runners, Refresh(r) PROVE EndsKill(p)
  BY <1>24 DEF Refresh
<1>25. ASSUME NEW r \in Runners, FindOrganizations(r) PROVE EndsKill(p)
  BY <1>25 DEF FindOrganizations
<1>26. ASSUME NEW r \in Runners, FillPool(r) PROVE EndsKill(p)
  BY <1>26 DEF FillPool
<1>27. ASSUME NEW r \in Runners, ClosePlatforms(r) PROVE EndsKill(p)
  BY <1>27 DEF ClosePlatforms
<1>28. ASSUME NEW r \in Runners, CloseReturns(r) PROVE EndsKill(p)
  BY <1>28 DEF CloseReturns
<1>29. ASSUME NEW t \in Tasks, NEW q \in Platforms, StartPlatform(t, q) PROVE EndsKill(p)
  BY <1>29 DEF StartPlatform
<1>30. ASSUME NEW c \in Checkers, NEW q \in Platforms, CheckPlatform(c, q) PROVE EndsKill(p)
  BY <1>30 DEF CheckPlatform
<1>31. ASSUME NEW c \in Checkers, CheckAnswer(c) PROVE EndsKill(p)
  BY <1>31 DEF CheckAnswer, At, TypeOK, ListsTypeOK, ProcsTypeOK
<1>32. ASSUME NEW q \in Platforms, StopPlatform(q) PROVE EndsKill(p)
  BY <1>32 DEF StopPlatform
<1>33. ASSUME RefreshDropped PROVE EndsKill(p)
  BY <1>33 DEF RefreshDropped
<1> QED
  BY <1>1, <1>2, <1>3, <1>4, <1>5, <1>6, <1>7, <1>8, <1>9, <1>10, <1>11,
     <1>12, <1>13, <1>14, <1>15, <1>16, <1>17, <1>18, <1>19, <1>20, <1>21,
     <1>22, <1>23, <1>24, <1>25, <1>26, <1>27, <1>28, <1>29, <1>30, <1>31,
     <1>32, <1>33, <1>35, <1>36
     DEF Next, Register, SessionSteps, Move, KillPlatform, Serve, Procs, Tasks

\* ForcedLeaveFirst, in every configuration of the pool.
THEOREM ForcedSessionsLeaveFirst == Spec => ForcedLeaveFirst
<1>1. Init => ForcedInv
  BY DEF Init, ForcedInv, ListedWhereItIs, ForcedWasSeen, ActiveIsListed,
     StopFindsNone, ToldWasListed, Procs
<1>2. TypeOK /\ ForcedInv /\ [Next]_vars => ForcedInv'
  BY ForcedPreserved
<1> DEFINE Step == \A s \in forced : At(s, "active") =>
                      /\ at[s] \in alive => at[s] \in alive'
                      /\ errorset[at[s]] # "none" => errorset'[at[s]] # "none"
<1>3. TypeOK /\ ForcedInv /\ [Next]_vars => [Step]_vars
  <2> SUFFICES ASSUME TypeOK, ForcedInv, Next, NEW s \in forced, At(s, "active"),
                      TakesHost(at[s]) \/ TakesHash(at[s])
               PROVE  FALSE
    BY DEF TakesHost, TakesHash
  <2>1. s \in Sessions /\ at[s] \in Platforms
    BY DEF TypeOK, ProcsTypeOK, Procs
  <2>2. EndsKill(at[s])
    BY <2>1, OnlyKillTakes
  <2> QED
    BY <2>1, <2>2 DEF ForcedInv, ActiveIsListed, StopFindsNone, At, EndsKill
<1> QED
  BY <1>1, <1>2, <1>3, TypeCorrect, PTL DEF Spec, ForcedLeaveFirst

=============================================================================

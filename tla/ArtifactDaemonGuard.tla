------------------------ MODULE ArtifactDaemonGuard -------------------------
(***************************************************************************)
(* Every step of the artifact daemon keeps the types of its variables and  *)
(* the discipline of its guard, for any set of requests, paths and handles *)
(* and any number of faults: an actor takes and gives back only its own    *)
(* sides, a writer is alone, a handler holds the sides it relies on and no *)
(* others, a directory changes only under the exclusive side, and what is  *)
(* being removed or refilled is not whole.  A step enters only a key's own *)
(* path or its alias in the registry, and few steps of a request change    *)
(* the aliases at all.                                                     *)
(***************************************************************************)
EXTENDS ArtifactDaemon, TLAPS

USE DEF disk, guard, registry, local, request, sweeper

RequestStep(r) == Arrive(r) \/ RequestNext(r) \/ GiveUp(r) \/ LeftTorn(r)
SweepStep == SweeperNext \/ SweepFails

(* A restart, whatever of the disk it can read. *)
Starts == \E scanned \in SUBSET Handles, K \in SUBSET Paths : StartUp(scanned, K)

(* The operation of a request, and the paths and handles it names.        *)
LEMMA Named ==
  ASSUME TypeOK, NEW r \in Requests
  PROVE  /\ op[r] \in Ops /\ Key(r) \in Paths /\ At(r) \in Paths /\ src[r] \in Paths
         /\ HKey(r) \in Handles /\ HAt(r) \in Handles /\ HSrc(r) \in Handles
  BY PathAssumption, Zenon DEF TypeOK, RequestType, Ops, Key, At, HKey, HAt, HSrc

(* Sides that are given back, taken or left keep the types of the guard.  *)
LEMMA ReleaseTyped ==
  ASSUME GuardType, NEW a, Release(a) PROVE GuardType'
  BY Zenon DEF GuardType, Release

(* So does a side that is taken. *)
LEMMA GrantTyped ==
  ASSUME NEW lock \in [Handles -> SUBSET Actors], NEW h \in Handles, NEW a \in Actors
  PROVE Grant(lock, h, a) \in [Handles -> SUBSET Actors]
  BY Zenon DEF Grant

(* A reader that is let in keeps them too. *)
LEMMA ReadTyped ==
  ASSUME GuardType, NEW h \in Handles, NEW a \in Actors, readers' = Grant(readers, h, a),
         UNCHANGED <<writers, waiting>>
  PROVE GuardType'
  BY GrantTyped, Zenon DEF GuardType

(* So does a writer. *)
LEMMA WriteTyped ==
  ASSUME GuardType, NEW h \in Handles, NEW a \in Actors, writers' = Grant(writers, h, a),
         UNCHANGED <<readers, waiting>>
  PROVE GuardType'
  BY GrantTyped, Zenon DEF GuardType

(* So does a step that leaves the guard alone. *)
LEMMA SameTyped ==
  ASSUME GuardType, UNCHANGED guard PROVE GuardType'
  BY Zenon DEF GuardType

(* A fault is counted. *)
LEMMA FaultTyped ==
  ASSUME TypeOK, Fault PROVE faults' \in Nat /\ faults' # 0
  BY DEF TypeOK, SweeperType, Fault

(* A request keeps the types of the disk.                                 *)
LEMMA RequestDiskTyped ==
  ASSUME DaemonInv, NEW r \in Requests, RequestStep(r) PROVE DiskType'
  <1>1. ASSUME Arrive(r) PROVE DiskType'
    BY <1>1, Named, Zenon DEF Arrive, DaemonInv, TypeOK, DiskType
  <1>2. ASSUME GetOpen(r) PROVE DiskType'
    BY <1>2, Named, Zenon DEF GetOpen, StartRead, Step, Grant, CanRead, Key, HKey, DaemonInv,
       TypeOK, DiskType
  <1>3. ASSUME GetLookup(r) PROVE DiskType'
    BY <1>3, Named, Zenon DEF GetLookup, End, Release, Step, Key, HKey, DaemonInv, TypeOK, DiskType
  <1>4. ASSUME GetReopen(r) PROVE DiskType'
    BY <1>4, Named, Zenon DEF GetReopen, Retry, StartRead, Release, Grant, CanRead, HSrc, Key,
       HKey, DaemonInv, TypeOK, DiskType
  <1>5. ASSUME MirrorOpen(r) PROVE DiskType'
    BY <1>5, Named, Zenon DEF MirrorOpen, StartRead, End, Release, Grant, CanRead, Key, HKey,
       DaemonInv, TypeOK, DiskType
  <1>6. ASSUME Served(r) PROVE DiskType'
    BY <1>6, Named, Zenon DEF Served, End, Release, DaemonInv, TypeOK, DiskType
  <1>7. ASSUME RemoveIf(r) PROVE DiskType'
    BY <1>7, Named, Zenon DEF RemoveIf, Mutate, Step, End, Release, Key, DaemonInv, TypeOK,
       DiskType
  <1>8. ASSUME SaveAliases(r) PROVE DiskType'
    BY <1>8, Named, Zenon DEF SaveAliases, Save, End, Release, DaemonInv, TypeOK, DiskType
  <1>9. ASSUME RegisterCheck(r) PROVE DiskType'
    BY <1>9, Named, Zenon DEF RegisterCheck, End, Release, Step, At, DaemonInv, TypeOK, DiskType
  <1>10. ASSUME RegisterAlias(r) PROVE DiskType'
    BY <1>10, Named, Zenon DEF RegisterAlias, Step, Key, At, DaemonInv, TypeOK, DiskType
  <1>11. ASSUME Admit(r) PROVE DiskType'
    BY <1>11, Named, Zenon DEF Admit, Step, End, Release, DaemonInv, TypeOK, DiskType
  <1>12. ASSUME Find(r) PROVE DiskType'
    BY <1>12, Named, Zenon DEF Find, Step, Key, DaemonInv, TypeOK, DiskType
  <1>13. ASSUME LockFirst(r) PROVE DiskType'
    BY <1>13, Named, Zenon DEF LockFirst, LockFor, Grant, CanRead, CanWrite, At, HAt, HSrc,
       DaemonInv, TypeOK, DiskType
  <1>14. ASSUME LockSecond(r) PROVE DiskType'
    BY <1>14, Named, Zenon DEF LockSecond, LockFor, Grant, CanRead, CanWrite, At, HAt, HSrc,
       DaemonInv, TypeOK, DiskType
  <1>15. ASSUME Paired(r) PROVE DiskType'
    BY <1>15, Named, Zenon DEF Paired, Retry, Step, End, Release, Key, At, HAt, HSrc, DaemonInv,
       TypeOK, DiskType
  <1>16. ASSUME Probe(r) PROVE DiskType'
    BY <1>16, Named, Zenon DEF Probe, End, Release, Step, DaemonInv, TypeOK, DiskType
  <1>17. ASSUME PeerLock(r) PROVE DiskType'
    BY <1>17, Named, Zenon DEF PeerLock, CanWrite, Grant, At, HAt, HSrc, DaemonInv, TypeOK,
       DiskType
  <1>18. ASSUME Publish(r) PROVE DiskType'
    BY <1>18, Named, Zenon DEF Publish, End, Release, Step, At, HAt, HSrc, DaemonInv, TypeOK,
       DiskType
  <1>19. ASSUME Published(r) PROVE DiskType'
    BY <1>19, Named, Zenon DEF Published, End, Release, At, DaemonInv, TypeOK, DiskType
  <1>20. ASSUME Upload(r) PROVE DiskType'
    BY <1>20, Named, Zenon DEF Upload, Step, End, Release, DaemonInv, TypeOK, DiskType
  <1>21. ASSUME BeginSweep(r) PROVE DiskType'
    BY <1>21, Named, Zenon DEF BeginSweep, Grant, Key, HKey, DaemonInv, TypeOK, DiskType
  <1>22. ASSUME TakeSweep(r) PROVE DiskType'
    BY <1>22, Named, Zenon DEF TakeSweep, Grant, Key, HKey, DaemonInv, TypeOK, DiskType
  <1>23. ASSUME RemoveBegins(r) PROVE DiskType'
    BY <1>23, Named, Zenon DEF RemoveBegins, Step, Key, DaemonInv, TypeOK, DiskType
  <1>24. ASSUME RemoveEnds(r) PROVE DiskType'
    BY <1>24, Named, Zenon DEF RemoveEnds, Step, End, Release, Key, HKey, DaemonInv, TypeOK,
       DiskType
  <1>25. ASSUME Rename(r) PROVE DiskType'
    BY <1>25, Named, Zenon DEF Rename, Release, Key, HKey, DaemonInv, TypeOK, DiskType
  <1>26. ASSUME Register(r) PROVE DiskType'
    BY <1>26, Named, Zenon DEF Register, End, Release, Key, DaemonInv, TypeOK, DiskType
  <1>27. ASSUME GiveUp(r) PROVE DiskType'
    BY <1>27, Named, Zenon DEF GiveUp, End, Release, HAt, DaemonInv, TypeOK, DiskType
  <1>28. ASSUME LeftTorn(r) PROVE DiskType'
    BY <1>28, Named, Zenon DEF LeftTorn, Fault, End, Release, DaemonInv, TypeOK, DiskType
  <1> QED
    BY <1>1, <1>2, <1>3, <1>4, <1>5, <1>6, <1>7, <1>8, <1>9, <1>10, <1>11, <1>12, <1>13,
       <1>14, <1>15, <1>16, <1>17, <1>18, <1>19, <1>20, <1>21, <1>22, <1>23, <1>24, <1>25,
       <1>26, <1>27, <1>28, Zenon DEF RequestStep, RequestNext, ReadNext, RegistryNext,
       ResolveNext, WriteNext

(* So does the sweeper.                                                   *)
LEMMA SweepDiskTyped ==
  ASSUME DaemonInv, SweepStep PROVE DiskType'
  <1>1. ASSUME Sweep PROVE DiskType'
    BY <1>1, Zenon DEF Sweep, DaemonInv, TypeOK, SweeperType, RegistryType, Aliases, NoAliases,
       Actors, DiskType
  <1>2. ASSUME NEW h \in Handles, SweepPick(h) PROVE DiskType'
    BY <1>2, Zenon DEF SweepPick, Grant, DaemonInv, TypeOK, SweeperType, RegistryType, Aliases,
       NoAliases, Actors, DiskType
  <1>3. ASSUME SweepTake PROVE DiskType'
    BY <1>3, Zenon DEF SweepTake, Grant, DaemonInv, TypeOK, SweeperType, RegistryType, Aliases,
       NoAliases, Actors, DiskType
  <1>4. ASSUME SweepStat PROVE DiskType'
    BY <1>4, Zenon DEF SweepStat, SweepNextHandle, Release, Removing, DaemonInv, TypeOK,
       SweeperType, RegistryType, Aliases, NoAliases, Actors, DiskType
  <1>5. ASSUME SweepRemoved PROVE DiskType'
    BY <1>5, Zenon DEF SweepRemoved, DaemonInv, TypeOK, SweeperType, RegistryType, Aliases,
       NoAliases, Actors, DiskType
  <1>6. ASSUME RemoveByPath PROVE DiskType'
    BY <1>6, Zenon DEF RemoveByPath, Mutate, SweepNextHandle, Release, DaemonInv, TypeOK,
       SweeperType, RegistryType, Aliases, NoAliases, Actors, DiskType
  <1>7. ASSUME SweepSave PROVE DiskType'
    BY <1>7, Zenon DEF SweepSave, Save, SweepNextHandle, Release, DaemonInv, TypeOK, SweeperType,
       RegistryType, Aliases, NoAliases, Actors, DiskType
  <1>8. ASSUME SweepFails PROVE DiskType'
    BY <1>8, Zenon DEF SweepFails, Fault, SweepNextHandle, Release, DaemonInv, TypeOK, SweeperType,
       RegistryType, Aliases, NoAliases, Actors, DiskType
  <1> QED
    BY <1>1, <1>2, <1>3, <1>4, <1>5, <1>6, <1>7, <1>8, Zenon DEF SweepStep, SweeperNext

(* A request keeps the types of the guard.                                *)
LEMMA RequestGuardTyped ==
  ASSUME DaemonInv, NEW r \in Requests, RequestStep(r) PROVE GuardType'
  <1>1. ASSUME Arrive(r) PROVE GuardType'
    BY <1>1, Named, Zenon DEF Arrive, DaemonInv, TypeOK, GuardType, Actors
  <1>2. ASSUME GetOpen(r) PROVE GuardType'
    BY <1>2, Named, ReleaseTyped, SameTyped, ReadTyped, WriteTyped, Zenon DEF GetOpen, Step,
       StartRead, HKey, HSrc, Key, Actors, DaemonInv, TypeOK
  <1>3. ASSUME GetLookup(r) PROVE GuardType'
    BY <1>3, Named, ReleaseTyped, SameTyped, ReadTyped, WriteTyped, Zenon DEF GetLookup, End, Step,
       Actors, DaemonInv, TypeOK
  <1>4. ASSUME GetReopen(r) PROVE GuardType'
    BY <1>4, Named, ReleaseTyped, SameTyped, ReadTyped, WriteTyped, Zenon DEF GetReopen, Retry,
       StartRead, HKey, HSrc, Key, Actors, DaemonInv, TypeOK
  <1>5. ASSUME MirrorOpen(r) PROVE GuardType'
    BY <1>5, Named, ReleaseTyped, SameTyped, ReadTyped, WriteTyped, Zenon DEF MirrorOpen, End,
       StartRead, HKey, HSrc, Key, Actors, DaemonInv, TypeOK
  <1>6. ASSUME Served(r) PROVE GuardType'
    BY <1>6, Named, Zenon DEF Served, End, Release, DaemonInv, TypeOK, GuardType, Actors
  <1>7. ASSUME RemoveIf(r) PROVE GuardType'
    BY <1>7, Named, ReleaseTyped, SameTyped, ReadTyped, WriteTyped, Zenon DEF RemoveIf, Step, End,
       Actors, DaemonInv, TypeOK
  <1>8. ASSUME SaveAliases(r) PROVE GuardType'
    BY <1>8, Named, Zenon DEF SaveAliases, Save, End, Release, DaemonInv, TypeOK, GuardType, Actors
  <1>9. ASSUME RegisterCheck(r) PROVE GuardType'
    BY <1>9, Named, ReleaseTyped, SameTyped, ReadTyped, WriteTyped, Zenon DEF RegisterCheck, Step,
       End, Actors, DaemonInv, TypeOK
  <1>10. ASSUME RegisterAlias(r) PROVE GuardType'
    BY <1>10, Named, Zenon DEF RegisterAlias, Step, Key, At, DaemonInv, TypeOK, GuardType, Actors
  <1>11. ASSUME Admit(r) PROVE GuardType'
    BY <1>11, ReleaseTyped, Zenon DEF Admit, Step, End, DaemonInv, TypeOK, GuardType
  <1>12. ASSUME Find(r) PROVE GuardType'
    BY <1>12, Named, Zenon DEF Find, Step, Key, DaemonInv, TypeOK, GuardType, Actors
  <1>13. ASSUME LockFirst(r) PROVE GuardType'
    <2>1. FirstHandle(r) \in Handles /\ r \in Actors
      BY Named, Zenon DEF FirstHandle, Actors, DaemonInv
    <2> QED
      BY <1>13, <2>1, ReadTyped, WriteTyped, Zenon DEF LockFirst, LockFor, DaemonInv, TypeOK
  <1>14. ASSUME LockSecond(r) PROVE GuardType'
    <2>1. SecondHandle(r) \in Handles /\ r \in Actors
      BY Named, Zenon DEF SecondHandle, Actors, DaemonInv
    <2> QED
      BY <1>14, <2>1, ReadTyped, WriteTyped, Zenon DEF LockSecond, LockFor, DaemonInv, TypeOK
  <1>15. ASSUME Paired(r) PROVE GuardType'
    BY <1>15, Named, ReleaseTyped, SameTyped, ReadTyped, WriteTyped, Zenon DEF Paired, Retry, Step,
       End, Actors, DaemonInv, TypeOK
  <1>16. ASSUME Probe(r) PROVE GuardType'
    BY <1>16, Named, ReleaseTyped, SameTyped, ReadTyped, WriteTyped, Zenon DEF Probe, Step, End,
       Actors, DaemonInv, TypeOK
  <1>17. ASSUME PeerLock(r) PROVE GuardType'
    BY <1>17, Named, Zenon DEF PeerLock, CanWrite, Grant, At, HAt, HSrc, DaemonInv, TypeOK,
       GuardType, Actors
  <1>18. ASSUME Publish(r) PROVE GuardType'
    BY <1>18, Named, ReleaseTyped, SameTyped, ReadTyped, WriteTyped, Zenon DEF Publish, Step, End,
       Actors, DaemonInv, TypeOK
  <1>19. ASSUME Published(r) PROVE GuardType'
    BY <1>19, Named, Zenon DEF Published, End, Release, At, DaemonInv, TypeOK, GuardType, Actors
  <1>20. ASSUME Upload(r) PROVE GuardType'
    BY <1>20, Named, ReleaseTyped, SameTyped, ReadTyped, WriteTyped, Zenon DEF Upload, Step, End,
       Actors, DaemonInv, TypeOK
  <1>21. ASSUME BeginSweep(r) PROVE GuardType'
    BY <1>21, Named, Zenon DEF BeginSweep, Grant, Key, HKey, DaemonInv, TypeOK, GuardType, Actors
  <1>22. ASSUME TakeSweep(r) PROVE GuardType'
    BY <1>22, Named, Zenon DEF TakeSweep, Grant, Key, HKey, DaemonInv, TypeOK, GuardType, Actors
  <1>23. ASSUME RemoveBegins(r) PROVE GuardType'
    BY <1>23, Named, Zenon DEF RemoveBegins, Step, Key, DaemonInv, TypeOK, GuardType, Actors
  <1>24. ASSUME RemoveEnds(r) PROVE GuardType'
    BY <1>24, Named, ReleaseTyped, SameTyped, ReadTyped, WriteTyped, Zenon DEF RemoveEnds, Step,
       End, Actors, DaemonInv, TypeOK
  <1>25. ASSUME Rename(r) PROVE GuardType'
    BY <1>25, Named, Zenon DEF Rename, Release, Key, HKey, DaemonInv, TypeOK, GuardType, Actors
  <1>26. ASSUME Register(r) PROVE GuardType'
    BY <1>26, Named, Zenon DEF Register, End, Release, Key, DaemonInv, TypeOK, GuardType, Actors
  <1>27. ASSUME GiveUp(r) PROVE GuardType'
    BY <1>27, Named, Zenon DEF GiveUp, End, Release, HAt, DaemonInv, TypeOK, GuardType, Actors
  <1>28. ASSUME LeftTorn(r) PROVE GuardType'
    BY <1>28, Named, Zenon DEF LeftTorn, Fault, End, Release, DaemonInv, TypeOK, GuardType, Actors
  <1> QED
    BY <1>1, <1>2, <1>3, <1>4, <1>5, <1>6, <1>7, <1>8, <1>9, <1>10, <1>11, <1>12, <1>13,
       <1>14, <1>15, <1>16, <1>17, <1>18, <1>19, <1>20, <1>21, <1>22, <1>23, <1>24, <1>25,
       <1>26, <1>27, <1>28, Zenon DEF RequestStep, RequestNext, ReadNext, RegistryNext,
       ResolveNext, WriteNext

(* So does the sweeper.                                                   *)
LEMMA SweepGuardTyped ==
  ASSUME DaemonInv, SweepStep PROVE GuardType'
  <1>1. ASSUME Sweep PROVE GuardType'
    BY <1>1, Zenon DEF Sweep, DaemonInv, TypeOK, SweeperType, RegistryType, Aliases, NoAliases,
       Actors, GuardType
  <1>2. ASSUME NEW h \in Handles, SweepPick(h) PROVE GuardType'
    BY <1>2, Zenon DEF SweepPick, Grant, DaemonInv, TypeOK, SweeperType, RegistryType, Aliases,
       NoAliases, Actors, GuardType
  <1>3. ASSUME SweepTake PROVE GuardType'
    BY <1>3, Zenon DEF SweepTake, Grant, DaemonInv, TypeOK, SweeperType, RegistryType, Aliases,
       NoAliases, Actors, GuardType
  <1>4. ASSUME SweepStat PROVE GuardType'
    BY <1>4, ReleaseTyped, SameTyped, Zenon DEF SweepStat, SweepNextHandle, DaemonInv, TypeOK
  <1>5. ASSUME SweepRemoved PROVE GuardType'
    BY <1>5, Zenon DEF SweepRemoved, DaemonInv, TypeOK, SweeperType, RegistryType, Aliases,
       NoAliases, Actors, GuardType
  <1>6. ASSUME RemoveByPath PROVE GuardType'
    BY <1>6, ReleaseTyped, SameTyped, Zenon DEF RemoveByPath, SweepNextHandle, DaemonInv, TypeOK
  <1>7. ASSUME SweepSave PROVE GuardType'
    BY <1>7, Zenon DEF SweepSave, Save, SweepNextHandle, Release, DaemonInv, TypeOK, SweeperType,
       RegistryType, Aliases, NoAliases, Actors, GuardType
  <1>8. ASSUME SweepFails PROVE GuardType'
    BY <1>8, Zenon DEF SweepFails, Fault, SweepNextHandle, Release, DaemonInv, TypeOK, SweeperType,
       RegistryType, Aliases, NoAliases, Actors, GuardType
  <1> QED
    BY <1>1, <1>2, <1>3, <1>4, <1>5, <1>6, <1>7, <1>8, Zenon DEF SweepStep, SweeperNext

(* A request keeps the types of the registry.                             *)
LEMMA RequestRegistryTyped ==
  ASSUME DaemonInv, NEW r \in Requests, RequestStep(r) PROVE RegistryType'
  <1>1. ASSUME Arrive(r) PROVE RegistryType'
    BY <1>1, Named, Zenon DEF Arrive, DaemonInv, TypeOK, RegistryType, Aliases, NoAliases, Actors
  <1>2. ASSUME GetOpen(r) PROVE RegistryType'
    BY <1>2, Named, Zenon DEF GetOpen, StartRead, Step, Grant, CanRead, Key, HKey, DaemonInv,
       TypeOK, RegistryType, Aliases, NoAliases, Actors
  <1>3. ASSUME GetLookup(r) PROVE RegistryType'
    BY <1>3, Named, Zenon DEF GetLookup, End, Release, Step, Key, HKey, DaemonInv, TypeOK,
       RegistryType, Aliases, NoAliases, Actors
  <1>4. ASSUME GetReopen(r) PROVE RegistryType'
    BY <1>4, Named, Zenon DEF GetReopen, Retry, StartRead, Release, Grant, CanRead, HSrc, Key,
       HKey, DaemonInv, TypeOK, RegistryType, Aliases, NoAliases, Actors
  <1>5. ASSUME MirrorOpen(r) PROVE RegistryType'
    BY <1>5, Named, Zenon DEF MirrorOpen, StartRead, End, Release, Grant, CanRead, Key, HKey,
       DaemonInv, TypeOK, RegistryType, Aliases, NoAliases, Actors
  <1>6. ASSUME Served(r) PROVE RegistryType'
    BY <1>6, Named, Zenon DEF Served, End, Release, DaemonInv, TypeOK, RegistryType, Aliases,
       NoAliases, Actors
  <1>7. ASSUME RemoveIf(r) PROVE RegistryType'
    <2>1. entries' \in Aliases /\ aliases' \in Aliases /\ UNCHANGED <<file, unsaved>>
      BY <1>7, Named, Zenon DEF RemoveIf, Mutate, DaemonInv, TypeOK, RegistryType, Aliases
    <2>2. (saver' = saver /\ snap' = snap)
          \/ (saver' = saver \cup {r} /\ snap' = [snap EXCEPT ![r] = aliases'])
      BY <1>7, Zenon DEF RemoveIf, Mutate
    <2> QED
      BY <2>1, <2>2, Zenon DEF DaemonInv, TypeOK, RegistryType, Actors
  <1>8. ASSUME SaveAliases(r) PROVE RegistryType'
    BY <1>8, Named, Zenon DEF SaveAliases, Save, End, Release, DaemonInv, TypeOK, RegistryType,
       Aliases, NoAliases, Actors
  <1>9. ASSUME RegisterCheck(r) PROVE RegistryType'
    BY <1>9, Named, Zenon DEF RegisterCheck, End, Release, Step, At, DaemonInv, TypeOK,
       RegistryType, Aliases, NoAliases, Actors
  <1>10. ASSUME RegisterAlias(r) PROVE RegistryType'
    BY <1>10, Named, Zenon DEF RegisterAlias, Step, Key, At, DaemonInv, TypeOK, RegistryType,
       Aliases, NoAliases, Actors
  <1>11. ASSUME Admit(r) PROVE RegistryType'
    BY <1>11, Named, Zenon DEF Admit, Step, End, Release, DaemonInv, TypeOK, RegistryType, Aliases,
       NoAliases, Actors
  <1>12. ASSUME Find(r) PROVE RegistryType'
    BY <1>12, Named, Zenon DEF Find, Step, Key, DaemonInv, TypeOK, RegistryType, Aliases,
       NoAliases, Actors
  <1>13. ASSUME LockFirst(r) PROVE RegistryType'
    BY <1>13, Named, Zenon DEF LockFirst, LockFor, Grant, CanRead, CanWrite, At, HAt, HSrc,
       DaemonInv, TypeOK, RegistryType, Aliases, NoAliases, Actors
  <1>14. ASSUME LockSecond(r) PROVE RegistryType'
    BY <1>14, Named, Zenon DEF LockSecond, LockFor, Grant, CanRead, CanWrite, At, HAt, HSrc,
       DaemonInv, TypeOK, RegistryType, Aliases, NoAliases, Actors
  <1>15. ASSUME Paired(r) PROVE RegistryType'
    BY <1>15, Named, Zenon DEF Paired, Retry, Step, End, Release, Key, At, HAt, HSrc, DaemonInv,
       TypeOK, RegistryType, Aliases, NoAliases, Actors
  <1>16. ASSUME Probe(r) PROVE RegistryType'
    BY <1>16, Named, Zenon DEF Probe, End, Release, Step, DaemonInv, TypeOK, RegistryType, Aliases,
       NoAliases, Actors
  <1>17. ASSUME PeerLock(r) PROVE RegistryType'
    BY <1>17, Named, Zenon DEF PeerLock, CanWrite, Grant, At, HAt, HSrc, DaemonInv, TypeOK,
       RegistryType, Aliases, NoAliases, Actors
  <1>18. ASSUME Publish(r) PROVE RegistryType'
    BY <1>18, Named, Zenon DEF Publish, End, Release, Step, At, HAt, HSrc, DaemonInv, TypeOK,
       RegistryType, Aliases, NoAliases, Actors
  <1>19. ASSUME Published(r) PROVE RegistryType'
    BY <1>19, Named, Zenon DEF Published, End, Release, At, DaemonInv, TypeOK, RegistryType,
       Aliases, NoAliases, Actors
  <1>20. ASSUME Upload(r) PROVE RegistryType'
    BY <1>20, Named, Zenon DEF Upload, Step, End, Release, DaemonInv, TypeOK, RegistryType,
       Aliases, NoAliases, Actors
  <1>21. ASSUME BeginSweep(r) PROVE RegistryType'
    BY <1>21, Named, Zenon DEF BeginSweep, Grant, Key, HKey, DaemonInv, TypeOK, RegistryType,
       Aliases, NoAliases, Actors
  <1>22. ASSUME TakeSweep(r) PROVE RegistryType'
    BY <1>22, Named, Zenon DEF TakeSweep, Grant, Key, HKey, DaemonInv, TypeOK, RegistryType,
       Aliases, NoAliases, Actors
  <1>23. ASSUME RemoveBegins(r) PROVE RegistryType'
    BY <1>23, Named, Zenon DEF RemoveBegins, Step, Key, DaemonInv, TypeOK, RegistryType, Aliases,
       NoAliases, Actors
  <1>24. ASSUME RemoveEnds(r) PROVE RegistryType'
    BY <1>24, Named, Zenon DEF RemoveEnds, Step, End, Release, Key, HKey, DaemonInv, TypeOK,
       RegistryType, Aliases, NoAliases, Actors
  <1>25. ASSUME Rename(r) PROVE RegistryType'
    BY <1>25, Named, Zenon DEF Rename, Release, Key, HKey, DaemonInv, TypeOK, RegistryType,
       Aliases, NoAliases, Actors
  <1>26. ASSUME Register(r) PROVE RegistryType'
    BY <1>26, Named, Zenon DEF Register, End, Release, Key, DaemonInv, TypeOK, RegistryType,
       Aliases, NoAliases, Actors
  <1>27. ASSUME GiveUp(r) PROVE RegistryType'
    BY <1>27, Named, Zenon DEF GiveUp, End, Release, HAt, DaemonInv, TypeOK, RegistryType, Aliases,
       NoAliases, Actors
  <1>28. ASSUME LeftTorn(r) PROVE RegistryType'
    BY <1>28, Named, Zenon DEF LeftTorn, Fault, End, Release, DaemonInv, TypeOK, RegistryType,
       Aliases, NoAliases, Actors
  <1> QED
    BY <1>1, <1>2, <1>3, <1>4, <1>5, <1>6, <1>7, <1>8, <1>9, <1>10, <1>11, <1>12, <1>13,
       <1>14, <1>15, <1>16, <1>17, <1>18, <1>19, <1>20, <1>21, <1>22, <1>23, <1>24, <1>25,
       <1>26, <1>27, <1>28, Zenon DEF RequestStep, RequestNext, ReadNext, RegistryNext,
       ResolveNext, WriteNext

(* So does the sweeper.                                                   *)
LEMMA SweepRegistryTyped ==
  ASSUME DaemonInv, SweepStep PROVE RegistryType'
  <1>1. ASSUME Sweep PROVE RegistryType'
    BY <1>1, Zenon DEF Sweep, DaemonInv, TypeOK, SweeperType, RegistryType, Aliases, NoAliases,
       Actors
  <1>2. ASSUME NEW h \in Handles, SweepPick(h) PROVE RegistryType'
    BY <1>2, Zenon DEF SweepPick, Grant, DaemonInv, TypeOK, SweeperType, RegistryType, Aliases,
       NoAliases, Actors
  <1>3. ASSUME SweepTake PROVE RegistryType'
    BY <1>3, Zenon DEF SweepTake, Grant, DaemonInv, TypeOK, SweeperType, RegistryType, Aliases,
       NoAliases, Actors
  <1>4. ASSUME SweepStat PROVE RegistryType'
    BY <1>4, Zenon DEF SweepStat, SweepNextHandle, Release, Removing, DaemonInv, TypeOK,
       SweeperType, RegistryType, Aliases, NoAliases, Actors
  <1>5. ASSUME SweepRemoved PROVE RegistryType'
    BY <1>5, Zenon DEF SweepRemoved, DaemonInv, TypeOK, SweeperType, RegistryType, Aliases,
       NoAliases, Actors
  <1>6. ASSUME RemoveByPath PROVE RegistryType'
    <2>1. entries' \in Aliases /\ aliases' \in Aliases /\ UNCHANGED <<file, unsaved>>
      BY <1>6, Zenon DEF RemoveByPath, Mutate, DaemonInv, TypeOK, RegistryType, Aliases
    <2>2. \/ saver' = saver /\ snap' = snap
          \/ saver' = saver \cup {Sweeper} /\ snap' = [snap EXCEPT ![Sweeper] = aliases']
      BY <1>6, Zenon DEF RemoveByPath, Mutate
    <2> QED
      BY <2>1, <2>2, Zenon DEF DaemonInv, TypeOK, RegistryType, Actors
  <1>7. ASSUME SweepSave PROVE RegistryType'
    BY <1>7, Zenon DEF SweepSave, Save, SweepNextHandle, Release, DaemonInv, TypeOK, SweeperType,
       RegistryType, Aliases, NoAliases, Actors
  <1>8. ASSUME SweepFails PROVE RegistryType'
    BY <1>8, Zenon DEF SweepFails, Fault, SweepNextHandle, Release, DaemonInv, TypeOK, SweeperType,
       RegistryType, Aliases, NoAliases, Actors
  <1> QED
    BY <1>1, <1>2, <1>3, <1>4, <1>5, <1>6, <1>7, <1>8, Zenon DEF SweepStep, SweeperNext

(* A request keeps the types of the requests.                             *)
LEMMA RequestRequestTyped ==
  ASSUME DaemonInv, NEW r \in Requests, RequestStep(r) PROVE RequestType'
  <1>1. ASSUME Arrive(r) PROVE RequestType'
    <2>1. op[r].kind \in Kinds
      BY Named, Zenon DEF DaemonInv, Ops
    <2> QED
      BY <1>1, <2>1, Zenon DEF Arrive, DaemonInv, TypeOK, RequestType, Kinds
  <1>2. ASSUME GetOpen(r) PROVE RequestType'
    BY <1>2, Named, BoundAssumption, Zenon DEF GetOpen, StartRead, Step, Grant, CanRead, Key, HKey,
       DaemonInv, TypeOK, RequestType, RegistryType, Aliases, Kinds
  <1>3. ASSUME GetLookup(r) PROVE RequestType'
    BY <1>3, Named, BoundAssumption, Zenon DEF GetLookup, End, Release, Step, Key, HKey, DaemonInv,
       TypeOK, RequestType, RegistryType, Aliases, Kinds
  <1>4. ASSUME GetReopen(r) PROVE RequestType'
    <2>1. CASE Retry(r, "lookup")
      BY <2>1 DEF Retry, DaemonInv, TypeOK, RequestType
    <2>2. CASE StartRead(r, src[r])
      BY <2>2, Named, Zenon DEF StartRead, DaemonInv, TypeOK, RequestType
    <2>3. CASE pc' = [pc EXCEPT ![r] = "drop"] /\ UNCHANGED local
      BY <2>3, Zenon DEF DaemonInv, TypeOK, RequestType
    <2> QED
      BY <1>4, <2>1, <2>2, <2>3, Zenon DEF GetReopen
  <1>5. ASSUME MirrorOpen(r) PROVE RequestType'
    BY <1>5, Named, BoundAssumption, Zenon DEF MirrorOpen, StartRead, End, Release, Grant, CanRead,
       Key, HKey, DaemonInv, TypeOK, RequestType, RegistryType, Aliases, Kinds
  <1>6. ASSUME Served(r) PROVE RequestType'
    BY <1>6, Named, BoundAssumption, Zenon DEF Served, End, Release, DaemonInv, TypeOK,
       RequestType, RegistryType, Aliases, Kinds
  <1>7. ASSUME RemoveIf(r) PROVE RequestType'
    BY <1>7, Named, BoundAssumption, Zenon DEF RemoveIf, Mutate, Step, End, Release, Key,
       DaemonInv, TypeOK, RequestType, RegistryType, Aliases, Kinds
  <1>8. ASSUME SaveAliases(r) PROVE RequestType'
    BY <1>8, Named, BoundAssumption, Zenon DEF SaveAliases, Save, End, Release, DaemonInv, TypeOK,
       RequestType, RegistryType, Aliases, Kinds
  <1>9. ASSUME RegisterCheck(r) PROVE RequestType'
    BY <1>9, Named, BoundAssumption, Zenon DEF RegisterCheck, End, Release, Step, At, DaemonInv,
       TypeOK, RequestType, RegistryType, Aliases, Kinds
  <1>10. ASSUME RegisterAlias(r) PROVE RequestType'
    BY <1>10, Named, BoundAssumption, Zenon DEF RegisterAlias, Step, Key, At, DaemonInv, TypeOK,
       RequestType, RegistryType, Aliases, Kinds
  <1>11. ASSUME Admit(r) PROVE RequestType'
    BY <1>11, Named, BoundAssumption, Zenon DEF Admit, Step, End, Release, DaemonInv, TypeOK,
       RequestType, RegistryType, Aliases, Kinds
  <1>12. ASSUME Find(r) PROVE RequestType'
    BY <1>12, Named, BoundAssumption, Zenon DEF Find, Step, Key, DaemonInv, TypeOK, RequestType,
       RegistryType, Aliases, Kinds
  <1>13. ASSUME LockFirst(r) PROVE RequestType'
    BY <1>13, Named, BoundAssumption, Zenon DEF LockFirst, LockFor, Grant, CanRead, CanWrite, At,
       HAt, HSrc, DaemonInv, TypeOK, RequestType, RegistryType, Aliases, Kinds
  <1>14. ASSUME LockSecond(r) PROVE RequestType'
    BY <1>14, Named, BoundAssumption, Zenon DEF LockSecond, LockFor, Grant, CanRead, CanWrite, At,
       HAt, HSrc, DaemonInv, TypeOK, RequestType, RegistryType, Aliases, Kinds
  <1>15. ASSUME Paired(r) PROVE RequestType'
    <2>1. CASE Retry(r, "find")
      <3>1. /\ op' = op /\ src' = src /\ registered' = registered
            /\ tries' = [tries EXCEPT ![r] = @ + 1]
            /\ pc' = [pc EXCEPT ![r] = "done"] \/ pc' = [pc EXCEPT ![r] = "find"]
        BY <2>1, Zenon DEF Retry
      <3> QED
        BY <3>1 DEF DaemonInv, TypeOK, RequestType
    <2>2. CASE UNCHANGED local /\ \E at \in {"drop", "probe", "done", "copy"} :
                                     pc' = [pc EXCEPT ![r] = at]
      BY <2>2, Zenon DEF DaemonInv, TypeOK, RequestType
    <2> QED
      BY <1>15, <2>1, <2>2, Zenon DEF Paired, Step, End
  <1>16. ASSUME Probe(r) PROVE RequestType'
    BY <1>16, Named, BoundAssumption, Zenon DEF Probe, End, Release, Step, DaemonInv, TypeOK,
       RequestType, RegistryType, Aliases, Kinds
  <1>17. ASSUME PeerLock(r) PROVE RequestType'
    BY <1>17, Named, BoundAssumption, Zenon DEF PeerLock, CanWrite, Grant, At, HAt, HSrc,
       DaemonInv, TypeOK, RequestType, RegistryType, Aliases, Kinds
  <1>18. ASSUME Publish(r) PROVE RequestType'
    BY <1>18, Named, BoundAssumption, Zenon DEF Publish, End, Release, Step, At, HAt, HSrc,
       DaemonInv, TypeOK, RequestType, RegistryType, Aliases, Kinds
  <1>19. ASSUME Published(r) PROVE RequestType'
    BY <1>19, Named, BoundAssumption, Zenon DEF Published, End, Release, At, DaemonInv, TypeOK,
       RequestType, RegistryType, Aliases, Kinds
  <1>20. ASSUME Upload(r) PROVE RequestType'
    BY <1>20, Named, BoundAssumption, Zenon DEF Upload, Step, End, Release, DaemonInv, TypeOK,
       RequestType, RegistryType, Aliases, Kinds
  <1>21. ASSUME BeginSweep(r) PROVE RequestType'
    BY <1>21, Named, BoundAssumption, Zenon DEF BeginSweep, Grant, Key, HKey, DaemonInv, TypeOK,
       RequestType, RegistryType, Aliases, Kinds
  <1>22. ASSUME TakeSweep(r) PROVE RequestType'
    BY <1>22, Named, BoundAssumption, Zenon DEF TakeSweep, Grant, Key, HKey, DaemonInv, TypeOK,
       RequestType, RegistryType, Aliases, Kinds
  <1>23. ASSUME RemoveBegins(r) PROVE RequestType'
    BY <1>23, Named, BoundAssumption, Zenon DEF RemoveBegins, Step, Key, DaemonInv, TypeOK,
       RequestType, RegistryType, Aliases, Kinds
  <1>24. ASSUME RemoveEnds(r) PROVE RequestType'
    BY <1>24, Named, BoundAssumption, Zenon DEF RemoveEnds, Step, End, Release, Key, HKey,
       DaemonInv, TypeOK, RequestType, RegistryType, Aliases, Kinds
  <1>25. ASSUME Rename(r) PROVE RequestType'
    BY <1>25, Named, BoundAssumption, Zenon DEF Rename, Release, Key, HKey, DaemonInv, TypeOK,
       RequestType, RegistryType, Aliases, Kinds
  <1>26. ASSUME Register(r) PROVE RequestType'
    BY <1>26, Named, BoundAssumption, Zenon DEF Register, End, Release, Key, DaemonInv, TypeOK,
       RequestType, RegistryType, Aliases, Kinds
  <1>27. ASSUME GiveUp(r) PROVE RequestType'
    BY <1>27, Named, BoundAssumption, Zenon DEF GiveUp, End, Release, HAt, DaemonInv, TypeOK,
       RequestType, RegistryType, Aliases, Kinds
  <1>28. ASSUME LeftTorn(r) PROVE RequestType'
    BY <1>28, Named, BoundAssumption, Zenon DEF LeftTorn, Fault, End, Release, DaemonInv, TypeOK,
       RequestType, RegistryType, Aliases, Kinds
  <1> QED
    BY <1>1, <1>2, <1>3, <1>4, <1>5, <1>6, <1>7, <1>8, <1>9, <1>10, <1>11, <1>12, <1>13,
       <1>14, <1>15, <1>16, <1>17, <1>18, <1>19, <1>20, <1>21, <1>22, <1>23, <1>24, <1>25,
       <1>26, <1>27, <1>28, Zenon DEF RequestStep, RequestNext, ReadNext, RegistryNext,
       ResolveNext, WriteNext

(* So does the sweeper.                                                   *)
LEMMA SweepRequestTyped ==
  ASSUME DaemonInv, SweepStep PROVE RequestType'
  <1>1. ASSUME Sweep PROVE RequestType'
    BY <1>1, Zenon DEF Sweep, DaemonInv, TypeOK, SweeperType, RegistryType, Aliases, NoAliases,
       Actors, RequestType, Kinds
  <1>2. ASSUME NEW h \in Handles, SweepPick(h) PROVE RequestType'
    BY <1>2, Zenon DEF SweepPick, Grant, DaemonInv, TypeOK, SweeperType, RegistryType, Aliases,
       NoAliases, Actors, RequestType, Kinds
  <1>3. ASSUME SweepTake PROVE RequestType'
    BY <1>3, Zenon DEF SweepTake, Grant, DaemonInv, TypeOK, SweeperType, RegistryType, Aliases,
       NoAliases, Actors, RequestType, Kinds
  <1>4. ASSUME SweepStat PROVE RequestType'
    BY <1>4, Zenon DEF SweepStat, SweepNextHandle, Release, Removing, DaemonInv, TypeOK,
       SweeperType, RegistryType, Aliases, NoAliases, Actors, RequestType, Kinds
  <1>5. ASSUME SweepRemoved PROVE RequestType'
    BY <1>5, Zenon DEF SweepRemoved, DaemonInv, TypeOK, SweeperType, RegistryType, Aliases,
       NoAliases, Actors, RequestType, Kinds
  <1>6. ASSUME RemoveByPath PROVE RequestType'
    BY <1>6, Zenon DEF RemoveByPath, Mutate, SweepNextHandle, Release, DaemonInv, TypeOK,
       SweeperType, RegistryType, Aliases, NoAliases, Actors, RequestType, Kinds
  <1>7. ASSUME SweepSave PROVE RequestType'
    BY <1>7, Zenon DEF SweepSave, Save, SweepNextHandle, Release, DaemonInv, TypeOK, SweeperType,
       RegistryType, Aliases, NoAliases, Actors, RequestType, Kinds
  <1>8. ASSUME SweepFails PROVE RequestType'
    BY <1>8, Zenon DEF SweepFails, Fault, SweepNextHandle, Release, DaemonInv, TypeOK, SweeperType,
       RegistryType, Aliases, NoAliases, Actors, RequestType, Kinds
  <1> QED
    BY <1>1, <1>2, <1>3, <1>4, <1>5, <1>6, <1>7, <1>8, Zenon DEF SweepStep, SweeperNext

(* A request keeps the types of the sweeper and the bounds.               *)
LEMMA RequestSweeperTyped ==
  ASSUME DaemonInv, NEW r \in Requests, RequestStep(r) PROVE SweeperType'
  <1>1. ASSUME Arrive(r) PROVE SweeperType'
    BY <1>1, BoundAssumption, Zenon DEF Arrive, DaemonInv, TypeOK, SweeperType
  <1>2. ASSUME GetOpen(r) PROVE SweeperType'
    BY <1>2, BoundAssumption, Zenon DEF GetOpen, StartRead, Step, Grant, CanRead, Key, HKey,
       DaemonInv, TypeOK, SweeperType
  <1>3. ASSUME GetLookup(r) PROVE SweeperType'
    BY <1>3, BoundAssumption, Zenon DEF GetLookup, End, Release, Step, Key, HKey, DaemonInv,
       TypeOK, SweeperType
  <1>4. ASSUME GetReopen(r) PROVE SweeperType'
    BY <1>4, BoundAssumption, Zenon DEF GetReopen, Retry, StartRead, Release, Grant, CanRead, HSrc,
       Key, HKey, DaemonInv, TypeOK, SweeperType
  <1>5. ASSUME MirrorOpen(r) PROVE SweeperType'
    BY <1>5, BoundAssumption, Zenon DEF MirrorOpen, StartRead, End, Release, Grant, CanRead, Key,
       HKey, DaemonInv, TypeOK, SweeperType
  <1>6. ASSUME Served(r) PROVE SweeperType'
    BY <1>6, BoundAssumption, Zenon DEF Served, End, Release, DaemonInv, TypeOK, SweeperType
  <1>7. ASSUME RemoveIf(r) PROVE SweeperType'
    BY <1>7, BoundAssumption, Zenon DEF RemoveIf, Mutate, Step, End, Release, Key, DaemonInv,
       TypeOK, SweeperType
  <1>8. ASSUME SaveAliases(r) PROVE SweeperType'
    BY <1>8, BoundAssumption, Zenon DEF SaveAliases, Save, End, Release, DaemonInv, TypeOK,
       SweeperType
  <1>9. ASSUME RegisterCheck(r) PROVE SweeperType'
    BY <1>9, BoundAssumption, Zenon DEF RegisterCheck, End, Release, Step, At, DaemonInv, TypeOK,
       SweeperType
  <1>10. ASSUME RegisterAlias(r) PROVE SweeperType'
    BY <1>10, BoundAssumption, Zenon DEF RegisterAlias, Step, Key, At, DaemonInv, TypeOK,
       SweeperType
  <1>11. ASSUME Admit(r) PROVE SweeperType'
    BY <1>11, BoundAssumption, Zenon DEF Admit, Step, End, Release, DaemonInv, TypeOK, SweeperType
  <1>12. ASSUME Find(r) PROVE SweeperType'
    BY <1>12, BoundAssumption, Zenon DEF Find, Step, Key, DaemonInv, TypeOK, SweeperType
  <1>13. ASSUME LockFirst(r) PROVE SweeperType'
    BY <1>13, BoundAssumption, Zenon DEF LockFirst, LockFor, Grant, CanRead, CanWrite, At, HAt,
       HSrc, DaemonInv, TypeOK, SweeperType
  <1>14. ASSUME LockSecond(r) PROVE SweeperType'
    BY <1>14, BoundAssumption, Zenon DEF LockSecond, LockFor, Grant, CanRead, CanWrite, At, HAt,
       HSrc, DaemonInv, TypeOK, SweeperType
  <1>15. ASSUME Paired(r) PROVE SweeperType'
    BY <1>15, BoundAssumption, Zenon DEF Paired, Retry, Step, End, Release, Key, At, HAt, HSrc,
       DaemonInv, TypeOK, SweeperType
  <1>16. ASSUME Probe(r) PROVE SweeperType'
    BY <1>16, BoundAssumption, Zenon DEF Probe, End, Release, Step, DaemonInv, TypeOK, SweeperType
  <1>17. ASSUME PeerLock(r) PROVE SweeperType'
    BY <1>17, BoundAssumption, Zenon DEF PeerLock, CanWrite, Grant, At, HAt, HSrc, DaemonInv,
       TypeOK, SweeperType
  <1>18. ASSUME Publish(r) PROVE SweeperType'
    BY <1>18, BoundAssumption, Zenon DEF Publish, End, Release, Step, At, HAt, HSrc, DaemonInv,
       TypeOK, SweeperType
  <1>19. ASSUME Published(r) PROVE SweeperType'
    BY <1>19, BoundAssumption, Zenon DEF Published, End, Release, At, DaemonInv, TypeOK,
       SweeperType
  <1>20. ASSUME Upload(r) PROVE SweeperType'
    BY <1>20, BoundAssumption, Zenon DEF Upload, Step, End, Release, DaemonInv, TypeOK, SweeperType
  <1>21. ASSUME BeginSweep(r) PROVE SweeperType'
    BY <1>21, BoundAssumption, Zenon DEF BeginSweep, Grant, Key, HKey, DaemonInv, TypeOK,
       SweeperType
  <1>22. ASSUME TakeSweep(r) PROVE SweeperType'
    BY <1>22, BoundAssumption, Zenon DEF TakeSweep, Grant, Key, HKey, DaemonInv, TypeOK,
       SweeperType
  <1>23. ASSUME RemoveBegins(r) PROVE SweeperType'
    BY <1>23, BoundAssumption, Zenon DEF RemoveBegins, Step, Key, DaemonInv, TypeOK, SweeperType
  <1>24. ASSUME RemoveEnds(r) PROVE SweeperType'
    BY <1>24, BoundAssumption, Zenon DEF RemoveEnds, Step, End, Release, Key, HKey, DaemonInv,
       TypeOK, SweeperType
  <1>25. ASSUME Rename(r) PROVE SweeperType'
    BY <1>25, BoundAssumption, Zenon DEF Rename, Release, Key, HKey, DaemonInv, TypeOK, SweeperType
  <1>26. ASSUME Register(r) PROVE SweeperType'
    BY <1>26, BoundAssumption, Zenon DEF Register, End, Release, Key, DaemonInv, TypeOK,
       SweeperType
  <1>27. ASSUME GiveUp(r) PROVE SweeperType'
    BY <1>27, BoundAssumption, Zenon DEF GiveUp, End, Release, HAt, DaemonInv, TypeOK, SweeperType
  <1>28. ASSUME LeftTorn(r) PROVE SweeperType'
    BY <1>28, FaultTyped, Zenon DEF LeftTorn, DaemonInv, TypeOK, SweeperType
  <1> QED
    BY <1>1, <1>2, <1>3, <1>4, <1>5, <1>6, <1>7, <1>8, <1>9, <1>10, <1>11, <1>12, <1>13,
       <1>14, <1>15, <1>16, <1>17, <1>18, <1>19, <1>20, <1>21, <1>22, <1>23, <1>24, <1>25,
       <1>26, <1>27, <1>28, Zenon DEF RequestStep, RequestNext, ReadNext, RegistryNext,
       ResolveNext, WriteNext

(* So does the sweeper.                                                   *)
LEMMA SweepSweeperTyped ==
  ASSUME DaemonInv, SweepStep PROVE SweeperType'
  <1>1. ASSUME Sweep PROVE SweeperType'
    BY <1>1, BoundAssumption, Zenon DEF Sweep, DaemonInv, TypeOK, SweeperType, RegistryType,
       Aliases, NoAliases, Actors
  <1>2. ASSUME NEW h \in Handles, SweepPick(h) PROVE SweeperType'
    BY <1>2, BoundAssumption, Zenon DEF SweepPick, Grant, DaemonInv, TypeOK, SweeperType,
       RegistryType, Aliases, NoAliases, Actors
  <1>3. ASSUME SweepTake PROVE SweeperType'
    BY <1>3, BoundAssumption, Zenon DEF SweepTake, Grant, DaemonInv, TypeOK, SweeperType,
       RegistryType, Aliases, NoAliases, Actors
  <1>4. ASSUME SweepStat PROVE SweeperType'
    BY <1>4, BoundAssumption, Zenon DEF SweepStat, SweepNextHandle, Release, Removing, DaemonInv,
       TypeOK, SweeperType, RegistryType, Aliases, NoAliases, Actors
  <1>5. ASSUME SweepRemoved PROVE SweeperType'
    BY <1>5, BoundAssumption, Zenon DEF SweepRemoved, DaemonInv, TypeOK, SweeperType, RegistryType,
       Aliases, NoAliases, Actors
  <1>6. ASSUME RemoveByPath PROVE SweeperType'
    BY <1>6, BoundAssumption, Zenon DEF RemoveByPath, Mutate, SweepNextHandle, Release, DaemonInv,
       TypeOK, SweeperType, RegistryType, Aliases, NoAliases, Actors
  <1>7. ASSUME SweepSave PROVE SweeperType'
    BY <1>7, BoundAssumption, Zenon DEF SweepSave, Save, SweepNextHandle, Release, DaemonInv,
       TypeOK, SweeperType, RegistryType, Aliases, NoAliases, Actors
  <1>8. ASSUME SweepFails PROVE SweeperType'
    BY <1>8, FaultTyped, Zenon DEF SweepFails, SweepNextHandle, DaemonInv, TypeOK, SweeperType
  <1> QED
    BY <1>1, <1>2, <1>3, <1>4, <1>5, <1>6, <1>7, <1>8, Zenon DEF SweepStep, SweeperNext

(* Saved aliases that are restored are aliases. *)
LEMMA ValidTyped ==
  ASSUME NEW f \in Aliases PROVE Valid(f) \in Aliases
  BY Zenon DEF Valid, Aliases, None

(* A request enters a key's own path or its alias.                        *)
LEMMA RequestEntries ==
  ASSUME DaemonInv, NEW r \in Requests, RequestStep(r) PROVE \A k \in Paths : entries'[k] \in {None, k, aliases'[k]}
  <1>1. ASSUME Arrive(r) PROVE \A k \in Paths : entries'[k] \in {None, k, aliases'[k]}
    BY <1>1, Named, Zenon DEF Arrive, DaemonInv, TypeOK, RegistryType, Aliases, DropInv
  <1>2. ASSUME GetOpen(r) PROVE \A k \in Paths : entries'[k] \in {None, k, aliases'[k]}
    BY <1>2, Named, Zenon DEF GetOpen, StartRead, Step, Grant, CanRead, Key, HKey, DaemonInv,
       TypeOK, RegistryType, Aliases, DropInv
  <1>3. ASSUME GetLookup(r) PROVE \A k \in Paths : entries'[k] \in {None, k, aliases'[k]}
    BY <1>3, Named, Zenon DEF GetLookup, End, Release, Step, Key, HKey, DaemonInv, TypeOK,
       RegistryType, Aliases, DropInv
  <1>4. ASSUME GetReopen(r) PROVE \A k \in Paths : entries'[k] \in {None, k, aliases'[k]}
    BY <1>4, Named, Zenon DEF GetReopen, Retry, StartRead, Release, Grant, CanRead, HSrc, Key,
       HKey, DaemonInv, TypeOK, RegistryType, Aliases, DropInv
  <1>5. ASSUME MirrorOpen(r) PROVE \A k \in Paths : entries'[k] \in {None, k, aliases'[k]}
    BY <1>5, Named, Zenon DEF MirrorOpen, StartRead, End, Release, Grant, CanRead, Key, HKey,
       DaemonInv, TypeOK, RegistryType, Aliases, DropInv
  <1>6. ASSUME Served(r) PROVE \A k \in Paths : entries'[k] \in {None, k, aliases'[k]}
    BY <1>6, Named, Zenon DEF Served, End, Release, DaemonInv, TypeOK, RegistryType, Aliases,
       DropInv
  <1>7. ASSUME RemoveIf(r) PROVE \A k \in Paths : entries'[k] \in {None, k, aliases'[k]}
    BY <1>7, Named, Zenon DEF RemoveIf, Mutate, Step, End, Release, Key, DaemonInv, TypeOK,
       RegistryType, Aliases, DropInv
  <1>8. ASSUME SaveAliases(r) PROVE \A k \in Paths : entries'[k] \in {None, k, aliases'[k]}
    BY <1>8, Named, Zenon DEF SaveAliases, Save, End, Release, DaemonInv, TypeOK, RegistryType,
       Aliases, DropInv
  <1>9. ASSUME RegisterCheck(r) PROVE \A k \in Paths : entries'[k] \in {None, k, aliases'[k]}
    BY <1>9, Named, Zenon DEF RegisterCheck, End, Release, Step, At, DaemonInv, TypeOK,
       RegistryType, Aliases, DropInv
  <1>10. ASSUME RegisterAlias(r) PROVE \A k \in Paths : entries'[k] \in {None, k, aliases'[k]}
    BY <1>10, Named, Zenon DEF RegisterAlias, Step, Key, At, DaemonInv, TypeOK, RegistryType,
       Aliases, DropInv
  <1>11. ASSUME Admit(r) PROVE \A k \in Paths : entries'[k] \in {None, k, aliases'[k]}
    BY <1>11, Named, Zenon DEF Admit, Step, End, Release, DaemonInv, TypeOK, RegistryType, Aliases,
       DropInv
  <1>12. ASSUME Find(r) PROVE \A k \in Paths : entries'[k] \in {None, k, aliases'[k]}
    BY <1>12, Zenon DEF Find, DaemonInv, DropInv
  <1>13. ASSUME LockFirst(r) PROVE \A k \in Paths : entries'[k] \in {None, k, aliases'[k]}
    BY <1>13, Named, Zenon DEF LockFirst, LockFor, Grant, CanRead, CanWrite, At, HAt, HSrc,
       DaemonInv, TypeOK, RegistryType, Aliases, DropInv
  <1>14. ASSUME LockSecond(r) PROVE \A k \in Paths : entries'[k] \in {None, k, aliases'[k]}
    BY <1>14, Named, Zenon DEF LockSecond, LockFor, Grant, CanRead, CanWrite, At, HAt, HSrc,
       DaemonInv, TypeOK, RegistryType, Aliases, DropInv
  <1>15. ASSUME Paired(r) PROVE \A k \in Paths : entries'[k] \in {None, k, aliases'[k]}
    <2>1. CASE UNCHANGED <<entries, aliases>>
      BY <2>1, Zenon DEF DaemonInv, DropInv
    <2>2. CASE /\ Unchanged(r) /\ entries' = [entries EXCEPT ![Key(r)] = src[r]]
               /\ UNCHANGED aliases
      <3>1. CASE registered[r]
        BY <2>2, <3>1, Named, Zenon DEF Unchanged, DaemonInv, TypeOK, RegistryType, Aliases, DropInv
      <3>2. CASE ~registered[r]
        <4>1. src[r] = Key(r)
          BY <1>15, <3>2, Zenon DEF Paired, DaemonInv, DropInv, Found
        <4> QED
          BY <2>2, <4>1, Named, Zenon DEF DaemonInv, TypeOK, RegistryType, Aliases, DropInv
      <3> QED
        BY <3>1, <3>2, Zenon
    <2> QED
      BY <1>15, <2>1, <2>2, Zenon DEF Paired, Retry
  <1>16. ASSUME Probe(r) PROVE \A k \in Paths : entries'[k] \in {None, k, aliases'[k]}
    BY <1>16, Named, Zenon DEF Probe, End, Release, Step, DaemonInv, TypeOK, RegistryType, Aliases,
       DropInv
  <1>17. ASSUME PeerLock(r) PROVE \A k \in Paths : entries'[k] \in {None, k, aliases'[k]}
    BY <1>17, Named, Zenon DEF PeerLock, CanWrite, Grant, At, HAt, HSrc, DaemonInv, TypeOK,
       RegistryType, Aliases, DropInv
  <1>18. ASSUME Publish(r) PROVE \A k \in Paths : entries'[k] \in {None, k, aliases'[k]}
    BY <1>18, Named, Zenon DEF Publish, End, Release, Step, At, HAt, HSrc, DaemonInv, TypeOK,
       RegistryType, Aliases, DropInv
  <1>19. ASSUME Published(r) PROVE \A k \in Paths : entries'[k] \in {None, k, aliases'[k]}
    BY <1>19, Named, Zenon DEF Published, End, Release, At, DaemonInv, TypeOK, RegistryType,
       Aliases, DropInv
  <1>20. ASSUME Upload(r) PROVE \A k \in Paths : entries'[k] \in {None, k, aliases'[k]}
    BY <1>20, Named, Zenon DEF Upload, Step, End, Release, DaemonInv, TypeOK, RegistryType,
       Aliases, DropInv
  <1>21. ASSUME BeginSweep(r) PROVE \A k \in Paths : entries'[k] \in {None, k, aliases'[k]}
    BY <1>21, Named, Zenon DEF BeginSweep, Grant, Key, HKey, DaemonInv, TypeOK, RegistryType,
       Aliases, DropInv
  <1>22. ASSUME TakeSweep(r) PROVE \A k \in Paths : entries'[k] \in {None, k, aliases'[k]}
    BY <1>22, Named, Zenon DEF TakeSweep, Grant, Key, HKey, DaemonInv, TypeOK, RegistryType,
       Aliases, DropInv
  <1>23. ASSUME RemoveBegins(r) PROVE \A k \in Paths : entries'[k] \in {None, k, aliases'[k]}
    BY <1>23, Named, Zenon DEF RemoveBegins, Step, Key, DaemonInv, TypeOK, RegistryType, Aliases,
       DropInv
  <1>24. ASSUME RemoveEnds(r) PROVE \A k \in Paths : entries'[k] \in {None, k, aliases'[k]}
    BY <1>24, Named, Zenon DEF RemoveEnds, Step, End, Release, Key, HKey, DaemonInv, TypeOK,
       RegistryType, Aliases, DropInv
  <1>25. ASSUME Rename(r) PROVE \A k \in Paths : entries'[k] \in {None, k, aliases'[k]}
    BY <1>25, Named, Zenon DEF Rename, Release, Key, HKey, DaemonInv, TypeOK, RegistryType,
       Aliases, DropInv
  <1>26. ASSUME Register(r) PROVE \A k \in Paths : entries'[k] \in {None, k, aliases'[k]}
    BY <1>26, Named, Zenon DEF Register, End, Release, Key, DaemonInv, TypeOK, RegistryType,
       Aliases, DropInv
  <1>27. ASSUME GiveUp(r) PROVE \A k \in Paths : entries'[k] \in {None, k, aliases'[k]}
    BY <1>27, Named, Zenon DEF GiveUp, End, Release, HAt, DaemonInv, TypeOK, RegistryType, Aliases,
       DropInv
  <1>28. ASSUME LeftTorn(r) PROVE \A k \in Paths : entries'[k] \in {None, k, aliases'[k]}
    BY <1>28, Named, Zenon DEF LeftTorn, Fault, End, Release, DaemonInv, TypeOK, RegistryType,
       Aliases, DropInv
  <1> QED
    BY <1>1, <1>2, <1>3, <1>4, <1>5, <1>6, <1>7, <1>8, <1>9, <1>10, <1>11, <1>12, <1>13,
       <1>14, <1>15, <1>16, <1>17, <1>18, <1>19, <1>20, <1>21, <1>22, <1>23, <1>24, <1>25,
       <1>26, <1>27, <1>28, Zenon DEF RequestStep, RequestNext, ReadNext, RegistryNext,
       ResolveNext, WriteNext

(* The sweeper removes entry and alias together.                          *)
LEMMA SweepEntries ==
  ASSUME DaemonInv, SweepStep PROVE \A k \in Paths : entries'[k] \in {None, k, aliases'[k]}
  <1>1. ASSUME Sweep PROVE \A k \in Paths : entries'[k] \in {None, k, aliases'[k]}
    BY <1>1, Zenon DEF Sweep, DaemonInv, TypeOK, RegistryType, Aliases, DropInv
  <1>2. ASSUME NEW h \in Handles, SweepPick(h) PROVE \A k \in Paths : entries'[k] \in {None, k, aliases'[k]}
    BY <1>2, Zenon DEF SweepPick, Grant, DaemonInv, TypeOK, RegistryType, Aliases, DropInv
  <1>3. ASSUME SweepTake PROVE \A k \in Paths : entries'[k] \in {None, k, aliases'[k]}
    BY <1>3, Zenon DEF SweepTake, Grant, DaemonInv, TypeOK, RegistryType, Aliases, DropInv
  <1>4. ASSUME SweepStat PROVE \A k \in Paths : entries'[k] \in {None, k, aliases'[k]}
    BY <1>4, Zenon DEF SweepStat, SweepNextHandle, Release, Removing, DaemonInv, TypeOK,
       RegistryType, Aliases, DropInv
  <1>5. ASSUME SweepRemoved PROVE \A k \in Paths : entries'[k] \in {None, k, aliases'[k]}
    BY <1>5, Zenon DEF SweepRemoved, DaemonInv, TypeOK, RegistryType, Aliases, DropInv
  <1>6. ASSUME RemoveByPath PROVE \A k \in Paths : entries'[k] \in {None, k, aliases'[k]}
    BY <1>6, Zenon DEF RemoveByPath, Mutate, SweepNextHandle, Release, DaemonInv, TypeOK,
       RegistryType, Aliases, DropInv
  <1>7. ASSUME SweepSave PROVE \A k \in Paths : entries'[k] \in {None, k, aliases'[k]}
    BY <1>7, Zenon DEF SweepSave, Save, SweepNextHandle, Release, DaemonInv, TypeOK, RegistryType,
       Aliases, DropInv
  <1>8. ASSUME SweepFails PROVE \A k \in Paths : entries'[k] \in {None, k, aliases'[k]}
    BY <1>8, Zenon DEF SweepFails, Fault, SweepNextHandle, Release, DaemonInv, TypeOK,
       RegistryType, Aliases, DropInv
  <1> QED
    BY <1>1, <1>2, <1>3, <1>4, <1>5, <1>6, <1>7, <1>8, Zenon DEF SweepStep, SweeperNext

(* A step that has nothing to do with the saving of aliases.              *)
Idle(r) ==
  /\ pc[r] # "save" /\ pc'[r] # "save"
  /\ UNCHANGED <<aliases, file, saver, snap, unsaved>>

(* Most steps of a request are of that sort.                              *)
LEMMA RequestIdle ==
  ASSUME DaemonInv, NEW r \in Requests, RequestStep(r) PROVE Idle(r) \/ RemoveIf(r) \/ SaveAliases(r) \/ RegisterAlias(r)
  <1>1. ASSUME Arrive(r) PROVE Idle(r) \/ RemoveIf(r) \/ SaveAliases(r) \/ RegisterAlias(r)
    <2>1. pc'[r] \in Kinds
      BY <1>1, Named, Zenon DEF Arrive, DaemonInv, TypeOK, RequestType, Ops
    <2> QED
      BY <1>1, <2>1, Zenon DEF Arrive, Idle, Kinds
  <1>2. ASSUME GetOpen(r) PROVE Idle(r) \/ RemoveIf(r) \/ SaveAliases(r) \/ RegisterAlias(r)
    BY <1>2, Named, Zenon DEF GetOpen, StartRead, Step, Grant, CanRead, Key, HKey, Idle, DaemonInv,
       TypeOK, RequestType
  <1>3. ASSUME GetLookup(r) PROVE Idle(r) \/ RemoveIf(r) \/ SaveAliases(r) \/ RegisterAlias(r)
    BY <1>3, Named, Zenon DEF GetLookup, End, Release, Step, Key, HKey, Idle, DaemonInv, TypeOK,
       RequestType
  <1>4. ASSUME GetReopen(r) PROVE Idle(r) \/ RemoveIf(r) \/ SaveAliases(r) \/ RegisterAlias(r)
    BY <1>4, Named, Zenon DEF GetReopen, Retry, StartRead, Release, Grant, CanRead, HSrc, Key,
       HKey, Idle, DaemonInv, TypeOK, RequestType
  <1>5. ASSUME MirrorOpen(r) PROVE Idle(r) \/ RemoveIf(r) \/ SaveAliases(r) \/ RegisterAlias(r)
    BY <1>5, Named, Zenon DEF MirrorOpen, StartRead, End, Release, Grant, CanRead, Key, HKey, Idle,
       DaemonInv, TypeOK, RequestType
  <1>6. ASSUME Served(r) PROVE Idle(r) \/ RemoveIf(r) \/ SaveAliases(r) \/ RegisterAlias(r)
    BY <1>6, Named, Zenon DEF Served, End, Release, Idle, DaemonInv, TypeOK, RequestType
  <1>7. ASSUME RemoveIf(r) PROVE Idle(r) \/ RemoveIf(r) \/ SaveAliases(r) \/ RegisterAlias(r)
    BY <1>7, Zenon
  <1>8. ASSUME SaveAliases(r) PROVE Idle(r) \/ RemoveIf(r) \/ SaveAliases(r) \/ RegisterAlias(r)
    BY <1>8, Zenon
  <1>9. ASSUME RegisterCheck(r) PROVE Idle(r) \/ RemoveIf(r) \/ SaveAliases(r) \/ RegisterAlias(r)
    BY <1>9, Named, Zenon DEF RegisterCheck, End, Release, Step, At, Idle, DaemonInv, TypeOK,
       RequestType
  <1>10. ASSUME RegisterAlias(r) PROVE Idle(r) \/ RemoveIf(r) \/ SaveAliases(r) \/ RegisterAlias(r)
    BY <1>10, Zenon
  <1>11. ASSUME Admit(r) PROVE Idle(r) \/ RemoveIf(r) \/ SaveAliases(r) \/ RegisterAlias(r)
    BY <1>11, Named, Zenon DEF Admit, Step, End, Release, Idle, DaemonInv, TypeOK, RequestType
  <1>12. ASSUME Find(r) PROVE Idle(r) \/ RemoveIf(r) \/ SaveAliases(r) \/ RegisterAlias(r)
    BY <1>12, Named, Zenon DEF Find, Step, Key, Idle, DaemonInv, TypeOK, RequestType
  <1>13. ASSUME LockFirst(r) PROVE Idle(r) \/ RemoveIf(r) \/ SaveAliases(r) \/ RegisterAlias(r)
    BY <1>13, Named, Zenon DEF LockFirst, LockFor, Grant, CanRead, CanWrite, At, HAt, HSrc, Idle,
       DaemonInv, TypeOK, RequestType
  <1>14. ASSUME LockSecond(r) PROVE Idle(r) \/ RemoveIf(r) \/ SaveAliases(r) \/ RegisterAlias(r)
    BY <1>14, Named, Zenon DEF LockSecond, LockFor, Grant, CanRead, CanWrite, At, HAt, HSrc, Idle,
       DaemonInv, TypeOK, RequestType
  <1>15. ASSUME Paired(r) PROVE Idle(r) \/ RemoveIf(r) \/ SaveAliases(r) \/ RegisterAlias(r)
    <2>1. pc'[r] \in {"done", "find", "drop", "probe", "copy"}
      BY <1>15, Zenon DEF Paired, Retry, Step, End, DaemonInv, TypeOK, RequestType
    <2> QED
      BY <1>15, <2>1, Zenon DEF Paired, Retry, Idle
  <1>16. ASSUME Probe(r) PROVE Idle(r) \/ RemoveIf(r) \/ SaveAliases(r) \/ RegisterAlias(r)
    BY <1>16, Named, Zenon DEF Probe, End, Release, Step, Idle, DaemonInv, TypeOK, RequestType
  <1>17. ASSUME PeerLock(r) PROVE Idle(r) \/ RemoveIf(r) \/ SaveAliases(r) \/ RegisterAlias(r)
    BY <1>17, Named, Zenon DEF PeerLock, CanWrite, Grant, At, HAt, HSrc, Idle, DaemonInv, TypeOK,
       RequestType
  <1>18. ASSUME Publish(r) PROVE Idle(r) \/ RemoveIf(r) \/ SaveAliases(r) \/ RegisterAlias(r)
    BY <1>18, Named, Zenon DEF Publish, End, Release, Step, At, HAt, HSrc, Idle, DaemonInv, TypeOK,
       RequestType
  <1>19. ASSUME Published(r) PROVE Idle(r) \/ RemoveIf(r) \/ SaveAliases(r) \/ RegisterAlias(r)
    BY <1>19, Named, Zenon DEF Published, End, Release, At, Idle, DaemonInv, TypeOK, RequestType
  <1>20. ASSUME Upload(r) PROVE Idle(r) \/ RemoveIf(r) \/ SaveAliases(r) \/ RegisterAlias(r)
    BY <1>20, Named, Zenon DEF Upload, Step, End, Release, Idle, DaemonInv, TypeOK, RequestType
  <1>21. ASSUME BeginSweep(r) PROVE Idle(r) \/ RemoveIf(r) \/ SaveAliases(r) \/ RegisterAlias(r)
    BY <1>21, Named, Zenon DEF BeginSweep, Grant, Key, HKey, Idle, DaemonInv, TypeOK, RequestType
  <1>22. ASSUME TakeSweep(r) PROVE Idle(r) \/ RemoveIf(r) \/ SaveAliases(r) \/ RegisterAlias(r)
    BY <1>22, Named, Zenon DEF TakeSweep, Grant, Key, HKey, Idle, DaemonInv, TypeOK, RequestType
  <1>23. ASSUME RemoveBegins(r) PROVE Idle(r) \/ RemoveIf(r) \/ SaveAliases(r) \/ RegisterAlias(r)
    BY <1>23, Named, Zenon DEF RemoveBegins, Step, Key, Idle, DaemonInv, TypeOK, RequestType
  <1>24. ASSUME RemoveEnds(r) PROVE Idle(r) \/ RemoveIf(r) \/ SaveAliases(r) \/ RegisterAlias(r)
    BY <1>24, Named, Zenon DEF RemoveEnds, Step, End, Release, Key, HKey, Idle, DaemonInv, TypeOK,
       RequestType
  <1>25. ASSUME Rename(r) PROVE Idle(r) \/ RemoveIf(r) \/ SaveAliases(r) \/ RegisterAlias(r)
    BY <1>25, Named, Zenon DEF Rename, Release, Key, HKey, Idle, DaemonInv, TypeOK, RequestType
  <1>26. ASSUME Register(r) PROVE Idle(r) \/ RemoveIf(r) \/ SaveAliases(r) \/ RegisterAlias(r)
    BY <1>26, Named, Zenon DEF Register, End, Release, Key, Idle, DaemonInv, TypeOK, RequestType
  <1>27. ASSUME GiveUp(r) PROVE Idle(r) \/ RemoveIf(r) \/ SaveAliases(r) \/ RegisterAlias(r)
    BY <1>27, Named, Zenon DEF GiveUp, End, Release, HAt, Idle, DaemonInv, TypeOK, RequestType
  <1>28. ASSUME LeftTorn(r) PROVE Idle(r) \/ RemoveIf(r) \/ SaveAliases(r) \/ RegisterAlias(r)
    BY <1>28, Named, Zenon DEF LeftTorn, Fault, End, Release, Idle, DaemonInv, TypeOK, RequestType
  <1> QED
    BY <1>1, <1>2, <1>3, <1>4, <1>5, <1>6, <1>7, <1>8, <1>9, <1>10, <1>11, <1>12, <1>13,
       <1>14, <1>15, <1>16, <1>17, <1>18, <1>19, <1>20, <1>21, <1>22, <1>23, <1>24, <1>25,
       <1>26, <1>27, <1>28, Zenon DEF RequestStep, RequestNext, ReadNext, RegistryNext,
       ResolveNext, WriteNext

-----------------------------------------------------------------------------
(* The guard.                                                              *)

(* What an actor holds of the guard. *)
SameSides(a) ==
  \A h \in Handles : /\ a \in readers'[h] <=> a \in readers[h]
                     /\ a \in writers'[h] <=> a \in writers[h]

(* A request leaves the others where they are, and what they hold. *)
OthersKept(r) ==
  /\ op' = op /\ spc' = spc /\ cur' = cur
  /\ \A q \in Requests \ {r} : pc'[q] = pc[q] /\ src'[q] = src[q]
                                 /\ (registered'[q] <=> registered[q])
  /\ \A a \in Actors \ {r} : SameSides(a)

(* So does the sweeper. *)
RequestsKept ==
  /\ op' = op /\ pc' = pc /\ src' = src /\ registered' = registered
  /\ \A a \in Requests : SameSides(a)

(* Who takes a side of a handle leaves the others what they hold.          *)
LEMMA LockSides ==
  ASSUME TypeOK, NEW r \in Requests, NEW h, LockFor(r, h)
  PROVE  \A a \in Actors \ {r} : SameSides(a)
  BY DEF LockFor, Grant, SameSides, TypeOK, GuardType

(* A request moves only itself and takes and gives back only its own sides*)
(* of the guard.                                                          *)
LEMMA RequestOthers ==
  ASSUME DaemonInv, NEW r \in Requests, RequestStep(r) PROVE OthersKept(r)
  <1>1. ASSUME Arrive(r) PROVE OthersKept(r)
    BY <1>1, Named, Zenon DEF Arrive, DaemonInv, TypeOK, GuardType, RequestType, OthersKept,
       SameSides, Actors
  <1>2. ASSUME GetOpen(r) PROVE OthersKept(r)
    BY <1>2, Named DEF GetOpen, StartRead, Step, Grant, CanRead, Key, HKey, DaemonInv,
       TypeOK, GuardType, RequestType, OthersKept, SameSides, Actors
  <1>3. ASSUME GetLookup(r) PROVE OthersKept(r)
    BY <1>3, Named DEF GetLookup, End, Release, Step, Key, HKey, DaemonInv, TypeOK,
       GuardType, RequestType, OthersKept, SameSides, Actors
  <1>4. ASSUME GetReopen(r) PROVE OthersKept(r)
    BY <1>4, Named DEF GetReopen, Retry, StartRead, Release, Grant, CanRead, HSrc, Key,
       HKey, DaemonInv, TypeOK, GuardType, RequestType, OthersKept, SameSides, Actors
  <1>5. ASSUME MirrorOpen(r) PROVE OthersKept(r)
    BY <1>5, Named DEF MirrorOpen, StartRead, End, Release, Grant, CanRead, Key, HKey,
       DaemonInv, TypeOK, GuardType, RequestType, OthersKept, SameSides, Actors
  <1>6. ASSUME Served(r) PROVE OthersKept(r)
    BY <1>6, Named, Zenon DEF Served, End, Release, DaemonInv, TypeOK, GuardType, RequestType,
       OthersKept, SameSides, Actors
  <1>7. ASSUME RemoveIf(r) PROVE OthersKept(r)
    BY <1>7, Named DEF RemoveIf, Mutate, Step, End, Release, Key, DaemonInv, TypeOK,
       GuardType, RequestType, OthersKept, SameSides, Actors
  <1>8. ASSUME SaveAliases(r) PROVE OthersKept(r)
    BY <1>8, Named, Zenon DEF SaveAliases, Save, End, Release, DaemonInv, TypeOK, GuardType,
       RequestType, OthersKept, SameSides, Actors
  <1>9. ASSUME RegisterCheck(r) PROVE OthersKept(r)
    BY <1>9, Named DEF RegisterCheck, End, Release, Step, At, DaemonInv, TypeOK, GuardType,
       RequestType, OthersKept, SameSides, Actors
  <1>10. ASSUME RegisterAlias(r) PROVE OthersKept(r)
    BY <1>10, Named, Zenon DEF RegisterAlias, Step, Key, At, DaemonInv, TypeOK, GuardType,
       RequestType, OthersKept, SameSides, Actors
  <1>11. ASSUME Admit(r) PROVE OthersKept(r)
    BY <1>11, Named DEF Admit, Step, End, Release, DaemonInv, TypeOK, GuardType,
       RequestType, OthersKept, SameSides, Actors
  <1>12. ASSUME Find(r) PROVE OthersKept(r)
    BY <1>12, Named, Zenon DEF Find, Step, Key, DaemonInv, TypeOK, GuardType, RequestType,
       OthersKept, SameSides, Actors
  <1>13. ASSUME LockFirst(r) PROVE OthersKept(r)
    <2>1. \A a \in Actors \ {r} : SameSides(a)
      BY <1>13, LockSides, Zenon DEF LockFirst, DaemonInv
    <2> QED
      BY <1>13, <2>1, Zenon DEF LockFirst, DaemonInv, TypeOK, RequestType, OthersKept
  <1>14. ASSUME LockSecond(r) PROVE OthersKept(r)
    <2>1. \A a \in Actors \ {r} : SameSides(a)
      BY <1>14, LockSides, Zenon DEF LockSecond, DaemonInv
    <2> QED
      BY <1>14, <2>1, Zenon DEF LockSecond, DaemonInv, TypeOK, RequestType, OthersKept
  <1>15. ASSUME Paired(r) PROVE OthersKept(r)
    BY <1>15, Named DEF Paired, Retry, Step, End, Release, Key, At, HAt, HSrc, DaemonInv,
       TypeOK, GuardType, RequestType, OthersKept, SameSides, Actors
  <1>16. ASSUME Probe(r) PROVE OthersKept(r)
    BY <1>16, Named DEF Probe, End, Release, Step, DaemonInv, TypeOK, GuardType,
       RequestType, OthersKept, SameSides, Actors
  <1>17. ASSUME PeerLock(r) PROVE OthersKept(r)
    BY <1>17, Named, Zenon DEF PeerLock, CanWrite, Grant, At, HAt, HSrc, DaemonInv, TypeOK,
       GuardType, RequestType, OthersKept, SameSides, Actors
  <1>18. ASSUME Publish(r) PROVE OthersKept(r)
    BY <1>18, Named DEF Publish, End, Release, Step, At, HAt, HSrc, DaemonInv, TypeOK,
       GuardType, RequestType, OthersKept, SameSides, Actors
  <1>19. ASSUME Published(r) PROVE OthersKept(r)
    BY <1>19, Named, Zenon DEF Published, End, Release, At, DaemonInv, TypeOK, GuardType,
       RequestType, OthersKept, SameSides, Actors
  <1>20. ASSUME Upload(r) PROVE OthersKept(r)
    BY <1>20, Named DEF Upload, Step, End, Release, DaemonInv, TypeOK, GuardType,
       RequestType, OthersKept, SameSides, Actors
  <1>21. ASSUME BeginSweep(r) PROVE OthersKept(r)
    BY <1>21, Named, Zenon DEF BeginSweep, Grant, Key, HKey, DaemonInv, TypeOK, GuardType,
       RequestType, OthersKept, SameSides, Actors
  <1>22. ASSUME TakeSweep(r) PROVE OthersKept(r)
    BY <1>22, Named, Zenon DEF TakeSweep, Grant, Key, HKey, DaemonInv, TypeOK, GuardType,
       RequestType, OthersKept, SameSides, Actors
  <1>23. ASSUME RemoveBegins(r) PROVE OthersKept(r)
    BY <1>23, Named, Zenon DEF RemoveBegins, Step, Key, DaemonInv, TypeOK, GuardType, RequestType,
       OthersKept, SameSides, Actors
  <1>24. ASSUME RemoveEnds(r) PROVE OthersKept(r)
    BY <1>24, Named DEF RemoveEnds, Step, End, Release, Key, HKey, DaemonInv, TypeOK,
       GuardType, RequestType, OthersKept, SameSides, Actors
  <1>25. ASSUME Rename(r) PROVE OthersKept(r)
    BY <1>25, Named, Zenon DEF Rename, Release, Key, HKey, DaemonInv, TypeOK, GuardType,
       RequestType, OthersKept, SameSides, Actors
  <1>26. ASSUME Register(r) PROVE OthersKept(r)
    BY <1>26, Named, Zenon DEF Register, End, Release, Key, DaemonInv, TypeOK, GuardType,
       RequestType, OthersKept, SameSides, Actors
  <1>27. ASSUME GiveUp(r) PROVE OthersKept(r)
    BY <1>27, Named, Zenon DEF GiveUp, End, Release, HAt, DaemonInv, TypeOK, GuardType,
       RequestType, OthersKept, SameSides, Actors
  <1>28. ASSUME LeftTorn(r) PROVE OthersKept(r)
    BY <1>28, Named, Zenon DEF LeftTorn, Fault, End, Release, DaemonInv, TypeOK, GuardType,
       RequestType, OthersKept, SameSides, Actors
  <1> QED
    BY <1>1, <1>2, <1>3, <1>4, <1>5, <1>6, <1>7, <1>8, <1>9, <1>10, <1>11, <1>12, <1>13,
       <1>14, <1>15, <1>16, <1>17, <1>18, <1>19, <1>20, <1>21, <1>22, <1>23, <1>24, <1>25,
       <1>26, <1>27, <1>28, Zenon DEF RequestStep, RequestNext, ReadNext, RegistryNext,
       ResolveNext, WriteNext

(* The sweeper moves no request and takes none of their sides.            *)
LEMMA SweepOthers ==
  ASSUME DaemonInv, SweepStep PROVE RequestsKept
  <1>1. ASSUME Sweep PROVE RequestsKept
    BY <1>1, SweeperAssumption, Zenon DEF Sweep, DaemonInv, TypeOK, GuardType, SweeperType,
       RequestsKept, SameSides, Actors
  <1>2. ASSUME NEW h \in Handles, SweepPick(h) PROVE RequestsKept
    BY <1>2, SweeperAssumption, Zenon DEF SweepPick, Grant, DaemonInv, TypeOK, GuardType,
       SweeperType, RequestsKept, SameSides, Actors
  <1>3. ASSUME SweepTake PROVE RequestsKept
    BY <1>3, SweeperAssumption, Zenon DEF SweepTake, Grant, DaemonInv, TypeOK, GuardType,
       SweeperType, RequestsKept, SameSides, Actors
  <1>4. ASSUME SweepStat PROVE RequestsKept
    BY <1>4, SweeperAssumption DEF SweepStat, SweepNextHandle, Release, Removing, DaemonInv,
       TypeOK, GuardType, SweeperType, RequestsKept, SameSides, Actors
  <1>5. ASSUME SweepRemoved PROVE RequestsKept
    BY <1>5, SweeperAssumption, Zenon DEF SweepRemoved, DaemonInv, TypeOK, GuardType, SweeperType,
       RequestsKept, SameSides, Actors
  <1>6. ASSUME RemoveByPath PROVE RequestsKept
    BY <1>6, SweeperAssumption DEF RemoveByPath, Mutate, SweepNextHandle, Release,
       DaemonInv, TypeOK, GuardType, SweeperType, RequestsKept, SameSides, Actors
  <1>7. ASSUME SweepSave PROVE RequestsKept
    BY <1>7, SweeperAssumption, Zenon DEF SweepSave, Save, SweepNextHandle, Release, DaemonInv,
       TypeOK, GuardType, SweeperType, RequestsKept, SameSides, Actors
  <1>8. ASSUME SweepFails PROVE RequestsKept
    BY <1>8, SweeperAssumption, Zenon DEF SweepFails, Fault, SweepNextHandle, Release, DaemonInv,
       TypeOK, GuardType, SweeperType, RequestsKept, SameSides, Actors
  <1> QED
    BY <1>1, <1>2, <1>3, <1>4, <1>5, <1>6, <1>7, <1>8, Zenon DEF SweepStep, SweeperNext

(* Giving sides back keeps the guard exclusive.                           *)
LEMMA ReleaseExclusive ==
  ASSUME TypeOK, Exclusive, NEW a, Release(a) PROVE Exclusive'
  BY Zenon DEF TypeOK, GuardType, Exclusive, Release

(* So does leaving them alone. *)
LEMMA SameExclusive ==
  ASSUME Exclusive, UNCHANGED guard PROVE Exclusive'
  BY Zenon DEF Exclusive

(* So does taking the shared side, which nobody may hold or await exclusively. *)
LEMMA ReadExclusive ==
  ASSUME TypeOK, Exclusive, NEW h \in Handles, NEW a, CanRead(h),
         readers' = Grant(readers, h, a), UNCHANGED writers
  PROVE Exclusive'
  BY Zenon DEF TypeOK, GuardType, Exclusive, CanRead, Grant

(* And taking the exclusive side, which waits for everybody. *)
LEMMA WriteExclusive ==
  ASSUME TypeOK, Exclusive, NEW h \in Handles, NEW a, CanWrite(h),
         writers' = Grant(writers, h, a), UNCHANGED readers
  PROVE Exclusive'
  BY Zenon DEF TypeOK, GuardType, Exclusive, CanWrite, Grant

(* A resolve takes either. *)
LEMMA LockForExclusive ==
  ASSUME TypeOK, Exclusive, NEW r \in Requests, NEW h \in Handles, LockFor(r, h)
  PROVE Exclusive'
  BY ReadExclusive, WriteExclusive, Zenon DEF LockFor

(* The handles a resolve locks are those of its paths. *)
LEMMA PairNamed ==
  ASSUME TypeOK, NEW r \in Requests
  PROVE FirstHandle(r) \in Handles /\ SecondHandle(r) \in Handles
  BY Named, Zenon DEF FirstHandle, SecondHandle

(* A request keeps the guard exclusive.                                   *)
LEMMA RequestExclusive ==
  ASSUME DaemonInv, NEW r \in Requests, RequestStep(r) PROVE Exclusive'
  <1>1. ASSUME Arrive(r) PROVE Exclusive'
    BY <1>1, Named, Zenon DEF Arrive, DaemonInv, TypeOK, GuardType, Exclusive
  <1>2. ASSUME GetOpen(r) PROVE Exclusive'
    BY <1>2, Named, ReleaseExclusive, SameExclusive, ReadExclusive, Zenon DEF GetOpen, StartRead,
       Step, HKey, Key, DaemonInv
  <1>3. ASSUME GetLookup(r) PROVE Exclusive'
    BY <1>3, Named, ReleaseExclusive, SameExclusive, ReadExclusive, Zenon DEF GetLookup, Step, End,
       DaemonInv
  <1>4. ASSUME GetReopen(r) PROVE Exclusive'
    BY <1>4, Named, ReleaseExclusive, SameExclusive, ReadExclusive, Zenon DEF GetReopen, Retry,
       StartRead, HSrc, DaemonInv
  <1>5. ASSUME MirrorOpen(r) PROVE Exclusive'
    BY <1>5, Named, ReleaseExclusive, SameExclusive, ReadExclusive, Zenon DEF MirrorOpen,
       StartRead, End, HKey, Key, DaemonInv
  <1>6. ASSUME Served(r) PROVE Exclusive'
    BY <1>6, Named, ReleaseExclusive, SameExclusive, ReadExclusive, Zenon DEF Served, End,
       DaemonInv
  <1>7. ASSUME RemoveIf(r) PROVE Exclusive'
    BY <1>7, Named, ReleaseExclusive, SameExclusive, ReadExclusive, Zenon DEF RemoveIf, Step, End,
       DaemonInv
  <1>8. ASSUME SaveAliases(r) PROVE Exclusive'
    BY <1>8, Named, ReleaseExclusive, SameExclusive, ReadExclusive, Zenon DEF SaveAliases, End,
       DaemonInv
  <1>9. ASSUME RegisterCheck(r) PROVE Exclusive'
    BY <1>9, Named, ReleaseExclusive, SameExclusive, ReadExclusive, Zenon DEF RegisterCheck, End,
       Step, DaemonInv
  <1>10. ASSUME RegisterAlias(r) PROVE Exclusive'
    BY <1>10, Named, Zenon DEF RegisterAlias, Step, Key, At, DaemonInv, TypeOK, GuardType,
       Exclusive
  <1>11. ASSUME Admit(r) PROVE Exclusive'
    BY <1>11, Named, ReleaseExclusive, SameExclusive, ReadExclusive, Zenon DEF Admit, Step, End,
       DaemonInv
  <1>12. ASSUME Find(r) PROVE Exclusive'
    BY <1>12, Named, Zenon DEF Find, Step, Key, DaemonInv, TypeOK, GuardType, Exclusive
  <1>13. ASSUME LockFirst(r) PROVE Exclusive'
    BY <1>13, PairNamed, LockForExclusive, Zenon DEF LockFirst, DaemonInv
  <1>14. ASSUME LockSecond(r) PROVE Exclusive'
    BY <1>14, PairNamed, LockForExclusive, Zenon DEF LockSecond, DaemonInv
  <1>15. ASSUME Paired(r) PROVE Exclusive'
    BY <1>15, Named, ReleaseExclusive, SameExclusive, ReadExclusive, Zenon DEF Paired, Retry, Step,
       End, DaemonInv
  <1>16. ASSUME Probe(r) PROVE Exclusive'
    BY <1>16, Named, ReleaseExclusive, SameExclusive, ReadExclusive, Zenon DEF Probe, Step, End,
       DaemonInv
  <1>17. ASSUME PeerLock(r) PROVE Exclusive'
    BY <1>17, Named, WriteExclusive, Zenon DEF PeerLock, DaemonInv
  <1>18. ASSUME Publish(r) PROVE Exclusive'
    BY <1>18, Named, ReleaseExclusive, SameExclusive, ReadExclusive, Zenon DEF Publish, End, Step,
       DaemonInv
  <1>19. ASSUME Published(r) PROVE Exclusive'
    BY <1>19, Named, ReleaseExclusive, SameExclusive, ReadExclusive, Zenon DEF Published, End,
       DaemonInv
  <1>20. ASSUME Upload(r) PROVE Exclusive'
    BY <1>20, Named, ReleaseExclusive, SameExclusive, ReadExclusive, Zenon DEF Upload, Step, End,
       DaemonInv
  <1>21. ASSUME BeginSweep(r) PROVE Exclusive'
    BY <1>21, Named, Zenon DEF BeginSweep, Grant, Key, HKey, DaemonInv, TypeOK, GuardType,
       Exclusive
  <1>22. ASSUME TakeSweep(r) PROVE Exclusive'
    BY <1>22, Named, Zenon DEF TakeSweep, Grant, Key, HKey, DaemonInv, TypeOK, GuardType, Exclusive
  <1>23. ASSUME RemoveBegins(r) PROVE Exclusive'
    BY <1>23, Named, Zenon DEF RemoveBegins, Step, Key, DaemonInv, TypeOK, GuardType, Exclusive
  <1>24. ASSUME RemoveEnds(r) PROVE Exclusive'
    BY <1>24, Named, ReleaseExclusive, SameExclusive, ReadExclusive, Zenon DEF RemoveEnds, Step,
       End, DaemonInv
  <1>25. ASSUME Rename(r) PROVE Exclusive'
    BY <1>25, Named, ReleaseExclusive, SameExclusive, ReadExclusive, Zenon DEF Rename, DaemonInv
  <1>26. ASSUME Register(r) PROVE Exclusive'
    BY <1>26, Named, ReleaseExclusive, SameExclusive, ReadExclusive, Zenon DEF Register, End,
       DaemonInv
  <1>27. ASSUME GiveUp(r) PROVE Exclusive'
    BY <1>27, Named, ReleaseExclusive, SameExclusive, ReadExclusive, Zenon DEF GiveUp, End,
       DaemonInv
  <1>28. ASSUME LeftTorn(r) PROVE Exclusive'
    BY <1>28, Named, ReleaseExclusive, SameExclusive, ReadExclusive, Zenon DEF LeftTorn, End,
       DaemonInv
  <1> QED
    BY <1>1, <1>2, <1>3, <1>4, <1>5, <1>6, <1>7, <1>8, <1>9, <1>10, <1>11, <1>12, <1>13,
       <1>14, <1>15, <1>16, <1>17, <1>18, <1>19, <1>20, <1>21, <1>22, <1>23, <1>24, <1>25,
       <1>26, <1>27, <1>28, Zenon DEF RequestStep, RequestNext, ReadNext, RegistryNext,
       ResolveNext, WriteNext

(* So does the sweeper.                                                   *)
LEMMA SweepExclusive ==
  ASSUME DaemonInv, SweepStep PROVE Exclusive'
  <1>1. ASSUME Sweep PROVE Exclusive'
    BY <1>1, ReleaseExclusive, SameExclusive, Zenon DEF Sweep, DaemonInv, TypeOK, GuardType,
       SweeperType, Exclusive
  <1>2. ASSUME NEW h \in Handles, SweepPick(h) PROVE Exclusive'
    BY <1>2, ReleaseExclusive, SameExclusive, Zenon DEF SweepPick, Grant, DaemonInv, TypeOK,
       GuardType, SweeperType, Exclusive
  <1>3. ASSUME SweepTake PROVE Exclusive'
    BY <1>3, ReleaseExclusive, SameExclusive DEF SweepTake, Grant, DaemonInv, TypeOK,
       GuardType, SweeperType, Exclusive
  <1>4. ASSUME SweepStat PROVE Exclusive'
    BY <1>4, ReleaseExclusive, SameExclusive, Zenon DEF SweepStat, SweepNextHandle, DaemonInv
  <1>5. ASSUME SweepRemoved PROVE Exclusive'
    BY <1>5, ReleaseExclusive, SameExclusive, Zenon DEF SweepRemoved, DaemonInv, TypeOK, GuardType,
       SweeperType, Exclusive
  <1>6. ASSUME RemoveByPath PROVE Exclusive'
    BY <1>6, ReleaseExclusive, SameExclusive, Zenon DEF RemoveByPath, SweepNextHandle, DaemonInv
  <1>7. ASSUME SweepSave PROVE Exclusive'
    BY <1>7, ReleaseExclusive, Zenon DEF SweepSave, SweepNextHandle, DaemonInv
  <1>8. ASSUME SweepFails PROVE Exclusive'
    BY <1>8, ReleaseExclusive, Zenon DEF SweepFails, SweepNextHandle, DaemonInv
  <1> QED
    BY <1>1, <1>2, <1>3, <1>4, <1>5, <1>6, <1>7, <1>8, Zenon DEF SweepStep, SweeperNext

(* The places at which a request relies on the guard.                     *)
Guarded == {"walk", "second", "paired", "copy", "fetch", "publish", "remove", "removing",
            "rename", "drop"}

(* Elsewhere it needs nothing. *)
LEMMA NothingHeld ==
  ASSUME NEW r \in Requests, pc'[r] \notin Guarded PROVE Held(r)'
  BY Zenon DEF Held, Guarded

(* A request that answers needs nothing. *)
LEMMA EndHeld ==
  ASSUME TypeOK, NEW r \in Requests, End(r) PROVE Held(r)'
  <1>1. pc'[r] = "done"
    BY Zenon DEF End, TypeOK, RequestType
  <1> QED
    BY <1>1, NothingHeld, Zenon DEF Guarded

(* Nor does one that goes where nothing is needed. *)
LEMMA StepHeld ==
  ASSUME TypeOK, NEW r \in Requests, NEW at, at \notin Guarded, pc' = [pc EXCEPT ![r] = at]
  PROVE Held(r)'
  <1>1. pc'[r] = at
    BY Zenon DEF TypeOK, RequestType
  <1> QED
    BY <1>1, NothingHeld, Zenon

(* A walk holds the shared side of its source. *)
LEMMA WalkHeld ==
  ASSUME TypeOK, NEW r \in Requests, NEW p \in Paths, StartRead(r, p) PROVE Held(r)'
  <1>1. pc'[r] = "walk" /\ src'[r] = p
    BY Zenon DEF StartRead, TypeOK, RequestType
  <1>2. r \in readers'[HandleOf[p]]
    BY PathAssumption, Zenon DEF StartRead, Grant, TypeOK, GuardType
  <1> QED
    BY <1>1, <1>2, Zenon DEF Held, HSrc

(* A round of a retry loop starts with nothing. *)
LEMMA RetryHeld ==
  ASSUME TypeOK, NEW r \in Requests, NEW from, from \notin Guarded, Retry(r, from)
  PROVE Held(r)'
  <1>1. pc'[r] = "done" \/ pc'[r] = from
    BY Zenon DEF Retry, TypeOK, RequestType
  <1> QED
    BY <1>1, NothingHeld, Zenon DEF Guarded

(* What the request relies on at its new place, it holds.                 *)
LEMMA RequestHeld ==
  ASSUME DaemonInv, NEW r \in Requests, RequestStep(r) PROVE Held(r)'
  <1>1. ASSUME Arrive(r) PROVE Held(r)'
    <2>1. pc'[r] \in Kinds
      BY <1>1, Named, Zenon DEF Arrive, DaemonInv, TypeOK, RequestType, Ops
    <2> QED
      BY <2>1, NothingHeld, Zenon DEF Guarded, Kinds
  <1>2. ASSUME GetOpen(r) PROVE Held(r)'
    BY <1>2, Named, WalkHeld, StepHeld, Zenon DEF GetOpen, Step, Guarded, DaemonInv
  <1>3. ASSUME GetLookup(r) PROVE Held(r)'
    BY <1>3, EndHeld, StepHeld, Zenon DEF GetLookup, Step, Guarded, DaemonInv
  <1>4. ASSUME GetReopen(r) PROVE Held(r)'
    <2>1. CASE Retry(r, "lookup")
      BY <2>1, RetryHeld, Zenon DEF Guarded, DaemonInv
    <2>2. CASE StartRead(r, src[r])
      BY <2>2, Named, WalkHeld, Zenon DEF DaemonInv
    <2>3. CASE readers' = Grant(readers, HSrc(r), r) /\ pc' = [pc EXCEPT ![r] = "drop"]
               /\ UNCHANGED src
      <3>1. pc'[r] = "drop" /\ r \in readers'[HSrc(r)]
        BY <2>3, Named, Zenon DEF Grant, DaemonInv, TypeOK, GuardType, RequestType
      <3> QED
        BY <2>3, <3>1, Zenon DEF Held, HSrc
    <2> QED
      BY <1>4, <2>1, <2>2, <2>3, Zenon DEF GetReopen
  <1>5. ASSUME MirrorOpen(r) PROVE Held(r)'
    BY <1>5, Named, WalkHeld, EndHeld, Zenon DEF MirrorOpen, DaemonInv
  <1>6. ASSUME Served(r) PROVE Held(r)'
    BY <1>6, EndHeld, Zenon DEF Served, DaemonInv
  <1>7. ASSUME RemoveIf(r) PROVE Held(r)'
    BY <1>7, EndHeld, StepHeld, Zenon DEF RemoveIf, Step, Guarded, DaemonInv
  <1>8. ASSUME SaveAliases(r) PROVE Held(r)'
    BY <1>8, EndHeld, Zenon DEF SaveAliases, DaemonInv
  <1>9. ASSUME RegisterCheck(r) PROVE Held(r)'
    BY <1>9, EndHeld, StepHeld, Zenon DEF RegisterCheck, Step, Guarded, DaemonInv
  <1>10. ASSUME RegisterAlias(r) PROVE Held(r)'
    BY <1>10, StepHeld, Zenon DEF RegisterAlias, Step, Guarded, DaemonInv
  <1>11. ASSUME Admit(r) PROVE Held(r)'
    BY <1>11, EndHeld, StepHeld, Zenon DEF Admit, Step, Guarded, DaemonInv
  <1>12. ASSUME Find(r) PROVE Held(r)'
    BY <1>12, StepHeld, Zenon DEF Find, Step, Guarded, DaemonInv
  <1>13. ASSUME LockFirst(r) PROVE Held(r)'
    <2>1. src' = src /\ op' = op /\ pc'[r] \in {"second", "paired"}
          /\ (pc'[r] = "paired" <=> HSrc(r) = HAt(r))
      BY <1>13, Zenon DEF LockFirst, DaemonInv, TypeOK, RequestType
    <2>2. FirstHandle(r) \in {HAt(r), HSrc(r)} /\ HSrc(r) \in Handles /\ HAt(r) \in Handles
      BY Named, Zenon DEF FirstHandle, DaemonInv
    <2>3. IF FirstHandle(r) = HAt(r) THEN r \in writers'[HAt(r)] ELSE r \in readers'[HSrc(r)]
      BY <1>13, <2>2, Zenon DEF LockFirst, LockFor, Grant, DaemonInv, TypeOK, GuardType
    <2> QED
      BY <2>1, <2>2, <2>3, Zenon DEF Held, PairHeld, FirstHandle, HSrc, HAt, HKey, Key, At
  <1>14. ASSUME LockSecond(r) PROVE Held(r)'
    <2>1. src' = src /\ op' = op /\ pc'[r] = "paired"
      BY <1>14, Zenon DEF LockSecond, DaemonInv, TypeOK, RequestType
    <2>2. FirstHandle(r) \in {HAt(r), HSrc(r)} /\ HSrc(r) \in Handles /\ HAt(r) \in Handles
      BY Named, Zenon DEF FirstHandle, DaemonInv
    <2>3. /\ HSrc(r) # HAt(r)
          /\ FirstHandle(r) = HAt(r) => r \in writers[HAt(r)]
          /\ FirstHandle(r) # HAt(r) => r \in readers[HSrc(r)]
      BY <1>14, Zenon DEF LockSecond, DaemonInv, HeldInv, Held
    <2>4. r \in writers'[HAt(r)] /\ r \in readers'[HSrc(r)]
      <3>1. CASE FirstHandle(r) = HAt(r)
        <4>1. SecondHandle(r) = HSrc(r) /\ r \in writers[HAt(r)]
          BY <2>3, <3>1, Zenon DEF SecondHandle
        <4>2. readers' = Grant(readers, HSrc(r), r) /\ writers' = writers
          BY <1>14, <2>3, <4>1, Zenon DEF LockSecond, LockFor
        <4> QED
          BY <2>2, <4>1, <4>2, Zenon DEF Grant, DaemonInv, TypeOK, GuardType
      <3>2. CASE FirstHandle(r) = HSrc(r)
        <4>1. SecondHandle(r) = HAt(r) /\ r \in readers[HSrc(r)]
          BY <2>3, <3>2, Zenon DEF SecondHandle
        <4>2. writers' = Grant(writers, HAt(r), r) /\ readers' = readers
          BY <1>14, <2>3, <4>1, Zenon DEF LockSecond, LockFor
        <4> QED
          BY <2>2, <4>1, <4>2, Zenon DEF Grant, DaemonInv, TypeOK, GuardType
      <3> QED
        BY <2>2, <3>1, <3>2, Zenon
    <2> QED
      BY <2>1, <2>4, Zenon DEF Held, PairHeld, HSrc, HAt, HKey, Key, At
  <1>15. ASSUME Paired(r) PROVE Held(r)'
    <2>1. CASE Retry(r, "find")
      BY <2>1, RetryHeld, Zenon DEF Guarded, DaemonInv
    <2>2. CASE pc' = [pc EXCEPT ![r] = "probe"]
      BY <2>2, StepHeld, Zenon DEF Guarded, DaemonInv
    <2>3. CASE End(r)
      BY <2>3, EndHeld, Zenon DEF DaemonInv
    <2>4. CASE UNCHANGED <<guard, src, op>> /\ src[r] # At(r) /\ Step(r, "copy")
      <3>1. pc'[r] = "copy" /\ PairHeld(r)
        BY <1>15, <2>4, Zenon DEF Paired, Step, DaemonInv, TypeOK, RequestType, HeldInv, Held
      <3> QED
        BY <2>4, <3>1, Zenon DEF Held, PairHeld, HSrc, HAt, At
    <2>5. CASE UNCHANGED <<guard, src>> /\ Step(r, "drop")
      <3>1. pc'[r] = "drop" /\ PairHeld(r)
        BY <1>15, <2>5, Zenon DEF Paired, Step, DaemonInv, TypeOK, RequestType, HeldInv, Held
      <3> QED
        BY <2>5, <3>1, Zenon DEF Held, PairHeld, HSrc
    <2> QED
      BY <1>15, <2>1, <2>2, <2>3, <2>4, <2>5, Zenon DEF Paired, Step
  <1>16. ASSUME Probe(r) PROVE Held(r)'
    BY <1>16, EndHeld, StepHeld, Zenon DEF Probe, Step, Guarded, DaemonInv
  <1>17. ASSUME PeerLock(r) PROVE Held(r)'
    BY <1>17, Named, PathAssumption, Zenon DEF PeerLock, CanWrite, Grant, At, HAt, HSrc, DaemonInv,
       TypeOK, GuardType, RequestType, HeldInv, Held, PairHeld, FirstHandle, Key, HKey
  <1>18. ASSUME Publish(r) PROVE Held(r)'
    <2>1. CASE End(r)
      BY <2>1, EndHeld, Zenon DEF DaemonInv
    <2>2. CASE Step(r, "publish")
      <3>1. r \in writers[HAt(r)]
        BY <1>18, Zenon DEF Publish, DaemonInv, HeldInv, Held, PairHeld
      <3>2. pc'[r] = "publish" /\ writers' = writers /\ op' = op
        BY <1>18, <2>2, Zenon DEF Publish, Step, DaemonInv, TypeOK, RequestType
      <3> QED
        BY <3>1, <3>2, Zenon DEF Held, HAt, At
    <2> QED
      BY <1>18, <2>1, <2>2, Zenon DEF Publish
  <1>19. ASSUME Published(r) PROVE Held(r)'
    BY <1>19, EndHeld, Zenon DEF Published, DaemonInv
  <1>20. ASSUME Upload(r) PROVE Held(r)'
    BY <1>20, EndHeld, StepHeld, Zenon DEF Upload, Step, Guarded, DaemonInv
  <1>21. ASSUME BeginSweep(r) PROVE Held(r)'
    BY <1>21, StepHeld, Zenon DEF BeginSweep, Guarded, DaemonInv
  <1>22. ASSUME TakeSweep(r) PROVE Held(r)'
    BY <1>22, Named, PathAssumption, Zenon DEF TakeSweep, Grant, Key, HKey, DaemonInv, TypeOK,
       GuardType, RequestType, HeldInv, Held, PairHeld, FirstHandle, At, HAt, HSrc
  <1>23. ASSUME RemoveBegins(r) PROVE Held(r)'
    BY <1>23, Named, PathAssumption, Zenon DEF RemoveBegins, Step, Key, DaemonInv, TypeOK,
       GuardType, RequestType, HeldInv, Held, PairHeld, FirstHandle, HKey, At, HAt, HSrc
  <1>24. ASSUME RemoveEnds(r) PROVE Held(r)'
    <2>1. CASE End(r)
      BY <2>1, EndHeld, Zenon DEF DaemonInv
    <2>2. CASE Step(r, "rename") /\ UNCHANGED op
      <3>1. pc'[r] = "rename" /\ r \in writers[HKey(r)]
        BY <1>24, <2>2, Zenon DEF RemoveEnds, Step, DaemonInv, TypeOK, RequestType, HeldInv, Held
      <3> QED
        BY <2>2, <3>1, Zenon DEF Held, Step, HKey, Key
    <2> QED
      BY <1>24, <2>1, <2>2, Zenon DEF RemoveEnds
  <1>25. ASSUME Rename(r) PROVE Held(r)'
    BY <1>25, StepHeld, Zenon DEF Rename, Guarded, DaemonInv
  <1>26. ASSUME Register(r) PROVE Held(r)'
    BY <1>26, EndHeld, Zenon DEF Register, DaemonInv
  <1>27. ASSUME GiveUp(r) PROVE Held(r)'
    BY <1>27, EndHeld, Zenon DEF GiveUp, DaemonInv
  <1>28. ASSUME LeftTorn(r) PROVE Held(r)'
    BY <1>28, EndHeld, Zenon DEF LeftTorn, DaemonInv
  <1> QED
    BY <1>1, <1>2, <1>3, <1>4, <1>5, <1>6, <1>7, <1>8, <1>9, <1>10, <1>11, <1>12, <1>13,
       <1>14, <1>15, <1>16, <1>17, <1>18, <1>19, <1>20, <1>21, <1>22, <1>23, <1>24, <1>25,
       <1>26, <1>27, <1>28, Zenon DEF RequestStep, RequestNext, ReadNext, RegistryNext,
       ResolveNext, WriteNext

(* What the sweeper relies on, it holds.                                  *)
LEMMA SweepHeld ==
  ASSUME DaemonInv, SweepStep PROVE SweeperHeld'
  <1>1. ASSUME Sweep PROVE SweeperHeld'
    BY <1>1, Zenon DEF Sweep, DaemonInv, TypeOK, GuardType, SweeperType, HeldInv, SweeperHeld
  <1>2. ASSUME NEW h \in Handles, SweepPick(h) PROVE SweeperHeld'
    BY <1>2, Zenon DEF SweepPick, Grant, DaemonInv, TypeOK, GuardType, SweeperType, HeldInv,
       SweeperHeld
  <1>3. ASSUME SweepTake PROVE SweeperHeld'
    BY <1>3, Zenon DEF SweepTake, Grant, DaemonInv, TypeOK, GuardType, SweeperType, HeldInv,
       SweeperHeld
  <1>4. ASSUME SweepStat PROVE SweeperHeld'
    BY <1>4, Zenon DEF SweepStat, SweepNextHandle, Release, Removing, DaemonInv, TypeOK, GuardType,
       SweeperType, HeldInv, SweeperHeld
  <1>5. ASSUME SweepRemoved PROVE SweeperHeld'
    BY <1>5, Zenon DEF SweepRemoved, DaemonInv, TypeOK, GuardType, SweeperType, HeldInv,
       SweeperHeld
  <1>6. ASSUME RemoveByPath PROVE SweeperHeld'
    BY <1>6, Zenon DEF RemoveByPath, Mutate, SweepNextHandle, Release, DaemonInv, TypeOK,
       GuardType, SweeperType, HeldInv, SweeperHeld
  <1>7. ASSUME SweepSave PROVE SweeperHeld'
    BY <1>7, Zenon DEF SweepSave, Save, SweepNextHandle, Release, DaemonInv, TypeOK, GuardType,
       SweeperType, HeldInv, SweeperHeld
  <1>8. ASSUME SweepFails PROVE SweeperHeld'
    BY <1>8, Zenon DEF SweepFails, Fault, SweepNextHandle, Release, DaemonInv, TypeOK, GuardType,
       SweeperType, HeldInv, SweeperHeld
  <1> QED
    BY <1>1, <1>2, <1>3, <1>4, <1>5, <1>6, <1>7, <1>8, Zenon DEF SweepStep, SweeperNext

(* Every request and the sweeper keep what they rely on.                  *)
LEMMA HeldKept ==
  ASSUME DaemonInv, NEW r \in Requests, RequestStep(r) PROVE HeldInv'
  <1>1. OthersKept(r) /\ Held(r)'
    BY RequestOthers, RequestHeld, Zenon
  <1>2. ASSUME NEW q \in Requests, q # r PROVE Held(q)'
    <2>1. SameSides(q) /\ pc'[q] = pc[q] /\ src'[q] = src[q] /\ op' = op
      BY <1>1, <1>2, Zenon DEF OthersKept, Actors
    <2>2. HAt(q)' = HAt(q) /\ HSrc(q)' = HSrc(q) /\ HKey(q)' = HKey(q) /\ At(q)' = At(q)
      BY <2>1, Zenon DEF HAt, HSrc, HKey, Key, At
    <2>3. HAt(q) \in Handles /\ HSrc(q) \in Handles /\ HKey(q) \in Handles
      BY Named, Zenon DEF DaemonInv
    <2> QED
      BY <2>1, <2>2, <2>3, Zenon DEF SameSides, DaemonInv, HeldInv, Held, PairHeld, FirstHandle
  <1>3. SweeperHeld'
    BY <1>1, SweeperAssumption, Zenon
    DEF OthersKept, SameSides, Actors, DaemonInv, TypeOK, SweeperType, HeldInv, SweeperHeld
  <1> QED
    BY <1>1, <1>2, <1>3, Zenon DEF HeldInv

(* So does a step of the sweeper. *)
LEMMA HeldKeptBySweep ==
  ASSUME DaemonInv, SweepStep PROVE HeldInv'
  <1>1. RequestsKept
    BY SweepOthers, Zenon
  <1>2. ASSUME NEW q \in Requests PROVE Held(q)'
    <2>1. SameSides(q) /\ pc' = pc /\ src' = src /\ op' = op
      BY <1>1, Zenon DEF RequestsKept
    <2>2. HAt(q)' = HAt(q) /\ HSrc(q)' = HSrc(q) /\ HKey(q)' = HKey(q) /\ At(q)' = At(q)
      BY <2>1, Zenon DEF HAt, HSrc, HKey, Key, At
    <2>3. HAt(q) \in Handles /\ HSrc(q) \in Handles /\ HKey(q) \in Handles
      BY Named, Zenon DEF DaemonInv
    <2> QED
      BY <2>1, <2>2, <2>3, Zenon DEF SameSides, DaemonInv, HeldInv, Held, PairHeld, FirstHandle
  <1> QED
    BY <1>2, SweepHeld, Zenon DEF HeldInv

(* A request changes a tree only under the exclusive side.                *)
LEMMA RequestWrites ==
  ASSUME DaemonInv, NEW r \in Requests, RequestStep(r) PROVE \A p \in Paths : tree'[p] # tree[p] => r \in writers[HandleOf[p]]
  <1>1. ASSUME Arrive(r) PROVE \A p \in Paths : tree'[p] # tree[p] => r \in writers[HandleOf[p]]
    BY <1>1, Named, Zenon DEF Arrive, DaemonInv, TypeOK, HeldInv, Held, DiskType, HAt, HKey
  <1>2. ASSUME GetOpen(r) PROVE \A p \in Paths : tree'[p] # tree[p] => r \in writers[HandleOf[p]]
    BY <1>2, Named, Zenon DEF GetOpen, StartRead, Step, Grant, CanRead, Key, HKey, DaemonInv,
       TypeOK, HeldInv, Held, DiskType, HAt
  <1>3. ASSUME GetLookup(r) PROVE \A p \in Paths : tree'[p] # tree[p] => r \in writers[HandleOf[p]]
    BY <1>3, Named, Zenon DEF GetLookup, End, Release, Step, Key, HKey, DaemonInv, TypeOK, HeldInv,
       Held, DiskType, HAt
  <1>4. ASSUME GetReopen(r) PROVE \A p \in Paths : tree'[p] # tree[p] => r \in writers[HandleOf[p]]
    BY <1>4, Named, Zenon DEF GetReopen, Retry, StartRead, Release, Grant, CanRead, HSrc, Key,
       HKey, DaemonInv, TypeOK, HeldInv, Held, DiskType, HAt
  <1>5. ASSUME MirrorOpen(r) PROVE \A p \in Paths : tree'[p] # tree[p] => r \in writers[HandleOf[p]]
    BY <1>5, Named, Zenon DEF MirrorOpen, StartRead, End, Release, Grant, CanRead, Key, HKey,
       DaemonInv, TypeOK, HeldInv, Held, DiskType, HAt
  <1>6. ASSUME Served(r) PROVE \A p \in Paths : tree'[p] # tree[p] => r \in writers[HandleOf[p]]
    BY <1>6, Named, Zenon DEF Served, End, Release, DaemonInv, TypeOK, HeldInv, Held, DiskType,
       HAt, HKey
  <1>7. ASSUME RemoveIf(r) PROVE \A p \in Paths : tree'[p] # tree[p] => r \in writers[HandleOf[p]]
    BY <1>7, Named, Zenon DEF RemoveIf, Mutate, Step, End, Release, Key, DaemonInv, TypeOK,
       HeldInv, Held, DiskType, HAt, HKey
  <1>8. ASSUME SaveAliases(r) PROVE \A p \in Paths : tree'[p] # tree[p] => r \in writers[HandleOf[p]]
    BY <1>8, Named, Zenon DEF SaveAliases, Save, End, Release, DaemonInv, TypeOK, HeldInv, Held,
       DiskType, HAt, HKey
  <1>9. ASSUME RegisterCheck(r) PROVE \A p \in Paths : tree'[p] # tree[p] => r \in writers[HandleOf[p]]
    BY <1>9, Named, Zenon DEF RegisterCheck, End, Release, Step, At, DaemonInv, TypeOK, HeldInv,
       Held, DiskType, HAt, HKey
  <1>10. ASSUME RegisterAlias(r) PROVE \A p \in Paths : tree'[p] # tree[p] => r \in writers[HandleOf[p]]
    BY <1>10, Named, Zenon DEF RegisterAlias, Step, Key, At, DaemonInv, TypeOK, HeldInv, Held,
       DiskType, HAt, HKey
  <1>11. ASSUME Admit(r) PROVE \A p \in Paths : tree'[p] # tree[p] => r \in writers[HandleOf[p]]
    BY <1>11, Named, Zenon DEF Admit, Step, End, Release, DaemonInv, TypeOK, HeldInv, Held,
       DiskType, HAt, HKey
  <1>12. ASSUME Find(r) PROVE \A p \in Paths : tree'[p] # tree[p] => r \in writers[HandleOf[p]]
    BY <1>12, Named, Zenon DEF Find, Step, Key, DaemonInv, TypeOK, HeldInv, Held, DiskType, HAt,
       HKey
  <1>13. ASSUME LockFirst(r) PROVE \A p \in Paths : tree'[p] # tree[p] => r \in writers[HandleOf[p]]
    BY <1>13, Named, Zenon DEF LockFirst, LockFor, Grant, CanRead, CanWrite, At, HAt, HSrc,
       DaemonInv, TypeOK, HeldInv, Held, DiskType, HKey
  <1>14. ASSUME LockSecond(r) PROVE \A p \in Paths : tree'[p] # tree[p] => r \in writers[HandleOf[p]]
    BY <1>14, Named, Zenon DEF LockSecond, LockFor, Grant, CanRead, CanWrite, At, HAt, HSrc,
       DaemonInv, TypeOK, HeldInv, Held, DiskType, HKey
  <1>15. ASSUME Paired(r) PROVE \A p \in Paths : tree'[p] # tree[p] => r \in writers[HandleOf[p]]
    BY <1>15, Named, Zenon DEF Paired, Retry, Step, End, Release, Key, At, HAt, HSrc, DaemonInv,
       TypeOK, HeldInv, Held, DiskType, HKey
  <1>16. ASSUME Probe(r) PROVE \A p \in Paths : tree'[p] # tree[p] => r \in writers[HandleOf[p]]
    BY <1>16, Named, Zenon DEF Probe, End, Release, Step, DaemonInv, TypeOK, HeldInv, Held,
       DiskType, HAt, HKey
  <1>17. ASSUME PeerLock(r) PROVE \A p \in Paths : tree'[p] # tree[p] => r \in writers[HandleOf[p]]
    BY <1>17, Named, Zenon DEF PeerLock, CanWrite, Grant, At, HAt, HSrc, DaemonInv, TypeOK,
       HeldInv, Held, DiskType, HKey
  <1>18. ASSUME Publish(r) PROVE \A p \in Paths : tree'[p] # tree[p] => r \in writers[HandleOf[p]]
    BY <1>18, Named, Zenon DEF Publish, End, Release, Step, At, HAt, HSrc, DaemonInv, TypeOK,
       HeldInv, Held, DiskType, HKey, PairHeld
  <1>19. ASSUME Published(r) PROVE \A p \in Paths : tree'[p] # tree[p] => r \in writers[HandleOf[p]]
    BY <1>19, Named, Zenon DEF Published, End, Release, At, DaemonInv, TypeOK, HeldInv, Held,
       DiskType, HAt, HKey
  <1>20. ASSUME Upload(r) PROVE \A p \in Paths : tree'[p] # tree[p] => r \in writers[HandleOf[p]]
    BY <1>20, Named, Zenon DEF Upload, Step, End, Release, DaemonInv, TypeOK, HeldInv, Held,
       DiskType, HAt, HKey
  <1>21. ASSUME BeginSweep(r) PROVE \A p \in Paths : tree'[p] # tree[p] => r \in writers[HandleOf[p]]
    BY <1>21, Named, Zenon DEF BeginSweep, Grant, Key, HKey, DaemonInv, TypeOK, HeldInv, Held,
       DiskType, HAt
  <1>22. ASSUME TakeSweep(r) PROVE \A p \in Paths : tree'[p] # tree[p] => r \in writers[HandleOf[p]]
    BY <1>22, Named, Zenon DEF TakeSweep, Grant, Key, HKey, DaemonInv, TypeOK, HeldInv, Held,
       DiskType, HAt
  <1>23. ASSUME RemoveBegins(r) PROVE \A p \in Paths : tree'[p] # tree[p] => r \in writers[HandleOf[p]]
    BY <1>23, Named, Zenon DEF RemoveBegins, Step, Key, DaemonInv, TypeOK, HeldInv, Held, DiskType,
       HAt, HKey
  <1>24. ASSUME RemoveEnds(r) PROVE \A p \in Paths : tree'[p] # tree[p] => r \in writers[HandleOf[p]]
    BY <1>24, Named, Zenon DEF RemoveEnds, Step, End, Release, Key, HKey, DaemonInv, TypeOK,
       HeldInv, Held, DiskType, HAt
  <1>25. ASSUME Rename(r) PROVE \A p \in Paths : tree'[p] # tree[p] => r \in writers[HandleOf[p]]
    BY <1>25, Named, Zenon DEF Rename, Release, Key, HKey, DaemonInv, TypeOK, HeldInv, Held,
       DiskType, HAt
  <1>26. ASSUME Register(r) PROVE \A p \in Paths : tree'[p] # tree[p] => r \in writers[HandleOf[p]]
    BY <1>26, Named, Zenon DEF Register, End, Release, Key, DaemonInv, TypeOK, HeldInv, Held,
       DiskType, HAt, HKey
  <1>27. ASSUME GiveUp(r) PROVE \A p \in Paths : tree'[p] # tree[p] => r \in writers[HandleOf[p]]
    BY <1>27, Named, Zenon DEF GiveUp, End, Release, HAt, DaemonInv, TypeOK, HeldInv, Held,
       DiskType, HKey
  <1>28. ASSUME LeftTorn(r) PROVE \A p \in Paths : tree'[p] # tree[p] => r \in writers[HandleOf[p]]
    BY <1>28, Named, Zenon DEF LeftTorn, Fault, End, Release, DaemonInv, TypeOK, HeldInv, Held,
       DiskType, HAt, HKey
  <1> QED
    BY <1>1, <1>2, <1>3, <1>4, <1>5, <1>6, <1>7, <1>8, <1>9, <1>10, <1>11, <1>12, <1>13,
       <1>14, <1>15, <1>16, <1>17, <1>18, <1>19, <1>20, <1>21, <1>22, <1>23, <1>24, <1>25,
       <1>26, <1>27, <1>28, Zenon DEF RequestStep, RequestNext, ReadNext, RegistryNext,
       ResolveNext, WriteNext

(* A request touches a handle only while the sweeper does not have it.    *)
LEMMA RequestTouches ==
  ASSUME DaemonInv, NEW r \in Requests, RequestStep(r) PROVE \A h \in Handles : old'[h] # old[h] => Sweeper \notin writers[h]
  <1>1. ASSUME Arrive(r) PROVE \A h \in Handles : old'[h] # old[h] => Sweeper \notin writers[h]
    BY <1>1, Named, SweeperAssumption, Zenon DEF Arrive, DaemonInv, TypeOK, DiskType, HeldInv,
       Held, PairHeld, Exclusive
  <1>2. ASSUME GetOpen(r) PROVE \A h \in Handles : old'[h] # old[h] => Sweeper \notin writers[h]
    BY <1>2, Named, SweeperAssumption, Zenon DEF GetOpen, StartRead, Step, Grant, CanRead, Key,
       HKey, DaemonInv, TypeOK, DiskType, HeldInv, Held, PairHeld, Exclusive
  <1>3. ASSUME GetLookup(r) PROVE \A h \in Handles : old'[h] # old[h] => Sweeper \notin writers[h]
    BY <1>3, Named, SweeperAssumption, Zenon DEF GetLookup, End, Release, Step, Key, HKey,
       DaemonInv, TypeOK, DiskType, HeldInv, Held, PairHeld, Exclusive
  <1>4. ASSUME GetReopen(r) PROVE \A h \in Handles : old'[h] # old[h] => Sweeper \notin writers[h]
    BY <1>4, Named, SweeperAssumption, Zenon DEF GetReopen, Retry, StartRead, Release, Grant,
       CanRead, HSrc, Key, HKey, DaemonInv, TypeOK, DiskType, HeldInv, Held, PairHeld,
       Exclusive
  <1>5. ASSUME MirrorOpen(r) PROVE \A h \in Handles : old'[h] # old[h] => Sweeper \notin writers[h]
    BY <1>5, Named, SweeperAssumption, Zenon DEF MirrorOpen, StartRead, End, Release, Grant,
       CanRead, Key, HKey, DaemonInv, TypeOK, DiskType, HeldInv, Held, PairHeld, Exclusive
  <1>6. ASSUME Served(r) PROVE \A h \in Handles : old'[h] # old[h] => Sweeper \notin writers[h]
    BY <1>6, Named, SweeperAssumption, Zenon DEF Served, End, Release, DaemonInv, TypeOK, DiskType,
       HeldInv, Held, PairHeld, Exclusive
  <1>7. ASSUME RemoveIf(r) PROVE \A h \in Handles : old'[h] # old[h] => Sweeper \notin writers[h]
    BY <1>7, Named, SweeperAssumption, Zenon DEF RemoveIf, Mutate, Step, End, Release, Key,
       DaemonInv, TypeOK, DiskType, HeldInv, Held, PairHeld, Exclusive
  <1>8. ASSUME SaveAliases(r) PROVE \A h \in Handles : old'[h] # old[h] => Sweeper \notin writers[h]
    BY <1>8, Named, SweeperAssumption, Zenon DEF SaveAliases, Save, End, Release, DaemonInv,
       TypeOK, DiskType, HeldInv, Held, PairHeld, Exclusive
  <1>9. ASSUME RegisterCheck(r) PROVE \A h \in Handles : old'[h] # old[h] => Sweeper \notin writers[h]
    BY <1>9, Named, SweeperAssumption, Zenon DEF RegisterCheck, End, Release, Step, At, DaemonInv,
       TypeOK, DiskType, HeldInv, Held, PairHeld, Exclusive
  <1>10. ASSUME RegisterAlias(r) PROVE \A h \in Handles : old'[h] # old[h] => Sweeper \notin writers[h]
    BY <1>10, Named, SweeperAssumption, Zenon DEF RegisterAlias, Step, Key, At, DaemonInv, TypeOK,
       DiskType, HeldInv, Held, PairHeld, Exclusive
  <1>11. ASSUME Admit(r) PROVE \A h \in Handles : old'[h] # old[h] => Sweeper \notin writers[h]
    BY <1>11, Named, SweeperAssumption, Zenon DEF Admit, Step, End, Release, DaemonInv, TypeOK,
       DiskType, HeldInv, Held, PairHeld, Exclusive
  <1>12. ASSUME Find(r) PROVE \A h \in Handles : old'[h] # old[h] => Sweeper \notin writers[h]
    BY <1>12, Named, SweeperAssumption, Zenon DEF Find, Step, Key, DaemonInv, TypeOK, DiskType,
       HeldInv, Held, PairHeld, Exclusive
  <1>13. ASSUME LockFirst(r) PROVE \A h \in Handles : old'[h] # old[h] => Sweeper \notin writers[h]
    BY <1>13, Named, SweeperAssumption, Zenon DEF LockFirst, LockFor, Grant, CanRead, CanWrite, At,
       HAt, HSrc, DaemonInv, TypeOK, DiskType, HeldInv, Held, PairHeld, Exclusive
  <1>14. ASSUME LockSecond(r) PROVE \A h \in Handles : old'[h] # old[h] => Sweeper \notin writers[h]
    BY <1>14, Named, SweeperAssumption, Zenon DEF LockSecond, LockFor, Grant, CanRead, CanWrite,
       At, HAt, HSrc, DaemonInv, TypeOK, DiskType, HeldInv, Held, PairHeld, Exclusive
  <1>15. ASSUME Paired(r) PROVE \A h \in Handles : old'[h] # old[h] => Sweeper \notin writers[h]
    <2>1. \A h \in Handles : old'[h] # old[h] => h = HSrc(r)
      BY <1>15, Zenon DEF Paired, Retry, DaemonInv, TypeOK, DiskType
    <2>2. r \in writers[HSrc(r)] \/ r \in readers[HSrc(r)]
      BY <1>15, Zenon DEF Paired, DaemonInv, HeldInv, Held, PairHeld
    <2> QED
      BY <2>1, <2>2, Named, SweeperAssumption, Zenon DEF DaemonInv, Exclusive
  <1>16. ASSUME Probe(r) PROVE \A h \in Handles : old'[h] # old[h] => Sweeper \notin writers[h]
    BY <1>16, Named, SweeperAssumption, Zenon DEF Probe, End, Release, Step, DaemonInv, TypeOK,
       DiskType, HeldInv, Held, PairHeld, Exclusive
  <1>17. ASSUME PeerLock(r) PROVE \A h \in Handles : old'[h] # old[h] => Sweeper \notin writers[h]
    BY <1>17, Named, SweeperAssumption, Zenon DEF PeerLock, CanWrite, Grant, At, HAt, HSrc,
       DaemonInv, TypeOK, DiskType, HeldInv, Held, PairHeld, Exclusive
  <1>18. ASSUME Publish(r) PROVE \A h \in Handles : old'[h] # old[h] => Sweeper \notin writers[h]
    <2>1. \A h \in Handles : old'[h] # old[h] => h = HAt(r)
      BY <1>18, Zenon DEF Publish, Retry, DaemonInv, TypeOK, DiskType
    <2>2. r \in writers[HAt(r)]
      BY <1>18, Zenon DEF Publish, DaemonInv, HeldInv, Held, PairHeld
    <2> QED
      BY <2>1, <2>2, Named, SweeperAssumption, Zenon DEF DaemonInv, Exclusive
  <1>19. ASSUME Published(r) PROVE \A h \in Handles : old'[h] # old[h] => Sweeper \notin writers[h]
    BY <1>19, Named, SweeperAssumption, Zenon DEF Published, End, Release, At, DaemonInv, TypeOK,
       DiskType, HeldInv, Held, PairHeld, Exclusive
  <1>20. ASSUME Upload(r) PROVE \A h \in Handles : old'[h] # old[h] => Sweeper \notin writers[h]
    BY <1>20, Named, SweeperAssumption, Zenon DEF Upload, Step, End, Release, DaemonInv, TypeOK,
       DiskType, HeldInv, Held, PairHeld, Exclusive
  <1>21. ASSUME BeginSweep(r) PROVE \A h \in Handles : old'[h] # old[h] => Sweeper \notin writers[h]
    BY <1>21, Named, SweeperAssumption, Zenon DEF BeginSweep, Grant, Key, HKey, DaemonInv, TypeOK,
       DiskType, HeldInv, Held, PairHeld, Exclusive
  <1>22. ASSUME TakeSweep(r) PROVE \A h \in Handles : old'[h] # old[h] => Sweeper \notin writers[h]
    BY <1>22, Named, SweeperAssumption, Zenon DEF TakeSweep, Grant, Key, HKey, DaemonInv, TypeOK,
       DiskType, HeldInv, Held, PairHeld, Exclusive
  <1>23. ASSUME RemoveBegins(r) PROVE \A h \in Handles : old'[h] # old[h] => Sweeper \notin writers[h]
    BY <1>23, Named, SweeperAssumption, Zenon DEF RemoveBegins, Step, Key, DaemonInv, TypeOK,
       DiskType, HeldInv, Held, PairHeld, Exclusive
  <1>24. ASSUME RemoveEnds(r) PROVE \A h \in Handles : old'[h] # old[h] => Sweeper \notin writers[h]
    <2>1. \A h \in Handles : old'[h] # old[h] => h = HKey(r)
      BY <1>24, Zenon DEF RemoveEnds, Retry, DaemonInv, TypeOK, DiskType
    <2>2. r \in writers[HKey(r)]
      BY <1>24, Zenon DEF RemoveEnds, DaemonInv, HeldInv, Held, PairHeld
    <2> QED
      BY <2>1, <2>2, Named, SweeperAssumption, Zenon DEF DaemonInv, Exclusive
  <1>25. ASSUME Rename(r) PROVE \A h \in Handles : old'[h] # old[h] => Sweeper \notin writers[h]
    <2>1. \A h \in Handles : old'[h] # old[h] => h = HKey(r)
      BY <1>25, Zenon DEF Rename, Retry, DaemonInv, TypeOK, DiskType
    <2>2. r \in writers[HKey(r)]
      BY <1>25, Zenon DEF Rename, DaemonInv, HeldInv, Held, PairHeld
    <2> QED
      BY <2>1, <2>2, Named, SweeperAssumption, Zenon DEF DaemonInv, Exclusive
  <1>26. ASSUME Register(r) PROVE \A h \in Handles : old'[h] # old[h] => Sweeper \notin writers[h]
    BY <1>26, Named, SweeperAssumption, Zenon DEF Register, End, Release, Key, DaemonInv, TypeOK,
       DiskType, HeldInv, Held, PairHeld, Exclusive
  <1>27. ASSUME GiveUp(r) PROVE \A h \in Handles : old'[h] # old[h] => Sweeper \notin writers[h]
    <2>1. CASE UNCHANGED old
      BY <2>1, Zenon
    <2>2. CASE pc[r] = "fetch" /\ old' = [old EXCEPT ![HAt(r)] = FALSE]
      <3>1. \A h \in Handles : old'[h] # old[h] => h = HAt(r)
        BY <2>2, Zenon DEF DaemonInv, TypeOK, DiskType
      <3>2. r \in writers[HAt(r)]
        BY <2>2, Zenon DEF DaemonInv, HeldInv, Held
      <3> QED
        BY <3>1, <3>2, Named, SweeperAssumption, Zenon DEF DaemonInv, Exclusive
    <2> QED
      BY <1>27, <2>1, <2>2, Zenon DEF GiveUp
  <1>28. ASSUME LeftTorn(r) PROVE \A h \in Handles : old'[h] # old[h] => Sweeper \notin writers[h]
    BY <1>28, Zenon DEF LeftTorn
  <1> QED
    BY <1>1, <1>2, <1>3, <1>4, <1>5, <1>6, <1>7, <1>8, <1>9, <1>10, <1>11, <1>12, <1>13,
       <1>14, <1>15, <1>16, <1>17, <1>18, <1>19, <1>20, <1>21, <1>22, <1>23, <1>24, <1>25,
       <1>26, <1>27, <1>28, ZenonT(30) DEF RequestStep, RequestNext, ReadNext, RegistryNext,
       ResolveNext, WriteNext

(* The sweeper changes the trees of its handle, under the exclusive side, and*)
(* only once they have expired.                                           *)
LEMMA SweepWrites ==
  ASSUME DaemonInv, SweepStep PROVE \A p \in Paths : tree'[p] # tree[p] =>
           HandleOf[p] = cur /\ Sweeper \in writers[cur] /\ old[cur]
  <1>1. ASSUME Sweep PROVE \A p \in Paths : tree'[p] # tree[p] =>
           HandleOf[p] = cur /\ Sweeper \in writers[cur] /\ old[cur]
    BY <1>1, Zenon DEF Sweep, DaemonInv, TypeOK, DiskType, HeldInv, SweeperHeld, DropInv
  <1>2. ASSUME NEW h \in Handles, SweepPick(h) PROVE \A p \in Paths : tree'[p] # tree[p] =>
           HandleOf[p] = cur /\ Sweeper \in writers[cur] /\ old[cur]
    BY <1>2, Zenon DEF SweepPick, Grant, DaemonInv, TypeOK, DiskType, HeldInv, SweeperHeld, DropInv
  <1>3. ASSUME SweepTake PROVE \A p \in Paths : tree'[p] # tree[p] =>
           HandleOf[p] = cur /\ Sweeper \in writers[cur] /\ old[cur]
    BY <1>3, Zenon DEF SweepTake, Grant, DaemonInv, TypeOK, DiskType, HeldInv, SweeperHeld, DropInv
  <1>4. ASSUME SweepStat PROVE \A p \in Paths : tree'[p] # tree[p] =>
           HandleOf[p] = cur /\ Sweeper \in writers[cur] /\ old[cur]
    BY <1>4, Zenon DEF SweepStat, SweepNextHandle, Release, Removing, DaemonInv, TypeOK, DiskType,
       HeldInv, SweeperHeld, DropInv
  <1>5. ASSUME SweepRemoved PROVE \A p \in Paths : tree'[p] # tree[p] =>
           HandleOf[p] = cur /\ Sweeper \in writers[cur] /\ old[cur]
    BY <1>5, Zenon DEF SweepRemoved, DaemonInv, TypeOK, DiskType, HeldInv, SweeperHeld, DropInv
  <1>6. ASSUME RemoveByPath PROVE \A p \in Paths : tree'[p] # tree[p] =>
           HandleOf[p] = cur /\ Sweeper \in writers[cur] /\ old[cur]
    BY <1>6, Zenon DEF RemoveByPath, Mutate, SweepNextHandle, Release, DaemonInv, TypeOK, DiskType,
       HeldInv, SweeperHeld, DropInv
  <1>7. ASSUME SweepSave PROVE \A p \in Paths : tree'[p] # tree[p] =>
           HandleOf[p] = cur /\ Sweeper \in writers[cur] /\ old[cur]
    BY <1>7, Zenon DEF SweepSave, Save, SweepNextHandle, Release, DaemonInv, TypeOK, DiskType,
       HeldInv, SweeperHeld, DropInv
  <1>8. ASSUME SweepFails PROVE \A p \in Paths : tree'[p] # tree[p] =>
           HandleOf[p] = cur /\ Sweeper \in writers[cur] /\ old[cur]
    BY <1>8, Zenon DEF SweepFails, Fault, SweepNextHandle, Release, DaemonInv, TypeOK, DiskType,
       HeldInv, SweeperHeld, DropInv
  <1> QED
    BY <1>1, <1>2, <1>3, <1>4, <1>5, <1>6, <1>7, <1>8, Zenon DEF SweepStep, SweeperNext

-----------------------------------------------------------------------------
(* Every side of the guard is accounted for.                               *)

(* What an actor holds of the guard it works with, and where it is         *)
(* announced it waits.                                                     *)
OwnSides(a) ==
  \A h \in Handles : /\ a \in readers[h] \cup writers[h] => AtWork(a, h)
                     /\ a \in waiting[h] => Announced(a, h)

(* The others stay announced where they are. *)
OthersWait(a) ==
  \A b \in Actors \ {a} : \A h \in Handles : b \in waiting'[h] <=> b \in waiting[h]

Settled(a) == OwnSides(a)' /\ OthersWait(a)

(* Where a request works with all it holds, and where it holds something or *)
(* is announced.                                                            *)
Working == {"walk", "paired", "copy", "drop", "save", "fetch", "publish", "remove",
            "removing", "rename"}
Involved == Working \cup {"second", "wait"}

(* A request is not the sweeper. *)
LEMMA RequestWork ==
  ASSUME NEW r \in Requests, NEW h
  PROVE /\ AtWork(r, h) <=> pc[r] \in Working \/ (pc[r] = "second" /\ h = FirstHandle(r))
        /\ Announced(r, h) <=> pc[r] = "wait" /\ h = HKey(r)
  BY SweeperAssumption, Zenon DEF AtWork, Announced, Working

(* The same in the next state. *)
LEMMA RequestWorkNext ==
  ASSUME NEW r \in Requests, NEW h
  PROVE /\ AtWork(r, h)' <=> pc'[r] \in Working \/ (pc'[r] = "second" /\ h = FirstHandle(r)')
        /\ Announced(r, h)' <=> pc'[r] = "wait" /\ h = HKey(r)'
  BY SweeperAssumption, Zenon DEF AtWork, Announced, Working

(* Whoever gives everything back has nothing to account for. *)
LEMMA ReleaseSettles ==
  ASSUME TypeOK, NEW a \in Actors, Release(a) PROVE Settled(a)
  <1>1. ASSUME NEW h \in Handles
        PROVE a \notin readers'[h] /\ a \notin writers'[h] /\ a \notin waiting'[h]
    BY <1>1, Zenon DEF Release
  <1>2. ASSUME NEW h \in Handles, NEW b \in Actors \ {a} PROVE b \in waiting'[h] <=> b \in waiting[h]
    BY <1>2, Zenon DEF Release
  <1> QED
    BY <1>1, <1>2, Zenon DEF Settled, OwnSides, OthersWait

(* A request that is not involved holds nothing and waits nowhere. *)
LEMMA Uninvolved ==
  ASSUME NEW r \in Requests, OwnSides(r), pc[r] \notin Involved, NEW h \in Handles
  PROVE r \notin readers[h] /\ r \notin writers[h] /\ r \notin waiting[h]
  BY RequestWork, Zenon DEF OwnSides, Involved

(* One that is at work waits nowhere. *)
LEMMA Unannounced ==
  ASSUME NEW r \in Requests, OwnSides(r), pc[r] # "wait", NEW h \in Handles
  PROVE r \notin waiting[h]
  BY RequestWork, Zenon DEF OwnSides

(* A step of a request that is not involved, and takes nothing. *)
LEMMA ElsewhereSettles ==
  ASSUME NEW r \in Requests, OwnSides(r), pc[r] \notin Involved, UNCHANGED guard
  PROVE Settled(r)
  BY Uninvolved, Zenon DEF Settled, OwnSides, OthersWait

(* A step of a request that goes on working, and takes at most a side of   *)
(* the guard.                                                              *)
LEMMA WorkSettles ==
  ASSUME NEW r \in Requests, OwnSides(r), pc[r] # "wait", pc'[r] \in Working, waiting' = waiting
  PROVE Settled(r)
  <1>1. \A h \in Handles : AtWork(r, h)'
    BY RequestWorkNext, Zenon
  <1>2. \A h \in Handles : r \notin waiting'[h]
    BY Unannounced, Zenon
  <1> QED
    BY <1>1, <1>2, Zenon DEF Settled, OwnSides, OthersWait

(* The first handle of a pair is all a resolve holds while it waits for    *)
(* the second.                                                             *)
LEMMA FirstSettles ==
  ASSUME TypeOK, NEW r \in Requests, OwnSides(r), LockFirst(r) PROVE Settled(r)
  <1>1. pc[r] \notin Involved /\ waiting' = waiting
    BY Zenon DEF LockFirst, LockFor, Involved, Working
  <1>2. \A h \in Handles : r \notin readers[h] /\ r \notin writers[h] /\ r \notin waiting[h]
    BY <1>1, Uninvolved, Zenon
  <1>3. ASSUME NEW h \in Handles, r \in readers'[h] \cup writers'[h] PROVE h = FirstHandle(r)
    <2>1. \/ readers' = readers /\ writers' = [writers EXCEPT ![FirstHandle(r)] = @ \cup {r}]
          \/ writers' = writers /\ readers' = [readers EXCEPT ![FirstHandle(r)] = @ \cup {r}]
      BY Zenon DEF LockFirst, LockFor, Grant
    <2> QED
      BY <1>2, <1>3, <2>1, Zenon DEF TypeOK, GuardType
  <1>4. pc'[r] = "second" \/ pc'[r] \in Working
    <2>1. pc' = [pc EXCEPT ![r] = "paired"] \/ pc' = [pc EXCEPT ![r] = "second"]
      BY Zenon DEF LockFirst
    <2> QED
      BY <2>1, Zenon DEF TypeOK, RequestType, Working
  <1>5. FirstHandle(r)' = FirstHandle(r)
    <2>1. op' = op /\ src' = src
      BY Zenon DEF LockFirst
    <2> QED
      BY <2>1, Zenon DEF FirstHandle, HAt, HSrc, At
  <1>6. \A h \in Handles : r \in readers'[h] \cup writers'[h] => AtWork(r, h)'
    BY <1>3, <1>4, <1>5, RequestWorkNext, Zenon
  <1> QED
    BY <1>1, <1>2, <1>6, Zenon DEF Settled, OwnSides, OthersWait

(* A deletion is announced on its handle, and nowhere else. *)
LEMMA BeginSettles ==
  ASSUME TypeOK, NEW r \in Requests, OwnSides(r), BeginSweep(r) PROVE Settled(r)
  <1>1. pc[r] \notin Involved /\ readers' = readers /\ writers' = writers
        /\ waiting' = [waiting EXCEPT ![HKey(r)] = @ \cup {r}] /\ op' = op
        /\ pc' = [pc EXCEPT ![r] = "wait"]
    BY Zenon DEF BeginSweep, Grant, Involved, Working
  <1>2. \A h \in Handles : r \notin readers[h] /\ r \notin writers[h] /\ r \notin waiting[h]
    BY <1>1, Uninvolved, Zenon
  <1>3. pc'[r] = "wait" /\ HKey(r)' = HKey(r)
    BY <1>1, Zenon DEF TypeOK, RequestType, HKey, Key
  <1>4. ASSUME NEW h \in Handles, r \in waiting'[h] PROVE h = HKey(r)
    BY <1>1, <1>2, <1>4, Zenon DEF TypeOK, GuardType
  <1>5. ASSUME NEW h \in Handles, NEW b \in Actors \ {r}
        PROVE b \in waiting'[h] <=> b \in waiting[h]
    BY <1>1, <1>5, Zenon DEF TypeOK, GuardType
  <1>6. \A h \in Handles : r \in waiting'[h] => Announced(r, h)'
    BY <1>3, <1>4, RequestWorkNext, Zenon
  <1> QED
    BY <1>1, <1>2, <1>5, <1>6, Zenon DEF Settled, OwnSides, OthersWait

(* Its announcement ends when it gets the handle. *)
LEMMA TakeSettles ==
  ASSUME TypeOK, NEW r \in Requests, OwnSides(r), TakeSweep(r) PROVE Settled(r)
  <1>1. /\ waiting' = [waiting EXCEPT ![HKey(r)] = @ \ {r}] /\ pc[r] = "wait"
        /\ pc' = [pc EXCEPT ![r] = "remove"]
    BY Zenon DEF TakeSweep
  <1>2. \A h \in Handles : r \in waiting[h] => h = HKey(r)
    BY <1>1, RequestWork, Zenon DEF OwnSides
  <1>3. pc'[r] \in Working
    BY <1>1, Zenon DEF TypeOK, RequestType, Working
  <1>4. ASSUME NEW h \in Handles PROVE r \notin waiting'[h]
    BY <1>1, <1>2, <1>4, Zenon DEF TypeOK, GuardType
  <1>5. ASSUME NEW h \in Handles, NEW b \in Actors \ {r}
        PROVE b \in waiting'[h] <=> b \in waiting[h]
    BY <1>1, <1>5, Zenon DEF TypeOK, GuardType
  <1>6. \A h \in Handles : AtWork(r, h)'
    BY <1>3, RequestWorkNext, Zenon
  <1> QED
    BY <1>4, <1>5, <1>6, Zenon DEF Settled, OwnSides, OthersWait

(* A request moves only itself. *)
LEMMA Arrives ==
  ASSUME TypeOK, NEW r \in Requests, NEW at, pc' = [pc EXCEPT ![r] = at] PROVE pc'[r] = at
  BY Zenon DEF TypeOK, RequestType

(* Every step of a request leaves it with the sides it works with. *)
LEMMA RequestSettles ==
  ASSUME DaemonInv, NEW r \in Requests, OwnSides(r), RequestStep(r) PROVE Settled(r)
  <1> r \in Actors /\ TypeOK
    BY Zenon DEF Actors, DaemonInv
  <1>1. ASSUME Arrive(r) PROVE Settled(r)
    BY <1>1, ElsewhereSettles, Zenon DEF Arrive, Involved, Working
  <1>2. ASSUME GetOpen(r) PROVE Settled(r)
    BY <1>2, ElsewhereSettles, WorkSettles, Arrives, Zenon DEF GetOpen, StartRead, Step, Involved, Working
  <1>3. ASSUME GetLookup(r) PROVE Settled(r)
    BY <1>3, ElsewhereSettles, ReleaseSettles, Zenon DEF GetLookup, End, Step, Involved, Working
  <1>4. ASSUME GetReopen(r) PROVE Settled(r)
    BY <1>4, ReleaseSettles, WorkSettles, Arrives, Zenon DEF GetReopen, Retry, StartRead, Working
  <1>5. ASSUME MirrorOpen(r) PROVE Settled(r)
    BY <1>5, ReleaseSettles, WorkSettles, Arrives, Zenon DEF MirrorOpen, StartRead, End, Working
  <1>6. ASSUME Served(r) PROVE Settled(r)
    BY <1>6, ReleaseSettles, Zenon DEF Served, End
  <1>7. ASSUME RemoveIf(r) PROVE Settled(r)
    BY <1>7, ReleaseSettles, WorkSettles, Arrives, Zenon DEF RemoveIf, Step, End, Working
  <1>8. ASSUME SaveAliases(r) PROVE Settled(r)
    BY <1>8, ReleaseSettles, Zenon DEF SaveAliases, End
  <1>9. ASSUME RegisterCheck(r) PROVE Settled(r)
    BY <1>9, ReleaseSettles, ElsewhereSettles, Zenon DEF RegisterCheck, Step, End, Involved, Working
  <1>10. ASSUME RegisterAlias(r) PROVE Settled(r)
    BY <1>10, WorkSettles, Arrives, Zenon DEF RegisterAlias, Step, Working
  <1>11. ASSUME Admit(r) PROVE Settled(r)
    BY <1>11, ReleaseSettles, ElsewhereSettles, Zenon DEF Admit, Step, End, Involved, Working
  <1>12. ASSUME Find(r) PROVE Settled(r)
    BY <1>12, ElsewhereSettles, Zenon DEF Find, Step, Involved, Working
  <1>13. ASSUME LockFirst(r) PROVE Settled(r)
    BY <1>13, FirstSettles, Zenon
  <1>14. ASSUME LockSecond(r) PROVE Settled(r)
    BY <1>14, WorkSettles, Arrives, Zenon DEF LockSecond, LockFor, Working
  <1>15. ASSUME Paired(r) PROVE Settled(r)
    BY <1>15, ReleaseSettles, WorkSettles, Arrives, Zenon DEF Paired, Retry, Step, End, Working
  <1>16. ASSUME Probe(r) PROVE Settled(r)
    BY <1>16, ReleaseSettles, ElsewhereSettles, Zenon DEF Probe, Step, End, Involved, Working
  <1>17. ASSUME PeerLock(r) PROVE Settled(r)
    BY <1>17, WorkSettles, Arrives, Zenon DEF PeerLock, Working
  <1>18. ASSUME Publish(r) PROVE Settled(r)
    BY <1>18, ReleaseSettles, WorkSettles, Arrives, Zenon DEF Publish, Step, End, Working
  <1>19. ASSUME Published(r) PROVE Settled(r)
    BY <1>19, ReleaseSettles, Zenon DEF Published, End
  <1>20. ASSUME Upload(r) PROVE Settled(r)
    BY <1>20, ReleaseSettles, ElsewhereSettles, Zenon DEF Upload, Step, End, Involved, Working
  <1>21. ASSUME BeginSweep(r) PROVE Settled(r)
    BY <1>21, BeginSettles, Zenon
  <1>22. ASSUME TakeSweep(r) PROVE Settled(r)
    BY <1>22, TakeSettles, Zenon
  <1>23. ASSUME RemoveBegins(r) PROVE Settled(r)
    BY <1>23, WorkSettles, Arrives, Zenon DEF RemoveBegins, Step, Working
  <1>24. ASSUME RemoveEnds(r) PROVE Settled(r)
    BY <1>24, ReleaseSettles, WorkSettles, Arrives, Zenon DEF RemoveEnds, Step, End, Working
  <1>25. ASSUME Rename(r) PROVE Settled(r)
    BY <1>25, ReleaseSettles, Zenon DEF Rename
  <1>26. ASSUME Register(r) PROVE Settled(r)
    BY <1>26, ReleaseSettles, Zenon DEF Register, End
  <1>27. ASSUME GiveUp(r) PROVE Settled(r)
    BY <1>27, ReleaseSettles, Zenon DEF GiveUp, End
  <1>28. ASSUME LeftTorn(r) PROVE Settled(r)
    BY <1>28, ReleaseSettles, Zenon DEF LeftTorn, End
  <1> QED
    BY <1>1, <1>2, <1>3, <1>4, <1>5, <1>6, <1>7, <1>8, <1>9, <1>10, <1>11, <1>12, <1>13,
       <1>14, <1>15, <1>16, <1>17, <1>18, <1>19, <1>20, <1>21, <1>22, <1>23, <1>24, <1>25,
       <1>26, <1>27, <1>28, Zenon DEF RequestStep, RequestNext, ReadNext, RegistryNext,
       ResolveNext, WriteNext

(* The sweeper holds its handle from the moment it gets it. *)
SweepWorking == {"stat", "removing", "forget", "save"}

(* What the definitions say of the sweeper, in this state and the next. *)
LEMMA SweeperWork ==
  ASSUME NEW h
  PROVE /\ AtWork(Sweeper, h) <=> spc \in SweepWorking
        /\ Announced(Sweeper, h) <=> spc = "wait" /\ h = cur
        /\ AtWork(Sweeper, h)' <=> spc' \in SweepWorking
        /\ Announced(Sweeper, h)' <=> spc' = "wait" /\ h = cur'
  BY Zenon DEF AtWork, Announced, SweepWorking

(* A sweeper between two handles holds nothing. *)
LEMMA SweepUninvolved ==
  ASSUME OwnSides(Sweeper), spc \in {"idle", "pick"}, NEW h \in Handles
  PROVE Sweeper \notin readers[h] /\ Sweeper \notin writers[h] /\ Sweeper \notin waiting[h]
  BY SweeperWork, Zenon DEF OwnSides, SweepWorking

(* A step between handles that takes nothing. *)
LEMMA SweepElsewhereSettles ==
  ASSUME OwnSides(Sweeper), spc \in {"idle", "pick"}, UNCHANGED guard PROVE Settled(Sweeper)
  BY SweepUninvolved, Zenon DEF Settled, OwnSides, OthersWait

(* A step at work on a handle. *)
LEMMA SweepWorkSettles ==
  ASSUME OwnSides(Sweeper), spc \in SweepWorking, spc' \in SweepWorking, UNCHANGED guard
  PROVE Settled(Sweeper)
  <1>1. \A h \in Handles : AtWork(Sweeper, h)' /\ Sweeper \notin waiting[h]
    BY SweeperWork, Zenon DEF OwnSides, SweepWorking
  <1> QED
    BY <1>1, Zenon DEF Settled, OwnSides, OthersWait

(* The next expired handle: passed over, or awaited. *)
LEMMA PickSettles ==
  ASSUME TypeOK, OwnSides(Sweeper), NEW g \in Handles, SweepPick(g) PROVE Settled(Sweeper)
  <1>1. spc \in {"idle", "pick"} /\ readers' = readers /\ writers' = writers
    BY Zenon DEF SweepPick
  <1>2. CASE waiting' = waiting
    BY <1>1, <1>2, SweepElsewhereSettles, Zenon
  <1>3. CASE /\ waiting' = [waiting EXCEPT ![g] = @ \cup {Sweeper}]
             /\ cur' = g /\ spc' = "wait"
    <2>1. \A h \in Handles : /\ Sweeper \notin readers[h] /\ Sweeper \notin writers[h]
                             /\ Sweeper \notin waiting[h]
      BY <1>1, SweepUninvolved, Zenon
    <2>2. ASSUME NEW h \in Handles, Sweeper \in waiting'[h] PROVE h = g
      BY <1>3, <2>1, <2>2, Zenon DEF TypeOK, GuardType
    <2>3. ASSUME NEW h \in Handles, NEW b \in Actors \ {Sweeper}
          PROVE b \in waiting'[h] <=> b \in waiting[h]
      BY <1>3, <2>3, Zenon DEF TypeOK, GuardType
    <2>4. \A h \in Handles : Sweeper \in waiting'[h] => Announced(Sweeper, h)'
      BY <1>3, <2>2, SweeperWork, Zenon
    <2> QED
      BY <1>1, <2>1, <2>3, <2>4, Zenon DEF Settled, OwnSides, OthersWait
  <1> QED
    BY <1>2, <1>3, Zenon DEF SweepPick, Grant

(* The awaited handle is the sweeper's. *)
LEMMA SweepTakeSettles ==
  ASSUME TypeOK, OwnSides(Sweeper), SweepTake PROVE Settled(Sweeper)
  <1>1. /\ waiting' = [waiting EXCEPT ![cur] = @ \ {Sweeper}] /\ spc = "wait"
        /\ spc' = "stat"
    BY Zenon DEF SweepTake
  <1>2. \A h \in Handles : Sweeper \in waiting[h] => h = cur
    BY <1>1, SweeperWork, Zenon DEF OwnSides
  <1>3. ASSUME NEW h \in Handles PROVE Sweeper \notin waiting'[h]
    BY <1>1, <1>2, <1>3, Zenon DEF TypeOK, GuardType
  <1>4. ASSUME NEW h \in Handles, NEW b \in Actors \ {Sweeper}
        PROVE b \in waiting'[h] <=> b \in waiting[h]
    BY <1>1, <1>4, Zenon DEF TypeOK, GuardType
  <1>5. \A h \in Handles : AtWork(Sweeper, h)'
    BY <1>1, SweeperWork, Zenon DEF SweepWorking
  <1> QED
    BY <1>3, <1>4, <1>5, Zenon DEF Settled, OwnSides, OthersWait

(* Every step of the sweeper leaves it with the handle it works with. *)
LEMMA SweepSettles ==
  ASSUME DaemonInv, OwnSides(Sweeper), SweepStep PROVE Settled(Sweeper)
  <1> Sweeper \in Actors /\ TypeOK
    BY Zenon DEF Actors, DaemonInv
  <1>1. ASSUME Sweep PROVE Settled(Sweeper)
    BY <1>1, SweepElsewhereSettles, Zenon DEF Sweep
  <1>2. ASSUME NEW h \in Handles, SweepPick(h) PROVE Settled(Sweeper)
    BY <1>2, PickSettles, Zenon
  <1>3. ASSUME SweepTake PROVE Settled(Sweeper)
    BY <1>3, SweepTakeSettles, Zenon
  <1>4. ASSUME SweepStat PROVE Settled(Sweeper)
    BY <1>4, SweepWorkSettles, ReleaseSettles, Zenon DEF SweepStat, SweepNextHandle, SweepWorking
  <1>5. ASSUME SweepRemoved PROVE Settled(Sweeper)
    BY <1>5, SweepWorkSettles, Zenon DEF SweepRemoved, SweepWorking
  <1>6. ASSUME RemoveByPath PROVE Settled(Sweeper)
    BY <1>6, SweepWorkSettles, ReleaseSettles, Zenon
    DEF RemoveByPath, SweepNextHandle, SweepWorking
  <1>7. ASSUME SweepSave PROVE Settled(Sweeper)
    BY <1>7, ReleaseSettles, Zenon DEF SweepSave, SweepNextHandle
  <1>8. ASSUME SweepFails PROVE Settled(Sweeper)
    BY <1>8, ReleaseSettles, Zenon DEF SweepFails, SweepNextHandle
  <1> QED
    BY <1>1, <1>2, <1>3, <1>4, <1>5, <1>6, <1>7, <1>8, Zenon DEF SweepStep, SweeperNext

(* The account of all is the account of each. *)
LEMMA GuardOfEach ==
  ASSUME GuardType PROVE GuardInv <=> \A a \in Actors : OwnSides(a)
  <1>1. \A h \in Handles : /\ readers[h] \in SUBSET Actors /\ writers[h] \in SUBSET Actors
                           /\ waiting[h] \in SUBSET Actors
    BY Zenon DEF GuardType
  <1>2. ASSUME GuardInv, NEW a \in Actors PROVE OwnSides(a)
    BY <1>2, Zenon DEF GuardInv, OwnSides
  <1>3. ASSUME \A a \in Actors : OwnSides(a) PROVE GuardInv
    BY <1>1, <1>3, Zenon DEF GuardInv, OwnSides
  <1> QED
    BY <1>2, <1>3, Zenon

(* The same in the next state. *)
LEMMA GuardOfEachNext ==
  ASSUME GuardType', \A a \in Actors : OwnSides(a)' PROVE GuardInv'
  <1>1. \A h \in Handles : /\ readers'[h] \in SUBSET Actors /\ writers'[h] \in SUBSET Actors
                           /\ waiting'[h] \in SUBSET Actors
    BY Zenon DEF GuardType
  <1> QED
    BY <1>1, Zenon DEF GuardInv, OwnSides

(* Whoever is left alone keeps its account. *)
LEMMA RequestLeft ==
  ASSUME NEW q \in Requests, OwnSides(q), op' = op, pc'[q] = pc[q], src'[q] = src[q],
         SameSides(q), \A h \in Handles : q \in waiting'[h] <=> q \in waiting[h]
  PROVE OwnSides(q)'
  <1>1. FirstHandle(q)' = FirstHandle(q) /\ HKey(q)' = HKey(q)
    BY Zenon DEF FirstHandle, HAt, HSrc, At, HKey, Key
  <1>2. ASSUME NEW h \in Handles
        PROVE (AtWork(q, h)' <=> AtWork(q, h)) /\ (Announced(q, h)' <=> Announced(q, h))
    BY <1>1, SweeperAssumption, Zenon DEF AtWork, Announced
  <1> QED
    BY <1>2, Zenon DEF OwnSides, SameSides

(* The sweeper too. *)
LEMMA SweeperLeft ==
  ASSUME OwnSides(Sweeper), spc' = spc, cur' = cur, SameSides(Sweeper),
         \A h \in Handles : Sweeper \in waiting'[h] <=> Sweeper \in waiting[h]
  PROVE OwnSides(Sweeper)'
  BY SweeperWork, Zenon DEF OwnSides, SameSides

(* A request keeps the account of the guard. *)
LEMMA RequestAccounts ==
  ASSUME DaemonInv, NEW r \in Requests, RequestStep(r) PROVE GuardInv'
  <1>1. \A a \in Actors : OwnSides(a)
    BY GuardOfEach, Zenon DEF DaemonInv, TypeOK
  <1>2. OthersKept(r) /\ GuardType'
    BY RequestOthers, RequestGuardTyped, Zenon
  <1>3. Settled(r)
    BY <1>1, RequestSettles, Zenon DEF Actors
  <1>4. ASSUME NEW q \in Requests \ {r} PROVE OwnSides(q)'
    BY <1>1, <1>2, <1>3, <1>4, RequestLeft, Zenon DEF OthersKept, Settled, OthersWait, Actors
  <1>5. OwnSides(Sweeper)'
    BY <1>1, <1>2, <1>3, SweeperLeft, SweeperAssumption, Zenon
    DEF OthersKept, Settled, OthersWait, Actors
  <1> QED
    BY <1>2, <1>3, <1>4, <1>5, GuardOfEachNext, Zenon DEF Settled, Actors

(* So does the sweeper. *)
LEMMA SweepAccounts ==
  ASSUME DaemonInv, SweepStep PROVE GuardInv'
  <1>1. \A a \in Actors : OwnSides(a)
    BY GuardOfEach, Zenon DEF DaemonInv, TypeOK
  <1>2. RequestsKept /\ GuardType'
    BY SweepOthers, SweepGuardTyped, Zenon
  <1>3. Settled(Sweeper)
    BY <1>1, SweepSettles, Zenon DEF Actors
  <1>4. ASSUME NEW q \in Requests PROVE OwnSides(q)'
    BY <1>1, <1>2, <1>3, <1>4, RequestLeft, SweeperAssumption, Zenon
    DEF RequestsKept, Settled, OthersWait, Actors
  <1> QED
    BY <1>2, <1>3, <1>4, GuardOfEachNext, Zenon DEF Settled, Actors

(* Nothing else touches the guard but a restart, which empties it. *)
LEMMA RestAccounts ==
  ASSUME GuardInv
  PROVE /\ UNCHANGED vars => GuardInv'
        /\ \A h \in Handles : Age(h) => GuardInv'
        /\ Starts => GuardInv'
  <1>1. ASSUME UNCHANGED <<guard, pc, op, src, spc, cur>> PROVE GuardInv'
    BY <1>1 DEF GuardInv, AtWork, Announced, FirstHandle, HAt, HSrc, At, HKey, Key
  <1>2. UNCHANGED vars => GuardInv'
    BY <1>1, Zenon DEF vars
  <1>3. \A h \in Handles : Age(h) => GuardInv'
    BY <1>1, Zenon DEF Age
  <1>4. ASSUME Starts PROVE GuardInv'
    <2>1. \A h \in Handles : readers'[h] = {} /\ writers'[h] = {} /\ waiting'[h] = {}
      BY <1>4, Zenon DEF Starts, StartUp
    <2> QED
      BY <2>1, Zenon DEF GuardInv
  <1> QED
    BY <1>2, <1>3, <1>4, Zenon

-----------------------------------------------------------------------------
(* What is at work is partial, and stays so until its work ends.           *)

(* The places at which a request has left a tree partial. *)
Partial == {"removing", "publish"}

(* Only the two steps that begin a change lead there. *)
LEMMA BeginsWork ==
  ASSUME TypeOK, NEW r \in Requests, RequestStep(r), pc'[r] \in Partial
  PROVE RemoveBegins(r) \/ Publish(r)
  <1> SUFFICES ASSUME ~RemoveBegins(r), ~Publish(r) PROVE FALSE
    BY Zenon
  <1> DEFINE To(at) == pc' = [pc EXCEPT ![r] = at]
  <1>0. ASSUME NEW at, To(at) PROVE at \in Partial
    BY <1>0, Arrives, Zenon
  <1>1. ASSUME Arrive(r) PROVE FALSE
    <2>1. op[r].kind \in Kinds
      BY Named DEF Ops
    <2> QED
      BY <1>0, <1>1, <2>1, Zenon DEF Arrive, Kinds, Partial
  <1>2. ASSUME GetOpen(r) PROVE FALSE
    BY <1>0, <1>2, Zenon DEF GetOpen, StartRead, Step, Partial
  <1>3. ASSUME GetLookup(r) PROVE FALSE
    BY <1>0, <1>3, Zenon DEF GetLookup, End, Step, Partial
  <1>4. ASSUME GetReopen(r) PROVE FALSE
    BY <1>0, <1>4, Zenon DEF GetReopen, Retry, StartRead, Partial
  <1>5. ASSUME MirrorOpen(r) PROVE FALSE
    BY <1>0, <1>5, Zenon DEF MirrorOpen, StartRead, End, Partial
  <1>6. ASSUME Served(r) PROVE FALSE
    BY <1>0, <1>6, Zenon DEF Served, End, Partial
  <1>7. ASSUME RemoveIf(r) PROVE FALSE
    BY <1>0, <1>7, Zenon DEF RemoveIf, Step, End, Partial
  <1>8. ASSUME SaveAliases(r) PROVE FALSE
    BY <1>0, <1>8, Zenon DEF SaveAliases, End, Partial
  <1>9. ASSUME RegisterCheck(r) PROVE FALSE
    BY <1>0, <1>9, Zenon DEF RegisterCheck, Step, End, Partial
  <1>10. ASSUME RegisterAlias(r) PROVE FALSE
    BY <1>0, <1>10, Zenon DEF RegisterAlias, Step, Partial
  <1>11. ASSUME Admit(r) PROVE FALSE
    BY <1>0, <1>11, Zenon DEF Admit, Step, End, Partial
  <1>12. ASSUME Find(r) PROVE FALSE
    BY <1>0, <1>12, Zenon DEF Find, Step, Partial
  <1>13. ASSUME LockFirst(r) PROVE FALSE
    BY <1>0, <1>13, Zenon DEF LockFirst, Partial
  <1>14. ASSUME LockSecond(r) PROVE FALSE
    BY <1>0, <1>14, Zenon DEF LockSecond, Partial
  <1>15. ASSUME Paired(r) PROVE FALSE
    BY <1>0, <1>15, Zenon DEF Paired, Retry, Step, End, Partial
  <1>16. ASSUME Probe(r) PROVE FALSE
    BY <1>0, <1>16, Zenon DEF Probe, Step, End, Partial
  <1>17. ASSUME PeerLock(r) PROVE FALSE
    BY <1>0, <1>17, Zenon DEF PeerLock, Partial
  <1>18. ASSUME Published(r) PROVE FALSE
    <2>1. To("done")
      BY <1>18, Zenon DEF Published, End
    <2>2. "done" \notin Partial
      BY DEF Partial
    <2> QED
      BY <1>0, <2>1, <2>2, Zenon
  <1>19. ASSUME Upload(r) PROVE FALSE
    BY <1>0, <1>19, Zenon DEF Upload, Step, End, Partial
  <1>20. ASSUME BeginSweep(r) PROVE FALSE
    BY <1>0, <1>20, Zenon DEF BeginSweep, Partial
  <1>21. ASSUME TakeSweep(r) PROVE FALSE
    BY <1>0, <1>21, Zenon DEF TakeSweep, Partial
  <1>22. ASSUME RemoveEnds(r) PROVE FALSE
    BY <1>0, <1>22, ZenonT(30) DEF RemoveEnds, Step, End, Partial
  <1>23. ASSUME Rename(r) PROVE FALSE
    BY <1>0, <1>23, Zenon DEF Rename, Partial
  <1>24. ASSUME Register(r) PROVE FALSE
    BY <1>0, <1>24, Zenon DEF Register, End, Partial
  <1>25. ASSUME GiveUp(r) PROVE FALSE
    BY <1>0, <1>25, Zenon DEF GiveUp, End, Partial
  <1>26. ASSUME LeftTorn(r) PROVE FALSE
    <2>1. To("done")
      BY <1>26, Zenon DEF LeftTorn, End
    <2>2. "done" \notin Partial
      BY DEF Partial
    <2> QED
      BY <1>0, <2>1, <2>2, Zenon
  <1> QED
    BY <1>1, <1>2, <1>3, <1>4, <1>5, <1>6, <1>7, <1>8, <1>9, <1>10, <1>11, <1>12, <1>13, <1>14, <1>15, <1>16, <1>17, <1>18, <1>19, <1>20, <1>21, <1>22, <1>23, <1>24, <1>25, <1>26, Zenon
    DEF RequestStep, RequestNext, ReadNext, RegistryNext, ResolveNext, WriteNext

(* What a writer of a handle is not, nobody is. *)
LEMMA OneWriter ==
  ASSUME DaemonInv, NEW h \in Handles, NEW a \in writers[h], NEW b \in readers[h] \cup writers[h]
  PROVE a = b
  BY Zenon DEF DaemonInv, Exclusive

(* A request leaves the trees others have begun to change as they are. *)
LEMMA RequestWorkKept ==
  ASSUME DaemonInv, NEW r \in Requests, RequestStep(r) PROVE WorkInv'
  <1>1. OthersKept(r) /\ TypeOK
    BY RequestOthers, Zenon DEF DaemonInv
  <1>2. \A p \in Paths : tree'[p] # tree[p] => r \in writers[HandleOf[p]]
    BY RequestWrites, Zenon
  <1>3. ASSUME NEW q \in Requests, q # r, NEW p \in Paths, q \in writers[HandleOf[p]]
        PROVE tree'[p] = tree[p]
    BY <1>2, <1>3, OneWriter, PathAssumption, Zenon
  <1>4. ASSUME NEW q \in Requests, q # r, pc'[q] \in Partial
        PROVE /\ pc'[q] = "removing" => tree'[Key(q)'] # "whole"
              /\ pc'[q] = "publish" => tree'[At(q)'] = "torn"
    <2>1. pc'[q] = pc[q] /\ Key(q)' = Key(q) /\ At(q)' = At(q)
      BY <1>1, <1>4, Zenon DEF OthersKept, Key, At
    <2>2. Key(q) \in Paths /\ At(q) \in Paths
      BY <1>1, <1>4, Named, Zenon
    <2>3. CASE pc[q] = "removing"
      <3>1. q \in writers[HKey(q)] /\ tree[Key(q)] # "whole"
        BY <1>4, <2>3, Zenon DEF DaemonInv, HeldInv, Held, WorkInv
      <3> QED
        BY <1>3, <1>4, <2>1, <2>2, <2>3, <3>1, Zenon DEF HKey
    <2>4. CASE pc[q] = "publish"
      <3>1. q \in writers[HAt(q)] /\ tree[At(q)] = "torn"
        BY <1>4, <2>4, Zenon DEF DaemonInv, HeldInv, Held, WorkInv
      <3> QED
        BY <1>3, <1>4, <2>1, <2>2, <2>4, <3>1, Zenon DEF HAt
    <2> QED
      BY <1>4, <2>1, <2>3, <2>4, Zenon DEF Partial
  <1>5. ASSUME pc'[r] \in Partial
        PROVE /\ pc'[r] = "removing" => tree'[Key(r)'] # "whole"
              /\ pc'[r] = "publish" => tree'[At(r)'] = "torn"
    <2>1. Key(r) \in Paths /\ At(r) \in Paths /\ tree \in [Paths -> {"none", "whole", "torn"}]
      BY <1>1, Named, Zenon DEF TypeOK, DiskType
    <2>2. CASE RemoveBegins(r)
      <3>1. pc'[r] = "removing" /\ Key(r)' = Key(r)
        BY <1>1, <2>2, Arrives, Zenon DEF RemoveBegins, Step, Key
      <3>2. tree' = [tree EXCEPT ![Key(r)] = IF @ = "none" THEN @ ELSE "torn"]
        BY <2>2, Zenon DEF RemoveBegins
      <3>3. tree'[Key(r)] \in {"none", "torn"}
        BY <2>1, <3>2
      <3> QED
        BY <3>1, <3>3
    <2>3. CASE Publish(r)
      <3>1. pc'[r] = "publish" /\ At(r)' = At(r) /\ tree' = [tree EXCEPT ![At(r)] = "torn"]
        BY <1>1, <1>5, <2>3, Arrives, Zenon DEF Publish, Step, End, Partial, At
      <3> QED
        BY <2>1, <3>1
    <2> QED
      BY <1>1, <1>5, <2>2, <2>3, BeginsWork, Zenon
  <1>6. ASSUME spc' = "removing", NEW p \in Paths, HandleOf[p] = cur' PROVE tree'[p] # "whole"
    <2>1. spc = "removing" /\ cur' = cur
      BY <1>1, <1>6, Zenon DEF OthersKept
    <2>2. Sweeper \in writers[HandleOf[p]] /\ tree[p] # "whole"
      BY <1>6, <2>1, Zenon DEF DaemonInv, HeldInv, SweeperHeld, WorkInv
    <2> QED
      BY <1>2, <2>2, OneWriter, PathAssumption, SweeperAssumption, Zenon
  <1> QED
    BY <1>4, <1>5, <1>6, Zenon DEF WorkInv, Partial

(* So does the sweeper, and it tears what it removes. *)
LEMMA SweepWorkKept ==
  ASSUME DaemonInv, SweepStep PROVE WorkInv'
  <1>1. RequestsKept /\ TypeOK
    BY SweepOthers, Zenon DEF DaemonInv
  <1>2. \A p \in Paths : tree'[p] # tree[p] => Sweeper \in writers[HandleOf[p]]
    BY SweepWrites, Zenon
  <1>3. ASSUME NEW q \in Requests, NEW p \in Paths, q \in writers[HandleOf[p]]
        PROVE tree'[p] = tree[p]
    BY <1>2, <1>3, OneWriter, PathAssumption, SweeperAssumption, Zenon
  <1>4. ASSUME NEW q \in Requests
        PROVE /\ pc'[q] = "removing" => tree'[Key(q)'] # "whole"
              /\ pc'[q] = "publish" => tree'[At(q)'] = "torn"
    <2>1. pc'[q] = pc[q] /\ Key(q)' = Key(q) /\ At(q)' = At(q)
      BY <1>1, Zenon DEF RequestsKept, Key, At
    <2>2. Key(q) \in Paths /\ At(q) \in Paths
      BY <1>1, Named, Zenon
    <2>3. CASE pc[q] = "removing"
      <3>1. q \in writers[HKey(q)] /\ tree[Key(q)] # "whole"
        BY <2>3, Zenon DEF DaemonInv, HeldInv, Held, WorkInv
      <3> QED
        BY <1>3, <2>1, <2>2, <2>3, <3>1, Zenon DEF HKey
    <2>4. CASE pc[q] = "publish"
      <3>1. q \in writers[HAt(q)] /\ tree[At(q)] = "torn"
        BY <2>4, Zenon DEF DaemonInv, HeldInv, Held, WorkInv
      <3> QED
        BY <1>3, <2>1, <2>2, <2>4, <3>1, Zenon DEF HAt
    <2> QED
      BY <2>1, <2>3, <2>4, Zenon
  <1>5. ASSUME spc' = "removing" PROVE SweepStat /\ Removing(cur) /\ cur' = cur
    BY <1>5, Zenon DEF SweepStep, SweeperNext, Sweep, SweepPick, SweepTake, SweepStat,
       SweepRemoved, RemoveByPath, SweepSave, SweepFails, SweepNextHandle
  <1>6. ASSUME spc' = "removing", NEW p \in Paths, HandleOf[p] = cur' PROVE tree'[p] # "whole"
    <2>1. cur' = cur
          /\ tree'[p] = IF HandleOf[p] = cur /\ tree[p] # "none" THEN "torn" ELSE tree[p]
      BY <1>5, <1>6, Zenon DEF Removing
    <2> QED
      BY <1>6, <2>1
  <1> QED
    BY <1>4, <1>6, Zenon DEF WorkInv

(* Nothing else changes a tree or begins to. *)
LEMMA RestWorkKept ==
  ASSUME DaemonInv
  PROVE /\ UNCHANGED vars => WorkInv'
        /\ \A h \in Handles : Age(h) => WorkInv'
        /\ Starts => WorkInv'
  <1>1. ASSUME UNCHANGED <<tree, pc, op, spc, cur>> PROVE WorkInv'
    BY <1>1, Zenon DEF DaemonInv, WorkInv, Key, At
  <1>2. ASSUME Starts PROVE WorkInv'
    <2>1. spc' = "idle" /\ \A q \in Requests : pc'[q] \in {"idle", "done"}
      BY <1>2 DEF Starts, StartUp
    <2> QED
      BY <2>1 DEF WorkInv
  <1> QED
    BY <1>1, <1>2, Zenon DEF vars, Age

=============================================================================

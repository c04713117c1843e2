------------------------ MODULE ArtifactDaemonProofs ------------------------
(***************************************************************************)
(* Proofs about ArtifactDaemon, for any set of requests, paths and handles *)
(* and any number of faults: what the registry may forget, what is saved,  *)
(* what is partial; the inductive invariant and the properties it gives;   *)
(* that the daemon keeps ArtifactContract.                                 *)
(***************************************************************************)
EXTENDS ArtifactDaemonGuard

USE DEF disk, guard, registry, local, request, sweeper

(* What a request is about to drop, or to rename into place, is gone.     *)
LEMMA RequestDrops ==
  ASSUME DaemonInv, NEW r \in Requests, RequestStep(r) PROVE (pc'[r] = "drop" => tree'[src'[r]] = "none")
         /\ (pc'[r] = "rename" => tree'[Key(r)'] = "none")
  <1>1. ASSUME Arrive(r) PROVE (pc'[r] = "drop" => tree'[src'[r]] = "none")
         /\ (pc'[r] = "rename" => tree'[Key(r)'] = "none")
    <2>1. pc'[r] \in Kinds
      BY <1>1, Named, Zenon DEF Arrive, DaemonInv, TypeOK, RequestType, Ops
    <2> QED
      BY <2>1, Zenon DEF Kinds
  <1>2. ASSUME GetOpen(r) PROVE (pc'[r] = "drop" => tree'[src'[r]] = "none")
         /\ (pc'[r] = "rename" => tree'[Key(r)'] = "none")
    BY <1>2, Named, Zenon DEF GetOpen, StartRead, Step, Grant, CanRead, Key, HKey, DaemonInv,
       TypeOK, RequestType, DiskType, DropInv, Kinds
  <1>3. ASSUME GetLookup(r) PROVE (pc'[r] = "drop" => tree'[src'[r]] = "none")
         /\ (pc'[r] = "rename" => tree'[Key(r)'] = "none")
    BY <1>3, Named, Zenon DEF GetLookup, End, Release, Step, Key, HKey, DaemonInv, TypeOK,
       RequestType, DiskType, DropInv, Kinds
  <1>4. ASSUME GetReopen(r) PROVE (pc'[r] = "drop" => tree'[src'[r]] = "none")
         /\ (pc'[r] = "rename" => tree'[Key(r)'] = "none")
    BY <1>4, Named, Zenon DEF GetReopen, Retry, StartRead, Release, Grant, CanRead, HSrc, Key,
       HKey, DaemonInv, TypeOK, RequestType, DiskType, DropInv, Kinds
  <1>5. ASSUME MirrorOpen(r) PROVE (pc'[r] = "drop" => tree'[src'[r]] = "none")
         /\ (pc'[r] = "rename" => tree'[Key(r)'] = "none")
    BY <1>5, Named, Zenon DEF MirrorOpen, StartRead, End, Release, Grant, CanRead, Key, HKey,
       DaemonInv, TypeOK, RequestType, DiskType, DropInv, Kinds
  <1>6. ASSUME Served(r) PROVE (pc'[r] = "drop" => tree'[src'[r]] = "none")
         /\ (pc'[r] = "rename" => tree'[Key(r)'] = "none")
    BY <1>6, Named, Zenon DEF Served, End, Release, DaemonInv, TypeOK, RequestType, DiskType,
       DropInv, Key, Kinds
  <1>7. ASSUME RemoveIf(r) PROVE (pc'[r] = "drop" => tree'[src'[r]] = "none")
         /\ (pc'[r] = "rename" => tree'[Key(r)'] = "none")
    BY <1>7, Named, Zenon DEF RemoveIf, Mutate, Step, End, Release, Key, DaemonInv, TypeOK,
       RequestType, DiskType, DropInv, Kinds
  <1>8. ASSUME SaveAliases(r) PROVE (pc'[r] = "drop" => tree'[src'[r]] = "none")
         /\ (pc'[r] = "rename" => tree'[Key(r)'] = "none")
    BY <1>8, Named, Zenon DEF SaveAliases, Save, End, Release, DaemonInv, TypeOK, RequestType,
       DiskType, DropInv, Key, Kinds
  <1>9. ASSUME RegisterCheck(r) PROVE (pc'[r] = "drop" => tree'[src'[r]] = "none")
         /\ (pc'[r] = "rename" => tree'[Key(r)'] = "none")
    BY <1>9, Named, Zenon DEF RegisterCheck, End, Release, Step, At, DaemonInv, TypeOK,
       RequestType, DiskType, DropInv, Key, Kinds
  <1>10. ASSUME RegisterAlias(r) PROVE (pc'[r] = "drop" => tree'[src'[r]] = "none")
         /\ (pc'[r] = "rename" => tree'[Key(r)'] = "none")
    BY <1>10, Named, Zenon DEF RegisterAlias, Step, Key, At, DaemonInv, TypeOK, RequestType,
       DiskType, DropInv, Kinds
  <1>11. ASSUME Admit(r) PROVE (pc'[r] = "drop" => tree'[src'[r]] = "none")
         /\ (pc'[r] = "rename" => tree'[Key(r)'] = "none")
    BY <1>11, Named, Zenon DEF Admit, Step, End, Release, DaemonInv, TypeOK, RequestType, DiskType,
       DropInv, Key, Kinds
  <1>12. ASSUME Find(r) PROVE (pc'[r] = "drop" => tree'[src'[r]] = "none")
         /\ (pc'[r] = "rename" => tree'[Key(r)'] = "none")
    BY <1>12, Named, Zenon DEF Find, Step, Key, DaemonInv, TypeOK, RequestType, DiskType, DropInv,
       Kinds
  <1>13. ASSUME LockFirst(r) PROVE (pc'[r] = "drop" => tree'[src'[r]] = "none")
         /\ (pc'[r] = "rename" => tree'[Key(r)'] = "none")
    BY <1>13, Named, Zenon DEF LockFirst, LockFor, Grant, CanRead, CanWrite, At, HAt, HSrc,
       DaemonInv, TypeOK, RequestType, DiskType, DropInv, Key, Kinds
  <1>14. ASSUME LockSecond(r) PROVE (pc'[r] = "drop" => tree'[src'[r]] = "none")
         /\ (pc'[r] = "rename" => tree'[Key(r)'] = "none")
    BY <1>14, Named, Zenon DEF LockSecond, LockFor, Grant, CanRead, CanWrite, At, HAt, HSrc,
       DaemonInv, TypeOK, RequestType, DiskType, DropInv, Key, Kinds
  <1>15. ASSUME Paired(r) PROVE (pc'[r] = "drop" => tree'[src'[r]] = "none")
         /\ (pc'[r] = "rename" => tree'[Key(r)'] = "none")
    BY <1>15, Named, ZenonT(30) DEF Paired, Retry, Step, End, Release, Key, At, HAt, HSrc, DaemonInv,
       TypeOK, RequestType, DiskType, DropInv, Kinds
  <1>16. ASSUME Probe(r) PROVE (pc'[r] = "drop" => tree'[src'[r]] = "none")
         /\ (pc'[r] = "rename" => tree'[Key(r)'] = "none")
    BY <1>16, Named, Zenon DEF Probe, End, Release, Step, DaemonInv, TypeOK, RequestType, DiskType,
       DropInv, Key, Kinds
  <1>17. ASSUME PeerLock(r) PROVE (pc'[r] = "drop" => tree'[src'[r]] = "none")
         /\ (pc'[r] = "rename" => tree'[Key(r)'] = "none")
    BY <1>17, Named, Zenon DEF PeerLock, CanWrite, Grant, At, HAt, HSrc, DaemonInv, TypeOK,
       RequestType, DiskType, DropInv, Key, Kinds
  <1>18. ASSUME Publish(r) PROVE (pc'[r] = "drop" => tree'[src'[r]] = "none")
         /\ (pc'[r] = "rename" => tree'[Key(r)'] = "none")
    <2>1. pc'[r] \in {"done", "publish"}
      BY <1>18, Zenon DEF Publish, End, Step, DaemonInv, TypeOK, RequestType
    <2> QED
      BY <2>1, Zenon
  <1>19. ASSUME Published(r) PROVE (pc'[r] = "drop" => tree'[src'[r]] = "none")
         /\ (pc'[r] = "rename" => tree'[Key(r)'] = "none")
    BY <1>19, Named, Zenon DEF Published, End, Release, At, DaemonInv, TypeOK, RequestType,
       DiskType, DropInv, Key, Kinds
  <1>20. ASSUME Upload(r) PROVE (pc'[r] = "drop" => tree'[src'[r]] = "none")
         /\ (pc'[r] = "rename" => tree'[Key(r)'] = "none")
    BY <1>20, Named, Zenon DEF Upload, Step, End, Release, DaemonInv, TypeOK, RequestType,
       DiskType, DropInv, Key, Kinds
  <1>21. ASSUME BeginSweep(r) PROVE (pc'[r] = "drop" => tree'[src'[r]] = "none")
         /\ (pc'[r] = "rename" => tree'[Key(r)'] = "none")
    BY <1>21, Named, Zenon DEF BeginSweep, Grant, Key, HKey, DaemonInv, TypeOK, RequestType,
       DiskType, DropInv, Kinds
  <1>22. ASSUME TakeSweep(r) PROVE (pc'[r] = "drop" => tree'[src'[r]] = "none")
         /\ (pc'[r] = "rename" => tree'[Key(r)'] = "none")
    BY <1>22, Named, Zenon DEF TakeSweep, Grant, Key, HKey, DaemonInv, TypeOK, RequestType,
       DiskType, DropInv, Kinds
  <1>23. ASSUME RemoveBegins(r) PROVE (pc'[r] = "drop" => tree'[src'[r]] = "none")
         /\ (pc'[r] = "rename" => tree'[Key(r)'] = "none")
    BY <1>23, Named, Zenon DEF RemoveBegins, Step, Key, DaemonInv, TypeOK, RequestType, DiskType,
       DropInv, Kinds
  <1>24. ASSUME RemoveEnds(r) PROVE (pc'[r] = "drop" => tree'[src'[r]] = "none")
         /\ (pc'[r] = "rename" => tree'[Key(r)'] = "none")
    BY <1>24, Named, Zenon DEF RemoveEnds, Step, End, Release, Key, HKey, DaemonInv, TypeOK,
       RequestType, DiskType, DropInv, Kinds
  <1>25. ASSUME Rename(r) PROVE (pc'[r] = "drop" => tree'[src'[r]] = "none")
         /\ (pc'[r] = "rename" => tree'[Key(r)'] = "none")
    BY <1>25, Named, Zenon DEF Rename, Release, Key, HKey, DaemonInv, TypeOK, RequestType,
       DiskType, DropInv, Kinds
  <1>26. ASSUME Register(r) PROVE (pc'[r] = "drop" => tree'[src'[r]] = "none")
         /\ (pc'[r] = "rename" => tree'[Key(r)'] = "none")
    BY <1>26, Named, Zenon DEF Register, End, Release, Key, DaemonInv, TypeOK, RequestType,
       DiskType, DropInv, Kinds
  <1>27. ASSUME GiveUp(r) PROVE (pc'[r] = "drop" => tree'[src'[r]] = "none")
         /\ (pc'[r] = "rename" => tree'[Key(r)'] = "none")
    BY <1>27, Named, Zenon DEF GiveUp, End, Release, HAt, DaemonInv, TypeOK, RequestType, DiskType,
       DropInv, Key, Kinds
  <1>28. ASSUME LeftTorn(r) PROVE (pc'[r] = "drop" => tree'[src'[r]] = "none")
         /\ (pc'[r] = "rename" => tree'[Key(r)'] = "none")
    BY <1>28, Named, Zenon DEF LeftTorn, Fault, End, Release, DaemonInv, TypeOK, RequestType,
       DiskType, DropInv, Key, Kinds
  <1> QED
    BY <1>1, <1>2, <1>3, <1>4, <1>5, <1>6, <1>7, <1>8, <1>9, <1>10, <1>11, <1>12, <1>13,
       <1>14, <1>15, <1>16, <1>17, <1>18, <1>19, <1>20, <1>21, <1>22, <1>23, <1>24, <1>25,
       <1>26, <1>27, <1>28, ZenonT(30) DEF RequestStep, RequestNext, ReadNext, RegistryNext,
       ResolveNext, WriteNext

(* A request saves the latest aliases, and alone.                         *)
LEMMA RequestSaves ==
  ASSUME DaemonInv, NEW r \in Requests, RequestStep(r) PROVE (SaveInv /\ AliasesSaved)'
  <1>0. spc' = spc /\ \A q \in Requests : q # r => pc'[q] = pc[q]
    BY RequestOthers, Zenon DEF OthersKept
  <1>1. CASE Idle(r)
    BY <1>0, <1>1, Zenon DEF Idle, DaemonInv, SaveInv, AliasesSaved
  <1>2. CASE SaveAliases(r)
    <2>1. pc[r] = "save" /\ pc'[r] = "done" /\ saver = {r} /\ saver' = {} /\ aliases' = aliases
          /\ (file' = aliases \/ unsaved')
      BY <1>2, Zenon DEF SaveAliases, Save, End, DaemonInv, SaveInv, TypeOK, RequestType
    <2> QED
      BY <1>0, <2>1, SweeperAssumption, Zenon DEF DaemonInv, SaveInv, AliasesSaved
  <1>3. CASE RegisterAlias(r)
    <2>1. pc'[r] = "save" /\ saver = {} /\ saver' = {r} /\ snap'[r] = aliases'
      BY <1>3, Zenon DEF RegisterAlias, Step, DaemonInv, TypeOK, RequestType, RegistryType, Actors
    <2> QED
      BY <1>0, <2>1, SweeperAssumption, Zenon DEF DaemonInv, SaveInv, AliasesSaved
  <1>4. CASE RemoveIf(r)
    <2>1. CASE saver' = {}
      <3>1. pc'[r] = "done" /\ saver = {} /\ UNCHANGED <<aliases, file, unsaved>>
        BY <1>4, <2>1, Zenon DEF RemoveIf, Mutate, End, DaemonInv, TypeOK, RequestType
      <3> QED
        BY <1>0, <2>1, <3>1, SweeperAssumption, Zenon DEF DaemonInv, SaveInv, AliasesSaved
    <2>2. CASE saver' # {}
      <3>1. pc'[r] = "save" /\ saver = {} /\ saver' = {r} /\ snap'[r] = aliases'
        BY <1>4, <2>2, Zenon
        DEF RemoveIf, Mutate, Step, DaemonInv, TypeOK, RequestType, RegistryType, Actors
      <3> QED
        BY <1>0, <3>1, SweeperAssumption, Zenon DEF DaemonInv, SaveInv, AliasesSaved
    <2> QED
      BY <2>1, <2>2, Zenon
  <1> QED
    BY <1>1, <1>2, <1>3, <1>4, RequestIdle, Zenon

(* So does the sweeper.                                                   *)
LEMMA SweepSaves ==
  ASSUME DaemonInv, SweepStep PROVE (SaveInv /\ AliasesSaved)'
  <1>1. ASSUME Sweep PROVE (SaveInv /\ AliasesSaved)'
    BY <1>1, SweeperAssumption, Zenon DEF Sweep, DaemonInv, TypeOK, RegistryType, RequestType,
       Aliases, Actors, SaveInv, AliasesSaved, SweeperType
  <1>2. ASSUME NEW h \in Handles, SweepPick(h) PROVE (SaveInv /\ AliasesSaved)'
    BY <1>2, SweeperAssumption, Zenon DEF SweepPick, Grant, DaemonInv, TypeOK, RegistryType,
       RequestType, Aliases, Actors, SaveInv, AliasesSaved, SweeperType
  <1>3. ASSUME SweepTake PROVE (SaveInv /\ AliasesSaved)'
    BY <1>3, SweeperAssumption, Zenon DEF SweepTake, Grant, DaemonInv, TypeOK, RegistryType,
       RequestType, Aliases, Actors, SaveInv, AliasesSaved, SweeperType
  <1>4. ASSUME SweepStat PROVE (SaveInv /\ AliasesSaved)'
    BY <1>4, SweeperAssumption, Zenon DEF SweepStat, SweepNextHandle, Release, Removing, DaemonInv,
       TypeOK, RegistryType, RequestType, Aliases, Actors, SaveInv, AliasesSaved,
       SweeperType
  <1>5. ASSUME SweepRemoved PROVE (SaveInv /\ AliasesSaved)'
    BY <1>5, SweeperAssumption, Zenon DEF SweepRemoved, DaemonInv, TypeOK, RegistryType,
       RequestType, Aliases, Actors, SaveInv, AliasesSaved, SweeperType
  <1>6. ASSUME RemoveByPath PROVE (SaveInv /\ AliasesSaved)'
    <2>1. CASE saver' = {}
      <3>1. spc # "save" /\ spc' # "save" /\ saver = {} /\ UNCHANGED <<aliases, file, unsaved, pc>>
        BY <1>6, <2>1, Zenon DEF RemoveByPath, Mutate, SweepNextHandle
      <3> QED
        BY <2>1, <3>1, SweeperAssumption, Zenon DEF DaemonInv, SaveInv, AliasesSaved
    <2>2. CASE saver' # {}
      <3>1. /\ spc' = "save" /\ saver = {} /\ saver' = {Sweeper} /\ snap'[Sweeper] = aliases'
            /\ UNCHANGED pc
        BY <1>6, <2>2, Zenon
        DEF RemoveByPath, Mutate, SweepNextHandle, DaemonInv, TypeOK, RegistryType, Actors
      <3> QED
        BY <3>1, SweeperAssumption, Zenon DEF DaemonInv, SaveInv, AliasesSaved
    <2> QED
      BY <2>1, <2>2, Zenon
  <1>7. ASSUME SweepSave PROVE (SaveInv /\ AliasesSaved)'
    BY <1>7, SweeperAssumption, Zenon DEF SweepSave, Save, SweepNextHandle, Release, DaemonInv,
       TypeOK, RegistryType, RequestType, Aliases, Actors, SaveInv, AliasesSaved,
       SweeperType
  <1>8. ASSUME SweepFails PROVE (SaveInv /\ AliasesSaved)'
    BY <1>8, SweeperAssumption, Zenon DEF SweepFails, Fault, SweepNextHandle, Release, DaemonInv,
       TypeOK, RegistryType, RequestType, Aliases, Actors, SaveInv, AliasesSaved,
       SweeperType
  <1> QED
    BY <1>1, <1>2, <1>3, <1>4, <1>5, <1>6, <1>7, <1>8, Zenon DEF SweepStep, SweeperNext

(* A tree that is partial after a step of a request is one it works on, or was*)
(* partial before and the request did not work on it.                     *)
LEMMA RequestWorks ==
  ASSUME DaemonInv, NEW r \in Requests, RequestStep(r) PROVE \A p \in Paths : tree'[p] = "torn" /\ faults' = 0 =>
           faults = 0 /\ (Works(r, p)' \/ (tree[p] = "torn" /\ ~Works(r, p)))
  <1>1. ASSUME Arrive(r) PROVE \A p \in Paths : tree'[p] = "torn" /\ faults' = 0 =>
           faults = 0 /\ (Works(r, p)' \/ (tree[p] = "torn" /\ ~Works(r, p)))
    BY <1>1, Named, Zenon DEF Arrive, DaemonInv, TypeOK, DiskType, RequestType, SweeperType, Works,
       Key, At
  <1>2. ASSUME GetOpen(r) PROVE \A p \in Paths : tree'[p] = "torn" /\ faults' = 0 =>
           faults = 0 /\ (Works(r, p)' \/ (tree[p] = "torn" /\ ~Works(r, p)))
    BY <1>2, Named, Zenon DEF GetOpen, StartRead, Step, Grant, CanRead, Key, HKey, DaemonInv,
       TypeOK, DiskType, RequestType, SweeperType, Works, At
  <1>3. ASSUME GetLookup(r) PROVE \A p \in Paths : tree'[p] = "torn" /\ faults' = 0 =>
           faults = 0 /\ (Works(r, p)' \/ (tree[p] = "torn" /\ ~Works(r, p)))
    BY <1>3, Named, Zenon DEF GetLookup, End, Release, Step, Key, HKey, DaemonInv, TypeOK,
       DiskType, RequestType, SweeperType, Works, At
  <1>4. ASSUME GetReopen(r) PROVE \A p \in Paths : tree'[p] = "torn" /\ faults' = 0 =>
           faults = 0 /\ (Works(r, p)' \/ (tree[p] = "torn" /\ ~Works(r, p)))
    BY <1>4, Named, Zenon DEF GetReopen, Retry, StartRead, Release, Grant, CanRead, HSrc, Key,
       HKey, DaemonInv, TypeOK, DiskType, RequestType, SweeperType, Works, At
  <1>5. ASSUME MirrorOpen(r) PROVE \A p \in Paths : tree'[p] = "torn" /\ faults' = 0 =>
           faults = 0 /\ (Works(r, p)' \/ (tree[p] = "torn" /\ ~Works(r, p)))
    BY <1>5, Named, Zenon DEF MirrorOpen, StartRead, End, Release, Grant, CanRead, Key, HKey,
       DaemonInv, TypeOK, DiskType, RequestType, SweeperType, Works, At
  <1>6. ASSUME Served(r) PROVE \A p \in Paths : tree'[p] = "torn" /\ faults' = 0 =>
           faults = 0 /\ (Works(r, p)' \/ (tree[p] = "torn" /\ ~Works(r, p)))
    BY <1>6, Named, Zenon DEF Served, End, Release, DaemonInv, TypeOK, DiskType, RequestType,
       SweeperType, Works, Key, At
  <1>7. ASSUME RemoveIf(r) PROVE \A p \in Paths : tree'[p] = "torn" /\ faults' = 0 =>
           faults = 0 /\ (Works(r, p)' \/ (tree[p] = "torn" /\ ~Works(r, p)))
    BY <1>7, Named, Zenon DEF RemoveIf, Mutate, Step, End, Release, Key, DaemonInv, TypeOK,
       DiskType, RequestType, SweeperType, Works, At
  <1>8. ASSUME SaveAliases(r) PROVE \A p \in Paths : tree'[p] = "torn" /\ faults' = 0 =>
           faults = 0 /\ (Works(r, p)' \/ (tree[p] = "torn" /\ ~Works(r, p)))
    BY <1>8, Named, Zenon DEF SaveAliases, Save, End, Release, DaemonInv, TypeOK, DiskType,
       RequestType, SweeperType, Works, Key, At
  <1>9. ASSUME RegisterCheck(r) PROVE \A p \in Paths : tree'[p] = "torn" /\ faults' = 0 =>
           faults = 0 /\ (Works(r, p)' \/ (tree[p] = "torn" /\ ~Works(r, p)))
    BY <1>9, Named, Zenon DEF RegisterCheck, End, Release, Step, At, DaemonInv, TypeOK, DiskType,
       RequestType, SweeperType, Works, Key
  <1>10. ASSUME RegisterAlias(r) PROVE \A p \in Paths : tree'[p] = "torn" /\ faults' = 0 =>
           faults = 0 /\ (Works(r, p)' \/ (tree[p] = "torn" /\ ~Works(r, p)))
    BY <1>10, Named, Zenon DEF RegisterAlias, Step, Key, At, DaemonInv, TypeOK, DiskType,
       RequestType, SweeperType, Works
  <1>11. ASSUME Admit(r) PROVE \A p \in Paths : tree'[p] = "torn" /\ faults' = 0 =>
           faults = 0 /\ (Works(r, p)' \/ (tree[p] = "torn" /\ ~Works(r, p)))
    BY <1>11, Named, Zenon DEF Admit, Step, End, Release, DaemonInv, TypeOK, DiskType, RequestType,
       SweeperType, Works, Key, At
  <1>12. ASSUME Find(r) PROVE \A p \in Paths : tree'[p] = "torn" /\ faults' = 0 =>
           faults = 0 /\ (Works(r, p)' \/ (tree[p] = "torn" /\ ~Works(r, p)))
    BY <1>12, Named, Zenon DEF Find, Step, Key, DaemonInv, TypeOK, DiskType, RequestType,
       SweeperType, Works, At
  <1>13. ASSUME LockFirst(r) PROVE \A p \in Paths : tree'[p] = "torn" /\ faults' = 0 =>
           faults = 0 /\ (Works(r, p)' \/ (tree[p] = "torn" /\ ~Works(r, p)))
    BY <1>13, Named, Zenon DEF LockFirst, LockFor, Grant, CanRead, CanWrite, At, HAt, HSrc,
       DaemonInv, TypeOK, DiskType, RequestType, SweeperType, Works, Key
  <1>14. ASSUME LockSecond(r) PROVE \A p \in Paths : tree'[p] = "torn" /\ faults' = 0 =>
           faults = 0 /\ (Works(r, p)' \/ (tree[p] = "torn" /\ ~Works(r, p)))
    BY <1>14, Named, Zenon DEF LockSecond, LockFor, Grant, CanRead, CanWrite, At, HAt, HSrc,
       DaemonInv, TypeOK, DiskType, RequestType, SweeperType, Works, Key
  <1>15. ASSUME Paired(r) PROVE \A p \in Paths : tree'[p] = "torn" /\ faults' = 0 =>
           faults = 0 /\ (Works(r, p)' \/ (tree[p] = "torn" /\ ~Works(r, p)))
    BY <1>15, Named, Zenon DEF Paired, Retry, Step, End, Release, Key, At, HAt, HSrc, DaemonInv,
       TypeOK, DiskType, RequestType, SweeperType, Works
  <1>16. ASSUME Probe(r) PROVE \A p \in Paths : tree'[p] = "torn" /\ faults' = 0 =>
           faults = 0 /\ (Works(r, p)' \/ (tree[p] = "torn" /\ ~Works(r, p)))
    BY <1>16, Named, Zenon DEF Probe, End, Release, Step, DaemonInv, TypeOK, DiskType, RequestType,
       SweeperType, Works, Key, At
  <1>17. ASSUME PeerLock(r) PROVE \A p \in Paths : tree'[p] = "torn" /\ faults' = 0 =>
           faults = 0 /\ (Works(r, p)' \/ (tree[p] = "torn" /\ ~Works(r, p)))
    BY <1>17, Named, Zenon DEF PeerLock, CanWrite, Grant, At, HAt, HSrc, DaemonInv, TypeOK,
       DiskType, RequestType, SweeperType, Works, Key
  <1>18. ASSUME Publish(r) PROVE \A p \in Paths : tree'[p] = "torn" /\ faults' = 0 =>
           faults = 0 /\ (Works(r, p)' \/ (tree[p] = "torn" /\ ~Works(r, p)))
    BY <1>18, Named, Zenon DEF Publish, End, Release, Step, At, HAt, HSrc, DaemonInv, TypeOK,
       DiskType, RequestType, SweeperType, Works, Key
  <1>19. ASSUME Published(r) PROVE \A p \in Paths : tree'[p] = "torn" /\ faults' = 0 =>
           faults = 0 /\ (Works(r, p)' \/ (tree[p] = "torn" /\ ~Works(r, p)))
    BY <1>19, Named, Zenon DEF Published, End, Release, At, DaemonInv, TypeOK, DiskType,
       RequestType, SweeperType, Works, Key
  <1>20. ASSUME Upload(r) PROVE \A p \in Paths : tree'[p] = "torn" /\ faults' = 0 =>
           faults = 0 /\ (Works(r, p)' \/ (tree[p] = "torn" /\ ~Works(r, p)))
    BY <1>20, Named, Zenon DEF Upload, Step, End, Release, DaemonInv, TypeOK, DiskType,
       RequestType, SweeperType, Works, Key, At
  <1>21. ASSUME BeginSweep(r) PROVE \A p \in Paths : tree'[p] = "torn" /\ faults' = 0 =>
           faults = 0 /\ (Works(r, p)' \/ (tree[p] = "torn" /\ ~Works(r, p)))
    BY <1>21, Named, Zenon DEF BeginSweep, Grant, Key, HKey, DaemonInv, TypeOK, DiskType,
       RequestType, SweeperType, Works, At
  <1>22. ASSUME TakeSweep(r) PROVE \A p \in Paths : tree'[p] = "torn" /\ faults' = 0 =>
           faults = 0 /\ (Works(r, p)' \/ (tree[p] = "torn" /\ ~Works(r, p)))
    BY <1>22, Named, Zenon DEF TakeSweep, Grant, Key, HKey, DaemonInv, TypeOK, DiskType,
       RequestType, SweeperType, Works, At
  <1>23. ASSUME RemoveBegins(r) PROVE \A p \in Paths : tree'[p] = "torn" /\ faults' = 0 =>
           faults = 0 /\ (Works(r, p)' \/ (tree[p] = "torn" /\ ~Works(r, p)))
    BY <1>23, Named, Zenon DEF RemoveBegins, Step, Key, DaemonInv, TypeOK, DiskType, RequestType,
       SweeperType, Works, At
  <1>24. ASSUME RemoveEnds(r) PROVE \A p \in Paths : tree'[p] = "torn" /\ faults' = 0 =>
           faults = 0 /\ (Works(r, p)' \/ (tree[p] = "torn" /\ ~Works(r, p)))
    BY <1>24, Named, Zenon DEF RemoveEnds, Step, End, Release, Key, HKey, DaemonInv, TypeOK,
       DiskType, RequestType, SweeperType, Works, At
  <1>25. ASSUME Rename(r) PROVE \A p \in Paths : tree'[p] = "torn" /\ faults' = 0 =>
           faults = 0 /\ (Works(r, p)' \/ (tree[p] = "torn" /\ ~Works(r, p)))
    BY <1>25, Named, Zenon DEF Rename, Release, Key, HKey, DaemonInv, TypeOK, DiskType,
       RequestType, SweeperType, Works, At
  <1>26. ASSUME Register(r) PROVE \A p \in Paths : tree'[p] = "torn" /\ faults' = 0 =>
           faults = 0 /\ (Works(r, p)' \/ (tree[p] = "torn" /\ ~Works(r, p)))
    BY <1>26, Named, Zenon DEF Register, End, Release, Key, DaemonInv, TypeOK, DiskType,
       RequestType, SweeperType, Works, At
  <1>27. ASSUME GiveUp(r) PROVE \A p \in Paths : tree'[p] = "torn" /\ faults' = 0 =>
           faults = 0 /\ (Works(r, p)' \/ (tree[p] = "torn" /\ ~Works(r, p)))
    BY <1>27, Named, Zenon DEF GiveUp, End, Release, HAt, DaemonInv, TypeOK, DiskType, RequestType,
       SweeperType, Works, Key, At
  <1>28. ASSUME LeftTorn(r) PROVE \A p \in Paths : tree'[p] = "torn" /\ faults' = 0 =>
           faults = 0 /\ (Works(r, p)' \/ (tree[p] = "torn" /\ ~Works(r, p)))
    <2>1. faults' = faults + 1 /\ faults \in Nat
      BY <1>28, Zenon DEF LeftTorn, Fault, DaemonInv, TypeOK, SweeperType
    <2> QED
      BY <2>1
  <1> QED
    BY <1>1, <1>2, <1>3, <1>4, <1>5, <1>6, <1>7, <1>8, <1>9, <1>10, <1>11, <1>12, <1>13,
       <1>14, <1>15, <1>16, <1>17, <1>18, <1>19, <1>20, <1>21, <1>22, <1>23, <1>24, <1>25,
       <1>26, <1>27, <1>28, ZenonT(30) DEF RequestStep, RequestNext, ReadNext, RegistryNext,
       ResolveNext, WriteNext

(* A tree is partial while somebody is at work on it, until something fails.*)
LEMMA RequestTorn ==
  ASSUME DaemonInv, NEW r \in Requests, RequestStep(r) PROVE TornInv'
  <1>1. OthersKept(r)
    BY RequestOthers, Zenon
  <1>2. \A q \in Requests, p \in Paths : q # r /\ Works(q, p) => Works(q, p)'
    BY <1>1, Zenon DEF OthersKept, Works, Key, At
  <1> QED
    BY <1>1, <1>2, RequestWorks, Zenon DEF OthersKept, DaemonInv, TornInv, Changing

(* So it is for the sweeper.                                              *)
LEMMA SweepTorn ==
  ASSUME DaemonInv, SweepStep PROVE TornInv'
  <1>1. ASSUME Sweep PROVE TornInv'
    BY <1>1, Zenon DEF Sweep, DaemonInv, TypeOK, DiskType, SweeperType, TornInv, Changing, Works, Key, At
  <1>2. ASSUME NEW h \in Handles, SweepPick(h) PROVE TornInv'
    BY <1>2, Zenon DEF SweepPick, Grant, DaemonInv, TypeOK, DiskType, SweeperType, TornInv, Changing, Works,
       Key, At
  <1>3. ASSUME SweepTake PROVE TornInv'
    BY <1>3, ZenonT(30) DEF SweepTake, Grant, DaemonInv, TypeOK, DiskType, SweeperType, TornInv, Changing, Works,
       Key, At
  <1>4. ASSUME SweepStat PROVE TornInv'
    <2>1. pc' = pc /\ op' = op /\ cur' = cur
      BY <1>4, Zenon DEF SweepStat
    <2>2. \A p \in Paths : tree'[p] = "torn" /\ faults' = 0 =>
             faults = 0 /\ ((tree[p] = "torn" /\ spc # "removing")
                             \/ (spc' = "removing" /\ HandleOf[p] = cur)
                             \/ (tree[p] = "torn" /\ HandleOf[p] # cur))
      BY <1>4, Zenon DEF SweepStat, SweepNextHandle, Removing, DaemonInv, TypeOK, DiskType, SweeperType
    <2> QED
      BY <2>1, <2>2, Zenon DEF DaemonInv, TornInv, Changing, Works, Key, At
  <1>5. ASSUME SweepRemoved PROVE TornInv'
    <2>1. pc' = pc /\ op' = op /\ cur' = cur
      BY <1>5, Zenon DEF SweepRemoved
    <2>2. \A p \in Paths : tree'[p] = "torn" /\ faults' = 0 =>
             faults = 0 /\ ((tree[p] = "torn" /\ spc # "removing")
                             \/ (spc' = "removing" /\ HandleOf[p] = cur)
                             \/ (tree[p] = "torn" /\ HandleOf[p] # cur))
      BY <1>5, Zenon DEF SweepRemoved, DaemonInv, TypeOK, DiskType, SweeperType
    <2> QED
      BY <2>1, <2>2, Zenon DEF DaemonInv, TornInv, Changing, Works, Key, At
  <1>6. ASSUME RemoveByPath PROVE TornInv'
    BY <1>6, Zenon DEF RemoveByPath, Mutate, SweepNextHandle, Release, DaemonInv, TypeOK, DiskType,
       SweeperType, TornInv, Changing, Works, Key, At
  <1>7. ASSUME SweepSave PROVE TornInv'
    BY <1>7, ZenonT(30) DEF SweepSave, Save, SweepNextHandle, Release, DaemonInv, TypeOK, DiskType,
       SweeperType, TornInv, Changing, Works, Key, At
  <1>8. ASSUME SweepFails PROVE TornInv'
    <2>1. pc' = pc /\ op' = op /\ cur' = cur
      BY <1>8, Zenon DEF SweepFails
    <2>2. \A p \in Paths : tree'[p] = "torn" /\ faults' = 0 =>
             faults = 0 /\ ((tree[p] = "torn" /\ spc # "removing")
                             \/ (spc' = "removing" /\ HandleOf[p] = cur)
                             \/ (tree[p] = "torn" /\ HandleOf[p] # cur))
      BY <1>8 DEF SweepFails, Fault, DaemonInv, TypeOK, DiskType, SweeperType
    <2> QED
      BY <2>1, <2>2, Zenon DEF DaemonInv, TornInv, Changing, Works, Key, At
  <1> QED
    BY <1>1, <1>2, <1>3, <1>4, <1>5, <1>6, <1>7, <1>8, Zenon DEF SweepStep, SweeperNext

(* A resolve that found nothing in the registry goes for the canonical path.*)
LEMMA RequestFound ==
  ASSUME DaemonInv, NEW r \in Requests, RequestStep(r) PROVE Found(r)'
  <1>1. ASSUME Arrive(r) PROVE Found(r)'
    <2>1. pc'[r] \in Kinds
      BY <1>1, Named, Zenon DEF Arrive, DaemonInv, TypeOK, RequestType, Ops
    <2> QED
      BY <2>1, Zenon DEF Found, Kinds
  <1>2. ASSUME GetOpen(r) PROVE Found(r)'
    BY <1>2, Named, Zenon DEF GetOpen, StartRead, Step, Grant, CanRead, Key, HKey, DaemonInv,
       TypeOK, RequestType, DropInv, Found
  <1>3. ASSUME GetLookup(r) PROVE Found(r)'
    BY <1>3, Named, Zenon DEF GetLookup, End, Release, Step, Key, HKey, DaemonInv, TypeOK,
       RequestType, DropInv, Found
  <1>4. ASSUME GetReopen(r) PROVE Found(r)'
    BY <1>4, Named, ZenonT(30) DEF GetReopen, Retry, StartRead, Release, Grant, CanRead, HSrc, Key,
       HKey, DaemonInv, TypeOK, RequestType, DropInv, Found
  <1>5. ASSUME MirrorOpen(r) PROVE Found(r)'
    BY <1>5, Named, Zenon DEF MirrorOpen, StartRead, End, Release, Grant, CanRead, Key, HKey,
       DaemonInv, TypeOK, RequestType, DropInv, Found
  <1>6. ASSUME Served(r) PROVE Found(r)'
    BY <1>6, Named, Zenon DEF Served, End, Release, DaemonInv, TypeOK, RequestType, DropInv, Found,
       Key
  <1>7. ASSUME RemoveIf(r) PROVE Found(r)'
    BY <1>7, Named, Zenon DEF RemoveIf, Mutate, Step, End, Release, Key, DaemonInv, TypeOK,
       RequestType, DropInv, Found
  <1>8. ASSUME SaveAliases(r) PROVE Found(r)'
    BY <1>8, Named, Zenon DEF SaveAliases, Save, End, Release, DaemonInv, TypeOK, RequestType,
       DropInv, Found, Key
  <1>9. ASSUME RegisterCheck(r) PROVE Found(r)'
    BY <1>9, Named, Zenon DEF RegisterCheck, End, Release, Step, At, DaemonInv, TypeOK,
       RequestType, DropInv, Found, Key
  <1>10. ASSUME RegisterAlias(r) PROVE Found(r)'
    BY <1>10, Named, Zenon DEF RegisterAlias, Step, Key, At, DaemonInv, TypeOK, RequestType,
       DropInv, Found
  <1>11. ASSUME Admit(r) PROVE Found(r)'
    BY <1>11, Named, Zenon DEF Admit, Step, End, Release, DaemonInv, TypeOK, RequestType, DropInv,
       Found, Key
  <1>12. ASSUME Find(r) PROVE Found(r)'
    BY <1>12, Named, Zenon DEF Find, Step, Key, DaemonInv, TypeOK, RequestType, DropInv, Found
  <1>13. ASSUME LockFirst(r) PROVE Found(r)'
    BY <1>13, Named, Zenon DEF LockFirst, LockFor, Grant, CanRead, CanWrite, At, HAt, HSrc,
       DaemonInv, TypeOK, RequestType, DropInv, Found, Key
  <1>14. ASSUME LockSecond(r) PROVE Found(r)'
    BY <1>14, Named, Zenon DEF LockSecond, LockFor, Grant, CanRead, CanWrite, At, HAt, HSrc,
       DaemonInv, TypeOK, RequestType, DropInv, Found, Key
  <1>15. ASSUME Paired(r) PROVE Found(r)'
    BY <1>15, Named, ZenonT(30) DEF Paired, Retry, Step, End, Release, Key, At, HAt, HSrc, DaemonInv,
       TypeOK, RequestType, DropInv, Found
  <1>16. ASSUME Probe(r) PROVE Found(r)'
    BY <1>16, Named, Zenon DEF Probe, End, Release, Step, DaemonInv, TypeOK, RequestType, DropInv,
       Found, Key
  <1>17. ASSUME PeerLock(r) PROVE Found(r)'
    BY <1>17, Named, Zenon DEF PeerLock, CanWrite, Grant, At, HAt, HSrc, DaemonInv, TypeOK,
       RequestType, DropInv, Found, Key
  <1>18. ASSUME Publish(r) PROVE Found(r)'
    BY <1>18, Named, Zenon DEF Publish, End, Release, Step, At, HAt, HSrc, DaemonInv, TypeOK,
       RequestType, DropInv, Found, Key
  <1>19. ASSUME Published(r) PROVE Found(r)'
    BY <1>19, Named, Zenon DEF Published, End, Release, At, DaemonInv, TypeOK, RequestType,
       DropInv, Found, Key
  <1>20. ASSUME Upload(r) PROVE Found(r)'
    BY <1>20, Named, Zenon DEF Upload, Step, End, Release, DaemonInv, TypeOK, RequestType, DropInv,
       Found, Key
  <1>21. ASSUME BeginSweep(r) PROVE Found(r)'
    BY <1>21, Named, Zenon DEF BeginSweep, Grant, Key, HKey, DaemonInv, TypeOK, RequestType,
       DropInv, Found
  <1>22. ASSUME TakeSweep(r) PROVE Found(r)'
    BY <1>22, Named, Zenon DEF TakeSweep, Grant, Key, HKey, DaemonInv, TypeOK, RequestType,
       DropInv, Found
  <1>23. ASSUME RemoveBegins(r) PROVE Found(r)'
    BY <1>23, Named, Zenon DEF RemoveBegins, Step, Key, DaemonInv, TypeOK, RequestType, DropInv,
       Found
  <1>24. ASSUME RemoveEnds(r) PROVE Found(r)'
    BY <1>24, Named, Zenon DEF RemoveEnds, Step, End, Release, Key, HKey, DaemonInv, TypeOK,
       RequestType, DropInv, Found
  <1>25. ASSUME Rename(r) PROVE Found(r)'
    BY <1>25, Named, Zenon DEF Rename, Release, Key, HKey, DaemonInv, TypeOK, RequestType, DropInv,
       Found
  <1>26. ASSUME Register(r) PROVE Found(r)'
    BY <1>26, Named, Zenon DEF Register, End, Release, Key, DaemonInv, TypeOK, RequestType,
       DropInv, Found
  <1>27. ASSUME GiveUp(r) PROVE Found(r)'
    BY <1>27, Named, Zenon DEF GiveUp, End, Release, HAt, DaemonInv, TypeOK, RequestType, DropInv,
       Found, Key
  <1>28. ASSUME LeftTorn(r) PROVE Found(r)'
    BY <1>28, Named, Zenon DEF LeftTorn, Fault, End, Release, DaemonInv, TypeOK, RequestType,
       DropInv, Found, Key
  <1> QED
    BY <1>1, <1>2, <1>3, <1>4, <1>5, <1>6, <1>7, <1>8, <1>9, <1>10, <1>11, <1>12, <1>13,
       <1>14, <1>15, <1>16, <1>17, <1>18, <1>19, <1>20, <1>21, <1>22, <1>23, <1>24, <1>25,
       <1>26, <1>27, <1>28, Zenon DEF RequestStep, RequestNext, ReadNext, RegistryNext,
       ResolveNext, WriteNext

(* What a request has seen to be gone stays gone while it needs it.       *)
LEMMA DropKept ==
  ASSUME DaemonInv, NEW r \in Requests, RequestStep(r) PROVE DropInv'
  <1>1. OthersKept(r)
    BY RequestOthers, Zenon
  <1>2. \A p \in Paths : tree'[p] # tree[p] => r \in writers[HandleOf[p]]
    BY RequestWrites, Zenon
  <1>3. ASSUME NEW q \in Requests, q # r
        PROVE  /\ Found(q)'
               /\ (pc'[q] = "drop" => tree'[src'[q]] = "none")
               /\ (pc'[q] = "rename" => tree'[Key(q)'] = "none")
    <2>1. /\ pc'[q] = pc[q] /\ src'[q] = src[q] /\ (registered'[q] <=> registered[q])
          /\ Key(q)' = Key(q)
      BY <1>1, <1>3, Zenon DEF OthersKept, Key
    <2>2. Found(q)'
      BY <2>1, Zenon DEF DaemonInv, DropInv, Found
    <2>3. ASSUME pc[q] = "drop" PROVE tree'[src[q]] = "none"
      <3>1. q \in readers[HSrc(q)] \cup writers[HSrc(q)] /\ tree[src[q]] = "none"
        BY <2>3, Zenon DEF DaemonInv, HeldInv, Held, DropInv
      <3>2. r \notin writers[HSrc(q)]
        BY <1>3, <3>1, Named, Zenon DEF DaemonInv, Exclusive
      <3> QED
        BY <1>2, <3>1, <3>2, Named, Zenon DEF DaemonInv, HSrc
    <2>4. ASSUME pc[q] = "rename" PROVE tree'[Key(q)] = "none"
      <3>1. q \in writers[HKey(q)] /\ tree[Key(q)] = "none"
        BY <2>4, Zenon DEF DaemonInv, HeldInv, Held, DropInv
      <3>2. r \notin writers[HKey(q)]
        BY <1>3, <3>1, Named, Zenon DEF DaemonInv, Exclusive
      <3> QED
        BY <1>2, <3>1, <3>2, Named, Zenon DEF DaemonInv, HKey
    <2> QED
      BY <2>1, <2>2, <2>3, <2>4, Zenon
  <1>4. spc' = spc /\ cur' = cur /\ cur \in Handles
    BY <1>1, Zenon DEF OthersKept, DaemonInv, TypeOK, SweeperType
  <1>5. ASSUME spc \in {"forget", "save"} PROVE ~Present(cur)'
    <2>1. Sweeper \in writers[cur] /\ ~Present(cur)
      BY <1>5, Zenon DEF DaemonInv, HeldInv, SweeperHeld, DropInv
    <2>2. r \notin writers[cur]
      BY <1>4, <2>1, SweeperAssumption, Zenon DEF DaemonInv, Exclusive
    <2> QED
      BY <1>2, <1>4, <2>1, <2>2, Zenon DEF Present
  <1>6. ASSUME spc = "removing" PROVE old'[cur]
    <2>1. Sweeper \in writers[cur] /\ old[cur]
      BY <1>6, Zenon DEF DaemonInv, HeldInv, SweeperHeld, DropInv
    <2> QED
      BY <1>4, <2>1, RequestTouches, Zenon
  <1>7. \A k \in Paths : entries'[k] \in {None, k, aliases'[k]}
    BY RequestEntries, Zenon
  <1>8. /\ Found(r)'
        /\ (pc'[r] = "drop" => tree'[src'[r]] = "none")
        /\ (pc'[r] = "rename" => tree'[Key(r)'] = "none")
    BY RequestDrops, RequestFound, Zenon
  <1> QED
    BY <1>3, <1>4, <1>5, <1>6, <1>7, <1>8, Zenon DEF DropInv

(* What the sweeper forgets is gone, and what it removes had expired.     *)
LEMMA SweepDrops ==
  ASSUME DaemonInv, SweepStep PROVE (spc' \in {"forget", "save"} => ~Present(cur)')
         /\ (spc' = "removing" => old'[cur'])
  <1>1. ASSUME Sweep PROVE (spc' \in {"forget", "save"} => ~Present(cur)')
         /\ (spc' = "removing" => old'[cur'])
    BY <1>1, Zenon DEF Sweep, DaemonInv, TypeOK, DiskType, SweeperType, DropInv, Present
  <1>2. ASSUME NEW h \in Handles, SweepPick(h) PROVE (spc' \in {"forget", "save"} => ~Present(cur)')
         /\ (spc' = "removing" => old'[cur'])
    BY <1>2, Zenon DEF SweepPick, Grant, DaemonInv, TypeOK, DiskType, SweeperType, DropInv, Present
  <1>3. ASSUME SweepTake PROVE (spc' \in {"forget", "save"} => ~Present(cur)')
         /\ (spc' = "removing" => old'[cur'])
    BY <1>3, Zenon DEF SweepTake, Grant, DaemonInv, TypeOK, DiskType, SweeperType, DropInv, Present
  <1>4. ASSUME SweepStat PROVE (spc' \in {"forget", "save"} => ~Present(cur)')
         /\ (spc' = "removing" => old'[cur'])
    BY <1>4, Zenon DEF SweepStat, SweepNextHandle, Release, Removing, DaemonInv, TypeOK, DiskType,
       SweeperType, DropInv, Present
  <1>5. ASSUME SweepRemoved PROVE (spc' \in {"forget", "save"} => ~Present(cur)')
         /\ (spc' = "removing" => old'[cur'])
    BY <1>5, Zenon DEF SweepRemoved, DaemonInv, TypeOK, DiskType, SweeperType, DropInv, Present
  <1>6. ASSUME RemoveByPath PROVE (spc' \in {"forget", "save"} => ~Present(cur)')
         /\ (spc' = "removing" => old'[cur'])
    BY <1>6, Zenon DEF RemoveByPath, Mutate, SweepNextHandle, Release, DaemonInv, TypeOK, DiskType,
       SweeperType, DropInv, Present
  <1>7. ASSUME SweepSave PROVE (spc' \in {"forget", "save"} => ~Present(cur)')
         /\ (spc' = "removing" => old'[cur'])
    BY <1>7, Zenon DEF SweepSave, Save, SweepNextHandle, Release, DaemonInv, TypeOK, DiskType,
       SweeperType, DropInv, Present
  <1>8. ASSUME SweepFails PROVE (spc' \in {"forget", "save"} => ~Present(cur)')
         /\ (spc' = "removing" => old'[cur'])
    BY <1>8, Zenon DEF SweepFails, Fault, SweepNextHandle, Release, DaemonInv, TypeOK, DiskType,
       SweeperType, DropInv, Present
  <1> QED
    BY <1>1, <1>2, <1>3, <1>4, <1>5, <1>6, <1>7, <1>8, Zenon DEF SweepStep, SweeperNext

(* The sweeper removes nothing that a request has seen to be gone.        *)
LEMMA DropKeptBySweep ==
  ASSUME DaemonInv, SweepStep PROVE DropInv'
  <1>1. RequestsKept
    BY SweepOthers, Zenon
  <1>2. ASSUME NEW q \in Requests
        PROVE  /\ Found(q)'
               /\ (pc'[q] = "drop" => tree'[src'[q]] = "none")
               /\ (pc'[q] = "rename" => tree'[Key(q)'] = "none")
    <2>1. /\ pc'[q] = pc[q] /\ src'[q] = src[q] /\ registered'[q] = registered[q]
          /\ Key(q)' = Key(q)
      BY <1>1, Zenon DEF RequestsKept, Key
    <2>2. Found(q)'
      BY <2>1, Zenon DEF DaemonInv, DropInv, Found
    <2>3. ASSUME pc[q] = "drop" PROVE tree'[src[q]] = "none"
      <3>1. q \in readers[HSrc(q)] \cup writers[HSrc(q)] /\ tree[src[q]] = "none"
        BY <2>3, Zenon DEF DaemonInv, HeldInv, Held, DropInv
      <3>2. Sweeper \notin writers[HSrc(q)]
        BY <3>1, Named, SweeperAssumption, Zenon DEF DaemonInv, Exclusive
      <3> QED
        BY SweepWrites, <3>1, <3>2, Named, Zenon DEF DaemonInv, HSrc
    <2>4. ASSUME pc[q] = "rename" PROVE tree'[Key(q)] = "none"
      <3>1. q \in writers[HKey(q)] /\ tree[Key(q)] = "none"
        BY <2>4, Zenon DEF DaemonInv, HeldInv, Held, DropInv
      <3>2. Sweeper \notin writers[HKey(q)]
        BY <3>1, Named, SweeperAssumption, ZenonT(30) DEF DaemonInv, Exclusive
      <3> QED
        BY SweepWrites, <3>1, <3>2, Named, Zenon DEF DaemonInv, HKey
    <2> QED
      BY <2>1, <2>2, <2>3, <2>4, Zenon
  <1> QED
    BY <1>2, SweepDrops, SweepEntries, Zenon DEF DropInv

(* A handle that gets old disturbs nothing. *)
LEMMA AgeKept ==
  ASSUME DaemonInv, NEW h \in Handles, Age(h) PROVE DaemonInv'
  <1>1. UNCHANGED <<tree, readers, writers, waiting, entries, aliases, file, saver, snap,
                    unsaved, pc, op, src, registered, tries, spc, todo, cur, faults>>
    BY Zenon DEF Age
  <1>2. DiskType' /\ \A g \in Handles : old[g] => old'[g]
    BY Zenon DEF Age, DaemonInv, TypeOK, DiskType
  <1>3. TypeOK'
    BY <1>1, <1>2, Zenon
    DEF DaemonInv, TypeOK, GuardType, RegistryType, RequestType, SweeperType
  <1>4. Exclusive' /\ SaveInv' /\ AliasesSaved'
    BY <1>1, Zenon DEF DaemonInv, Exclusive, SaveInv, AliasesSaved
  <1>5. HeldInv'
    BY <1>1, Zenon
    DEF DaemonInv, HeldInv, SweeperHeld, Held, PairHeld, FirstHandle, HSrc, HAt, HKey, Key, At
  <1>6. DropInv'
    BY <1>1, <1>2, Zenon DEF DaemonInv, TypeOK, SweeperType, DropInv, Found, Present, Key
  <1>7. TornInv'
    BY <1>1, Zenon DEF DaemonInv, TornInv, Changing, Works, Key, At
  <1>8. GuardInv' /\ WorkInv'
    BY RestAccounts, RestWorkKept, Zenon DEF DaemonInv
  <1> QED
    BY <1>3, <1>4, <1>5, <1>6, <1>7, <1>8, Zenon DEF DaemonInv

(* A daemon that starts again holds nothing and knows what is on disk. *)
LEMMA RestartKept ==
  ASSUME DaemonInv, Starts PROVE DaemonInv'
  <1>1. Valid(file) \in Aliases
    BY ValidTyped, Zenon DEF DaemonInv, TypeOK, RegistryType
  <1>2. /\ tree' = tree /\ old' = old /\ op' = op /\ src' = src /\ registered' = registered
        /\ tries' = tries /\ cur' = cur /\ file' = file
        /\ \A q \in Requests : pc'[q] \in {"idle", "done"}
        /\ pc' \in [Requests -> {"idle", "done"}]
        /\ spc' = "idle" /\ todo' = {} /\ saver' = {}
    BY Zenon DEF Starts, StartUp
  <1>3. \A h \in Handles : readers'[h] = {} /\ writers'[h] = {} /\ waiting'[h] = {}
    BY Zenon DEF Starts, StartUp
  <1>4. DiskType' /\ RequestType'
    BY <1>2, Zenon DEF DaemonInv, TypeOK, DiskType, RequestType
  <1>5. GuardType'
    BY Zenon DEF Starts, StartUp, GuardType
  <1>20. PICK K \in SUBSET Paths :
            aliases' = [k \in Paths |-> IF k \in K THEN Valid(file)[k] ELSE None]
    BY Zenon DEF Starts, StartUp
  <1>21. aliases' \in Aliases
    BY <1>1, <1>20, Zenon DEF Aliases
  <1>22. PICK scanned :
            entries' = [k \in Paths |-> IF aliases'[k] # None THEN aliases'[k]
                                        ELSE IF tree[k] # "none" /\ HandleOf[k] \in scanned THEN k
                                        ELSE None]
    BY Zenon DEF Starts, StartUp
  <1>6. entries' \in Aliases
    BY <1>21, <1>22, Zenon DEF Aliases
  <1>23. snap' = [a \in Actors |-> NoAliases] /\ unsaved' = FALSE
    BY Zenon DEF Starts, StartUp
  <1>7. RegistryType'
    BY <1>2, <1>21, <1>23, <1>6, Zenon DEF DaemonInv, TypeOK, RegistryType, NoAliases, Aliases
  <1>8. SweeperType' /\ faults' # 0
    BY <1>2, FaultTyped, Zenon DEF Starts, StartUp, DaemonInv, TypeOK, SweeperType
  <1>9. Exclusive'
    BY <1>3, Zenon DEF Exclusive
  <1>10. HeldInv'
    BY <1>2, Zenon DEF HeldInv, SweeperHeld, Held
  <1>11. \A k \in Paths : entries'[k] \in {None, k, aliases'[k]}
    BY <1>22, Zenon
  <1>12. DropInv'
    BY <1>2, <1>11, Zenon DEF DropInv, Found
  <1>13. SaveInv'
    BY <1>2, Zenon DEF SaveInv
  <1>14. AliasesSaved'
    BY <1>2, <1>20, Zenon DEF AliasesSaved, Valid
  <1>15. TornInv'
    BY <1>8, Zenon DEF TornInv
  <1>16. GuardInv' /\ WorkInv'
    BY RestAccounts, RestWorkKept, Zenon DEF DaemonInv
  <1> QED
    BY <1>4, <1>5, <1>7, <1>8, <1>9, <1>10, <1>12, <1>13, <1>14, <1>15, <1>16, Zenon
    DEF DaemonInv, TypeOK

(* So is it when it starts first. *)
LEMMA InitKept == Init => DaemonInv
  <1> SUFFICES ASSUME Init PROVE DaemonInv
    BY Zenon
  <1>1. file \in Aliases /\ aliases \in Aliases
    BY DiskAssumption, ValidTyped, Zenon DEF Init
  <1>2. op \in [Requests -> Ops]
    BY OpsAssumption, Zenon DEF Init
  <1>3. DiskType
    BY Zenon DEF Init, DiskType
  <1>4. GuardType
    BY Zenon DEF Init, GuardType
  <1>5. entries \in Aliases /\ \A k \in Paths : entries[k] \in {None, k, aliases[k]}
    BY <1>1, Zenon DEF Init, Aliases
  <1>6. RegistryType
    BY <1>1, <1>5, Zenon DEF Init, RegistryType, Aliases, NoAliases
  <1>7. src \in [Requests -> Paths]
    BY <1>2, Zenon DEF Init, Key, Ops
  <1>8. RequestType
    BY <1>2, <1>7, Zenon DEF Init, RequestType
  <1>9. SweeperType
    BY PathAssumption, Zenon DEF Init, SweeperType
  <1>10. Exclusive
    BY Zenon DEF Init, Exclusive
  <1>11. HeldInv
    BY Zenon DEF Init, HeldInv, SweeperHeld, Held
  <1>12. DropInv
    BY <1>5, Zenon DEF Init, DropInv, Found
  <1>13. SaveInv
    BY SweeperAssumption, Zenon DEF Init, SaveInv
  <1>14. AliasesSaved
    BY Zenon DEF Init, AliasesSaved, Valid
  <1>15. TornInv
    BY Zenon DEF Init, TornInv
  <1>16. GuardInv /\ WorkInv
    BY Zenon DEF Init, GuardInv, WorkInv
  <1> QED
    BY <1>3, <1>4, <1>6, <1>8, <1>9, <1>10, <1>11, <1>12, <1>13, <1>14, <1>15, <1>16, Zenon
    DEF DaemonInv, TypeOK

(* A restart has scanned some of the handles and loaded some aliases.      *)
LEMMA Restarts == Restart \/ RestartBlind => Starts
  BY Zenon DEF Restart, RestartBlind, Starts, OnDisk, InFile

(* A step of the daemon is a step of a request, of the sweeper, of time or *)
(* a restart.                                                              *)
LEMMA StepCases ==
  ASSUME Next
  PROVE  \/ \E r \in Requests : RequestStep(r)
         \/ SweepStep
         \/ \E h \in Handles : Age(h)
         \/ Starts
  BY Restarts, Zenon DEF Next, RequestStep, SweepStep

(* The guard, the registry and its file, and what requests and sweeper     *)
(* rely on, fit together in every reachable state: DaemonInv is inductive. *)
THEOREM DaemonInvariant == Spec => []DaemonInv
  <1>1. ASSUME DaemonInv, NEW r \in Requests, RequestStep(r) PROVE DaemonInv'
    <2>1. TypeOK'
      BY <1>1, RequestDiskTyped, RequestGuardTyped, RequestRegistryTyped, RequestRequestTyped,
         RequestSweeperTyped, Zenon
      DEF TypeOK
    <2> QED
      BY <1>1, <2>1, RequestExclusive, HeldKept, RequestAccounts, DropKept, RequestSaves,
         RequestTorn, RequestWorkKept, Zenon
      DEF DaemonInv
  <1>2. ASSUME DaemonInv, SweepStep PROVE DaemonInv'
    <2>1. TypeOK'
      BY <1>2, SweepDiskTyped, SweepGuardTyped, SweepRegistryTyped, SweepRequestTyped,
         SweepSweeperTyped, Zenon
      DEF TypeOK
    <2> QED
      BY <1>2, <2>1, SweepExclusive, HeldKeptBySweep, SweepAccounts, DropKeptBySweep,
         SweepSaves, SweepTorn, SweepWorkKept, Zenon
      DEF DaemonInv
  <1>3. ASSUME DaemonInv, UNCHANGED vars PROVE DaemonInv'
    <2>1. TypeOK'
      BY <1>3, Zenon
      DEF vars, DaemonInv, TypeOK, DiskType, GuardType, RegistryType, RequestType, SweeperType
    <2>2. Exclusive' /\ SaveInv' /\ AliasesSaved'
      BY <1>3, Zenon DEF vars, DaemonInv, Exclusive, SaveInv, AliasesSaved
    <2>3. HeldInv'
      BY <1>3, Zenon
      DEF vars, DaemonInv, HeldInv, SweeperHeld, Held, PairHeld, FirstHandle, HSrc, HAt, HKey,
          Key, At
    <2>4. DropInv' /\ TornInv'
      BY <1>3, Zenon DEF vars, DaemonInv, DropInv, Found, Present, TornInv, Changing, Works, Key, At
    <2>5. GuardInv' /\ WorkInv'
      BY <1>3, RestAccounts, RestWorkKept, Zenon DEF DaemonInv
    <2> QED
      BY <2>1, <2>2, <2>3, <2>4, <2>5, Zenon DEF DaemonInv
  <1>4. DaemonInv /\ [Next]_vars => DaemonInv'
    BY <1>1, <1>2, <1>3, AgeKept, RestartKept, StepCases, Zenon
  <1> QED
    BY <1>4, InitKept, PTL DEF Spec

(* A restart finds every alias of POST /register in the file, unless a     *)
(* save is under way or the last one has failed.                           *)
THEOREM AliasesAlwaysSaved == Spec => []AliasesSaved
  <1>1. DaemonInv => AliasesSaved
    BY Zenon DEF DaemonInv
  <1> QED
    BY <1>1, DaemonInvariant, PTL

(* Until something fails, a partial tree is behind the exclusive side.     *)
THEOREM PartialNeverVisible == Spec => []PartialInvisible
  <1>1. ASSUME DaemonInv, faults = 0, NEW p \in Paths, tree[p] = "torn"
        PROVE writers[HandleOf[p]] # {}
    <2>1. CASE spc = "removing" /\ HandleOf[p] = cur
      BY <2>1, <1>1, Zenon DEF DaemonInv, HeldInv, SweeperHeld
    <2>2. ASSUME NEW r \in Requests, Works(r, p) PROVE writers[HandleOf[p]] # {}
      BY <2>2, <1>1, Zenon DEF Works, DaemonInv, HeldInv, Held, HKey, HAt
    <2> QED
      BY <1>1, <2>1, <2>2, Zenon DEF DaemonInv, TornInv, Changing
  <1>2. DaemonInv => PartialInvisible
    BY <1>1, Zenon DEF PartialInvisible
  <1> QED
    BY <1>2, DaemonInvariant, PTL

(* A request does not change the tree it walks itself.                    *)
LEMMA RequestWalks ==
  ASSUME DaemonInv, NEW r \in Requests, RequestStep(r) PROVE \A p \in Paths : Walks(r, p) => tree'[p] = tree[p]
  <1>1. ASSUME Arrive(r) PROVE \A p \in Paths : Walks(r, p) => tree'[p] = tree[p]
    BY <1>1, Named, Zenon DEF Arrive, DaemonInv, TypeOK, DiskType, HeldInv, Held, Walks
  <1>2. ASSUME GetOpen(r) PROVE \A p \in Paths : Walks(r, p) => tree'[p] = tree[p]
    BY <1>2, Named, Zenon DEF GetOpen, StartRead, Step, Grant, CanRead, Key, HKey, DaemonInv,
       TypeOK, DiskType, HeldInv, Held, Walks
  <1>3. ASSUME GetLookup(r) PROVE \A p \in Paths : Walks(r, p) => tree'[p] = tree[p]
    BY <1>3, Named, Zenon DEF GetLookup, End, Release, Step, Key, HKey, DaemonInv, TypeOK,
       DiskType, HeldInv, Held, Walks
  <1>4. ASSUME GetReopen(r) PROVE \A p \in Paths : Walks(r, p) => tree'[p] = tree[p]
    BY <1>4, Named, Zenon DEF GetReopen, Retry, StartRead, Release, Grant, CanRead, HSrc, Key,
       HKey, DaemonInv, TypeOK, DiskType, HeldInv, Held, Walks
  <1>5. ASSUME MirrorOpen(r) PROVE \A p \in Paths : Walks(r, p) => tree'[p] = tree[p]
    BY <1>5, Named, Zenon DEF MirrorOpen, StartRead, End, Release, Grant, CanRead, Key, HKey,
       DaemonInv, TypeOK, DiskType, HeldInv, Held, Walks
  <1>6. ASSUME Served(r) PROVE \A p \in Paths : Walks(r, p) => tree'[p] = tree[p]
    BY <1>6, Named, Zenon DEF Served, End, Release, DaemonInv, TypeOK, DiskType, HeldInv, Held,
       Walks
  <1>7. ASSUME RemoveIf(r) PROVE \A p \in Paths : Walks(r, p) => tree'[p] = tree[p]
    BY <1>7, Named, Zenon DEF RemoveIf, Mutate, Step, End, Release, Key, DaemonInv, TypeOK,
       DiskType, HeldInv, Held, Walks
  <1>8. ASSUME SaveAliases(r) PROVE \A p \in Paths : Walks(r, p) => tree'[p] = tree[p]
    BY <1>8, Named, Zenon DEF SaveAliases, Save, End, Release, DaemonInv, TypeOK, DiskType,
       HeldInv, Held, Walks
  <1>9. ASSUME RegisterCheck(r) PROVE \A p \in Paths : Walks(r, p) => tree'[p] = tree[p]
    BY <1>9, Named, Zenon DEF RegisterCheck, End, Release, Step, At, DaemonInv, TypeOK, DiskType,
       HeldInv, Held, Walks
  <1>10. ASSUME RegisterAlias(r) PROVE \A p \in Paths : Walks(r, p) => tree'[p] = tree[p]
    BY <1>10, Named, Zenon DEF RegisterAlias, Step, Key, At, DaemonInv, TypeOK, DiskType, HeldInv,
       Held, Walks
  <1>11. ASSUME Admit(r) PROVE \A p \in Paths : Walks(r, p) => tree'[p] = tree[p]
    BY <1>11, Named, Zenon DEF Admit, Step, End, Release, DaemonInv, TypeOK, DiskType, HeldInv,
       Held, Walks
  <1>12. ASSUME Find(r) PROVE \A p \in Paths : Walks(r, p) => tree'[p] = tree[p]
    BY <1>12, Named, Zenon DEF Find, Step, Key, DaemonInv, TypeOK, DiskType, HeldInv, Held, Walks
  <1>13. ASSUME LockFirst(r) PROVE \A p \in Paths : Walks(r, p) => tree'[p] = tree[p]
    BY <1>13, Named, Zenon DEF LockFirst, LockFor, Grant, CanRead, CanWrite, At, HAt, HSrc,
       DaemonInv, TypeOK, DiskType, HeldInv, Held, Walks
  <1>14. ASSUME LockSecond(r) PROVE \A p \in Paths : Walks(r, p) => tree'[p] = tree[p]
    BY <1>14, Named, Zenon DEF LockSecond, LockFor, Grant, CanRead, CanWrite, At, HAt, HSrc,
       DaemonInv, TypeOK, DiskType, HeldInv, Held, Walks
  <1>15. ASSUME Paired(r) PROVE \A p \in Paths : Walks(r, p) => tree'[p] = tree[p]
    BY <1>15, Named, Zenon DEF Paired, Retry, Step, End, Release, Key, At, HAt, HSrc, DaemonInv,
       TypeOK, DiskType, HeldInv, Held, Walks
  <1>16. ASSUME Probe(r) PROVE \A p \in Paths : Walks(r, p) => tree'[p] = tree[p]
    BY <1>16, Named, Zenon DEF Probe, End, Release, Step, DaemonInv, TypeOK, DiskType, HeldInv,
       Held, Walks
  <1>17. ASSUME PeerLock(r) PROVE \A p \in Paths : Walks(r, p) => tree'[p] = tree[p]
    BY <1>17, Named, Zenon DEF PeerLock, CanWrite, Grant, At, HAt, HSrc, DaemonInv, TypeOK,
       DiskType, HeldInv, Held, Walks
  <1>18. ASSUME Publish(r) PROVE \A p \in Paths : Walks(r, p) => tree'[p] = tree[p]
    BY <1>18, Named, Zenon DEF Publish, End, Release, Step, At, HAt, HSrc, DaemonInv, TypeOK,
       DiskType, HeldInv, Held, Walks
  <1>19. ASSUME Published(r) PROVE \A p \in Paths : Walks(r, p) => tree'[p] = tree[p]
    BY <1>19, Named, Zenon DEF Published, End, Release, At, DaemonInv, TypeOK, DiskType, HeldInv,
       Held, Walks
  <1>20. ASSUME Upload(r) PROVE \A p \in Paths : Walks(r, p) => tree'[p] = tree[p]
    BY <1>20, Named, Zenon DEF Upload, Step, End, Release, DaemonInv, TypeOK, DiskType, HeldInv,
       Held, Walks
  <1>21. ASSUME BeginSweep(r) PROVE \A p \in Paths : Walks(r, p) => tree'[p] = tree[p]
    BY <1>21, Named, Zenon DEF BeginSweep, Grant, Key, HKey, DaemonInv, TypeOK, DiskType, HeldInv,
       Held, Walks
  <1>22. ASSUME TakeSweep(r) PROVE \A p \in Paths : Walks(r, p) => tree'[p] = tree[p]
    BY <1>22, Named, ZenonT(30) DEF TakeSweep, Grant, Key, HKey, DaemonInv, TypeOK, DiskType, HeldInv,
       Held, Walks
  <1>23. ASSUME RemoveBegins(r) PROVE \A p \in Paths : Walks(r, p) => tree'[p] = tree[p]
    BY <1>23, Named, Zenon DEF RemoveBegins, Step, Key, DaemonInv, TypeOK, DiskType, HeldInv, Held,
       Walks
  <1>24. ASSUME RemoveEnds(r) PROVE \A p \in Paths : Walks(r, p) => tree'[p] = tree[p]
    BY <1>24, Named, Zenon DEF RemoveEnds, Step, End, Release, Key, HKey, DaemonInv, TypeOK,
       DiskType, HeldInv, Held, Walks
  <1>25. ASSUME Rename(r) PROVE \A p \in Paths : Walks(r, p) => tree'[p] = tree[p]
    BY <1>25, Named, Zenon DEF Rename, Release, Key, HKey, DaemonInv, TypeOK, DiskType, HeldInv,
       Held, Walks
  <1>26. ASSUME Register(r) PROVE \A p \in Paths : Walks(r, p) => tree'[p] = tree[p]
    BY <1>26, Named, Zenon DEF Register, End, Release, Key, DaemonInv, TypeOK, DiskType, HeldInv,
       Held, Walks
  <1>27. ASSUME GiveUp(r) PROVE \A p \in Paths : Walks(r, p) => tree'[p] = tree[p]
    BY <1>27, Named, Zenon DEF GiveUp, End, Release, HAt, DaemonInv, TypeOK, DiskType, HeldInv,
       Held, Walks
  <1>28. ASSUME LeftTorn(r) PROVE \A p \in Paths : Walks(r, p) => tree'[p] = tree[p]
    BY <1>28, Named, Zenon DEF LeftTorn, Fault, End, Release, DaemonInv, TypeOK, DiskType, HeldInv,
       Held, Walks
  <1> QED
    BY <1>1, <1>2, <1>3, <1>4, <1>5, <1>6, <1>7, <1>8, <1>9, <1>10, <1>11, <1>12, <1>13,
       <1>14, <1>15, <1>16, <1>17, <1>18, <1>19, <1>20, <1>21, <1>22, <1>23, <1>24, <1>25,
       <1>26, <1>27, <1>28, ZenonT(30) DEF RequestStep, RequestNext, ReadNext, RegistryNext,
       ResolveNext, WriteNext

(* A request drops the entry of a directory that is gone.                 *)
LEMMA RequestForgets ==
  ASSUME DaemonInv, NEW r \in Requests, RequestStep(r) PROVE \A k \in Paths : entries[k] # None /\ entries'[k] = None => tree[entries[k]] = "none"
  <1>1. ASSUME Arrive(r) PROVE \A k \in Paths : entries[k] # None /\ entries'[k] = None => tree[entries[k]] = "none"
    BY <1>1, Named, PathAssumption, Zenon DEF Arrive, DaemonInv, TypeOK, RegistryType, Aliases,
       DropInv, None
  <1>2. ASSUME GetOpen(r) PROVE \A k \in Paths : entries[k] # None /\ entries'[k] = None => tree[entries[k]] = "none"
    BY <1>2, Named, PathAssumption, Zenon DEF GetOpen, StartRead, Step, Grant, CanRead, Key, HKey,
       DaemonInv, TypeOK, RegistryType, Aliases, DropInv, None
  <1>3. ASSUME GetLookup(r) PROVE \A k \in Paths : entries[k] # None /\ entries'[k] = None => tree[entries[k]] = "none"
    BY <1>3, Named, PathAssumption, Zenon DEF GetLookup, End, Release, Step, Key, HKey, DaemonInv,
       TypeOK, RegistryType, Aliases, DropInv, None
  <1>4. ASSUME GetReopen(r) PROVE \A k \in Paths : entries[k] # None /\ entries'[k] = None => tree[entries[k]] = "none"
    BY <1>4, Named, PathAssumption, Zenon DEF GetReopen, Retry, StartRead, Release, Grant, CanRead,
       HSrc, Key, HKey, DaemonInv, TypeOK, RegistryType, Aliases, DropInv, None
  <1>5. ASSUME MirrorOpen(r) PROVE \A k \in Paths : entries[k] # None /\ entries'[k] = None => tree[entries[k]] = "none"
    BY <1>5, Named, PathAssumption, Zenon DEF MirrorOpen, StartRead, End, Release, Grant, CanRead,
       Key, HKey, DaemonInv, TypeOK, RegistryType, Aliases, DropInv, None
  <1>6. ASSUME Served(r) PROVE \A k \in Paths : entries[k] # None /\ entries'[k] = None => tree[entries[k]] = "none"
    BY <1>6, Named, PathAssumption, Zenon DEF Served, End, Release, DaemonInv, TypeOK,
       RegistryType, Aliases, DropInv, None
  <1>7. ASSUME RemoveIf(r) PROVE \A k \in Paths : entries[k] # None /\ entries'[k] = None => tree[entries[k]] = "none"
    <2>1. \A k \in Paths : entries'[k] # entries[k] => k = Key(r) /\ entries[k] = src[r]
      BY <1>7, Zenon DEF RemoveIf, Mutate, DaemonInv, TypeOK, RegistryType, Aliases
    <2>2. tree[src[r]] = "none"
      BY <1>7, Zenon DEF RemoveIf, DaemonInv, DropInv
    <2> QED
      BY <2>1, <2>2, Zenon
  <1>8. ASSUME SaveAliases(r) PROVE \A k \in Paths : entries[k] # None /\ entries'[k] = None => tree[entries[k]] = "none"
    BY <1>8, Named, PathAssumption, Zenon DEF SaveAliases, Save, End, Release, DaemonInv, TypeOK,
       RegistryType, Aliases, DropInv, None
  <1>9. ASSUME RegisterCheck(r) PROVE \A k \in Paths : entries[k] # None /\ entries'[k] = None => tree[entries[k]] = "none"
    BY <1>9, Named, PathAssumption, Zenon DEF RegisterCheck, End, Release, Step, At, DaemonInv,
       TypeOK, RegistryType, Aliases, DropInv, None
  <1>10. ASSUME RegisterAlias(r) PROVE \A k \in Paths : entries[k] # None /\ entries'[k] = None => tree[entries[k]] = "none"
    BY <1>10, Named, PathAssumption, ZenonT(30) DEF RegisterAlias, Step, Key, At, DaemonInv, TypeOK,
       RegistryType, Aliases, DropInv, None
  <1>11. ASSUME Admit(r) PROVE \A k \in Paths : entries[k] # None /\ entries'[k] = None => tree[entries[k]] = "none"
    BY <1>11, Named, PathAssumption, Zenon DEF Admit, Step, End, Release, DaemonInv, TypeOK,
       RegistryType, Aliases, DropInv, None
  <1>12. ASSUME Find(r) PROVE \A k \in Paths : entries[k] # None /\ entries'[k] = None => tree[entries[k]] = "none"
    BY <1>12, Named, PathAssumption, Zenon DEF Find, Step, Key, DaemonInv, TypeOK, RegistryType,
       Aliases, DropInv, None
  <1>13. ASSUME LockFirst(r) PROVE \A k \in Paths : entries[k] # None /\ entries'[k] = None => tree[entries[k]] = "none"
    BY <1>13, Named, PathAssumption, Zenon DEF LockFirst, LockFor, Grant, CanRead, CanWrite, At,
       HAt, HSrc, DaemonInv, TypeOK, RegistryType, Aliases, DropInv, None
  <1>14. ASSUME LockSecond(r) PROVE \A k \in Paths : entries[k] # None /\ entries'[k] = None => tree[entries[k]] = "none"
    BY <1>14, Named, PathAssumption, Zenon DEF LockSecond, LockFor, Grant, CanRead, CanWrite, At,
       HAt, HSrc, DaemonInv, TypeOK, RegistryType, Aliases, DropInv, None
  <1>15. ASSUME Paired(r) PROVE \A k \in Paths : entries[k] # None /\ entries'[k] = None => tree[entries[k]] = "none"
    <2>1. CASE UNCHANGED entries
      BY <2>1, Zenon
    <2>2. CASE entries' = [entries EXCEPT ![Key(r)] = src[r]]
      <3>1. src[r] # None
        BY Named, PathAssumption, Zenon DEF DaemonInv, None
      <3> QED
        BY <2>2, <3>1 DEF DaemonInv, TypeOK, RegistryType
    <2> QED
      BY <1>15, <2>1, <2>2, Zenon DEF Paired, Retry
  <1>16. ASSUME Probe(r) PROVE \A k \in Paths : entries[k] # None /\ entries'[k] = None => tree[entries[k]] = "none"
    BY <1>16, Named, PathAssumption, Zenon DEF Probe, End, Release, Step, DaemonInv, TypeOK,
       RegistryType, Aliases, DropInv, None
  <1>17. ASSUME PeerLock(r) PROVE \A k \in Paths : entries[k] # None /\ entries'[k] = None => tree[entries[k]] = "none"
    BY <1>17, Named, PathAssumption, Zenon DEF PeerLock, CanWrite, Grant, At, HAt, HSrc, DaemonInv,
       TypeOK, RegistryType, Aliases, DropInv, None
  <1>18. ASSUME Publish(r) PROVE \A k \in Paths : entries[k] # None /\ entries'[k] = None => tree[entries[k]] = "none"
    BY <1>18, Named, PathAssumption, Zenon DEF Publish, End, Release, Step, At, HAt, HSrc,
       DaemonInv, TypeOK, RegistryType, Aliases, DropInv, None
  <1>19. ASSUME Published(r) PROVE \A k \in Paths : entries[k] # None /\ entries'[k] = None => tree[entries[k]] = "none"
    BY <1>19, Named, PathAssumption, Zenon DEF Published, End, Release, At, DaemonInv, TypeOK,
       RegistryType, Aliases, DropInv, None
  <1>20. ASSUME Upload(r) PROVE \A k \in Paths : entries[k] # None /\ entries'[k] = None => tree[entries[k]] = "none"
    BY <1>20, Named, PathAssumption, Zenon DEF Upload, Step, End, Release, DaemonInv, TypeOK,
       RegistryType, Aliases, DropInv, None
  <1>21. ASSUME BeginSweep(r) PROVE \A k \in Paths : entries[k] # None /\ entries'[k] = None => tree[entries[k]] = "none"
    BY <1>21, Named, PathAssumption, Zenon DEF BeginSweep, Grant, Key, HKey, DaemonInv, TypeOK,
       RegistryType, Aliases, DropInv, None
  <1>22. ASSUME TakeSweep(r) PROVE \A k \in Paths : entries[k] # None /\ entries'[k] = None => tree[entries[k]] = "none"
    BY <1>22, Named, PathAssumption, Zenon DEF TakeSweep, Grant, Key, HKey, DaemonInv, TypeOK,
       RegistryType, Aliases, DropInv, None
  <1>23. ASSUME RemoveBegins(r) PROVE \A k \in Paths : entries[k] # None /\ entries'[k] = None => tree[entries[k]] = "none"
    BY <1>23, Named, PathAssumption, Zenon DEF RemoveBegins, Step, Key, DaemonInv, TypeOK,
       RegistryType, Aliases, DropInv, None
  <1>24. ASSUME RemoveEnds(r) PROVE \A k \in Paths : entries[k] # None /\ entries'[k] = None => tree[entries[k]] = "none"
    BY <1>24, Named, PathAssumption, Zenon DEF RemoveEnds, Step, End, Release, Key, HKey,
       DaemonInv, TypeOK, RegistryType, Aliases, DropInv, None
  <1>25. ASSUME Rename(r) PROVE \A k \in Paths : entries[k] # None /\ entries'[k] = None => tree[entries[k]] = "none"
    BY <1>25, Named, PathAssumption, Zenon DEF Rename, Release, Key, HKey, DaemonInv, TypeOK,
       RegistryType, Aliases, DropInv, None
  <1>26. ASSUME Register(r) PROVE \A k \in Paths : entries[k] # None /\ entries'[k] = None => tree[entries[k]] = "none"
    BY <1>26, Named, PathAssumption, Zenon DEF Register, End, Release, Key, DaemonInv, TypeOK,
       RegistryType, Aliases, DropInv, None
  <1>27. ASSUME GiveUp(r) PROVE \A k \in Paths : entries[k] # None /\ entries'[k] = None => tree[entries[k]] = "none"
    BY <1>27, Named, PathAssumption, Zenon DEF GiveUp, End, Release, HAt, DaemonInv, TypeOK,
       RegistryType, Aliases, DropInv, None
  <1>28. ASSUME LeftTorn(r) PROVE \A k \in Paths : entries[k] # None /\ entries'[k] = None => tree[entries[k]] = "none"
    BY <1>28, Named, PathAssumption, Zenon DEF LeftTorn, Fault, End, Release, DaemonInv, TypeOK,
       RegistryType, Aliases, DropInv, None
  <1> QED
    BY <1>1, <1>2, <1>3, <1>4, <1>5, <1>6, <1>7, <1>8, <1>9, <1>10, <1>11, <1>12, <1>13,
       <1>14, <1>15, <1>16, <1>17, <1>18, <1>19, <1>20, <1>21, <1>22, <1>23, <1>24, <1>25,
       <1>26, <1>27, <1>28, ZenonT(30) DEF RequestStep, RequestNext, ReadNext, RegistryNext,
       ResolveNext, WriteNext

(* So does the sweeper.                                                   *)
LEMMA SweepForgets ==
  ASSUME DaemonInv, SweepStep PROVE \A k \in Paths : entries[k] # None /\ entries'[k] = None => tree[entries[k]] = "none"
  <1>1. ASSUME Sweep PROVE \A k \in Paths : entries[k] # None /\ entries'[k] = None => tree[entries[k]] = "none"
    BY <1>1, PathAssumption, Zenon DEF Sweep, DaemonInv, TypeOK, RegistryType, Aliases, DropInv,
       Present, Under
  <1>2. ASSUME NEW h \in Handles, SweepPick(h) PROVE \A k \in Paths : entries[k] # None /\ entries'[k] = None => tree[entries[k]] = "none"
    BY <1>2, PathAssumption, Zenon DEF SweepPick, Grant, DaemonInv, TypeOK, RegistryType, Aliases,
       DropInv, Present, Under
  <1>3. ASSUME SweepTake PROVE \A k \in Paths : entries[k] # None /\ entries'[k] = None => tree[entries[k]] = "none"
    BY <1>3, PathAssumption, Zenon DEF SweepTake, Grant, DaemonInv, TypeOK, RegistryType, Aliases,
       DropInv, Present, Under
  <1>4. ASSUME SweepStat PROVE \A k \in Paths : entries[k] # None /\ entries'[k] = None => tree[entries[k]] = "none"
    BY <1>4, PathAssumption, Zenon DEF SweepStat, SweepNextHandle, Release, Removing, DaemonInv,
       TypeOK, RegistryType, Aliases, DropInv, Present, Under
  <1>5. ASSUME SweepRemoved PROVE \A k \in Paths : entries[k] # None /\ entries'[k] = None => tree[entries[k]] = "none"
    BY <1>5, PathAssumption, Zenon DEF SweepRemoved, DaemonInv, TypeOK, RegistryType, Aliases,
       DropInv, Present, Under
  <1>6. ASSUME RemoveByPath PROVE \A k \in Paths : entries[k] # None /\ entries'[k] = None => tree[entries[k]] = "none"
    BY <1>6, PathAssumption, Zenon DEF RemoveByPath, Mutate, SweepNextHandle, Release, DaemonInv,
       TypeOK, RegistryType, Aliases, DropInv, Present, Under
  <1>7. ASSUME SweepSave PROVE \A k \in Paths : entries[k] # None /\ entries'[k] = None => tree[entries[k]] = "none"
    BY <1>7, PathAssumption, Zenon DEF SweepSave, Save, SweepNextHandle, Release, DaemonInv,
       TypeOK, RegistryType, Aliases, DropInv, Present, Under
  <1>8. ASSUME SweepFails PROVE \A k \in Paths : entries[k] # None /\ entries'[k] = None => tree[entries[k]] = "none"
    BY <1>8, PathAssumption, Zenon DEF SweepFails, Fault, SweepNextHandle, Release, DaemonInv,
       TypeOK, RegistryType, Aliases, DropInv, Present, Under
  <1> QED
    BY <1>1, <1>2, <1>3, <1>4, <1>5, <1>6, <1>7, <1>8, Zenon DEF SweepStep, SweeperNext

(* No tree changes under a GET, a mirror job or a resolve that walks it.   *)
THEOREM WalksNeverDisturbed == Spec => WalkedUntouched
  <1> DEFINE Kept == \A r \in Requests : \A p \in Paths : Walks(r, p) => tree'[p] = tree[p]
  <1>1. ASSUME DaemonInv, NEW q \in Requests, NEW p \in Paths, Walks(q, p)
        PROVE  HandleOf[p] = HSrc(q) /\ q \in readers[HSrc(q)] \cup writers[HSrc(q)]
    BY <1>1, Zenon DEF Walks, DaemonInv, HeldInv, Held, PairHeld, HSrc
  <1>2. ASSUME DaemonInv, NEW a \in Requests, RequestStep(a) PROVE Kept
    <2> SUFFICES ASSUME NEW q \in Requests, NEW p \in Paths, Walks(q, p), tree'[p] # tree[p]
                 PROVE FALSE
      BY Zenon
    <2>1. a \in writers[HSrc(q)]
      BY <1>1, <1>2, RequestWrites, Zenon
    <2>2. q = a
      BY <1>1, <1>2, <2>1, Named, Zenon DEF DaemonInv, Exclusive
    <2> QED
      BY <1>2, <2>2, RequestWalks, Zenon
  <1>3. ASSUME DaemonInv, SweepStep PROVE Kept
    <2> SUFFICES ASSUME NEW q \in Requests, NEW p \in Paths, Walks(q, p), tree'[p] # tree[p]
                 PROVE FALSE
      BY Zenon
    <2>1. Sweeper \in writers[HSrc(q)]
      BY <1>1, <1>3, SweepWrites, Zenon
    <2> QED
      BY <1>1, <1>3, <2>1, Named, SweeperAssumption, Zenon DEF DaemonInv, Exclusive
  <1>4. ASSUME (\E h \in Handles : Age(h)) \/ Starts PROVE Kept
    BY <1>4, Zenon DEF Age, Starts, StartUp
  <1>5. DaemonInv /\ [Next]_vars => [Kept]_vars
    BY <1>2, <1>3, <1>4, StepCases, Zenon
  <1> QED
    BY <1>5, DaemonInvariant, PTL DEF Spec, WalkedUntouched

(* What the sweeper removes had not been touched for the TTL.              *)
THEOREM FreshAlwaysKept == Spec => FreshKept
  <1> DEFINE Kept ==
        \A p \in Paths :
          tree'[p] # tree[p] /\ Sweeper \in writers[HandleOf[p]] => old[HandleOf[p]]
  <1>1. ASSUME DaemonInv, NEW r \in Requests, RequestStep(r) PROVE Kept
    BY <1>1, RequestWrites, PathAssumption, SweeperAssumption, Zenon DEF DaemonInv, Exclusive
  <1>2. ASSUME DaemonInv, SweepStep PROVE Kept
    BY <1>2, SweepWrites, Zenon
  <1>3. ASSUME (\E h \in Handles : Age(h)) \/ Starts PROVE Kept
    BY <1>3, Zenon DEF Age, Starts, StartUp
  <1>4. DaemonInv /\ [Next]_vars => [Kept]_vars
    BY <1>1, <1>2, <1>3, StepCases, Zenon
  <1> QED
    BY <1>4, DaemonInvariant, PTL DEF Spec, FreshKept

(* A daemon that runs forgets no artifact that is there, and one that is   *)
(* started again and can read its disk only one whose alias was not saved. *)
THEOREM RegistrationsKept == Spec => RegistrationKept
  <1> DEFINE Kept ==
        \A k \in Paths :
          entries[k] # None /\ entries'[k] = None
            => \/ tree[entries[k]] = "none"
               \/ Restart /\ (saver # {} \/ unsaved)
               \/ RestartBlind
  <1>1. ASSUME DaemonInv, NEW r \in Requests, RequestStep(r) PROVE Kept
    BY <1>1, RequestForgets, Zenon
  <1>2. ASSUME DaemonInv, SweepStep PROVE Kept
    BY <1>2, SweepForgets, Zenon
  <1>3. ASSUME NEW h \in Handles, Age(h) PROVE Kept
    BY <1>3, Zenon DEF Age
  <1>4. ASSUME DaemonInv, Restart PROVE Kept
    <2> SUFFICES ASSUME NEW k \in Paths, entries[k] # None, entries'[k] = None,
                        saver = {}, ~unsaved
                 PROVE tree[entries[k]] = "none"
      BY <1>4, Zenon
    <2>1. Valid(file)[k] = None /\ (tree[k] # "none" => HandleOf[k] \notin OnDisk)
      BY <1>4, PathAssumption, Zenon DEF Restart, StartUp, InFile, None
    <2>2. tree[k] = "none"
      BY <2>1, PathAssumption, Zenon DEF OnDisk, Present
    <2>3. entries[k] = k \/ (aliases[k] = entries[k] /\ file[k] = entries[k])
      BY <1>4, Zenon DEF DaemonInv, DropInv, AliasesSaved
    <2> QED
      BY <2>1, <2>2, <2>3, Zenon DEF Valid
  <1>5. ASSUME RestartBlind PROVE Kept
    BY <1>5, Zenon
  <1>6. DaemonInv /\ [Next]_vars => [Kept]_vars
    BY <1>1, <1>2, <1>3, <1>4, <1>5, Zenon DEF Next, RequestStep, SweepStep
  <1> QED
    BY <1>6, DaemonInvariant, PTL DEF Spec, RegistrationKept

(* Whatever way a handler or a sweep returns, it has given the guard back: *)
(* a side is held only by who is at work under it.                         *)
THEOREM GuardReturned == Spec => []GuardInv
  <1>1. DaemonInv => GuardInv
    BY Zenon DEF DaemonInv
  <1> QED
    BY <1>1, DaemonInvariant, PTL

-----------------------------------------------------------------------------
(* The contract: what the store and its readers look like.                 *)

(* The artifacts as the contract sees them, path by path.                 *)
LEMMA ShelfStays ==
  ASSUME \A p \in Paths : Shelf(p)' = Shelf(p) PROVE shelf' = shelf
  BY Zenon DEF shelf

(* One of them changes. *)
LEMMA ShelfSet ==
  ASSUME NEW p \in Paths, NEW v, Shelf(p)' = v, \A k \in Paths \ {p} : Shelf(k)' = Shelf(k)
  PROVE shelf' = [shelf EXCEPT ![p] = v]
  <1>1. shelf' = [k \in Paths |-> Shelf(k)'] /\ shelf = [k \in Paths |-> Shelf(k)]
    BY Zenon DEF shelf
  <1> QED
    BY <1>1

(* What the contract sees of a path. *)
LEMMA ShelfOf ==
  ASSUME NEW p \in Paths
  PROVE /\ shelf[p] = Shelf(p)
        /\ tree[p] = "none" => Shelf(p) = "empty"
        /\ tree[p] = "whole" => Shelf(p) = "full"
        /\ tree[p] = "torn" /\ Changing(p) => Shelf(p) = "changing"
        /\ tree[p] = "torn" /\ ~Changing(p) => Shelf(p) = "damaged"
  BY Zenon DEF shelf, Shelf

(* And in the next state. *)
LEMMA ShelfOfNext ==
  ASSUME NEW p \in Paths
  PROVE /\ tree'[p] = "none" => Shelf(p)' = "empty"
        /\ tree'[p] = "whole" => Shelf(p)' = "full"
        /\ tree'[p] = "torn" /\ Changing(p)' => Shelf(p)' = "changing"
        /\ tree'[p] = "torn" /\ ~Changing(p)' => Shelf(p)' = "damaged"
  BY DEF Shelf

(* It is the same while the tree is, and whether somebody works on it. *)
LEMMA ShelfSame ==
  ASSUME NEW p \in Paths, tree'[p] = tree[p],
         tree[p] = "torn" => (Changing(p)' <=> Changing(p)),
         tree[p] \in {"none", "whole", "torn"}
  PROVE Shelf(p)' = Shelf(p)
  BY DEF Shelf

(* The others that work on a tree. *)
OtherChanging(r, p) ==
  (\E q \in Requests \ {r} : Works(q, p)) \/ (spc = "removing" /\ HandleOf[p] = cur)

(* A tree is worked on by a request or by the others. *)
LEMMA ChangingOf ==
  ASSUME NEW r \in Requests, NEW p PROVE Changing(p) <=> Works(r, p) \/ OtherChanging(r, p)
  BY Zenon DEF Changing, OtherChanging

(* They go on. *)
LEMMA ChangingOfNext ==
  ASSUME NEW r \in Requests, OthersKept(r), NEW p
  PROVE Changing(p)' <=> Works(r, p)' \/ OtherChanging(r, p)
  <1>1. spc' = spc /\ cur' = cur
    BY Zenon DEF OthersKept
  <1>2. ASSUME NEW q \in Requests \ {r} PROVE Works(q, p)' <=> Works(q, p)
    <2>1. pc'[q] = pc[q] /\ op' = op
      BY Zenon DEF OthersKept
    <2> QED
      BY <2>1, Zenon DEF Works, Key, At
  <1> QED
    BY <1>1, <1>2, Zenon DEF Changing, OtherChanging

(* Who works on a tree holds its handle exclusively. *)
LEMMA WorkerWrites ==
  ASSUME DaemonInv, NEW q \in Requests, NEW p, Works(q, p) PROVE q \in writers[HandleOf[p]]
  BY Zenon DEF Works, DaemonInv, HeldInv, Held, HKey, HAt

(* So nobody works on a tree of a handle that is held by somebody else. *)
LEMMA HeldUnchanged ==
  ASSUME DaemonInv, NEW r \in Requests, NEW p \in Paths,
         r \in readers[HandleOf[p]] \cup writers[HandleOf[p]]
  PROVE ~OtherChanging(r, p)
  <1>1. HandleOf[p] \in Handles
    BY PathAssumption, Zenon
  <1>2. ASSUME NEW q \in Requests \ {r}, Works(q, p) PROVE FALSE
    BY <1>1, <1>2, WorkerWrites, OneWriter, Zenon
  <1>3. ASSUME spc = "removing", HandleOf[p] = cur PROVE FALSE
    <2>1. Sweeper \in writers[HandleOf[p]]
      BY <1>3, Zenon DEF DaemonInv, HeldInv, SweeperHeld
    <2> QED
      BY <1>1, <2>1, OneWriter, SweeperAssumption, Zenon
  <1> QED
    BY <1>2, <1>3, Zenon DEF OtherChanging

(* Nor on one that may be read. *)
LEMMA ReadableUnchanged ==
  ASSUME DaemonInv, NEW p \in Paths, writers[HandleOf[p]] = {} PROVE ~Changing(p)
  <1>1. ASSUME NEW q \in Requests, Works(q, p) PROVE FALSE
    BY <1>1, WorkerWrites, Zenon
  <1>2. ASSUME spc = "removing", HandleOf[p] = cur PROVE FALSE
    BY <1>2, Zenon DEF DaemonInv, HeldInv, SweeperHeld
  <1> QED
    BY <1>1, <1>2, Zenon DEF Changing

(* Whoever reads holds a side of the handle of what it reads. *)
LEMMA ReaderHolds ==
  ASSUME DaemonInv, NEW q \in Requests
  PROVE Reading(q) # None =>
          /\ Reading(q) = src[q] /\ pc[q] \in {"walk", "copy"}
          /\ q \in readers[HandleOf[src[q]]] \cup writers[HandleOf[src[q]]]
  <1>1. ASSUME Reading(q) # None PROVE Reading(q) = src[q] /\ pc[q] \in {"walk", "copy"}
    BY <1>1, Zenon DEF Reading
  <1>2. CASE pc[q] = "walk"
    BY <1>1, <1>2, Zenon DEF DaemonInv, HeldInv, Held, HSrc
  <1>3. CASE pc[q] = "copy"
    <2>1. PairHeld(q)
      BY <1>3, Zenon DEF DaemonInv, HeldInv, Held
    <2>2. q \in readers[HSrc(q)] \cup writers[HSrc(q)]
      BY <2>1, Zenon DEF PairHeld
    <2> QED
      BY <1>1, <2>2, Zenon DEF HSrc
  <1> QED
    BY <1>1, <1>2, <1>3, Zenon

(* Where somebody holds the exclusive side nobody else reads. *)
LEMMA WriterQuiet ==
  ASSUME DaemonInv, NEW h \in Handles, NEW a \in writers[h]
  PROVE Contract!Quiet(h, Requests \ {a})
  <1> SUFFICES ASSUME NEW q \in Requests \ {a}, reading[q] # None, HandleOf[reading[q]] = h
               PROVE FALSE
    BY Zenon DEF Contract!Quiet, Contract!Beside
  <1>1. reading[q] = Reading(q)
    BY Zenon DEF reading
  <1>2. q \in readers[h] \cup writers[h]
    BY <1>1, ReaderHolds, Zenon
  <1> QED
    BY <1>2, OneWriter, Zenon

(* A request that stays what it is to the readers. *)
LEMMA ReadingStays ==
  ASSUME NEW r \in Requests, OthersKept(r), Reading(r)' = Reading(r) PROVE reading' = reading
  <1>1. ASSUME NEW q \in Requests PROVE Reading(q)' = Reading(q)
    <2>1. CASE q # r
      <3>1. pc'[q] = pc[q] /\ src'[q] = src[q]
        BY <2>1, Zenon DEF OthersKept
      <3> QED
        BY <3>1, Zenon DEF Reading
    <2> QED
      BY <2>1, Zenon
  <1> QED
    BY <1>1, Zenon DEF reading

(* A request that begins or stops to read moves nobody else. *)
LEMMA ReadingSet ==
  ASSUME NEW r \in Requests, OthersKept(r), NEW v, Reading(r)' = v
  PROVE reading' = [reading EXCEPT ![r] = v]
  <1>1. ASSUME NEW q \in Requests \ {r} PROVE Reading(q)' = Reading(q)
    <2>1. pc'[q] = pc[q] /\ src'[q] = src[q]
      BY Zenon DEF OthersKept
    <2> QED
      BY <2>1, Zenon DEF Reading
  <1>2. reading = [q \in Requests |-> Reading(q)] /\ reading' = [q \in Requests |-> Reading(q)']
    BY Zenon DEF reading
  <1> QED
    BY <1>1, <1>2

(* A request that does not read afterwards may have stopped. *)
LEMMA ReadingStops ==
  ASSUME NEW r \in Requests, OthersKept(r), pc'[r] \notin {"walk", "copy"}
  PROVE Contract!MayStop(r)
  <1>1. Reading(r)' = None
    BY Zenon DEF Reading
  <1> QED
    BY <1>1, ReadingSet, Zenon DEF Contract!MayStop

-----------------------------------------------------------------------------
(* The contract: what the steps of a request may be.                       *)

(* A step of the contract, or one it does not see. *)
Seen == Contract!Next \/ UNCHANGED Contract!contract

(* A request that leaves the trees alone and works on none. *)
LEMMA TreesStay ==
  ASSUME DaemonInv, NEW r \in Requests, OthersKept(r), tree' = tree,
         pc[r] \notin Partial, pc'[r] \notin Partial
  PROVE shelf' = shelf
  <1>1. ASSUME NEW p \in Paths PROVE Shelf(p)' = Shelf(p)
    <2>1. ~Works(r, p) /\ ~Works(r, p)'
      BY Zenon DEF Works, Partial
    <2>2. Changing(p)' <=> Changing(p)
      BY <2>1, ChangingOf, ChangingOfNext, Zenon
    <2>3. tree[p] \in {"none", "whole", "torn"}
      BY Zenon DEF DaemonInv, TypeOK, DiskType
    <2> QED
      BY <2>2, <2>3, ShelfSame, Zenon
  <1> QED
    BY <1>1, ShelfStays, Zenon

(* It may stop reading ... *)
LEMMA QuietStep ==
  ASSUME DaemonInv, NEW r \in Requests, OthersKept(r), UNCHANGED <<tree, old, faults>>,
         pc[r] \notin Partial, pc'[r] \notin Partial, pc'[r] \notin {"walk", "copy"}
  PROVE Seen
  <1>1. shelf' = shelf
    BY TreesStay, Zenon
  <1>2. reading' = [reading EXCEPT ![r] = None]
    BY ReadingSet, Zenon DEF Reading
  <1> QED
    BY <1>1, <1>2, Zenon DEF Seen, Contract!Next, Contract!Stop

(* ... or touch a handle ... *)
LEMMA TouchStep ==
  ASSUME DaemonInv, NEW r \in Requests, OthersKept(r), UNCHANGED <<tree, faults>>,
         NEW h \in Handles, old' = [old EXCEPT ![h] = FALSE],
         pc[r] \notin Partial \cup {"walk", "copy"}, pc'[r] \notin Partial \cup {"walk", "copy"}
  PROVE Seen
  <1>1. shelf' = shelf
    BY TreesStay, Zenon
  <1>2. reading' = reading
    BY ReadingStays, Zenon DEF Reading
  <1> QED
    BY <1>1, <1>2, Zenon DEF Seen, Contract!Next, Contract!Touch, Contract!Use

(* ... or begin to read a tree nobody works on. *)
LEMMA ReadStep ==
  ASSUME DaemonInv, NEW r \in Requests, OthersKept(r), UNCHANGED <<tree, faults>>,
         NEW p \in Paths, tree[p] # "none", ~Changing(p), Contract!Use(HandleOf[p]),
         pc[r] \notin Partial \cup {"walk", "copy"}, pc'[r] \in {"walk", "copy"}, src'[r] = p
  PROVE Seen
  <1>1. shelf' = shelf
    BY TreesStay, Zenon DEF Partial
  <1>2. reading' = [reading EXCEPT ![r] = p]
    BY ReadingSet, Zenon DEF Reading
  <1>3. reading[r] = None
    BY Zenon DEF reading, Reading
  <1>4. tree[p] \in {"none", "whole", "torn"}
    BY Zenon DEF DaemonInv, TypeOK, DiskType
  <1>5. shelf[p] \in {"full", "damaged"}
    BY <1>4, ShelfOf, Zenon
  <1> QED
    BY <1>1, <1>2, <1>3, <1>5, Zenon DEF Seen, Contract!Next, Contract!Read

(* A request that works on one tree at most leaves the others as they are. *)
LEMMA BesideStays ==
  ASSUME DaemonInv, NEW r \in Requests, OthersKept(r), NEW p \in Paths, NEW v,
         tree' = [tree EXCEPT ![p] = v],
         NEW k \in Paths \ {p}, ~Works(r, k), ~Works(r, k)'
  PROVE Shelf(k)' = Shelf(k)
  <1>1. tree \in [Paths -> {"none", "whole", "torn"}]
    BY Zenon DEF DaemonInv, TypeOK, DiskType
  <1>2. tree'[k] = tree[k] /\ tree[k] \in {"none", "whole", "torn"}
    BY <1>1, Zenon
  <1>3. Changing(k)' <=> Changing(k)
    BY ChangingOf, ChangingOfNext, Zenon
  <1> QED
    BY <1>2, <1>3, ShelfSame, Zenon

(* It begins to change one it holds exclusively, ... *)
LEMMA ChangeStep ==
  ASSUME DaemonInv, NEW r \in Requests, OthersKept(r), faults' = faults,
         NEW p \in Paths, r \in writers[HandleOf[p]], tree[p] # "none",
         tree' = [tree EXCEPT ![p] = "torn"], Contract!Use(HandleOf[p]),
         pc[r] \notin Partial, \A k : Works(r, k)' <=> k = p, pc'[r] \notin {"walk", "copy"}
  PROVE Seen
  <1>1. tree \in [Paths -> {"none", "whole", "torn"}] /\ HandleOf[p] \in Handles
    BY PathAssumption, Zenon DEF DaemonInv, TypeOK, DiskType
  <1>2. \A k : ~Works(r, k)
    BY Zenon DEF Works, Partial
  <1>3. ~Changing(p)
    BY <1>2, ChangingOf, HeldUnchanged, Zenon
  <1>4. tree[p] \in {"none", "whole", "torn"} /\ tree'[p] = "torn"
    BY <1>1, Zenon
  <1>5. shelf[p] \in {"full", "damaged"}
    BY <1>3, <1>4, ShelfOf, Zenon
  <1>6. Shelf(p)' = "changing"
    BY <1>4, ChangingOfNext, ShelfOfNext, Zenon
  <1>7. shelf' = [shelf EXCEPT ![p] = "changing"]
    BY <1>2, <1>6, BesideStays, ShelfSet, Zenon
  <1>8. Contract!Quiet(HandleOf[p], Requests \ {r}) /\ Contract!MayStop(r)
    BY <1>1, WriterQuiet, ReadingStops, Zenon
  <1> QED
    BY <1>5, <1>7, <1>8, Zenon DEF Seen, Contract!Next, Contract!Change

(* ... has cleared it, ... *)
LEMMA ClearStep ==
  ASSUME DaemonInv, NEW r \in Requests, OthersKept(r), faults' = faults,
         NEW p \in Paths, r \in writers[HandleOf[p]], tree[p] = "torn",
         tree' = [tree EXCEPT ![p] = "none"], Contract!Use(HandleOf[p]),
         \A k : Works(r, k) <=> k = p, pc'[r] \notin Partial, pc'[r] \notin {"walk", "copy"}
  PROVE Seen
  <1>1. tree \in [Paths -> {"none", "whole", "torn"}] /\ HandleOf[p] \in Handles
    BY PathAssumption, Zenon DEF DaemonInv, TypeOK, DiskType
  <1>2. \A k : ~Works(r, k)'
    BY Zenon DEF Works, Partial
  <1>3. shelf[p] = "changing"
    BY ChangingOf, ShelfOf, Zenon
  <1>4. Shelf(p)' = "empty"
    BY <1>1, ShelfOfNext, Zenon
  <1>5. shelf' = [shelf EXCEPT ![p] = "empty"]
    BY <1>2, <1>4, BesideStays, ShelfSet, Zenon
  <1>6. Contract!Quiet(HandleOf[p], Requests \ {r}) /\ Contract!MayStop(r)
    BY <1>1, WriterQuiet, ReadingStops, Zenon
  <1> QED
    BY <1>3, <1>5, <1>6, Zenon DEF Seen, Contract!Next, Contract!Clear

(* ... or has put a whole one there. *)
LEMMA PutStep ==
  ASSUME DaemonInv, NEW r \in Requests, OthersKept(r), faults' = faults,
         NEW p \in Paths, r \in writers[HandleOf[p]],
         tree[p] = "none" \/ (tree[p] = "torn" /\ Works(r, p)),
         tree' = [tree EXCEPT ![p] = "whole"], Contract!Use(HandleOf[p]),
         \A k : Works(r, k) => k = p, pc'[r] \notin Partial, pc'[r] \notin {"walk", "copy"}
  PROVE Seen
  <1>1. tree \in [Paths -> {"none", "whole", "torn"}] /\ HandleOf[p] \in Handles
    BY PathAssumption, Zenon DEF DaemonInv, TypeOK, DiskType
  <1>2. \A k : ~Works(r, k)'
    BY Zenon DEF Works, Partial
  <1>3. shelf[p] \in {"empty", "changing"}
    BY ChangingOf, ShelfOf, Zenon
  <1>4. Shelf(p)' = "full"
    BY <1>1, ShelfOfNext, Zenon
  <1>5. shelf' = [shelf EXCEPT ![p] = "full"]
    BY <1>2, <1>4, BesideStays, ShelfSet, Zenon
  <1>6. Contract!Quiet(HandleOf[p], Requests \ {r}) /\ Contract!MayStop(r)
    BY <1>1, WriterQuiet, ReadingStops, Zenon
  <1> QED
    BY <1>3, <1>5, <1>6, Zenon DEF Seen, Contract!Next, Contract!Put

(* The step that goes to a place where nothing is read or changed. *)
LEMMA QuietTo ==
  ASSUME DaemonInv, NEW r \in Requests, OthersKept(r), UNCHANGED <<tree, old, faults>>,
         pc[r] \notin Partial, NEW at, pc' = [pc EXCEPT ![r] = at],
         at \notin Partial \cup {"walk", "copy"}
  PROVE Seen
  <1>1. pc'[r] = at
    BY Arrives, Zenon DEF DaemonInv
  <1> QED
    BY <1>1, QuietStep, Zenon

(* The step that opens a source. *)
LEMMA StartReadSeen ==
  ASSUME DaemonInv, NEW r \in Requests, OthersKept(r), NEW p \in Paths, CanRead(HandleOf[p]),
         tree[p] # "none", StartRead(r, p), Contract!Use(HandleOf[p]),
         pc[r] \notin Partial \cup {"walk", "copy"}
  PROVE Seen
  <1>1. pc'[r] = "walk" /\ src'[r] = p
    BY Zenon DEF StartRead, DaemonInv, TypeOK, RequestType
  <1>2. ~Changing(p)
    BY ReadableUnchanged, Zenon DEF CanRead
  <1> QED
    BY <1>1, <1>2, ReadStep, Zenon DEF StartRead

(* What a removal or a publication is at work on. *)
LEMMA WorksOn ==
  ASSUME NEW r \in Requests
  PROVE /\ pc[r] = "removing" => \A k : Works(r, k) <=> k = Key(r)
        /\ pc[r] = "publish" => \A k : Works(r, k) <=> k = At(r)
        /\ pc'[r] = "removing" => \A k : Works(r, k)' <=> k = Key(r)'
        /\ pc'[r] = "publish" => \A k : Works(r, k)' <=> k = At(r)'
        /\ pc[r] \notin Partial => \A k : ~Works(r, k)
  BY Zenon DEF Works, Partial

(* A change that is cut off leaves its tree damaged. *)
LEMMA LeftTornSeen ==
  ASSUME DaemonInv, NEW r \in Requests, OthersKept(r), LeftTorn(r) PROVE Seen
  <1> DEFINE cut == {p \in Paths : shelf[p] = "changing" /\ Works(r, p)}
  <1>1. pc[r] \in Partial /\ pc'[r] = "done" /\ tree' = tree /\ old' = old /\ faults' = faults + 1
    BY Arrives, Zenon DEF LeftTorn, End, Fault, Partial, DaemonInv
  <1>2. \A k : ~Works(r, k)'
    BY <1>1, Zenon DEF Works
  <1>3. reading' = reading
    BY <1>1, ReadingStays, Zenon DEF Reading, Partial
  <1>4. ASSUME NEW p \in Paths PROVE Shelf(p)' = IF p \in cut THEN "damaged" ELSE shelf[p]
    <2>1. tree[p] \in {"none", "whole", "torn"} /\ tree'[p] = tree[p]
      BY <1>1, Zenon DEF DaemonInv, TypeOK, DiskType
    <2>2. CASE Works(r, p) /\ tree[p] = "torn"
      <3>1. ~OtherChanging(r, p)
        BY <2>2, WorkerWrites, HeldUnchanged, Zenon
      <3>2. shelf[p] = "changing" /\ ~Changing(p)'
        BY <1>2, <2>2, <3>1, ChangingOf, ChangingOfNext, ShelfOf, Zenon
      <3> QED
        BY <2>1, <2>2, <3>2, ShelfOfNext, Zenon
    <2>3. CASE ~Works(r, p) \/ tree[p] # "torn"
      <3>1. p \notin cut
        BY <2>1, <2>3, ShelfOf, Zenon
      <3>2. tree[p] = "torn" => (Changing(p)' <=> Changing(p))
        BY <1>2, <2>3, ChangingOf, ChangingOfNext, Zenon
      <3> QED
        BY <2>1, <3>1, <3>2, ShelfSame, ShelfOf, Zenon
    <2> QED
      BY <2>2, <2>3, Zenon
  <1>5. shelf' = [p \in Paths |-> IF p \in cut THEN "damaged" ELSE shelf[p]]
    BY <1>4, Zenon DEF shelf
  <1>6. cut \in SUBSET {p \in Paths : shelf[p] = "changing"}
    OBVIOUS
  <1> HIDE DEF cut
  <1> QED
    BY <1>1, <1>3, <1>5, <1>6, Zenon DEF Seen, Contract!Next, Contract!Mishap

(* Every step of a request keeps the contract. *)
LEMMA RequestSeen ==
  ASSUME DaemonInv, NEW r \in Requests, RequestStep(r) PROVE Seen
  <1> OthersKept(r) /\ TypeOK
    BY RequestOthers, Zenon DEF DaemonInv
  <1> /\ Key(r) \in Paths /\ At(r) \in Paths /\ src[r] \in Paths
      /\ HandleOf[Key(r)] = HKey(r) /\ HandleOf[At(r)] = HAt(r) /\ HandleOf[src[r]] = HSrc(r)
      /\ HKey(r) \in Handles /\ HAt(r) \in Handles /\ HSrc(r) \in Handles
    BY Named, Zenon DEF HKey, HAt, HSrc
  <1>1. ASSUME Arrive(r) PROVE Seen
    <2>1. op[r].kind \in Kinds
      BY Named DEF Ops
    <2> QED
      BY <1>1, <2>1, QuietTo, Zenon DEF Arrive, Kinds, Partial
  <1>2. ASSUME GetOpen(r) PROVE Seen
    BY <1>2, QuietTo, StartReadSeen, Zenon DEF GetOpen, Step, Partial, Contract!Use
  <1>3. ASSUME GetLookup(r) PROVE Seen
    BY <1>3, QuietTo, Zenon DEF GetLookup, End, Step, Partial
  <1>4. ASSUME Served(r) PROVE Seen
    BY <1>4, QuietTo, Zenon DEF Served, End, Partial
  <1>5. ASSUME RemoveIf(r) PROVE Seen
    BY <1>5, QuietTo, Zenon DEF RemoveIf, Step, End, Partial
  <1>6. ASSUME SaveAliases(r) PROVE Seen
    BY <1>6, QuietTo, Zenon DEF SaveAliases, End, Partial
  <1>7. ASSUME RegisterCheck(r) PROVE Seen
    BY <1>7, QuietTo, Zenon DEF RegisterCheck, Step, End, Partial
  <1>8. ASSUME RegisterAlias(r) PROVE Seen
    BY <1>8, QuietTo, Zenon DEF RegisterAlias, Step, Partial
  <1>9. ASSUME Admit(r) PROVE Seen
    BY <1>9, QuietTo, Zenon DEF Admit, Step, End, Partial
  <1>10. ASSUME Find(r) PROVE Seen
    BY <1>10, QuietTo, Zenon DEF Find, Step, Partial
  <1>11. ASSUME LockSecond(r) PROVE Seen
    BY <1>11, QuietTo, Zenon DEF LockSecond, Partial
  <1>12. ASSUME Probe(r) PROVE Seen
    BY <1>12, QuietTo, Zenon DEF Probe, Step, End, Partial
  <1>13. ASSUME PeerLock(r) PROVE Seen
    BY <1>13, QuietTo, Zenon DEF PeerLock, Partial
  <1>14. ASSUME Upload(r) PROVE Seen
    BY <1>14, QuietTo, Zenon DEF Upload, Step, End, Partial
  <1>15. ASSUME BeginSweep(r) PROVE Seen
    BY <1>15, QuietTo, Zenon DEF BeginSweep, Partial
  <1>16. ASSUME TakeSweep(r) PROVE Seen
    BY <1>16, QuietTo, Zenon DEF TakeSweep, Partial
  <1>17. ASSUME Register(r) PROVE Seen
    BY <1>17, QuietTo, Zenon DEF Register, End, Partial
  <1>18. ASSUME GetReopen(r) PROVE Seen
    <2>1. CASE Retry(r, "lookup")
      <3>1. pc' = [pc EXCEPT ![r] = "done"] \/ pc' = [pc EXCEPT ![r] = "lookup"]
        BY <2>1, Zenon DEF Retry
      <3> QED
        BY <1>18, <2>1, <3>1, QuietTo, Zenon DEF GetReopen, Retry, Partial
    <2> QED
      BY <1>18, <2>1, QuietTo, StartReadSeen, Zenon DEF GetReopen, Partial, Contract!Use
  <1>19. ASSUME MirrorOpen(r) PROVE Seen
    BY <1>19, QuietTo, StartReadSeen, Zenon DEF MirrorOpen, End, Partial, Contract!Use
  <1>20. ASSUME LockFirst(r) PROVE Seen
    <2>1. pc' = [pc EXCEPT ![r] = "paired"] \/ pc' = [pc EXCEPT ![r] = "second"]
      BY <1>20, Zenon DEF LockFirst
    <2> QED
      BY <1>20, <2>1, QuietTo, Zenon DEF LockFirst, Partial
  <1>21. ASSUME Paired(r) PROVE Seen
    <2>1. CASE Retry(r, "find")
      <3>1. pc' = [pc EXCEPT ![r] = "done"] \/ pc' = [pc EXCEPT ![r] = "find"]
        BY <2>1, Zenon DEF Retry
      <3> QED
        BY <1>21, <2>1, <3>1, QuietTo, Zenon DEF Paired, Retry, Partial
    <2>2. CASE UNCHANGED <<tree, old, faults>> /\ Step(r, "drop")
      BY <1>21, <2>2, QuietTo, Zenon DEF Paired, Step, Partial
    <2>3. CASE UNCHANGED <<tree, old, faults>> /\ pc' = [pc EXCEPT ![r] = "probe"]
      BY <1>21, <2>3, QuietTo, Zenon DEF Paired, Partial
    <2>4. CASE /\ UNCHANGED <<tree, faults>> /\ old' = [old EXCEPT ![HSrc(r)] = FALSE]
               /\ pc' = [pc EXCEPT ![r] = "done"]
      <3>1. pc'[r] = "done"
        BY <2>4, Arrives, Zenon
      <3> QED
        BY <1>21, <2>4, <3>1, TouchStep, Zenon DEF Paired, Partial
    <2>5. CASE /\ UNCHANGED <<tree, faults>> /\ old' = [old EXCEPT ![HSrc(r)] = FALSE]
               /\ tree[src[r]] # "none" /\ src' = src /\ pc' = [pc EXCEPT ![r] = "copy"]
      <3>1. pc'[r] = "copy" /\ pc[r] = "paired"
        BY <1>21, <2>5, Arrives, Zenon DEF Paired
      <3>2. r \in readers[HSrc(r)] \cup writers[HSrc(r)]
        BY <3>1, Zenon DEF DaemonInv, HeldInv, Held, PairHeld
      <3>3. ~Changing(src[r])
        BY <3>1, <3>2, ChangingOf, HeldUnchanged, WorksOn, Zenon DEF Partial
      <3> QED
        BY <2>5, <3>1, <3>3, ReadStep, Zenon DEF Partial, Contract!Use
    <2> QED
      BY <1>21, <2>1, <2>2, <2>3, <2>4, <2>5, Zenon DEF Paired, Step, End
  <1>22. ASSUME Publish(r) PROVE Seen
    <2>1. pc[r] \in {"copy", "fetch"} /\ faults' = faults /\ At(r)' = At(r)
      BY <1>22, Zenon DEF Publish, At
    <2>2. r \in writers[HAt(r)] /\ pc[r] \notin Partial
      BY <2>1, ZenonT(30) DEF DaemonInv, HeldInv, Held, PairHeld, Partial
    <2>3. CASE /\ tree[At(r)] = "none" /\ tree' = [tree EXCEPT ![At(r)] = "whole"]
               /\ old' = [old EXCEPT ![HAt(r)] = FALSE] /\ End(r)
      <3>1. pc'[r] = "done"
        BY <2>3, Arrives, Zenon DEF End
      <3> QED
        BY <2>1, <2>2, <2>3, <3>1, PutStep, WorksOn, Zenon DEF Partial, Contract!Use
    <2>4. CASE /\ tree[At(r)] # "none" /\ tree' = [tree EXCEPT ![At(r)] = "torn"]
               /\ old' = [old EXCEPT ![HAt(r)] = @ /\ pc[r] = "copy"] /\ Step(r, "publish")
      <3>1. pc'[r] = "publish"
        BY <2>4, Arrives, Zenon DEF Step
      <3>2. old \in [Handles -> BOOLEAN]
        BY Zenon DEF TypeOK, DiskType
      <3>3. Contract!Use(HAt(r))
        BY <2>4, <3>2, Zenon DEF Contract!Use
      <3>4. (\A k : Works(r, k)' <=> k = At(r)) /\ pc'[r] \notin {"walk", "copy"}
        BY <2>1, <3>1, WorksOn, Zenon
      <3> QED
        BY <2>1, <2>2, <2>4, <3>1, <3>3, <3>4, ChangeStep, Zenon
    <2> QED
      BY <1>22, <2>3, <2>4, Zenon DEF Publish
  <1>23. ASSUME Published(r) PROVE Seen
    <2>1. pc[r] = "publish" /\ pc'[r] = "done"
      BY <1>23, Arrives, Zenon DEF Published, End
    <2>2. r \in writers[HAt(r)] /\ tree[At(r)] = "torn" /\ \A k : Works(r, k) <=> k = At(r)
      BY <2>1, WorksOn, Zenon DEF DaemonInv, HeldInv, Held, WorkInv
    <2> QED
      BY <1>23, <2>1, <2>2, PutStep, Zenon DEF Published, Partial, Contract!Use
  <1>24. ASSUME RemoveBegins(r) PROVE Seen
    <2>1. pc[r] = "remove" /\ pc'[r] = "removing" /\ Key(r)' = Key(r)
      BY <1>24, Arrives, Zenon DEF RemoveBegins, Step, Key
    <2>2. r \in writers[HKey(r)] /\ pc[r] \notin Partial
      BY <2>1, Zenon DEF DaemonInv, HeldInv, Held, Partial
    <2>3. tree \in [Paths -> {"none", "whole", "torn"}]
      BY Zenon DEF TypeOK, DiskType
    <2>4. CASE tree[Key(r)] # "none"
      <3>1. tree' = [tree EXCEPT ![Key(r)] = "torn"]
        BY <1>24, <2>4, Zenon DEF RemoveBegins
      <3> QED
        BY <1>24, <2>1, <2>2, <2>4, <3>1, ChangeStep, WorksOn, ZenonT(30) DEF RemoveBegins, Contract!Use
    <2>5. CASE tree[Key(r)] = "none"
      <3>1. tree' = tree
        BY <1>24, <2>3, <2>5 DEF RemoveBegins
      <3>2. ASSUME NEW p \in Paths PROVE Shelf(p)' = Shelf(p)
        <4>1. ~Works(r, p) /\ (p # Key(r) => ~Works(r, p)')
          BY <2>1, <2>2, WorksOn, Zenon
        <4>2. tree[p] = "torn" => (Changing(p)' <=> Changing(p))
          BY <2>5, <4>1, ChangingOf, ChangingOfNext, Zenon
        <4>3. tree[p] \in {"none", "whole", "torn"}
          BY <2>3, Zenon
        <4> QED
          BY <3>1, <4>2, <4>3, ShelfSame, Zenon
      <3>3. shelf' = shelf
        BY <3>2, ShelfStays, Zenon
      <3>4. reading' = reading
        BY <2>1, ReadingStays, Zenon DEF Reading
      <3> QED
        BY <1>24, <3>3, <3>4, Zenon DEF RemoveBegins, Seen, Contract!contract
    <2> QED
      BY <2>4, <2>5, Zenon
  <1>25. ASSUME RemoveEnds(r) PROVE Seen
    <2>1. pc[r] = "removing" /\ pc'[r] \in {"rename", "done"} /\ faults' = faults
      BY <1>25, Arrives, Zenon DEF RemoveEnds, Step, End
    <2>2. r \in writers[HKey(r)] /\ tree[Key(r)] # "whole" /\ \A k : Works(r, k) <=> k = Key(r)
      BY <2>1, WorksOn, ZenonT(30) DEF DaemonInv, HeldInv, Held, WorkInv
    <2>3. tree \in [Paths -> {"none", "whole", "torn"}] /\ old \in [Handles -> BOOLEAN]
      BY Zenon DEF TypeOK, DiskType
    <2>4. /\ tree' = [tree EXCEPT ![Key(r)] = "none"]
          /\ old' = [old EXCEPT ![HKey(r)] = @ /\ tree[Key(r)] = "none"]
      BY <1>25, Zenon DEF RemoveEnds
    <2>5. CASE tree[Key(r)] = "torn"
      <3>1. Contract!Use(HKey(r))
        BY <2>3, <2>4, <2>5, Zenon DEF Contract!Use
      <3> QED
        BY <2>1, <2>2, <2>4, <2>5, <3>1, ClearStep, Zenon DEF Partial
    <2>6. CASE tree[Key(r)] = "none"
      <3>1. tree' = tree /\ old' = old
        BY <2>3, <2>4, <2>6
      <3>2. ASSUME NEW p \in Paths PROVE Shelf(p)' = Shelf(p)
        <4>1. ~Works(r, p)' /\ (p # Key(r) => ~Works(r, p))
          BY <2>1, <2>2, Zenon DEF Works
        <4>2. tree[p] = "torn" => (Changing(p)' <=> Changing(p))
          BY <2>6, <4>1, ChangingOf, ChangingOfNext, Zenon
        <4>3. tree[p] \in {"none", "whole", "torn"}
          BY <2>3, Zenon
        <4> QED
          BY <3>1, <4>2, <4>3, ShelfSame, Zenon
      <3>3. shelf' = shelf
        BY <3>2, ShelfStays, Zenon
      <3>4. reading' = reading
        BY <2>1, ReadingStays, Zenon DEF Reading
      <3> QED
        BY <2>1, <3>1, <3>3, <3>4, Zenon DEF Seen, Contract!contract
    <2>7. tree[Key(r)] \in {"none", "whole", "torn"}
      BY <2>3, Zenon
    <2> QED
      BY <2>2, <2>5, <2>6, <2>7, Zenon
  <1>26. ASSUME Rename(r) PROVE Seen
    <2>1. pc[r] = "rename" /\ pc'[r] = "enter"
      BY <1>26, Arrives, Zenon DEF Rename
    <2>2. r \in writers[HKey(r)] /\ tree[Key(r)] = "none" /\ \A k : ~Works(r, k)
      BY <2>1, WorksOn, ZenonT(30) DEF DaemonInv, HeldInv, Held, DropInv, Partial
    <2> QED
      BY <1>26, <2>1, <2>2, PutStep, Zenon DEF Rename, Partial, Contract!Use
  <1>27. ASSUME GiveUp(r) PROVE Seen
    <2>1. pc[r] \notin Partial /\ pc'[r] = "done" /\ UNCHANGED <<tree, faults>>
      BY <1>27, Arrives, Zenon DEF GiveUp, End, Partial
    <2>2. CASE old' = old
      BY <2>1, <2>2, QuietStep, Zenon DEF Partial
    <2>3. CASE pc[r] = "fetch" /\ old' = [old EXCEPT ![HAt(r)] = FALSE]
      BY <2>1, <2>3, TouchStep, Zenon DEF Partial
    <2> QED
      BY <1>27, <2>2, <2>3, Zenon DEF GiveUp
  <1>28. ASSUME LeftTorn(r) PROVE Seen
    BY <1>28, LeftTornSeen, Zenon
  <1> QED
    BY <1>1, <1>2, <1>3, <1>4, <1>5, <1>6, <1>7, <1>8, <1>9, <1>10, <1>11, <1>12, <1>13,
       <1>14, <1>15, <1>16, <1>17, <1>18, <1>19, <1>20, <1>21, <1>22, <1>23, <1>24, <1>25, <1>26, <1>27, <1>28, ZenonT(30)
    DEF RequestStep, RequestNext, ReadNext, RegistryNext, ResolveNext, WriteNext

-----------------------------------------------------------------------------
(* The contract: the sweeper, time and restarts.                           *)

(* The steps of the sweeper and of time change nothing of a request. *)
LEMMA ReadingKept ==
  ASSUME UNCHANGED request PROVE reading' = reading
  <1>1. ASSUME NEW q \in Requests PROVE Reading(q)' = Reading(q)
    BY Zenon DEF Reading
  <1> QED
    BY <1>1, Zenon DEF reading

(* ... and nothing of the trees it works on. *)
LEMMA WorksKept ==
  ASSUME UNCHANGED request
  PROVE \A q \in Requests : \A p : Works(q, p)' <=> Works(q, p)
  BY Zenon DEF Works, Key, At

(* A step with which no removal of the sweeper begins or ends. *)
LEMMA ShelfKept ==
  ASSUME TypeOK, UNCHANGED <<tree, request>>, spc # "removing", spc' # "removing"
  PROVE shelf' = shelf
  <1>1. ASSUME NEW p \in Paths PROVE Shelf(p)' = Shelf(p)
    <2>1. Changing(p)' <=> Changing(p)
      BY WorksKept, Zenon DEF Changing
    <2>2. tree'[p] = tree[p] /\ tree[p] \in {"none", "whole", "torn"}
      BY Zenon DEF TypeOK, DiskType
    <2> QED
      BY <2>1, <2>2, ShelfSame, Zenon
  <1> QED
    BY <1>1, ShelfStays, Zenon

(* Nobody else changes what the sweeper holds. *)
LEMMA SweptAlone ==
  ASSUME DaemonInv, Sweeper \in writers[cur], NEW q \in Requests, NEW p, Works(q, p),
         HandleOf[p] = cur
  PROVE FALSE
  <1>1. q \in writers[cur] /\ cur \in Handles
    BY WorkerWrites, Zenon DEF DaemonInv, TypeOK, SweeperType
  <1>2. \A x, y \in writers[cur] : x = y
    BY <1>1, Zenon DEF DaemonInv, Exclusive
  <1>3. q = Sweeper
    BY <1>1, <1>2, Zenon
  <1> QED
    BY <1>3, SweeperAssumption, Zenon

(* What is not of the handle the sweeper is at stays as it is. *)
LEMMA NotSwept ==
  ASSUME TypeOK, UNCHANGED <<request, cur>>, NEW p \in Paths, HandleOf[p] # cur,
         tree'[p] = tree[p]
  PROVE Shelf(p)' = shelf[p]
  <1>1. Changing(p)' <=> Changing(p)
    BY WorksKept, Zenon DEF Changing
  <1>2. tree[p] \in {"none", "whole", "torn"}
    BY Zenon DEF TypeOK, DiskType
  <1> QED
    BY <1>1, <1>2, ShelfSame, ShelfOf, Zenon

(* The removal of an expired handle begins, ... *)
LEMMA ExpireSeen ==
  ASSUME DaemonInv, spc = "stat", old[cur], Removing(cur), spc' = "removing",
         UNCHANGED <<old, request, cur, faults>>
  PROVE Seen
  <1>1. Sweeper \in writers[cur] /\ cur \in Handles /\ TypeOK
    BY Zenon DEF DaemonInv, HeldInv, SweeperHeld, TypeOK, SweeperType
  <1>2. Requests \ {Sweeper} = Requests
    BY SweeperAssumption
  <1>3. Contract!Quiet(cur, Requests)
    BY <1>1, <1>2, WriterQuiet, Zenon
  <1>4. ASSUME NEW p \in Paths
        PROVE Shelf(p)' = IF Contract!Within(p, cur) THEN "changing" ELSE shelf[p]
    <2>1. tree'[p] = IF HandleOf[p] = cur /\ tree[p] # "none" THEN "torn" ELSE tree[p]
      BY Zenon DEF Removing
    <2>2. tree[p] \in {"none", "whole", "torn"}
      BY <1>1, Zenon DEF TypeOK, DiskType
    <2>3. CASE HandleOf[p] # cur
      BY <1>1, <2>1, <2>3, NotSwept, Zenon DEF Contract!Within
    <2>4. CASE HandleOf[p] = cur /\ tree[p] = "none"
      <3>1. shelf[p] = "empty" /\ Shelf(p)' = "empty"
        BY <2>1, <2>4, ShelfOf, ShelfOfNext, Zenon
      <3> QED
        BY <3>1, Zenon DEF Contract!Within
    <2>5. CASE HandleOf[p] = cur /\ tree[p] # "none"
      <3>1. tree'[p] = "torn" /\ Changing(p)'
        BY <2>1, <2>5, Zenon DEF Changing
      <3>2. Shelf(p)' = "changing" /\ shelf[p] # "empty"
        BY <2>2, <2>5, <3>1, ShelfOf, ShelfOfNext, Zenon
      <3> QED
        BY <2>5, <3>2, Zenon DEF Contract!Within
    <2> QED
      BY <2>3, <2>4, <2>5, Zenon
  <1>5. shelf' = [p \in Paths |-> IF Contract!Within(p, cur) THEN "changing" ELSE shelf[p]]
    BY <1>4, Zenon DEF shelf
  <1> QED
    BY <1>1, <1>3, <1>5, ReadingKept, Zenon DEF Seen, Contract!Next, Contract!Expire

(* ... ends, ... *)
LEMMA ExpiredSeen ==
  ASSUME DaemonInv, SweepRemoved PROVE Seen
  <1>1. Sweeper \in writers[cur] /\ cur \in Handles /\ TypeOK /\ spc = "removing" /\ old[cur]
    BY Zenon DEF DaemonInv, HeldInv, SweeperHeld, DropInv, TypeOK,
                 SweeperType, SweepRemoved
  <1>2. Requests \ {Sweeper} = Requests
    BY SweeperAssumption
  <1>3. Contract!Quiet(cur, Requests)
    BY <1>1, <1>2, WriterQuiet, Zenon
  <1>4. ASSUME NEW p \in Paths, HandleOf[p] = cur PROVE shelf[p] \in {"empty", "changing"}
    <2>1. tree[p] \in {"none", "whole", "torn"} /\ tree[p] # "whole" /\ Changing(p)
      BY <1>1, <1>4, Zenon DEF TypeOK, DiskType, DaemonInv, WorkInv, Changing
    <2> QED
      BY <2>1, ShelfOf, Zenon
  <1>5. ASSUME NEW p \in Paths
        PROVE Shelf(p)' = IF HandleOf[p] = cur THEN "empty" ELSE shelf[p]
    <2>1. tree'[p] = IF HandleOf[p] = cur THEN "none" ELSE tree[p]
      BY Zenon DEF SweepRemoved
    <2>2. CASE HandleOf[p] = cur
      BY <2>1, <2>2, ShelfOfNext, Zenon
    <2>3. CASE HandleOf[p] # cur
      BY <1>1, <2>1, <2>3, NotSwept, Zenon DEF SweepRemoved
    <2> QED
      BY <2>2, <2>3, Zenon
  <1>6. shelf' = [p \in Paths |-> IF HandleOf[p] = cur THEN "empty" ELSE shelf[p]]
    BY <1>5, Zenon DEF shelf
  <1> QED
    BY <1>1, <1>3, <1>4, <1>6, ReadingKept, Zenon
    DEF Seen, Contract!Next, Contract!Expired, SweepRemoved

(* ... or fails with what is left of the handle. *)
LEMMA SweepFailsSeen ==
  ASSUME DaemonInv, SweepFails PROVE Seen
  <1> DEFINE cut == {p \in Paths : shelf[p] = "changing" /\ HandleOf[p] = cur}
  <1>1. /\ Sweeper \in writers[cur] /\ cur \in Handles /\ TypeOK /\ spc = "removing"
        /\ spc' # "removing" /\ faults' = faults + 1 /\ UNCHANGED <<tree, request, cur>>
    BY Zenon DEF DaemonInv, HeldInv, SweeperHeld, TypeOK, SweeperType, SweepFails,
                 SweepNextHandle, Fault
  <1>2. ASSUME NEW p \in Paths PROVE Shelf(p)' = IF p \in cut THEN "damaged" ELSE shelf[p]
    <2>1. tree'[p] = tree[p] /\ tree[p] \in {"none", "whole", "torn"}
      BY <1>1, Zenon DEF TypeOK, DiskType
    <2>2. CASE HandleOf[p] # cur
      BY <1>1, <2>1, <2>2, NotSwept, Zenon
    <2>3. CASE HandleOf[p] = cur
      <3>1. Changing(p) /\ ~Changing(p)'
        BY <1>1, <2>3, SweptAlone, WorksKept, Zenon DEF Changing
      <3> QED
        BY <2>1, <2>3, <3>1, ShelfOf, ShelfOfNext, Zenon
    <2> QED
      BY <2>2, <2>3, Zenon
  <1>3. shelf' = [p \in Paths |-> IF p \in cut THEN "damaged" ELSE shelf[p]]
    BY <1>2, Zenon DEF shelf
  <1>4. cut \in SUBSET {p \in Paths : shelf[p] = "changing"}
    OBVIOUS
  <1>5. \A h \in Handles : old'[h] => old[h]
    <2>1. old \in [Handles -> BOOLEAN]
      BY <1>1, Zenon DEF TypeOK, DiskType
    <2> QED
      BY <1>1, <2>1, Zenon DEF SweepFails
  <1> HIDE DEF cut
  <1> QED
    BY <1>1, <1>3, <1>4, <1>5, ReadingKept, Zenon DEF Seen, Contract!Next, Contract!Mishap

(* Every step of the sweeper keeps the contract. *)
LEMMA SweepSeen ==
  ASSUME DaemonInv, SweeperNext \/ SweepFails PROVE Seen
  <1>0. TypeOK
    BY Zenon DEF DaemonInv
  <1>1. ASSUME UNCHANGED <<disk, request, faults>>, spc # "removing", spc' # "removing" PROVE Seen
    BY <1>0, <1>1, ShelfKept, ReadingKept, Zenon DEF Seen, Contract!contract
  <1>2. ASSUME Sweep PROVE Seen
    BY <1>1, <1>2, Zenon DEF Sweep
  <1>3. ASSUME NEW h \in Handles, SweepPick(h) PROVE Seen
    BY <1>1, <1>3, Zenon DEF SweepPick
  <1>4. ASSUME SweepTake PROVE Seen
    BY <1>1, <1>4, Zenon DEF SweepTake
  <1>5. ASSUME SweepStat PROVE Seen
    <2>1. CASE SweepNextHandle /\ UNCHANGED tree
      BY <1>1, <1>5, <2>1, Zenon DEF SweepStat, SweepNextHandle
    <2>2. CASE old[cur] /\ Removing(cur) /\ spc' = "removing"
      BY <1>5, <2>2, ExpireSeen, Zenon DEF SweepStat
    <2> QED
      BY <1>5, <2>1, <2>2, Zenon DEF SweepStat
  <1>6. ASSUME RemoveByPath PROVE Seen
    BY <1>1, <1>6, Zenon DEF RemoveByPath, SweepNextHandle
  <1>7. ASSUME SweepSave PROVE Seen
    BY <1>1, <1>7, Zenon DEF SweepSave, SweepNextHandle
  <1> QED
    BY <1>2, <1>3, <1>4, <1>5, <1>6, <1>7, ExpiredSeen, SweepFailsSeen, Zenon DEF SweeperNext

(* So do the passing of time, a restart, and a step that changes nothing. *)
LEMMA RestSeen ==
  ASSUME DaemonInv
  PROVE /\ UNCHANGED vars => UNCHANGED Contract!contract
        /\ \A h \in Handles : Age(h) => Seen
        /\ Starts => Seen
  <1>0. TypeOK
    BY Zenon DEF DaemonInv
  <1>1. ASSUME UNCHANGED <<tree, request, spc, cur>> PROVE shelf' = shelf /\ reading' = reading
    <2>1. ASSUME NEW p \in Paths PROVE Shelf(p)' = Shelf(p)
      BY <1>1, WorksKept, Zenon DEF Shelf, Changing
    <2> QED
      BY <1>1, <2>1, ShelfStays, ReadingKept, Zenon
  <1>2. ASSUME UNCHANGED vars PROVE UNCHANGED Contract!contract
    BY <1>1, <1>2, Zenon DEF vars, Contract!contract
  <1>3. ASSUME NEW h \in Handles, Age(h) PROVE Seen
    BY <1>1, <1>3, Zenon DEF Age, Seen, Contract!Next, Contract!Age
  <1>4. ASSUME Starts PROVE Seen
    <2> DEFINE cut == {p \in Paths : shelf[p] = "changing"}
    <2>1. \A q \in Requests : pc'[q] \in {"idle", "done"}
      BY <1>4, Zenon DEF Starts, StartUp
    <2>2. \A p : ~Changing(p)'
      BY <1>4, <2>1, Zenon DEF Starts, StartUp, Changing, Works
    <2>3. reading' = [q \in Requests |-> None]
      <3>1. \A q \in Requests : Reading(q)' = None
        BY <2>1, Zenon DEF Reading
      <3> QED
        BY <3>1, Zenon DEF reading
    <2>4. ASSUME NEW p \in Paths
          PROVE /\ Shelf(p)' = IF p \in cut THEN "damaged" ELSE shelf[p]
                /\ Shelf(p)' # "changing"
      <3>1. tree'[p] = tree[p] /\ tree[p] \in {"none", "whole", "torn"}
        BY <1>0, <1>4, Zenon DEF Starts, StartUp, TypeOK, DiskType
      <3> QED
        BY <2>2, <3>1, ShelfOf, ShelfOfNext, Zenon
    <2>5. shelf' = [p \in Paths |-> IF p \in cut THEN "damaged" ELSE shelf[p]]
      BY <2>4, Zenon DEF shelf
    <2>6. \A p \in Paths : shelf'[p] # "changing"
      BY <2>4, Zenon DEF shelf
    <2>7. faults' = faults + 1 /\ old' = old
      BY <1>4, Zenon DEF Starts, StartUp, Fault
    <2>8. cut \in SUBSET {p \in Paths : shelf[p] = "changing"}
      OBVIOUS
    <2> HIDE DEF cut
    <2> QED
      BY <2>3, <2>5, <2>6, <2>7, <2>8, Zenon DEF Seen, Contract!Next, Contract!Mishap
  <1> QED
    BY <1>2, <1>3, <1>4, Zenon

(* The daemon starts as the contract does. *)
LEMMA InitSeen ==
  ASSUME Init PROVE Contract!Init
  <1>1. \A q \in Requests : Reading(q) = None
    BY Zenon DEF Init, Reading
  <1>2. ASSUME NEW p \in Paths PROVE Shelf(p) \in {"empty", "full"}
    <2>1. tree[p] \in {"none", "whole"}
      BY Zenon DEF Init
    <2> QED
      BY <2>1, ShelfOf, Zenon
  <1>3. shelf \in [Paths -> {"empty", "full"}]
    BY <1>2, Zenon DEF shelf
  <1>4. reading = [q \in Requests |-> None]
    BY <1>1, Zenon DEF reading
  <1> QED
    BY <1>3, <1>4, Zenon DEF Init, Contract!Init

(* The daemon keeps its contract: each of its steps is a step of the store *)
(* of whole artifacts that ArtifactContract describes, or none.            *)
THEOREM ArtifactContractKept == Spec => KeepsArtifactContract
  <1>1. DaemonInv /\ [Next]_vars => [Contract!Next]_(Contract!contract)
    <2> SUFFICES ASSUME DaemonInv, [Next]_vars PROVE Seen
      BY Zenon DEF Seen
    <2>1. CASE UNCHANGED vars
      BY <2>1, RestSeen, Zenon DEF Seen
    <2>2. CASE Next
      BY <2>2, StepCases, RequestSeen, SweepSeen, RestSeen, Zenon DEF SweepStep
    <2> QED
      BY <2>1, <2>2, Zenon
  <1>2. Init => Contract!Init
    BY InitSeen, Zenon
  <1> QED
    BY <1>1, <1>2, DaemonInvariant, PTL DEF Spec, KeepsArtifactContract, Contract!Spec

=============================================================================

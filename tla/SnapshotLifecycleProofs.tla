----------------------- MODULE SnapshotLifecycleProofs -----------------------
(***************************************************************************)
(* Proofs about SnapshotLifecycle, for any number of teams, types, sealers,*)
(* nodes, faults and damaged replicas.                                     *)
(***************************************************************************)
EXTENDS SnapshotLifecycle, TLAPS

USE DEF setup, rows, objects, callback, bounds

(* A repair erases no copy that verifies, and has one that it will not     *)
(* unrecord.                                                               *)
LEMMA RepairKeeps ==
    ASSUME SnapshotInv, RepairBegin
    PROVE  /\ \A p \in Verified : content'[p] = "ok" /\ p \notin prune'
           /\ \E p \in (locations \cup held') \ prune' : content'[p] = "ok"
  <1>1. PICK down \in SUBSET Nodes, V \in SUBSET Verified,
             S \in SUBSET (locations \ Verified), R \in SUBSET Nodes, C \in SUBSET Nodes :
            RepairReplicas(down, V, S, R, C)
    BY Zenon DEF RepairBegin
  <1>2. /\ \A p \in Places : content'[p] = IF p \in C THEN "ok" ELSE IF p \in S THEN "none" ELSE content[p]
        /\ held' = R \cup C /\ prune' = S \ C
    BY <1>1, Zenon DEF RepairReplicas
  <1>3. Verified \subseteq Places /\ Verified \subseteq locations /\ Nodes \subseteq Places
    BY Zenon DEF SnapshotInv, TypeOK, RowsType, Verified, Places, Store
  <1>4. \A p \in Verified : content'[p] = "ok" /\ p \notin prune'
    BY <1>2, <1>3, Zenon DEF Verified
  <1>5. CASE V # {}
    BY <1>3, <1>4, <1>5, Zenon
  <1>6. CASE V = {}
    <2>1. PICK p \in Nodes \ (locations \cup down) : content[p] = "ok" /\ R = {p}
      BY <1>1, <1>6, Zenon DEF RepairReplicas, Recovered
    <2> QED
      BY <1>2, <1>3, <1>4, <2>1, Zenon
  <1> QED
    BY <1>4, <1>5, <1>6, Zenon

(* Uploads add copies and take none.                                       *)
LEMMA UploadsAdd ==
    ASSUME SnapshotInv,
           \/ \E s \in Sealers : SealPut(s) \/ SealPutFails(s)
           \/ \E p \in Places : LateUpload(p)
    PROVE  /\ \A p \in Places : content[p] = "ok" => content'[p] = "ok"
           /\ UNCHANGED <<locations, claims, damage>>
  <1>1. ASSUME NEW s \in Sealers, SealPut(s) \/ SealPutFails(s)
        PROVE  \E W : content' = Written(W)
    BY <1>1, Zenon DEF SealPut, SealPutFails
  <1>2. ASSUME NEW p \in Places, LateUpload(p)
        PROVE  content' = content \/ \E W : content' = Written(W)
    BY <1>2, Zenon DEF LateUpload
  <1>3. ASSUME NEW W, content' = Written(W)
        PROVE  \A p \in Places : content[p] = "ok" => content'[p] = "ok"
    BY <1>3, Zenon DEF Written
  <1>4. UNCHANGED <<locations, claims, damage>>
    BY Zenon DEF SealPut, SealPutFails, LateUpload
  <1> QED
    BY <1>1, <1>2, <1>3, <1>4, Zenon

(* A put leaves the places it names with content that verifies.            *)
LEMMA PutStores ==
    ASSUME SnapshotInv, NEW s \in Sealers, SealPut(s)
    PROVE  at' = "stored" /\ held' # {} /\ \A p \in held' : content'[p] = "ok"
  <1>1. PICK W \in SUBSET Store : W # {} /\ content' = Written(W) /\ held' = W
    BY Zenon DEF SealPut
  <1>2. W \subseteq Places
    BY Zenon DEF Store, Places
  <1> QED
    BY <1>1, <1>2, Zenon DEF SealPut, Written

(* Recorded locations are places.                                          *)
LEMMA LocationsPlaced == SnapshotInv => locations \subseteq Places
  BY Zenon DEF SnapshotInv, TypeOK, RowsType, Store, Places

(* Damage is counted.                                                      *)
LEMMA DamageCounts ==
    ASSUME SnapshotInv, NEW p \in Nodes, NEW c, ReplicaDamaged(p, c)
    PROVE  damage' # 0 /\ UNCHANGED <<manifest, locations, claims, at, held, prune>>
  BY DEF ReplicaDamaged, SnapshotInv, TypeOK, CallbackType

(* Rows keep their types.                                                 *)
LEMMA RowsTyped == SnapshotInv /\ Next => RowsType'
  <1> SUFFICES ASSUME SnapshotInv, Next PROVE RowsType'
    BY Zenon
  <1> DEFINE Frame == UNCHANGED <<setup, manifest, produced, stage, locations, claims, pending>>
  <1>0. CASE Frame
    BY <1>0, Zenon DEF SnapshotInv, TypeOK, RowsType, CallbackType, Leased, Unleased, Store
  <1>1. ASSUME ExpiryBegin PROVE Frame
    BY <1>1, Zenon DEF ExpiryBegin, Acquire
  <1>2. ASSUME NEW p \in Places, DeleteLocation(p) PROVE Frame
    BY <1>2, Zenon DEF DeleteLocation
  <1>3. ASSUME UnrecordDeleted PROVE RowsType'
    BY <1>3, ClassAssumption, Zenon DEF UnrecordDeleted, SnapshotInv, TypeOK, RowsType, CallbackType,
       Leased, Unleased, Store
  <1>4. ASSUME ExpiryRecheck PROVE Frame
    BY <1>4, Zenon DEF ExpiryRecheck, Release
  <1>5. ASSUME ExpiryReclaim PROVE Frame
    BY <1>5, Zenon DEF ExpiryReclaim, DeleteAll
  <1>6. ASSUME MarkDigestExpired PROVE RowsType'
    BY <1>6, ClassAssumption, Zenon DEF MarkDigestExpired, Release, SnapshotInv, TypeOK, RowsType,
       CallbackType, Leased, Unleased, Store
  <1>7. ASSUME NEW p \in Places, AddLocation(p) PROVE RowsType'
    BY <1>7, ClassAssumption, Zenon DEF AddLocation, SnapshotInv, TypeOK, RowsType, CallbackType,
       Leased, Unleased, Store
  <1>8. ASSUME NEW p \in Places, RemoveLocation(p) PROVE RowsType'
    BY <1>8, ClassAssumption, Zenon DEF RemoveLocation, SnapshotInv, TypeOK, RowsType, CallbackType,
       Leased, Unleased, Store
  <1>9. ASSUME OrphanBegin PROVE Frame
    BY <1>9, Zenon DEF OrphanBegin, Acquire
  <1>10. ASSUME OrphanDiscard PROVE Frame
    BY <1>10, Zenon DEF OrphanDiscard, DeleteAll
  <1>11. ASSUME RemoveStagedUploads PROVE RowsType'
    BY <1>11, ClassAssumption, Zenon DEF RemoveStagedUploads, Release, SnapshotInv, TypeOK, RowsType,
       CallbackType, Leased, Unleased, Store
  <1>12. ASSUME RecordedAll PROVE Frame
    BY <1>12, Zenon DEF RecordedAll
  <1>13. ASSUME PrunedAll PROVE Frame
    BY <1>13, Zenon DEF PrunedAll, Release
  <1>14. ASSUME ListDurableObjects PROVE Frame
    BY <1>14, Zenon DEF ListDurableObjects
  <1>15. ASSUME SweepJudge PROVE Frame
    BY <1>15, Zenon DEF SweepJudge, Acquire
  <1>16. ASSUME DeleteDurableObject PROVE Frame
    BY <1>16, Zenon DEF DeleteDurableObject, Release
  <1>17. ASSUME RepairBegin PROVE Frame
    BY <1>17, Zenon DEF RepairBegin, Acquire, RepairReplicas, Fault
  <1>18. ASSUME DeletePartly PROVE Frame
    BY <1>18, Zenon DEF DeletePartly, Release, Fault
  <1>19. ASSUME Abandon PROVE Frame
    BY <1>19, Zenon DEF Abandon, Release, Fault
  <1>20. ASSUME NEW s \in Sealers, SealStage(s) PROVE RowsType'
    BY <1>20, ClassAssumption, Zenon DEF SealStage, Acquire, SnapshotInv, TypeOK, RowsType,
       CallbackType, Leased, Unleased, Store
  <1>21. ASSUME NEW s \in Sealers, SealReuse(s) PROVE Frame
    BY <1>21, Zenon DEF SealReuse
  <1>22. ASSUME NEW s \in Sealers, SealPut(s) PROVE Frame
    BY <1>22, Zenon DEF SealPut, Created
  <1>23. ASSUME NEW s \in Sealers, CommitSealBatch(s) PROVE RowsType'
    BY <1>23, ClassAssumption, TargetAssumption, Zenon DEF CommitSealBatch, Release, Revived,
       SnapshotInv, TypeOK, RowsType, CallbackType, Leased, Unleased, Store
  <1>24. ASSUME NEW s \in Sealers, SealFails(s) PROVE Frame
    BY <1>24, Zenon DEF SealFails, Fails, Release
  <1>25. ASSUME NEW s \in Sealers, SealPutFails(s) PROVE Frame
    BY <1>25, Zenon DEF SealPutFails, Fails, Release, Created
  <1>26. ASSUME NEW s \in Sealers, StageLapses(s) PROVE RowsType'
    BY <1>26, ClassAssumption, Zenon DEF StageLapses, SnapshotInv, TypeOK, RowsType, CallbackType,
       Leased, Unleased, Store
  <1>27. ASSUME NEW p \in Places, LateUpload(p) PROVE Frame
    BY <1>27, Zenon DEF LateUpload, Created
  <1>28. ASSUME NEW k \in Classes, ClaimLeased(k) PROVE RowsType'
    BY <1>28, ClassAssumption, Zenon DEF ClaimLeased, SnapshotInv, TypeOK, RowsType, CallbackType,
       Leased, Unleased, Store
  <1>29. ASSUME NEW k \in Classes, ClaimCheck(k) PROVE RowsType'
    BY <1>29, ClassAssumption, Zenon DEF ClaimCheck, SnapshotInv, TypeOK, RowsType, CallbackType,
       Leased, Unleased, Store
  <1>30. ASSUME NEW k \in Classes, ClaimInsert(k) PROVE RowsType'
    BY <1>30, ClassAssumption, Zenon DEF ClaimInsert, SnapshotInv, TypeOK, RowsType, CallbackType,
       Leased, Unleased, Store
  <1>31. ASSUME NEW k \in Classes, Unclaim(k) PROVE RowsType'
    BY <1>31, ClassAssumption, Zenon DEF Unclaim, SnapshotInv, TypeOK, RowsType, CallbackType, Leased,
       Unleased, Store
  <1>32. ASSUME ObjectAges PROVE Frame
    BY <1>32, Zenon DEF ObjectAges
  <1>33. ASSUME NEW p \in Nodes, NEW c \in {"none", "bad"}, ReplicaDamaged(p, c) PROVE Frame
    BY <1>33, Zenon DEF ReplicaDamaged
  <1> QED
    BY <1>0, <1>1, <1>2, <1>3, <1>4, <1>5, <1>6, <1>7, <1>8, <1>9, <1>10, <1>11, <1>12, <1>13,
       <1>14, <1>15, <1>16, <1>17, <1>18, <1>19, <1>20, <1>21, <1>22, <1>23, <1>24, <1>25,
       <1>26, <1>27, <1>28, <1>29, <1>30, <1>31, <1>32, <1>33, Zenon DEF Next, Maintain, Sealing

(* The content store keeps its types.                                     *)
LEMMA ObjectsTyped == SnapshotInv /\ Next => ObjectsType'
  <1> SUFFICES ASSUME SnapshotInv, Next PROVE ObjectsType'
    BY Zenon
  <1> DEFINE Frame == UNCHANGED <<backing, content, late, generation, listed, age>>
  <1>0. CASE Frame
    BY <1>0, Zenon DEF SnapshotInv, TypeOK, ObjectsType, Places, Store
  <1>1. ASSUME ExpiryBegin PROVE Frame
    BY <1>1, Zenon DEF ExpiryBegin, Acquire
  <1>2. ASSUME NEW p \in Places, DeleteLocation(p) PROVE ObjectsType'
    BY <1>2, Zenon DEF DeleteLocation, Erased, SnapshotInv, TypeOK, ObjectsType, Places, Store
  <1>3. ASSUME UnrecordDeleted PROVE Frame
    BY <1>3, Zenon DEF UnrecordDeleted
  <1>4. ASSUME ExpiryRecheck PROVE Frame
    BY <1>4, Zenon DEF ExpiryRecheck, Release
  <1>5. ASSUME ExpiryReclaim PROVE ObjectsType'
    BY <1>5, Zenon DEF ExpiryReclaim, DeleteAll, Erased, SnapshotInv, TypeOK, ObjectsType, Places,
       Store
  <1>6. ASSUME MarkDigestExpired PROVE Frame
    BY <1>6, Zenon DEF MarkDigestExpired, Release
  <1>7. ASSUME NEW p \in Places, AddLocation(p) PROVE Frame
    BY <1>7, Zenon DEF AddLocation
  <1>8. ASSUME NEW p \in Places, RemoveLocation(p) PROVE Frame
    BY <1>8, Zenon DEF RemoveLocation
  <1>9. ASSUME OrphanBegin PROVE Frame
    BY <1>9, Zenon DEF OrphanBegin, Acquire
  <1>10. ASSUME OrphanDiscard PROVE ObjectsType'
    BY <1>10, Zenon DEF OrphanDiscard, DeleteAll, Erased, SnapshotInv, TypeOK, ObjectsType, Places,
       Store
  <1>11. ASSUME RemoveStagedUploads PROVE Frame
    BY <1>11, Zenon DEF RemoveStagedUploads, Release
  <1>12. ASSUME RecordedAll PROVE Frame
    BY <1>12, Zenon DEF RecordedAll
  <1>13. ASSUME PrunedAll PROVE Frame
    BY <1>13, Zenon DEF PrunedAll, Release
  <1>14. ASSUME ListDurableObjects PROVE ObjectsType'
    BY <1>14 DEF ListDurableObjects, SnapshotInv, TypeOK, ObjectsType, Places, Store
  <1>15. ASSUME SweepJudge PROVE Frame
    BY <1>15, Zenon DEF SweepJudge, Acquire
  <1>16. ASSUME DeleteDurableObject PROVE ObjectsType'
    BY <1>16 DEF DeleteDurableObject, Release, Erased, SnapshotInv, TypeOK, ObjectsType, Places,
       Store
  <1>17. ASSUME RepairBegin PROVE ObjectsType'
    BY <1>17 DEF RepairBegin, Acquire, RepairReplicas, Fault, SnapshotInv, TypeOK, ObjectsType,
       Places, Store
  <1>18. ASSUME DeletePartly PROVE ObjectsType'
    BY <1>18, Zenon DEF DeletePartly, Release, Fault, Erased, SnapshotInv, TypeOK, ObjectsType, Places,
       Store
  <1>19. ASSUME Abandon PROVE Frame
    BY <1>19, Zenon DEF Abandon, Release, Fault
  <1>20. ASSUME NEW s \in Sealers, SealStage(s) PROVE Frame
    BY <1>20, Zenon DEF SealStage, Acquire
  <1>21. ASSUME NEW s \in Sealers, SealReuse(s) PROVE Frame
    BY <1>21, Zenon DEF SealReuse
  <1>22. ASSUME NEW s \in Sealers, SealPut(s) PROVE ObjectsType'
    BY <1>22 DEF SealPut, Created, Written, SnapshotInv, TypeOK, ObjectsType, Places, Store
  <1>23. ASSUME NEW s \in Sealers, CommitSealBatch(s) PROVE Frame
    BY <1>23, Zenon DEF CommitSealBatch, Release
  <1>24. ASSUME NEW s \in Sealers, SealFails(s) PROVE Frame
    BY <1>24, Zenon DEF SealFails, Fails, Release
  <1>25. ASSUME NEW s \in Sealers, SealPutFails(s) PROVE ObjectsType'
    BY <1>25 DEF SealPutFails, Fails, Release, Created, Written, SnapshotInv, TypeOK,
       ObjectsType, Places, Store
  <1>26. ASSUME NEW s \in Sealers, StageLapses(s) PROVE Frame
    BY <1>26, Zenon DEF StageLapses
  <1>27. ASSUME NEW p \in Places, LateUpload(p) PROVE ObjectsType'
    BY <1>27 DEF LateUpload, Created, Written, SnapshotInv, TypeOK, ObjectsType, Places, Store
  <1>28. ASSUME NEW k \in Classes, ClaimLeased(k) PROVE Frame
    BY <1>28, Zenon DEF ClaimLeased
  <1>29. ASSUME NEW k \in Classes, ClaimCheck(k) PROVE Frame
    BY <1>29, Zenon DEF ClaimCheck
  <1>30. ASSUME NEW k \in Classes, ClaimInsert(k) PROVE Frame
    BY <1>30, Zenon DEF ClaimInsert
  <1>31. ASSUME NEW k \in Classes, Unclaim(k) PROVE Frame
    BY <1>31, Zenon DEF Unclaim
  <1>32. ASSUME ObjectAges PROVE ObjectsType'
    BY <1>32, Zenon DEF ObjectAges, SnapshotInv, TypeOK, ObjectsType, Places, Store
  <1>33. ASSUME NEW p \in Nodes, NEW c \in {"none", "bad"}, ReplicaDamaged(p, c) PROVE ObjectsType'
    BY <1>33, Zenon DEF ReplicaDamaged, SnapshotInv, TypeOK, ObjectsType, Places, Store
  <1> QED
    BY <1>0, <1>1, <1>2, <1>3, <1>4, <1>5, <1>6, <1>7, <1>8, <1>9, <1>10, <1>11, <1>12, <1>13,
       <1>14, <1>15, <1>16, <1>17, <1>18, <1>19, <1>20, <1>21, <1>22, <1>23, <1>24, <1>25,
       <1>26, <1>27, <1>28, <1>29, <1>30, <1>31, <1>32, <1>33, Zenon DEF Next, Maintain, Sealing

(* The lease and its holder's state keep their types.                     *)
LEMMA CallbackTyped == SnapshotInv /\ Next => CallbackType'
  <1> SUFFICES ASSUME SnapshotInv, Next PROVE CallbackType'
    BY Zenon
  <1> DEFINE Frame == UNCHANGED <<backing, seal, lease, at, held, prune, doomed, faults, damage>>
  <1>0. CASE Frame
    BY <1>0, Zenon DEF SnapshotInv, TypeOK, CallbackType, RowsType, Phases, Store
  <1>1. ASSUME ExpiryBegin PROVE CallbackType'
    BY <1>1, BoundAssumption, Zenon DEF ExpiryBegin, Acquire, SnapshotInv, TypeOK, CallbackType,
       RowsType, Phases, Store
  <1>2. ASSUME NEW p \in Places, DeleteLocation(p) PROVE CallbackType'
    BY <1>2, BoundAssumption, Zenon DEF DeleteLocation, SnapshotInv, TypeOK, CallbackType, RowsType,
       Phases, Store
  <1>3. ASSUME UnrecordDeleted PROVE CallbackType'
    BY <1>3, BoundAssumption, Zenon DEF UnrecordDeleted, SnapshotInv, TypeOK, CallbackType, RowsType,
       Phases, Store
  <1>4. ASSUME ExpiryRecheck PROVE CallbackType'
    BY <1>4, BoundAssumption, Zenon DEF ExpiryRecheck, Release, SnapshotInv, TypeOK, CallbackType,
       RowsType, Phases, Store
  <1>5. ASSUME ExpiryReclaim PROVE CallbackType'
    BY <1>5, BoundAssumption, Zenon DEF ExpiryReclaim, DeleteAll, SnapshotInv, TypeOK, CallbackType,
       RowsType, Phases, Store
  <1>6. ASSUME MarkDigestExpired PROVE CallbackType'
    BY <1>6, BoundAssumption, Zenon DEF MarkDigestExpired, Release, SnapshotInv, TypeOK, CallbackType,
       RowsType, Phases, Store
  <1>7. ASSUME NEW p \in Places, AddLocation(p) PROVE CallbackType'
    BY <1>7, BoundAssumption, Zenon DEF AddLocation, SnapshotInv, TypeOK, CallbackType, RowsType,
       Phases, Store
  <1>8. ASSUME NEW p \in Places, RemoveLocation(p) PROVE CallbackType'
    BY <1>8, BoundAssumption, Zenon DEF RemoveLocation, SnapshotInv, TypeOK, CallbackType, RowsType,
       Phases, Store
  <1>9. ASSUME OrphanBegin PROVE CallbackType'
    BY <1>9, BoundAssumption, Zenon DEF OrphanBegin, Acquire, SnapshotInv, TypeOK, CallbackType,
       RowsType, Phases, Store, Lapsed
  <1>10. ASSUME OrphanDiscard PROVE CallbackType'
    BY <1>10, BoundAssumption, Zenon DEF OrphanDiscard, DeleteAll, SnapshotInv, TypeOK, CallbackType,
       RowsType, Phases, Store
  <1>11. ASSUME RemoveStagedUploads PROVE CallbackType'
    BY <1>11, BoundAssumption, Zenon DEF RemoveStagedUploads, Release, SnapshotInv, TypeOK,
       CallbackType, RowsType, Phases, Store
  <1>12. ASSUME RecordedAll PROVE CallbackType'
    BY <1>12, BoundAssumption, Zenon DEF RecordedAll, SnapshotInv, TypeOK, CallbackType, RowsType,
       Phases, Store
  <1>13. ASSUME PrunedAll PROVE CallbackType'
    BY <1>13, BoundAssumption, Zenon DEF PrunedAll, Release, SnapshotInv, TypeOK, CallbackType,
       RowsType, Phases, Store
  <1>14. ASSUME ListDurableObjects PROVE Frame
    BY <1>14, Zenon DEF ListDurableObjects
  <1>15. ASSUME SweepJudge PROVE CallbackType'
    BY <1>15, BoundAssumption, Zenon DEF SweepJudge, Acquire, SnapshotInv, TypeOK, CallbackType,
       RowsType, Phases, Store
  <1>16. ASSUME DeleteDurableObject PROVE CallbackType'
    BY <1>16, BoundAssumption, Zenon DEF DeleteDurableObject, Release, SnapshotInv, TypeOK,
       CallbackType, RowsType, Phases, Store
  <1>17. ASSUME RepairBegin PROVE CallbackType'
    BY <1>17, BoundAssumption DEF RepairBegin, Acquire, RepairReplicas, Fault, SnapshotInv,
       TypeOK, CallbackType, RowsType, Phases, Store
  <1>18. ASSUME DeletePartly PROVE CallbackType'
    BY <1>18, BoundAssumption DEF DeletePartly, Release, Fault, SnapshotInv, TypeOK,
       CallbackType, RowsType, Phases, Store
  <1>19. ASSUME Abandon PROVE CallbackType'
    BY <1>19, BoundAssumption DEF Abandon, Release, Fault, SnapshotInv, TypeOK, CallbackType,
       RowsType, Phases, Store
  <1>20. ASSUME NEW s \in Sealers, SealStage(s) PROVE CallbackType'
    BY <1>20, BoundAssumption, Zenon DEF SealStage, Acquire, SnapshotInv, TypeOK, CallbackType,
       RowsType, Phases, Store
  <1>21. ASSUME NEW s \in Sealers, SealReuse(s) PROVE CallbackType'
    BY <1>21, BoundAssumption, Zenon DEF SealReuse, SnapshotInv, TypeOK, CallbackType, RowsType,
       Phases, Store, Verified
  <1>22. ASSUME NEW s \in Sealers, SealPut(s) PROVE CallbackType'
    BY <1>22, BoundAssumption, Zenon DEF SealPut, Created, SnapshotInv, TypeOK, CallbackType, RowsType,
       Phases, Store
  <1>23. ASSUME NEW s \in Sealers, CommitSealBatch(s) PROVE CallbackType'
    BY <1>23, BoundAssumption, Zenon DEF CommitSealBatch, Release, SnapshotInv, TypeOK, CallbackType,
       RowsType, Phases, Store
  <1>24. ASSUME NEW s \in Sealers, SealFails(s) PROVE CallbackType'
    BY <1>24, BoundAssumption, Zenon DEF SealFails, Fails, Release, SnapshotInv, TypeOK, CallbackType,
       RowsType, Phases, Store
  <1>25. ASSUME NEW s \in Sealers, SealPutFails(s) PROVE CallbackType'
    BY <1>25, BoundAssumption, Zenon DEF SealPutFails, Fails, Release, Created, SnapshotInv, TypeOK,
       CallbackType, RowsType, Phases, Store
  <1>26. ASSUME NEW s \in Sealers, StageLapses(s) PROVE Frame
    BY <1>26, Zenon DEF StageLapses
  <1>27. ASSUME NEW p \in Places, LateUpload(p) PROVE Frame
    BY <1>27, Zenon DEF LateUpload, Created
  <1>28. ASSUME NEW k \in Classes, ClaimLeased(k) PROVE Frame
    BY <1>28, Zenon DEF ClaimLeased
  <1>29. ASSUME NEW k \in Classes, ClaimCheck(k) PROVE Frame
    BY <1>29, Zenon DEF ClaimCheck
  <1>30. ASSUME NEW k \in Classes, ClaimInsert(k) PROVE Frame
    BY <1>30, Zenon DEF ClaimInsert
  <1>31. ASSUME NEW k \in Classes, Unclaim(k) PROVE Frame
    BY <1>31, Zenon DEF Unclaim
  <1>32. ASSUME ObjectAges PROVE Frame
    BY <1>32, Zenon DEF ObjectAges
  <1>33. ASSUME NEW p \in Nodes, NEW c \in {"none", "bad"}, ReplicaDamaged(p, c) PROVE CallbackType'
    BY <1>33, BoundAssumption DEF ReplicaDamaged, SnapshotInv, TypeOK, CallbackType, RowsType,
       Phases, Store
  <1> QED
    BY <1>0, <1>1, <1>2, <1>3, <1>4, <1>5, <1>6, <1>7, <1>8, <1>9, <1>10, <1>11, <1>12, <1>13,
       <1>14, <1>15, <1>16, <1>17, <1>18, <1>19, <1>20, <1>21, <1>22, <1>23, <1>24, <1>25,
       <1>26, <1>27, <1>28, <1>29, <1>30, <1>31, <1>32, <1>33, Zenon DEF Next, Maintain, Sealing

(* The lease, its holder and the step it is at fit together.              *)
LEMMA LeaseKept == SnapshotInv /\ Next => LeaseOK'
  <1> SUFFICES ASSUME SnapshotInv, Next PROVE LeaseOK'
    BY Zenon
  <1> DEFINE Frame == UNCHANGED <<seal, lease, at, held, prune, doomed>>
  <1>0. CASE Frame
    BY <1>0, Zenon DEF SnapshotInv, TypeOK, CallbackType, LeaseOK
  <1>1. ASSUME ExpiryBegin PROVE LeaseOK'
    BY <1>1, HolderAssumption, Zenon DEF ExpiryBegin, Acquire, SnapshotInv, TypeOK, CallbackType,
       LeaseOK
  <1>2. ASSUME NEW p \in Places, DeleteLocation(p) PROVE LeaseOK'
    BY <1>2, HolderAssumption, Zenon DEF DeleteLocation, SnapshotInv, TypeOK, CallbackType, LeaseOK
  <1>3. ASSUME UnrecordDeleted PROVE LeaseOK'
    BY <1>3, HolderAssumption, Zenon DEF UnrecordDeleted, SnapshotInv, TypeOK, CallbackType, LeaseOK
  <1>4. ASSUME ExpiryRecheck PROVE LeaseOK'
    BY <1>4, HolderAssumption, Zenon DEF ExpiryRecheck, Release, SnapshotInv, TypeOK, CallbackType,
       LeaseOK
  <1>5. ASSUME ExpiryReclaim PROVE LeaseOK'
    BY <1>5, HolderAssumption, Zenon DEF ExpiryReclaim, DeleteAll, SnapshotInv, TypeOK, CallbackType,
       LeaseOK
  <1>6. ASSUME MarkDigestExpired PROVE LeaseOK'
    BY <1>6, HolderAssumption, Zenon DEF MarkDigestExpired, Release, SnapshotInv, TypeOK, CallbackType,
       LeaseOK
  <1>7. ASSUME NEW p \in Places, AddLocation(p) PROVE LeaseOK'
    BY <1>7, HolderAssumption, Zenon DEF AddLocation, SnapshotInv, TypeOK, CallbackType, LeaseOK
  <1>8. ASSUME NEW p \in Places, RemoveLocation(p) PROVE LeaseOK'
    BY <1>8, HolderAssumption, Zenon DEF RemoveLocation, SnapshotInv, TypeOK, CallbackType, LeaseOK
  <1>9. ASSUME OrphanBegin PROVE LeaseOK'
    BY <1>9, HolderAssumption, Zenon DEF OrphanBegin, Acquire, SnapshotInv, TypeOK, CallbackType,
       LeaseOK
  <1>10. ASSUME OrphanDiscard PROVE LeaseOK'
    BY <1>10, HolderAssumption, Zenon DEF OrphanDiscard, DeleteAll, SnapshotInv, TypeOK, CallbackType,
       LeaseOK
  <1>11. ASSUME RemoveStagedUploads PROVE LeaseOK'
    BY <1>11, HolderAssumption, Zenon DEF RemoveStagedUploads, Release, SnapshotInv, TypeOK,
       CallbackType, LeaseOK
  <1>12. ASSUME RecordedAll PROVE LeaseOK'
    BY <1>12, HolderAssumption, Zenon DEF RecordedAll, SnapshotInv, TypeOK, CallbackType, LeaseOK
  <1>13. ASSUME PrunedAll PROVE LeaseOK'
    BY <1>13, HolderAssumption, Zenon DEF PrunedAll, Release, SnapshotInv, TypeOK, CallbackType,
       LeaseOK
  <1>14. ASSUME ListDurableObjects PROVE Frame
    BY <1>14, Zenon DEF ListDurableObjects
  <1>15. ASSUME SweepJudge PROVE LeaseOK'
    BY <1>15, HolderAssumption, Zenon DEF SweepJudge, Acquire, SnapshotInv, TypeOK, CallbackType,
       LeaseOK
  <1>16. ASSUME DeleteDurableObject PROVE LeaseOK'
    BY <1>16, HolderAssumption, Zenon DEF DeleteDurableObject, Release, SnapshotInv, TypeOK,
       CallbackType, LeaseOK
  <1>17. ASSUME RepairBegin PROVE LeaseOK'
    BY <1>17, HolderAssumption, Zenon DEF RepairBegin, Acquire, RepairReplicas, Fault, SnapshotInv,
       TypeOK, CallbackType, LeaseOK
  <1>18. ASSUME DeletePartly PROVE LeaseOK'
    BY <1>18, HolderAssumption, Zenon DEF DeletePartly, Release, Fault, SnapshotInv, TypeOK,
       CallbackType, LeaseOK
  <1>19. ASSUME Abandon PROVE LeaseOK'
    BY <1>19, HolderAssumption, Zenon DEF Abandon, Release, Fault, SnapshotInv, TypeOK, CallbackType,
       LeaseOK
  <1>20. ASSUME NEW s \in Sealers, SealStage(s) PROVE LeaseOK'
    BY <1>20, HolderAssumption, Zenon DEF SealStage, Acquire, SnapshotInv, TypeOK, CallbackType,
       LeaseOK
  <1>21. ASSUME NEW s \in Sealers, SealReuse(s) PROVE LeaseOK'
    BY <1>21, HolderAssumption, Zenon DEF SealReuse, SnapshotInv, TypeOK, CallbackType, LeaseOK
  <1>22. ASSUME NEW s \in Sealers, SealPut(s) PROVE LeaseOK'
    BY <1>22, HolderAssumption, Zenon DEF SealPut, Created, SnapshotInv, TypeOK, CallbackType, LeaseOK
  <1>23. ASSUME NEW s \in Sealers, CommitSealBatch(s) PROVE LeaseOK'
    BY <1>23, HolderAssumption, Zenon DEF CommitSealBatch, Release, SnapshotInv, TypeOK, CallbackType,
       LeaseOK
  <1>24. ASSUME NEW s \in Sealers, SealFails(s) PROVE LeaseOK'
    BY <1>24, HolderAssumption, Zenon DEF SealFails, Fails, Release, SnapshotInv, TypeOK, CallbackType,
       LeaseOK
  <1>25. ASSUME NEW s \in Sealers, SealPutFails(s) PROVE LeaseOK'
    BY <1>25, HolderAssumption, Zenon DEF SealPutFails, Fails, Release, Created, SnapshotInv, TypeOK,
       CallbackType, LeaseOK
  <1>26. ASSUME NEW s \in Sealers, StageLapses(s) PROVE Frame
    BY <1>26, Zenon DEF StageLapses
  <1>27. ASSUME NEW p \in Places, LateUpload(p) PROVE Frame
    BY <1>27, Zenon DEF LateUpload, Created
  <1>28. ASSUME NEW k \in Classes, ClaimLeased(k) PROVE Frame
    BY <1>28, Zenon DEF ClaimLeased
  <1>29. ASSUME NEW k \in Classes, ClaimCheck(k) PROVE Frame
    BY <1>29, Zenon DEF ClaimCheck
  <1>30. ASSUME NEW k \in Classes, ClaimInsert(k) PROVE Frame
    BY <1>30, Zenon DEF ClaimInsert
  <1>31. ASSUME NEW k \in Classes, Unclaim(k) PROVE Frame
    BY <1>31, Zenon DEF Unclaim
  <1>32. ASSUME ObjectAges PROVE Frame
    BY <1>32, Zenon DEF ObjectAges
  <1>33. ASSUME NEW p \in Nodes, NEW c \in {"none", "bad"}, ReplicaDamaged(p, c) PROVE Frame
    BY <1>33, Zenon DEF ReplicaDamaged
  <1> QED
    BY <1>0, <1>1, <1>2, <1>3, <1>4, <1>5, <1>6, <1>7, <1>8, <1>9, <1>10, <1>11, <1>12, <1>13,
       <1>14, <1>15, <1>16, <1>17, <1>18, <1>19, <1>20, <1>21, <1>22, <1>23, <1>24, <1>25,
       <1>26, <1>27, <1>28, <1>29, <1>30, <1>31, <1>32, <1>33, Zenon DEF Next, Maintain, Sealing

(* What a callback relies on stays true until it is done.                 *)
LEMMA PhaseKept == SnapshotInv /\ Next => PhaseOK'
  <1> SUFFICES ASSUME SnapshotInv, Next PROVE PhaseOK'
    BY Zenon
  <1> DEFINE Frame == UNCHANGED <<manifest, locations, claims, content, at, held, prune, damage>>
  <1>0. CASE Frame
    BY <1>0, Zenon DEF SnapshotInv, TypeOK, RowsType, ObjectsType, CallbackType, LeaseOK, PhaseOK,
       Available, Coherent, HasManifest
  <1>1. ASSUME ExpiryBegin PROVE PhaseOK'
    BY <1>1, HolderAssumption, Zenon DEF ExpiryBegin, Acquire, SnapshotInv, TypeOK, RowsType,
       ObjectsType, CallbackType, LeaseOK, PhaseOK, Available, Coherent, HasManifest,
       Collectable, HasActiveRetention
  <1>2. ASSUME NEW p \in Places, DeleteLocation(p) PROVE PhaseOK'
    BY <1>2, HolderAssumption, Zenon DEF DeleteLocation, Erased, SnapshotInv, TypeOK, RowsType,
       ObjectsType, CallbackType, LeaseOK, PhaseOK, Available, Coherent, HasManifest
  <1>3. ASSUME UnrecordDeleted PROVE PhaseOK'
    BY <1>3, HolderAssumption, Zenon DEF UnrecordDeleted, SnapshotInv, TypeOK, RowsType, ObjectsType,
       CallbackType, LeaseOK, PhaseOK, Available, Coherent, HasManifest
  <1>4. ASSUME ExpiryRecheck PROVE PhaseOK'
    BY <1>4, HolderAssumption, Zenon DEF ExpiryRecheck, Release, SnapshotInv, TypeOK, RowsType,
       ObjectsType, CallbackType, LeaseOK, PhaseOK, Available, Coherent, HasManifest
  <1>5. ASSUME ExpiryReclaim PROVE PhaseOK'
    BY <1>5, HolderAssumption, Zenon DEF ExpiryReclaim, DeleteAll, Erased, SnapshotInv, TypeOK,
       RowsType, ObjectsType, CallbackType, LeaseOK, PhaseOK, Available, Coherent, HasManifest
  <1>6. ASSUME MarkDigestExpired PROVE PhaseOK'
    BY <1>6, HolderAssumption, Zenon DEF MarkDigestExpired, Release, SnapshotInv, TypeOK, RowsType,
       ObjectsType, CallbackType, LeaseOK, PhaseOK, Available, Coherent, HasManifest
  <1>7. ASSUME NEW p \in Places, AddLocation(p) PROVE PhaseOK'
    BY <1>7, HolderAssumption, Zenon DEF AddLocation, SnapshotInv, TypeOK, RowsType, ObjectsType,
       CallbackType, LeaseOK, PhaseOK, Available, Coherent, HasManifest
  <1>8. ASSUME NEW p \in Places, RemoveLocation(p) PROVE PhaseOK'
    BY <1>8, HolderAssumption, Zenon DEF RemoveLocation, SnapshotInv, TypeOK, RowsType, ObjectsType,
       CallbackType, LeaseOK, PhaseOK, Available, Coherent, HasManifest
  <1>9. ASSUME OrphanBegin PROVE PhaseOK'
    BY <1>9, HolderAssumption, Zenon DEF OrphanBegin, Acquire, SnapshotInv, TypeOK, RowsType,
       ObjectsType, CallbackType, LeaseOK, PhaseOK, Available, Coherent, HasManifest
  <1>10. ASSUME OrphanDiscard PROVE PhaseOK'
    BY <1>10, HolderAssumption, Zenon DEF OrphanDiscard, DeleteAll, Erased, SnapshotInv, TypeOK,
       RowsType, ObjectsType, CallbackType, LeaseOK, PhaseOK, Available, Coherent, HasManifest
  <1>11. ASSUME RemoveStagedUploads PROVE PhaseOK'
    BY <1>11, HolderAssumption, Zenon DEF RemoveStagedUploads, Release, SnapshotInv, TypeOK, RowsType,
       ObjectsType, CallbackType, LeaseOK, PhaseOK, Available, Coherent, HasManifest
  <1>12. ASSUME RecordedAll PROVE PhaseOK'
    BY <1>12, HolderAssumption, Zenon DEF RecordedAll, SnapshotInv, TypeOK, RowsType, ObjectsType,
       CallbackType, LeaseOK, PhaseOK, Available, Coherent, HasManifest
  <1>13. ASSUME PrunedAll PROVE PhaseOK'
    BY <1>13, HolderAssumption, Zenon DEF PrunedAll, Release, SnapshotInv, TypeOK, RowsType,
       ObjectsType, CallbackType, LeaseOK, PhaseOK, Available, Coherent, HasManifest
  <1>14. ASSUME ListDurableObjects PROVE Frame
    BY <1>14, Zenon DEF ListDurableObjects
  <1>15. ASSUME SweepJudge PROVE PhaseOK'
    BY <1>15, HolderAssumption, Zenon DEF SweepJudge, Acquire, SnapshotInv, TypeOK, RowsType,
       ObjectsType, CallbackType, LeaseOK, PhaseOK, Available, Coherent, HasManifest
  <1>16. ASSUME DeleteDurableObject PROVE PhaseOK'
    BY <1>16, HolderAssumption, Zenon DEF DeleteDurableObject, Release, Erased, SnapshotInv, TypeOK,
       RowsType, ObjectsType, CallbackType, LeaseOK, PhaseOK, Available, Coherent, HasManifest
  <1>17. ASSUME RepairBegin PROVE PhaseOK'
    BY <1>17, RepairKeeps, Zenon DEF RepairBegin, Acquire, PhaseOK, Available, Coherent
  <1>18. ASSUME DeletePartly PROVE PhaseOK'
    BY <1>18, HolderAssumption, Zenon DEF DeletePartly, Release, Fault, Erased, SnapshotInv, TypeOK,
       RowsType, ObjectsType, CallbackType, LeaseOK, PhaseOK, Available, Coherent, HasManifest
  <1>19. ASSUME Abandon PROVE PhaseOK'
    BY <1>19, HolderAssumption, Zenon DEF Abandon, Release, Fault, SnapshotInv, TypeOK, RowsType,
       ObjectsType, CallbackType, LeaseOK, PhaseOK, Available, Coherent, HasManifest
  <1>20. ASSUME NEW s \in Sealers, SealStage(s) PROVE PhaseOK'
    BY <1>20, HolderAssumption, Zenon DEF SealStage, Acquire, SnapshotInv, TypeOK, RowsType,
       ObjectsType, CallbackType, LeaseOK, PhaseOK, Available, Coherent, HasManifest
  <1>21. ASSUME NEW s \in Sealers, SealReuse(s) PROVE PhaseOK'
    BY <1>21, HolderAssumption, Zenon DEF SealReuse, SnapshotInv, TypeOK, RowsType, ObjectsType,
       CallbackType, LeaseOK, PhaseOK, Available, Coherent, HasManifest, Verified
  <1>22. ASSUME NEW s \in Sealers, SealPut(s) PROVE PhaseOK'
    BY <1>22, PutStores, Zenon DEF PhaseOK
  <1>23. ASSUME NEW s \in Sealers, CommitSealBatch(s) PROVE PhaseOK'
    BY <1>23, HolderAssumption, Zenon DEF CommitSealBatch, Release, Revived, SnapshotInv, TypeOK,
       RowsType, ObjectsType, CallbackType, LeaseOK, PhaseOK, Available, Coherent, HasManifest
  <1>24. ASSUME NEW s \in Sealers, SealFails(s) PROVE PhaseOK'
    BY <1>24, HolderAssumption, Zenon DEF SealFails, Fails, Release, SnapshotInv, TypeOK, RowsType,
       ObjectsType, CallbackType, LeaseOK, PhaseOK, Available, Coherent, HasManifest
  <1>25. ASSUME NEW s \in Sealers, SealPutFails(s) PROVE PhaseOK'
    BY <1>25, HolderAssumption, Zenon DEF SealPutFails, Fails, Release, Created, Written, SnapshotInv,
       TypeOK, RowsType, ObjectsType, CallbackType, LeaseOK, PhaseOK, Available, Coherent,
       HasManifest
  <1>26. ASSUME NEW s \in Sealers, StageLapses(s) PROVE Frame
    BY <1>26, Zenon DEF StageLapses
  <1>27. ASSUME NEW p \in Places, LateUpload(p) PROVE PhaseOK'
    BY <1>27, HolderAssumption, Zenon DEF LateUpload, Created, Written, SnapshotInv, TypeOK, RowsType,
       ObjectsType, CallbackType, LeaseOK, PhaseOK, Available, Coherent, HasManifest, Places,
       Store
  <1>28. ASSUME NEW k \in Classes, ClaimLeased(k) PROVE PhaseOK'
    BY <1>28, HolderAssumption, Zenon DEF ClaimLeased, SnapshotInv, TypeOK, RowsType, ObjectsType,
       CallbackType, LeaseOK, PhaseOK, Available, Coherent, HasManifest
  <1>29. ASSUME NEW k \in Classes, ClaimCheck(k) PROVE Frame
    BY <1>29, Zenon DEF ClaimCheck
  <1>30. ASSUME NEW k \in Classes, ClaimInsert(k) PROVE PhaseOK'
    BY <1>30, HolderAssumption DEF ClaimInsert, SnapshotInv, TypeOK, RowsType, ObjectsType,
       CallbackType, LeaseOK, PhaseOK, Available, Coherent, HasManifest, Leased, Unleased
  <1>31. ASSUME NEW k \in Classes, Unclaim(k) PROVE PhaseOK'
    BY <1>31, HolderAssumption, Zenon DEF Unclaim, SnapshotInv, TypeOK, RowsType, ObjectsType,
       CallbackType, LeaseOK, PhaseOK, Available, Coherent, HasManifest
  <1>32. ASSUME ObjectAges PROVE Frame
    BY <1>32, Zenon DEF ObjectAges
  <1>33. ASSUME NEW p \in Nodes, NEW c \in {"none", "bad"}, ReplicaDamaged(p, c) PROVE PhaseOK'
    BY <1>33, DamageCounts, ZenonT(30) DEF SnapshotInv, PhaseOK, Available, Coherent, HasManifest
  <1> QED
    BY <1>0, <1>1, <1>2, <1>3, <1>4, <1>5, <1>6, <1>7, <1>8, <1>9, <1>10, <1>11, <1>12, <1>13,
       <1>14, <1>15, <1>16, <1>17, <1>18, <1>19, <1>20, <1>21, <1>22, <1>23, <1>24, <1>25,
       <1>26, <1>27, <1>28, <1>29, <1>30, <1>31, <1>32, <1>33, Zenon DEF Next, Maintain, Sealing

(* Claims and locations belong to manifests.                              *)
LEMMA RowsKept == SnapshotInv /\ Next => RowsOK'
  <1> SUFFICES ASSUME SnapshotInv, Next PROVE RowsOK'
    BY Zenon
  <1> DEFINE Frame == UNCHANGED <<manifest, locations, claims, pending>>
  <1>0. CASE Frame
    BY <1>0, Zenon DEF SnapshotInv, TypeOK, RowsType, CallbackType, LeaseOK, PhaseOK, RowsOK,
       Available, HasManifest
  <1>1. ASSUME ExpiryBegin PROVE Frame
    BY <1>1, Zenon DEF ExpiryBegin, Acquire
  <1>2. ASSUME NEW p \in Places, DeleteLocation(p) PROVE Frame
    BY <1>2, Zenon DEF DeleteLocation
  <1>3. ASSUME UnrecordDeleted PROVE RowsOK'
    BY <1>3, Zenon DEF UnrecordDeleted, SnapshotInv, TypeOK, RowsType, CallbackType, LeaseOK, PhaseOK,
       RowsOK, Available, HasManifest
  <1>4. ASSUME ExpiryRecheck PROVE Frame
    BY <1>4, Zenon DEF ExpiryRecheck, Release
  <1>5. ASSUME ExpiryReclaim PROVE Frame
    BY <1>5, Zenon DEF ExpiryReclaim, DeleteAll
  <1>6. ASSUME MarkDigestExpired PROVE RowsOK'
    BY <1>6, Zenon DEF MarkDigestExpired, Release, SnapshotInv, TypeOK, RowsType, CallbackType,
       LeaseOK, PhaseOK, RowsOK, Available, HasManifest
  <1>7. ASSUME NEW p \in Places, AddLocation(p) PROVE RowsOK'
    BY <1>7, Zenon DEF AddLocation, SnapshotInv, TypeOK, RowsType, CallbackType, LeaseOK, PhaseOK,
       RowsOK, Available, HasManifest
  <1>8. ASSUME NEW p \in Places, RemoveLocation(p) PROVE RowsOK'
    BY <1>8, Zenon DEF RemoveLocation, SnapshotInv, TypeOK, RowsType, CallbackType, LeaseOK, PhaseOK,
       RowsOK, Available, HasManifest
  <1>9. ASSUME OrphanBegin PROVE Frame
    BY <1>9, Zenon DEF OrphanBegin, Acquire
  <1>10. ASSUME OrphanDiscard PROVE Frame
    BY <1>10, Zenon DEF OrphanDiscard, DeleteAll
  <1>11. ASSUME RemoveStagedUploads PROVE Frame
    BY <1>11, Zenon DEF RemoveStagedUploads, Release
  <1>12. ASSUME RecordedAll PROVE Frame
    BY <1>12, Zenon DEF RecordedAll
  <1>13. ASSUME PrunedAll PROVE Frame
    BY <1>13, Zenon DEF PrunedAll, Release
  <1>14. ASSUME ListDurableObjects PROVE Frame
    BY <1>14, Zenon DEF ListDurableObjects
  <1>15. ASSUME SweepJudge PROVE Frame
    BY <1>15, Zenon DEF SweepJudge, Acquire
  <1>16. ASSUME DeleteDurableObject PROVE Frame
    BY <1>16, Zenon DEF DeleteDurableObject, Release
  <1>17. ASSUME RepairBegin PROVE Frame
    BY <1>17, Zenon DEF RepairBegin, Acquire, RepairReplicas, Fault
  <1>18. ASSUME DeletePartly PROVE Frame
    BY <1>18, Zenon DEF DeletePartly, Release, Fault
  <1>19. ASSUME Abandon PROVE Frame
    BY <1>19, Zenon DEF Abandon, Release, Fault
  <1>20. ASSUME NEW s \in Sealers, SealStage(s) PROVE Frame
    BY <1>20, Zenon DEF SealStage, Acquire
  <1>21. ASSUME NEW s \in Sealers, SealReuse(s) PROVE Frame
    BY <1>21, Zenon DEF SealReuse
  <1>22. ASSUME NEW s \in Sealers, SealPut(s) PROVE Frame
    BY <1>22, Zenon DEF SealPut, Created
  <1>23. ASSUME NEW s \in Sealers, CommitSealBatch(s) PROVE RowsOK'
    BY <1>23, TargetAssumption, Zenon DEF CommitSealBatch, Release, Revived, SnapshotInv, TypeOK,
       RowsType, CallbackType, LeaseOK, PhaseOK, RowsOK, Available, HasManifest
  <1>24. ASSUME NEW s \in Sealers, SealFails(s) PROVE Frame
    BY <1>24, Zenon DEF SealFails, Fails, Release
  <1>25. ASSUME NEW s \in Sealers, SealPutFails(s) PROVE Frame
    BY <1>25, Zenon DEF SealPutFails, Fails, Release, Created
  <1>26. ASSUME NEW s \in Sealers, StageLapses(s) PROVE Frame
    BY <1>26, Zenon DEF StageLapses
  <1>27. ASSUME NEW p \in Places, LateUpload(p) PROVE Frame
    BY <1>27, Zenon DEF LateUpload, Created
  <1>28. ASSUME NEW k \in Classes, ClaimLeased(k) PROVE RowsOK'
    BY <1>28, Zenon DEF ClaimLeased, SnapshotInv, TypeOK, RowsType, CallbackType, LeaseOK, PhaseOK,
       RowsOK, Available, HasManifest
  <1>29. ASSUME NEW k \in Classes, ClaimCheck(k) PROVE RowsOK'
    BY <1>29, Zenon DEF ClaimCheck, SnapshotInv, TypeOK, RowsType, CallbackType, LeaseOK, PhaseOK,
       RowsOK, Available, HasManifest
  <1>30. ASSUME NEW k \in Classes, ClaimInsert(k) PROVE RowsOK'
    BY <1>30, Zenon DEF ClaimInsert, SnapshotInv, TypeOK, RowsType, CallbackType, LeaseOK, PhaseOK,
       RowsOK, Available, HasManifest
  <1>31. ASSUME NEW k \in Classes, Unclaim(k) PROVE RowsOK'
    BY <1>31, Zenon DEF Unclaim, SnapshotInv, TypeOK, RowsType, CallbackType, LeaseOK, PhaseOK, RowsOK,
       Available, HasManifest
  <1>32. ASSUME ObjectAges PROVE Frame
    BY <1>32, Zenon DEF ObjectAges
  <1>33. ASSUME NEW p \in Nodes, NEW c \in {"none", "bad"}, ReplicaDamaged(p, c) PROVE Frame
    BY <1>33, Zenon DEF ReplicaDamaged
  <1> QED
    BY <1>0, <1>1, <1>2, <1>3, <1>4, <1>5, <1>6, <1>7, <1>8, <1>9, <1>10, <1>11, <1>12, <1>13,
       <1>14, <1>15, <1>16, <1>17, <1>18, <1>19, <1>20, <1>21, <1>22, <1>23, <1>24, <1>25,
       <1>26, <1>27, <1>28, <1>29, <1>30, <1>31, <1>32, <1>33, Zenon DEF Next, Maintain, Sealing

(* A listed object has aged.                                              *)
LEMMA ListedKept == SnapshotInv /\ Next => ListedOK'
  <1> SUFFICES ASSUME SnapshotInv, Next PROVE ListedOK'
    BY Zenon
  <1> DEFINE Frame == UNCHANGED <<generation, age, listed, at>>
  <1>0. CASE Frame
    BY <1>0, Zenon DEF SnapshotInv, TypeOK, ObjectsType, CallbackType, ListedOK
  <1>1. ASSUME ExpiryBegin PROVE ListedOK'
    BY <1>1, Zenon DEF ExpiryBegin, Acquire, SnapshotInv, TypeOK, ObjectsType, CallbackType, ListedOK
  <1>2. ASSUME NEW p \in Places, DeleteLocation(p) PROVE ListedOK'
    BY <1>2, Zenon DEF DeleteLocation, SnapshotInv, TypeOK, ObjectsType, CallbackType, ListedOK
  <1>3. ASSUME UnrecordDeleted PROVE ListedOK'
    BY <1>3, Zenon DEF UnrecordDeleted, SnapshotInv, TypeOK, ObjectsType, CallbackType, ListedOK
  <1>4. ASSUME ExpiryRecheck PROVE ListedOK'
    BY <1>4, Zenon DEF ExpiryRecheck, Release, SnapshotInv, TypeOK, ObjectsType, CallbackType, ListedOK
  <1>5. ASSUME ExpiryReclaim PROVE ListedOK'
    BY <1>5, Zenon DEF ExpiryReclaim, DeleteAll, SnapshotInv, TypeOK, ObjectsType, CallbackType,
       ListedOK
  <1>6. ASSUME MarkDigestExpired PROVE ListedOK'
    BY <1>6, Zenon DEF MarkDigestExpired, Release, SnapshotInv, TypeOK, ObjectsType, CallbackType,
       ListedOK
  <1>7. ASSUME NEW p \in Places, AddLocation(p) PROVE Frame
    BY <1>7, Zenon DEF AddLocation
  <1>8. ASSUME NEW p \in Places, RemoveLocation(p) PROVE Frame
    BY <1>8, Zenon DEF RemoveLocation
  <1>9. ASSUME OrphanBegin PROVE ListedOK'
    BY <1>9, Zenon DEF OrphanBegin, Acquire, SnapshotInv, TypeOK, ObjectsType, CallbackType, ListedOK
  <1>10. ASSUME OrphanDiscard PROVE ListedOK'
    BY <1>10, Zenon DEF OrphanDiscard, DeleteAll, SnapshotInv, TypeOK, ObjectsType, CallbackType,
       ListedOK
  <1>11. ASSUME RemoveStagedUploads PROVE ListedOK'
    BY <1>11, Zenon DEF RemoveStagedUploads, Release, SnapshotInv, TypeOK, ObjectsType, CallbackType,
       ListedOK
  <1>12. ASSUME RecordedAll PROVE ListedOK'
    BY <1>12, Zenon DEF RecordedAll, SnapshotInv, TypeOK, ObjectsType, CallbackType, ListedOK
  <1>13. ASSUME PrunedAll PROVE ListedOK'
    BY <1>13, Zenon DEF PrunedAll, Release, SnapshotInv, TypeOK, ObjectsType, CallbackType, ListedOK
  <1>14. ASSUME ListDurableObjects PROVE ListedOK'
    BY <1>14 DEF ListDurableObjects, SnapshotInv, TypeOK, ObjectsType, CallbackType, ListedOK
  <1>15. ASSUME SweepJudge PROVE ListedOK'
    BY <1>15, Zenon DEF SweepJudge, Acquire, SnapshotInv, TypeOK, ObjectsType, CallbackType, ListedOK
  <1>16. ASSUME DeleteDurableObject PROVE ListedOK'
    BY <1>16, Zenon DEF DeleteDurableObject, Release, SnapshotInv, TypeOK, ObjectsType, CallbackType,
       ListedOK
  <1>17. ASSUME RepairBegin PROVE ListedOK'
    BY <1>17, Zenon DEF RepairBegin, Acquire, RepairReplicas, Fault, SnapshotInv, TypeOK, ObjectsType,
       CallbackType, ListedOK
  <1>18. ASSUME DeletePartly PROVE ListedOK'
    BY <1>18, Zenon DEF DeletePartly, Release, Fault, SnapshotInv, TypeOK, ObjectsType, CallbackType,
       ListedOK
  <1>19. ASSUME Abandon PROVE ListedOK'
    BY <1>19, Zenon DEF Abandon, Release, Fault, SnapshotInv, TypeOK, ObjectsType, CallbackType,
       ListedOK
  <1>20. ASSUME NEW s \in Sealers, SealStage(s) PROVE ListedOK'
    BY <1>20, Zenon DEF SealStage, Acquire, SnapshotInv, TypeOK, ObjectsType, CallbackType, ListedOK
  <1>21. ASSUME NEW s \in Sealers, SealReuse(s) PROVE ListedOK'
    BY <1>21, Zenon DEF SealReuse, SnapshotInv, TypeOK, ObjectsType, CallbackType, ListedOK
  <1>22. ASSUME NEW s \in Sealers, SealPut(s) PROVE ListedOK'
    BY <1>22 DEF SealPut, Created, SnapshotInv, TypeOK, ObjectsType, CallbackType, ListedOK
  <1>23. ASSUME NEW s \in Sealers, CommitSealBatch(s) PROVE ListedOK'
    BY <1>23, Zenon DEF CommitSealBatch, Release, SnapshotInv, TypeOK, ObjectsType, CallbackType,
       ListedOK
  <1>24. ASSUME NEW s \in Sealers, SealFails(s) PROVE ListedOK'
    BY <1>24, Zenon DEF SealFails, Fails, Release, SnapshotInv, TypeOK, ObjectsType, CallbackType,
       ListedOK
  <1>25. ASSUME NEW s \in Sealers, SealPutFails(s) PROVE ListedOK'
    BY <1>25 DEF SealPutFails, Fails, Release, Created, SnapshotInv, TypeOK, ObjectsType,
       CallbackType, ListedOK
  <1>26. ASSUME NEW s \in Sealers, StageLapses(s) PROVE Frame
    BY <1>26, Zenon DEF StageLapses
  <1>27. ASSUME NEW p \in Places, LateUpload(p) PROVE ListedOK'
    BY <1>27 DEF LateUpload, Created, SnapshotInv, TypeOK, ObjectsType, CallbackType, ListedOK
  <1>28. ASSUME NEW k \in Classes, ClaimLeased(k) PROVE Frame
    BY <1>28, Zenon DEF ClaimLeased
  <1>29. ASSUME NEW k \in Classes, ClaimCheck(k) PROVE Frame
    BY <1>29, Zenon DEF ClaimCheck
  <1>30. ASSUME NEW k \in Classes, ClaimInsert(k) PROVE Frame
    BY <1>30, Zenon DEF ClaimInsert
  <1>31. ASSUME NEW k \in Classes, Unclaim(k) PROVE Frame
    BY <1>31, Zenon DEF Unclaim
  <1>32. ASSUME ObjectAges PROVE ListedOK'
    BY <1>32, Zenon DEF ObjectAges, SnapshotInv, TypeOK, ObjectsType, CallbackType, ListedOK
  <1>33. ASSUME NEW p \in Nodes, NEW c \in {"none", "bad"}, ReplicaDamaged(p, c) PROVE Frame
    BY <1>33, Zenon DEF ReplicaDamaged
  <1> QED
    BY <1>0, <1>1, <1>2, <1>3, <1>4, <1>5, <1>6, <1>7, <1>8, <1>9, <1>10, <1>11, <1>12, <1>13,
       <1>14, <1>15, <1>16, <1>17, <1>18, <1>19, <1>20, <1>21, <1>22, <1>23, <1>24, <1>25,
       <1>26, <1>27, <1>28, <1>29, <1>30, <1>31, <1>32, <1>33, Zenon DEF Next, Maintain, Sealing

(* Init and the actions together.                                          *)
THEOREM SnapshotInvariant == Spec => []SnapshotInv
  <1>1. Init => SnapshotInv
    <2> SUFFICES ASSUME Init PROVE SnapshotInv
      BY Zenon
    <2>1. RowsType
      BY ScenarioAssumption, Zenon DEF Init, RowsType, Store
    <2>2. ObjectsType
      BY DEF Init, ObjectsType, Store
    <2>3. CallbackType
      BY BoundAssumption DEF Init, CallbackType, Phases, Store
    <2>4. LeaseOK /\ PhaseOK /\ RowsOK /\ ListedOK
      BY HolderAssumption, Zenon DEF Init, LeaseOK, PhaseOK, RowsOK, ListedOK, HasManifest
    <2> QED
      BY <2>1, <2>2, <2>3, <2>4, Zenon DEF SnapshotInv, TypeOK
  <1>2. SnapshotInv /\ Next => SnapshotInv'
    BY RowsTyped, ObjectsTyped, CallbackTyped, LeaseKept, PhaseKept, RowsKept, ListedKept, Zenon
       DEF SnapshotInv, TypeOK
  <1>3. SnapshotInv /\ UNCHANGED vars => SnapshotInv'
    <2> SUFFICES ASSUME SnapshotInv, UNCHANGED vars PROVE SnapshotInv'
      BY Zenon
    <2>1. RowsType' /\ ObjectsType' /\ CallbackType'
      BY Zenon DEF vars, SnapshotInv, TypeOK, RowsType, ObjectsType, CallbackType, Store
    <2>2. LeaseOK' /\ ListedOK'
      BY Zenon DEF vars, SnapshotInv, LeaseOK, ListedOK
    <2>3. PhaseOK' /\ RowsOK'
      BY Zenon DEF vars, SnapshotInv, PhaseOK, RowsOK, Available, Coherent, HasManifest
    <2> QED
      BY <2>1, <2>2, <2>3, Zenon DEF SnapshotInv, TypeOK
  <1> QED
    BY <1>1, <1>2, <1>3, PTL DEF Spec

(* The sealed content stays readable while its claim is in force.         *)
LEMMA SealedKept == SnapshotInv /\ Next => (SealedContentReadable => SealedContentReadable')
  <1> SUFFICES ASSUME SnapshotInv, Next PROVE (SealedContentReadable => SealedContentReadable')
    BY Zenon
  <1> DEFINE Frame == UNCHANGED <<locations, claims, content, damage>>
  <1>0. CASE Frame
    BY <1>0, Zenon DEF SealedContentReadable, Verified
  <1>1. ASSUME ExpiryBegin PROVE Frame
    BY <1>1, Zenon DEF ExpiryBegin, Acquire
  <1>2. ASSUME NEW p \in Places, DeleteLocation(p) PROVE (SealedContentReadable => SealedContentReadable')
    BY <1>2, Zenon DEF DeleteLocation, Erased, SnapshotInv, TypeOK, RowsType, ObjectsType,
       CallbackType, LeaseOK, PhaseOK, RowsOK, Verified, SealedContentReadable, Leased,
       HasManifest
  <1>3. ASSUME UnrecordDeleted PROVE (SealedContentReadable => SealedContentReadable')
    BY <1>3, Zenon DEF UnrecordDeleted, SnapshotInv, TypeOK, RowsType, ObjectsType, CallbackType,
       LeaseOK, PhaseOK, RowsOK, Verified, SealedContentReadable, Leased, HasManifest
  <1>4. ASSUME ExpiryRecheck PROVE Frame
    BY <1>4, Zenon DEF ExpiryRecheck, Release
  <1>5. ASSUME ExpiryReclaim PROVE (SealedContentReadable => SealedContentReadable')
    BY <1>5, Zenon DEF ExpiryReclaim, DeleteAll, Erased, SnapshotInv, TypeOK, RowsType, ObjectsType,
       CallbackType, LeaseOK, PhaseOK, RowsOK, Verified, SealedContentReadable, Leased,
       HasManifest
  <1>6. ASSUME MarkDigestExpired PROVE Frame
    BY <1>6, Zenon DEF MarkDigestExpired, Release
  <1>7. ASSUME NEW p \in Places, AddLocation(p) PROVE (SealedContentReadable => SealedContentReadable')
    BY <1>7, Zenon DEF AddLocation, SnapshotInv, TypeOK, RowsType, ObjectsType, CallbackType, LeaseOK,
       PhaseOK, RowsOK, Verified, SealedContentReadable, Leased, HasManifest
  <1>8. ASSUME NEW p \in Places, RemoveLocation(p) PROVE (SealedContentReadable => SealedContentReadable')
    BY <1>8, Zenon DEF RemoveLocation, SnapshotInv, TypeOK, RowsType, ObjectsType, CallbackType,
       LeaseOK, PhaseOK, RowsOK, Verified, SealedContentReadable, Leased, HasManifest
  <1>9. ASSUME OrphanBegin PROVE Frame
    BY <1>9, Zenon DEF OrphanBegin, Acquire
  <1>10. ASSUME OrphanDiscard PROVE (SealedContentReadable => SealedContentReadable')
    BY <1>10, Zenon DEF OrphanDiscard, DeleteAll, Erased, SnapshotInv, TypeOK, RowsType, ObjectsType,
       CallbackType, LeaseOK, PhaseOK, RowsOK, Verified, SealedContentReadable, Leased,
       HasManifest
  <1>11. ASSUME RemoveStagedUploads PROVE Frame
    BY <1>11, Zenon DEF RemoveStagedUploads, Release
  <1>12. ASSUME RecordedAll PROVE Frame
    BY <1>12, Zenon DEF RecordedAll
  <1>13. ASSUME PrunedAll PROVE Frame
    BY <1>13, Zenon DEF PrunedAll, Release
  <1>14. ASSUME ListDurableObjects PROVE Frame
    BY <1>14, Zenon DEF ListDurableObjects
  <1>15. ASSUME SweepJudge PROVE Frame
    BY <1>15, Zenon DEF SweepJudge, Acquire
  <1>16. ASSUME DeleteDurableObject PROVE (SealedContentReadable => SealedContentReadable')
    BY <1>16, Zenon DEF DeleteDurableObject, Release, Erased, SnapshotInv, TypeOK, RowsType,
       ObjectsType, CallbackType, LeaseOK, PhaseOK, RowsOK, Verified, SealedContentReadable,
       Leased, HasManifest
  <1>17. ASSUME RepairBegin PROVE (SealedContentReadable => SealedContentReadable')
    BY <1>17, RepairKeeps, Zenon DEF RepairBegin, Acquire, SealedContentReadable, Verified
  <1>18. ASSUME DeletePartly PROVE (SealedContentReadable => SealedContentReadable')
    BY <1>18, Zenon DEF DeletePartly, Release, Fault, Erased, SnapshotInv, TypeOK, RowsType,
       ObjectsType, CallbackType, LeaseOK, PhaseOK, RowsOK, Verified, SealedContentReadable,
       Leased, HasManifest
  <1>19. ASSUME Abandon PROVE Frame
    BY <1>19, Zenon DEF Abandon, Release, Fault
  <1>20. ASSUME NEW s \in Sealers, SealStage(s) PROVE Frame
    BY <1>20, Zenon DEF SealStage, Acquire
  <1>21. ASSUME NEW s \in Sealers, SealReuse(s) PROVE Frame
    BY <1>21, Zenon DEF SealReuse
  <1>22. ASSUME NEW s \in Sealers, SealPut(s) PROVE (SealedContentReadable => SealedContentReadable')
    BY <1>22, UploadsAdd, LocationsPlaced, Zenon DEF SealedContentReadable, Verified
  <1>23. ASSUME NEW s \in Sealers, CommitSealBatch(s) PROVE (SealedContentReadable => SealedContentReadable')
    BY <1>23, Zenon DEF CommitSealBatch, Release, SnapshotInv, TypeOK, RowsType, ObjectsType,
       CallbackType, LeaseOK, PhaseOK, RowsOK, Verified, SealedContentReadable, Leased,
       HasManifest
  <1>24. ASSUME NEW s \in Sealers, SealFails(s) PROVE Frame
    BY <1>24, Zenon DEF SealFails, Fails, Release
  <1>25. ASSUME NEW s \in Sealers, SealPutFails(s) PROVE (SealedContentReadable => SealedContentReadable')
    BY <1>25, UploadsAdd, LocationsPlaced, Zenon DEF SealedContentReadable, Verified
  <1>26. ASSUME NEW s \in Sealers, StageLapses(s) PROVE Frame
    BY <1>26, Zenon DEF StageLapses
  <1>27. ASSUME NEW p \in Places, LateUpload(p) PROVE (SealedContentReadable => SealedContentReadable')
    BY <1>27, UploadsAdd, LocationsPlaced, Zenon DEF SealedContentReadable, Verified
  <1>28. ASSUME NEW k \in Classes, ClaimLeased(k) PROVE (SealedContentReadable => SealedContentReadable')
    BY <1>28, Zenon DEF ClaimLeased, SnapshotInv, TypeOK, RowsType, ObjectsType, CallbackType, LeaseOK,
       PhaseOK, RowsOK, Verified, SealedContentReadable, Leased, HasManifest
  <1>29. ASSUME NEW k \in Classes, ClaimCheck(k) PROVE Frame
    BY <1>29, Zenon DEF ClaimCheck
  <1>30. ASSUME NEW k \in Classes, ClaimInsert(k) PROVE (SealedContentReadable => SealedContentReadable')
    BY <1>30, Zenon DEF ClaimInsert, SnapshotInv, TypeOK, RowsType, ObjectsType, CallbackType, LeaseOK,
       PhaseOK, RowsOK, Verified, SealedContentReadable, Leased, HasManifest, Unleased
  <1>31. ASSUME NEW k \in Classes, Unclaim(k) PROVE (SealedContentReadable => SealedContentReadable')
    BY <1>31, Zenon DEF Unclaim, SnapshotInv, TypeOK, RowsType, ObjectsType, CallbackType, LeaseOK,
       PhaseOK, RowsOK, Verified, SealedContentReadable, Leased, HasManifest
  <1>32. ASSUME ObjectAges PROVE Frame
    BY <1>32, Zenon DEF ObjectAges
  <1>33. ASSUME NEW p \in Nodes, NEW c \in {"none", "bad"}, ReplicaDamaged(p, c) PROVE (SealedContentReadable => SealedContentReadable')
    BY <1>33, DamageCounts, Zenon DEF SealedContentReadable
  <1> QED
    BY <1>0, <1>1, <1>2, <1>3, <1>4, <1>5, <1>6, <1>7, <1>8, <1>9, <1>10, <1>11, <1>12, <1>13,
       <1>14, <1>15, <1>16, <1>17, <1>18, <1>19, <1>20, <1>21, <1>22, <1>23, <1>24, <1>25,
       <1>26, <1>27, <1>28, <1>29, <1>30, <1>31, <1>32, <1>33, Zenon DEF Next, Maintain, Sealing

(* A sealed output is readable while the seal's claim is in force.         *)
THEOREM SealedReadable == Spec => []SealedContentReadable
  <1>1. Init => SealedContentReadable
    BY Zenon DEF Init, SealedContentReadable
  <1>2. SnapshotInv /\ SealedContentReadable /\ [Next]_vars => SealedContentReadable'
    BY SealedKept, Zenon DEF vars, SealedContentReadable, Verified
  <1> QED
    BY <1>1, <1>2, SnapshotInvariant, PTL DEF Spec

(* A claim taken under the lease keeps the last readable copy: collections*)
(* exclude it, and a repair keeps the copy it started from.               *)
THEOREM RetainedReadable == Spec => RetainedStaysReadable
  <1> DEFINE Kept ==
        Verified # {} /\ claims \cap claims' \cap Leased # {} /\ damage' = 0 => Verified' # {}
  <1> DEFINE Frame == UNCHANGED <<locations, claims, content, damage>>
  <1>0. ASSUME Frame PROVE Kept
    BY <1>0, Zenon DEF Verified
  <1>1. ASSUME ExpiryBegin PROVE Frame
    BY <1>1, Zenon DEF ExpiryBegin, Acquire
  <1>2. ASSUME SnapshotInv, NEW p \in Places, DeleteLocation(p) PROVE Kept
    BY <1>2, Zenon DEF DeleteLocation, Erased, SnapshotInv, TypeOK, RowsType, ObjectsType,
       CallbackType, LeaseOK, PhaseOK, RowsOK, Verified, HasManifest
  <1>3. ASSUME SnapshotInv, UnrecordDeleted PROVE Kept
    BY <1>3, Zenon DEF UnrecordDeleted, SnapshotInv, TypeOK, RowsType, ObjectsType, CallbackType,
       LeaseOK, PhaseOK, RowsOK, Verified, HasManifest
  <1>4. ASSUME ExpiryRecheck PROVE Frame
    BY <1>4, Zenon DEF ExpiryRecheck, Release
  <1>5. ASSUME SnapshotInv, ExpiryReclaim PROVE Kept
    BY <1>5, Zenon DEF ExpiryReclaim, DeleteAll, Erased, SnapshotInv, TypeOK, RowsType, ObjectsType,
       CallbackType, LeaseOK, PhaseOK, RowsOK, Verified, HasManifest
  <1>6. ASSUME MarkDigestExpired PROVE Frame
    BY <1>6, Zenon DEF MarkDigestExpired, Release
  <1>7. ASSUME SnapshotInv, NEW p \in Places, AddLocation(p) PROVE Kept
    BY <1>7, Zenon DEF AddLocation, SnapshotInv, TypeOK, RowsType, ObjectsType, CallbackType, LeaseOK,
       PhaseOK, RowsOK, Verified, HasManifest
  <1>8. ASSUME SnapshotInv, NEW p \in Places, RemoveLocation(p) PROVE Kept
    BY <1>8, Zenon DEF RemoveLocation, SnapshotInv, TypeOK, RowsType, ObjectsType, CallbackType,
       LeaseOK, PhaseOK, RowsOK, Verified, HasManifest
  <1>9. ASSUME OrphanBegin PROVE Frame
    BY <1>9, Zenon DEF OrphanBegin, Acquire
  <1>10. ASSUME SnapshotInv, OrphanDiscard PROVE Kept
    BY <1>10, Zenon DEF OrphanDiscard, DeleteAll, Erased, SnapshotInv, TypeOK, RowsType, ObjectsType,
       CallbackType, LeaseOK, PhaseOK, RowsOK, Verified, HasManifest
  <1>11. ASSUME RemoveStagedUploads PROVE Frame
    BY <1>11, Zenon DEF RemoveStagedUploads, Release
  <1>12. ASSUME RecordedAll PROVE Frame
    BY <1>12, Zenon DEF RecordedAll
  <1>13. ASSUME PrunedAll PROVE Frame
    BY <1>13, Zenon DEF PrunedAll, Release
  <1>14. ASSUME ListDurableObjects PROVE Frame
    BY <1>14, Zenon DEF ListDurableObjects
  <1>15. ASSUME SweepJudge PROVE Frame
    BY <1>15, Zenon DEF SweepJudge, Acquire
  <1>16. ASSUME SnapshotInv, DeleteDurableObject PROVE Kept
    BY <1>16, Zenon DEF DeleteDurableObject, Release, Erased, SnapshotInv, TypeOK, RowsType,
       ObjectsType, CallbackType, LeaseOK, PhaseOK, RowsOK, Verified, HasManifest
  <1>17. ASSUME SnapshotInv, RepairBegin PROVE Kept
    BY <1>17, RepairKeeps, Zenon DEF RepairBegin, Acquire, Verified
  <1>18. ASSUME SnapshotInv, DeletePartly PROVE Kept
    BY <1>18, Zenon DEF DeletePartly, Release, Fault, Erased, SnapshotInv, TypeOK, RowsType,
       ObjectsType, CallbackType, LeaseOK, PhaseOK, RowsOK, Verified, HasManifest
  <1>19. ASSUME Abandon PROVE Frame
    BY <1>19, Zenon DEF Abandon, Release, Fault
  <1>20. ASSUME NEW s \in Sealers, SealStage(s) PROVE Frame
    BY <1>20, Zenon DEF SealStage, Acquire
  <1>21. ASSUME NEW s \in Sealers, SealReuse(s) PROVE Frame
    BY <1>21, Zenon DEF SealReuse
  <1>22. ASSUME SnapshotInv, NEW s \in Sealers, SealPut(s) PROVE Kept
    BY <1>22, UploadsAdd, LocationsPlaced, Zenon DEF Verified
  <1>23. ASSUME SnapshotInv, NEW s \in Sealers, CommitSealBatch(s) PROVE Kept
    BY <1>23, Zenon DEF CommitSealBatch, Release, SnapshotInv, TypeOK, RowsType, ObjectsType,
       CallbackType, LeaseOK, PhaseOK, RowsOK, Verified, HasManifest
  <1>24. ASSUME NEW s \in Sealers, SealFails(s) PROVE Frame
    BY <1>24, Zenon DEF SealFails, Fails, Release
  <1>25. ASSUME SnapshotInv, NEW s \in Sealers, SealPutFails(s) PROVE Kept
    BY <1>25, UploadsAdd, LocationsPlaced, Zenon DEF Verified
  <1>26. ASSUME NEW s \in Sealers, StageLapses(s) PROVE Frame
    BY <1>26, Zenon DEF StageLapses
  <1>27. ASSUME SnapshotInv, NEW p \in Places, LateUpload(p) PROVE Kept
    BY <1>27, UploadsAdd, LocationsPlaced, Zenon DEF Verified
  <1>28. ASSUME SnapshotInv, NEW k \in Classes, ClaimLeased(k) PROVE Kept
    BY <1>28, Zenon DEF ClaimLeased, SnapshotInv, TypeOK, RowsType, ObjectsType, CallbackType, LeaseOK,
       PhaseOK, RowsOK, Verified, HasManifest
  <1>29. ASSUME NEW k \in Classes, ClaimCheck(k) PROVE Frame
    BY <1>29, Zenon DEF ClaimCheck
  <1>30. ASSUME SnapshotInv, NEW k \in Classes, ClaimInsert(k) PROVE Kept
    BY <1>30, Zenon DEF ClaimInsert, SnapshotInv, TypeOK, RowsType, ObjectsType, CallbackType, LeaseOK,
       PhaseOK, RowsOK, Verified, HasManifest, Leased, Unleased
  <1>31. ASSUME SnapshotInv, NEW k \in Classes, Unclaim(k) PROVE Kept
    BY <1>31, Zenon DEF Unclaim, SnapshotInv, TypeOK, RowsType, ObjectsType, CallbackType, LeaseOK,
       PhaseOK, RowsOK, Verified, HasManifest
  <1>32. ASSUME ObjectAges PROVE Frame
    BY <1>32, Zenon DEF ObjectAges
  <1>33. ASSUME SnapshotInv, NEW p \in Nodes, NEW c \in {"none", "bad"}, ReplicaDamaged(p, c) PROVE Kept
    BY <1>33, DamageCounts, Zenon
  <1>90. SnapshotInv /\ [Next]_vars => [Kept]_vars
    BY <1>0, <1>1, <1>2, <1>3, <1>4, <1>5, <1>6, <1>7, <1>8, <1>9, <1>10, <1>11, <1>12, <1>13,
       <1>14, <1>15, <1>16, <1>17, <1>18, <1>19, <1>20, <1>21, <1>22, <1>23, <1>24, <1>25,
       <1>26, <1>27, <1>28, <1>29, <1>30, <1>31, <1>32, <1>33, Zenon DEF Next, Maintain, Sealing
  <1> QED
    BY <1>90, SnapshotInvariant, PTL DEF Spec, RetainedStaysReadable

(* Where something is recorded, a manifest is available.                   *)
LEMMA RecordedPresent ==
    ASSUME SnapshotInv, locations # {}
    PROVE  \E m \in Manifests : manifest[m] = "available"
  BY Zenon DEF SnapshotInv, RowsOK

(* The manifests of the contract are the digest's.                         *)
LEMMA SamePresent ==
    /\ Contract!Manifests = Manifests
    /\ Contract!Present # {} <=> \E m \in Manifests : manifest[m] = "available"
    /\ Contract!Sealed # {} <=> HasManifest
  BY Zenon DEF Contract!Manifests, Manifests, Contract!Present, Contract!Sealed, HasManifest

(* A step that changes nothing but which copies there are shows only in    *)
(* whether the content can be read: it is given up if nothing taken under  *)
(* the lease retains it, or restored if it is recorded.                    *)
LEMMA CopiesSeen ==
    ASSUME SnapshotInv, UNCHANGED <<manifest, produced, claims, damage>>,
           Verified # {} => Verified' # {} \/ claims \cap Leased = {} \/ damage # 0,
           Verified = {} => Verified' = {} \/ \E m \in Manifests : manifest[m] = "available"
    PROVE  Contract!Next \/ UNCHANGED Contract!contract
  <1>1. CASE (Verified # {}) <=> (Verified' # {})
    BY <1>1, Zenon DEF Contract!contract
  <1>2. CASE Verified # {} /\ Verified' = {}
    <2>1. Contract!GiveUp
      BY <1>2, Zenon DEF Contract!GiveUp
    <2> QED
      BY <2>1, Zenon DEF Contract!Next
  <1>3. CASE Verified = {} /\ Verified' # {}
    <2>1. Contract!Restore
      BY <1>3, SamePresent, Zenon DEF Contract!Restore
    <2> QED
      BY <2>1, Zenon DEF Contract!Next
  <1> QED
    BY <1>1, <1>2, <1>3, Zenon

(* A commit is a seal: what it records was stored, and nothing is lost.    *)
LEMMA SealSeen ==
    ASSUME SnapshotInv, NEW s \in Sealers, CommitSealBatch(s)
    PROVE  Contract!Next
  <1>1. output[s] \in Outputs
    BY Zenon DEF SnapshotInv, TypeOK, RowsType
  <1>2. Verified \subseteq Verified'
    BY Zenon DEF CommitSealBatch, Verified
  <1>3. damage = 0 => Verified' # {}
    <2>1. held # {} /\ (damage = 0 => \A p \in held : content[p] = "ok")
      BY Zenon DEF CommitSealBatch, SnapshotInv, PhaseOK
    <2> QED
      BY <2>1, Zenon DEF CommitSealBatch, Verified
  <1>4. Contract!Seal(output[s])
    BY <1>2, <1>3, SamePresent, Zenon DEF Contract!Seal, CommitSealBatch, Revived
  <1> QED
    BY <1>1, <1>4, SamePresent, Zenon DEF Contract!Next

(* A claim is of an available digest, or of one that was.                  *)
LEMMA ClaimSeen ==
    ASSUME SnapshotInv, NEW k \in Classes, ClaimLeased(k) \/ ClaimInsert(k) \/ Unclaim(k)
    PROVE  Contract!Next
  <1>1. k \in Leased \cup Unleased
    BY ClassAssumption, Zenon
  <1>2. UNCHANGED <<manifest, produced, damage>> /\ (Verified # {})' = (Verified # {})
    BY Zenon DEF ClaimLeased, ClaimInsert, Unclaim, Verified
  <1>3. CASE ClaimLeased(k)
    <2>1. HasManifest /\ \E m \in Manifests : manifest[m] = "available"
      BY <1>3, Zenon DEF ClaimLeased, HasManifest
    <2>2. Contract!Claim(k)
      BY <1>2, <1>3, <2>1, SamePresent, Zenon DEF Contract!Claim, ClaimLeased
    <2> QED
      BY <1>1, <2>2, Zenon DEF Contract!Next
  <1>4. CASE ClaimInsert(k)
    <2>1. HasManifest /\ k \notin Leased
      BY <1>4, Zenon DEF ClaimInsert, SnapshotInv, TypeOK, RowsType, RowsOK, Leased, Unleased
    <2>2. Contract!Claim(k)
      BY <1>2, <1>4, <2>1, SamePresent, Zenon DEF Contract!Claim, ClaimInsert
    <2> QED
      BY <1>1, <2>2, Zenon DEF Contract!Next
  <1>5. CASE Unclaim(k)
    <2>1. Contract!Unclaim(k)
      BY <1>2, <1>5, Zenon DEF Contract!Unclaim, Unclaim
    <2> QED
      BY <1>1, <2>1, Zenon DEF Contract!Next
  <1> QED
    BY <1>3, <1>4, <1>5, Zenon

(* The manifests expire when nothing retains them and nothing is recorded. *)
LEMMA ExpirySeen ==
    ASSUME SnapshotInv, MarkDigestExpired
    PROVE  Contract!Next \/ UNCHANGED Contract!contract
  <1>1. UNCHANGED <<produced, locations, claims, content, damage>> /\ (Verified # {})' = (Verified # {})
    BY Zenon DEF MarkDigestExpired, Verified
  <1>2. CASE CanExpire
    <2>1. claims = {} /\ ~(Verified # {})
      BY <1>2, Zenon DEF CanExpire, Collectable, HasActiveRetention, Verified
    <2>2. manifest' = [m \in Manifests |-> IF m \in Contract!Present THEN "expired" ELSE manifest[m]]
      BY <1>2, SamePresent, Zenon DEF MarkDigestExpired, Contract!Present
    <2>3. Contract!Expire
      BY <1>1, <2>1, <2>2, SamePresent, Zenon DEF Contract!Expire
    <2> QED
      BY <2>3, Zenon DEF Contract!Next
  <1>3. CASE ~CanExpire
    BY <1>1, <1>3, Zenon DEF MarkDigestExpired, Contract!contract
  <1> QED
    BY <1>2, <1>3, Zenon

(* Damage shows as damage.                                                 *)
LEMMA DamageSeen ==
    ASSUME SnapshotInv, NEW p \in Nodes, NEW c \in {"none", "bad"}, ReplicaDamaged(p, c)
    PROVE  Contract!Next
  <1>1. Verified' \subseteq Verified
    <2>1. content' = [content EXCEPT ![p] = c] /\ c # "ok" /\ locations' = locations
      BY Zenon DEF ReplicaDamaged
    <2>2. \A q \in locations : content'[q] = "ok" => content[q] = "ok"
      BY <2>1, LocationsPlaced, Zenon DEF SnapshotInv, TypeOK, ObjectsType
    <2> QED
      BY <2>1, <2>2, Zenon DEF Verified
  <1>2. (Verified # {})' \in {(Verified # {}), FALSE}
    BY <1>1, Zenon
  <1>3. Contract!Damage
    BY <1>2, Zenon DEF Contract!Damage, ReplicaDamaged
  <1> QED
    BY <1>3, Zenon DEF Contract!Next

(* Every step of the digest is a step of its contract, or none.            *)
LEMMA ContractSeen ==
    ASSUME SnapshotInv, Next
    PROVE  Contract!Next \/ UNCHANGED Contract!contract
  <1> DEFINE Seen == Contract!Next \/ UNCHANGED Contract!contract
  <1> DEFINE Frame == UNCHANGED <<manifest, produced, locations, claims, content, damage>>
  <1> DEFINE Rows == UNCHANGED <<manifest, produced, claims, damage>>
  <1>0. ASSUME Frame PROVE Seen
    BY <1>0, CopiesSeen, Zenon DEF Verified
  <1>a. ASSUME Rows, locations' \subseteq locations, claims \cap Leased = {} PROVE Seen
    <2>1. Verified = {} => Verified' = {} \/ locations # {}
      BY <1>a, Zenon DEF Verified
    <2> QED
      BY <1>a, <2>1, RecordedPresent, CopiesSeen, Zenon
  <1>b. ASSUME Rows, locations' = locations, \A p \in locations : content[p] = "ok" => content'[p] = "ok"
        PROVE  Seen
    <2>1. Verified \subseteq Verified' /\ (Verified' # {} => locations # {})
      BY <1>b, Zenon DEF Verified
    <2> QED
      BY <1>b, <2>1, RecordedPresent, CopiesSeen, Zenon
  <1>c. ASSUME Rows, locations' = locations, locations = {} PROVE Seen
    BY <1>c, CopiesSeen, Zenon DEF Verified
  <1>1. ASSUME ExpiryBegin PROVE Frame
    BY <1>1, Zenon DEF ExpiryBegin, Acquire
  <1>2. ASSUME ExpiryRecheck PROVE Frame
    BY <1>2, Zenon DEF ExpiryRecheck, Release
  <1>3. ASSUME OrphanBegin PROVE Frame
    BY <1>3, Zenon DEF OrphanBegin, Acquire
  <1>4. ASSUME RemoveStagedUploads PROVE Frame
    BY <1>4, Zenon DEF RemoveStagedUploads, Release
  <1>5. ASSUME RecordedAll PROVE Frame
    BY <1>5, Zenon DEF RecordedAll
  <1>6. ASSUME PrunedAll PROVE Frame
    BY <1>6, Zenon DEF PrunedAll, Release
  <1>7. ASSUME ListDurableObjects PROVE Frame
    BY <1>7, Zenon DEF ListDurableObjects
  <1>8. ASSUME SweepJudge PROVE Frame
    BY <1>8, Zenon DEF SweepJudge, Acquire
  <1>9. ASSUME Abandon PROVE Frame
    BY <1>9, Zenon DEF Abandon, Release, Fault
  <1>10. ASSUME NEW s \in Sealers, SealStage(s) PROVE Frame
    BY <1>10, Zenon DEF SealStage, Acquire
  <1>11. ASSUME NEW s \in Sealers, SealReuse(s) PROVE Frame
    BY <1>11, Zenon DEF SealReuse
  <1>12. ASSUME NEW s \in Sealers, SealFails(s) PROVE Frame
    BY <1>12, Zenon DEF SealFails, Fails, Release
  <1>13. ASSUME NEW s \in Sealers, StageLapses(s) PROVE Frame
    BY <1>13, Zenon DEF StageLapses
  <1>14. ASSUME NEW k \in Classes, ClaimCheck(k) PROVE Frame
    BY <1>14, Zenon DEF ClaimCheck
  <1>15. ASSUME ObjectAges PROVE Frame
    BY <1>15, Zenon DEF ObjectAges
  <1>16. ASSUME NEW p \in Places, DeleteLocation(p) PROVE Seen
    <2>1. Rows /\ locations' = locations /\ claims \cap Leased = {}
      BY <1>16, Zenon DEF DeleteLocation, SnapshotInv, PhaseOK
    <2> QED
      BY <2>1, <1>a, Zenon
  <1>17. ASSUME UnrecordDeleted PROVE Seen
    <2>1. Rows /\ locations' \subseteq locations /\ claims \cap Leased = {}
      BY <1>17, Zenon DEF UnrecordDeleted, SnapshotInv, PhaseOK
    <2> QED
      BY <2>1, <1>a, Zenon
  <1>18. ASSUME ExpiryReclaim PROVE Seen
    <2>1. Rows /\ locations' = locations /\ locations = {}
      BY <1>18, Zenon DEF ExpiryReclaim, DeleteAll, SnapshotInv, PhaseOK
    <2> QED
      BY <2>1, <1>c, Zenon
  <1>19. ASSUME OrphanDiscard PROVE Seen
    <2>1. Rows /\ locations' = locations /\ locations = {}
      BY <1>19, Zenon DEF OrphanDiscard, DeleteAll, SnapshotInv, PhaseOK, RowsOK, HasManifest
    <2> QED
      BY <2>1, <1>c, Zenon
  <1>20. ASSUME DeletePartly PROVE Seen
    <2>1. Rows /\ locations' = locations /\ locations = {}
      BY <1>20, Zenon DEF DeletePartly, SnapshotInv, PhaseOK, RowsOK, HasManifest
    <2> QED
      BY <2>1, <1>c, Zenon
  <1>21. ASSUME DeleteDurableObject PROVE Seen
    <2>1. Rows /\ locations' = locations /\ locations = {}
      BY <1>21, Zenon DEF DeleteDurableObject, SnapshotInv, PhaseOK, RowsOK, HasManifest
    <2> QED
      BY <2>1, <1>c, Zenon
  <1>22. ASSUME RepairBegin PROVE Seen
    <2>1. Rows /\ locations' = locations /\ \A p \in locations : content[p] = "ok" => content'[p] = "ok"
      BY <1>22, RepairKeeps, Zenon DEF RepairBegin, Verified
    <2> QED
      BY <2>1, <1>b, Zenon
  <1>23. ASSUME NEW s \in Sealers, SealPut(s) PROVE Seen
    <2>1. Rows /\ locations' = locations /\ \A q \in locations : content[q] = "ok" => content'[q] = "ok"
      BY <1>23, UploadsAdd, LocationsPlaced, Zenon DEF SealPut
    <2> QED
      BY <2>1, <1>b, Zenon
  <1>24. ASSUME NEW s \in Sealers, SealPutFails(s) PROVE Seen
    <2>1. Rows /\ locations' = locations /\ \A q \in locations : content[q] = "ok" => content'[q] = "ok"
      BY <1>24, UploadsAdd, LocationsPlaced, Zenon DEF SealPutFails
    <2> QED
      BY <2>1, <1>b, Zenon
  <1>25. ASSUME NEW p \in Places, LateUpload(p) PROVE Seen
    <2>1. Rows /\ locations' = locations /\ \A q \in locations : content[q] = "ok" => content'[q] = "ok"
      BY <1>25, UploadsAdd, LocationsPlaced, Zenon DEF LateUpload
    <2> QED
      BY <2>1, <1>b, Zenon
  <1>26. ASSUME NEW p \in Places, AddLocation(p) PROVE Seen
    <2>1. Rows /\ Verified \subseteq Verified'
      BY <1>26, Zenon DEF AddLocation, Verified
    <2>2. \E m \in Manifests : manifest[m] = "available"
      BY <1>26, Zenon DEF AddLocation, SnapshotInv, PhaseOK, Available
    <2> QED
      BY <2>1, <2>2, CopiesSeen, Zenon
  <1>27. ASSUME NEW p \in Places, RemoveLocation(p) PROVE Seen
    <2>1. Rows /\ Verified' \subseteq Verified
      BY <1>27, Zenon DEF RemoveLocation, Verified
    <2>2. damage = 0 => Verified' # {}
      BY <1>27, Zenon DEF RemoveLocation, SnapshotInv, PhaseOK, LeaseOK, Verified
    <2> QED
      BY <2>1, <2>2, CopiesSeen, Zenon
  <1>28. ASSUME NEW s \in Sealers, CommitSealBatch(s) PROVE Seen
    BY <1>28, SealSeen, Zenon
  <1>29. ASSUME NEW k \in Classes, ClaimLeased(k) PROVE Seen
    BY <1>29, ClaimSeen, Zenon
  <1>30. ASSUME NEW k \in Classes, ClaimInsert(k) PROVE Seen
    BY <1>30, ClaimSeen, Zenon
  <1>31. ASSUME NEW k \in Classes, Unclaim(k) PROVE Seen
    BY <1>31, ClaimSeen, Zenon
  <1>32. ASSUME MarkDigestExpired PROVE Seen
    BY <1>32, ExpirySeen, Zenon
  <1>33. ASSUME NEW p \in Nodes, NEW c \in {"none", "bad"}, ReplicaDamaged(p, c) PROVE Seen
    BY <1>33, DamageSeen, Zenon
  <1> QED
    BY <1>0, <1>a, <1>b, <1>c, <1>1, <1>2, <1>3, <1>4, <1>5, <1>6, <1>7, <1>8, <1>9, <1>10,
       <1>11, <1>12, <1>13, <1>14, <1>15, <1>16, <1>17, <1>18, <1>19, <1>20, <1>21, <1>22,
       <1>23, <1>24, <1>25, <1>26, <1>27, <1>28, <1>29, <1>30, <1>31, <1>32, <1>33, ZenonT(30)
       DEF Next, Maintain, Sealing

(* The digest keeps its contract: sealed content can be read for as long   *)
(* as a claim taken under the lease retains it, and manifests expire only  *)
(* when nothing retains the digest and nothing is left to read.            *)
THEOREM SnapshotContractKept == Spec => KeepsSnapshotContract
  <1>1. Init => Contract!Init
    BY SamePresent, Zenon DEF Init, Contract!Init, Verified
  <1>2. SnapshotInv /\ [Next]_vars => [Contract!Next]_(Contract!contract)
    <2>1. ASSUME UNCHANGED vars PROVE UNCHANGED Contract!contract
      BY <2>1, Zenon DEF vars, Contract!contract, Verified
    <2> QED
      BY <2>1, ContractSeen, Zenon
  <1> QED
    BY <1>1, <1>2, SnapshotInvariant, PTL DEF Spec, KeepsSnapshotContract, Contract!Spec

(* The sweep deletes the generation it has listed, which was old then.    *)
THEOREM YoungObjects == Spec => YoungObjectKept
  <1> DEFINE Kept ==
        at = "sweeping" /\ content[Hangar] # "none" /\ content'[Hangar] = "none" => age = "old"
  <1> DEFINE Frame == UNCHANGED <<content>>
  <1>0. ASSUME Frame PROVE Kept
    BY <1>0, Zenon
  <1>1. ASSUME ExpiryBegin PROVE Frame
    BY <1>1, Zenon DEF ExpiryBegin, Acquire
  <1>2. ASSUME SnapshotInv, NEW p \in Places, DeleteLocation(p) PROVE Kept
    BY <1>2, HolderAssumption, Zenon DEF DeleteLocation, Erased, SnapshotInv, TypeOK, ObjectsType,
       CallbackType, LeaseOK, ListedOK, Places
  <1>3. ASSUME UnrecordDeleted PROVE Frame
    BY <1>3, Zenon DEF UnrecordDeleted
  <1>4. ASSUME ExpiryRecheck PROVE Frame
    BY <1>4, Zenon DEF ExpiryRecheck, Release
  <1>5. ASSUME SnapshotInv, ExpiryReclaim PROVE Kept
    BY <1>5, HolderAssumption, Zenon DEF ExpiryReclaim, DeleteAll, Erased, SnapshotInv, TypeOK,
       ObjectsType, CallbackType, LeaseOK, ListedOK, Places
  <1>6. ASSUME MarkDigestExpired PROVE Frame
    BY <1>6, Zenon DEF MarkDigestExpired, Release
  <1>7. ASSUME NEW p \in Places, AddLocation(p) PROVE Frame
    BY <1>7, Zenon DEF AddLocation
  <1>8. ASSUME NEW p \in Places, RemoveLocation(p) PROVE Frame
    BY <1>8, Zenon DEF RemoveLocation
  <1>9. ASSUME OrphanBegin PROVE Frame
    BY <1>9, Zenon DEF OrphanBegin, Acquire
  <1>10. ASSUME SnapshotInv, OrphanDiscard PROVE Kept
    BY <1>10, HolderAssumption, Zenon DEF OrphanDiscard, DeleteAll, Erased, SnapshotInv, TypeOK,
       ObjectsType, CallbackType, LeaseOK, ListedOK, Places
  <1>11. ASSUME RemoveStagedUploads PROVE Frame
    BY <1>11, Zenon DEF RemoveStagedUploads, Release
  <1>12. ASSUME RecordedAll PROVE Frame
    BY <1>12, Zenon DEF RecordedAll
  <1>13. ASSUME PrunedAll PROVE Frame
    BY <1>13, Zenon DEF PrunedAll, Release
  <1>14. ASSUME ListDurableObjects PROVE Frame
    BY <1>14, Zenon DEF ListDurableObjects
  <1>15. ASSUME SweepJudge PROVE Frame
    BY <1>15, Zenon DEF SweepJudge, Acquire
  <1>16. ASSUME SnapshotInv, DeleteDurableObject PROVE Kept
    BY <1>16, HolderAssumption, Zenon DEF DeleteDurableObject, Release, Erased, SnapshotInv, TypeOK,
       ObjectsType, CallbackType, LeaseOK, ListedOK, Places
  <1>17. ASSUME SnapshotInv, RepairBegin PROVE Kept
    BY <1>17, HolderAssumption, Zenon DEF RepairBegin, Acquire, RepairReplicas, Fault, SnapshotInv,
       TypeOK, ObjectsType, CallbackType, LeaseOK, ListedOK, Places
  <1>18. ASSUME SnapshotInv, DeletePartly PROVE Kept
    BY <1>18, HolderAssumption, Zenon DEF DeletePartly, Release, Fault, Erased, SnapshotInv, TypeOK,
       ObjectsType, CallbackType, LeaseOK, ListedOK, Places
  <1>19. ASSUME Abandon PROVE Frame
    BY <1>19, Zenon DEF Abandon, Release, Fault
  <1>20. ASSUME NEW s \in Sealers, SealStage(s) PROVE Frame
    BY <1>20, Zenon DEF SealStage, Acquire
  <1>21. ASSUME NEW s \in Sealers, SealReuse(s) PROVE Frame
    BY <1>21, Zenon DEF SealReuse
  <1>22. ASSUME SnapshotInv, NEW s \in Sealers, SealPut(s) PROVE Kept
    BY <1>22, HolderAssumption, Zenon DEF SealPut, Created, Written, SnapshotInv, TypeOK, ObjectsType,
       CallbackType, LeaseOK, ListedOK, Places
  <1>23. ASSUME NEW s \in Sealers, CommitSealBatch(s) PROVE Frame
    BY <1>23, Zenon DEF CommitSealBatch, Release
  <1>24. ASSUME NEW s \in Sealers, SealFails(s) PROVE Frame
    BY <1>24, Zenon DEF SealFails, Fails, Release
  <1>25. ASSUME SnapshotInv, NEW s \in Sealers, SealPutFails(s) PROVE Kept
    BY <1>25, HolderAssumption, Zenon DEF SealPutFails, Fails, Release, Created, Written, SnapshotInv,
       TypeOK, ObjectsType, CallbackType, LeaseOK, ListedOK, Places
  <1>26. ASSUME NEW s \in Sealers, StageLapses(s) PROVE Frame
    BY <1>26, Zenon DEF StageLapses
  <1>27. ASSUME SnapshotInv, NEW p \in Places, LateUpload(p) PROVE Kept
    BY <1>27, HolderAssumption, Zenon DEF LateUpload, Created, Written, SnapshotInv, TypeOK,
       ObjectsType, CallbackType, LeaseOK, ListedOK, Places
  <1>28. ASSUME NEW k \in Classes, ClaimLeased(k) PROVE Frame
    BY <1>28, Zenon DEF ClaimLeased
  <1>29. ASSUME NEW k \in Classes, ClaimCheck(k) PROVE Frame
    BY <1>29, Zenon DEF ClaimCheck
  <1>30. ASSUME NEW k \in Classes, ClaimInsert(k) PROVE Frame
    BY <1>30, Zenon DEF ClaimInsert
  <1>31. ASSUME NEW k \in Classes, Unclaim(k) PROVE Frame
    BY <1>31, Zenon DEF Unclaim
  <1>32. ASSUME ObjectAges PROVE Frame
    BY <1>32, Zenon DEF ObjectAges
  <1>33. ASSUME SnapshotInv, NEW p \in Nodes, NEW c \in {"none", "bad"}, ReplicaDamaged(p, c) PROVE Kept
    BY <1>33, HolderAssumption, PlaceAssumption, Zenon DEF ReplicaDamaged, SnapshotInv, TypeOK,
       ObjectsType, CallbackType, LeaseOK, ListedOK, Places
  <1>90. SnapshotInv /\ [Next]_vars => [Kept]_vars
    BY <1>0, <1>1, <1>2, <1>3, <1>4, <1>5, <1>6, <1>7, <1>8, <1>9, <1>10, <1>11, <1>12, <1>13,
       <1>14, <1>15, <1>16, <1>17, <1>18, <1>19, <1>20, <1>21, <1>22, <1>23, <1>24, <1>25,
       <1>26, <1>27, <1>28, <1>29, <1>30, <1>31, <1>32, <1>33, Zenon DEF Next, Maintain, Sealing
  <1> QED
    BY <1>90, SnapshotInvariant, PTL DEF Spec, YoungObjectKept

(* Whatever teams there are, the manifests of each agree: its seals bring  *)
(* back all of its expired ones, and an expiry moves all that are          *)
(* available.                                                              *)
THEOREM TeamSiblingsCoherent == Spec => []SiblingsCoherent
  <1>1. Init => SiblingsCoherent
    BY Zenon DEF Init, SiblingsCoherent, Coherent
  <1>2. ASSUME SiblingsCoherent, SnapshotInv, [Next]_vars PROVE SiblingsCoherent'
    <2> DEFINE Frame == UNCHANGED manifest
    <2>1. CASE Frame
      BY <1>2, <2>1, Zenon DEF SiblingsCoherent, Coherent
    <2>2. ASSUME NEW s \in Sealers, CommitSealBatch(s) PROVE SiblingsCoherent'
      <3>1. PICK m \in Manifests : manifest' = Revived(m)
        BY <1>2, <2>2, TargetAssumption, Zenon DEF CommitSealBatch, SnapshotInv, TypeOK, RowsType
      <3> QED
        BY <1>2, <3>1, ZenonT(30) DEF Revived, SiblingsCoherent, SnapshotInv, TypeOK, RowsType
    <2>3. CASE MarkDigestExpired
      BY <1>2, <2>3, Zenon DEF MarkDigestExpired, SiblingsCoherent, Coherent, SnapshotInv, TypeOK, RowsType
    <2>4. Frame \/ MarkDigestExpired \/ \E s \in Sealers : CommitSealBatch(s)
      <3>1. ASSUME ExpiryBegin PROVE Frame
        BY <3>1, Zenon DEF ExpiryBegin, Acquire
      <3>2. ASSUME NEW p \in Places, DeleteLocation(p) PROVE Frame
        BY <3>2, Zenon DEF DeleteLocation
      <3>3. ASSUME UnrecordDeleted PROVE Frame
        BY <3>3, Zenon DEF UnrecordDeleted
      <3>4. ASSUME ExpiryRecheck PROVE Frame
        BY <3>4, Zenon DEF ExpiryRecheck, Release
      <3>5. ASSUME ExpiryReclaim PROVE Frame
        BY <3>5, Zenon DEF ExpiryReclaim, DeleteAll
      <3>6. ASSUME NEW p \in Places, AddLocation(p) PROVE Frame
        BY <3>6, Zenon DEF AddLocation
      <3>7. ASSUME NEW p \in Places, RemoveLocation(p) PROVE Frame
        BY <3>7, Zenon DEF RemoveLocation
      <3>8. ASSUME OrphanBegin PROVE Frame
        BY <3>8, Zenon DEF OrphanBegin, Acquire
      <3>9. ASSUME OrphanDiscard PROVE Frame
        BY <3>9, Zenon DEF OrphanDiscard, DeleteAll
      <3>10. ASSUME RemoveStagedUploads PROVE Frame
        BY <3>10, Zenon DEF RemoveStagedUploads, Release
      <3>11. ASSUME RecordedAll PROVE Frame
        BY <3>11, Zenon DEF RecordedAll
      <3>12. ASSUME PrunedAll PROVE Frame
        BY <3>12, Zenon DEF PrunedAll, Release
      <3>13. ASSUME ListDurableObjects PROVE Frame
        BY <3>13, Zenon DEF ListDurableObjects
      <3>14. ASSUME SweepJudge PROVE Frame
        BY <3>14, Zenon DEF SweepJudge, Acquire
      <3>15. ASSUME DeleteDurableObject PROVE Frame
        BY <3>15, Zenon DEF DeleteDurableObject, Release
      <3>16. ASSUME RepairBegin PROVE Frame
        BY <3>16, Zenon DEF RepairBegin, Acquire, RepairReplicas, Fault
      <3>17. ASSUME DeletePartly PROVE Frame
        BY <3>17, Zenon DEF DeletePartly, Release, Fault
      <3>18. ASSUME Abandon PROVE Frame
        BY <3>18, Zenon DEF Abandon, Release, Fault
      <3>19. ASSUME NEW s \in Sealers, SealStage(s) PROVE Frame
        BY <3>19, Zenon DEF SealStage, Acquire
      <3>20. ASSUME NEW s \in Sealers, SealReuse(s) PROVE Frame
        BY <3>20, Zenon DEF SealReuse
      <3>21. ASSUME NEW s \in Sealers, SealPut(s) PROVE Frame
        BY <3>21, Zenon DEF SealPut, Created
      <3>22. ASSUME NEW s \in Sealers, SealFails(s) PROVE Frame
        BY <3>22, Zenon DEF SealFails, Fails, Release
      <3>23. ASSUME NEW s \in Sealers, SealPutFails(s) PROVE Frame
        BY <3>23, Zenon DEF SealPutFails, Fails, Release, Created
      <3>24. ASSUME NEW s \in Sealers, StageLapses(s) PROVE Frame
        BY <3>24, Zenon DEF StageLapses
      <3>25. ASSUME NEW p \in Places, LateUpload(p) PROVE Frame
        BY <3>25, Zenon DEF LateUpload, Created
      <3>26. ASSUME NEW k \in Classes, ClaimLeased(k) PROVE Frame
        BY <3>26, Zenon DEF ClaimLeased
      <3>27. ASSUME NEW k \in Classes, ClaimCheck(k) PROVE Frame
        BY <3>27, Zenon DEF ClaimCheck
      <3>28. ASSUME NEW k \in Classes, ClaimInsert(k) PROVE Frame
        BY <3>28, Zenon DEF ClaimInsert
      <3>29. ASSUME NEW k \in Classes, Unclaim(k) PROVE Frame
        BY <3>29, Zenon DEF Unclaim
      <3>30. ASSUME ObjectAges PROVE Frame
        BY <3>30, Zenon DEF ObjectAges
      <3>31. ASSUME NEW p \in Nodes, NEW c \in {"none", "bad"}, ReplicaDamaged(p, c) PROVE Frame
        BY <3>31, Zenon DEF ReplicaDamaged
      <3>32. ASSUME UNCHANGED vars PROVE Frame
        BY <3>32, Zenon DEF vars
      <3> QED
        BY <1>2, <3>1, <3>2, <3>3, <3>4, <3>5, <3>6, <3>7, <3>8, <3>9, <3>10, <3>11, <3>12,
           <3>13, <3>14, <3>15, <3>16, <3>17, <3>18, <3>19, <3>20, <3>21, <3>22, <3>23, <3>24,
           <3>25, <3>26, <3>27, <3>28, <3>29, <3>30, <3>31, <3>32, Zenon DEF Next, Maintain, Sealing
    <2> QED
      BY <2>1, <2>2, <2>3, <2>4, Zenon
  <1> QED
    BY <1>1, <1>2, SnapshotInvariant, PTL DEF Spec

=============================================================================

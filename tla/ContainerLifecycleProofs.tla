---------------------- MODULE ContainerLifecycleProofs ----------------------
(***************************************************************************)
(* Proofs about ContainerLifecycle, for any builds, steps and handles and  *)
(* any number of faults.                                                   *)
(***************************************************************************)
EXTENDS ContainerLifecycle, TLAPS

USE DEF steps, rows, pass, Builds

(* Every operation keeps the types.                                       *)
LEMMA TypesKept == LifecycleInv /\ Next => TypeOK'
  <1> SUFFICES ASSUME LifecycleInv, Next PROVE TypeOK'
    BY Zenon
  <1>1. ASSUME NEW s \in Steps, FindContainer(s) PROVE TypeOK'
    BY <1>1, BuildAssumption, FaultsAssumption DEF FindContainer, Goto, LifecycleInv, TypeOK
  <1>2. ASSUME NEW s \in Steps, NEW g \in Handles, CreateContainer(s, g) PROVE TypeOK'
    BY <1>2, BuildAssumption, FaultsAssumption, Zenon DEF CreateContainer, SetRow, Goto, LifecycleInv, TypeOK
  <1>3. ASSUME NEW s \in Steps, Created(s) PROVE TypeOK'
    BY <1>3, BuildAssumption, FaultsAssumption, ZenonT(30) DEF Created, SetRow, Goto, LifecycleInv, TypeOK
  <1>4. ASSUME NEW s \in Steps, CreatedFails(s) PROVE TypeOK'
    BY <1>4, BuildAssumption, FaultsAssumption DEF CreatedFails, SetRow, Goto, Fault, LifecycleInv, TypeOK
  <1>5. ASSUME NEW s \in Steps, AttachOrRun(s) PROVE TypeOK'
    BY <1>5, BuildAssumption, FaultsAssumption DEF AttachOrRun, Goto, LifecycleInv, TypeOK, HeldInv
  <1>6. ASSUME NEW s \in Steps, Exit(s) PROVE TypeOK'
    BY <1>6, BuildAssumption, FaultsAssumption DEF Exit, Goto, Fault, LifecycleInv, TypeOK, HeldInv
  <1>7. ASSUME NEW s \in Steps, Cancel(s) PROVE TypeOK'
    BY <1>7, BuildAssumption, FaultsAssumption, Zenon DEF Cancel, Goto, LifecycleInv, TypeOK
  <1>8. ASSUME NEW b \in Builds, FinishJob(b) PROVE TypeOK'
    BY <1>8, BuildAssumption, FaultsAssumption, Zenon DEF FinishJob, LifecycleInv, TypeOK
  <1>9. ASSUME NEW b \in Builds, FinishCheck(b) PROVE TypeOK'
    BY <1>9, BuildAssumption, FaultsAssumption, Zenon DEF FinishCheck, LifecycleInv, TypeOK
  <1>10. CASE Crash
    BY <1>10, BuildAssumption, FaultsAssumption DEF Crash, Fault, LifecycleInv, TypeOK
  <1>11. ASSUME NEW g \in Handles, LosePod(g) PROVE TypeOK'
    BY <1>11, BuildAssumption, FaultsAssumption DEF LosePod, Fault, LifecycleInv, TypeOK
  <1>12. ASSUME NEW g \in Handles, GracePasses(g) PROVE TypeOK'
    BY <1>12, BuildAssumption, FaultsAssumption, Zenon DEF GracePasses, LifecycleInv, TypeOK
  <1>13. ASSUME NEW b \in Builds, MarkNonInterceptibleBuilds(b) PROVE TypeOK'
    BY <1>13, BuildAssumption, FaultsAssumption, Zenon DEF MarkNonInterceptibleBuilds, LifecycleInv, TypeOK
  <1>14. ASSUME NEW g \in Handles, DestroyDirtyInMemoryBuildContainers(g) PROVE TypeOK'
    BY <1>14, BuildAssumption, FaultsAssumption, Zenon DEF DestroyDirtyInMemoryBuildContainers, SetRow, LifecycleInv, TypeOK
  <1>15. ASSUME NEW g \in Handles, CleanupOrphanedContainer(g) PROVE TypeOK'
    BY <1>15, BuildAssumption, FaultsAssumption, Zenon DEF CleanupOrphanedContainer, SetRow, Orphaned, LifecycleInv, TypeOK
  <1>16. CASE DestroyFailedContainers
    BY <1>16, BuildAssumption, FaultsAssumption, Zenon DEF DestroyFailedContainers, LifecycleInv, TypeOK
  <1>17. CASE RemoveMissingContainers
    BY <1>17, BuildAssumption, FaultsAssumption, Zenon DEF RemoveMissingContainers, Drop, LifecycleInv, TypeOK
  <1>18. CASE ListPods
    BY <1>18, BuildAssumption, FaultsAssumption, Zenon DEF ListPods, LifecycleInv, TypeOK
  <1>19. CASE SplitCompletedPods
    BY <1>19, BuildAssumption, FaultsAssumption DEF SplitCompletedPods, Fault, LifecycleInv, TypeOK
  <1>20. CASE ReapCompletedPods
    BY <1>20, BuildAssumption, FaultsAssumption DEF ReapCompletedPods, DeletePods, Fault, LifecycleInv, TypeOK
  <1>21. CASE UpdateContainersMissingSince
    BY <1>21, BuildAssumption, FaultsAssumption, Zenon DEF UpdateContainersMissingSince, LifecycleInv, TypeOK
  <1>22. CASE DestroyContainers
    BY <1>22, BuildAssumption, FaultsAssumption, Zenon DEF DestroyContainers, Drop, LifecycleInv, TypeOK
  <1>23. CASE DestroyUnknownContainers
    BY <1>23, BuildAssumption, FaultsAssumption, Zenon DEF DestroyUnknownContainers, LifecycleInv, TypeOK
  <1>24. CASE FindDestroyingContainers
    BY <1>24, BuildAssumption, FaultsAssumption, Zenon DEF FindDestroyingContainers, LifecycleInv, TypeOK
  <1>25. CASE DeleteDestroyingPods
    BY <1>25, BuildAssumption, FaultsAssumption, Zenon DEF DeleteDestroyingPods, DeletePods, EndPass, LifecycleInv, TypeOK
  <1>26. CASE PassFails
    BY <1>26, BuildAssumption, FaultsAssumption DEF PassFails, DeletePods, EndPass, Fault, LifecycleInv, TypeOK
  <1> QED
    BY <1>1, <1>2, <1>3, <1>4, <1>5, <1>6, <1>7, <1>8, <1>9, <1>10, <1>11, <1>12, <1>13, <1>14, <1>15, <1>16, <1>17, <1>18, <1>19, <1>20, <1>21, <1>22, <1>23, <1>24, <1>25, <1>26, Zenon DEF Next, Step, Environment, Collect, Pass

(* Every operation keeps HeldInv.                                         *)
LEMMA HeldKept == LifecycleInv /\ Next => HeldInv'
  <1> SUFFICES ASSUME LifecycleInv, Next PROVE HeldInv'
    BY Zenon
  <1>1. ASSUME NEW s \in Steps, FindContainer(s) PROVE HeldInv'
    BY <1>1, BuildAssumption, HandleAssumption DEF FindContainer, Goto, LifecycleInv, TypeOK, HeldInv, RowInv, IsJob, Running
  <1>2. ASSUME NEW s \in Steps, NEW g \in Handles, CreateContainer(s, g) PROVE HeldInv'
    BY <1>2, BuildAssumption, HandleAssumption DEF CreateContainer, SetRow, Goto, LifecycleInv, TypeOK, HeldInv, RowInv, IsJob, Running
  <1>3. ASSUME NEW s \in Steps, Created(s) PROVE HeldInv'
    BY <1>3, BuildAssumption, HandleAssumption DEF Created, SetRow, Goto, LifecycleInv, TypeOK, HeldInv, RowInv, IsJob, Running
  <1>4. ASSUME NEW s \in Steps, CreatedFails(s) PROVE HeldInv'
    BY <1>4, BuildAssumption, HandleAssumption DEF CreatedFails, SetRow, Goto, Fault, LifecycleInv, TypeOK, HeldInv, RowInv, IsJob, Running
  <1>5. ASSUME NEW s \in Steps, AttachOrRun(s) PROVE HeldInv'
    BY <1>5, BuildAssumption, HandleAssumption DEF AttachOrRun, Goto, LifecycleInv, TypeOK, HeldInv, RowInv, IsJob, Running
  <1>6. ASSUME NEW s \in Steps, Exit(s) PROVE HeldInv'
    BY <1>6, BuildAssumption, HandleAssumption DEF Exit, Goto, Fault, LifecycleInv, TypeOK, HeldInv, RowInv, IsJob, Running
  <1>7. ASSUME NEW s \in Steps, Cancel(s) PROVE HeldInv'
    BY <1>7, BuildAssumption, HandleAssumption DEF Cancel, Goto, LifecycleInv, TypeOK, HeldInv, RowInv, IsJob, Running
  <1>8. ASSUME NEW b \in Builds, FinishJob(b) PROVE HeldInv'
    BY <1>8, BuildAssumption, HandleAssumption DEF FinishJob, LifecycleInv, TypeOK, HeldInv, RowInv, IsJob, Running
  <1>9. ASSUME NEW b \in Builds, FinishCheck(b) PROVE HeldInv'
    BY <1>9, BuildAssumption, HandleAssumption DEF FinishCheck, LifecycleInv, TypeOK, HeldInv, RowInv, IsJob, Running
  <1>10. CASE Crash
    BY <1>10, BuildAssumption, HandleAssumption, Zenon DEF Crash, Fault, LifecycleInv, TypeOK, HeldInv, RowInv, IsJob, Running
  <1>11. ASSUME NEW g \in Handles, LosePod(g) PROVE HeldInv'
    BY <1>11, BuildAssumption, HandleAssumption, Zenon DEF LosePod, Fault, LifecycleInv, TypeOK, HeldInv, RowInv, IsJob, Running
  <1>12. ASSUME NEW g \in Handles, GracePasses(g) PROVE HeldInv'
    BY <1>12, BuildAssumption, HandleAssumption, Zenon DEF GracePasses, LifecycleInv, TypeOK, HeldInv, RowInv, IsJob, Running
  <1>13. ASSUME NEW b \in Builds, MarkNonInterceptibleBuilds(b) PROVE HeldInv'
    BY <1>13, BuildAssumption, HandleAssumption, Zenon DEF MarkNonInterceptibleBuilds, LifecycleInv, TypeOK, HeldInv, RowInv, IsJob, Running
  <1>14. ASSUME NEW g \in Handles, DestroyDirtyInMemoryBuildContainers(g) PROVE HeldInv'
    BY <1>14, BuildAssumption, HandleAssumption, Zenon DEF DestroyDirtyInMemoryBuildContainers, SetRow, LifecycleInv, TypeOK, HeldInv, RowInv, IsJob, Running
  <1>15. ASSUME NEW g \in Handles, CleanupOrphanedContainer(g) PROVE HeldInv'
    BY <1>15, BuildAssumption, HandleAssumption DEF CleanupOrphanedContainer, SetRow, Orphaned, LifecycleInv, TypeOK, HeldInv, RowInv, IsJob, Running
  <1>16. CASE DestroyFailedContainers
    BY <1>16, BuildAssumption, HandleAssumption, Zenon DEF DestroyFailedContainers, LifecycleInv, TypeOK, HeldInv, RowInv, IsJob, Running
  <1>17. CASE RemoveMissingContainers
    BY <1>17, BuildAssumption, HandleAssumption, Zenon DEF RemoveMissingContainers, Drop, LifecycleInv, TypeOK, HeldInv, RowInv, IsJob, Running
  <1>18. CASE ListPods
    BY <1>18, BuildAssumption, HandleAssumption, Zenon DEF ListPods, LifecycleInv, TypeOK, HeldInv, RowInv, IsJob, Running
  <1>19. CASE SplitCompletedPods
    BY <1>19, BuildAssumption, HandleAssumption, Zenon DEF SplitCompletedPods, Fault, LifecycleInv, TypeOK, HeldInv, RowInv, IsJob, Running
  <1>20. CASE ReapCompletedPods
    BY <1>20, BuildAssumption, HandleAssumption, Zenon DEF ReapCompletedPods, DeletePods, Fault, LifecycleInv, TypeOK, HeldInv, RowInv, IsJob, Running
  <1>21. CASE UpdateContainersMissingSince
    BY <1>21, BuildAssumption, HandleAssumption, Zenon DEF UpdateContainersMissingSince, LifecycleInv, TypeOK, HeldInv, RowInv, IsJob, Running
  <1>22. CASE DestroyContainers
    BY <1>22, BuildAssumption, HandleAssumption, Zenon DEF DestroyContainers, Drop, LifecycleInv, TypeOK, HeldInv, RowInv, IsJob, Running
  <1>23. CASE DestroyUnknownContainers
    BY <1>23, BuildAssumption, HandleAssumption, Zenon DEF DestroyUnknownContainers, LifecycleInv, TypeOK, HeldInv, RowInv, IsJob, Running
  <1>24. CASE FindDestroyingContainers
    BY <1>24, BuildAssumption, HandleAssumption, Zenon DEF FindDestroyingContainers, LifecycleInv, TypeOK, HeldInv, RowInv, IsJob, Running
  <1>25. CASE DeleteDestroyingPods
    BY <1>25, BuildAssumption, HandleAssumption, Zenon DEF DeleteDestroyingPods, DeletePods, EndPass, LifecycleInv, TypeOK, HeldInv, RowInv, IsJob, Running
  <1>26. CASE PassFails
    BY <1>26, BuildAssumption, HandleAssumption, Zenon DEF PassFails, DeletePods, EndPass, Fault, LifecycleInv, TypeOK, HeldInv, RowInv, IsJob, Running
  <1> QED
    BY <1>1, <1>2, <1>3, <1>4, <1>5, <1>6, <1>7, <1>8, <1>9, <1>10, <1>11, <1>12, <1>13, <1>14, <1>15, <1>16, <1>17, <1>18, <1>19, <1>20, <1>21, <1>22, <1>23, <1>24, <1>25, <1>26, Zenon DEF Next, Step, Environment, Collect, Pass

(* Every operation keeps RowInv.                                          *)
LEMMA RowKept == LifecycleInv /\ Next => RowInv'
  <1> SUFFICES ASSUME LifecycleInv, Next PROVE RowInv'
    BY Zenon
  <1>1. ASSUME NEW s \in Steps, FindContainer(s) PROVE RowInv'
    BY <1>1, BuildAssumption, HandleAssumption DEF FindContainer, Goto, LifecycleInv, TypeOK, HeldInv, RowInv, IsJob, Running
  <1>2. ASSUME NEW s \in Steps, NEW g \in Handles, CreateContainer(s, g) PROVE RowInv'
    BY <1>2, BuildAssumption, HandleAssumption DEF CreateContainer, SetRow, Goto, LifecycleInv, TypeOK, HeldInv, RowInv, IsJob, Running
  <1>3. ASSUME NEW s \in Steps, Created(s) PROVE RowInv'
    BY <1>3, BuildAssumption, HandleAssumption DEF Created, SetRow, Goto, LifecycleInv, TypeOK, HeldInv, RowInv, IsJob, Running
  <1>4. ASSUME NEW s \in Steps, CreatedFails(s) PROVE RowInv'
    BY <1>4, BuildAssumption, HandleAssumption DEF CreatedFails, SetRow, Goto, Fault, LifecycleInv, TypeOK, HeldInv, RowInv, IsJob, Running
  <1>5. ASSUME NEW s \in Steps, AttachOrRun(s) PROVE RowInv'
    BY <1>5, BuildAssumption, HandleAssumption DEF AttachOrRun, Goto, LifecycleInv, TypeOK, HeldInv, RowInv, IsJob, Running
  <1>6. ASSUME NEW s \in Steps, Exit(s) PROVE RowInv'
    BY <1>6, BuildAssumption, HandleAssumption DEF Exit, Goto, Fault, LifecycleInv, TypeOK, HeldInv, RowInv, IsJob, Running
  <1>7. ASSUME NEW s \in Steps, Cancel(s) PROVE RowInv'
    BY <1>7, BuildAssumption, HandleAssumption DEF Cancel, Goto, LifecycleInv, TypeOK, HeldInv, RowInv, IsJob, Running
  <1>8. ASSUME NEW b \in Builds, FinishJob(b) PROVE RowInv'
    BY <1>8, BuildAssumption, HandleAssumption DEF FinishJob, LifecycleInv, TypeOK, HeldInv, RowInv, IsJob, Running
  <1>9. ASSUME NEW b \in Builds, FinishCheck(b) PROVE RowInv'
    BY <1>9, BuildAssumption, HandleAssumption DEF FinishCheck, LifecycleInv, TypeOK, HeldInv, RowInv, IsJob, Running
  <1>10. CASE Crash
    BY <1>10, BuildAssumption, HandleAssumption, Zenon DEF Crash, Fault, LifecycleInv, TypeOK, HeldInv, RowInv, IsJob, Running
  <1>11. ASSUME NEW g \in Handles, LosePod(g) PROVE RowInv'
    BY <1>11, BuildAssumption, HandleAssumption DEF LosePod, Fault, LifecycleInv, TypeOK, HeldInv, RowInv, IsJob, Running
  <1>12. ASSUME NEW g \in Handles, GracePasses(g) PROVE RowInv'
    BY <1>12, BuildAssumption, HandleAssumption DEF GracePasses, LifecycleInv, TypeOK, HeldInv, RowInv, IsJob, Running
  <1>13. ASSUME NEW b \in Builds, MarkNonInterceptibleBuilds(b) PROVE RowInv'
    BY <1>13, BuildAssumption, HandleAssumption DEF MarkNonInterceptibleBuilds, LifecycleInv, TypeOK, HeldInv, RowInv, IsJob, Running
  <1>14. ASSUME NEW g \in Handles, DestroyDirtyInMemoryBuildContainers(g) PROVE RowInv'
    BY <1>14, BuildAssumption, HandleAssumption DEF DestroyDirtyInMemoryBuildContainers, SetRow, LifecycleInv, TypeOK, HeldInv, RowInv, IsJob, Running
  <1>15. ASSUME NEW g \in Handles, CleanupOrphanedContainer(g) PROVE RowInv'
    BY <1>15, BuildAssumption, HandleAssumption DEF CleanupOrphanedContainer, SetRow, Orphaned, LifecycleInv, TypeOK, HeldInv, RowInv, IsJob, Running
  <1>16. CASE DestroyFailedContainers
    BY <1>16, BuildAssumption, HandleAssumption DEF DestroyFailedContainers, LifecycleInv, TypeOK, HeldInv, RowInv, IsJob, Running
  <1>17. CASE RemoveMissingContainers
    BY <1>17, BuildAssumption, HandleAssumption DEF RemoveMissingContainers, Drop, LifecycleInv, TypeOK, HeldInv, RowInv, IsJob, Running
  <1>18. CASE ListPods
    BY <1>18, BuildAssumption, HandleAssumption DEF ListPods, LifecycleInv, TypeOK, HeldInv, RowInv, IsJob, Running
  <1>19. CASE SplitCompletedPods
    BY <1>19, BuildAssumption, HandleAssumption DEF SplitCompletedPods, Fault, LifecycleInv, TypeOK, HeldInv, RowInv, IsJob, Running
  <1>20. CASE ReapCompletedPods
    BY <1>20, BuildAssumption, HandleAssumption DEF ReapCompletedPods, DeletePods, Fault, LifecycleInv, TypeOK, HeldInv, RowInv, IsJob, Running
  <1>21. CASE UpdateContainersMissingSince
    BY <1>21, BuildAssumption, HandleAssumption DEF UpdateContainersMissingSince, LifecycleInv, TypeOK, HeldInv, RowInv, IsJob, Running
  <1>22. CASE DestroyContainers
    BY <1>22, BuildAssumption, HandleAssumption DEF DestroyContainers, Drop, LifecycleInv, TypeOK, HeldInv, RowInv, IsJob, Running
  <1>23. CASE DestroyUnknownContainers
    BY <1>23, BuildAssumption, HandleAssumption DEF DestroyUnknownContainers, LifecycleInv, TypeOK, HeldInv, RowInv, IsJob, Running
  <1>24. CASE FindDestroyingContainers
    BY <1>24, BuildAssumption, HandleAssumption, Zenon DEF FindDestroyingContainers, LifecycleInv, TypeOK, HeldInv, RowInv, IsJob, Running
  <1>25. CASE DeleteDestroyingPods
    BY <1>25, BuildAssumption, HandleAssumption, Zenon DEF DeleteDestroyingPods, DeletePods, EndPass, LifecycleInv, TypeOK, HeldInv, RowInv, IsJob, Running
  <1>26. CASE PassFails
    BY <1>26, BuildAssumption, HandleAssumption DEF PassFails, DeletePods, EndPass, Fault, LifecycleInv, TypeOK, HeldInv, RowInv, IsJob, Running
  <1> QED
    BY <1>1, <1>2, <1>3, <1>4, <1>5, <1>6, <1>7, <1>8, <1>9, <1>10, <1>11, <1>12, <1>13, <1>14, <1>15, <1>16, <1>17, <1>18, <1>19, <1>20, <1>21, <1>22, <1>23, <1>24, <1>25, <1>26, Zenon DEF Next, Step, Environment, Collect, Pass

(* The initial state satisfies the invariant.                              *)
LEMMA InvInit == Init => LifecycleInv
  BY BuildAssumption, HandleAssumption, FaultsAssumption
     DEF Init, LifecycleInv, TypeOK, HeldInv, RowInv, IsJob, Running

(* A step that changes nothing keeps the invariant.                        *)
LEMMA InvStutters == LifecycleInv /\ UNCHANGED vars => LifecycleInv'
  BY DEF vars, LifecycleInv, TypeOK, HeldInv, RowInv, IsJob, Running

(* In every behaviour the collectors leave alone the row of a running step,*)
(* rows say of their pods what they should, and what the reaper's pass     *)
(* remembers is still true when it acts on it.                             *)
THEOREM LifecycleInvariant == Spec => []LifecycleInv
  <1>1. LifecycleInv /\ [Next]_vars => LifecycleInv'
    BY TypesKept, HeldKept, RowKept, InvStutters, Zenon DEF LifecycleInv
  <1> QED
    BY <1>1, InvInit, PTL DEF Spec

(* A pass deletes the pod of a running job build only when the pod was     *)
(* adopted as unknown.                                                     *)
THEOREM PodsKept == Spec => KeptWhileRunning
  <1> DEFINE Kept ==
         Pass \/ PassFails =>
           \A h \in Handles :
              pod[h] # "none" /\ pod'[h] = "none" /\ IsJob(h) /\ Running(h) =>
                 row[h] = "destroying" /\ h \notin owned
  <1>1. LifecycleInv /\ [Next]_vars => [Kept]_vars
    <2> SUFFICES ASSUME LifecycleInv, Pass \/ PassFails, NEW h \in Handles,
                        pod[h] # "none", pod'[h] = "none", IsJob(h), Running(h)
                 PROVE  row[h] = "destroying" /\ h \notin owned
      BY Zenon
    <2>1. CASE ReapCompletedPods
      BY <2>1, Zenon DEF ReapCompletedPods, DeletePods, LifecycleInv, RowInv
    <2>2. CASE DeleteDestroyingPods
      BY <2>2, Zenon DEF DeleteDestroyingPods, DeletePods, LifecycleInv, RowInv
    <2>3. CASE PassFails
      BY <2>3, Zenon DEF PassFails, DeletePods, LifecycleInv, RowInv
    <2>4. CASE pod' = pod
      BY <2>4, Zenon
    <2> QED
      BY <2>1, <2>2, <2>3, <2>4, Zenon
         DEF Pass, ListPods, SplitCompletedPods, UpdateContainersMissingSince,
             DestroyContainers, DestroyUnknownContainers, FindDestroyingContainers
  <1> QED
    BY <1>1, LifecycleInvariant, PTL DEF Spec, KeptWhileRunning

(* A row is dropped as missing only if the last report did not have it.    *)
THEOREM ReportedStay == Spec => ReportedNotDropped
  <1> DEFINE Stays ==
         \A h \in Handles : row[h] = "created" /\ row'[h] = "none" => h \notin reported
  <1>1. LifecycleInv /\ [Next]_vars => [Stays]_vars
    <2> SUFFICES ASSUME LifecycleInv, Next, NEW h \in Handles,
                        row[h] = "created", row'[h] = "none"
                 PROVE  h \notin reported
      BY Zenon
    <2>1. CASE RemoveMissingContainers
      BY <2>1, Zenon DEF RemoveMissingContainers, Drop, LifecycleInv, RowInv
    <2>2. CASE Step
      <3>1. CASE \E s \in Steps, g \in Handles : CreateContainer(s, g)
        BY <3>1 DEF CreateContainer, SetRow, LifecycleInv, TypeOK
      <3>2. CASE \E s \in Steps : Created(s) \/ CreatedFails(s)
        BY <3>2 DEF Created, CreatedFails, SetRow, LifecycleInv, TypeOK
      <3>3. CASE \E b \in Builds : FinishCheck(b)
        BY <3>3, Zenon DEF FinishCheck
      <3>4. CASE row' = row
        BY <3>4, Zenon
      <3> QED
        BY <2>2, <3>1, <3>2, <3>3, <3>4, Zenon
           DEF Step, FindContainer, AttachOrRun, Exit, Cancel, FinishJob
    <2>3. CASE Environment \/ PassFails
      <3>1. row' = row
        BY <2>3, Zenon DEF Environment, Crash, LosePod, GracePasses, PassFails
      <3> QED
        BY <3>1, Zenon
    <2>4. CASE \E b \in Builds : MarkNonInterceptibleBuilds(b)
      BY <2>4, Zenon DEF MarkNonInterceptibleBuilds
    <2>5. CASE \E g \in Handles :
                  DestroyDirtyInMemoryBuildContainers(g) \/ CleanupOrphanedContainer(g)
      BY <2>5 DEF DestroyDirtyInMemoryBuildContainers, CleanupOrphanedContainer, SetRow,
         LifecycleInv, TypeOK
    <2>6. CASE DestroyFailedContainers
      BY <2>6, Zenon DEF DestroyFailedContainers
    <2>7. CASE DestroyContainers \/ DestroyUnknownContainers
      BY <2>7, Zenon DEF DestroyContainers, DestroyUnknownContainers, Drop
    <2>8. CASE row' = row
      BY <2>8, Zenon
    <2> QED
      BY <2>1, <2>2, <2>3, <2>4, <2>5, <2>6, <2>7, <2>8, Zenon
         DEF Next, Collect, Pass, ListPods, SplitCompletedPods, ReapCompletedPods,
             UpdateContainersMissingSince, FindDestroyingContainers, DeleteDestroyingPods
  <1> QED
    BY <1>1, LifecycleInvariant, PTL DEF Spec, ReportedNotDropped

-----------------------------------------------------------------------------
(* The contract of a container.                                            *)

(* Who a container is for, and whether it is kept, now and after a step.   *)
ClientIs(h) ==
    /\ ClientOf(h) = "nobody" <=> stepOf[h] = NoStep
    /\ ClientOf(h) = "job" <=> IsJob(h) /\ Running(h)
    /\ ClientOf(h) = "check" <=> ~IsJob(h) /\ Running(h)
    /\ ClientOf(h) = "over" <=> stepOf[h] # NoStep /\ ~Running(h)
StageIs(h) ==
    /\ StageOf(h) = "unused" <=> stepOf[h] = NoStep
    /\ StageOf(h) = "kept" <=> stepOf[h] # NoStep /\ row[h] \in {"creating", "created"}
    /\ StageOf(h) = "given up" <=> stepOf[h] # NoStep /\ row[h] \notin {"creating", "created"}

(* The cases of the mapping are these and exclude each other.              *)
LEMMA MappingIs ==
    ASSUME NEW h \in Handles
    PROVE  ClientIs(h) /\ StageIs(h) /\ ClientIs(h)' /\ StageIs(h)'
  <1>1. ClientIs(h) /\ ClientIs(h)'
    BY DEF ClientIs, ClientOf, IsJob, Running
  <1>2. StageIs(h) /\ StageIs(h)'
    BY DEF StageIs, StageOf
  <1> QED
    BY <1>1, <1>2, Zenon

(* A step that leaves alone who a container is for leaves its client alone.*)
LEMMA SameClient ==
    ASSUME NEW h \in Handles, UNCHANGED <<build, stepOf>>
    PROVE  ClientOf(h)' = ClientOf(h)
  BY Zenon DEF ClientOf, IsJob, Running

(* A row that is kept or not as before leaves its stage alone.             *)
LEMMA SameStage ==
    ASSUME NEW h \in Handles, UNCHANGED stepOf,
           row'[h] \in {"creating", "created"} <=> row[h] \in {"creating", "created"}
    PROVE  StageOf(h)' = StageOf(h)
  BY DEF StageOf

(* What the contract sees as a step of the reaper, or not at all.          *)
LEMMA Unseen ==
    ASSUME NEW h \in Handles,
           ClientOf(h)' = ClientOf(h), StageOf(h)' = StageOf(h), pod'[h] = pod[h],
           h \in reported' <=> h \in reported, RowInv
    PROVE  [Contract(h)!Next]_(Contract(h)!contract)
  <1>1. CASE rpc' = rpc
    BY <1>1 DEF Contract!contract
  <1>2. CASE rpc' # rpc
    <2>1. h \in reported' => ClientOf(h) # "nobody"
      BY MappingIs, Zenon DEF ClientIs, RowInv
    <2> QED
      BY <1>2, <2>1, Zenon DEF Contract!Next, Contract!Clean
  <1> QED
    BY <1>1, <1>2, Zenon

(* A step that changes neither builds, rows, pods nor reports.             *)
LEMMA FrameUnseen ==
    ASSUME NEW h \in Handles, UNCHANGED <<build, stepOf, row, pod, reported>>, RowInv
    PROVE  [Contract(h)!Next]_(Contract(h)!contract)
  <1>1. ClientOf(h)' = ClientOf(h) /\ StageOf(h)' = StageOf(h)
    BY SameClient, SameStage, Zenon
  <1> QED
    BY <1>1, Unseen, Zenon

(* A kept container that is given up.                                      *)
LEMMA GivenUpSeen ==
    ASSUME NEW h \in Handles, UNCHANGED <<build, stepOf, pod, reported, rpc>>,
           StageOf(h) = "kept", StageOf(h)' = "given up",
           IsJob(h) /\ Running(h) => pod[h] = "none" \/ h \notin reported
    PROVE  Contract(h)!GiveUp
  BY SameClient, MappingIs, Zenon DEF Contract!GiveUp, ClientIs

(* A pod that is deleted.                                                  *)
LEMMA DeletedSeen ==
    ASSUME NEW h \in Handles, UNCHANGED <<build, stepOf, row, reported>>,
           pod'[h] \in {pod[h], "none"},
           pod'[h] # pod[h] => rpc' # rpc,
           pod'[h] # pod[h] /\ IsJob(h) /\ Running(h) => StageOf(h) = "given up",
           RowInv
    PROVE  [Contract(h)!Next]_(Contract(h)!contract)
  <1>1. ClientOf(h)' = ClientOf(h) /\ StageOf(h)' = StageOf(h)
    BY SameClient, SameStage, Zenon
  <1>2. CASE pod'[h] = pod[h]
    BY <1>1, <1>2, Unseen, Zenon
  <1>3. CASE pod'[h] # pod[h]
    BY <1>1, <1>3, MappingIs, Zenon DEF Contract!Next, Contract!Delete, ClientIs
  <1> QED
    BY <1>2, <1>3, Zenon

(* What a step does to a container is in its contract.                     *)
LEMMA StepsSeen ==
    ASSUME LifecycleInv, Step, NEW h \in Handles
    PROVE  [Contract(h)!Next]_(Contract(h)!contract)
  <1>0. TypeOK /\ HeldInv /\ RowInv
    BY Zenon DEF LifecycleInv
  <1>1. ASSUME NEW s \in Steps, FindContainer(s) \/ Cancel(s)
        PROVE  [Contract(h)!Next]_(Contract(h)!contract)
    BY <1>0, <1>1, FrameUnseen, Zenon DEF FindContainer, Cancel
  <1>2. ASSUME NEW s \in Steps, NEW g \in Handles, CreateContainer(s, g)
        PROVE  [Contract(h)!Next]_(Contract(h)!contract)
    <2>1. build[BuildOf[s]] = "running" /\ UNCHANGED <<build, pod, reported, rpc>>
      BY <1>0, <1>2, Zenon DEF CreateContainer, HeldInv
    <2>2. CASE h = g
      <3>1. stepOf[h] = NoStep /\ stepOf'[h] = s /\ row'[h] = "creating"
        BY <1>0, <1>2, <2>2, Zenon DEF CreateContainer, SetRow, TypeOK
      <3>2. ClientOf(h) = "nobody" /\ StageOf(h)' = "kept"
        BY <3>1, MappingIs, HandleAssumption, Zenon DEF ClientIs, StageIs
      <3>3. Running(h)'
        BY <2>1, <3>1, HandleAssumption, Zenon DEF Running
      <3>4. ClientOf(h)' \in {"job", "check"}
        BY <3>3, MappingIs, Zenon DEF ClientIs
      <3> QED
        BY <2>1, <3>2, <3>4, Zenon DEF Contract!Next, Contract!Create
    <2>3. CASE h # g
      <3>1. stepOf'[h] = stepOf[h] /\ row'[h] = row[h]
        BY <1>0, <1>2, <2>3, Zenon DEF CreateContainer, SetRow, TypeOK
      <3>2. ClientOf(h)' = ClientOf(h) /\ StageOf(h)' = StageOf(h)
        BY <2>1, <3>1 DEF ClientOf, StageOf, IsJob, Running
      <3> QED
        BY <1>0, <2>1, <3>2, Unseen, Zenon
    <2> QED
      BY <2>2, <2>3, Zenon
  <1>3. ASSUME NEW s \in Steps, Created(s)
        PROVE  [Contract(h)!Next]_(Contract(h)!contract)
    <2>1. UNCHANGED <<build, stepOf, pod, reported>>
      BY <1>3, Zenon DEF Created
    <2>2. row'[h] \in {"creating", "created"} <=> row[h] \in {"creating", "created"}
      BY <1>0, <1>3, Zenon DEF Created, SetRow, TypeOK
    <2> QED
      BY <1>0, <2>1, <2>2, SameClient, SameStage, Unseen, Zenon
  <1>4. ASSUME NEW s \in Steps, CreatedFails(s)
        PROVE  [Contract(h)!Next]_(Contract(h)!contract)
    <2>1. UNCHANGED <<build, stepOf, pod, reported, rpc>>
      BY <1>4, Zenon DEF CreatedFails, Fault
    <2>2. CASE row[h] = "creating" /\ row'[h] = "failed"
      <3>1. StageOf(h) = "kept" /\ StageOf(h)' = "given up" /\ pod[h] = "none"
        BY <1>0, <2>1, <2>2, MappingIs, Zenon DEF StageIs, RowInv
      <3> QED
        BY <2>1, <3>1, GivenUpSeen, Zenon DEF Contract!Next
    <2>3. CASE row'[h] = row[h]
      BY <1>0, <2>1, <2>3, SameClient, SameStage, Unseen, Zenon
    <2> QED
      BY <1>0, <1>4, <2>2, <2>3, Zenon DEF CreatedFails, SetRow, TypeOK
  <1>5. ASSUME NEW s \in Steps, AttachOrRun(s)
        PROVE  [Contract(h)!Next]_(Contract(h)!contract)
    <2>1. ClientOf(h)' = ClientOf(h) /\ StageOf(h)' = StageOf(h) /\ UNCHANGED <<reported, rpc>>
      BY <1>5, SameClient, SameStage, Zenon DEF AttachOrRun
    <2>2. CASE h # held[s] \/ pod[held[s]] = "completed"
      <3>1. pod'[h] = pod[h]
        BY <1>0, <1>5, <2>2, Zenon DEF AttachOrRun, TypeOK
      <3> QED
        BY <1>0, <2>1, <3>1, Unseen, Zenon
    <2>3. CASE h = held[s] /\ pod[held[s]] # "completed"
      <3>1. stepOf[h] = s /\ build[BuildOf[s]] = "running"
        BY <1>0, <1>5, <2>3, Zenon DEF AttachOrRun, HeldInv
      <3>2. ClientOf(h) \in {"job", "check"}
        BY <3>1, MappingIs, HandleAssumption, Zenon DEF ClientIs, Running
      <3>3. pod[h] # "completed" /\ pod'[h] = "live"
        BY <1>0, <1>5, <2>3, Zenon DEF AttachOrRun, TypeOK
      <3> QED
        BY <2>1, <3>2, <3>3, Zenon DEF Contract!Next, Contract!Work, Contract!Running
    <2> QED
      BY <2>2, <2>3, Zenon
  <1>6. ASSUME NEW s \in Steps, Exit(s)
        PROVE  [Contract(h)!Next]_(Contract(h)!contract)
    <2>1. /\ ClientOf(h)' = ClientOf(h) /\ StageOf(h)' = StageOf(h)
          /\ UNCHANGED <<reported, rpc>>
      BY <1>6, SameClient, SameStage, Zenon DEF Exit, Fault
    <2>2. CASE pod'[h] = pod[h]
      BY <1>0, <2>1, <2>2, Unseen, Zenon
    <2>3. CASE h = held[s] /\ pod[h] # "none" /\ pod'[h] = "completed"
      <3>1. stepOf[h] = s /\ build[BuildOf[s]] = "running"
        BY <1>0, <1>6, <2>3, Zenon DEF Exit, HeldInv
      <3>2. ClientOf(h) \in {"job", "check"}
        BY <3>1, MappingIs, HandleAssumption, Zenon DEF ClientIs, Running
      <3> QED
        BY <2>1, <2>3, <3>2, Zenon DEF Contract!Next, Contract!Record, Contract!Running
    <2> QED
      BY <1>0, <1>6, <2>2, <2>3, Zenon DEF Exit, TypeOK
  <1>7. ASSUME NEW b \in Builds, FinishJob(b) \/ FinishCheck(b)
        PROVE  [Contract(h)!Next]_(Contract(h)!contract)
    <2>1. UNCHANGED <<stepOf, pod, reported>>
      BY <1>7, Zenon DEF FinishJob, FinishCheck
    <2>2. CASE stepOf[h] # NoStep /\ BuildOf[stepOf[h]] = b
      <3>1. Running(h) /\ ~Running(h)' /\ stepOf'[h] # NoStep
        BY <1>0, <1>7, <2>1, <2>2, Zenon DEF FinishJob, FinishCheck, Running, TypeOK
      <3>2. ClientOf(h) \in {"job", "check"} /\ ClientOf(h)' = "over"
        BY <3>1, MappingIs, Zenon DEF ClientIs
      <3>3. StageOf(h)' = StageOf(h) \/ (ClientOf(h) = "check" /\ StageOf(h)' = "given up")
        <4>1. CASE FinishJob(b)
          BY <4>1, SameStage, Zenon DEF FinishJob
        <4>2. CASE FinishCheck(b)
          <5>1. ClientOf(h) = "check"
            BY <2>2, <3>1, <4>2, MappingIs, BuildAssumption, Zenon DEF FinishCheck, ClientIs, IsJob
          <5>2. CASE h \in owned
            <6>1. row'[h] = "destroying"
              BY <2>2, <4>2, <5>2, Zenon DEF FinishCheck
            <6> QED
              BY <3>1, <5>1, <6>1, MappingIs, Zenon DEF StageIs
          <5>3. CASE h \notin owned
            <6>1. row'[h] = row[h]
              BY <4>2, <5>3, Zenon DEF FinishCheck
            <6> QED
              BY <2>1, <6>1, SameStage, Zenon
          <5> QED
            BY <5>2, <5>3, Zenon
        <4> QED
          BY <1>7, <4>1, <4>2, Zenon
      <3> QED
        BY <2>1, <3>2, <3>3, Zenon DEF Contract!Next, Contract!Finish, Contract!Running
    <2>3. CASE stepOf[h] = NoStep \/ BuildOf[stepOf[h]] # b
      <3>1. row'[h] = row[h]
        <4>1. CASE FinishJob(b)
          BY <4>1, Zenon DEF FinishJob
        <4>2. CASE FinishCheck(b)
          <5>1. ~(h \in owned /\ BuildOf[stepOf[h]] = b)
            BY <1>0, <2>3, Zenon DEF RowInv
          <5> QED
            BY <4>2, <5>1, Zenon DEF FinishCheck
        <4> QED
          BY <1>7, <4>1, <4>2, Zenon
      <3>2. ClientOf(h)' = ClientOf(h)
        <4>1. CASE stepOf[h] = NoStep
          BY <2>1, <4>1, MappingIs, Zenon DEF ClientIs
        <4>2. CASE stepOf[h] # NoStep /\ BuildOf[stepOf[h]] # b
          <5>1. BuildOf[stepOf[h]] \in Builds
            BY <1>0, <4>2, BuildAssumption, Zenon DEF TypeOK
          <5>2. build'[BuildOf[stepOf[h]]] = build[BuildOf[stepOf[h]]]
            BY <1>0, <1>7, <4>2, <5>1, Zenon DEF FinishJob, FinishCheck, TypeOK
          <5> QED
            BY <2>1, <4>2, <5>2 DEF ClientOf, IsJob, Running
        <4> QED
          BY <2>3, <4>1, <4>2, Zenon
      <3> QED
        BY <1>0, <2>1, <3>1, <3>2, SameStage, Unseen, Zenon
    <2> QED
      BY <2>2, <2>3, Zenon
  <1> QED
    BY <1>1, <1>2, <1>3, <1>4, <1>5, <1>6, <1>7, Zenon DEF Step

(* What the environment does to a container is in its contract.            *)
LEMMA EnvironmentSeen ==
    ASSUME LifecycleInv, Environment, NEW h \in Handles
    PROVE  [Contract(h)!Next]_(Contract(h)!contract)
  <1>0. TypeOK /\ HeldInv /\ RowInv
    BY Zenon DEF LifecycleInv
  <1>1. CASE Crash
    <2>1. UNCHANGED <<stepOf, row, pod, reported>> /\ StageOf(h)' = StageOf(h)
      BY <1>1, SameStage, Zenon DEF Crash, Fault
    <2>2. CASE ClientOf(h)' = ClientOf(h)
      BY <1>0, <2>1, <2>2, Unseen, Zenon
    <2>3. CASE ClientOf(h)' # ClientOf(h)
      <3>1. stepOf[h] # NoStep
        BY <2>1, <2>3, MappingIs, Zenon DEF ClientIs
      <3>2. BuildOf[stepOf[h]] \in Builds
        BY <1>0, <3>1, BuildAssumption, Zenon DEF TypeOK
      <3>3. build'[BuildOf[stepOf[h]]] # build[BuildOf[stepOf[h]]]
        BY <2>1, <2>3 DEF ClientOf, IsJob, Running
      <3>4. Running(h) /\ ~Running(h)'
        BY <1>1, <2>1, <3>1, <3>2, <3>3, Zenon DEF Crash, Running
      <3>5. ClientOf(h) \in {"job", "check"} /\ ClientOf(h)' = "over"
        BY <2>1, <3>1, <3>4, MappingIs, Zenon DEF ClientIs
      <3> QED
        BY <2>1, <3>5, Zenon DEF Contract!Next, Contract!Finish, Contract!Running
    <2> QED
      BY <2>2, <2>3, Zenon
  <1>2. ASSUME NEW g \in Handles, LosePod(g)
        PROVE  [Contract(h)!Next]_(Contract(h)!contract)
    <2>1. /\ ClientOf(h)' = ClientOf(h) /\ StageOf(h)' = StageOf(h)
          /\ UNCHANGED <<reported, rpc>>
      BY <1>2, SameClient, SameStage, Zenon DEF LosePod, Fault
    <2>2. CASE h # g
      <3>1. pod'[h] = pod[h]
        BY <1>0, <1>2, <2>2, Zenon DEF LosePod, TypeOK
      <3> QED
        BY <1>0, <2>1, <3>1, Unseen, Zenon
    <2>3. CASE h = g
      <3>1. pod[h] # "none" /\ pod'[h] = "none"
        BY <1>0, <1>2, <2>3, Zenon DEF LosePod, TypeOK
      <3> QED
        BY <2>1, <3>1, Zenon DEF Contract!Next, Contract!Lose
    <2> QED
      BY <2>2, <2>3, Zenon
  <1>3. ASSUME NEW g \in Handles, GracePasses(g)
        PROVE  [Contract(h)!Next]_(Contract(h)!contract)
    BY <1>0, <1>3, FrameUnseen, Zenon DEF GracePasses
  <1> QED
    BY <1>1, <1>2, <1>3, Zenon DEF Environment

(* What the collectors do to a container is in its contract: of the rows   *)
(* of a running job build they take only failed ones and those whose pod   *)
(* was missed.                                                             *)
LEMMA CollectorsSeen ==
    ASSUME LifecycleInv, Collect, NEW h \in Handles
    PROVE  [Contract(h)!Next]_(Contract(h)!contract)
  <1>0. TypeOK /\ HeldInv /\ RowInv
    BY Zenon DEF LifecycleInv
  <1>1. ASSUME NEW b \in Builds, MarkNonInterceptibleBuilds(b)
        PROVE  [Contract(h)!Next]_(Contract(h)!contract)
    <2>1. UNCHANGED <<stepOf, row, pod, reported>> /\ StageOf(h)' = StageOf(h)
      BY <1>1, SameStage, Zenon DEF MarkNonInterceptibleBuilds
    <2>2. \A c \in Builds : build'[c] = "running" <=> build[c] = "running"
      BY <1>0, <1>1, Zenon DEF MarkNonInterceptibleBuilds, TypeOK
    <2>3. stepOf[h] # NoStep => BuildOf[stepOf[h]] \in Builds
      BY <1>0, BuildAssumption, Zenon DEF TypeOK
    <2>4. ClientOf(h)' = ClientOf(h)
      BY <2>1, <2>2, <2>3 DEF ClientOf, IsJob, Running
    <2> QED
      BY <1>0, <2>1, <2>4, Unseen, Zenon
  <1>2. ASSUME UNCHANGED <<build, stepOf, pod, reported, rpc>>,
               row'[h] # row[h] => row'[h] \in {"none", "destroying"},
               row'[h] # row[h] /\ row[h] \in {"creating", "created"} =>
                  ~(IsJob(h) /\ Running(h)) \/ h \notin reported
        PROVE  [Contract(h)!Next]_(Contract(h)!contract)
    <2>1. CASE row'[h] # row[h] /\ row[h] \in {"creating", "created"}
      <3>1. stepOf[h] # NoStep
        BY <1>0, <2>1, Zenon DEF RowInv
      <3>2. StageOf(h) = "kept" /\ StageOf(h)' = "given up"
        BY <1>2, <2>1, <3>1, MappingIs, Zenon DEF StageIs
      <3> QED
        BY <1>2, <2>1, <3>2, GivenUpSeen, Zenon DEF Contract!Next
    <2>2. CASE row'[h] = row[h] \/ row[h] \notin {"creating", "created"}
      <3>1. row'[h] \in {"creating", "created"} <=> row[h] \in {"creating", "created"}
        BY <1>2, <2>2, Zenon
      <3> QED
        BY <1>0, <1>2, <3>1, SameClient, SameStage, Unseen, Zenon
    <2> QED
      BY <2>1, <2>2, Zenon
  <1>3. ASSUME NEW g \in Handles, DestroyDirtyInMemoryBuildContainers(g)
        PROVE  [Contract(h)!Next]_(Contract(h)!contract)
    <2>1. row'[h] # row[h] => row'[h] = "destroying" /\ h = g
      BY <1>0, <1>3, Zenon DEF DestroyDirtyInMemoryBuildContainers, SetRow, TypeOK
    <2>2. h = g => ~IsJob(h)
      BY <1>3, BuildAssumption, Zenon DEF DestroyDirtyInMemoryBuildContainers, IsJob
    <2> QED
      BY <1>2, <1>3, <2>1, <2>2, Zenon DEF DestroyDirtyInMemoryBuildContainers
  <1>4. ASSUME NEW g \in Handles, CleanupOrphanedContainer(g)
        PROVE  [Contract(h)!Next]_(Contract(h)!contract)
    <2>1. row'[h] # row[h] => row'[h] = "destroying" /\ h = g
      BY <1>0, <1>4, Zenon DEF CleanupOrphanedContainer, SetRow, TypeOK
    <2>2. h = g => ~Running(h)
      BY <1>0, <1>4, Zenon DEF CleanupOrphanedContainer, Orphaned, RowInv, Running
    <2> QED
      BY <1>2, <1>4, <2>1, <2>2, Zenon DEF CleanupOrphanedContainer
  <1>5. CASE DestroyFailedContainers
    <2>1. row'[h] # row[h] => row'[h] = "destroying" /\ row[h] = "failed"
      BY <1>5, Zenon DEF DestroyFailedContainers
    <2> QED
      BY <1>2, <1>5, <2>1, Zenon DEF DestroyFailedContainers
  <1>6. CASE RemoveMissingContainers
    <2>1. row'[h] # row[h] => row'[h] = "none" /\ missing[h] = "old"
      BY <1>6, Zenon DEF RemoveMissingContainers, Drop
    <2>2. missing[h] = "old" => h \notin reported
      BY <1>0, Zenon DEF RowInv
    <2> QED
      BY <1>2, <1>6, <2>1, <2>2, Zenon DEF RemoveMissingContainers
  <1> QED
    BY <1>1, <1>3, <1>4, <1>5, <1>6, Zenon DEF Collect

(* What a pass of the reaper does to a container is in its contract: of    *)
(* kept containers it deletes the pods only when their build has ended.    *)
LEMMA PassSeen ==
    ASSUME LifecycleInv, Pass \/ PassFails, NEW h \in Handles
    PROVE  [Contract(h)!Next]_(Contract(h)!contract)
  <1>0. TypeOK /\ HeldInv /\ RowInv
    BY Zenon DEF LifecycleInv
  <1>1. CASE ListPods \/ SplitCompletedPods \/ FindDestroyingContainers
    <2>1. UNCHANGED <<build, stepOf, row, pod, reported>>
      BY <1>1, Zenon DEF ListPods, SplitCompletedPods, FindDestroyingContainers, Fault
    <2> QED
      BY <1>0, <2>1, FrameUnseen, Zenon
  <1>2. CASE UpdateContainersMissingSince
    <2>1. UNCHANGED <<build, stepOf, row, pod>> /\ reported' = listed \ reap
      BY <1>2, Zenon DEF UpdateContainersMissingSince
    <2>2. ClientOf(h)' = ClientOf(h) /\ StageOf(h)' = StageOf(h)
      BY <2>1, SameClient, SameStage, Zenon
    <2>3. CASE stepOf[h] = NoStep
      <3>1. h \notin reported /\ h \notin reported'
        BY <1>0, <2>1, <2>3, Zenon DEF RowInv
      <3> QED
        BY <1>0, <2>1, <2>2, <3>1, Unseen, Zenon
    <2>4. CASE stepOf[h] # NoStep
      <3>1. ClientOf(h) # "nobody"
        BY <2>4, MappingIs, Zenon DEF ClientIs
      <3>2. rpc' # rpc
        BY <1>2 DEF UpdateContainersMissingSince
      <3> QED
        BY <2>1, <2>2, <3>1, <3>2, Zenon DEF Contract!Next, Contract!Clean
    <2> QED
      BY <2>3, <2>4, Zenon
  <1>3. CASE DestroyContainers \/ DestroyUnknownContainers
    <2>1. UNCHANGED <<build, stepOf, pod, reported>>
      BY <1>3, Zenon DEF DestroyContainers, DestroyUnknownContainers
    <2>2. row'[h] \in {"creating", "created"} <=> row[h] \in {"creating", "created"}
      BY <1>3, Zenon DEF DestroyContainers, DestroyUnknownContainers, Drop
    <2> QED
      BY <1>0, <2>1, <2>2, SameClient, SameStage, Unseen, Zenon
  <1>4. CASE ReapCompletedPods
    <2>1. UNCHANGED <<build, stepOf, row, reported>>
      BY <1>4, Zenon DEF ReapCompletedPods, Fault
    <2>2. pod'[h] = pod[h] \/ (h \in reap /\ pod'[h] = "none")
      BY <1>4, Zenon DEF ReapCompletedPods, DeletePods
    <2>3. h \in reap => ~(IsJob(h) /\ Running(h))
      BY <1>0, Zenon DEF RowInv
    <2>4. rpc' # rpc
      BY <1>4 DEF ReapCompletedPods
    <2> QED
      BY <1>0, <2>1, <2>2, <2>3, <2>4, DeletedSeen, Zenon
  <1>5. CASE DeleteDestroyingPods \/ PassFails
    <2>1. UNCHANGED <<build, stepOf, row, reported>>
      BY <1>5, Zenon DEF DeleteDestroyingPods, PassFails, EndPass, Fault
    <2>2. pod'[h] = pod[h] \/ (h \in doomed \cap reported /\ pod'[h] = "none")
      BY <1>5, Zenon DEF DeleteDestroyingPods, PassFails, DeletePods
    <2>3. h \in doomed \cap reported => StageOf(h) = "given up"
      BY <1>0, MappingIs, Zenon DEF RowInv, StageIs
    <2>4. pod'[h] # pod[h] => rpc' # rpc
      BY <1>5 DEF DeleteDestroyingPods, PassFails, EndPass
    <2> QED
      BY <1>0, <2>1, <2>2, <2>3, <2>4, DeletedSeen, Zenon
  <1> QED
    BY <1>1, <1>2, <1>3, <1>4, <1>5, Zenon DEF Pass

(* Every container begins as its contract says.                            *)
LEMMA ContractInit == Init => \A h \in Handles : Contract(h)!Init
  <1> SUFFICES ASSUME Init, NEW h \in Handles PROVE Contract(h)!Init
    BY Zenon
  <1>1. stepOf[h] = NoStep /\ pod[h] = "none" /\ h \notin reported
    BY Zenon DEF Init
  <1>2. ClientOf(h) = "nobody" /\ StageOf(h) = "unused"
    BY <1>1, MappingIs, Zenon DEF ClientIs, StageIs
  <1>3. (h \in reported) = FALSE /\ rpc = "list"
    BY <1>1 DEF Init
  <1> QED
    BY <1>1, <1>2, <1>3, Zenon DEF Contract!Init

(* Every step is, for every container, one of the contract or unseen.      *)
LEMMA ContractStep ==
    LifecycleInv /\ [Next]_vars
        => \A h \in Handles : [Contract(h)!Next]_(Contract(h)!contract)
  <1> SUFFICES ASSUME LifecycleInv, [Next]_vars, NEW h \in Handles
               PROVE  [Contract(h)!Next]_(Contract(h)!contract)
    BY Zenon
  <1>1. CASE UNCHANGED vars
    <2>1. UNCHANGED <<build, stepOf, row, pod, reported>> /\ RowInv
      BY <1>1, Zenon DEF vars, LifecycleInv
    <2> QED
      BY <2>1, FrameUnseen, Zenon
  <1> QED
    BY <1>1, StepsSeen, EnvironmentSeen, CollectorsSeen, PassSeen, Zenon DEF Next

(* The containers keep their contracts: results of job builds that run are *)
(* not deleted while they are kept, and what was given up stays so,        *)
(* although step, collectors and reaper share no lock.                     *)
THEOREM ContainerContractKept == Spec => KeepsContainerContract
  <1>1. LifecycleInv /\ [Next]_vars
        => [\A h \in Handles : [Contract(h)!Next]_(Contract(h)!contract)]_vars
    BY ContractStep, Zenon
  <1> QED
    BY <1>1, ContractInit, LifecycleInvariant, PTL DEF Spec, KeepsContainerContract

(* The same for one container: its behaviour is one of the contract's.     *)
THEOREM EachContainerKeepsContract ==
    ASSUME NEW h \in Handles
    PROVE  Spec => Contract(h)!Spec
  <1>1. Init => Contract(h)!Init
    BY ContractInit, Zenon
  <1>2. LifecycleInv /\ [Next]_vars => [Contract(h)!Next]_(Contract(h)!contract)
    BY ContractStep, Zenon
  <1> QED
    BY <1>1, <1>2, LifecycleInvariant, PTL DEF Spec, Contract!Spec

=============================================================================

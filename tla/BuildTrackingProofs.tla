------------------------ MODULE BuildTrackingProofs ------------------------
(***************************************************************************)
(* Proofs about BuildTracking, for any number of webs and builds, any set  *)
(* of faults and any number of disruptions.                                *)
(***************************************************************************)
EXTENDS BuildTracking, TLAPS

USE DEF dbVars, webVars, runVars, bookVars

(* Going to a place of the code keeps the type of pc. *)
LEMMA GotoType ==
    ASSUME NEW w \in Webs, NEW b \in Builds, NEW place \in Places,
           pc \in [Webs -> [Builds -> Places]], Goto(w, b, place)
    PROVE  pc' \in [Webs -> [Builds -> Places]]
  BY Zenon DEF Goto

(* What Finish writes is an outcome. *)
LEMMA FinalStatusTerminal == \A outcome : FinalStatus(outcome) \in Terminal
  BY Zenon DEF FinalStatus, Terminal

(* Every operation keeps the types: one step per operation. *)
LEMMA TypeStep == TypeOK /\ [Next]_vars => TypeOK'
  <1> SUFFICES ASSUME TypeOK, [Next]_vars PROVE TypeOK'
    BY Zenon
  <1> USE DEF TypeOK
  <1>1. ASSUME NEW b \in Builds, BuildRow(b) PROVE TypeOK'
    <2>1. CASE Start(b)
      BY <2>1, Zenon DEF Start, Statuses
    <2>2. CASE CreateCheckBuild(b)
      BY <2>2, Zenon DEF CreateCheckBuild, Statuses
    <2>3. CASE FinishPending(b)
      BY <2>3, Zenon DEF FinishPending, Statuses, Terminal
    <2>4. CASE MarkAsAborted(b)
      BY <2>4, Zenon DEF MarkAsAborted
    <2>5. CASE NotifyAbort(b)
      BY <2>5, Zenon DEF NotifyAbort
    <2>6. CASE NotifyFails(b)
      BY <2>6, Zenon DEF NotifyFails
    <2>7. CASE OrphanExpires(b)
      BY <2>7, Zenon DEF OrphanExpires
    <2> QED
      BY <1>1, <2>1, <2>2, <2>3, <2>4, <2>5, <2>6, <2>7, Zenon DEF BuildRow
  <1>2. ASSUME NEW w \in Webs, Web(w) PROVE TypeOK'
    <2>1. CASE ListenerBreaks(w)
      BY <2>1, MaxDisruptionsAssumption DEF ListenerBreaks
    <2>2. CASE ListenerReconnects(w)
      BY <2>2, Zenon DEF ListenerReconnects
    <2>3. CASE TrackerRun(w)
      BY <2>3, Zenon DEF TrackerRun, Pairs
    <2>4. CASE SessionBreaks(w)
      BY <2>4, MaxDisruptionsAssumption DEF SessionBreaks
    <2>5. CASE Drain(w)
      BY <2>5, MaxDisruptionsAssumption DEF Drain
    <2>6. CASE Exit(w)
      BY <2>6, Zenon DEF Exit, ProcessGone, Places
    <2>7. CASE Crash(w)
      BY <2>7, MaxDisruptionsAssumption DEF Crash, ProcessGone, Places
    <2>8. CASE Boot(w)
      BY <2>8, Zenon DEF Boot
    <2> QED
      BY <1>2, <2>1, <2>2, <2>3, <2>4, <2>5, <2>6, <2>7, <2>8, Zenon DEF Web
  <1>3. ASSUME NEW w \in Webs, NEW b \in Builds, Tracking(w, b) PROVE TypeOK'
    <2> <<w, b>> \in Pairs
      BY Zenon DEF Pairs
    <2>1. CASE HandleNotification(w, b)
      BY <2>1, Zenon DEF HandleNotification
    <2>2. CASE TrackBuild(w, b)
      <3>1. pc' \in [Webs -> [Builds -> Places]]
        BY <2>2, GotoType, Zenon DEF TrackBuild, Places
      <3> QED
        BY <2>2, <3>1, Zenon DEF TrackBuild
    <2>3. CASE Untrack(w, b)
      <3>1. pc' \in [Webs -> [Builds -> Places]]
        BY <2>3, GotoType, Zenon DEF Untrack, Places
      <3> QED
        BY <2>3, <3>1, Zenon DEF Untrack
    <2>4. CASE FinalizeOrphanedCheck(w, b)
      BY <2>4, Zenon DEF FinalizeOrphanedCheck, Statuses, Terminal
    <2>5. CASE AcquireTrackingLock(w, b)
      <3>1. pc' \in [Webs -> [Builds -> Places]]
        BY <2>5, GotoType, Zenon DEF AcquireTrackingLock, Places
      <3> QED
        BY <2>5, <3>1, Zenon DEF AcquireTrackingLock
    <2>6. CASE ReleaseTrackingLock(w, b)
      <3>1. pc' \in [Webs -> [Builds -> Places]]
        BY <2>6, GotoType, Zenon DEF ReleaseTrackingLock, Places
      <3> QED
        BY <2>6, <3>1, Zenon DEF ReleaseTrackingLock
    <2>7. CASE Reload(w, b)
      <3>1. pc' \in [Webs -> [Builds -> Places]]
        BY <2>7, GotoType, Zenon DEF Reload, Places
      <3> QED
        BY <2>7, <3>1, Zenon DEF Reload
    <2>8. CASE Prepare(w, b)
      <3>1. pc' \in [Webs -> [Builds -> Places]]
        BY <2>8, GotoType, Zenon DEF Prepare, Places
      <3> QED
        BY <2>8, <3>1, Zenon DEF Prepare
    <2>9. CASE AbortSignal(w, b)
      <3>1. pc' \in [Webs -> [Builds -> Places]]
        BY <2>9, GotoType, Zenon DEF AbortSignal, Places
      <3> QED
        BY <2>9, <3>1, Zenon DEF AbortSignal
    <2>10. CASE AbortWatcher(w, b)
      BY <2>10, Zenon DEF AbortWatcher
    <2>11. ASSUME NEW o \in Outcomes, StepReturns(w, b, o) PROVE TypeOK'
      BY <2>11, Zenon DEF StepReturns
    <2>12. CASE AdriftReturns(w, b)
      BY <2>12, Zenon DEF AdriftReturns
    <2>13. CASE RunDone(w, b)
      <3>1. pc' \in [Webs -> [Builds -> Places]]
        BY <2>13, GotoType, Zenon DEF RunDone, Places
      <3> QED
        BY <2>13, <3>1, Zenon DEF RunDone
    <2>14. CASE RunReleased(w, b)
      <3>1. pc' \in [Webs -> [Builds -> Places]]
        BY <2>14, GotoType, Zenon DEF RunReleased, Places
      <3>2. result' \in [Webs -> [Builds -> Outcomes \cup {"none"}]]
        <4>1. "errored" \in Outcomes \cup {"none"}
          BY Zenon DEF Outcomes
        <4>2. result' = [result EXCEPT ![w][b] = "errored"] \/ result' = result
          BY <2>14, Zenon DEF RunReleased
        <4>3. CASE result' = [result EXCEPT ![w][b] = "errored"]
          BY <4>1, <4>3, Zenon
        <4> QED
          BY <4>2, <4>3, Zenon
      <3>3. adrift' \subseteq Pairs
        BY <2>14, Zenon DEF RunReleased
      <3> QED
        BY <2>14, <3>1, <3>2, <3>3, Zenon DEF RunReleased
    <2>15. CASE Finish(w, b)
      <3>1. pc' \in [Webs -> [Builds -> Places]]
        BY <2>15, GotoType, Zenon DEF Finish, Places
      <3> QED
        BY <2>15, <3>1, FinalStatusTerminal DEF Finish, Statuses
    <2>16. CASE Cleanup(w, b)
      <3>1. pc' \in [Webs -> [Builds -> Places]]
        BY <2>16, GotoType, Zenon DEF Cleanup, Places
      <3> QED
        BY <2>16, <3>1, Zenon DEF Cleanup
    <2> QED
      BY <1>3, <2>1, <2>2, <2>3, <2>4, <2>5, <2>6, <2>7, <2>8, <2>9, <2>10,
         <2>11, <2>12, <2>13, <2>14, <2>15, <2>16, Zenon DEF Tracking
  <1>4. CASE UNCHANGED vars
    BY <1>4, Zenon DEF vars
  <1> QED
    BY <1>1, <1>2, <1>3, <1>4, Zenon DEF Next

(* TypeOK is an invariant of the specification. *)
THEOREM TypeCorrect == Spec => []TypeOK
  <1>1. Init => TypeOK
    BY MaxDisruptionsAssumption DEF Init, TypeOK, Statuses, Places
  <1> QED
    BY <1>1, TypeStep, PTL DEF Spec

----------------------------------------------------------------------------
(* The lock                                                                *)

LockInv == RegisteredIffDriving /\ HolderDrives /\ DriverHoldsLock

(* A step that leaves the lock alone and either stays between Acquire and  *)
(* Release or stays outside keeps what is known about the lock.            *)
LEMMA LockLeftAlone ==
    ASSUME TypeOK, LockInv, NEW w \in Webs, NEW b \in Builds, NEW place \in Places,
           Goto(w, b, place), pc[w][b] \in Driving <=> place \in Driving,
           UNCHANGED <<registered, lockHolder, lost>>
    PROVE  LockInv'
  <1>1. \A v \in Webs, c \in Builds : pc'[v][c] \in Driving <=> pc[v][c] \in Driving
    BY Zenon DEF Goto, TypeOK
  <1> QED
    BY <1>1, Zenon DEF LockInv, RegisteredIffDriving, HolderDrives, DriverHoldsLock

(* A process that is gone drives nothing and holds nothing. *)
LEMMA LockProcessGone ==
    ASSUME TypeOK, LockInv, NEW w \in Webs, ProcessGone(w)
    PROVE  LockInv'
  <1>1. \A b \in Builds : pc'[w][b] = "idle" /\ <<w, b>> \notin registered'
    BY Zenon DEF ProcessGone, TypeOK
  <1>2. \A v \in Webs \ {w}, b \in Builds :
            /\ pc'[v][b] = pc[v][b]
            /\ <<v, b>> \in registered' <=> <<v, b>> \in registered
            /\ lockHolder'[b] = v <=> lockHolder[b] = v
    BY HoldersDistinct DEF ProcessGone, TypeOK
  <1>3. \A b \in Builds : lockHolder'[b] # w
    BY HoldersDistinct, Zenon DEF ProcessGone, TypeOK
  <1>4. "idle" \notin Driving /\ lost' = lost
    BY Zenon DEF Driving, ProcessGone
  <1>5. RegisteredIffDriving'
    <2> SUFFICES ASSUME NEW v \in Webs, NEW b \in Builds
                 PROVE  <<v, b>> \in registered' <=> pc'[v][b] \in Driving
      BY Zenon DEF RegisteredIffDriving
    <2>1. CASE v = w
      BY <1>1, <1>4, <2>1, Zenon
    <2>2. CASE v # w
      BY <1>2, <2>2, Zenon DEF LockInv, RegisteredIffDriving
    <2> QED
      BY <2>1, <2>2, Zenon
  <1>6. HolderDrives'
    <2> SUFFICES ASSUME NEW v \in Webs, NEW b \in Builds, lockHolder'[b] = v
                 PROVE  pc'[v][b] \in Driving
      BY Zenon DEF HolderDrives
    <2>1. v # w
      BY <1>3, Zenon
    <2> QED
      BY <1>2, <2>1, Zenon DEF LockInv, HolderDrives
  <1>7. DriverHoldsLock'
    <2> SUFFICES ASSUME NEW v \in Webs, NEW b \in Builds, pc'[v][b] \in Driving, b \notin lost
                 PROVE  lockHolder'[b] = v
      BY <1>4, Zenon DEF DriverHoldsLock
    <2>1. v # w
      BY <1>1, <1>4, Zenon
    <2> QED
      BY <1>2, <2>1, Zenon DEF LockInv, DriverHoldsLock
  <1> QED
    BY <1>5, <1>6, <1>7, Zenon DEF LockInv

(* Taking the lock: nobody else drives the build, since nobody held it. *)
LEMMA LockAcquired ==
    ASSUME TypeOK, LockInv, NEW w \in Webs, NEW b \in Builds,
           AcquireTrackingLock(w, b), lockHolder' # lockHolder
    PROVE  LockInv'
  <1>1. /\ lockHolder[b] = Free
        /\ lockHolder' = [lockHolder EXCEPT ![b] = w]
        /\ registered' = registered \cup {<<w, b>>}
        /\ pc' = [pc EXCEPT ![w][b] = "reload"]
        /\ lost' = lost
    BY Zenon DEF AcquireTrackingLock, Goto
  <1>2. "reload" \in Driving
    BY Zenon DEF Driving
  <1>3. RegisteredIffDriving'
    BY <1>1, <1>2, Zenon DEF LockInv, RegisteredIffDriving, TypeOK
  <1>4. HolderDrives'
    BY <1>1, <1>2, Zenon DEF LockInv, HolderDrives, TypeOK
  <1>5. DriverHoldsLock'
    <2> SUFFICES ASSUME NEW v \in Webs, NEW c \in Builds, pc'[v][c] \in Driving, c \notin lost
                 PROVE  lockHolder'[c] = v
      BY <1>1, Zenon DEF DriverHoldsLock
    <2>1. CASE c = b /\ v = w
      BY <1>1, <2>1, Zenon DEF TypeOK
    <2>2. CASE c = b /\ v # w
      BY <1>1, <2>2, HoldersDistinct, Zenon DEF LockInv, DriverHoldsLock, TypeOK
    <2>3. CASE c # b
      BY <1>1, <2>3, Zenon DEF LockInv, DriverHoldsLock, TypeOK
    <2> QED
      BY <2>1, <2>2, <2>3, Zenon
  <1> QED
    BY <1>3, <1>4, <1>5, Zenon DEF LockInv

(* Giving the lock back. *)
LEMMA LockReleased ==
    ASSUME TypeOK, LockInv, NEW w \in Webs, NEW b \in Builds, ReleaseTrackingLock(w, b)
    PROVE  LockInv'
  <1>1. /\ pc[w][b] = "release"
        /\ lockHolder' = [lockHolder EXCEPT ![b] = IF lockHolder[b] = w THEN Free ELSE lockHolder[b]]
        /\ registered' = registered \ {<<w, b>>}
        /\ pc' = [pc EXCEPT ![w][b] = "untrack"]
        /\ lost' = lost
    BY Zenon DEF ReleaseTrackingLock, Goto, At
  <1>2. "release" \in Driving /\ "untrack" \notin Driving
    BY Zenon DEF Driving
  <1>3. RegisteredIffDriving'
    BY <1>1, <1>2, Zenon DEF LockInv, RegisteredIffDriving, TypeOK
  <1>4. HolderDrives'
    <2> SUFFICES ASSUME NEW v \in Webs, NEW c \in Builds, lockHolder'[c] = v
                 PROVE  pc'[v][c] \in Driving
      BY Zenon DEF HolderDrives
    <2>1. lockHolder[c] = v /\ ~(v = w /\ c = b)
      BY <1>1, HoldersDistinct, Zenon DEF TypeOK
    <2> QED
      BY <1>1, <2>1, Zenon DEF LockInv, HolderDrives, TypeOK
  <1>5. DriverHoldsLock'
    <2> SUFFICES ASSUME NEW v \in Webs, NEW c \in Builds, pc'[v][c] \in Driving, c \notin lost
                 PROVE  lockHolder'[c] = v
      BY <1>1, Zenon DEF DriverHoldsLock
    <2>1. pc[v][c] \in Driving /\ ~(v = w /\ c = b)
      BY <1>1, <1>2, Zenon DEF TypeOK
    <2>2. lockHolder[c] = v
      BY <2>1, Zenon DEF LockInv, DriverHoldsLock
    <2> QED
      BY <1>1, <2>1, <2>2, Zenon DEF TypeOK
  <1> QED
    BY <1>3, <1>4, <1>5, Zenon DEF LockInv

(* Every step keeps what is known about the lock. *)
LEMMA LockStep == TypeOK /\ LockInv /\ [Next]_vars => LockInv'
  <1> SUFFICES ASSUME TypeOK, LockInv, [Next]_vars PROVE LockInv'
    BY Zenon
  <1>1. CASE UNCHANGED <<pc, registered, lockHolder, lost>>
    BY <1>1, Zenon DEF LockInv, RegisteredIffDriving, HolderDrives, DriverHoldsLock
  <1>2. ASSUME NEW b \in Builds, BuildRow(b) PROVE LockInv'
    <2>1. CASE OrphanExpires(b)
      BY <2>1, HoldersDistinct
      DEF OrphanExpires, TypeOK, LockInv, RegisteredIffDriving, HolderDrives, DriverHoldsLock
    <2>2. CASE ~OrphanExpires(b)
      BY <1>1, <1>2, <2>2, Zenon
      DEF BuildRow, Start, CreateCheckBuild, FinishPending, MarkAsAborted,
          NotifyAbort, NotifyFails
    <2> QED
      BY <2>1, <2>2, Zenon
  <1>3. ASSUME NEW w \in Webs, Web(w) PROVE LockInv'
    <2>1. CASE SessionBreaks(w)
      BY <2>1, HoldersDistinct, Zenon
      DEF SessionBreaks, TypeOK, LockInv, RegisteredIffDriving, HolderDrives, DriverHoldsLock
    <2>2. CASE Exit(w) \/ Crash(w)
      BY <2>2, LockProcessGone, Zenon DEF Exit, Crash
    <2>3. CASE ListenerBreaks(w) \/ ListenerReconnects(w) \/ TrackerRun(w) \/ Drain(w) \/ Boot(w)
      BY <1>1, <2>3, Zenon DEF ListenerBreaks, ListenerReconnects, TrackerRun, Drain, Boot
    <2> QED
      BY <1>3, <2>1, <2>2, <2>3, Zenon DEF Web
  <1>4. ASSUME NEW w \in Webs, NEW b \in Builds, Tracking(w, b) PROVE LockInv'
    <2>1. CASE \/ HandleNotification(w, b) \/ FinalizeOrphanedCheck(w, b)
               \/ AbortWatcher(w, b) \/ AdriftReturns(w, b)
               \/ \E outcome \in Outcomes : StepReturns(w, b, outcome)
      BY <1>1, <2>1, Zenon
      DEF HandleNotification, FinalizeOrphanedCheck, AbortWatcher, StepReturns, AdriftReturns
    <2>2. CASE AcquireTrackingLock(w, b)
      <3>1. CASE lockHolder' = lockHolder
        <4>1. /\ pc[w][b] = "acquire" /\ Goto(w, b, "untrack")
              /\ UNCHANGED <<registered, lockHolder, lost>>
          BY <2>2, <3>1, HoldersDistinct, Zenon DEF AcquireTrackingLock, At, TypeOK
        <4> QED
          BY <4>1, LockLeftAlone, Zenon DEF Driving, Places
      <3> QED
        BY <2>2, <3>1, LockAcquired, Zenon
    <2>3. CASE ReleaseTrackingLock(w, b)
      BY <2>3, LockReleased, Zenon
    <2>4. CASE TrackBuild(w, b)
      BY <1>1, <2>4, LockLeftAlone, Zenon DEF TrackBuild, At, Driving, Places
    <2>5. CASE Untrack(w, b)
      BY <1>1, <2>5, LockLeftAlone, Zenon DEF Untrack, At, Driving, Places
    <2>6. CASE Reload(w, b)
      BY <1>1, <2>6, LockLeftAlone, Zenon DEF Reload, At, Driving, Places
    <2>7. CASE Prepare(w, b)
      BY <1>1, <2>7, LockLeftAlone, Zenon DEF Prepare, At, Driving, Places
    <2>8. CASE AbortSignal(w, b)
      BY <1>1, <2>8, LockLeftAlone, Zenon DEF AbortSignal, At, Driving, Places
    <2>9. CASE RunDone(w, b)
      BY <1>1, <2>9, LockLeftAlone, Zenon DEF RunDone, At, Driving, Places
    <2>10. CASE RunReleased(w, b)
      BY <1>1, <2>10, LockLeftAlone, Zenon DEF RunReleased, At, Driving, Places
    <2>11. CASE Finish(w, b)
      BY <1>1, <2>11, LockLeftAlone, Zenon DEF Finish, At, Driving, Places
    <2>12. CASE Cleanup(w, b)
      BY <1>1, <2>12, LockLeftAlone, Zenon DEF Cleanup, At, Driving, Places
    <2> QED
      BY <1>4, <2>1, <2>2, <2>3, <2>4, <2>5, <2>6, <2>7, <2>8, <2>9, <2>10, <2>11, <2>12, Zenon DEF Tracking
  <1>5. CASE UNCHANGED vars
    BY <1>1, <1>5, Zenon DEF vars
  <1> QED
    BY <1>2, <1>3, <1>4, <1>5, Zenon DEF Next

----------------------------------------------------------------------------
(* The build row and the webs that work on it                              *)

(* A row that was started never becomes pending or absent again. *)
LEMMA StatusForward ==
    ASSUME TypeOK, [Next]_vars, NEW b \in Builds, status[b] \notin {"absent", "pending"}
    PROVE  status'[b] \notin {"absent", "pending"}
  <1>1. CASE UNCHANGED status
    BY <1>1, Zenon
  <1>2. ASSUME NEW c \in Builds, BuildRow(c) PROVE status'[b] \notin {"absent", "pending"}
    BY <1>1, <1>2, Zenon
    DEF BuildRow, Start, CreateCheckBuild, FinishPending, MarkAsAborted,
        NotifyAbort, NotifyFails, OrphanExpires, TypeOK
  <1>3. ASSUME NEW w \in Webs, Web(w) PROVE UNCHANGED status
    BY <1>3, Zenon
    DEF Web, ListenerBreaks, ListenerReconnects, TrackerRun, SessionBreaks, Drain,
        Exit, Crash, Boot, ProcessGone
  <1>4. ASSUME NEW w \in Webs, NEW c \in Builds, Tracking(w, c)
        PROVE  status'[b] \notin {"absent", "pending"}
    <2>1. CASE FinalizeOrphanedCheck(w, c)
      BY <2>1, Zenon DEF FinalizeOrphanedCheck, TypeOK
    <2>2. CASE Finish(w, c)
      <3>1. FinalStatus(result[w][c]) \notin {"absent", "pending"}
        BY FinalStatusTerminal, Zenon DEF Terminal
      <3> QED
        BY <1>1, <2>2, <3>1, Zenon DEF Finish, TypeOK
    <2> QED
      BY <1>1, <1>4, <2>1, <2>2, Zenon
      DEF Tracking, HandleNotification, TrackBuild, Untrack, AcquireTrackingLock,
          ReleaseTrackingLock, Reload, Prepare, AbortSignal, AbortWatcher, StepReturns,
          AdriftReturns, RunDone, RunReleased, Cleanup
  <1> QED
    BY <1>1, <1>2, <1>3, <1>4, Zenon DEF Next, vars

Tracked(w, b) == <<w, b>> \in scanned \/ pc[w][b] # "idle"

(* A web begins to track only what GetAllStartedBuilds returned. *)
LEMMA TrackedFromStarted ==
    ASSUME TypeOK, [Next]_vars, NEW v \in Webs, NEW c \in Builds, Tracked(v, c)'
    PROVE  Tracked(v, c) \/ status[c] = "started"
  <1> USE DEF Tracked
  <1>1. CASE UNCHANGED <<pc, scanned>>
    BY <1>1, Zenon
  <1>2. ASSUME NEW b \in Builds, BuildRow(b) PROVE UNCHANGED <<pc, scanned>>
    BY <1>2, Zenon
    DEF BuildRow, Start, CreateCheckBuild, FinishPending, MarkAsAborted,
        NotifyAbort, NotifyFails, OrphanExpires
  <1>3. ASSUME NEW w \in Webs, Web(w) PROVE Tracked(v, c) \/ status[c] = "started"
    <2>1. CASE TrackerRun(w)
      BY <2>1, Zenon DEF TrackerRun
    <2>2. CASE ProcessGone(w)
      BY <2>2, Zenon DEF ProcessGone, TypeOK
    <2> QED
      BY <1>1, <1>3, <2>1, <2>2, Zenon
      DEF Web, ListenerBreaks, ListenerReconnects, SessionBreaks, Drain, Exit, Crash, Boot
  <1>4. ASSUME NEW w \in Webs, NEW b \in Builds, Tracking(w, b) PROVE Tracked(v, c)
    <2>1. CASE TrackBuild(w, b)
      <3>1. <<w, b>> \in scanned /\ scanned' = scanned \ {<<w, b>>}
        BY <2>1, Zenon DEF TrackBuild
      <3>2. pc' = pc \/ pc' = [pc EXCEPT ![w][b] = "acquire"]
        BY <2>1, Zenon DEF TrackBuild, Goto
      <3>3. CASE v = w /\ c = b
        BY <3>1, <3>3, Zenon
      <3>4. CASE ~(v = w /\ c = b)
        <4>1. pc'[v][c] = pc[v][c]
          BY <3>2, <3>4 DEF TypeOK
        <4> QED
          BY <3>1, <4>1, Zenon
      <3> QED
        BY <3>3, <3>4, Zenon
    <2>2. CASE UNCHANGED scanned /\ pc[w][b] # "idle" /\ \E place \in Places : Goto(w, b, place)
      BY <2>2 DEF Goto, TypeOK
    <2>3. CASE \/ HandleNotification(w, b) \/ FinalizeOrphanedCheck(w, b)
               \/ AbortWatcher(w, b) \/ AdriftReturns(w, b)
               \/ \E outcome \in Outcomes : StepReturns(w, b, outcome)
      BY <1>1, <2>3, Zenon
      DEF HandleNotification, FinalizeOrphanedCheck, AbortWatcher, StepReturns, AdriftReturns
    <2>4. CASE \/ Untrack(w, b) \/ AcquireTrackingLock(w, b) \/ ReleaseTrackingLock(w, b)
               \/ Reload(w, b) \/ Prepare(w, b) \/ AbortSignal(w, b) \/ RunDone(w, b)
               \/ RunReleased(w, b) \/ Finish(w, b) \/ Cleanup(w, b)
      <3>1. UNCHANGED scanned /\ pc[w][b] # "idle"
        BY <2>4, Zenon
        DEF Untrack, AcquireTrackingLock, ReleaseTrackingLock, Reload, Prepare, AbortSignal,
            RunDone, RunReleased, Finish, Cleanup, At
      <3>2. \E place \in Places : Goto(w, b, place)
        BY <2>4, Zenon
        DEF Untrack, AcquireTrackingLock, ReleaseTrackingLock, Reload, Prepare, AbortSignal,
            RunDone, RunReleased, Finish, Cleanup, Places
      <3> QED
        BY <2>2, <3>1, <3>2, Zenon
    <2> QED
      BY <1>4, <2>1, <2>3, <2>4, Zenon DEF Tracking
  <1>5. CASE UNCHANGED vars
    BY <1>1, <1>5, Zenon DEF vars
  <1> QED
    BY <1>1, <1>2, <1>3, <1>4, <1>5, Zenon DEF Next

(* Every step keeps TrackedWasStarted. *)
LEMMA TrackedStep == TypeOK /\ TrackedWasStarted /\ [Next]_vars => TrackedWasStarted'
  <1> SUFFICES ASSUME TypeOK, TrackedWasStarted, [Next]_vars,
                      NEW w \in Webs, NEW b \in Builds, Tracked(w, b)'
               PROVE  status'[b] \notin {"absent", "pending"}
    BY Zenon DEF TrackedWasStarted, Tracked
  <1>1. status[b] \notin {"absent", "pending"}
    BY TrackedFromStarted, Zenon DEF TrackedWasStarted, Tracked
  <1> QED
    BY <1>1, StatusForward, Zenon

(* A lock that was lost stays on record. *)
LEMMA LostGrows == [Next]_vars => lost \subseteq lost'
  <1> SUFFICES ASSUME [Next]_vars PROVE lost \subseteq lost'
    BY Zenon
  <1>1. ASSUME NEW b \in Builds, BuildRow(b) PROVE lost \subseteq lost'
    BY <1>1, Zenon
    DEF BuildRow, Start, CreateCheckBuild, FinishPending, MarkAsAborted,
        NotifyAbort, NotifyFails, OrphanExpires
  <1>2. ASSUME NEW w \in Webs, Web(w) PROVE lost \subseteq lost'
    BY <1>2, Zenon
    DEF Web, ListenerBreaks, ListenerReconnects, TrackerRun, SessionBreaks, Drain,
        Exit, Crash, Boot, ProcessGone
  <1>3. ASSUME NEW w \in Webs, NEW b \in Builds, Tracking(w, b) PROVE lost' = lost
    BY <1>3, Zenon
    DEF Tracking, HandleNotification, TrackBuild, Untrack, FinalizeOrphanedCheck,
        AcquireTrackingLock, ReleaseTrackingLock, Reload, Prepare, AbortSignal,
        AbortWatcher, StepReturns, AdriftReturns, RunDone, RunReleased, Finish, Cleanup
  <1> QED
    BY <1>1, <1>2, <1>3, Zenon DEF Next, vars

(* Only the engine that works on a job build writes its status, so the     *)
(* build stays started under every web that works on it.                   *)
LEMMA WorkedStep ==
    ASSUME TypeOK, LockInv, TrackedWasStarted, WorkedOnIsStarted, DeferredAreChecks, [Next]_vars
    PROVE  WorkedOnIsStarted'
  <1> SUFFICES ASSUME NEW v \in Webs, NEW c \in JobBuilds, c \notin lost', pc'[v][c] \in Working
               PROVE  status'[c] = "started"
    BY Zenon DEF WorkedOnIsStarted
  <1> c \in Builds
    BY Zenon DEF Builds
  <1>1. c \notin lost
    BY LostGrows, Zenon
  <1>2. ASSUME pc[v][c] \in Working PROVE status[c] = "started"
    BY <1>1, <1>2, Zenon DEF WorkedOnIsStarted
  <1>3. CASE UNCHANGED <<pc, status>>
    BY <1>2, <1>3, Zenon
  <1>4. ASSUME NEW b \in Builds, BuildRow(b) PROVE status'[c] = "started"
    BY <1>2, <1>4, Zenon
    DEF BuildRow, Start, CreateCheckBuild, FinishPending, MarkAsAborted,
        NotifyAbort, NotifyFails, OrphanExpires, TypeOK
  <1>5. ASSUME NEW w \in Webs, Web(w) PROVE status'[c] = "started"
    <2>1. CASE ProcessGone(w)
      BY <1>2, <2>1, Zenon DEF ProcessGone, TypeOK, Working
    <2> QED
      BY <1>3, <1>5, <2>1, Zenon
      DEF Web, ListenerBreaks, ListenerReconnects, TrackerRun, SessionBreaks, Drain,
          Exit, Crash, Boot
  <1>0. ASSUME NEW w \in Webs, NEW b \in Builds, NEW place \in Places, Goto(w, b, place),
               place \notin Working \/ pc[w][b] \in Working
        PROVE  pc[v][c] \in Working
    <2>1. CASE v = w /\ c = b
      BY <1>0, <2>1, Zenon DEF Goto, TypeOK
    <2>2. CASE ~(v = w /\ c = b)
      BY <1>0, <2>2, Zenon DEF Goto, TypeOK
    <2> QED
      BY <2>1, <2>2, Zenon
  <1>6. ASSUME NEW w \in Webs, NEW b \in Builds, Tracking(w, b) PROVE status'[c] = "started"
    <2>1. CASE \/ HandleNotification(w, b) \/ AbortWatcher(w, b) \/ AdriftReturns(w, b)
               \/ \E outcome \in Outcomes : StepReturns(w, b, outcome)
      BY <1>3, <2>1, Zenon DEF HandleNotification, AbortWatcher, StepReturns, AdriftReturns
    <2>2. CASE FinalizeOrphanedCheck(w, b)
      <3>1. b # c
        BY <2>2, BuildsAreOneKind, Zenon DEF FinalizeOrphanedCheck, DeferredAreChecks
      <3> QED
        BY <1>2, <2>2, <3>1, Zenon DEF FinalizeOrphanedCheck, TypeOK
    <2>3. CASE Finish(w, b)
      <3>1. pc[w][b] \in {"reject", "finish"} /\ pc'[w][b] \in {"release", "cleanup"}
        <4>1. pc[w][b] \in {"reject", "finish"} /\ \E place \in {"release", "cleanup"} : Goto(w, b, place)
          BY <2>3, Zenon DEF Finish, At
        <4> QED
          BY <4>1 DEF Goto, TypeOK
      <3>2. ~(v = w /\ c = b)
        BY <3>1, Zenon DEF Working
      <3>3. pc[v][c] \in Working
        <4>1. \E place \in Places : Goto(w, b, place) /\ place \notin Working
          BY <2>3, Zenon DEF Finish, Places, Working
        <4> QED
          BY <1>0, <4>1, Zenon
      <3>4. c # b
        <4>1. pc[v][c] \in Driving /\ pc[w][b] \in Driving
          BY <3>1, <3>3, Zenon DEF Working, Driving
        <4> QED
          BY <1>1, <3>2, <4>1, Zenon DEF LockInv, DriverHoldsLock
      <3> QED
        BY <1>2, <2>3, <3>3, <3>4, Zenon DEF Finish, TypeOK
    <2>4. CASE Reload(w, b)
      <3>1. CASE v = w /\ c = b
        <4>1. pc[w][b] = "reload" /\ status' = status
          BY <2>4, Zenon DEF Reload, At
        <4>2. status[b] \notin Terminal
          <5>1. status[b] \notin Terminal \/ Goto(w, b, "release")
            BY <2>4, Zenon DEF Reload
          <5>2. ~Goto(w, b, "release")
            BY <3>1 DEF Goto, TypeOK, Working
          <5> QED
            BY <5>1, <5>2, Zenon
        <4>3. status[b] \notin {"absent", "pending"}
          BY <4>1, Zenon DEF TrackedWasStarted
        <4> QED
          BY <3>1, <4>1, <4>2, <4>3, Zenon DEF TypeOK, Statuses
      <3>2. CASE ~(v = w /\ c = b)
        <4>1. status' = status /\ \E place \in {"prepare", "release"} : Goto(w, b, place)
          BY <2>4, Zenon DEF Reload
        <4>2. pc'[v][c] = pc[v][c]
          BY <3>2, <4>1 DEF Goto, TypeOK
        <4> QED
          BY <1>2, <4>1, <4>2, Zenon
      <3> QED
        BY <3>1, <3>2, Zenon
    <2>5. CASE TrackBuild(w, b)
      <3>1. status' = status
        BY <2>5, Zenon DEF TrackBuild
      <3>2. pc[v][c] \in Working
        <4>1. UNCHANGED pc \/ Goto(w, b, "acquire")
          BY <2>5, Zenon DEF TrackBuild
        <4>2. "acquire" \in Places \ Working
          BY Zenon DEF Places, Working
        <4> QED
          BY <1>0, <4>1, <4>2, Zenon
      <3> QED
        BY <1>2, <3>1, <3>2, Zenon
    <2>6. CASE Untrack(w, b)
      <3>1. status' = status
        BY <2>6, Zenon DEF Untrack
      <3>2. pc[v][c] \in Working
        <4>1. \E place \in Places : /\ Goto(w, b, place)
                                    /\ place \notin Working \/ pc[w][b] \in Working
          BY <2>6, Zenon DEF Untrack, At, Places, Working
        <4> QED
          BY <1>0, <4>1, Zenon
      <3> QED
        BY <1>2, <3>1, <3>2, Zenon
    <2>7. CASE AcquireTrackingLock(w, b)
      <3>1. status' = status
        BY <2>7, Zenon DEF AcquireTrackingLock
      <3>2. pc[v][c] \in Working
        <4>1. \E place \in Places : /\ Goto(w, b, place)
                                    /\ place \notin Working \/ pc[w][b] \in Working
          BY <2>7, Zenon DEF AcquireTrackingLock, At, Places, Working
        <4> QED
          BY <1>0, <4>1, Zenon
      <3> QED
        BY <1>2, <3>1, <3>2, Zenon
    <2>8. CASE ReleaseTrackingLock(w, b)
      <3>1. status' = status
        BY <2>8, Zenon DEF ReleaseTrackingLock
      <3>2. pc[v][c] \in Working
        <4>1. \E place \in Places : /\ Goto(w, b, place)
                                    /\ place \notin Working \/ pc[w][b] \in Working
          BY <2>8, Zenon DEF ReleaseTrackingLock, At, Places, Working
        <4> QED
          BY <1>0, <4>1, Zenon
      <3> QED
        BY <1>2, <3>1, <3>2, Zenon
    <2>9. CASE Prepare(w, b)
      <3>1. status' = status
        BY <2>9, Zenon DEF Prepare
      <3>2. pc[v][c] \in Working
        <4>1. \E place \in Places : /\ Goto(w, b, place)
                                    /\ place \notin Working \/ pc[w][b] \in Working
          BY <2>9, Zenon DEF Prepare, At, Places, Working
        <4> QED
          BY <1>0, <4>1, Zenon
      <3> QED
        BY <1>2, <3>1, <3>2, Zenon
    <2>10. CASE AbortSignal(w, b)
      <3>1. status' = status
        BY <2>10, Zenon DEF AbortSignal
      <3>2. pc[v][c] \in Working
        <4>1. \E place \in Places : /\ Goto(w, b, place)
                                    /\ place \notin Working \/ pc[w][b] \in Working
          BY <2>10, Zenon DEF AbortSignal, At, Places, Working
        <4> QED
          BY <1>0, <4>1, Zenon
      <3> QED
        BY <1>2, <3>1, <3>2, Zenon
    <2>11. CASE RunDone(w, b)
      <3>1. status' = status
        BY <2>11, Zenon DEF RunDone
      <3>2. pc[v][c] \in Working
        <4>1. \E place \in Places : /\ Goto(w, b, place)
                                    /\ place \notin Working \/ pc[w][b] \in Working
          BY <2>11, Zenon DEF RunDone, At, Places, Working
        <4> QED
          BY <1>0, <4>1, Zenon
      <3> QED
        BY <1>2, <3>1, <3>2, Zenon
    <2>12. CASE RunReleased(w, b)
      <3>1. status' = status
        BY <2>12, Zenon DEF RunReleased
      <3>2. pc[v][c] \in Working
        <4>1. \E place \in Places : /\ Goto(w, b, place)
                                    /\ place \notin Working \/ pc[w][b] \in Working
          BY <2>12, Zenon DEF RunReleased, At, Places, Working
        <4> QED
          BY <1>0, <4>1, Zenon
      <3> QED
        BY <1>2, <3>1, <3>2, Zenon
    <2>13. CASE Cleanup(w, b)
      <3>1. status' = status
        BY <2>13, Zenon DEF Cleanup
      <3>2. pc[v][c] \in Working
        <4>1. \E place \in Places : /\ Goto(w, b, place)
                                    /\ place \notin Working \/ pc[w][b] \in Working
          BY <2>13, Zenon DEF Cleanup, At, Places, Working
        <4> QED
          BY <1>0, <4>1, Zenon
      <3> QED
        BY <1>2, <3>1, <3>2, Zenon
    <2> QED
      BY <1>6, <2>1, <2>2, <2>3, <2>4, <2>5, <2>6, <2>7, <2>8, <2>9, <2>10, <2>11, <2>12, <2>13, Zenon DEF Tracking
  <1>7. CASE UNCHANGED vars
    BY <1>3, <1>7, Zenon DEF vars
  <1> QED
    BY <1>4, <1>5, <1>6, <1>7, Zenon DEF Next

(* Only the tracker defers a Finish, and only for check builds; only a     *)
(* drain leaves a step goroutine behind.                                   *)
LEMMA LeftoversStep ==
    ASSUME TypeOK, DeferredAreChecks, AdriftOnlyInDrain, [Next]_vars
    PROVE  DeferredAreChecks' /\ AdriftOnlyInDrain'
  <1> USE DEF DeferredAreChecks, AdriftOnlyInDrain
  <1>1. CASE UNCHANGED <<deferred, adrift, webState>>
    BY <1>1, Zenon
  <1>2. ASSUME NEW b \in Builds, BuildRow(b) PROVE UNCHANGED <<deferred, adrift, webState>>
    BY <1>2, Zenon
    DEF BuildRow, Start, CreateCheckBuild, FinishPending, MarkAsAborted,
        NotifyAbort, NotifyFails, OrphanExpires
  <1>3. ASSUME NEW w \in Webs, Web(w) PROVE DeferredAreChecks' /\ AdriftOnlyInDrain'
    <2>0. \A p \in adrift : p \in Pairs /\ p[1] \in Webs
      BY Zenon DEF TypeOK, Pairs
    <2>1. CASE ProcessGone(w)
      BY <2>0, <2>1, Zenon DEF ProcessGone, TypeOK
    <2>2. CASE Drain(w)
      BY <2>0, <2>2, Zenon DEF Drain, TypeOK
    <2>3. CASE Boot(w)
      BY <2>0, <2>3, Zenon DEF Boot, TypeOK
    <2> QED
      BY <1>1, <1>3, <2>1, <2>2, <2>3, Zenon
      DEF Web, ListenerBreaks, ListenerReconnects, TrackerRun, SessionBreaks, Exit, Crash
  <1>4. ASSUME NEW w \in Webs, NEW b \in Builds, Tracking(w, b)
        PROVE  DeferredAreChecks' /\ AdriftOnlyInDrain'
    <2>1. CASE Untrack(w, b)
      <3>1. UNCHANGED <<adrift, webState>>
        BY <2>1, Zenon DEF Untrack, runVars
      <3>2. \/ deferred' = deferred
            \/ b \in CheckBuilds /\ deferred' = deferred \cup {<<w, b>>}
        BY <2>1, Zenon DEF Untrack
      <3> QED
        BY <3>1, <3>2
    <2>2. CASE FinalizeOrphanedCheck(w, b)
      BY <2>2, Zenon DEF FinalizeOrphanedCheck
    <2>3. CASE AdriftReturns(w, b)
      BY <2>3, Zenon DEF AdriftReturns
    <2>4. CASE RunReleased(w, b)
      <3>1. adrift' \subseteq adrift \cup {<<w, b>>} /\ webState[w] = "draining"
        BY <2>4, Zenon DEF RunReleased
      <3>2. UNCHANGED <<deferred, webState>>
        BY <2>4, Zenon DEF RunReleased
      <3> QED
        BY <3>1, <3>2
    <2> QED
      BY <1>1, <1>4, <2>1, <2>2, <2>3, <2>4, Zenon
      DEF Tracking, HandleNotification, TrackBuild, AcquireTrackingLock,
          ReleaseTrackingLock, Reload, Prepare, AbortSignal, AbortWatcher, StepReturns,
          RunDone, Finish, Cleanup
  <1> QED
    BY <1>1, <1>2, <1>3, <1>4, Zenon DEF Next, vars

(* A web that tracks a build writes what it keeps of that build and the    *)
(* row of that build, and nothing of any other.                            *)
LEMMA TrackingWrites ==
    ASSUME NEW w \in Webs, NEW b \in Builds, Tracking(w, b)
    PROVE  /\ UNCHANGED <<aborted, lost, webState>>
           /\ pc' = pc \/ \E place : Goto(w, b, place)
           /\ result' = result \/ \E o : result' = [result EXCEPT ![w][b] = o]
           /\ status' = status \/ \E s : status' = [status EXCEPT ![b] = s]
           /\ adrift' \in {adrift, adrift \cup {<<w, b>>}, adrift \ {<<w, b>>}}
           /\ cancelled' \in {cancelled, cancelled \cup {<<w, b>>}, cancelled \ {<<w, b>>}}
  <1>1. CASE HandleNotification(w, b)
    BY <1>1, Zenon DEF HandleNotification
  <1>2. CASE TrackBuild(w, b)
    BY <1>2, Zenon DEF TrackBuild
  <1>3. CASE Untrack(w, b)
    BY <1>3, Zenon DEF Untrack
  <1>4. CASE FinalizeOrphanedCheck(w, b)
    BY <1>4, Zenon DEF FinalizeOrphanedCheck
  <1>5. CASE AcquireTrackingLock(w, b)
    BY <1>5, Zenon DEF AcquireTrackingLock
  <1>6. CASE ReleaseTrackingLock(w, b)
    BY <1>6, Zenon DEF ReleaseTrackingLock
  <1>7. CASE Reload(w, b)
    BY <1>7, Zenon DEF Reload
  <1>8. CASE Prepare(w, b)
    BY <1>8, Zenon DEF Prepare
  <1>9. CASE AbortSignal(w, b)
    BY <1>9, Zenon DEF AbortSignal
  <1>10. CASE AbortWatcher(w, b)
    BY <1>10, Zenon DEF AbortWatcher
  <1>11. ASSUME NEW outcome \in Outcomes, StepReturns(w, b, outcome)
         PROVE  /\ UNCHANGED <<aborted, lost, webState, pc, status, adrift, cancelled>>
                /\ \E o : result' = [result EXCEPT ![w][b] = o]
    BY <1>11, Zenon DEF StepReturns, Outcomes
  <1>12. CASE AdriftReturns(w, b)
    BY <1>12, Zenon DEF AdriftReturns
  <1>13. CASE RunDone(w, b)
    BY <1>13, Zenon DEF RunDone
  <1>14. CASE RunReleased(w, b)
    BY <1>14, Zenon DEF RunReleased
  <1>15. CASE Finish(w, b)
    BY <1>15, Zenon DEF Finish
  <1>16. CASE Cleanup(w, b)
    BY <1>16, Zenon DEF Cleanup
  <1> QED
    BY <1>1, <1>2, <1>3, <1>4, <1>5, <1>6, <1>7, <1>8, <1>9, <1>10, <1>11, <1>12, <1>13, <1>14,
       <1>15, <1>16, Zenon
    DEF Tracking

(* The types that matter to a step on one build. *)
LEMMA Typed ==
    ASSUME TypeOK
    PROVE  /\ pc \in [Webs -> [Builds -> Places]]
           /\ result \in [Webs -> [Builds -> Outcomes \cup {"none"}]]
           /\ status \in [Builds -> Statuses]
           /\ webState \in [Webs -> {"up", "draining", "down"}]
  BY Zenon DEF TypeOK

(* Where a web goes. *)
LEMMA Goes ==
    ASSUME TypeOK, NEW w \in Webs, NEW b \in Builds, NEW place, Goto(w, b, place)
    PROVE  \A v \in Webs, c \in Builds :
             pc'[v][c] = IF v = w /\ c = b THEN place ELSE pc[v][c]
  BY Typed, Zenon DEF Goto

(* What a web keeps of another build, and what other webs keep, stays. *)
LEMMA TrackingFrame ==
    ASSUME TypeOK, NEW w \in Webs, NEW b \in Builds, Tracking(w, b),
           NEW v \in Webs, NEW c \in Builds, v # w \/ c # b
    PROVE  /\ pc'[v][c] = pc[v][c] /\ result'[v][c] = result[v][c]
           /\ <<v, c>> \in adrift' <=> <<v, c>> \in adrift
           /\ <<v, c>> \in cancelled' <=> <<v, c>> \in cancelled
           /\ c # b => status'[c] = status[c]
  <1>1. pc'[v][c] = pc[v][c]
    BY TrackingWrites, Goes
  <1>2. result'[v][c] = result[v][c]
    BY TrackingWrites, Typed
  <1>3. /\ <<v, c>> \in adrift' <=> <<v, c>> \in adrift
        /\ <<v, c>> \in cancelled' <=> <<v, c>> \in cancelled
    BY TrackingWrites
  <1>4. c # b => status'[c] = status[c]
    BY TrackingWrites, Typed
  <1> QED
    BY <1>1, <1>2, <1>3, <1>4, Zenon

(* Results and cancellations belong to the current drive: what executes no *)
(* plan returns nothing, Cleanup forgets the result before the lock goes,  *)
(* and the watcher cancels only what it has read to be aborted.            *)
LEMMA ReportStep ==
    TypeOK /\ ResultOfThisDrive /\ CancelWasAsked /\ [Next]_vars
        => ResultOfThisDrive' /\ CancelWasAsked'
  <1> SUFFICES ASSUME TypeOK, ResultOfThisDrive, CancelWasAsked, [Next]_vars
               PROVE  ResultOfThisDrive' /\ CancelWasAsked'
    BY Zenon
  <1> DEFINE Asks(v, c) ==
               /\ result'[v][c] # "none" => pc'[v][c] \in {"run", "finish", "cleanup"}
               /\ c \in JobBuilds /\ result'[v][c] = "retriable" => pc'[v][c] # "finish"
               /\ <<v, c>> \in cancelled' \/ result'[v][c] = "canceled" => c \in aborted'
  <1>0. SUFFICES ASSUME NEW v \in Webs, NEW c \in Builds PROVE Asks(v, c)
    BY Zenon DEF ResultOfThisDrive, CancelWasAsked
  <1> HIDE DEF Asks
  <1>1. ASSUME UNCHANGED <<pc, result, cancelled>>, aborted \subseteq aborted' PROVE Asks(v, c)
    BY <1>1, Zenon DEF Asks, ResultOfThisDrive, CancelWasAsked
  <1>2. CASE UNCHANGED vars
    BY <1>1, <1>2, Zenon DEF vars
  <1>3. ASSUME NEW b \in Builds, BuildRow(b) PROVE Asks(v, c)
    BY <1>1, <1>3, Zenon
    DEF BuildRow, Start, CreateCheckBuild, FinishPending, MarkAsAborted,
        NotifyAbort, NotifyFails, OrphanExpires
  <1>4. ASSUME NEW w \in Webs, Web(w) PROVE Asks(v, c)
    <2>1. ASSUME ProcessGone(w) PROVE Asks(v, c)
      <3>1. CASE v = w
        <4>1. result'[v][c] = "none" /\ <<v, c>> \notin cancelled'
          BY <2>1, <3>1, Zenon DEF ProcessGone, TypeOK
        <4> QED
          BY <4>1, Zenon DEF Asks
      <3>2. CASE v # w
        <4>1. pc'[v] = pc[v] /\ result'[v] = result[v] /\ aborted' = aborted
          BY <2>1, <3>2, Zenon DEF ProcessGone, TypeOK
        <4>2. <<v, c>> \in cancelled' => <<v, c>> \in cancelled
          BY <2>1, Zenon DEF ProcessGone
        <4> QED
          BY <4>1, <4>2, Zenon DEF Asks, ResultOfThisDrive, CancelWasAsked
      <3> QED
        BY <3>1, <3>2, Zenon
    <2> QED
      BY <1>1, <1>4, <2>1, Zenon
      DEF Web, ListenerBreaks, ListenerReconnects, TrackerRun, SessionBreaks, Drain,
          Exit, Crash, Boot
  <1>5. ASSUME NEW w \in Webs, NEW b \in Builds, Tracking(w, b) PROVE Asks(v, c)
    <2>1. CASE <<w, b>> # <<v, c>>
      <3>1. pc'[v][c] = pc[v][c] /\ result'[v][c] = result[v][c]
        BY <1>5, <2>1, TrackingFrame, ZenonT(30)
      <3>2. aborted' = aborted /\ (<<v, c>> \in cancelled' <=> <<v, c>> \in cancelled)
        BY <1>5, <2>1, TrackingFrame, TrackingWrites, Zenon
      <3> QED
        BY <3>1, <3>2, Zenon DEF Asks, ResultOfThisDrive, CancelWasAsked
    <2>2. CASE w = v /\ b = c
      <3>1. ASSUME pc[v][c] \notin {"run", "finish", "cleanup"},
                   UNCHANGED <<result, cancelled, aborted>>
            PROVE  Asks(v, c)
        BY <3>1, Zenon DEF Asks, ResultOfThisDrive, CancelWasAsked
      <3>2. CASE TrackBuild(w, b)
        BY <1>1, <2>2, <3>1, <3>2, Zenon DEF TrackBuild, At
      <3>3. CASE Untrack(w, b)
        BY <2>2, <3>1, <3>3, Zenon DEF Untrack, At
      <3>4. CASE AcquireTrackingLock(w, b)
        BY <2>2, <3>1, <3>4, Zenon DEF AcquireTrackingLock, At
      <3>5. CASE ReleaseTrackingLock(w, b)
        BY <2>2, <3>1, <3>5, Zenon DEF ReleaseTrackingLock, At
      <3>6. CASE Reload(w, b)
        BY <2>2, <3>1, <3>6, Zenon DEF Reload, At
      <3>7. CASE Prepare(w, b)
        BY <2>2, <3>1, <3>7, Zenon DEF Prepare, At
      <3>8. CASE AbortSignal(w, b)
        BY <2>2, <3>1, <3>8, Zenon DEF AbortSignal, At
      <3>9. CASE AbortWatcher(w, b)
        <4>1. <<v, c>> \in cancelled' => <<v, c>> \in cancelled \/ c \in aborted
          BY <2>2, <3>9, Zenon DEF AbortWatcher
        <4> QED
          BY <3>9, <4>1, Zenon DEF AbortWatcher, Asks, ResultOfThisDrive, CancelWasAsked
      <3>10. ASSUME NEW o \in Outcomes, StepReturns(w, b, o) PROVE Asks(v, c)
        <4>1. pc'[v][c] = "run" /\ result'[v][c] = o /\ (o = "canceled" => <<v, c>> \in cancelled)
          BY <2>2, <3>10, Zenon DEF StepReturns, Stepping, At, TypeOK
        <4>2. cancelled' = cancelled /\ aborted' = aborted
          BY <3>10, Zenon DEF StepReturns
        <4> QED
          BY <4>1, <4>2, Zenon DEF Asks, CancelWasAsked
      <3>11. CASE RunDone(w, b)
        <4>1. result' = result /\ cancelled' = cancelled /\ aborted' = aborted
          BY <3>11, Zenon DEF RunDone
        <4>2. pc'[v][c] = IF c \in JobBuilds /\ result[v][c] = "retriable" THEN "cleanup" ELSE "finish"
          BY <2>2, <3>11 DEF RunDone, Goto, TypeOK
        <4> QED
          BY <4>1, <4>2, Zenon DEF Asks, CancelWasAsked
      <3>12. CASE RunReleased(w, b)
        <4>1. cancelled' = cancelled /\ aborted' = aborted
          BY <3>12, Zenon DEF RunReleased
        <4>2. \/ /\ c \in CheckBuilds
                 /\ pc'[v][c] = "finish" /\ result'[v][c] = "errored"
              \/ pc'[v][c] = "cleanup" /\ result'[v][c] = result[v][c]
          BY <2>2, <3>12 DEF RunReleased, Goto, TypeOK
        <4> QED
          BY <4>1, <4>2, BuildsAreOneKind, Zenon DEF Asks, CancelWasAsked
      <3>13. CASE Finish(w, b)
        <4>1. UNCHANGED <<result, cancelled, aborted>>
          BY <3>13, Zenon DEF Finish
        <4>2. CASE pc[v][c] = "finish" /\ pc'[v][c] = "cleanup"
          BY <4>1, <4>2, Zenon DEF Asks, CancelWasAsked
        <4> QED
          BY <2>2, <3>1, <3>13, <4>1, <4>2 DEF Finish, At, Goto, TypeOK
      <3>14. CASE Cleanup(w, b)
        <4>1. result'[v][c] = "none" /\ <<v, c>> \notin cancelled'
          BY <2>2, <3>14, Zenon DEF Cleanup, TypeOK
        <4> QED
          BY <4>1, Zenon DEF Asks
      <3> QED
        BY <1>1, <1>5, <3>2, <3>3, <3>4, <3>5, <3>6, <3>7, <3>8, <3>9, <3>10, <3>11, <3>12, <3>13, <3>14, Zenon
        DEF Tracking, HandleNotification, FinalizeOrphanedCheck, AdriftReturns
    <2> QED
      BY <2>1, <2>2, Zenon
  <1> QED
    BY <1>2, <1>3, <1>4, <1>5, Zenon DEF Next

----------------------------------------------------------------------------

(* The inductive invariant: whatever the webs do, and however often they   *)
(* drain, crash or lose a connection, the lock, its local registration,    *)
(* the place in Run and the build row agree.                               *)
THEOREM TrackingInvariant == Spec => []TrackingInv
  <1>1. Init => TrackingInv
    <2> SUFFICES ASSUME Init PROVE TrackingInv
      BY Zenon
    <2>1. TypeOK
      BY MaxDisruptionsAssumption DEF Init, TypeOK, Statuses, Places
    <2>2. \A w \in Webs, b \in Builds :
              /\ pc[w][b] = "idle" /\ lockHolder[b] # w
              /\ <<w, b>> \notin registered /\ <<w, b>> \notin scanned
      BY HoldersDistinct, Zenon DEF Init
    <2>3. "idle" \notin Driving /\ "idle" \notin Working
      BY Zenon DEF Driving, Working
    <2>4. deferred = {} /\ adrift = {}
      BY Zenon DEF Init
    <2>5. \A w \in Webs, b \in Builds : result[w][b] = "none" /\ <<w, b>> \notin cancelled
      BY Zenon DEF Init
    <2>6. ResultOfThisDrive /\ CancelWasAsked
      BY <2>5, Zenon DEF ResultOfThisDrive, CancelWasAsked
    <2> QED
      BY <2>1, <2>2, <2>3, <2>4, <2>6, Zenon
      DEF TrackingInv, RegisteredIffDriving, HolderDrives, DriverHoldsLock, TrackedWasStarted,
          WorkedOnIsStarted, DeferredAreChecks, AdriftOnlyInDrain, Builds
  <1>2. TrackingInv /\ [Next]_vars => TrackingInv'
    BY TypeStep, LockStep, TrackedStep, WorkedStep, LeftoversStep, ReportStep, Zenon
    DEF TrackingInv, LockInv
  <1> QED
    BY <1>1, <1>2, PTL DEF Spec

(* Between Acquire and Release the database agrees that the web holds the  *)
(* tracking lock, unless a lock connection broke under the build.          *)
THEOREM DriverHolds == Spec => []DriverHoldsLock
  <1>1. TrackingInv => DriverHoldsLock
    BY Zenon DEF TrackingInv
  <1> QED
    BY <1>1, TrackingInvariant, PTL

(* However Run returns, no lock stays behind. *)
THEOREM LocksReturned == Spec => []NoLockLeak
  <1>1. TrackingInv => NoLockLeak
    BY Zenon DEF TrackingInv, RegisteredIffDriving, HolderDrives, NoLockLeak
  <1> QED
    BY <1>1, TrackingInvariant, PTL

(* Two webs execute the same build only while one of them drains. *)
THEOREM OverlapOnlyInDrain == Spec => []StepsOverlapOnlyInDrain
  <1>1. TrackingInv => StepsOverlapOnlyInDrain
    <2> SUFFICES ASSUME TrackingInv, NEW b \in Builds, b \notin lost,
                        NEW v \in Webs, NEW w \in Webs, v # w,
                        Stepping(v, b) \/ <<v, b>> \in adrift,
                        Stepping(w, b) \/ <<w, b>> \in adrift
                 PROVE  "draining" \in {webState[v], webState[w]}
      BY Zenon DEF StepsOverlapOnlyInDrain
    <2>1. CASE Stepping(v, b) /\ Stepping(w, b)
      <3>1. pc[v][b] \in Driving /\ pc[w][b] \in Driving
        BY <2>1, Zenon DEF Stepping, At, Driving
      <3> QED
        BY <3>1, Zenon DEF TrackingInv, DriverHoldsLock
    <2>2. CASE <<v, b>> \in adrift \/ <<w, b>> \in adrift
      BY <2>2, Zenon DEF TrackingInv, AdriftOnlyInDrain
    <2> QED
      BY <2>1, <2>2, Zenon
  <1> QED
    BY <1>1, TrackingInvariant, PTL

(* A finished job build keeps its outcome: the only unguarded write is     *)
(* Finish, and the engine that reaches it works on a started build.        *)
THEOREM FinishesOnce == Spec => JobFinishesOnce
  <1>1. ASSUME TrackingInv, [Next]_vars, NEW b \in JobBuilds \ lost, status[b] \in Terminal
        PROVE  status'[b] = status[b]
    <2> b \in Builds /\ status[b] \notin {"absent", "pending", "started"}
      BY <1>1, Zenon DEF Builds, Terminal
    <2>0. TypeOK /\ WorkedOnIsStarted /\ DeferredAreChecks
      BY <1>1, Zenon DEF TrackingInv
    <2>1. ASSUME NEW c \in Builds, BuildRow(c) PROVE status'[b] = status[b]
      BY <2>0, <2>1, Zenon
      DEF BuildRow, Start, CreateCheckBuild, FinishPending, MarkAsAborted,
          NotifyAbort, NotifyFails, OrphanExpires, TypeOK
    <2>2. ASSUME NEW w \in Webs, Web(w) PROVE status' = status
      BY <2>2, Zenon
      DEF Web, ListenerBreaks, ListenerReconnects, TrackerRun, SessionBreaks, Drain,
          Exit, Crash, Boot, ProcessGone
    <2>3. ASSUME NEW w \in Webs, NEW c \in Builds, Tracking(w, c) PROVE status'[b] = status[b]
      <3>1. CASE Finish(w, c)
        <4>1. c \in JobBuilds \ lost => status[c] = "started"
          BY <2>0, <3>1, Zenon DEF Finish, At, WorkedOnIsStarted, Working
        <4>2. c # b
          BY <4>1, Zenon
        <4> QED
          BY <2>0, <3>1, <4>2, Zenon DEF Finish, TypeOK
      <3>2. CASE FinalizeOrphanedCheck(w, c)
        <4>1. c # b
          BY <2>0, <3>2, BuildsAreOneKind, Zenon DEF FinalizeOrphanedCheck, DeferredAreChecks
        <4> QED
          BY <2>0, <3>2, <4>1, Zenon DEF FinalizeOrphanedCheck, TypeOK
      <3> QED
        BY <2>3, <3>1, <3>2, Zenon
        DEF Tracking, HandleNotification, TrackBuild, Untrack, AcquireTrackingLock,
            ReleaseTrackingLock, Reload, Prepare, AbortSignal, AbortWatcher, StepReturns,
            AdriftReturns, RunDone, RunReleased, Cleanup
    <2> QED
      BY <1>1, <2>1, <2>2, <2>3, Zenon DEF Next, vars
  <1>2. TrackingInv /\ [Next]_vars
        => [\A b \in JobBuilds \ lost : status[b] \in Terminal => status'[b] = status[b]]_vars
    BY <1>1, Zenon
  <1> QED
    BY <1>2, TrackingInvariant, PTL DEF Spec, JobFinishesOnce

----------------------------------------------------------------------------

(* The contract of a job build.                                            *)

(* What the contract of a build sees of a step that leaves the webs and    *)
(* what they remember of the build alone.                                  *)
LEMMA ViewUnchanged ==
    ASSUME NEW b \in JobBuilds, status'[b] = status[b], b \in aborted' <=> b \in aborted,
           b \in lost' <=> b \in lost,
           \A w \in Webs :
               /\ pc'[w][b] = pc[w][b] /\ result'[w][b] = result[w][b]
               /\ <<w, b>> \in adrift' <=> <<w, b>> \in adrift
               /\ webState'[w] = "draining" <=> webState[w] = "draining"
    PROVE  UNCHANGED Contract(b)!contract
  <1>1. Drivers(b)' = Drivers(b)
    BY Zenon DEF Drivers
  <1>2. Executors(b)' = Executors(b)
    BY Zenon DEF Executors, Stepping, At
  <1>3. [w \in Webs |-> result'[w][b]] = [w \in Webs |-> result[w][b]]
    BY Zenon
  <1>4. {w \in Webs : webState'[w] = "draining"} = {w \in Webs : webState[w] = "draining"}
    BY Zenon
  <1> QED
    BY <1>1, <1>2, <1>3, <1>4 DEF Contract!contract

(* What the contract does not show may change. *)
LEMMA Unseen ==
    ASSUME NEW b \in JobBuilds, UNCHANGED <<status, aborted, pc, result, adrift, webState, lost>>
    PROVE  UNCHANGED Contract(b)!contract
  BY ViewUnchanged, Zenon

(* A web that moves on in Run changes nothing for others: who drives is    *)
(* the same if it stays on its side of the lock, who executes if it        *)
(* neither begins nor ends a plan.                                         *)
LEMMA MovesOn ==
    ASSUME TypeOK, NEW b \in JobBuilds, NEW w \in Webs, NEW place, Goto(w, b, place),
           place \in Driving <=> pc[w][b] \in Driving
    PROVE  Drivers(b)' = Drivers(b)
  <1> b \in Builds
    BY Zenon DEF Builds
  <1>1. \A v \in Webs : pc'[v][b] = IF v = w THEN place ELSE pc[v][b]
    BY Goes
  <1> QED
    BY <1>1, Zenon DEF Drivers

(* Nobody begins or ends an execution with a web that executes nothing. *)
LEMMA ExecutesNothing ==
    ASSUME TypeOK, NEW b \in JobBuilds, NEW w \in Webs, NEW place, Goto(w, b, place),
           UNCHANGED adrift, ~Stepping(w, b), ~Stepping(w, b)',
           \A v \in Webs : v # w => result'[v][b] = result[v][b]
    PROVE  Executors(b)' = Executors(b)
  <1> b \in Builds
    BY Zenon DEF Builds
  <1>1. \A v \in Webs : v # w => pc'[v][b] = pc[v][b]
    BY Goes
  <1>2. \A v \in Webs : Stepping(v, b)' <=> Stepping(v, b)
    BY <1>1, Zenon DEF Stepping, At
  <1> QED
    BY <1>2, Zenon DEF Executors

(* The places of Run in which no plan is executed. *)
LEMMA Passes ==
    ASSUME TypeOK, NEW b \in JobBuilds, NEW w \in Webs, NEW place, Goto(w, b, place),
           place \in Driving <=> pc[w][b] \in Driving,
           ~Stepping(w, b), place # "run",
           UNCHANGED <<status, aborted, result, adrift, webState, lost>>
    PROVE  UNCHANGED Contract(b)!contract
  <1>1. Drivers(b)' = Drivers(b)
    BY MovesOn, Zenon
  <1>2. pc'[w][b] = place
    BY Goes DEF Builds
  <1>3. Executors(b)' = Executors(b)
    BY <1>2, ExecutesNothing, Zenon DEF Stepping, At
  <1> QED
    BY <1>1, <1>3, Zenon DEF Contract!contract

(* Whoever else executes a step of a build that a web drives was left      *)
(* behind by a drain.                                                      *)
LEMMA OthersLeave ==
    ASSUME TrackingInv, NEW b \in JobBuilds, b \notin lost, NEW w \in Webs,
           pc[w][b] \in Driving, ~Stepping(w, b)
    PROVE  /\ Drivers(b) = {w}
           /\ Executors(b) \subseteq {v \in Webs : webState[v] = "draining"}
  <1> b \in Builds
    BY Zenon DEF Builds
  <1>1. \A v \in Webs : pc[v][b] \in Driving => v = w
    BY Zenon DEF TrackingInv, DriverHoldsLock
  <1>2. \A v \in Webs : Stepping(v, b) => v = w
    BY <1>1, Zenon DEF Stepping, At, Driving
  <1>3. \A v \in Webs : <<v, b>> \in adrift => webState[v] = "draining"
    BY Zenon DEF TrackingInv, AdriftOnlyInDrain
  <1> QED
    BY <1>1, <1>2, <1>3, Zenon DEF Drivers, Executors

(* The row of the build.                                                   *)
LEMMA RowKeeps ==
    ASSUME TypeOK, NEW b \in JobBuilds, NEW c \in Builds, BuildRow(c)
    PROVE  [Contract(b)!Next]_(Contract(b)!contract)
  <1> b \in Builds /\ b \notin CheckBuilds
    BY BuildsAreOneKind, Zenon DEF Builds
  <1>1. UNCHANGED <<pc, result, adrift, webState, lost>>
    BY Zenon DEF BuildRow, Start, CreateCheckBuild, FinishPending, MarkAsAborted, NotifyAbort,
           NotifyFails, OrphanExpires
  <1>2. UNCHANGED <<Drivers(b), Executors(b)>>
    BY <1>1, Zenon DEF Drivers, Executors, Stepping, At
  <1>3. CASE status'[b] = status[b] /\ (b \in aborted' <=> b \in aborted)
    BY <1>1, <1>3, ViewUnchanged, Zenon
  <1>4. CASE c = b /\ Start(c)
    <2>1. Contract(b)!Start
      BY <1>1, <1>2, <1>4, Zenon DEF Start, TypeOK, Contract!Start
    <2> QED
      BY <2>1, Zenon DEF Contract!Next
  <1>5. CASE c = b /\ FinishPending(c)
    <2>1. Contract(b)!Refuse
      BY <1>1, <1>2, <1>5, Zenon DEF FinishPending, TypeOK, Contract!Refuse
    <2> QED
      BY <2>1, Zenon DEF Contract!Next
  <1>6. CASE c = b /\ MarkAsAborted(c)
    <2>1. Contract(b)!RequestAbort
      BY <1>1, <1>2, <1>6, Zenon DEF MarkAsAborted, TypeOK, Contract!RequestAbort
    <2> QED
      BY <2>1, Zenon DEF Contract!Next
  <1>7. CASE c # b /\ (Start(c) \/ FinishPending(c) \/ MarkAsAborted(c))
    BY <1>3, <1>7, Zenon DEF Start, FinishPending, MarkAsAborted, TypeOK
  <1>8. CASE CreateCheckBuild(c)
    BY <1>3, <1>8, Zenon DEF CreateCheckBuild, TypeOK
  <1> QED
    BY <1>3, <1>4, <1>5, <1>6, <1>7, <1>8, Zenon DEF BuildRow, NotifyAbort, NotifyFails, OrphanExpires

(* A process that is gone drives and executes nothing.                     *)
LEMMA GoneVanishes ==
    ASSUME TypeOK, NEW b \in JobBuilds, NEW w \in Webs, ProcessGone(w)
    PROVE  Contract(b)!Vanish(w)
  <1> b \in Builds
    BY Zenon DEF Builds
  <1>1. \A v \in Webs : pc'[v][b] = IF v = w THEN "idle" ELSE pc[v][b]
    BY Zenon DEF ProcessGone, TypeOK
  <1>2. \A v \in Webs : result'[v][b] = IF v = w THEN "none" ELSE result[v][b]
    BY Zenon DEF ProcessGone, TypeOK
  <1>3. \A v \in Webs : <<v, b>> \in adrift' <=> v # w /\ <<v, b>> \in adrift
    BY Zenon DEF ProcessGone
  <1>4. \A v \in Webs : webState'[v] = IF v = w THEN "down" ELSE webState[v]
    BY Zenon DEF ProcessGone, TypeOK
  <1>5. Drivers(b)' = Drivers(b) \ {w}
    BY <1>1, Zenon DEF Drivers, Driving
  <1>6. Executors(b)' = Executors(b) \ {w}
    BY <1>1, <1>2, <1>3, Zenon DEF Executors, Stepping, At
  <1>7. {v \in Webs : webState'[v] = "draining"} = {v \in Webs : webState[v] = "draining"} \ {w}
    BY <1>4, Zenon
  <1>8. [v \in Webs |-> result'[v][b]] = [[v \in Webs |-> result[v][b]] EXCEPT ![w] = "none"]
    BY <1>2, Zenon
  <1>9. UNCHANGED <<status, aborted, lost>>
    BY Zenon DEF ProcessGone
  <1> QED
    BY <1>5, <1>6, <1>7, <1>8, <1>9, Zenon DEF Contract!Vanish

(* What happens to a web as a whole.                                       *)
LEMMA WebKeeps ==
    ASSUME TrackingInv, NEW b \in JobBuilds, NEW w \in Webs, Web(w)
    PROVE  [Contract(b)!Next]_(Contract(b)!contract)
  <1> b \in Builds /\ TypeOK
    BY Zenon DEF Builds, TrackingInv
  <1>1. CASE ListenerBreaks(w) \/ ListenerReconnects(w) \/ TrackerRun(w)
    BY <1>1, Unseen, Zenon DEF ListenerBreaks, ListenerReconnects, TrackerRun
  <1>2. CASE SessionBreaks(w)
    <2>1. UNCHANGED <<status, aborted, pc, result, adrift, webState>>
      BY <1>2, Zenon DEF SessionBreaks
    <2>2. CASE lockHolder[b] = w
      <3>1. w \in Drivers(b)
        BY <2>2, Zenon DEF TrackingInv, HolderDrives, Drivers
      <3>2. b \in lost'
        BY <1>2, <2>2, Zenon DEF SessionBreaks
      <3>3. UNCHANGED <<Drivers(b), Executors(b)>>
        BY <2>1, Zenon DEF Drivers, Executors, Stepping, At
      <3>4. Contract(b)!Unlock
        BY <2>1, <3>1, <3>2, <3>3, Zenon DEF Contract!Unlock
      <3> QED
        BY <3>4, Zenon DEF Contract!Next
    <2>3. CASE lockHolder[b] # w
      <3>1. b \in lost' <=> b \in lost
        BY <1>2, <2>3, Zenon DEF SessionBreaks
      <3> QED
        BY <2>1, <3>1, ViewUnchanged, Zenon
    <2> QED
      BY <2>2, <2>3, Zenon
  <1>3. CASE Drain(w)
    <2>1. UNCHANGED <<status, aborted, pc, result, adrift, lost>>
      BY <1>3, Zenon DEF Drain
    <2>2. \A v \in Webs : webState'[v] = IF v = w THEN "draining" ELSE webState[v]
      BY <1>3, Zenon DEF Drain, TypeOK
    <2>3. {v \in Webs : webState'[v] = "draining"} = {v \in Webs : webState[v] = "draining"} \cup {w}
      BY <2>2, Zenon
    <2>4. UNCHANGED <<Drivers(b), Executors(b)>>
      BY <2>1, Zenon DEF Drivers, Executors, Stepping, At
    <2>5. Contract(b)!Leave(w)
      BY <2>1, <2>3, <2>4, Zenon DEF Contract!Leave
    <2> QED
      BY <2>5, Zenon DEF Contract!Next
  <1>4. CASE Exit(w) \/ Crash(w)
    <2>1. Contract(b)!Vanish(w)
      BY <1>4, GoneVanishes, Zenon DEF Exit, Crash
    <2> QED
      BY <2>1, Zenon DEF Contract!Next
  <1>5. CASE Boot(w)
    <2>1. \A v \in Webs : webState'[v] = "draining" <=> webState[v] = "draining"
      BY <1>5, Zenon DEF Boot, TypeOK
    <2> QED
      BY <1>5, <2>1, ViewUnchanged, Zenon DEF Boot
  <1> QED
    BY <1>1, <1>2, <1>3, <1>4, <1>5, Zenon DEF Web

(* A web that works on another build. *)
LEMMA OtherKeeps ==
    ASSUME TypeOK, NEW b \in JobBuilds, NEW c \in Builds, c # b, NEW w \in Webs, Tracking(w, c)
    PROVE  UNCHANGED Contract(b)!contract
  <1> b \in Builds
    BY Zenon DEF Builds
  <1>1. \A v \in Webs : /\ pc'[v][b] = pc[v][b] /\ result'[v][b] = result[v][b]
                        /\ <<v, b>> \in adrift' <=> <<v, b>> \in adrift
    BY TrackingFrame, ZenonT(30)
  <1>2. UNCHANGED <<aborted, lost, webState>>
    BY TrackingWrites, Zenon
  <1>3. status'[b] = status[b]
    BY TrackingFrame, Zenon
  <1> QED
    BY <1>1, <1>2, <1>3, ViewUnchanged, Zenon

(* The lock: who acquires it finds no driver, who releases it leaves a     *)
(* step behind only if it drains.                                          *)
LEMMA LockKeeps ==
    ASSUME TrackingInv, NEW b \in JobBuilds, NEW w \in Webs,
           AcquireTrackingLock(w, b) \/ ReleaseTrackingLock(w, b)
    PROVE  [Contract(b)!Next]_(Contract(b)!contract)
  <1> b \in Builds /\ TypeOK
    BY Zenon DEF Builds, TrackingInv
  <1>1. UNCHANGED <<status, aborted, result, adrift, webState, lost>>
    BY Zenon DEF AcquireTrackingLock, ReleaseTrackingLock
  <1>2. pc[w][b] \in {"acquire", "release"} /\ result[w][b] = "none"
    BY Zenon DEF AcquireTrackingLock, ReleaseTrackingLock, At, TrackingInv, ResultOfThisDrive
  <1>3. ASSUME NEW place, Goto(w, b, place), place \in {"reload", "untrack"}
        PROVE  Executors(b)' = Executors(b)
    <2>1. pc'[w][b] = place
      BY <1>3, Goes
    <2> QED
      BY <1>1, <1>2, <1>3, <2>1, ExecutesNothing, Zenon DEF Stepping, At
  <1>4. CASE AcquireTrackingLock(w, b) /\ Goto(w, b, "untrack")
    <2>1. pc[w][b] = "acquire"
      BY <1>4, Zenon DEF AcquireTrackingLock, At
    <2> QED
      BY <1>1, <1>4, <2>1, Passes, Zenon DEF Stepping, At, Driving
  <1>5. CASE AcquireTrackingLock(w, b) /\ lockHolder[b] = Free /\ Goto(w, b, "reload")
    <2>1. status[b] # "pending"
      BY <1>5, Zenon DEF AcquireTrackingLock, At, TrackingInv, TrackedWasStarted
    <2>2. b \notin lost => Drivers(b) = {}
      BY <1>5, HoldersDistinct, Zenon DEF TrackingInv, DriverHoldsLock, Drivers
    <2>3. \A v \in Webs : pc'[v][b] = IF v = w THEN "reload" ELSE pc[v][b]
      BY <1>5, Goes
    <2>4. Drivers(b)' = Drivers(b) \cup {w}
      BY <2>3, Zenon DEF Drivers, Driving
    <2>5. Contract(b)!Take(w)
      BY <1>1, <1>2, <1>3, <1>5, <2>1, <2>2, <2>4, Zenon DEF Contract!Take
    <2> QED
      BY <2>5, Zenon DEF Contract!Next
  <1>6. CASE ReleaseTrackingLock(w, b)
    <2>1. w \in Drivers(b)
      BY <1>6, Zenon DEF ReleaseTrackingLock, At, Drivers, Driving
    <2>2. w \in Executors(b) => webState[w] = "draining"
      BY <1>2, Zenon DEF Executors, Stepping, At, TrackingInv, AdriftOnlyInDrain
    <2>3. Goto(w, b, "untrack")
      BY <1>6, Zenon DEF ReleaseTrackingLock
    <2>4. \A v \in Webs : pc'[v][b] = IF v = w THEN "untrack" ELSE pc[v][b]
      BY <2>3, Goes
    <2>5. Drivers(b)' = Drivers(b) \ {w}
      BY <2>4, Zenon DEF Drivers, Driving
    <2>6. Contract(b)!Yield(w)
      BY <1>1, <1>2, <1>3, <2>1, <2>2, <2>3, <2>5, Zenon DEF Contract!Yield
    <2> QED
      BY <2>6, Zenon DEF Contract!Next
  <1> QED
    BY <1>4, <1>5, <1>6, Zenon DEF AcquireTrackingLock

(* The execution of the plan. *)
LEMMA ExecutionKeeps ==
    ASSUME TrackingInv, NEW b \in JobBuilds, NEW w \in Webs,
           \/ AbortSignal(w, b) \/ RunReleased(w, b) \/ AdriftReturns(w, b)
           \/ \E o \in Outcomes : StepReturns(w, b, o)
    PROVE  [Contract(b)!Next]_(Contract(b)!contract)
  <1> b \in Builds /\ b \notin CheckBuilds /\ TypeOK
    BY BuildsAreOneKind, Zenon DEF Builds, TrackingInv
  <1>1. CASE AbortSignal(w, b) /\ Goto(w, b, "run")
    <2>1. UNCHANGED <<status, aborted, result, adrift, webState, lost>>
      BY <1>1, Zenon DEF AbortSignal
    <2>2. /\ pc[w][b] = "listen" /\ result[w][b] = "none" /\ ~Stepping(w, b)
          /\ pc[w][b] \in Driving /\ pc[w][b] \in Working
      BY <1>1, Zenon DEF AbortSignal, At, TrackingInv, ResultOfThisDrive, Stepping, Driving, Working
    <2>3. b \notin lost => /\ status[b] = "started"
                           /\ Executors(b) \subseteq {v \in Webs : webState[v] = "draining"}
      BY <2>2, OthersLeave, Zenon DEF TrackingInv, WorkedOnIsStarted
    <2>4. Drivers(b)' = Drivers(b) /\ w \in Drivers(b)
      BY <1>1, <2>2, MovesOn, Zenon DEF Driving, Drivers
    <2>5. \A v \in Webs : pc'[v][b] = IF v = w THEN "run" ELSE pc[v][b]
      BY <1>1, Goes
    <2>6. Executors(b)' = Executors(b) \cup {w}
      BY <2>1, <2>2, <2>5, Zenon DEF Executors, Stepping, At
    <2>7. Contract(b)!Execute(w)
      BY <2>1, <2>2, <2>3, <2>4, <2>6, Zenon DEF Contract!Execute, Contract!Alone
    <2> QED
      BY <2>7, Zenon DEF Contract!Next
  <1>2. CASE AbortSignal(w, b) /\ Goto(w, b, "cleanup")
    <2>1. UNCHANGED <<status, aborted, result, adrift, webState, lost>> /\ pc[w][b] = "listen"
      BY <1>2, Zenon DEF AbortSignal, At
    <2> QED
      BY <1>2, <2>1, Passes, Zenon DEF Stepping, At, Driving
  <1>3. ASSUME NEW o \in Outcomes, StepReturns(w, b, o)
        PROVE  [Contract(b)!Next]_(Contract(b)!contract)
    <2>1. UNCHANGED <<status, aborted, pc, adrift, webState, lost>>
      BY <1>3, Zenon DEF StepReturns
    <2>2. pc[w][b] = "run" /\ result[w][b] = "none"
      BY <1>3, Zenon DEF StepReturns, Stepping, At
    <2>3. \A v \in Webs : result'[v][b] = IF v = w THEN o ELSE result[v][b]
      BY <1>3, Typed, Zenon DEF StepReturns
    <2>4. [v \in Webs |-> result'[v][b]] = [[v \in Webs |-> result[v][b]] EXCEPT ![w] = o]
      BY <2>3, Zenon
    <2>5. Drivers(b)' = Drivers(b) /\ w \in Drivers(b) /\ w \in Executors(b)
      BY <2>1, <2>2, Zenon DEF Drivers, Executors, Driving, Stepping, At
    <2>6. o = "canceled" => b \in aborted
      BY <1>3, Zenon DEF StepReturns, TrackingInv, CancelWasAsked
    <2>7. o # "none" /\ o \in Contract(b)!Reports
      BY Zenon DEF Outcomes, Contract!Reports
    <2>8. \A v \in Webs : v \in Executors(b)' <=>
             v \in Executors(b) /\ (v = w => <<w, b>> \in adrift)
      BY <2>1, <2>3, <2>7, Zenon DEF Executors, Stepping, At
    <2>9. Executors(b)' \in {Executors(b) \ {w}, Executors(b)}
      <3>1. Executors(b) \subseteq Webs /\ Executors(b)' \subseteq Webs
        BY Zenon DEF Executors
      <3> QED
        BY <2>8, <3>1, Zenon
    <2>10. w \in Executors(b)' => webState[w] = "draining"
      BY <2>8, Zenon DEF TrackingInv, AdriftOnlyInDrain
    <2>11. Contract(b)!Report(w)
      BY <2>1, <2>4, <2>5, <2>6, <2>7, <2>9, <2>10, Zenon DEF Contract!Report
    <2> QED
      BY <2>11, Zenon DEF Contract!Next
  <1>4. CASE AdriftReturns(w, b)
    <2>1. UNCHANGED <<status, aborted, pc, result, webState, lost>> /\ <<w, b>> \in adrift
      BY <1>4, Zenon DEF AdriftReturns
    <2>2. \A v \in Webs : <<v, b>> \in adrift' <=> v # w /\ <<v, b>> \in adrift
      BY <1>4, Zenon DEF AdriftReturns
    <2>3. Drivers(b)' = Drivers(b)
      BY <2>1, Zenon DEF Drivers
    <2>4. CASE Stepping(w, b)
      <3>1. Executors(b)' = Executors(b)
        BY <2>1, <2>2, <2>4, Zenon DEF Executors, Stepping, At
      <3> QED
        BY <2>1, <2>3, <3>1, Zenon DEF Contract!contract
    <2>5. CASE ~Stepping(w, b)
      <3>1. Executors(b)' = Executors(b) \ {w}
        BY <2>1, <2>2, <2>5, Zenon DEF Executors, Stepping, At
      <3>2. w \in Executors(b) /\ webState[w] = "draining"
        BY <2>1, Zenon DEF Executors, TrackingInv, AdriftOnlyInDrain
      <3>3. Contract(b)!Stop(w)
        BY <2>1, <2>3, <3>1, <3>2, Zenon DEF Contract!Stop
      <3> QED
        BY <3>3, Zenon DEF Contract!Next
    <2> QED
      BY <2>4, <2>5, Zenon
  <1>5. CASE RunReleased(w, b)
    <2>1. UNCHANGED <<status, aborted, result, webState, lost>> /\ Goto(w, b, "cleanup")
      BY <1>5, Zenon DEF RunReleased
    <2>2. \A v \in Webs : <<v, b>> \in adrift' <=> <<v, b>> \in adrift \/ (v = w /\ Stepping(w, b))
      BY <1>5, Zenon DEF RunReleased
    <2>3. \A v \in Webs : pc'[v][b] = IF v = w THEN "cleanup" ELSE pc[v][b]
      BY <2>1, Goes
    <2>4. Executors(b)' = Executors(b)
      BY <2>1, <2>2, <2>3, Zenon DEF Executors, Stepping, At
    <2>5. Drivers(b)' = Drivers(b)
      BY <1>5, <2>1, MovesOn, Zenon DEF RunReleased, At, Driving
    <2> QED
      BY <2>1, <2>4, <2>5, Zenon DEF Contract!contract
  <1> QED
    BY <1>1, <1>2, <1>3, <1>4, <1>5, Zenon DEF AbortSignal

(* The end of a drive: the outcome, which is the result of this drive, and *)
(* the clean-up that forgets the result.                                   *)
LEMMA EndKeeps ==
    ASSUME TrackingInv, NEW b \in JobBuilds, NEW w \in Webs, Finish(w, b) \/ Cleanup(w, b)
    PROVE  [Contract(b)!Next]_(Contract(b)!contract)
  <1> b \in Builds /\ TypeOK
    BY Zenon DEF Builds, TrackingInv
  <1>1. CASE Finish(w, b)
    <2>1. UNCHANGED <<aborted, result, adrift, webState, lost>>
      BY <1>1, Zenon DEF Finish
    <2>2. /\ pc[w][b] \in Driving /\ pc[w][b] \in Working /\ ~Stepping(w, b)
          /\ pc[w][b] \in {"reject", "finish"}
      BY <1>1, Zenon DEF Finish, At, Driving, Working, Stepping
    <2>3. PICK place \in {"release", "cleanup"} : Goto(w, b, place)
      BY <1>1, Zenon DEF Finish
    <2>4. pc'[w][b] = place /\ place \in Driving /\ place # "run"
      BY <2>3, Goes DEF Driving
    <2>5. Drivers(b)' = Drivers(b) /\ Executors(b)' = Executors(b)
      BY <2>1, <2>2, <2>3, <2>4, MovesOn, ExecutesNothing, Zenon DEF Stepping, At
    <2>6. CASE UNCHANGED status
      BY <2>1, <2>5, <2>6, Zenon DEF Contract!contract
    <2>7. CASE status' = [status EXCEPT ![b] = FinalStatus(result[w][b])]
      <3>1. result[w][b] # "retriable"
        BY <2>2, Zenon DEF TrackingInv, ResultOfThisDrive
      <3>2. w \in Drivers(b)
        BY <2>2, Zenon DEF Drivers
      <3>3. b \notin lost =>
              /\ status[b] = "started" /\ Drivers(b) = {w}
              /\ Executors(b) \subseteq {v \in Webs : webState[v] = "draining"}
        BY <2>2, OthersLeave, Zenon DEF TrackingInv, WorkedOnIsStarted
      <3>4. status'[b] = FinalStatus(result[w][b])
        BY <2>7, Zenon DEF TypeOK
      <3>5. FinalStatus(result[w][b]) = Contract(b)!Outcome(result[w][b])
        BY Zenon DEF FinalStatus, Contract!Outcome
      <3>6. Contract(b)!Conclude(w)
        BY <2>1, <2>5, <3>1, <3>2, <3>3, <3>4, <3>5, Zenon DEF Contract!Conclude, Contract!Alone
      <3> QED
        BY <3>6, Zenon DEF Contract!Next
    <2> QED
      BY <1>1, <2>6, <2>7, Zenon DEF Finish
  <1>2. CASE Cleanup(w, b)
    <2>1. UNCHANGED <<status, aborted, adrift, webState, lost>> /\ Goto(w, b, "release")
      BY <1>2, Zenon DEF Cleanup
    <2>2. \A v \in Webs : result'[v][b] = IF v = w THEN "none" ELSE result[v][b]
      BY <1>2, Typed, Zenon DEF Cleanup
    <2>3. [v \in Webs |-> result'[v][b]] = [[v \in Webs |-> result[v][b]] EXCEPT ![w] = "none"]
      BY <2>2, Zenon
    <2>4. pc[w][b] = "cleanup" /\ pc'[w][b] = "release"
      BY <1>2, <2>1, Goes DEF Cleanup, At
    <2>5. Drivers(b)' = Drivers(b) /\ w \in Drivers(b)
      BY <2>1, <2>4, MovesOn, Zenon DEF Driving, Drivers
    <2>6. Executors(b)' = Executors(b)
      BY <2>1, <2>2, <2>4, ExecutesNothing, Zenon DEF Stepping, At
    <2>7. Contract(b)!Forget(w)
      BY <2>1, <2>3, <2>5, <2>6, Zenon DEF Contract!Forget
    <2> QED
      BY <2>7, Zenon DEF Contract!Next
  <1> QED
    BY <1>1, <1>2, Zenon

(* Every other step of a web that tracks the build. *)
LEMMA RestKeeps ==
    ASSUME TrackingInv, NEW b \in JobBuilds, NEW w \in Webs,
           \/ HandleNotification(w, b) \/ TrackBuild(w, b) \/ Untrack(w, b)
           \/ FinalizeOrphanedCheck(w, b) \/ Reload(w, b) \/ Prepare(w, b)
           \/ AbortWatcher(w, b) \/ RunDone(w, b)
    PROVE  UNCHANGED Contract(b)!contract
  <1> b \in Builds /\ b \notin CheckBuilds /\ TypeOK
    BY BuildsAreOneKind, Zenon DEF Builds, TrackingInv
  <1>1. CASE HandleNotification(w, b)
    BY <1>1, Unseen, Zenon DEF HandleNotification
  <1>2. CASE AbortWatcher(w, b)
    BY <1>2, Unseen, Zenon DEF AbortWatcher
  <1>3. CASE FinalizeOrphanedCheck(w, b)
    BY <1>3, Zenon DEF FinalizeOrphanedCheck, TrackingInv, DeferredAreChecks
  <1>4. CASE TrackBuild(w, b) /\ UNCHANGED pc
    BY <1>4, Unseen, Zenon DEF TrackBuild
  <1>5. CASE TrackBuild(w, b) /\ Goto(w, b, "acquire") /\ At(w, b, "idle")
    <2>1. UNCHANGED <<status, aborted, result, adrift, webState, lost>>
      BY <1>5, Zenon DEF TrackBuild
    <2> QED
      BY <1>5, <2>1, Passes, Zenon DEF Stepping, At, Driving
  <1>6. CASE Untrack(w, b)
    <2>1. pc[w][b] = "untrack" /\ Goto(w, b, "idle") /\ UNCHANGED <<status, aborted, result, adrift, webState, lost>>
      BY <1>6, Zenon DEF Untrack, At
    <2> QED
      BY <2>1, Passes, Zenon DEF Stepping, At, Driving
  <1>7. CASE Reload(w, b)
    <2>1. pc[w][b] = "reload" /\ UNCHANGED <<status, aborted, result, adrift, webState, lost>>
      BY <1>7, Zenon DEF Reload, At
    <2>2. PICK place \in {"prepare", "release"} : Goto(w, b, place)
      BY <1>7, Zenon DEF Reload
    <2> QED
      BY <2>1, <2>2, Passes, Zenon DEF Stepping, At, Driving
  <1>8. CASE Prepare(w, b)
    <2>1. pc[w][b] = "prepare" /\ UNCHANGED <<status, aborted, result, adrift, webState, lost>>
      BY <1>8, Zenon DEF Prepare, At
    <2>2. PICK place \in {"reject", "finish", "listen"} : Goto(w, b, place)
      BY <1>8, Zenon DEF Prepare
    <2> QED
      BY <2>1, <2>2, Passes, Zenon DEF Stepping, At, Driving
  <1>9. CASE RunDone(w, b)
    <2>1. pc[w][b] = "run" /\ result[w][b] # "none" /\ UNCHANGED <<status, aborted, result, adrift, webState, lost>>
      BY <1>9, Zenon DEF RunDone, At
    <2>2. PICK place \in {"cleanup", "finish"} : Goto(w, b, place)
      BY <1>9, Zenon DEF RunDone
    <2> QED
      BY <2>1, <2>2, Passes, Zenon DEF Stepping, At, Driving
  <1> QED
    BY <1>1, <1>2, <1>3, <1>4, <1>5, <1>6, <1>7, <1>8, <1>9, Zenon DEF TrackBuild

(* Every job build keeps its contract: seen from outside, all the trackers *)
(* and engines of all the webs are one driver at a time and one outcome.   *)
LEMMA ContractStep ==
    ASSUME TrackingInv, [Next]_vars, NEW b \in JobBuilds
    PROVE  [Contract(b)!Next]_(Contract(b)!contract)
  <1> TypeOK
    BY Zenon DEF TrackingInv
  <1>1. CASE UNCHANGED vars
    BY <1>1, Unseen, Zenon DEF vars
  <1>2. ASSUME NEW c \in Builds, BuildRow(c) PROVE [Contract(b)!Next]_(Contract(b)!contract)
    BY <1>2, RowKeeps, Zenon
  <1>3. ASSUME NEW w \in Webs, Web(w) PROVE [Contract(b)!Next]_(Contract(b)!contract)
    BY <1>3, WebKeeps, Zenon
  <1>4. ASSUME NEW w \in Webs, NEW c \in Builds, Tracking(w, c)
        PROVE  [Contract(b)!Next]_(Contract(b)!contract)
    <2>1. CASE c # b
      BY <1>4, <2>1, OtherKeeps, Zenon
    <2>2. CASE c = b
      BY <1>4, <2>2, LockKeeps, ExecutionKeeps, EndKeeps, RestKeeps, Zenon DEF Tracking
    <2> QED
      BY <2>1, <2>2, Zenon
  <1> QED
    BY <1>1, <1>2, <1>3, <1>4, Zenon DEF Next

(* Every build begins as its contract says.                                *)
LEMMA ContractInit ==
    ASSUME Init, NEW b \in JobBuilds
    PROVE  Contract(b)!Init
  <1>1. status[b] = "pending" /\ b \notin aborted /\ b \notin lost
    BY Zenon DEF Init, Builds
  <1>2. \A w \in Webs : /\ pc[w][b] = "idle" /\ result[w][b] = "none"
                        /\ <<w, b>> \notin adrift /\ webState[w] = "up"
    BY Zenon DEF Init, Builds
  <1>3. Drivers(b) = {} /\ Executors(b) = {}
    BY <1>2, Zenon DEF Drivers, Executors, Driving, Stepping, At
  <1>4. [w \in Webs |-> result[w][b]] = [w \in Webs |-> "none"]
    BY <1>2, Zenon
  <1>5. (b \in aborted) = FALSE /\ (b \in lost) = FALSE
    BY <1>1
  <1> QED
    BY <1>1, <1>2, <1>3, <1>4, <1>5, Zenon DEF Contract!Init

(* BuildTracking implements BuildContract for every job build: one web at  *)
(* a time drives it, and its one outcome is the result its plan reported   *)
(* in this drive, whatever trackers, engines, drains and crashes do.       *)
THEOREM BuildContractKept == Spec => KeepsBuildContract
  <1>1. Init => \A b \in JobBuilds : Contract(b)!Init
    BY ContractInit, Zenon
  <1>2. TrackingInv /\ [Next]_vars
        => [\A b \in JobBuilds : [Contract(b)!Next]_(Contract(b)!contract)]_vars
    BY ContractStep, Zenon
  <1> QED
    BY <1>1, <1>2, TrackingInvariant, PTL DEF Spec, KeepsBuildContract

(* The same for one build: its behaviour is one of the contract's.         *)
THEOREM EachBuildKeepsContract ==
    ASSUME NEW b \in JobBuilds
    PROVE  Spec => Contract(b)!Spec
  <1>1. Init => Contract(b)!Init
    BY ContractInit, Zenon
  <1>2. TrackingInv /\ [Next]_vars => [Contract(b)!Next]_(Contract(b)!contract)
    BY ContractStep, Zenon
  <1> QED
    BY <1>1, <1>2, TrackingInvariant, PTL DEF Spec, Contract!Spec

=============================================================================

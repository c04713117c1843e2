--------------------------- MODULE BuildTracking ---------------------------
(***************************************************************************)
(* Who runs a build, and how it ends.                                      *)
(*                                                                         *)
(* Every web node scans the database for started builds (atc/builds,       *)
(* Tracker.Run), starts one goroutine per build (trackBuild), and the      *)
(* engine (atc/engine, engineBuild.Run) takes the build's PostgreSQL       *)
(* advisory lock (atc/db/lock), runs the plan, and records the outcome     *)
(* (db.build.Finish).  An abort reaches the engine through LISTEN/NOTIFY   *)
(* (atc/db/notifications_bus.go, listener.go).                             *)
(*                                                                         *)
(* A <<web, build>> pair is in one place of the code at a time: pc says    *)
(* which call of trackBuild / Run it performs next.  The goroutine that    *)
(* executes the plan and the abort watcher are threads of their own, so    *)
(* they have state of their own (result, adrift; watching, signalled).     *)
(***************************************************************************)
EXTENDS Naturals

CONSTANTS
    Webs,         \* web nodes (ATCs)
    JobBuilds,    \* builds of jobs, created pending, started by the scheduler
    CheckBuilds,  \* database check builds (name "check"), created started
    Free,         \* nobody holds the advisory lock
    Orphaned,     \* held by a database session whose client is gone
    Abortable,    \* the builds somebody may abort
    Faults,       \* the faults of the environment that may happen
    MaxDisruptions \* bound on drains, crashes and broken connections

Builds == JobBuilds \cup CheckBuilds

FaultKinds == {"db", "session", "listener"}

ASSUME BuildsAreOneKind == JobBuilds \cap CheckBuilds = {}
ASSUME AbortableAssumption == Abortable \subseteq Builds
ASSUME HoldersDistinct == Free \notin Webs /\ Orphaned \notin Webs /\ Free # Orphaned
ASSUME FaultsAssumption == Faults \subseteq FaultKinds
ASSUME MaxDisruptionsAssumption == MaxDisruptions \in Nat

VARIABLES
    \* the database
    status,      \* builds.status, "absent" before the row exists
    aborted,     \* builds.aborted: the set of builds marked as aborted
    lockHolder,  \* the session that holds the build tracking lock
    notifying,   \* MarkAsAborted committed, its NOTIFY not yet executed
    notices,     \* <<w, b>>: abort notification queued for the listener of w
    \* a web process
    webState,    \* "up", "draining" (engine.release closed) or "down"
    connected,   \* webs whose listener connection is established
    registered,  \* <<w, b>>: the lockRepo of w has the lock of b
    scanned,     \* <<w, b>>: GetAllStartedBuilds returned b, not yet tracked
    deferred,    \* <<w, b>>: the tracker's deferred Finish(Errored) is due
    \* one engineBuild.Run
    pc,          \* pc[w][b]: the next call of trackBuild / Run
    seenDone,    \* <<w, b>>: the goroutine's copy of the build is completed
    result,      \* result[w][b]: what state.Run returned, "none" before it does
    adrift,      \* <<w, b>>: a step goroutine is alive though its Run returned
    listening,   \* <<w, b>>: the abort NotifySignal is registered on the bus
    watching,    \* <<w, b>>: the abort watcher has not left its select
    signalled,   \* <<w, b>>: the abort NotifySignal has a pending wake-up
    cancelled,   \* <<w, b>>: the context of the plan is cancelled
    \* bookkeeping
    lost,        \* builds whose lock was lost while an engine held it
    disruptions  \* drains, crashes and broken connections so far

vars == <<status, aborted, lockHolder, notifying, notices, webState, connected,
          registered, scanned, deferred, pc, seenDone, result, adrift,
          listening, watching, signalled, cancelled, lost, disruptions>>

dbVars == <<status, aborted, lockHolder, notifying, notices>>
webVars == <<webState, connected, registered, scanned, deferred>>
runVars == <<seenDone, result, adrift, listening, watching, signalled, cancelled>>
bookVars == <<lost, disruptions>>

Terminal == {"succeeded", "failed", "errored", "aborted"}
Statuses == {"absent", "pending", "started"} \cup Terminal
Outcomes == {"succeeded", "failed", "errored", "retriable", "canceled"}
Places == {"idle", "acquire", "reload", "prepare", "reject", "listen", "run",
           "finish", "cleanup", "release", "untrack"}

\* The calls of Run between a successful Acquire and the deferred Release.
Driving == {"reload", "prepare", "reject", "listen", "run", "finish", "cleanup",
            "release"}

Pairs == Webs \X Builds
Alive(w) == webState[w] \in {"up", "draining"}
At(w, b, place) == pc[w][b] = place
Goto(w, b, place) == pc' = [pc EXCEPT ![w][b] = place]

Init ==
    /\ status = [b \in Builds |-> IF b \in JobBuilds THEN "pending" ELSE "absent"]
    /\ aborted = {}
    /\ lockHolder = [b \in Builds |-> Free]
    /\ notifying = {}
    /\ notices = {}
    /\ webState = [w \in Webs |-> "up"]
    /\ connected = Webs
    /\ registered = {}
    /\ scanned = {}
    /\ deferred = {}
    /\ pc = [w \in Webs |-> [b \in Builds |-> "idle"]]
    /\ seenDone = {}
    /\ result = [w \in Webs |-> [b \in Builds |-> "none"]]
    /\ adrift = {}
    /\ listening = {}
    /\ watching = {}
    /\ signalled = {}
    /\ cancelled = {}
    /\ lost = {}
    /\ disruptions = 0

----------------------------------------------------------------------------
(* The build row: atc/db/build.go                                          *)

\* Build.Start: UPDATE ... WHERE status = 'pending' AND aborted = false.
Start(b) ==
    /\ b \in JobBuilds
    /\ status[b] = "pending" /\ b \notin aborted
    /\ status' = [status EXCEPT ![b] = "started"]
    /\ UNCHANGED <<aborted, lockHolder, notifying, notices, webVars, pc, runVars, bookVars>>

\* resource.CreateBuild: a check build is inserted already started.
CreateCheckBuild(b) ==
    /\ b \in CheckBuilds
    /\ status[b] = "absent"
    /\ status' = [status EXCEPT ![b] = "started"]
    /\ UNCHANGED <<aborted, lockHolder, notifying, notices, webVars, pc, runVars, bookVars>>

\* tryStartNextPendingBuild ends a build that cannot start.  It is aborted when
\* the flag was set, or when the workflow run it executes is being cancelled; it
\* is errored when no plan can be made for it, even if the flag was set after
\* the scheduler had read the build.
FinishPending(b) ==
    /\ status[b] = "pending"
    /\ \E outcome \in {"aborted", "errored"} : status' = [status EXCEPT ![b] = outcome]
    /\ UNCHANGED <<aborted, lockHolder, notifying, notices, webVars, pc, runVars, bookVars>>

\* MarkAsAborted commits the flag first and notifies the channel afterwards.
MarkAsAborted(b) ==
    /\ b \in Abortable
    /\ status[b] # "absent"
    /\ aborted' = aborted \cup {b}
    /\ notifying' = notifying \cup {b}
    /\ UNCHANGED <<status, lockHolder, notices, webVars, pc, runVars, bookVars>>

\* Notify: the server queues it for the sessions that LISTEN to the channel.
NotifyAbort(b) ==
    /\ b \in notifying
    /\ notifying' = notifying \ {b}
    /\ notices' = notices \cup ((connected \X {b}) \cap listening)
    /\ UNCHANGED <<status, aborted, lockHolder, webVars, pc, runVars, bookVars>>

\* The NOTIFY statement fails; MarkAsAborted returns the error to its caller.
NotifyFails(b) ==
    /\ "db" \in Faults
    /\ b \in notifying
    /\ notifying' = notifying \ {b}
    /\ UNCHANGED <<status, aborted, lockHolder, notices, webVars, pc, runVars, bookVars>>

----------------------------------------------------------------------------
(* The notification bus of a web                                           *)

\* handleNotification: wake the signal registered for the channel, if any.
HandleNotification(w, b) ==
    /\ <<w, b>> \in notices
    /\ notices' = notices \ {<<w, b>>}
    /\ signalled' = signalled \cup ({<<w, b>>} \cap listening)
    /\ UNCHANGED <<status, aborted, lockHolder, notifying, webVars, pc, seenDone,
                   result, adrift, listening, watching, cancelled, bookVars>>

\* WaitForNotification fails: what was queued for the connection is gone.
ListenerBreaks(w) ==
    /\ "listener" \in Faults /\ disruptions < MaxDisruptions
    /\ Alive(w) /\ w \in connected
    /\ disruptions' = disruptions + 1
    /\ connected' = connected \ {w}
    /\ notices' = {p \in notices : p[1] # w}
    /\ UNCHANGED <<status, aborted, lockHolder, notifying, webState, registered,
                   scanned, deferred, pc, runVars, lost>>

\* listenerLoop reconnects and LISTENs to every channel again.  Nothing is sent
\* on the notification channel, so no signal is woken.
ListenerReconnects(w) ==
    /\ Alive(w) /\ w \notin connected
    /\ connected' = connected \cup {w}
    /\ UNCHANGED <<dbVars, webState, registered, scanned, deferred, pc, runVars, bookVars>>

----------------------------------------------------------------------------
(* The tracker: atc/builds/tracker.go                                      *)

\* Mutant: the scan forgets its WHERE status = 'started'.
TrackerRunAnyStatus(w) ==
    /\ webState[w] = "up"
    /\ \A b \in Builds : <<w, b>> \notin scanned
    /\ scanned' = scanned \cup ({w} \X {b \in Builds : status[b] \notin Terminal})
    /\ UNCHANGED <<dbVars, webState, connected, registered, deferred, pc, runVars, bookVars>>

\* Run: GetAllStartedBuilds.
TrackerRun(w) ==
    /\ webState[w] = "up"
    /\ \A b \in Builds : <<w, b>> \notin scanned
    /\ scanned' = scanned \cup ({w} \X {b \in Builds : status[b] = "started"})
    /\ UNCHANGED <<dbVars, webState, connected, registered, deferred, pc, runVars, bookVars>>

\* trackBuild: running.LoadOrStore, and the goroutine if the build is new.  The
\* copy of the build is the one the query returned: a started build.
TrackBuild(w, b) ==
    /\ Alive(w)
    /\ <<w, b>> \in scanned
    /\ scanned' = scanned \ {<<w, b>>}
    /\ IF At(w, b, "idle")
       THEN Goto(w, b, "acquire") /\ seenDone' = seenDone \ {<<w, b>>}
       ELSE UNCHANGED <<pc, seenDone>>
    /\ UNCHANGED <<dbVars, webState, connected, registered, deferred, result, adrift,
                   listening, watching, signalled, cancelled, bookVars>>

\* Run has returned: running.Delete, then the deferred function decides from the
\* goroutine's copy of the build whether a check build is left to finalize.
Untrack(w, b) ==
    /\ Alive(w)
    /\ At(w, b, "untrack")
    /\ Goto(w, b, "idle")
    /\ deferred' = IF b \in CheckBuilds /\ <<w, b>> \notin seenDone
                   THEN deferred \cup {<<w, b>>} ELSE deferred
    /\ UNCHANGED <<dbVars, webState, connected, registered, scanned, runVars, bookVars>>

\* build.Finish(Errored) in the deferred function.
FinalizeOrphanedCheck(w, b) ==
    /\ Alive(w)
    /\ <<w, b>> \in deferred
    /\ deferred' = deferred \ {<<w, b>>}
    /\ status' = [status EXCEPT ![b] = "errored"]
    /\ UNCHANGED <<aborted, lockHolder, notifying, notices, webState, connected,
                   registered, scanned, pc, runVars, bookVars>>

----------------------------------------------------------------------------
(* The advisory lock: atc/db/lock/lock.go                                  *)

\* Mutant: the local registry decides alone, without pg_try_advisory_lock.
AcquireLocally(w, b) ==
    /\ Alive(w)
    /\ At(w, b, "acquire")
    /\ <<w, b>> \notin registered
    /\ lockHolder' = [lockHolder EXCEPT ![b] = w]
    /\ registered' = registered \cup {<<w, b>>}
    /\ Goto(w, b, "reload")
    /\ UNCHANGED <<status, aborted, notifying, notices, webState, connected,
                   scanned, deferred, runVars, bookVars>>

\* lock.Acquire under acquireMutex: refuse what is registered locally, then
\* pg_try_advisory_lock, then register.
AcquireTrackingLock(w, b) ==
    /\ Alive(w)
    /\ At(w, b, "acquire")
    /\ \/ /\ <<w, b>> \notin registered /\ lockHolder[b] = Free
          /\ lockHolder' = [lockHolder EXCEPT ![b] = w]
          /\ registered' = registered \cup {<<w, b>>}
          /\ Goto(w, b, "reload")
       \/ /\ \/ <<w, b>> \in registered
             \/ lockHolder[b] # Free
             \/ "db" \in Faults
          /\ Goto(w, b, "untrack")
          /\ UNCHANGED <<lockHolder, registered>>
    /\ UNCHANGED <<status, aborted, notifying, notices, webState, connected,
                   scanned, deferred, runVars, bookVars>>

\* Mutant: only the local registration goes.
ReleaseLocally(w, b) ==
    /\ Alive(w)
    /\ At(w, b, "release")
    /\ registered' = registered \ {<<w, b>>}
    /\ Goto(w, b, "untrack")
    /\ UNCHANGED <<dbVars, webState, connected, scanned, deferred, runVars, bookVars>>

\* lock.Release: pg_advisory_unlock frees the lock only if this session still
\* holds it (else ErrLostLock); the registration goes in either case.  The query
\* fails when its connection does, which is SessionBreaks before this step.
ReleaseTrackingLock(w, b) ==
    /\ Alive(w)
    /\ At(w, b, "release")
    /\ lockHolder' = [lockHolder EXCEPT ![b] = IF @ = w THEN Free ELSE @]
    /\ registered' = registered \ {<<w, b>>}
    /\ Goto(w, b, "untrack")
    /\ UNCHANGED <<status, aborted, notifying, notices, webState, connected,
                   scanned, deferred, runVars, bookVars>>

\* The lock connection of w breaks: database/sql opens a new one, the locks stay
\* with the old session until the server notices.
SessionBreaks(w) ==
    /\ "session" \in Faults /\ disruptions < MaxDisruptions
    /\ Alive(w)
    /\ disruptions' = disruptions + 1
    /\ \E b \in Builds : lockHolder[b] = w
    /\ lost' = lost \cup {b \in Builds : lockHolder[b] = w}
    /\ lockHolder' = [b \in Builds |-> IF lockHolder[b] = w THEN Orphaned ELSE lockHolder[b]]
    /\ UNCHANGED <<status, aborted, notifying, notices, webVars, pc, runVars>>

\* The server ends a session whose client is gone and drops its locks.
OrphanExpires(b) ==
    /\ lockHolder[b] = Orphaned
    /\ lockHolder' = [lockHolder EXCEPT ![b] = Free]
    /\ UNCHANGED <<status, aborted, notifying, notices, webVars, pc, runVars, bookVars>>

----------------------------------------------------------------------------
(* The engine: atc/engine/engine.go                                        *)

\* Mutant: the early returns come before "defer lock.Release()".
ReloadLeaksLock(w, b) ==
    /\ Alive(w)
    /\ At(w, b, "reload")
    /\ IF status[b] \in Terminal
       THEN Goto(w, b, "untrack") /\ seenDone' = seenDone \cup {<<w, b>>}
       ELSE Goto(w, b, "prepare") /\ UNCHANGED seenDone
    /\ UNCHANGED <<dbVars, webVars, result, adrift, listening, watching, signalled,
                   cancelled, bookVars>>

\* Reload under the lock: give up on an error or a build already completed.
Reload(w, b) ==
    /\ Alive(w)
    /\ At(w, b, "reload")
    /\ \/ /\ status[b] \notin Terminal
          /\ Goto(w, b, "prepare")
          /\ UNCHANGED seenDone
       \/ /\ status[b] \in Terminal
          /\ seenDone' = seenDone \cup {<<w, b>>}
          /\ Goto(w, b, "release")
       \/ /\ "db" \in Faults
          /\ Goto(w, b, "release")
          /\ UNCHANGED seenDone
    /\ UNCHANGED <<dbVars, webVars, result, adrift, listening, watching, signalled,
                   cancelled, bookVars>>

\* StepperForBuild, then runState: either may fail for good, which errors the
\* build.  Only the second failure comes after "defer b.trackFinished".
Prepare(w, b) ==
    /\ Alive(w)
    /\ At(w, b, "prepare")
    /\ Goto(w, b, "reject") \/ Goto(w, b, "finish") \/ Goto(w, b, "listen")
    /\ UNCHANGED <<dbVars, webVars, runVars, bookVars>>

\* AbortSignal registers a fresh signal; the watcher and the plan are started.
\* If it fails, Run returns with the build still started.
AbortSignal(w, b) ==
    /\ Alive(w)
    /\ At(w, b, "listen")
    /\ \/ /\ Goto(w, b, "run")
          /\ listening' = listening \cup {<<w, b>>}
          /\ watching' = watching \cup {<<w, b>>}
       \/ /\ "db" \in Faults
          /\ Goto(w, b, "cleanup")
          /\ UNCHANGED <<listening, watching>>
    /\ UNCHANGED <<dbVars, webVars, seenDone, result, adrift, signalled, cancelled, bookVars>>

\* Mutant: the watcher tests the copy of the build it has, without a Reload.
AbortWatcherStale(w, b) ==
    /\ Alive(w)
    /\ <<w, b>> \in watching \cap signalled
    /\ watching' = watching \ {<<w, b>>}
    /\ signalled' = signalled \ {<<w, b>>}
    /\ UNCHANGED <<dbVars, webVars, pc, seenDone, result, adrift, listening, cancelled, bookVars>>

\* The abort watcher's only select: on a wake-up it reloads the build, cancels
\* the plan if the build is aborted, and ends, whatever it saw.
AbortWatcher(w, b) ==
    /\ Alive(w)
    /\ <<w, b>> \in watching \cap signalled
    /\ watching' = watching \ {<<w, b>>}
    /\ signalled' = signalled \ {<<w, b>>}
    /\ \/ /\ cancelled' = IF b \in aborted THEN cancelled \cup {<<w, b>>} ELSE cancelled
          /\ seenDone' = IF status[b] \in Terminal THEN seenDone \cup {<<w, b>>}
                         ELSE seenDone \ {<<w, b>>}
       \/ /\ "db" \in Faults
          /\ UNCHANGED <<cancelled, seenDone>>
    /\ UNCHANGED <<dbVars, webVars, pc, result, adrift, listening, bookVars>>

\* The step goroutine executes the plan from AbortSignal until state.Run returns.
Stepping(w, b) == At(w, b, "run") /\ result[w][b] = "none"

\* state.Run returns (or panics, which is an error) in the step goroutine.
StepReturns(w, b, outcome) ==
    /\ Alive(w)
    /\ Stepping(w, b)
    /\ outcome = "canceled" => <<w, b>> \in cancelled
    /\ result' = [result EXCEPT ![w][b] = outcome]
    /\ UNCHANGED <<dbVars, webVars, pc, seenDone, adrift, listening, watching,
                   signalled, cancelled, bookVars>>

\* The same, when Run has left the goroutine behind: nobody reads the result.
AdriftReturns(w, b) ==
    /\ Alive(w)
    /\ <<w, b>> \in adrift
    /\ adrift' = adrift \ {<<w, b>>}
    /\ UNCHANGED <<dbVars, webVars, pc, seenDone, result, listening, watching,
                   signalled, cancelled, bookVars>>

\* select, case <-done: a retriable error leaves a job build started.
RunDone(w, b) ==
    /\ Alive(w)
    /\ At(w, b, "run")
    /\ result[w][b] # "none"
    /\ IF b \in JobBuilds /\ result[w][b] = "retriable"
       THEN Goto(w, b, "cleanup")
       ELSE Goto(w, b, "finish")
    /\ UNCHANGED <<dbVars, webVars, runVars, bookVars>>

\* Mutant: Run gives up waiting for the plan on a web that is not draining.
RunReleasedAnytime(w, b) ==
    /\ Alive(w)
    /\ At(w, b, "run")
    /\ Goto(w, b, "cleanup")
    /\ adrift' = IF Stepping(w, b) THEN adrift \cup {<<w, b>>} ELSE adrift
    /\ UNCHANGED <<dbVars, webVars, seenDone, result, listening, watching, signalled,
                   cancelled, bookVars>>

\* select, case <-release: a check build is errored, a job build left started.
\* The step goroutine is not cancelled.
RunReleased(w, b) ==
    /\ webState[w] = "draining"
    /\ At(w, b, "run")
    /\ IF b \in CheckBuilds
       THEN Goto(w, b, "finish") /\ result' = [result EXCEPT ![w][b] = "errored"]
       ELSE Goto(w, b, "cleanup") /\ UNCHANGED result
    /\ adrift' = IF Stepping(w, b) THEN adrift \cup {<<w, b>>} ELSE adrift
    /\ UNCHANGED <<dbVars, webVars, seenDone, listening, watching, signalled,
                   cancelled, bookVars>>

\* finish: the status the error and the outcome map to.
FinalStatus(outcome) ==
    CASE outcome = "canceled" -> "aborted"
      [] outcome = "succeeded" -> "succeeded"
      [] outcome = "failed" -> "failed"
      [] OTHER -> "errored"

\* finish / saveStatus / Build.Finish: one transaction that UPDATEs the row of b
\* WHERE id = b, whatever the status was, with what hangs on the outcome (outputs,
\* downstream jobs, notifications).  A transaction that fails is only logged.
Finish(w, b) ==
    /\ Alive(w)
    /\ \/ At(w, b, "reject") /\ Goto(w, b, "release")
       \/ At(w, b, "finish") /\ Goto(w, b, "cleanup")
    /\ \/ status' = [status EXCEPT ![b] = FinalStatus(result[w][b])]
       \/ "db" \in Faults /\ UNCHANGED status
    /\ UNCHANGED <<aborted, lockHolder, notifying, notices, webVars, runVars, bookVars>>

\* Run's deferred calls before the lock's Release: close(noleak), unlisten,
\* clearRunState, and trackFinished, which reloads the build.
Cleanup(w, b) ==
    /\ Alive(w)
    /\ At(w, b, "cleanup")
    /\ listening' = listening \ {<<w, b>>}
    /\ watching' = watching \ {<<w, b>>}
    /\ signalled' = signalled \ {<<w, b>>}
    /\ cancelled' = cancelled \ {<<w, b>>}
    /\ result' = [result EXCEPT ![w][b] = "none"]
    /\ \/ seenDone' = IF status[b] \in Terminal THEN seenDone \cup {<<w, b>>}
                      ELSE seenDone \ {<<w, b>>}
       \/ "db" \in Faults /\ UNCHANGED seenDone
    /\ Goto(w, b, "release")
    /\ UNCHANGED <<dbVars, webVars, adrift, bookVars>>

----------------------------------------------------------------------------
(* Web processes come and go                                               *)

\* Engine.Drain closes the release channel.
Drain(w) ==
    /\ disruptions < MaxDisruptions
    /\ webState[w] = "up"
    /\ webState' = [webState EXCEPT ![w] = "draining"]
    /\ disruptions' = disruptions + 1
    /\ UNCHANGED <<dbVars, connected, registered, scanned, deferred, pc, runVars, lost>>

\* The process is gone with everything it had in memory; its database session
\* keeps its locks until the server notices.
ProcessGone(w) ==
    /\ webState' = [webState EXCEPT ![w] = "down"]
    /\ connected' = connected \ {w}
    /\ notices' = {p \in notices : p[1] # w}
    /\ registered' = {p \in registered : p[1] # w}
    /\ scanned' = {p \in scanned : p[1] # w}
    /\ deferred' = {p \in deferred : p[1] # w}
    /\ pc' = [pc EXCEPT ![w] = [b \in Builds |-> "idle"]]
    /\ seenDone' = {p \in seenDone : p[1] # w}
    /\ result' = [result EXCEPT ![w] = [b \in Builds |-> "none"]]
    /\ adrift' = {p \in adrift : p[1] # w}
    /\ listening' = {p \in listening : p[1] # w}
    /\ watching' = {p \in watching : p[1] # w}
    /\ signalled' = {p \in signalled : p[1] # w}
    /\ cancelled' = {p \in cancelled : p[1] # w}
    /\ lockHolder' = [b \in Builds |-> IF lockHolder[b] = w THEN Orphaned ELSE lockHolder[b]]
    /\ UNCHANGED <<status, aborted, notifying, lost>>

\* Drain waits for every Run to return, then the process exits.
Exit(w) ==
    /\ webState[w] = "draining"
    /\ \A b \in Builds : At(w, b, "idle")
    /\ ProcessGone(w)
    /\ UNCHANGED disruptions

Crash(w) ==
    /\ disruptions < MaxDisruptions
    /\ Alive(w)
    /\ disruptions' = disruptions + 1
    /\ ProcessGone(w)

Boot(w) ==
    /\ webState[w] = "down"
    /\ webState' = [webState EXCEPT ![w] = "up"]
    /\ connected' = connected \cup {w}
    /\ UNCHANGED <<dbVars, registered, scanned, deferred, pc, runVars, bookVars>>

----------------------------------------------------------------------------

BuildRow(b) ==
    \/ Start(b) \/ CreateCheckBuild(b) \/ FinishPending(b)
    \/ MarkAsAborted(b) \/ NotifyAbort(b) \/ NotifyFails(b)
    \/ OrphanExpires(b)

Web(w) ==
    \/ ListenerBreaks(w) \/ ListenerReconnects(w) \/ TrackerRun(w)
    \/ SessionBreaks(w) \/ Drain(w) \/ Exit(w) \/ Crash(w) \/ Boot(w)

Tracking(w, b) ==
    \/ HandleNotification(w, b) \/ TrackBuild(w, b) \/ Untrack(w, b)
    \/ FinalizeOrphanedCheck(w, b) \/ AcquireTrackingLock(w, b)
    \/ ReleaseTrackingLock(w, b) \/ Reload(w, b) \/ Prepare(w, b)
    \/ AbortSignal(w, b) \/ AbortWatcher(w, b)
    \/ \E outcome \in Outcomes : StepReturns(w, b, outcome)
    \/ AdriftReturns(w, b)
    \/ RunDone(w, b) \/ RunReleased(w, b) \/ Finish(w, b) \/ Cleanup(w, b)

Next ==
    \/ \E b \in Builds : BuildRow(b)
    \/ \E w \in Webs : Web(w)
    \/ \E w \in Webs, b \in Builds : Tracking(w, b)

Spec == Init /\ [][Next]_vars

----------------------------------------------------------------------------
(* Safety                                                                  *)

\* Every variable keeps its type: the pairs are pairs of a web and a build, and
\* a lock is held by a web, by an orphaned session, or by nobody.
TypeOK ==
    /\ status \in [Builds -> Statuses]
    /\ aborted \subseteq Builds
    /\ lockHolder \in [Builds -> Webs \cup {Free, Orphaned}]
    /\ notifying \subseteq Builds
    /\ notices \subseteq Pairs
    /\ webState \in [Webs -> {"up", "draining", "down"}]
    /\ connected \subseteq Webs
    /\ registered \subseteq Pairs
    /\ scanned \subseteq Pairs
    /\ deferred \subseteq Pairs
    /\ pc \in [Webs -> [Builds -> Places]]
    /\ seenDone \subseteq Pairs
    /\ result \in [Webs -> [Builds -> Outcomes \cup {"none"}]]
    /\ adrift \subseteq Pairs
    /\ listening \subseteq Pairs
    /\ watching \subseteq Pairs
    /\ signalled \subseteq Pairs
    /\ cancelled \subseteq Pairs
    /\ lost \subseteq Builds
    /\ disruptions \in 0..MaxDisruptions

\* A web that is between Acquire and Release of a build's tracking lock holds it
\* in the database, unless a lock connection broke under that build.  Hence two
\* webs never drive the same build while its lock was not lost.
DriverHoldsLock ==
    \A w \in Webs, b \in Builds :
        pc[w][b] \in Driving /\ b \notin lost => lockHolder[b] = w

\* Whatever way Run returns, the lock goes with it: a web that is not driving a
\* build holds its lock neither in the database nor in the local lockRepo.
NoLockLeak ==
    \A w \in Webs, b \in Builds :
        pc[w][b] \notin Driving => lockHolder[b] # w /\ <<w, b>> \notin registered

\* A finished job build is finished for good: Build.Finish has no guard on the
\* status, so what keeps a second outcome out is the tracking lock together with
\* the IsRunning check after it, however stale the tracker's list was.
JobFinishesOnce ==
    [][\A b \in JobBuilds \ lost :
           status[b] \in Terminal => status'[b] = status[b]]_vars

\* Two webs execute steps of the same job build at the same time only while one
\* of them drains: Run releases the lock on a drain without waiting for its step
\* goroutine, and in no other case.
StepsOverlapOnlyInDrain ==
    \A b \in Builds \ lost : \A w1, w2 \in Webs :
        /\ w1 # w2
        /\ Stepping(w1, b) \/ <<w1, b>> \in adrift
        /\ Stepping(w2, b) \/ <<w2, b>> \in adrift
        => "draining" \in {webState[w1], webState[w2]}

\* The inductive invariant behind the properties above, in the order its parts
\* depend on each other: the local registration and the place in Run agree; a
\* lock is held by nobody who is not driving, and by whoever drives; only builds
\* that were started are scanned or tracked; the build a web works on is still
\* started; only check builds are finalized; a step goroutine is left behind by
\* a drain only; a result is of the current drive, a cancellation was asked for.
RegisteredIffDriving ==
    \A w \in Webs, b \in Builds : <<w, b>> \in registered <=> pc[w][b] \in Driving
HolderDrives ==
    \A w \in Webs, b \in Builds : lockHolder[b] = w => pc[w][b] \in Driving
TrackedWasStarted ==
    \A w \in Webs, b \in Builds :
        <<w, b>> \in scanned \/ pc[w][b] # "idle" => status[b] \notin {"absent", "pending"}
Working == {"prepare", "reject", "listen", "run", "finish"}
WorkedOnIsStarted ==
    \A w \in Webs, b \in JobBuilds \ lost :
        pc[w][b] \in Working => status[b] = "started"
DeferredAreChecks == deferred \subseteq Webs \X CheckBuilds
AdriftOnlyInDrain == \A p \in adrift : webState[p[1]] = "draining"
ResultOfThisDrive ==
    \A w \in Webs, b \in Builds :
        /\ result[w][b] # "none" => pc[w][b] \in {"run", "finish", "cleanup"}
        /\ b \in JobBuilds /\ result[w][b] = "retriable" => pc[w][b] # "finish"
CancelWasAsked ==
    \A w \in Webs, b \in Builds :
        <<w, b>> \in cancelled \/ result[w][b] = "canceled" => b \in aborted

\* The invariant that one web's failure, drain or stale view never breaks.
TrackingInv ==
    /\ TypeOK
    /\ RegisteredIffDriving
    /\ HolderDrives
    /\ DriverHoldsLock
    /\ TrackedWasStarted
    /\ WorkedOnIsStarted
    /\ DeferredAreChecks
    /\ AdriftOnlyInDrain
    /\ ResultOfThisDrive
    /\ CancelWasAsked

\* A job build keeps its contract: one web at a time drives it, its outcome is what
\* the plan reported to that web in this drive and comes once, when no web that
\* stays executes a step, and a started build ends aborted only if that was asked for.
\* Each build, seen alone, behaves as BuildContract says.
Drivers(b) == {w \in Webs : pc[w][b] \in Driving}
Executors(b) == {w \in Webs : Stepping(w, b) \/ <<w, b>> \in adrift}

Contract(b) == INSTANCE BuildContract
    WITH status <- status[b],
         aborted <- b \in aborted,
         drivers <- Drivers(b),
         executors <- Executors(b),
         report <- [w \in Webs |-> result[w][b]],
         leaving <- {w \in Webs : webState[w] = "draining"},
         unlocked <- b \in lost

KeepsBuildContract ==
    /\ \A b \in JobBuilds : Contract(b)!Init
    /\ [][\A b \in JobBuilds : [Contract(b)!Next]_(Contract(b)!contract)]_vars

\* The comment on MarkAsAborted: "The aborted flag ensures that AbortSignal
\* listeners detect the abort even if they miss the initial notification."  A
\* plan that executes for an aborted build has been cancelled, or a wake-up for
\* its watcher is on the way.
AbortReachesListeners ==
    \A w \in Webs, b \in Builds :
        Stepping(w, b) /\ b \in aborted =>
            \/ <<w, b>> \in cancelled \cup (signalled \cap watching) \cup notices
            \/ b \in notifying

----------------------------------------------------------------------------
(* Liveness                                                                *)

\* The runner of the tracker component ticks every 10 seconds on every web, and
\* the component's lock lets one of them run; a goroutine that can go on does; a
\* process that drained exits and is restarted; the server ends dead sessions
\* and delivers what it queued.  Nothing is assumed of how long a plan runs,
\* unless it was cancelled.
Fairness ==
    /\ \A b \in Builds : WF_vars(OrphanExpires(b)) /\ WF_vars(NotifyAbort(b))
    /\ WF_vars(\E w \in Webs : TrackerRun(w))
    /\ \A w \in Webs :
        WF_vars(Exit(w)) /\ WF_vars(Boot(w)) /\ WF_vars(ListenerReconnects(w))
    /\ \A w \in Webs, b \in Builds :
        /\ WF_vars(HandleNotification(w, b))
        /\ WF_vars(TrackBuild(w, b)) /\ WF_vars(Untrack(w, b))
        /\ WF_vars(FinalizeOrphanedCheck(w, b))
        /\ WF_vars(AcquireTrackingLock(w, b)) /\ WF_vars(ReleaseTrackingLock(w, b))
        /\ WF_vars(Reload(w, b)) /\ WF_vars(Prepare(w, b)) /\ WF_vars(AbortSignal(w, b))
        /\ WF_vars(AbortWatcher(w, b))
        /\ WF_vars(<<w, b>> \in cancelled /\ StepReturns(w, b, "canceled"))
        /\ WF_vars(RunDone(w, b)) /\ WF_vars(RunReleased(w, b))
        /\ WF_vars(Finish(w, b)) /\ WF_vars(Cleanup(w, b))

FairSpec == Spec /\ Fairness

\* In addition, a plan that is executed again and again ends at some point with
\* an outcome that is not a retriable error, unless its build was aborted: how an
\* aborted one ends is up to the code.
StepsEnd ==
    \A w \in Webs, b \in Builds :
        SF_vars(b \notin aborted /\ StepReturns(w, b, "succeeded"))

FairSpecStepsEnd == FairSpec /\ StepsEnd

\* A started job build is always picked up again until it has an outcome or was
\* aborted: after a drain, a crash with the lock still held by the dead session,
\* or a retriable error, some web's tracker resumes it.
StartedBuildFinishes ==
    \A b \in JobBuilds :
        status[b] = "started" ~> status[b] \in Terminal \/ b \in aborted

\* An abort that is requested while an engine listens for it ends the plan: the
\* NOTIFY follows the commit of the flag, so the one Reload of the watcher sees
\* it.
ListenedAbortCancels ==
    \A w \in Webs, b \in Builds :
        <<w, b>> \in watching /\ b \in notifying ~> ~Stepping(w, b)

=============================================================================

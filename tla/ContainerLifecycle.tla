------------------------- MODULE ContainerLifecycle -------------------------
(***************************************************************************)
(* The life of the containers of build steps: a row of table containers, a *)
(* pod in the cluster and an entry of the web's artifact locator, which    *)
(* three programs change without a common lock:                            *)
(*                                                                         *)
(*   - the step, which finds or creates the row and then the pod           *)
(*     (atc/worker/jetbridge/worker.go FindOrCreateContainer, container.go)*)
(*   - the collectors, which move the rows of builds that are over towards *)
(*     "destroying" and drop the rows whose pod is missing (atc/gc)        *)
(*   - the reaper, whose pass lists the pods once and then acts on that    *)
(*     listing call after call (atc/worker/jetbridge/reaper.go Run)        *)
(*                                                                         *)
(* The pod of a step that has exited carries the exit status, the only     *)
(* durable record of the step's result while its build runs: a web that    *)
(* restarts runs the plan again and reads the results from the pods.       *)
(***************************************************************************)
EXTENDS Integers, FiniteSets

CONSTANTS
    Jobs,        \* builds of jobs: a row of table builds, resumed after a crash
    Checks,      \* in-memory check builds: lost with the web that runs them
    Steps,       \* steps that run in a container
    BuildOf,     \* BuildOf[s]: the build of step s
    Handles,     \* container handles, each generated once
    NoStep,      \* the handle has not been generated yet
    NoHandle,    \* the step holds no container
    MaxFaults    \* bound on crashes, failed calls and lost pods

Builds == Jobs \cup Checks

ASSUME BuildAssumption == Jobs \cap Checks = {} /\ BuildOf \in [Steps -> Builds]
ASSUME HandleAssumption == NoStep \notin Steps /\ NoHandle \notin Handles
ASSUME FaultsAssumption == MaxFaults \in Nat

VARIABLES
    build,     \* build[b]: "running", "over", or "cold" (not interceptible)
    pc,        \* pc[s]: the next call of the step
    held,      \* held[s]: the container the step has found or created
    stepOf,    \* stepOf[h]: the step that container h was created for
    row,       \* row[h]: "none", or column state of the row
    owned,     \* handles whose row has its owner columns
    missing,   \* missing[h]: column missing_since: "no", "recent", or "old"
    pod,       \* pod[h]: "none", "live", or "completed" (has the exit status)
    entry,     \* handles with entries in the artifact locator
    rpc,       \* the next call of the reaper's pass
    listed,    \* pods of the pass's listing, by handle
    completed, \* those of them with the exit status
    reap,      \* the completed pods to delete now
    reported,  \* the handles last reported as active
    doomed,    \* what FindDestroyingContainers returned
    faults     \* faults so far

steps == <<pc, held, stepOf>>
rows == <<row, owned, missing>>
pass == <<rpc, listed, completed, reap, reported, doomed>>
vars == <<build, steps, rows, pod, entry, pass, faults>>

Running(h) == stepOf[h] # NoStep /\ build[BuildOf[stepOf[h]]] = "running"
IsJob(h) == stepOf[h] # NoStep /\ BuildOf[stepOf[h]] \in Jobs

Fault == faults < MaxFaults /\ faults' = faults + 1

Init ==
    /\ build = [b \in Builds |-> "running"]
    /\ pc = [s \in Steps |-> "idle"]
    /\ held = [s \in Steps |-> NoHandle]
    /\ stepOf = [h \in Handles |-> NoStep]
    /\ row = [h \in Handles |-> "none"]
    /\ owned = {}
    /\ missing = [h \in Handles |-> "no"]
    /\ pod = [h \in Handles |-> "none"]
    /\ entry = {}
    /\ rpc = "list"
    /\ listed = {}
    /\ completed = {}
    /\ reap = {}
    /\ reported = {}
    /\ doomed = {}
    /\ faults = 0

-----------------------------------------------------------------------------
\* The step.

Goto(s, l) == pc' = [pc EXCEPT ![s] = l]

SetRow(h, state) == row' = [row EXCEPT ![h] = state]

(* The lookup by owner reads one row, whichever the query returns first; a *)
(* failed or destroying row counts as none.                                *)
FindContainer(s) ==
    /\ pc[s] = "idle"
    /\ build[BuildOf[s]] = "running"
    /\ LET mine == {h \in owned : stepOf[h] = s}
       IN  \/ \E h \in mine :
                 /\ row[h] \in {"creating", "created"}
                 /\ held' = [held EXCEPT ![s] = h]
                 /\ Goto(s, row[h])
           \/ /\ mine = {} \/ \E h \in mine : row[h] \in {"failed", "destroying"}
              /\ Goto(s, "absent")
              /\ UNCHANGED held
    /\ UNCHANGED <<build, stepOf, rows, pod, entry, pass, faults>>

CreateContainer(s, h) ==
    /\ pc[s] = "absent"
    /\ stepOf[h] = NoStep
    /\ SetRow(h, "creating")
    /\ owned' = owned \cup {h}
    /\ stepOf' = [stepOf EXCEPT ![h] = s]
    /\ held' = [held EXCEPT ![s] = h]
    /\ Goto(s, "creating")
    /\ UNCHANGED <<build, missing, pod, entry, pass, faults>>

\* Mutant: the update does not test the state of the row.
CreatedAnyState(s) ==
    /\ pc[s] = "creating"
    /\ SetRow(held[s], "created")
    /\ Goto(s, "created")
    /\ UNCHANGED <<build, held, stepOf, owned, missing, pod, entry, pass, faults>>

(* Created is conditional on the state of the row: a row that a collector  *)
(* has taken stays taken, and the step fails.                              *)
Created(s) ==
    /\ pc[s] = "creating"
    /\ IF row[held[s]] \in {"creating", "created"}
       THEN SetRow(held[s], "created") /\ Goto(s, "created")
       ELSE Goto(s, "ended") /\ UNCHANGED row
    /\ UNCHANGED <<build, held, stepOf, owned, missing, pod, entry, pass, faults>>

(* The update of Created fails; Failed is tried on the same row.           *)
CreatedFails(s) ==
    /\ pc[s] = "creating"
    /\ IF row[held[s]] \in {"creating", "failed"}
       THEN SetRow(held[s], "failed")
       ELSE UNCHANGED row
    /\ Goto(s, "ended")
    /\ Fault
    /\ UNCHANGED <<build, held, stepOf, owned, missing, pod, entry, pass>>

(* Attach, else Run: the result is read from a completed pod, and its      *)
(* outputs are recorded again; a live pod is reused; else a pod is created.*)
AttachOrRun(s) ==
    /\ pc[s] = "created"
    /\ IF pod[held[s]] = "completed"
       THEN Goto(s, "ended") /\ entry' = entry \cup {held[s]} /\ UNCHANGED pod
       ELSE /\ pod' = [pod EXCEPT ![held[s]] = "live"]
            /\ Goto(s, "running")
            /\ UNCHANGED entry
    /\ UNCHANGED <<build, held, stepOf, rows, pass, faults>>

(* The command exits: the outputs are recorded, then the exit status is    *)
(* annotated.  A failed annotation is only logged; a lost pod fails the    *)
(* step.                                                                   *)
Exit(s) ==
    /\ pc[s] = "running"
    /\ Goto(s, "ended")
    /\ \/ /\ pod[held[s]] # "none"
          /\ pod' = [pod EXCEPT ![held[s]] = "completed"]
          /\ entry' = entry \cup {held[s]}
          /\ UNCHANGED faults
       \/ /\ pod[held[s]] # "none"
          /\ entry' = entry \cup {held[s]}
          /\ Fault
          /\ UNCHANGED pod
       \/ /\ pod[held[s]] = "none"
          /\ UNCHANGED <<pod, entry, faults>>
    /\ UNCHANGED <<build, held, stepOf, rows, pass>>

(* The build is aborted: the step stops where it is.                       *)
Cancel(s) ==
    /\ pc[s] \notin {"idle", "ended"}
    /\ Goto(s, "ended")
    /\ UNCHANGED <<build, held, stepOf, rows, pod, entry, pass, faults>>

(* Finish of a job build leaves the containers alone.                      *)
FinishJob(b) ==
    /\ b \in Jobs
    /\ build[b] = "running"
    /\ \A s \in Steps : BuildOf[s] = b => pc[s] = "ended"
    /\ build' = [build EXCEPT ![b] = "over"]
    /\ UNCHANGED <<steps, rows, pod, entry, pass, faults>>

(* Finish of an in-memory check moves its rows to destroying and clears    *)
(* their owner, in one transaction.                                        *)
FinishCheck(b) ==
    /\ b \in Checks
    /\ build[b] = "running"
    /\ \A s \in Steps : BuildOf[s] = b => pc[s] = "ended"
    /\ build' = [build EXCEPT ![b] = "over"]
    /\ LET mine == {h \in owned : BuildOf[stepOf[h]] = b}
       IN  /\ row' = [h \in Handles |-> IF h \in mine THEN "destroying" ELSE row[h]]
           /\ owned' = owned \ mine
    /\ UNCHANGED <<steps, missing, pod, entry, pass, faults>>

(* The web dies: its steps, its locator and the reaper's pass are lost.    *)
(* The plans of job builds run again from their first step.                *)
Crash ==
    /\ Fault
    /\ build' = [b \in Builds |->
                   IF b \in Checks /\ build[b] = "running" THEN "over" ELSE build[b]]
    /\ pc' = [s \in Steps |->
                IF BuildOf[s] \in Jobs /\ build[BuildOf[s]] = "running"
                THEN "idle" ELSE "ended"]
    /\ held' = [s \in Steps |-> NoHandle]
    /\ entry' = {}
    /\ rpc' = "list"
    /\ listed' = {}
    /\ completed' = {}
    /\ reap' = {}
    /\ doomed' = {}
    /\ UNCHANGED <<stepOf, rows, pod, reported>>

(* A node is lost, or its pod evicted and deleted.                         *)
LosePod(h) ==
    /\ pod[h] # "none"
    /\ Fault
    /\ pod' = [pod EXCEPT ![h] = "none"]
    /\ UNCHANGED <<build, steps, rows, entry, pass>>

-----------------------------------------------------------------------------
\* The collectors.  Every statement of theirs is one transaction, none uses
\* what an earlier one read, and each may fail alone.

MarkNonInterceptibleBuilds(b) ==
    /\ b \in Jobs
    /\ build[b] = "over"
    /\ build' = [build EXCEPT ![b] = "cold"]
    /\ UNCHANGED <<steps, rows, pod, entry, pass, faults>>

(* Containers of in-memory checks that were created 5 minutes ago: here, of*)
(* a check that is over or still runs after that time.                     *)
DestroyDirtyInMemoryBuildContainers(h) ==
    /\ h \in owned
    /\ BuildOf[stepOf[h]] \in Checks
    /\ SetRow(h, "destroying")
    /\ owned' = owned \ {h}
    /\ UNCHANGED <<build, steps, missing, pod, entry, pass, faults>>

Orphaned(h) ==
    \/ h \notin owned
    \/ IsJob(h) /\ build[BuildOf[stepOf[h]]] = "cold"

(* Of the orphaned containers only the created ones are marked.            *)
CleanupOrphanedContainer(h) ==
    /\ row[h] = "created"
    /\ Orphaned(h)
    /\ SetRow(h, "destroying")
    /\ UNCHANGED <<build, steps, owned, missing, pod, entry, pass, faults>>

DestroyFailedContainers ==
    /\ \E h \in Handles : row[h] = "failed"
    /\ row' = [h \in Handles |-> IF row[h] = "failed" THEN "destroying" ELSE row[h]]
    /\ UNCHANGED <<build, steps, owned, missing, pod, entry, pass, faults>>

Drop(gone) ==
    /\ row' = [h \in Handles |-> IF h \in gone THEN "none" ELSE row[h]]
    /\ owned' = owned \ gone
    /\ missing' = [h \in Handles |-> IF h \in gone THEN "no" ELSE missing[h]]

(* The grace period since missing_since passes.                            *)
GracePasses(h) ==
    /\ missing[h] = "recent"
    /\ missing' = [missing EXCEPT ![h] = "old"]
    /\ UNCHANGED <<build, steps, row, owned, pod, entry, pass, faults>>

RemoveMissingContainers ==
    LET gone == {h \in Handles : row[h] = "created" /\ missing[h] = "old"}
    IN  /\ gone # {}
        /\ Drop(gone)
        /\ UNCHANGED <<build, steps, pod, entry, pass, faults>>

-----------------------------------------------------------------------------
\* A pass of the reaper.

ListPods ==
    /\ rpc = "list"
    /\ listed' = {h \in Handles : pod[h] # "none"}
    /\ completed' = {h \in Handles : pod[h] = "completed"}
    /\ rpc' = "split"
    /\ UNCHANGED <<build, steps, rows, pod, entry, reap, reported, doomed, faults>>

\* Mutant: completed pods go without asking whose build is still running.
SplitNothingRetained ==
    /\ rpc = "split"
    /\ reap' = completed
    /\ rpc' = "reap"
    /\ UNCHANGED <<build, steps, rows, pod, entry, listed, completed, reported, doomed, faults>>

(* The builds that are still running are read after the listing.  When the *)
(* read fails every completed pod is retained.  The pods of checks have no *)
(* label with a build.                                                     *)
SplitCompletedPods ==
    /\ rpc = "split"
    /\ \/ /\ reap' = {h \in completed : ~(IsJob(h) /\ Running(h))}
          /\ UNCHANGED faults
       \/ /\ \E h \in completed : IsJob(h)
          /\ reap' = {}
          /\ Fault
    /\ rpc' = "reap"
    /\ UNCHANGED <<build, steps, rows, pod, entry, listed, completed, reported, doomed>>

DeletePods(hs) == pod' = [h \in Handles |-> IF h \in hs THEN "none" ELSE pod[h]]

(* A failed deletion is only logged.                                       *)
ReapCompletedPods ==
    /\ rpc = "reap"
    /\ \/ DeletePods(reap) /\ UNCHANGED faults
       \/ \E some \in SUBSET reap : some # reap /\ DeletePods(some) /\ Fault
    /\ rpc' = "update"
    /\ UNCHANGED <<build, steps, rows, entry, listed, completed, reap, reported, doomed>>

\* Mutant: missing_since is not cleared for a container that is back.
UpdateKeepsMissing ==
    /\ rpc = "update"
    /\ reported' = listed \ reap
    /\ missing' = [h \in Handles |->
                     IF h \notin reported' /\ missing[h] = "no"
                        /\ row[h] \notin {"none", "creating"}
                     THEN "recent" ELSE missing[h]]
    /\ rpc' = "destroy"
    /\ UNCHANGED <<build, steps, row, owned, pod, entry, listed, completed, reap, doomed, faults>>

UpdateContainersMissingSince ==
    /\ rpc = "update"
    /\ reported' = listed \ reap
    /\ missing' = [h \in Handles |->
                     CASE h \in reported' -> "no"
                       [] h \notin reported' /\ missing[h] = "no"
                          /\ row[h] \notin {"none", "creating"} -> "recent"
                       [] OTHER -> missing[h]]
    /\ rpc' = "destroy"
    /\ UNCHANGED <<build, steps, row, owned, pod, entry, listed, completed, reap, doomed, faults>>

(* RemoveDestroyingContainers: the rows whose pod is not in the listing.   *)
DestroyContainers ==
    /\ rpc = "destroy"
    /\ Drop({h \in Handles \ reported : row[h] = "destroying"})
    /\ rpc' = "unknown"
    /\ UNCHANGED <<build, steps, pod, entry, listed, completed, reap, reported, doomed, faults>>

DestroyUnknownContainers ==
    /\ rpc = "unknown"
    /\ row' = [h \in Handles |->
                 IF h \in reported /\ row[h] = "none" THEN "destroying" ELSE row[h]]
    /\ rpc' = "find"
    /\ UNCHANGED <<build, steps, owned, missing, pod, entry, listed, completed, reap, reported, doomed, faults>>

FindDestroyingContainers ==
    /\ rpc = "find"
    /\ doomed' = {h \in Handles : row[h] = "destroying"}
    /\ rpc' = "delete"
    /\ UNCHANGED <<build, steps, rows, pod, entry, listed, completed, reap, reported, faults>>

EndPass ==
    /\ rpc' = "list"
    /\ listed' = {}
    /\ completed' = {}
    /\ reap' = {}
    /\ doomed' = {}
    /\ UNCHANGED reported

(* A pod that was not reported has no known name, and is not deleted.  The *)
(* locator's entries of the destroyed containers are removed at the end.   *)
DeleteDestroyingPods ==
    /\ rpc = "delete"
    /\ DeletePods(doomed \cap reported)
    /\ entry' = entry \ doomed
    /\ EndPass
    /\ UNCHANGED <<build, steps, rows, faults>>

\* Mutant: a pass that failed is never run again.
PassFailsForGood ==
    /\ rpc \notin {"split", "reap"}
    /\ rpc' = "failed"
    /\ Fault
    /\ UNCHANGED <<build, steps, rows, pod, entry, listed, completed, reap, reported, doomed>>

(* A call fails and ends the pass; of the pods to delete, some are gone.   *)
PassFails ==
    /\ rpc \notin {"split", "reap"}
    /\ IF rpc = "delete"
       THEN \E some \in SUBSET (doomed \cap reported) : DeletePods(some)
       ELSE UNCHANGED pod
    /\ EndPass
    /\ Fault
    /\ UNCHANGED <<build, steps, rows, entry>>

-----------------------------------------------------------------------------
Step ==
    \/ \E s \in Steps :
          \/ FindContainer(s)
          \/ \E h \in Handles : CreateContainer(s, h)
          \/ Created(s)
          \/ CreatedFails(s)
          \/ AttachOrRun(s)
          \/ Exit(s)
          \/ Cancel(s)
    \/ \E b \in Builds : FinishJob(b) \/ FinishCheck(b)

Environment == Crash \/ \E h \in Handles : LosePod(h) \/ GracePasses(h)

Collect ==
    \/ \E b \in Builds : MarkNonInterceptibleBuilds(b)
    \/ \E h \in Handles :
          DestroyDirtyInMemoryBuildContainers(h) \/ CleanupOrphanedContainer(h)
    \/ DestroyFailedContainers
    \/ RemoveMissingContainers

Pass ==
    \/ ListPods
    \/ SplitCompletedPods
    \/ ReapCompletedPods
    \/ UpdateContainersMissingSince
    \/ DestroyContainers
    \/ DestroyUnknownContainers
    \/ FindDestroyingContainers
    \/ DeleteDestroyingPods

Next == Step \/ Environment \/ Collect \/ Pass \/ PassFails

Spec == Init /\ [][Next]_vars

(* The collectors and the reaper are components that run at an interval,   *)
(* and the faults are bounded; nothing is assumed of the steps.            *)
FairSpec ==
    /\ Spec
    /\ WF_vars(Pass)
    /\ \A h \in Handles :
          /\ WF_vars(DestroyDirtyInMemoryBuildContainers(h))
          /\ WF_vars(CleanupOrphanedContainer(h))
    /\ WF_vars(DestroyFailedContainers)

-----------------------------------------------------------------------------
TypeOK ==
    /\ build \in [Builds -> {"running", "over", "cold"}]
    /\ pc \in [Steps -> {"idle", "absent", "creating", "created", "running", "ended"}]
    /\ held \in [Steps -> Handles \cup {NoHandle}]
    /\ stepOf \in [Handles -> Steps \cup {NoStep}]
    /\ row \in [Handles -> {"none", "creating", "created", "failed", "destroying"}]
    /\ missing \in [Handles -> {"no", "recent", "old"}]
    /\ pod \in [Handles -> {"none", "live", "completed"}]
    /\ owned \subseteq Handles /\ entry \subseteq Handles
    /\ listed \subseteq Handles /\ completed \subseteq listed
    /\ reap \subseteq Handles /\ reported \subseteq Handles /\ doomed \subseteq Handles
    /\ rpc \in {"list", "split", "reap", "update", "destroy", "unknown", "find", "delete"}
    /\ faults \in 0 .. MaxFaults

(* A step past its creation holds a container of its own, whose row, as    *)
(* long as it has its owner and the build runs, the collectors leave alone.*)
HeldInv ==
    \A s \in Steps :
       /\ pc[s] \notin {"idle", "ended"} => build[BuildOf[s]] = "running"
       /\ pc[s] \in {"creating", "created", "running"} =>
             held[s] \in Handles /\ stepOf[held[s]] = s
       /\ pc[s] \in {"created", "running"} /\ held[s] \in owned => row[held[s]] = "created"

(* What a row says of its pod, and what the pass remembers of the rows.    *)
RowInv ==
    \A h \in Handles :
       /\ stepOf[h] = NoStep => h \notin owned /\ row[h] = "none" /\ pod[h] = "none"
       /\ h \in owned => row[h] # "none"
       /\ row[h] \in {"creating", "created", "failed"} => h \in owned
       /\ row[h] \in {"creating", "failed"} => pod[h] = "none"
       /\ row[h] = "none" => missing[h] = "no"
       /\ h \in reported => missing[h] = "no"
       /\ h \in listed \cup reported \cup reap => stepOf[h] # NoStep
       /\ h \in reap => ~(IsJob(h) /\ Running(h))
       /\ h \in doomed => row[h] = "destroying" /\ rpc = "delete"
       /\ row[h] = "destroying" /\ h \in owned /\ IsJob(h) /\ Running(h) => pod[h] = "none"

(* The inductive invariant.                                                *)
LifecycleInv == TypeOK /\ HeldInv /\ RowInv

(* While a job build runs, a pass of the reaper deletes a pod of its steps *)
(* only when the pod's row was lost before and the pod adopted as unknown: *)
(* no decision taken on the stale listing, on the running builds or on the *)
(* destroying rows deletes a result that a resumed plan would read         *)
(* (reaper.go Run and splitCompletedPods).                                 *)
KeptWhileRunning ==
    [][Pass \/ PassFails =>
         \A h \in Handles :
            pod[h] # "none" /\ pod'[h] = "none" /\ IsJob(h) /\ Running(h) =>
               row[h] = "destroying" /\ h \notin owned]_vars

(* A row is dropped as missing only if the reaper's last report did not    *)
(* have its pod: a pod that appeared after it was first missed is noticed  *)
(* (UpdateContainersMissingSince, RemoveMissingContainers).                *)
ReportedNotDropped ==
    [][\A h \in Handles :
         row[h] = "created" /\ row'[h] = "none" => h \notin reported]_vars

ClientOf(h) ==
    CASE stepOf[h] = NoStep      -> "nobody"
      [] IsJob(h) /\ Running(h)  -> "job"
      [] ~IsJob(h) /\ Running(h) -> "check"
      [] OTHER                   -> "over"

StageOf(h) ==
    CASE stepOf[h] = NoStep -> "unused"
      [] stepOf[h] # NoStep /\ row[h] \in {"creating", "created"} -> "kept"
      [] OTHER -> "given up"

Contract(h) == INSTANCE ContainerContract
    WITH client <- ClientOf(h),
         stage <- StageOf(h),
         pod <- pod[h],
         reported <- h \in reported,
         cleaner <- rpc

(* Every container keeps its contract, whatever step, collectors and the   *)
(* reaper's stale passes do to its row and its pod: the result of a step of*)
(* a job build that runs stays until the cluster loses the pod or its row  *)
(* is lost first, and a container that was given up is never kept again.   *)
KeepsContainerContract ==
    /\ \A h \in Handles : Contract(h)!Init
    /\ [][\A h \in Handles : [Contract(h)!Next]_(Contract(h)!contract)]_vars

Finished(h) ==
    /\ stepOf[h] # NoStep
    /\ build[BuildOf[stepOf[h]]] = (IF IsJob(h) THEN "cold" ELSE "over")

(* The container of a check that is over, or of a job build that is no     *)
(* longer interceptible, ends up with neither pod nor row, in whatever     *)
(* order steps, crashes, collectors and stale passes met; a row that never *)
(* left "creating" has no pod and is not collected.                        *)
Collected ==
    \A h \in Handles :
       Finished(h) /\ (pod[h] # "none" \/ row[h] \notin {"none", "creating"})
          ~> pod[h] = "none" /\ row[h] = "none"
=============================================================================

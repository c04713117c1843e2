# A TLA+ model of jetbridge

jetbridge is a Concourse whose steps run in Kubernetes pods, with a platform for
agents on top. This directory models how it keeps its promises although web nodes
come and go: who runs a build, how steps are executed, what happens to their
containers, how a durable workflow run comes to a true end, how the content of
snapshots is kept and given up, and how a node's artifact daemon serves
directories that others replace and delete. It has six component specifications,
abstract contracts that five of them implement, a composition of a step with the
contract of its build, TLC instances, and TLAPS proofs of the safety properties.
`PROJECT.json` maps every definition to the lines it models.

Paths below are relative to `src/`.

## The system

| Part | State | Operations | Talks to |
|---|---|---|---|
| Build tracker, `atc/builds` | set of builds being tracked on this web | scan started builds, track, finalize checks | engine, database |
| Engine, `atc/engine` | one `Run` per build: context, abort signal, step goroutine | run, release on drain, finish | locks, bus, exec |
| Advisory locks, `atc/db/lock` | PostgreSQL session locks, local `lockRepo` | acquire, release | database |
| Notifications, `atc/db` | LISTEN connection, coalescing signals | notify, listen, reconnect | engine, components |
| Build row, `atc/db/build.go` | status, aborted flag | start, abort, finish | scheduler, engine, tracker |
| Steps and hooks, `atc/exec` | plan and run state of one build | run, retry, time out, hooks | runtime |
| Kubernetes runtime, `atc/worker/jetbridge` | pods with annotations, exec sessions, supervisor files | attach, run, wait, annotate, kill | Kubernetes |
| Resources, `atc/resource` | result annotated on the pod | get, put, check | runtime |
| Reaper and collectors, `atc/gc`, `jetbridge/reaper.go` | container rows, missing-since, pods | list, mark, destroy | database, Kubernetes |
| Checks, `atc/lidar`, `db/check_factory.go` | scopes in flight, channel of in-memory checks | scan, create, finish | tracker |
| Scheduler, `atc/scheduler` | pending builds, next inputs | resolve inputs, start builds | database |
| Components, `atc/component` | lock per component | tick, notify, run once | everything periodic |
| Snapshots, `agent/snapshot` | digests, stages, locations, retentions | seal, collect, expire, repair, sweep | object store, daemons |
| Workflow runs and waits, `agent/workflowrun`, `workflowwait` | run status, open waits | bind, reconcile, cancel, resolve | builds, snapshots |
| Publications, `agent/publisher` | publication records | acquire, execute, complete | external systems |
| Experiments, budgets, broker, `agent/...` | cells, reservations, ledger | reserve, run, evaluate | workflow runs |
| Artifact daemon, `cmd/artifact-daemon` | step directories, aliases, mirrors | serve, resolve, sweep, mirror | peers |

What makes it hard is the same everywhere: a web node may die or drain between
any two calls; its successor knows only what the database, the pod and the pod's
file system say; and notifications, API calls and exec streams may be lost.

## The modules

### `BuildTracking` and `BuildContract`: who runs a build, and how it ends

One variable per piece of state: the build row (`status`, `aborted`), the
advisory lock (`lockHolder`), notifications between the commit of an abort and
the signal of an engine (`notifying`, `notices`, `signalled`), the process state
of a web, and for each pair of a web and a build the place in the code, `pc`.
`pc` names the next call of `Tracker.trackBuild` and `engineBuild.Run`:

    idle -> acquire -> reload -> prepare -> listen -> run -> finish -> cleanup -> release -> untrack -> idle

with the early returns of the code as the other arrows. The goroutine that
executes the plan (`result`, `adrift`) and the abort watcher (`watching`,
`signalled`) are threads of their own. `StepReturns` is the plan as the engine
sees it: it ends with any outcome. The faults are failing queries ("db"), the
lock connection replaced under a running engine ("session"), a LISTEN connection
that breaks ("listener"), drains, crashes and restarts. An unlock that fails is
a lock connection that broke before the unlock.

`BuildContract` says what a job build promises to those who watch it: it is started
once; one web at a time drives it; whoever else still executes a step of it is a
draining web; its one outcome is what the execution of the driver reported, and
"aborted" only if somebody asked; one that never started is refused. The exclusion rests on a database session: a
build that lost the session of its driver is `unlocked`, and the promises that need
one driver end for it. In the mapping a web drives while its `pc` is between Acquire
and Release, and executes while its step goroutine does, adrift or not.

Abstractions: events, plans, inputs and outputs of a build are not kept; the
transaction of `Finish` is its update of the row. In-memory checks and the
recovery from a panic are not in this module. Neither is the cancellation of
pending builds by a workflow run, which uses `MarkAsAborted` like any abort. A
pending build that the scheduler ends (`FinishPending`) is aborted, by its flag or
with the workflow run it belongs to, or errored when no plan can be made for it.

### `StepExecution`: one step's command in its pod

The pod (phase, the two annotations, the supervisor's exit and pid files, the
running copies of the command), the exec sessions in it, and per web one attempt
(`attachOrRun`, then `execProcess.Wait`). `Kind` chooses a task, an agent, or a
resource script (get, put). The places of an attempt are its API calls:

    idle -> [properties ->] attach -> run -> create -> wait -> exec -> stream -> annotate [-> cache] -> done

and `recreate`, `rewait`, `severed` are the retry loop and the error branch of
`Wait`. A session is the supervisor script, command by command: it tests the exit
file, tests whether the recorded pid lives, launches, writes the pid, polls. A
session nobody streams from may go on, or be hung up at any command; the
supervised command ignores the hangup. The guard of `Begin` is an assumption about
the rest of the system: a web begins an attempt only if the other webs have none,
or one that a drain left behind (`adrift`). `StepInBuild` discharges it. A drained
web's plan may also reach the step after its web gave the build up (`BeginLeft`).

Faults: "crash", "drain", "sever" (a broken stream), "pod" (deletion, eviction,
lack of memory, an end for no known reason), "api" (any Kubernetes call fails),
"cancel" (timeout or abort). With "api" a call that reads or writes may fail each
time; the bound on disruptions does not count these.

An error that may be retried ends the step as well where no `RetryErrorStep` is
around it (`GiveUp`): only agent steps always have that wrapper.

Abstractions: the phases of a pod keep what the error classification tells
apart; a failed pod is `evicted`, `oom`, or `failed` for no known reason. An exec
session that dies with its pod is a broken stream, not an exit status; whether a
kubelet reports 137 instead is outside the repository. The log, output streaming,
the recording of output locations, sidecars and diagnostics are left out, as is
the mode without an executor, and the number of times an agent step may be
restarted after interruptions, which is counted in the database.

`answers` collects the exit statuses the step was given from one pod; `overlap`
remembers that an attempt began beside a drained one or in a plan that was left
behind; `raced` that a launch was not covered by the pid file. They are bookkeeping:
no guard reads them.

### `StepInBuild`: a step in the build that needs it

`StepExecution` composed with `BuildContract`: of the tracking of a build no more is
known than the contract promises, and `BuildTracking` implements that. A driver
executes the plan (`running`); the plan reaches the step (`Enter`), hears the exit
status the step is given (`heard`), and ends with a report that is a success only
after a step that exited with 0 (`PlanEnds`); `finish` writes the outcome. `Run`
returns on a drain with the plan left behind, in the step or before it (`left`), and
what a web had from a step is lost when it gives the build up or dies.

Abstractions: the plan needs this one step and reaches it once per execution; whatever
else is in the plan may fail, hang or be canceled at any time. A web has one attempt
at a time: should a web that drains take the build again, it begins none beside the
one it left behind. The model ends where a tracking lock is lost: nothing is promised
afterwards.

### `ContainerLifecycle` and `ContainerContract`: rows and pods of steps

A container is a row (`row`, `owned`, `missing`), a pod and an entry of the
artifact locator, and three programs change them without a common lock. The step
finds or creates the row and then the pod; the collectors of `atc/gc` move rows
of builds that are over towards `destroying` and drop rows whose pod has been
missing for long; the reaper lists the pods once and acts on that listing call by
call:

    list -> split -> reap -> update -> destroy -> unknown -> find -> delete

Any of these calls may fail and end the pass, a deletion perhaps half done.
`listed`, `completed`, `reap`, `reported` and `doomed` are what the pass remembers
between calls. A job build is resumed after a crash and reads the results of its
steps from the pods; an in-memory check dies with its web. `build` is "cold" once
a build's containers cannot be intercepted any more.

`ContainerContract` says what a container promises to its step and its build: it is
made once, for a build that runs, and once given up it is never kept again; a
recorded result is not replaced; the container of a running job build is given up
only without a pod or with one that the last report did not have, and until then
nobody deletes its pod, which only the cluster may lose. In the mapping, for one
handle, a row in `creating` or `created` is "kept" and any other one "given up"; the
client is the kind of the step's build while that runs. `cleaner` is the place of the
reaper's pass: a pod that goes while the pass moves on was deleted, one that goes
while it stands still was lost.

Abstractions: a deleted pod is gone at once (no terminating phase), one web and
its locator, no hijacked containers, no worker states. A row that is left in
`creating` is never collected by the code, and so it is here.
`DestroyExcessCheckContainers` has no action: it selects containers owned by a
resource config check session (`container_repository.go:456`), and no step creates
one any more (`check_step.go:378` takes the owner of its build).

### `WorkflowRun` and `RunContract`: a durable workflow run

The run's row, the build selected to execute it, its waits for people, its
retention claims and its ticket, and the six programs that change them: binders,
scheduler, engine, people, canceler, reconcilers. Every transaction locks the
run's row and is one action; what a program has read in one transaction and uses
in the next is in `view`, `pending` (reconcilers) and `seen` (canceler), so the
stale decisions of the code are here. The guards are the code's compare-and-sets.
Faults are a program that dies between two calls, failing calls and the deletion
of the build.

`RunContract` says what a run promises to those who admit it: one admission; at
most one recorded outcome; one verdict, justified by that outcome, that gives up
everything retained for the run; nothing after. `WorkflowRun` implements it under
the mapping in its instance `Contract`: the three active statuses are "open", the
evidence is the copied execution status, what is retained are the claims.

The claims are those of the inputs, of accepted answers and of sealed outputs. An
output is sealed (`SealOutput`) for a run that is active, whatever its build does.

Abstractions: freezing of plans, the evidence of outputs and the content of
questions and answers are reduced to whether they succeed. The claims of outputs are
one claim.

### `SnapshotLifecycle` and `SnapshotContract`: the content of one digest

The rows of a digest (manifests per team and type, staged uploads, locations,
claims), its bytes at the nodes or in the durable store, and the digest lease.
Who holds the lease is at step `at` of its callback: a seal (stage, put, commit),
an expiry (delete and unrecord each location, recheck, delete all, mark expired),
an orphan collection, a repair (copy, record, unrecord) or a sweep of the durable
store by a listing made earlier. `output` is what each seal seals, an occurrence of
the digest for a team and a type (`Target`), and `produced` which of them have been
committed: a seal of one that was committed before is a replay, which revives the
manifests of its team and claims nothing, since the claims of an occurrence are
inserted with it. A seal may reuse any of the recorded copies that it could verify,
or, when it reached none, upload again. A claim under the lease is one transaction and so
one action that waits for the lease; claims of waits and of experiment fixtures
are checked and inserted without it (`pending`). An upload that was given up may
arrive later (`late`).

`SnapshotContract` says what a digest promises to those who seal and retain it: a
seal records its manifest and leaves the content readable; the first one of an
output retains it; what a claim taken under the lease retains is not given up; manifests expire only when nothing
retains the digest and nothing is left to read, and come back only with a seal of
their team. Damage to a replica ends the promise of readability and no other. In the
mapping content is readable when a recorded location has a copy that verifies.

Abstractions: one digest, so that batches and the order in which leases are taken
do not appear; expiry dates and ages are events; losing the lease's session
during content I/O, delayed DELETEs, the report mode of the sweep and the repair of
the durable store's metadata are left out. Outputs are those of builds; an upload
through the API claims a pin instead of a binding. The sweep is modelled as it is in
the mode "reclaim"; `atc/atccmd/command.go:339` has it off unless it is asked for,
and then `OrphansReclaimed` does not hold for the durable store.

### `ArtifactDaemon` and `ArtifactContract`: one node's artifact daemon

Directories `steps/{handle}/{output}` (`tree`: none, whole or torn; `old`: the
mtime of the handle is before the sweeper's cutoff), the `ReadGuard` (a
readers/writer lock per handle, with Go's rule that a waiting writer keeps new
readers out), the registry with its aliases and their file, requests of six kinds
and the TTL sweeper. `pc` names the next call of a handler between two lock
operations; `src` is the path it opened. Faults: a removal that fails half way, a
publication that is cut off or whose rename fails, a restart. A restart enters what
`ScanHostPath` finds and overrides it with the aliases that `LoadAliases` finds valid
(`Restart`), or with a part of either, when a directory, the alias file or one of its
paths cannot be read (`RestartBlind`). A save of the aliases may fail at any time; the
code logs that and goes on, and `unsaved` remembers it until the next save.

`ArtifactContract` is a store of whole artifacts without locks, registry or mtimes:
a path is empty, full, changing or damaged. It is read only while full (or damaged
by an earlier mishap) and changed only while nobody else reads beside it; a handle
expires as a whole, when it was not used for its time; only a mishap (a failed
removal, a cut-off publication, a restart) leaves damage. In the mapping a torn tree
is "changing" while a handler or the sweeper is at work on it and "damaged" after
that; a reader reads from the open under the guard to the end of the walk or copy.

Abstractions: the files of a directory are its three states; the cutoff of a pass
is over-approximated (`Age` may happen during the pass); admission to the resolve
slots is a free choice, as they are shared with other resolves; a peer is a free
choice of hit or miss. Not modelled: flat files of PUT, HEAD (the open of a GET
without its walk), receipts, snapshots kept by the daemon, the worker pool and
the mirror status, temporary directories. Two branches need a directory to change
under a side of the guard that excludes its change, which only somebody outside of
the daemon could do, and are left out: `fetchPeerArtifact` cleans up when the parent
of its destination was replaced (`server.go:2050`), and a GET whose second open fails
releases the guard before it drops the entry (`server.go:142`).

### `MC*` modules

They only name the values of the constants. Webs and sessions are symmetric in
the safety runs of tracking and steps; runs with a liveness property use no
symmetry.

## What the runs check

Bounds. Two webs are enough for every race between a driver and its successor:
no property relates three. One build per run: builds share no state but the
listener and the process of a web, and faults of those hit one build as they hit
many. `MaxDisruptions` counts drains, crashes and the like: 1 for a job build with
every kind of fault and aborts, 2 for check builds, 2 or 3 for steps, so that a
fault hits the recovery from another. Two sessions are one that outlived its web
and one that took over; `MaxLaunches` of 2 or 3 leaves room for copies beside and
after a first. In `step_build` one launch is what `SuccessIsExitZero` is about, and
one disruption is enough to move the build from one web to the other. Exit codes 0
and 1 are success and failure. A task is an agent without the kill script, and a
failing API would never let `StepConcludes` come true: `step_agent` leaves out both,
and the theorems, which hold for every `Kind` and every set of faults, cover their
safety.

`lifecycle` has two handles for two steps, so that a check and a job build are
reaped in one pass. `workflow` has one binder and one reconciler; two people race
for one wait with a default. `snapshot` has two seals, of the same output, of
outputs of two types, or of two teams (`Scenarios`), a second node for replicas, and
one claim of each sort: an input claim is taken like a pin, a wait's like a
fixture's. In `artifact` one request reads, mirrors, registers or
resolves and the other replaces, deletes, registers or resolves, over two outputs
of one handle and one of another; the retry bound is 2 instead of 8. One fault
each; the proofs are for any number of everything.

| Run | Shows |
|---|---|
| `tracking_job` | with aborts and every fault: the inductive invariant `TrackingInv`, of which it is a part that who drives a build holds its lock (`DriverHoldsLock`); `BuildContract` is implemented (`KeepsBuildContract`); every return of `Run` gives it back (`NoLockLeak`); two webs execute steps of a build only while one drains (`StepsOverlapOnlyInDrain`) |
| `tracking_check` | the lock discipline (`TrackingInv`) for check builds, which the tracker also finalizes without the lock |
| `tracking_live` | a started job build is resumed until it has an outcome or is aborted (`StartedBuildFinishes`); an abort requested while the engine listens ends the plan (`ListenedAbortCancels`) |
| `step_agent` | with every fault but "api": the inductive invariant `StepInv`; one copy of a supervised command at a time (`OneCopy`); whatever web reports the step reports the command's exit status (`AnswersAreTheExit`); once the disruptions stop, the step ends (`StepConcludes`) |
| `step_resource` | a completed pod is not executed in again (`CompletedNotRerun`), for get and put |
| `step_build` | with every fault: what `StepExecution` assumes of its environment follows from `BuildContract` (`KeepsStepExecution`); the build succeeds only if the command of the step exited with 0 (`SuccessIsExitZero`) |
| `lifecycle` | `LifecycleInv`; the reaper deletes a pod of a running job build only after its row was lost (`KeptWhileRunning`); `ContainerContract` is implemented for every container (`KeepsContainerContract`), of which it is a part that a row whose pod was reported is not dropped as missing while its job build runs; containers of finished builds lose pod and row (`Collected`) |
| `workflow` | `RunInv`, of which it is a part that the verdict is what the build did (`TruthfulOutcome`) and that no claim survives it (`ClaimsReleased`); the verdict is final (`HistoryImmutable`); an accepted answer is not replaced (`AcceptedAnswerKept`); the canceler's four attempts suffice (`AttemptsSuffice`); every run settles with its waits and its ticket (`RunSettles`); `RunContract` is implemented (`KeepsContract`) |
| `snapshot` | `SnapshotInv`; a team's manifests of a digest agree (`SiblingsCoherent`); `SnapshotContract` is implemented (`KeepsSnapshotContract`); the sweep leaves young objects (`YoungObjectKept`); unretained content expires, orphans go, replicas come back (`UnretainedExpires`, `OrphansReclaimed`, `ReplicasRestored`) |
| `artifact` | `DaemonInv`; `ArtifactContract` is implemented (`KeepsArtifactContract`); nobody waits in a circle (`NoCircularWait`); nothing changes under a reader (`WalkedUntouched`); partial trees are behind the exclusive side (`PartialInvisible`); the sweeper spares what was touched (`FreshKept`); the registry forgets only what is gone, and a restart that can read its disk besides only what no save had recorded (`RegistrationKept`); every request ends (`AllServed`); expired handles go (`ExpiredReclaimed`) |

`CHECK_DEADLOCK FALSE` is where the system may stop: a step that is done, a
container that is collected, content that is settled, a daemon whose requests are
served (each request of the model comes once). In the step runs `MaxLaunches` also
stops a session that would launch once more.

### Where the code does not do what the repository says

Two runs check one sentence of a comment or a test and find a counterexample;
`PROJECT.json` quotes the sentence.

- `tracking_missed`: an abort notified before the engine registers its signal is
  not seen by the plan; the row is not looked at again.
- `workflow_bypass`: the reconciler closes an overdue, empty admission as errored
  although a build was linked to it after the inspection; the build then runs for
  a terminal run. `Finalize` compares status, execution status and plan, not the
  link.

The models have the following behaviours too. They contradict what the repository
says, so no property states the opposite and the properties above are worded
around them.

- Aborts: `handleReconnect` is never called, since the listener
  (`atc/db/listener.go:118`) sends nothing when it has reconnected; a notification
  lost meanwhile stays lost, although `notifications_bus.go:118` says that
  listeners "discover anything missed during the reconnect". `ListenedAbortCancels`
  is therefore checked with the connection up.
- Checks: a web that did not get the lock of a check build marks it as errored
  while the web with the lock executes it (`builds/tracker.go:109`).
- Agents: an abort that reaches a web while it re-attaches to a running agent
  ends the step and does not stop the agent (`process.go:847`, against the comment
  at 1144).
- Resources: a failed get or put is replayed as successful after a restart, since
  its empty result was cached (`resource.go:73`); one failing read of the pod in
  `Attach` executes a completed get or put again (`container.go:341`, against
  312), hence the assumption on "api" in `CompletedNotRerun`; a crash between the
  two annotations of a get or put makes the replay of a successful script an error.
- Supervisor: its tests, its launch and the write of the pid are not atomic, so a
  session from before a web restart may lead to a second launch (`raced`, which
  `OneCopy` exempts).
- Locator: the entries of an ordinary finished step stay for ever: its completed
  pod is deleted first, so its row is dropped before `FindDestroyingContainers`
  could return it (`reaper.go:209`, while 424 calls that "the locator's sole
  reclaim path").
- Containers: a row may be dropped as missing between `FindContainer` and the
  creation of the pod, whereupon the pod is adopted as unknown and destroyed under
  the running step; `KeptWhileRunning` names that case. In-memory checks that run
  for more than five minutes lose their container.
- Snapshots: two teams that have sealed the same bytes disagree once the content
  expired and one of them seals again: `CommitSealBatch` revives the manifests of
  one team (`agent_snapshots_factory.go:221`, as the test at
  `agent_snapshots_factory_test.go:1541` wants, while `agent/snapshot/store.go:884`
  says that it "transitions every semantic sibling manifest for that digest"), and
  `DigestState.Validate` rejects every later use of the digest. The run has two teams
  and these states. `SiblingsCoherent` is therefore stated team by team, and what
  needs a digest that can be handled, `UnretainedExpires` and `ReplicasRestored`,
  exempts one that is not `Coherent`.
- Snapshots: a wait's or a fixture's claim may be inserted between the recheck of
  an expiry and its deletions: the snapshot is then retained, available and empty.
  A collector that dies after the deletions also leaves "available" rows without
  content, which can still be pinned. Hence the word leased in
  `RetainedStaysReadable`. Late uploads to a node (unlike the durable store) that
  no row mentions are never reclaimed, and neither is what a failed re-seal of an
  expired digest stored.
- Workflow: an answer that was accepted but not completed when the build fails is
  dropped with its wait. A canceler that dies after its transition leaves the build
  running until it ends or the cancel is repeated. An answer that can never be
  completed keeps its run from being finalized.
- Daemon: an alias whose save failed is lost at the next restart, although its
  request was answered as successful; the comment at `main.go:118` has the mappings
  "survive restarts". `RegistrationKept` names that case, and a restart that could not
  read its disk, after which the daemon does not know what it has
  (`main.go:123` and 129 call that non-fatal).
- Daemon: a removal that fails or a publication that is cut off leaves a torn tree
  at the final path, although `server.go:1287` says partial state "must never be
  visible"; hence `faults = 0` in `PartialInvisible`.

### Fairness

`BuildTracking`: the component runner ticks on every web, so some web scans again
and again; goroutines that can go on do; a drained process exits and is restarted
by its supervisor; PostgreSQL ends dead sessions and delivers what it queued. All
of it is weak fairness. `tracking_live` adds strong fairness of a successful end
of the plan of a build that is not aborted: a plan that is run again and again
does not fail with a retriable error for ever. The code has no bound on these
retries, so without it `StartedBuildFinishes` does not hold. An aborted build is
exempt from both: that its plan ends is `ListenedAbortCancels`.

`StepExecution`: weak fairness of sessions, of attempts (the tracker runs the plan
of a started build again), of the start of a pending pod and of the end of the
command. No fault is fair, and their number is bounded.

`ContainerLifecycle`: the reaper and the collectors are components that run at an
interval; nothing is assumed of steps and builds, `Collected` is about builds that
are over.

`WorkflowRun`: scheduler and reconcilers run at an interval, a build that runs ends,
deadlines pass. Nobody has to bind, answer or cancel.

`SnapshotLifecycle`: the passes keep being scheduled, a callback goes on or fails,
uploads under way arrive, stages lapse, objects age and bindings expire. Nobody
has to seal, claim or unclaim.

`ArtifactDaemon`: handlers and the sweeper go on. The end of a request's context,
which would free a waiting handler, is not needed for `AllServed`. Each request comes
once: that an endless stream of readers does not starve the sweeper's attempts to
lock a handle is not claimed.

`RunSettles`, `AllServed`, `ExpiredReclaimed`, `UnretainedExpires` and
`ReplicasRestored` are stated with infinitely often, the last two of them under a
condition that holds from some point on. It is what leads-to would say of conditions
that end only by what is wanted, and much cheaper for TLC.

## What is proved

The theorems hold for any webs, builds, sessions, exit codes, steps, handles,
binders, reconcilers, people, waits, teams, types, outputs, sealers, nodes, requests,
paths, sets of faults and bounds. The assumptions on the constants are those named
in the modules: kinds of builds are disjoint, the values for "nobody" and
"nothing" are not among the real ones, 0 is an exit code, handles and paths are
numbers (the order of handles is their lexical order) and there is a last handle
(they are UUIDs), the set of nodes is finite, the bounds are natural numbers. TLC evaluates them in every run.

Each module of proofs shows an invariant to be inductive, action by action, and
derives the properties from it.

`BuildTrackingProofs`

- `TypeCorrect`, `TrackingInvariant`: `TypeOK` and `TrackingInv` are invariants.
  `DriverHoldsLock` is not inductive alone. It needs that a web is registered for
  a build exactly while it drives it, and that no web holds a lock without
  driving; `JobFinishesOnce`, that an outcome is never overwritten, needs that what
  a web works on, after its reload under the lock, is still started, which in turn
  needs that only started builds are tracked.
- `DriverHolds`, `LocksReturned`, `OverlapOnlyInDrain`: the three lock properties.
- `BuildContractKept`: every step of the model is, for every job build, a step of
  `BuildContract` or one that the contract does not see; `EachBuildKeepsContract`
  is the same as `Spec => Contract(b)!Spec`. A step of one web moves one pair of a web
  and a build, so most actions are settled by three lemmas (`Unseen`, `MovesOn`,
  `ExecutesNothing`); what is left are the guards of the contract: `Take` needs that
  nobody else drives, `Execute` and `Conclude` that the others who execute drain, and
  `Conclude` that the row is still started. All of it is in `TrackingInv`.
- `FinishesOnce`: the action property `JobFinishesOnce`; the only writers of a
  finished row would be an engine, which works on started builds, the scheduler,
  which ends pending ones, and the tracker's finalization, which is for checks.

`StepExecutionProofs`

- `StepInvariant`: `StepInv` is an invariant. Its parts: processes need a running
  pod; what a session sees was launched in its pod; between the liveness test and
  the pid file sessions exclude each other while nothing raced, and outside of it
  the pid file covers every copy; at most one attempt that no drain left behind;
  while there was one launch, the exit file, the sessions that have read it, the
  attempt that is about to annotate and the annotation all have the same status;
  an attempt on its way to a session has not seen an annotation.
- `OneCopyRuns`, `AnswersHold`: `OneCopy` and `AnswersAreTheExit`.
- `NotRerun`: `CompletedNotRerun`, whose statement assumes that "api" is not among
  the faults.
- `InBuildInvariant`: `InBuildInv` is an invariant of `StepInBuild`: until a tracking
  lock is lost, `StepInv` holds, who has an attempt drives the build or is adrift and
  draining (`AttemptsDriven`), and what the plan heard, its report and the outcome of
  the build are the command's (`OutcomeSettled`). The two depend on each other: that
  an attempt begins alone needs that there is one driver and that other executors
  drain, which are the guards of `Take` and `Execute` in the contract; `StepInv` needs
  that attempts begin alone; and `OutcomeSettled` needs `StepInv`, and that no driver
  begins another attempt once the build succeeded.
- `StepExecutionKept`: `KeepsStepExecution`, that every step of the composition is one
  of `StepExecution`. With `BuildContractKept` it closes the gap between the two
  components: `BuildTracking` implements the contract, and the contract gives
  `StepExecution` its assumption.
- `SuccessMeansExitZero`: `SuccessIsExitZero`, read off `OutcomeSettled`.

`ContainerLifecycleProofs`

- `LifecycleInvariant`: beside the types, a step that works on a container works
  for a running build and holds the container created for it; a row in `creating`
  or `failed` has no pod; what was reported is not missing; nothing of a running
  job build is in `reap`; an owned destroying row of a running job build has no
  pod. The last one is what makes `PodsKept` (`KeptWhileRunning`) hold for the
  deletion of destroying pods; the one before for the completed ones.
- `ReportedStay`: `ReportedNotDropped`, since a report clears `missing_since`; no run
  checks it by itself, only the part of it that the contract has.
- `ContainerContractKept`: every step of the model is, for every container, a step of
  `ContainerContract` or one that the contract does not see;
  `EachContainerKeepsContract` is the same as `Spec => Contract(h)!Spec`. There is one
  lemma for each program (`StepsSeen`, `CollectorsSeen`, `PassSeen`,
  `EnvironmentSeen`). The guard of `GiveUp` holds since a row that is dropped as
  missing is not reported and a failed creation has no pod; that of `Delete` since
  nothing of a running job build is in `reap` and what is in `doomed` is destroying;
  that of `Work` and `Record` since a step past its creation has a running build.

`WorkflowRunProofs`

- `RunInvariant`: link and build appear together; what a reconciler has inspected
  is overtaken, never contradicted (an inspected terminal build has its outcome
  copied, a build seen gone is gone); each failed attempt of the canceler means the
  status has moved on, so that it cannot be outrun four times; accepted answers
  belong to open or resolved waits.
- `OutcomesTruthful`, `RunClaimsReleased`, `CancelNeverGivesUp` are parts of it;
  `HistoryStays` and `AcceptedAnswersKept` are action properties from it.
- `ContractKept`: `Spec => Contract!Spec`. Initial states map to initial states;
  every step either leaves status, execution status and claims alone, or is an
  admission, a retention, a recording or a closing, justified by
  `TruthfulOutcome`.

`SnapshotLifecycleProofs`

- `SnapshotInvariant`: lease and phase fit; a collection is under way only of
  available content that no leased claim retains; a discard or a sweep only of
  content without a manifest; a repair knows a good copy that it keeps; a listed
  object was old.
- `SealedReadable`, `RetainedReadable`, `YoungObjects`: the properties of content.
  `RetainedStaysReadable` says that no step takes the last copy of what a leased claim
  retains; the run checks it as a part of the contract.
- `SnapshotContractKept`: `Spec => Contract!Spec`. A step that only changes which
  copies there are is seen as nothing, as content given up, which needs that no
  leased claim is in force or a replica was damaged, or as content restored, which
  needs an available manifest (`CopiesSeen`); the invariant's phases give the first,
  and that nothing is recorded without an available manifest the second. Seals,
  claims, the expiry and damage are steps of the contract by name (`SealSeen`,
  `ClaimSeen`, `ExpirySeen`, `DamageSeen`).
- `TeamSiblingsCoherent`: `SiblingsCoherent`, for any number of teams: a commit
  revives all manifests of its team in one transaction, and an expiry marks those of
  every team.

`ArtifactDaemonGuard`, `ArtifactDaemonProofs`, `ArtifactDaemonWaits` (types, and who
holds and changes what; the invariant, the properties and the contract; who waits
for whom)

- `DaemonInvariant`: a writer is alone on its handle; each handler holds the sides
  it relies on where it relies on them, and nobody holds or awaits a side without
  being at work under it (`GuardInv`); a directory changes only under the exclusive
  side; what is about to be dropped from the registry is gone; between a mutation and
  its save an actor holds `persistMu` and the latest copy; a partial tree has
  somebody at work on it, and what is being removed or refilled is not whole
  (`WorkInv`).
- `WalksNeverDisturbed`, `PartialNeverVisible`, `FreshAlwaysKept`,
  `RegistrationsKept`, `AliasesAlwaysSaved`: the properties. `AliasesSaved`, that
  the file holds every alias unless a save is under way or the last one failed, is
  what makes a restart keep the registrations. A save writes all aliases, so the next
  one makes good for one that failed.
- `GuardReturned`: whatever way a handler returns, the guard is given back.
- `ArtifactContractKept`: `Spec => Contract!Spec`. A lemma for each way a step may
  look (`QuietStep`, `TouchStep`, `ReadStep`, `ChangeStep`, `ClearStep`, `PutStep`,
  the expiry and the mishaps) reduces the cases of the actions to one of them. That
  no reader is beside a change follows from the guard, that a finished removal
  leaves nothing and a publication something from `WorkInv`.
- `NobodyDeadlocks`: `NoCircularWait`, that there is no set of actors each of which
  waits for another of the set. `Blockers` reads off the guards of the actions whom
  an actor waits for: the holders of a handle, a writer that was announced before,
  the holder of `persistMu`. A rank grows along every wait: it starts from the handle
  that is waited for, and holders of a handle wait only for later ones
  (`RequestAscends`, `SweeperAscends`). In a circle somebody has the highest rank
  (`LargestOf`) and waits for somebody higher. `GuardInv` is what bounds the rank of
  a holder; the last handle bounds the ranks.

The proofs are long because they go action by action; lemmas about who changes what
(`OwnAttempt`, `PodLeavesAttempts`, `RequestOthers`, `RequestWrites`, `SweepWrites`)
keep the steps short.

Only model-checked: the liveness properties, which need fairness (the contracts
promise safety only), and the two counterexamples. That no circle of waits exists is
proved; that the daemon's requests therefore end (`AllServed`) is not.

## Plan

1. `CheckTracking`: scanner, `inFlightChecks`, the channel, in-memory checks and
   the tracker. No scope stays in flight for ever; no second check of a scope.
   `builds/tracker.go:87` drops a check without `Finish`.
2. `StepComposition`: outcomes of nested hooks, `in_parallel`, `across`, `retry`,
   `timeout` as a pure algorithm, checked against a reference definition; the
   semaphore of `in_parallel` as a state machine.
3. An abstract specification of a step (runs, has one exit status) that
   `StepExecution` implements for supervised kinds.
4. `ContainerLifecycle` composed with `StepExecution`'s pod; several digests and
   the sorted acquisition of leases in `SnapshotLifecycle`; the worker pool and the
   mirror of the artifact daemon.
5. Publications, the component coordinator, the build starter with its limits on
   builds in flight, agent restarts and budgets.

## Not modelled

Authentication, the API and configuration validation, credential managers,
templating, metrics and tracing, clients and the web interface: they are pure
functions of a request, presentation, or access to external services. SQL is
modelled by what a statement does to the rows a property tells apart. Timeouts
are events that may happen at any time.

Within reach and planned, but not modelled: in-flight scopes and the channel of
in-memory checks, the composition of steps, the input algorithm, publications,
budgets, the broker, the component coordinator's own lock. What is left out of the
modelled parts is under "Abstractions" of each module. Some of it has effects of
its own that the models do not show:

- the artifact daemon's `RemoveByPath` compares with `HasPrefix` and no separator,
  which is exact only for handles of equal length; `LoadAliases` overrides the scan
  at a start, so a key may go back to an older alias after a restart; a full queue
  makes `Submit` of the worker pool block, and a job submitted while the pool stops
  may never run; the mirror status of earlier content makes `Evacuate` skip newer
  content; registrations outside the guard may leave entries that heal at the next
  lookup;
- a digest lease whose session is lost during content I/O no longer excludes
  anybody;
- a drained web annotates the pod by its name, perhaps after another web has
  replaced it (`overlap` exempts this).

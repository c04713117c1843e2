--------------------------- MODULE StepExecution ---------------------------
(***************************************************************************)
(* How the command of one build step is executed in its pod, and how its   *)
(* exit status reaches the build although webs come and go.                *)
(*                                                                         *)
(* A step has one container handle, hence one pod name, on every web.  An  *)
(* attempt (attachOrRun, then Process.Wait; atc/worker/jetbridge           *)
(* container.go, process.go) looks for the exit status annotated on the    *)
(* pod, else creates or reuses the pod, opens an exec session into it, and *)
(* annotates the exit status.  Tasks and agents run under the supervisor   *)
(* script (supervisor.go), whose tests and writes are steps of their own:  *)
(* a session outlives the web that opened it until its terminal hangs up.  *)
(* Resource scripts (get, put) are the session's own process, and their    *)
(* result is annotated on its own (atc/resource/resource.go).              *)
(***************************************************************************)
EXTENDS Integers, FiniteSets

CONSTANTS
    Webs,           \* web nodes
    Sessions,       \* exec sessions that may exist at a time
    NoSession,      \* the attempt has no session
    Kind,           \* "task", "agent" or "resource"
    Codes,          \* exit codes the command may end with
    Faults,         \* the faults of the environment that may happen
    MaxLaunches,    \* bound on the copies started in one pod
    MaxDisruptions  \* bound on crashes, drains, severs, lost pods and cancels

FaultKinds == {"crash", "drain", "sever", "pod", "api", "cancel"}
NoCode == -1
Unknown == 255      \* what the supervisor exits with when it finds no exit file
MaxExecRetries == 2

ASSUME KindAssumption == Kind \in {"task", "agent", "resource"}
ASSUME CodesAssumption == Codes \subseteq Nat /\ 0 \in Codes
ASSUME SessionAssumption == NoSession \notin Sessions
ASSUME FaultAssumption == Faults \subseteq FaultKinds
ASSUME BoundsAssumption == MaxLaunches \in Nat /\ MaxDisruptions \in Nat

VARIABLES
    \* the pod with the step's name
    phase,       \* "none" or its phase; "evicted" and "oom" are kinds of Failed
    exitAnn,     \* annotation concourse.ci/exit-status
    resultAnn,   \* annotation concourse.ci/resource-result is set
    exitFile,    \* the supervisor's exit file
    pidFile,     \* the copy whose pid the supervisor's pid file has, 0 if none
    copies,      \* copies of the command that are running
    launches,    \* copies started in this pod
    \* the exec sessions in the pod
    place,       \* place[s]: the next command of the supervisor script
    copyOf,      \* copyOf[s]: the copy s has started
    exitOf,      \* exitOf[s]: the exit status of s
    \* the attempt of a web
    pc,          \* pc[w]: the next call of the attempt
    session,     \* session[w]: the session the attempt streams from
    got,         \* got[w]: the exit status the attempt has
    tries,       \* tries[w]: failed calls of ExecInPod
    recreated,   \* webs whose waitForRunning has replaced the pod once
    dead,        \* webs whose step context is cancelled or expired
    adrift,      \* webs whose engine was drained and left the attempt behind
    \* bookkeeping
    answers,     \* exit statuses the step was given from this pod
    overlap,     \* an attempt began beside a drained one, or in a drained plan
    raced,       \* the launch of a copy was not covered by the pid file
    disruptions

podVars == <<phase, exitAnn, resultAnn, exitFile, pidFile, copies, launches>>
sessionVars == <<place, copyOf, exitOf>>
attemptVars == <<pc, session, got, tries, recreated, dead, adrift>>
bookVars == <<answers, overlap, raced, disruptions>>
vars == <<podVars, sessionVars, attemptVars, bookVars>>

Statuses == Codes \cup {Unknown}
Phases == {"none", "pending", "running", "succeeded", "failed", "evicted", "oom"}
Ended == {"succeeded", "failed", "evicted", "oom"}
SessionPlaces == {"closed", "testExit", "testAlive", "launch", "writePid", "poll", "exited"}
AttemptPlaces == {"idle", "properties", "attach", "run", "create", "wait", "exec",
                  "recreate", "rewait", "stream", "severed", "annotate", "cache",
                  "done", "failed"}
Active(w) == pc[w] \notin {"idle", "done", "failed"}
Supervised == Kind # "resource"

Init ==
    /\ phase = "none" /\ exitAnn = NoCode /\ resultAnn = FALSE
    /\ exitFile = NoCode /\ pidFile = 0 /\ copies = {} /\ launches = 0
    /\ place = [s \in Sessions |-> "closed"]
    /\ copyOf = [s \in Sessions |-> 0]
    /\ exitOf = [s \in Sessions |-> NoCode]
    /\ pc = [w \in Webs |-> "idle"]
    /\ session = [w \in Webs |-> NoSession]
    /\ got = [w \in Webs |-> NoCode]
    /\ tries = [w \in Webs |-> 0]
    /\ recreated = {} /\ dead = {} /\ adrift = {}
    /\ answers = {} /\ overlap = FALSE /\ raced = FALSE /\ disruptions = 0

Disrupt(kind) ==
    /\ kind \in Faults
    /\ disruptions < MaxDisruptions
    /\ disruptions' = disruptions + 1

----------------------------------------------------------------------------
(* The pod, as the cluster runs it                                         *)

\* Every process in the pod is gone, and every session with it.
ProcessesGone ==
    /\ copies' = {}
    /\ place' = [s \in Sessions |-> "closed"]
    /\ exitOf' = [s \in Sessions |-> NoCode]
    /\ UNCHANGED copyOf

\* Nothing is left of the pod; p is what there is in its stead.
PodReplaced(p) ==
    /\ phase' = p
    /\ exitAnn' = NoCode /\ resultAnn' = FALSE
    /\ exitFile' = NoCode /\ pidFile' = 0 /\ launches' = 0
    /\ answers' = {}
    /\ ProcessesGone

PodStarts ==
    /\ phase = "pending"
    /\ phase' = "running"
    /\ UNCHANGED <<exitAnn, resultAnn, exitFile, pidFile, copies, launches,
                   sessionVars, attemptVars, bookVars>>

\* The pod is deleted, or ends by itself, by an eviction or for lack of memory.
PodLost(p) ==
    /\ Disrupt("pod")
    /\ phase \in {"pending", "running"} \/ (p = "none" /\ phase # "none")
    /\ IF p = "none"
       THEN PodReplaced("none")
       ELSE /\ phase' = p
            /\ ProcessesGone
            /\ UNCHANGED <<exitAnn, resultAnn, exitFile, pidFile, launches, answers>>
    /\ UNCHANGED <<attemptVars, overlap, raced>>

----------------------------------------------------------------------------
(* An exec session: the supervisor script of atc/worker/jetbridge/         *)
(* supervisor.go, or the resource script itself                            *)

Launching == {"launch", "writePid"}
Step(s, to) == place' = [place EXCEPT ![s] = to]

\* [ ! -f "$S/exit" ] of the test that decides whether to launch.
TestExit(s) ==
    /\ place[s] = "testExit"
    /\ Step(s, IF exitFile = NoCode THEN "testAlive" ELSE "poll")
    /\ UNCHANGED <<podVars, copyOf, exitOf, attemptVars, bookVars>>

\* ... && ! alive: the process of the pid file does not run.
TestAlive(s) ==
    /\ place[s] = "testAlive"
    /\ IF pidFile \in copies
       THEN Step(s, "poll") /\ UNCHANGED raced
       ELSE /\ Step(s, "launch")
            /\ raced' = (raced \/ \E t \in Sessions : place[t] \in Launching)
    /\ UNCHANGED <<podVars, copyOf, exitOf, attemptVars, answers, overlap, disruptions>>

\* ( trap '' HUP; command & wait; ... ) &
Launch(s) ==
    /\ place[s] = "launch"
    /\ launches < MaxLaunches
    /\ launches' = launches + 1
    /\ copies' = copies \cup {launches + 1}
    /\ copyOf' = [copyOf EXCEPT ![s] = launches + 1]
    /\ Step(s, "writePid")
    /\ UNCHANGED <<phase, exitAnn, resultAnn, exitFile, pidFile, exitOf, attemptVars, bookVars>>

\* Mutant: the pid file is not written.
WritePidLost(s) ==
    /\ place[s] = "writePid"
    /\ Step(s, "poll")
    /\ UNCHANGED <<podVars, copyOf, exitOf, attemptVars, bookVars>>

\* echo $! >"$S/pid"
WritePid(s) ==
    /\ place[s] = "writePid"
    /\ pidFile' = copyOf[s]
    /\ Step(s, "poll")
    /\ UNCHANGED <<phase, exitAnn, resultAnn, exitFile, copies, launches, copyOf,
                   exitOf, attemptVars, bookVars>>

\* Mutant: the exit file is only trusted while the copy is alive.
PollNoRecheck(s) ==
    /\ Supervised
    /\ place[s] = "poll"
    /\ exitFile # NoCode \/ pidFile \notin copies
    /\ Step(s, "exited")
    /\ exitOf' = [exitOf EXCEPT ![s] = IF pidFile \in copies THEN exitFile ELSE Unknown]
    /\ UNCHANGED <<podVars, copyOf, attemptVars, bookVars>>

\* The while loop ends when there is an exit file or nothing is alive; the exit
\* file is looked at again afterwards.
Poll(s) ==
    /\ Supervised
    /\ place[s] = "poll"
    /\ exitFile # NoCode \/ pidFile \notin copies
    /\ Step(s, "exited")
    /\ exitOf' = [exitOf EXCEPT ![s] = IF exitFile # NoCode THEN exitFile ELSE Unknown]
    /\ UNCHANGED <<podVars, copyOf, attemptVars, bookVars>>

\* The command ends.  The supervisor's subshell renames exit.tmp to exit; a
\* resource script is its session.
CommandEnds(n, code) ==
    /\ n \in copies
    /\ copies' = copies \ {n}
    /\ IF Supervised
       THEN exitFile' = code /\ UNCHANGED <<place, exitOf>>
       ELSE LET mine == {s \in Sessions : place[s] = "poll" /\ copyOf[s] = n} IN
            /\ place' = [s \in Sessions |-> IF s \in mine THEN "exited" ELSE place[s]]
            /\ exitOf' = [s \in Sessions |-> IF s \in mine THEN code ELSE exitOf[s]]
            /\ UNCHANGED exitFile
    /\ UNCHANGED <<phase, exitAnn, resultAnn, pidFile, launches, copyOf, attemptVars, bookVars>>

\* A session nobody streams from ends at any command.  A supervised copy ignores
\* the hangup; a resource script may die of it.  A copy whose launcher ends
\* before it has written the pid file is not covered by it.
Hangup(s) ==
    /\ place[s] # "closed"
    /\ \A w \in Webs : session[w] # s
    /\ Step(s, "closed")
    /\ raced' = (raced \/ place[s] = "writePid")
    /\ exitOf' = [exitOf EXCEPT ![s] = NoCode]
    /\ \/ UNCHANGED copies
       \/ ~Supervised /\ copies' = copies \ {copyOf[s]}
    /\ UNCHANGED <<phase, exitAnn, resultAnn, exitFile, pidFile, launches, copyOf,
                   attemptVars, answers, overlap, disruptions>>

----------------------------------------------------------------------------
(* An attempt: attachOrRun and execProcess.Wait                            *)

Goto(w, to) == pc' = [pc EXCEPT ![w] = to]

\* What the attempt had in memory is gone.
Forget(w) ==
    /\ session' = [session EXCEPT ![w] = NoSession]
    /\ got' = [got EXCEPT ![w] = NoCode]
    /\ tries' = [tries EXCEPT ![w] = 0]
    /\ recreated' = recreated \ {w}
    /\ adrift' = adrift \ {w}

\* The attempt is over.  Nobody waits for the result of a drained one.
Return(w, to) ==
    /\ Goto(w, IF w \in adrift THEN "idle" ELSE to)
    /\ Forget(w)
    /\ UNCHANGED dead

\* The step is given an exit status.
Answer(w, code) ==
    /\ Return(w, "done")
    /\ answers' = IF w \in adrift THEN answers ELSE answers \cup {code}
    /\ UNCHANGED <<overlap, raced, disruptions>>

\* An error that RetryErrorStep makes retriable unless the step timed out or its
\* build is aborted: the build stays started and its plan is run again.  Agent
\* steps always have that wrapper, the others if reruns are enabled.
GiveUp(w) ==
    /\ \/ w \notin dead /\ Return(w, "idle")
       \/ (w \in dead \/ Kind # "agent") /\ Return(w, "failed")
    /\ UNCHANGED bookVars

\* An error that ends the step.
Fail(w) ==
    /\ Return(w, "failed")
    /\ UNCHANGED bookVars

\* The plan reaches the step.
Reach(w) ==
    /\ pc[w] = "idle"
    /\ Goto(w, IF Supervised THEN "attach" ELSE "properties")
    /\ dead' = dead \ {w}
    /\ UNCHANGED <<podVars, sessionVars, session, got, tries, recreated, answers, raced>>

\* The plan of a web that drives the build does.
Arrive(w) ==
    /\ Reach(w)
    /\ overlap' = (overlap \/ adrift # {})
    /\ UNCHANGED <<adrift, disruptions>>

\* An attempt begins: at first, after a retriable error, and once more after a
\* restart of the web that had the result.  The tracking lock of the build keeps
\* other webs from having one that is not adrift (StepInBuild).
Begin(w) ==
    /\ \A v \in Webs : pc[v] # "idle" => v \in adrift
    /\ Arrive(w)

\* Mutant: a script that failed is run again.
PropertiesRetryFailed(w) ==
    /\ pc[w] = "properties"
    /\ \/ phase # "none" /\ resultAnn /\ exitAnn = 0 /\ Answer(w, 0)
       \/ /\ phase = "none" \/ exitAnn # 0
          /\ Goto(w, "run")
          /\ UNCHANGED <<session, got, tries, recreated, dead, adrift, bookVars>>
    /\ UNCHANGED <<podVars, sessionVars>>

\* Resource.Get / Put: a cached result is the answer, whatever the exit status
\* was.  An exit status without a result is an exited process for Attach, whose
\* output is empty: no error for a script that failed, one for the others.
Properties(w) ==
    /\ pc[w] = "properties"
    /\ \/ phase # "none" /\ resultAnn /\ Answer(w, 0)
       \/ /\ phase # "none" /\ ~resultAnn /\ exitAnn # NoCode
          /\ IF exitAnn = 0 THEN Fail(w)
             ELSE /\ Goto(w, "cache")
                  /\ got' = [got EXCEPT ![w] = exitAnn]
                  /\ UNCHANGED <<session, tries, recreated, dead, adrift, bookVars>>
       \/ /\ phase = "none" \/ (~resultAnn /\ exitAnn = NoCode) \/ "api" \in Faults
          /\ Goto(w, "attach")
          /\ UNCHANGED <<session, got, tries, recreated, dead, adrift, bookVars>>
    /\ UNCHANGED <<podVars, sessionVars>>

\* Container.Attach: the annotated exit status, or an error that sends
\* attachOrRun to Run.
Attach(w) ==
    /\ pc[w] = "attach"
    /\ \/ /\ phase # "none" /\ exitAnn # NoCode /\ w \notin dead
          /\ CASE Supervised -> Answer(w, exitAnn)
               [] ~Supervised /\ exitAnn = 0 -> Fail(w)
               [] OTHER -> /\ Goto(w, "cache")
                           /\ got' = [got EXCEPT ![w] = exitAnn]
                           /\ UNCHANGED <<session, tries, recreated, dead, adrift, bookVars>>
       \/ /\ phase = "none" \/ exitAnn = NoCode \/ w \in dead \/ "api" \in Faults
          /\ Goto(w, "run")
          /\ UNCHANGED <<session, got, tries, recreated, dead, adrift, bookVars>>
    /\ UNCHANGED <<podVars, sessionVars>>

\* Container.Run: reuse a pod that is not over, delete one that is.
Run(w) ==
    /\ pc[w] = "run"
    /\ \/ /\ phase \in {"pending", "running"} /\ w \notin dead
          /\ Goto(w, "wait")
          /\ UNCHANGED <<podVars, sessionVars, answers>>
       \/ /\ phase \in Ended /\ w \notin dead
          /\ PodReplaced("none")
          /\ Goto(w, "create")
       \/ /\ phase = "none" \/ w \in dead \/ "api" \in Faults
          /\ Goto(w, "create")
          /\ UNCHANGED <<podVars, sessionVars, answers>>
    /\ UNCHANGED <<session, got, tries, recreated, dead, adrift, overlap, raced, disruptions>>

\* createPausePod for Run: the name may be taken.
Create(w) ==
    /\ pc[w] = "create"
    /\ \/ /\ phase = "none" /\ w \notin dead
          /\ PodReplaced("pending")
          /\ Goto(w, "wait")
          /\ UNCHANGED <<session, got, tries, recreated, dead, adrift, overlap, raced, disruptions>>
       \/ /\ phase # "none" /\ w \notin dead
          /\ Fail(w)
          /\ UNCHANGED <<podVars, sessionVars>>
       \/ /\ w \in dead \/ "api" \in Faults
          /\ GiveUp(w)
          /\ UNCHANGED <<podVars, sessionVars>>

\* waitForRunning sees the pod run.
PodRuns(w) ==
    /\ pc[w] \in {"wait", "rewait"}
    /\ phase = "running" /\ w \notin dead
    /\ Goto(w, "exec")
    /\ UNCHANGED <<podVars, sessionVars, session, got, tries, recreated, dead, adrift, bookVars>>

\* waitForRunning replaces, once, a pod that failed for no known reason.
ReplaceFailedPod(w) ==
    /\ pc[w] \in {"wait", "rewait"}
    /\ phase = "failed" /\ w \notin dead \cup recreated
    /\ PodReplaced("pending")
    /\ recreated' = recreated \cup {w}
    /\ UNCHANGED <<pc, session, got, tries, dead, adrift, overlap, raced, disruptions>>

\* Mutant: the watch does not report that the pod was deleted.
WaitIgnoresDeletion(w) ==
    /\ pc[w] = "wait" /\ w \notin dead
    /\ phase \in {"pending", "succeeded", "oom", "failed"}
    /\ Fail(w)
    /\ UNCHANGED <<podVars, sessionVars>>

\* waitForRunning fails.  In the retry loop the error of the exec stays; before
\* it, a deleted or evicted pod is an interruption and API errors are transient,
\* which is retriable; a pod that ended or does not start is an error.
WaitFails(w) ==
    /\ \/ w \in dead \/ "api" \in Faults
       \/ phase \in {"none", "pending", "evicted", "succeeded", "oom"}
       \/ phase = "failed" /\ w \in recreated
    /\ \/ /\ pc[w] = "rewait"
          /\ Goto(w, "severed")
          /\ UNCHANGED <<session, got, tries, recreated, dead, adrift, bookVars>>
       \/ /\ pc[w] = "wait"
          /\ w \in dead \/ "api" \in Faults \/ phase \in {"none", "evicted"}
          /\ GiveUp(w)
       \/ /\ pc[w] = "wait"
          /\ w \notin dead /\ phase \in {"pending", "succeeded", "oom", "failed"}
          /\ Fail(w)
    /\ UNCHANGED <<podVars, sessionVars>>

\* ExecInPod opens a session: the supervisor script, or the resource script.
Exec(w, s) ==
    /\ pc[w] = "exec"
    /\ phase = "running" /\ w \notin dead
    /\ place[s] = "closed" /\ \A v \in Webs : session[v] # s
    /\ IF Supervised
       THEN /\ Step(s, "testExit")
            /\ copyOf' = [copyOf EXCEPT ![s] = 0]
            /\ UNCHANGED <<copies, launches>>
       ELSE /\ launches < MaxLaunches
            /\ Step(s, "poll")
            /\ launches' = launches + 1
            /\ copies' = copies \cup {launches + 1}
            /\ copyOf' = [copyOf EXCEPT ![s] = launches + 1]
    /\ session' = [session EXCEPT ![w] = s]
    /\ Goto(w, "stream")
    /\ UNCHANGED <<phase, exitAnn, resultAnn, exitFile, pidFile, exitOf, got, tries,
                   recreated, dead, adrift, bookVars>>

\* ExecInPod fails before there is a session: "container not found" and "unable
\* to upgrade connection" are retried, at most MaxExecRetries times.
ExecFails(w) ==
    /\ pc[w] = "exec"
    /\ phase # "running" \/ w \in dead \/ "api" \in Faults
    /\ \/ /\ tries[w] < MaxExecRetries /\ w \notin dead
          /\ Goto(w, "recreate")
          /\ tries' = [tries EXCEPT ![w] = @ + 1]
       \/ Goto(w, "severed") /\ UNCHANGED tries
    /\ UNCHANGED <<podVars, sessionVars, session, got, recreated, dead, adrift, bookVars>>

\* recreatePausePodIfTerminal: only for a pod that is gone or has succeeded.
Recreate(w) ==
    /\ pc[w] = "recreate"
    /\ \/ /\ phase \in {"none", "succeeded"} /\ w \notin dead
          /\ PodReplaced("pending")
          /\ Goto(w, "rewait")
       \/ /\ phase \notin {"none", "succeeded"} \/ w \in dead \/ "api" \in Faults
          /\ Goto(w, "severed")
          /\ UNCHANGED <<podVars, sessionVars, answers>>
    /\ UNCHANGED <<session, got, tries, recreated, dead, adrift, overlap, raced, disruptions>>

\* ExecInPod returns the exit status of the session.
StreamEnds(w) ==
    /\ pc[w] = "stream"
    /\ place[session[w]] = "exited"
    /\ got' = [got EXCEPT ![w] = exitOf[session[w]]]
    /\ session' = [session EXCEPT ![w] = NoSession]
    /\ Goto(w, "annotate")
    /\ UNCHANGED <<podVars, sessionVars, tries, recreated, dead, adrift, bookVars>>

\* ExecInPod returns another error: the session died with its pod, the context
\* is dead, or the transport broke.
StreamSevered(w) ==
    /\ pc[w] = "stream"
    /\ \/ (place[session[w]] = "closed" \/ w \in dead) /\ UNCHANGED disruptions
       \/ Disrupt("sever")
    /\ session' = [session EXCEPT ![w] = NoSession]
    /\ Goto(w, "severed")
    /\ UNCHANGED <<podVars, sessionVars, got, tries, recreated, dead, adrift,
                   answers, overlap, raced>>

\* Wait's branch for an error that is no exit status.  killAgentOnTerminalEnd
\* stops the process tree of the pid file, if the exec of the kill script works;
\* then an interruption or a transient error is retriable, another is not.
Severed(w) ==
    /\ pc[w] = "severed"
    /\ \/ /\ w \in dead /\ Kind = "agent" /\ phase = "running"
          /\ copies' = copies \ {pidFile}
       \/ /\ w \notin dead \/ Kind # "agent" \/ phase # "running" \/ "api" \in Faults
          /\ UNCHANGED copies
    /\ \/ GiveUp(w)
       \/ (phase \notin {"none", "evicted"} \/ "api" \in Faults) /\ Fail(w)
    /\ UNCHANGED <<phase, exitAnn, resultAnn, exitFile, pidFile, launches, sessionVars>>

\* Wait's end: the outputs are recorded and the exit status annotated, best
\* effort, on whatever pod has the name now.
Annotate(w) ==
    /\ pc[w] = "annotate"
    /\ \/ phase # "none" /\ exitAnn' = got[w]
       \/ phase = "none" /\ UNCHANGED exitAnn
       \/ "api" \in Faults /\ UNCHANGED exitAnn
    /\ IF Supervised THEN Answer(w, got[w])
       ELSE /\ Goto(w, "cache")
            /\ UNCHANGED <<session, got, tries, recreated, dead, adrift, bookVars>>
    /\ UNCHANGED <<phase, resultAnn, exitFile, pidFile, copies, launches, sessionVars>>

\* Resource.cacheResult, also for the empty result of a script that failed.
Cache(w) ==
    /\ pc[w] = "cache"
    /\ \/ phase # "none" /\ resultAnn' = TRUE
       \/ phase = "none" /\ UNCHANGED resultAnn
       \/ "api" \in Faults /\ UNCHANGED resultAnn
    /\ Answer(w, got[w])
    /\ UNCHANGED <<phase, exitAnn, exitFile, pidFile, copies, launches, sessionVars>>

----------------------------------------------------------------------------
(* The webs                                                                *)

\* The step times out, or the build is aborted.
Cancel(w) ==
    /\ Disrupt("cancel")
    /\ Active(w) /\ w \notin dead
    /\ dead' = dead \cup {w}
    /\ UNCHANGED <<podVars, sessionVars, pc, session, got, tries, recreated, adrift,
                   answers, overlap, raced>>

\* A drain returns from engineBuild.Run and lets the attempt go on.
Drain(w) ==
    /\ Disrupt("drain")
    /\ Active(w) /\ w \notin adrift
    /\ adrift' = adrift \cup {w}
    /\ UNCHANGED <<podVars, sessionVars, pc, session, got, tries, recreated, dead,
                   answers, overlap, raced>>

\* A plan that a drain left behind reaches the step, whoever drives the build.
BeginLeft(w) ==
    /\ Disrupt("drain")
    /\ Reach(w)
    /\ adrift' = adrift \cup {w}
    /\ overlap' = TRUE

\* The web process ends, or gives the build up after the step; what it knew of the
\* step is lost.
Crash(w) ==
    /\ Disrupt("crash")
    /\ pc[w] # "idle"
    /\ Goto(w, "idle")
    /\ Forget(w)
    /\ UNCHANGED <<podVars, sessionVars, dead, answers, overlap, raced>>

----------------------------------------------------------------------------

Pod ==
    \/ PodStarts
    \/ \E p \in Ended \cup {"none"} : PodLost(p)
    \/ \E n \in copies, code \in Codes : CommandEnds(n, code)

Session(s) == TestExit(s) \/ TestAlive(s) \/ Launch(s) \/ WritePid(s) \/ Poll(s) \/ Hangup(s)

Attempt(w) ==
    \/ Begin(w) \/ Properties(w) \/ Attach(w) \/ Run(w) \/ Create(w) \/ PodRuns(w)
    \/ ReplaceFailedPod(w) \/ WaitFails(w) \/ ExecFails(w) \/ Recreate(w)
    \/ \E s \in Sessions : Exec(w, s)
    \/ StreamEnds(w) \/ StreamSevered(w) \/ Severed(w) \/ Annotate(w) \/ Cache(w)

Web(w) == Cancel(w) \/ Drain(w) \/ BeginLeft(w) \/ Crash(w)

Next ==
    \/ Pod
    \/ \E s \in Sessions : Session(s)
    \/ \E w \in Webs : Attempt(w) \/ Web(w)

Spec == Init /\ [][Next]_vars

----------------------------------------------------------------------------
(* Safety                                                                  *)

\* Every variable keeps its type.
TypeOK ==
    /\ phase \in Phases
    /\ exitAnn \in Statuses \cup {NoCode} /\ exitFile \in Codes \cup {NoCode}
    /\ resultAnn \in BOOLEAN
    /\ launches \in 0..MaxLaunches
    /\ pidFile \in 0..MaxLaunches /\ copies \subseteq 1..launches
    /\ place \in [Sessions -> SessionPlaces]
    /\ copyOf \in [Sessions -> 0..MaxLaunches]
    /\ exitOf \in [Sessions -> Statuses \cup {NoCode}]
    /\ pc \in [Webs -> AttemptPlaces]
    /\ session \in [Webs -> Sessions \cup {NoSession}]
    /\ got \in [Webs -> Statuses \cup {NoCode}]
    /\ tries \in [Webs -> 0..MaxExecRetries]
    /\ recreated \subseteq Webs /\ dead \subseteq Webs /\ adrift \subseteq Webs
    /\ answers \subseteq Statuses \cup {NoCode}
    /\ overlap \in BOOLEAN /\ raced \in BOOLEAN
    /\ disruptions \in 0..MaxDisruptions

\* The supervisor never runs two copies of a command in a pod at once, however
\* many webs open sessions into it and whatever happens to them, unless a launch
\* was not covered by the pid file: two sessions were between the liveness test
\* and the write of the pid file, or one ended there.
OneCopy == Supervised /\ ~raced => \A m, n \in copies : m = n

\* Whatever web reports it, by whatever way (the session it opened, a session
\* that took over, the annotation), the exit status a supervised step is given
\* is the one its command recorded; so all the replays of a step agree.
AnswersAreTheExit ==
    Supervised /\ launches = 1 /\ ~overlap =>
        /\ answers \subseteq {exitFile} \ {NoCode}
        /\ exitAnn \in {NoCode, exitFile}

\* A pod whose exit status is annotated is not executed in again: every attempt
\* that finds it is answered by Attach, unless a drained attempt was still going.
Opens(w) == session[w] = NoSession /\ session'[w] # NoSession
CompletedNotRerun ==
    [][\A w \in Webs : Opens(w) => exitAnn = NoCode \/ overlap]_vars

\* The inductive invariant behind the properties above.  A process needs a pod
\* that runs; what a session sees was launched in its pod; sessions between the
\* liveness test and the pid file exclude each other; one attempt at a time has
\* a session or a result, and only one of a resource step looks for a cached one;
\* an exit status is only known after a launch, and while that launch is the only
\* one everybody knows the same; an attempt that may yet open a session was not
\* given the annotation to read.
ProcessesNeedPod ==
    phase # "running" => copies = {} /\ \A s \in Sessions : place[s] = "closed"

LaunchedFirst ==
    Supervised =>
        /\ exitFile # NoCode => launches > 0
        /\ \A s \in Sessions : place[s] \in {"writePid", "poll", "exited"} => launches > 0
        /\ \A s \in Sessions : place[s] = "writePid" => copyOf[s] \in 1..launches

PidFileCovers ==
    Supervised /\ ~raced =>
        /\ \A s, t \in Sessions : place[s] \in Launching /\ place[t] \in Launching => s = t
        /\ \A s \in Sessions : place[s] = "launch" => copies = {}
        /\ \A s \in Sessions : place[s] = "writePid" => copies \subseteq {copyOf[s]}
        /\ (\A s \in Sessions : place[s] \notin Launching) => copies \subseteq {pidFile}

OneAttempt ==
    /\ \A w \in Webs : session[w] # NoSession <=> pc[w] = "stream"
    /\ Supervised => \A w \in Webs : pc[w] \notin {"properties", "cache"}
    /\ ~overlap => \A v, w \in Webs : pc[v] # "idle" /\ pc[w] # "idle" => v = w

ReadsExit(s) ==
    /\ place[s] = "writePid" => exitFile # NoCode \/ copyOf[s] \in copies
    /\ place[s] = "poll" => exitFile # NoCode \/ pidFile \in copies
    /\ place[s] = "exited" => exitFile # NoCode /\ exitOf[s] = exitFile

OneExit ==
    Supervised /\ ~overlap =>
        /\ phase # "none" /\ launches = 0 => answers = {} /\ exitAnn = NoCode
        /\ \A w \in Webs : pc[w] = "annotate" /\ phase # "none" => launches > 0
        /\ launches = 1 =>
             /\ answers \subseteq {exitFile} \ {NoCode} /\ exitAnn \in {NoCode, exitFile}
             /\ exitFile # NoCode => copies = {}
             /\ \A w \in Webs : pc[w] = "annotate" => exitFile # NoCode /\ got[w] = exitFile
             /\ \A w \in Webs : pc[w] = "stream" => ReadsExit(session[w])

Opening == {"run", "create", "wait", "exec", "recreate", "rewait"}
NotReopening ==
    /\ phase = "none" => exitAnn = NoCode
    /\ "api" \notin Faults /\ ~overlap =>
         \A w \in Webs \ dead : pc[w] \in Opening => exitAnn = NoCode

\* What no crash, drain, lost session or lost pod breaks.
StepInv ==
    /\ TypeOK /\ ProcessesNeedPod /\ LaunchedFirst /\ PidFileCovers
    /\ OneAttempt /\ OneExit /\ NotReopening

----------------------------------------------------------------------------
(* Liveness                                                                *)

\* What the code schedules: every session and every attempt goes on, and the
\* tracker runs a started build's plan again.  The cluster starts pods, and the
\* command ends.
Fairness ==
    /\ WF_vars(PodStarts)
    /\ WF_vars(\E n \in copies, code \in Codes : CommandEnds(n, code))
    /\ \A s \in Sessions : WF_vars(Session(s))
    /\ \A w \in Webs : WF_vars(Attempt(w))
FairSpec == Spec /\ Fairness

\* However webs crash, drain, lose sessions and pods, the step comes to an end
\* once they stop doing so.
StepConcludes == <>[](\E w \in Webs : pc[w] \in {"done", "failed"})

=============================================================================

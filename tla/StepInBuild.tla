---------------------------- MODULE StepInBuild ----------------------------
(***************************************************************************)
(* A step whose success its build needs, in the build that executes it.    *)
(*                                                                         *)
(* StepExecution lets an attempt begin when no other web has one that is   *)
(* not adrift.  Nothing in the code of a step sees to that: it is left to  *)
(* the tracking lock of the build.  Here an attempt begins whenever a web  *)
(* that drives the build executes its plan (engineBuild.Run in             *)
(* atc/engine/engine.go), and of the tracking of builds no more is known   *)
(* than BuildContract promises, which BuildTracking implements.            *)
(***************************************************************************)
EXTENDS StepExecution

VARIABLES
    status, aborted, drivers, executors, report, leaving, unlocked,  \* BuildContract
    running,  \* the drivers that execute the plan
    left,     \* the webs with a plan that a drain left behind before the step
    heard     \* heard[w]: the exit status the plan was given on w

Build == INSTANCE BuildContract

stepVars == <<vars, heard>>
buildVars == <<status, aborted, drivers, executors, report, leaving, unlocked, running, left>>
allVars == <<stepVars, buildVars>>

InitInBuild ==
    /\ Init /\ Build!Init
    /\ running = {} /\ left = {} /\ heard = [w \in Webs |-> NoCode]

\* Mutant: the plan is executed whoever drives the build.
EnterUndriven(w) ==
    /\ Arrive(w)
    /\ UNCHANGED <<heard, buildVars>>

\* state.Run reaches the step.
Enter(w) ==
    /\ w \in running
    /\ Arrive(w)
    /\ UNCHANGED <<heard, buildVars>>

\* A state.Run that was left behind does.
EnterLeft(w) ==
    /\ w \in left
    /\ BeginLeft(w)
    /\ left' = left \ {w}
    /\ UNCHANGED <<heard, status, aborted, drivers, executors, report, leaving, unlocked, running>>

\* What the step is given is what the plan hears.
Proceed(w) ==
    /\ pc[w] # "idle"
    /\ Attempt(w)
    /\ IF pc'[w] = "done"
       THEN \E code \in answers' : heard' = [heard EXCEPT ![w] = code]
       ELSE UNCHANGED heard
    /\ UNCHANGED buildVars

Elsewhere ==
    /\ \/ Pod
       \/ \E s \in Sessions : Session(s)
       \/ \E w \in Webs : Cancel(w)
    /\ UNCHANGED <<heard, buildVars>>

ExecutePlan(w) ==
    /\ w \notin running
    /\ Build!Execute(w)
    /\ running' = running \cup {w}
    /\ UNCHANGED <<stepVars, left>>

\* Mutant: any exit status is a success.
PlanEndsRegardless(w) ==
    /\ w \in running
    /\ Build!Report(w)
    /\ report'[w] = "succeeded" => pc[w] = "done"
    /\ w \in executors' <=> Active(w) \/ w \in left
    /\ running' = running \ {w}
    /\ UNCHANGED <<stepVars, left>>

\* state.Run returns.  The plan succeeds only if the step did.
PlanEnds(w) ==
    /\ w \in running
    /\ Build!Report(w)
    /\ report'[w] = "succeeded" => pc[w] = "done" /\ heard[w] = 0
    /\ w \in executors' <=> Active(w) \/ w \in left
    /\ running' = running \ {w}
    /\ UNCHANGED <<stepVars, left>>

\* An execution that was left behind ends.
Stop(w) ==
    /\ w \notin running /\ ~Active(w)
    /\ Build!Stop(w)
    /\ left' = left \ {w}
    /\ UNCHANGED <<stepVars, running>>

\* b.finish, after the execution or in its stead.
Finish(w) ==
    /\ w \notin running
    /\ Build!Conclude(w)
    /\ UNCHANGED <<stepVars, running, left>>

\* engineBuild.Run returns.  It leaves the plan behind if that is under way, with
\* its attempt or before the step; the result of an attempt that ended is lost.
RunReturns(w) ==
    /\ Build!Yield(w)
    /\ CASE Active(w) /\ w \notin adrift -> Drain(w)
         [] pc[w] \in {"done", "failed"} -> Crash(w)
         [] OTHER -> UNCHANGED vars
    /\ left' = IF w \in running /\ pc[w] = "idle" THEN left \cup {w} ELSE left
    /\ running' = running \ {w}
    /\ UNCHANGED heard

\* The web process ends.
Exit(w) ==
    /\ Build!Vanish(w)
    /\ IF pc[w] = "idle" THEN UNCHANGED vars ELSE Crash(w)
    /\ running' = running \ {w} /\ left' = left \ {w}
    /\ UNCHANGED heard

\* The session of a tracking lock breaks.
LoseLock ==
    /\ Build!Unlock
    /\ UNCHANGED <<stepVars, running, left>>

\* What the build does without the step.
Track ==
    /\ \/ Build!RequestAbort \/ Build!Start \/ Build!Refuse
       \/ \E w \in Webs : Build!Take(w) \/ Build!Forget(w) \/ Build!Leave(w)
    /\ UNCHANGED <<stepVars, running, left>>

\* A lock that is lost bounds the model: nothing is promised afterwards.
NextInBuild ==
    /\ ~unlocked
    /\ \/ Elsewhere \/ Track \/ LoseLock
       \/ \E w \in Webs :
           \/ Enter(w) \/ EnterLeft(w) \/ Proceed(w) \/ ExecutePlan(w) \/ PlanEnds(w) \/ Stop(w)
           \/ Finish(w) \/ RunReturns(w) \/ Exit(w)

SpecInBuild == InitInBuild /\ [][NextInBuild]_allVars

----------------------------------------------------------------------------
\* What the composition adds keeps its type.
TypeInBuild ==
    /\ drivers \subseteq Webs /\ running \subseteq drivers /\ left \subseteq Webs
    /\ report \in [Webs -> Build!Reports \cup {"none"}]
    /\ heard \in [Webs -> Statuses \cup {NoCode}]

\* Who has an attempt drives the build, or was left behind by a drain with the
\* attempt under way.
AttemptsDriven ==
    /\ \A v, w \in drivers : v = w
    /\ \A w \in Webs : pc[w] # "idle" => w \in drivers \cup adrift
    /\ \A w \in Webs : Active(w) => w \in executors
    /\ \A w \in adrift : Active(w) /\ w \in leaving
    /\ running \subseteq executors /\ left \subseteq executors \cap leaving
    /\ \A w \in running : report[w] = "none" /\ status = "started"

\* The command of the pod ended with the code, and no session that was left is
\* about to start it for the first time.
Settled(code) ==
    /\ launches = 1 => exitFile = code /\ code # NoCode
    /\ launches = 0 => \A s \in Sessions : place[s] = "closed"

\* What the plan heard, what it reports and the outcome of the build are the
\* command's, and nobody executes the step of a build that succeeded.
OutcomeSettled ==
    /\ \A w \in Webs : report[w] = "succeeded" => pc[w] = "done" /\ heard[w] = 0
    /\ Supervised /\ ~overlap =>
        /\ \A w \in Webs : pc[w] = "done" => Settled(heard[w])
        /\ status = "succeeded" => Settled(0) /\ \A w \in Webs : ~Active(w)

\* The inductive invariant: until a tracking lock is lost, the invariant of
\* StepExecution holds and the attempts, reports and outcome fit together.
Together == StepInv /\ TypeInBuild /\ AttemptsDriven /\ OutcomeSettled
InBuildInv == unlocked \/ Together

\* The tracking lock is what StepExecution assumes of its environment: until one
\* is lost, every step of a step in its build is one of StepExecution, so that a
\* web begins an attempt only beside attempts that a drain has left behind.
KeepsStepExecution == Init /\ [][unlocked' \/ Next]_vars

\* A build that needs a task or agent step succeeds only if the command of that
\* step exited with 0, whatever webs crashed, drained or took over: if the command
\* was started once, no attempt began beside a drained one and no tracking lock
\* was lost.
SuccessIsExitZero ==
    status = "succeeded" /\ Supervised /\ launches = 1 /\ ~overlap /\ ~unlocked
        => exitFile = 0
=============================================================================

---------------------------- MODULE WorkflowRun ----------------------------
(***************************************************************************)
(* One durable workflow run: its row of agent_workflow_runs, the build     *)
(* selected to execute it, its human waits, its retention claims and its   *)
(* ticket.  Six programs change them, each in transactions of its own:     *)
(*                                                                         *)
(*   - binders admit the run (agent/workflowrun/binder.go)                 *)
(*   - the scheduler starts the selected build (atc/scheduler)             *)
(*   - the engine runs it and finishes it (atc/db/build.go)                *)
(*   - humans answer its waits (agent/api/workflowwaits)                   *)
(*   - the canceler moves it to canceling and aborts the build             *)
(*     (agent/workflowrun/canceler.go)                                     *)
(*   - reconcilers, one per web, classify its outcome                      *)
(*     (agent/workflowrun/reconciler.go)                                   *)
(*                                                                         *)
(* Every transaction locks the run's row, so that an action is one         *)
(* transaction; what a program read in one transaction and uses in the     *)
(* next is kept in view and seen.                                          *)
(***************************************************************************)
EXTENDS Integers, FiniteSets

CONSTANTS
    Binders,      \* concurrent or repeated requests with one idempotency key
    Reconcilers,  \* the reconcilers of the webs
    Humans,       \* people who may answer a wait
    Waits,        \* await_snapshot steps of the plan
    Defaulted,    \* the waits whose timeout policy is "default"
    NoHuman,      \* no resolution intent, or no answer
    Default,      \* the default answer of a wait that timed out
    NoWait,       \* the person is not answering
    MaxFaults     \* bound on crashes, failed calls and deletions of the build

ASSUME WaitAssumption == Defaulted \subseteq Waits /\ NoWait \notin Waits
ASSUME HumanAssumption == NoHuman \notin Humans /\ Default \notin Humans /\ Default # NoHuman
ASSUME FaultsAssumption == MaxFaults \in Nat

VARIABLES
    status,   \* column status of the run, or "none" before it exists
    link,     \* the execution link, planned_build_id with it (executionLinkState)
    plan,     \* the actual plan, its hash and its dependencies, once recorded
    exec,     \* column execution_status, or "none"
    reason,   \* why the run became terminal (error_message)
    age,      \* whether updated_at is older than the admission timeout
    build,    \* status of the selected build: "none" before, "gone" after it
    aborted,  \* column aborted of that build
    wait,     \* wait[w]: column status of the wait, or "none"
    late,     \* waits whose deadline has passed
    intent,   \* intent[w]: the person whose answer is accepted
    answer,   \* answer[w]: the person whose answer is attached, or Default
    claims,   \* retention claims of class 'run' held by the run
    ticket,   \* state of the ticket that the run was dispatched for
    bpc,      \* bpc[b]: the next call of a binder
    spc,      \* the next call of the scheduler
    asked,    \* asked[h]: the wait whose answer person h is completing
    cpc,      \* the next call of the canceler
    seen,     \* the run as the canceler last loaded it
    tries,    \* iterations of the canceler's loop
    rpc,      \* rpc[r]: the next call of a reconciler
    view,     \* view[r]: the run and its build as the reconciler inspected them
    pending,  \* pending[r]: the accepted answers it listed
    faults    \* faults so far

run == <<status, link, plan, exec, reason, age>>
selected == <<build, aborted>>
waits == <<wait, late, intent, answer>>
canceler == <<cpc, seen, tries>>
reconciler == <<rpc, view, pending>>
vars == <<run, selected, waits, claims, ticket, bpc, spc, asked, canceler, reconciler, faults>>

Active == {"admitting", "running", "canceling"}
Terminal == {"succeeded", "failed", "errored", "aborted"}
Statuses == {"none"} \cup Active \cup Terminal
Outcomes == {"none"} \cup Terminal
Claims == {<<NoWait, "input">>, <<NoWait, "output">>} \cup (Waits \X {"question", "answer"})

Fault == faults < MaxFaults /\ faults' = faults + 1

Row == [status |-> status, plan |-> plan, exec |-> exec]
View == [status |-> status, link |-> link, plan |-> plan, exec |-> exec,
         age |-> age, build |-> build]
NoRow == [status |-> "none", plan |-> "none", exec |-> "none"]
NoView == [status |-> "none", link |-> "empty", plan |-> "none", exec |-> "none",
           age |-> "recent", build |-> "none"]

Init ==
    /\ status = "none" /\ link = "empty" /\ plan = "none" /\ exec = "none"
    /\ reason = "none" /\ age = "recent"
    /\ build = "none" /\ aborted = FALSE
    /\ wait = [w \in Waits |-> "none"]
    /\ late = {}
    /\ intent = [w \in Waits |-> NoHuman]
    /\ answer = [w \in Waits |-> NoHuman]
    /\ claims = {}
    /\ ticket = "running"
    /\ bpc = [b \in Binders |-> "idle"]
    /\ spc = "idle"
    /\ asked = [h \in Humans |-> NoWait]
    /\ cpc = "idle" /\ seen = NoRow /\ tries = 0
    /\ rpc = [r \in Reconcilers |-> "idle"]
    /\ view = [r \in Reconcilers |-> NoView]
    /\ pending = [r \in Reconcilers |-> {}]
    /\ faults = 0

-----------------------------------------------------------------------------
(* Transactions that several programs share. *)

\* Transition and Finalize to a terminal status release the claims of class
\* 'run' in the same transaction.
Terminalize(s, why) ==
    /\ status' = s
    /\ reason' = why
    /\ claims' = {}
    /\ UNCHANGED <<link, plan, exec, age>>

\* The CAS of Finalize: status, execution status and plan hash are those that
\* the caller has seen.  The execution link is not among them.
Matches(row) == status = row.status /\ exec = row.exec /\ plan = row.plan

\* CancelRun: the open waits of a canceling or terminal run are cancelled and
\* what was accepted for them is erased.
CancelWaits ==
    LET open == {w \in Waits : wait[w] = "waiting" /\ status \in {"canceling"} \cup Terminal}
    IN  /\ wait' = [w \in Waits |-> IF w \in open THEN "cancelled" ELSE wait[w]]
        /\ intent' = [w \in Waits |-> IF w \in open THEN NoHuman ELSE intent[w]]
        /\ UNCHANGED <<late, answer>>

\* materializeWorkflowWaitAnswer: the answer is produced for the step and
\* claimed by the run.
AnswerClaim(w) == {<<w, "answer">>}

\* expireLockedWorkflowWait.
ExpireLocked(w) ==
    /\ wait' = [wait EXCEPT ![w] = "timed_out"]
    /\ intent' = [intent EXCEPT ![w] = NoHuman]
    /\ answer' = [answer EXCEPT ![w] = IF w \in Defaulted THEN Default ELSE NoHuman]
    /\ claims' = claims \cup (IF w \in Defaulted THEN AnswerClaim(w) ELSE {})
    /\ UNCHANGED late

\* Resolve: the answer of h is attached if the run is running and the intent
\* is still that of h.
ResolveAnyRun(w, h) ==
    /\ wait[w] = "waiting" /\ intent[w] = h
    /\ wait' = [wait EXCEPT ![w] = "resolved"]
    /\ answer' = [answer EXCEPT ![w] = h]
    /\ claims' = claims \cup AnswerClaim(w)
    /\ UNCHANGED <<late, intent>>

Resolve(w, h) ==
    /\ wait[w] = "waiting" /\ status = "running" /\ intent[w] = h
    /\ wait' = [wait EXCEPT ![w] = "resolved"]
    /\ answer' = [answer EXCEPT ![w] = h]
    /\ claims' = claims \cup AnswerClaim(w)
    /\ UNCHANGED <<late, intent>>

\* build.finish and captureAgentWorkflowRunExecutionStatus: one transaction
\* ends the build and copies its outcome, or fails when the copy conflicts.
CanCapture(s) == IF status \in Terminal THEN exec = s ELSE exec \in {"none", s}

FinishOverwrites(s) ==
    /\ build' = s
    /\ exec' = s
    /\ UNCHANGED <<aborted, status, link, plan, reason, age, claims>>

Finish(s) ==
    /\ CanCapture(s)
    /\ build' = s
    /\ exec' = IF status \in Terminal THEN exec ELSE s
    /\ age' = IF exec = "none" THEN "recent" ELSE age
    /\ UNCHANGED <<aborted, status, link, plan, reason, claims>>

\* FinishWorkflowPlanningError: the same, and the run is errored at once.
FinishPlanningError ==
    /\ status \in Active /\ exec \in {"none", "errored"}
    /\ build' = "errored" /\ exec' = "errored"
    /\ status' = "errored" /\ reason' = "planning" /\ claims' = {}
    /\ UNCHANGED <<aborted, link, plan, age>>

-----------------------------------------------------------------------------
(* Binders. *)

\* CreateWithInputs.
CreateWithInputs == status' = "admitting" /\ claims' = {<<NoWait, "input">>}

\* bindAndCreate: the first request creates the run with its input claims, a
\* later one takes up the run it finds (handleExisting).
Bind(b) ==
    /\ bpc[b] = "idle"
    /\ \/ /\ status = "none"
          /\ CreateWithInputs
          /\ bpc' = [bpc EXCEPT ![b] = "resume"]
       \/ /\ status = "admitting"
          /\ bpc' = [bpc EXCEPT ![b] = IF link = "complete" THEN "advance" ELSE "resume"]
          /\ UNCHANGED <<status, claims>>
    /\ UNCHANGED <<link, plan, exec, reason, age, selected, waits, ticket, spc, asked,
                   canceler, reconciler, faults>>

\* failAllocated: errored, but only from admitting and before the link exists.
Refuse(b) ==
    /\ bpc[b] = "resume"
    /\ bpc' = [bpc EXCEPT ![b] = "idle"]
    /\ IF status = "admitting" /\ link = "empty"
       THEN Terminalize("errored", "refused")
       ELSE UNCHANGED <<run, claims>>
    /\ UNCHANGED <<selected, waits, ticket, spc, asked, canceler, reconciler, faults>>

\* CreateRunForWorkflowRun: link, pipeline run and selected build are one
\* transaction; an execution that is there already is loaded.
CreateExecutionAnyStatus(b) ==
    /\ bpc[b] = "resume"
    /\ link' = "complete" /\ build' = "pending" /\ age' = "recent"
    /\ bpc' = [bpc EXCEPT ![b] = "advance"]
    /\ UNCHANGED <<status, plan, exec, reason, aborted, waits, claims, ticket, spc, asked, canceler,
                   reconciler, faults>>

CreateExecution(b) ==
    /\ bpc[b] = "resume"
    /\ \/ /\ status = "admitting" /\ link = "empty"
          /\ link' = "complete" /\ build' = "pending" /\ age' = "recent"
          /\ bpc' = [bpc EXCEPT ![b] = "advance"]
          /\ UNCHANGED <<status, plan, exec, reason, aborted>>
       \/ /\ status \in {"admitting", "running"} /\ link = "complete"
          /\ bpc' = [bpc EXCEPT ![b] = "advance"]
          /\ UNCHANGED <<run, selected>>
       \/ /\ status \notin {"admitting", "running"}
          /\ bpc' = [bpc EXCEPT ![b] = "idle"]
          /\ UNCHANGED <<run, selected>>
    /\ UNCHANGED <<waits, claims, ticket, spc, asked, canceler, reconciler, faults>>

\* advanceAdmission.
Advance(b) ==
    /\ bpc[b] = "advance"
    /\ bpc' = [bpc EXCEPT ![b] = "idle"]
    /\ IF status = "admitting"
       THEN status' = "running" /\ age' = "recent"
       ELSE UNCHANGED <<status, age>>
    /\ UNCHANGED <<link, plan, exec, reason, selected, waits, claims, ticket, spc, asked,
                   canceler, reconciler, faults>>

\* A platform fault or a crash: the request ends, the run stays as it is.
BinderStops(b) ==
    /\ bpc[b] # "idle"
    /\ bpc' = [bpc EXCEPT ![b] = "idle"]
    /\ UNCHANGED <<run, selected, waits, claims, ticket, spc, asked, canceler, reconciler, faults>>

-----------------------------------------------------------------------------
(* The scheduler, under the scheduling lock of the job. *)

\* captureAgentWorkflowRunPlan.
CapturePlan == plan' = "actual" /\ age' = "recent"

\* tryStartNextPendingBuild: start checks the run and captures the plan in the
\* transaction that starts the build; it rolls back when the run is canceling
\* or the plan has no provenance, and the build is then finished in another.
\* So it is when no plan can be made (the last disjunct).
StartBuild ==
    /\ spc = "idle" /\ build = "pending"
    /\ \/ aborted /\ spc' = "abort" /\ UNCHANGED <<build, plan, age>>
       \/ ~aborted /\ status = "canceling" /\ spc' = "abort" /\ UNCHANGED <<build, plan, age>>
       \/ /\ ~aborted /\ status \in {"admitting", "running"}
          /\ build' = "started" /\ CapturePlan
          /\ UNCHANGED spc
       \/ ~aborted /\ status \in Terminal /\ build' = "started" /\ UNCHANGED <<spc, plan, age>>
       \/ spc' = "planError" /\ UNCHANGED <<build, plan, age>>
    /\ UNCHANGED <<status, link, exec, reason, aborted, waits, claims, ticket, bpc, asked,
                   canceler, reconciler, faults>>

\* The transaction that finishes a build which could not be started; when the
\* copy of the outcome conflicts nothing changes and the build stays pending.
FinishUnstarted ==
    /\ spc # "idle"
    /\ spc' = "idle"
    /\ \/ /\ spc = "abort" /\ build = "pending" /\ Finish("aborted")
       \/ /\ spc = "planError" /\ build = "pending" /\ FinishPlanningError
       \/ /\ \/ build # "pending"
             \/ spc = "abort" /\ ~CanCapture("aborted")
             \/ spc = "planError" /\ status \in Terminal
          /\ UNCHANGED <<run, selected, claims>>
    /\ UNCHANGED <<waits, ticket, bpc, asked, canceler, reconciler, faults>>

SchedulerStops ==
    /\ spc # "idle" /\ Fault
    /\ spc' = "idle"
    /\ UNCHANGED <<run, selected, waits, claims, ticket, bpc, asked, canceler, reconciler>>

-----------------------------------------------------------------------------
(* The engine and the await steps of the plan. *)

\* Any outcome is possible whatever its waits say: a step may be wrapped in
\* try, and a step that fails leaves its wait open.
EngineFinish(s) ==
    /\ build = "started" /\ (s = "aborted" => aborted)
    /\ Finish(s)
    /\ UNCHANGED <<waits, ticket, bpc, spc, asked, canceler, reconciler, faults>>

\* CommitSealBatch for an output of the selected build: validateSealInvocation
\* wants an active run and its recorded plan, and asks nothing of the build but
\* that it exists.
SealOutput ==
    /\ status \in Active
    /\ build \notin {"none", "gone"}
    /\ plan = "actual"
    /\ claims' = claims \cup {<<NoWait, "output">>}
    /\ UNCHANGED <<run, selected, waits, ticket, bpc, spc, asked, canceler, reconciler, faults>>

\* CreateOrGet refuses while the run is not running.
CreateOrGet(w) ==
    /\ status = "running" /\ wait[w] = "none"
    /\ wait' = [wait EXCEPT ![w] = "waiting"]
    /\ claims' = claims \cup {<<w, "question">>}

\* The step asks, and from then on polls its wait.
Await(w) ==
    /\ build = "started"
    /\ CreateOrGet(w)
    /\ UNCHANGED <<run, selected, late, intent, answer, ticket, bpc, spc, asked, canceler,
                   reconciler, faults>>

\* The step's poll: refresh calls Expire, which leaves an accepted answer be.
ExpireAnyway(w) ==
    /\ build = "started" /\ wait[w] = "waiting" /\ status = "running"
    /\ w \in late
    /\ ExpireLocked(w)
    /\ UNCHANGED <<run, selected, ticket, bpc, spc, asked, canceler, reconciler, faults>>

Expire(w) ==
    /\ build = "started" /\ wait[w] = "waiting" /\ status = "running"
    /\ w \in late /\ intent[w] = NoHuman
    /\ ExpireLocked(w)
    /\ UNCHANGED <<run, selected, ticket, bpc, spc, asked, canceler, reconciler, faults>>

\* The build is aborted through its own API, not through the run.
AbortBuild ==
    /\ build \in {"pending", "started"} /\ ~aborted
    /\ aborted' = TRUE
    /\ UNCHANGED <<run, build, waits, claims, ticket, bpc, spc, asked, canceler, reconciler, faults>>

\* Time: a deadline passes, or the admission timeout since updated_at.
DeadlinePasses(w) ==
    /\ wait[w] = "waiting" /\ w \notin late
    /\ late' = late \cup {w}
    /\ UNCHANGED <<run, selected, wait, intent, answer, claims, ticket, bpc, spc, asked,
                   canceler, reconciler, faults>>

TimeoutPasses ==
    /\ status \in {"admitting", "canceling"} /\ age = "recent"
    /\ age' = "overdue"
    /\ UNCHANGED <<status, link, plan, exec, reason, selected, waits, claims, ticket, bpc, spc,
                   asked, canceler, reconciler, faults>>

\* The instance pipeline is destroyed, and the selected build with it.
DeleteBuild ==
    /\ build \notin {"none", "gone"} /\ Fault
    /\ build' = "gone"
    /\ UNCHANGED <<run, aborted, waits, claims, ticket, bpc, spc, asked, canceler, reconciler>>

-----------------------------------------------------------------------------
(* People: the handler of agent/api/workflowwaits. *)

\* ReserveResolution: the first answer within the deadline is accepted, a
\* repeated one is taken up again, one after the deadline expires the wait.
Reserve(h, w) ==
    /\ asked[h] = NoWait /\ wait[w] = "waiting" /\ status = "running"
    /\ \/ /\ intent[w] = h
          /\ asked' = [asked EXCEPT ![h] = w]
          /\ UNCHANGED <<waits, claims>>
       \/ /\ intent[w] = NoHuman /\ w \notin late
          /\ intent' = [intent EXCEPT ![w] = h]
          /\ asked' = [asked EXCEPT ![h] = w]
          /\ UNCHANGED <<wait, late, answer, claims>>
       \/ /\ intent[w] = NoHuman /\ w \in late
          /\ ExpireLocked(w)
          /\ UNCHANGED asked
    /\ UNCHANGED <<run, selected, ticket, bpc, spc, canceler, reconciler, faults>>

\* The snapshot of the answer is uploaded, then Resolve; the upload or the call
\* may fail, and an answer that is no longer wanted is refused.
Complete(h) ==
    /\ asked[h] # NoWait
    /\ asked' = [asked EXCEPT ![h] = NoWait]
    /\ \/ Resolve(asked[h], h)
       \/ UNCHANGED <<waits, claims>>
    /\ UNCHANGED <<run, selected, ticket, bpc, spc, canceler, reconciler, faults>>

-----------------------------------------------------------------------------
(* The canceler. *)

MaxAttempts == 4

\* Cancel.
CancelRequested ==
    /\ cpc = "idle" /\ status # "none"
    /\ cpc' = "load"
    /\ UNCHANGED <<run, selected, waits, claims, ticket, bpc, spc, asked, seen, tries, reconciler, faults>>

\* cancelExecution, head of the loop: load the run and choose by its status.
CancelLoad ==
    /\ cpc = "load"
    /\ cpc' = CASE tries = MaxAttempts                       -> "idle"
              [] status \in {"admitting", "running"}         -> "move"
              [] status = "canceling" /\ link = "complete" -> "abort"
              [] status = "canceling" /\ link = "empty"    -> "close"
              [] status = "aborted"                          -> "waits"
              [] OTHER                                       -> "idle"
    /\ IF cpc' \in {"move", "close"}
       THEN seen' = Row /\ UNCHANGED tries
       ELSE seen' = NoRow /\ tries' = 0
    /\ UNCHANGED <<run, selected, waits, claims, ticket, bpc, spc, asked, reconciler, faults>>

\* Transition to canceling from the status that was loaded.
CancelMoveAdmittingOnly ==
    /\ cpc = "move"
    /\ IF status = seen.status /\ status = "admitting"
       THEN status' = "canceling" /\ age' = "recent"
       ELSE UNCHANGED <<status, age>>
    /\ cpc' = "load" /\ tries' = tries + 1 /\ seen' = NoRow
    /\ UNCHANGED <<link, plan, exec, reason, selected, waits, claims, ticket, bpc, spc, asked,
                   reconciler, faults>>

CancelMove ==
    /\ cpc = "move"
    /\ IF status = seen.status
       THEN status' = "canceling" /\ age' = "recent"
       ELSE UNCHANGED <<status, age>>
    /\ cpc' = "load" /\ tries' = tries + 1 /\ seen' = NoRow
    /\ UNCHANGED <<link, plan, exec, reason, selected, waits, claims, ticket, bpc, spc, asked,
                   reconciler, faults>>

\* Finalize a canceling run without an execution as aborted.
CancelClose ==
    /\ cpc = "close"
    /\ IF Matches(seen)
       THEN Terminalize("aborted", "none")
       ELSE UNCHANGED <<run, claims>>
    /\ cpc' = "load" /\ tries' = tries + 1 /\ seen' = NoRow
    /\ UNCHANGED <<selected, waits, ticket, bpc, spc, asked, reconciler, faults>>

\* abortSelectedBuild: mark the build, if it is still there.
CancelAbort ==
    /\ cpc = "abort"
    /\ IF build = "gone"
       THEN cpc' = "waits" /\ UNCHANGED aborted
       ELSE cpc' = "check" /\ aborted' = TRUE
    /\ UNCHANGED <<run, build, waits, claims, ticket, bpc, spc, asked, seen, tries, reconciler, faults>>

\* ... and load the run again.
CancelCheck ==
    /\ cpc = "check"
    /\ cpc' = IF status \in {"canceling", "aborted"} THEN "waits" ELSE "idle"
    /\ UNCHANGED <<run, selected, waits, claims, ticket, bpc, spc, asked, seen, tries, reconciler, faults>>

CancelOpenWaits ==
    /\ cpc = "waits"
    /\ CancelWaits
    /\ cpc' = "idle"
    /\ UNCHANGED <<run, selected, claims, ticket, bpc, spc, asked, seen, tries, reconciler, faults>>

\* A call fails, or the request is cut off.
CancelStops ==
    /\ cpc # "idle"
    /\ cpc' = "idle" /\ seen' = NoRow /\ tries' = 0
    /\ UNCHANGED <<run, selected, waits, claims, ticket, bpc, spc, asked, reconciler, faults>>

-----------------------------------------------------------------------------
(* Reconcilers. *)

OpenWaits == {w \in Waits : wait[w] = "waiting"}

\* The next call of reconciler r, and what it keeps of the row until then.
Goto(r, pc, v) ==
    /\ rpc' = [rpc EXCEPT ![r] = pc]
    /\ view' = [view EXCEPT ![r] = v]

\* The rows that ClaimForReconciliation takes.
DueWhenAborted ==
    \/ status \in Active
    \/ status = "aborted" /\ OpenWaits # {}
    \/ status \in Terminal /\ ticket = "running"

Due ==
    \/ status \in Active
    \/ status \in Terminal /\ (OpenWaits # {} \/ ticket = "running")

\* The claim, and InspectForReconciliation: run and build are read under one
\* lock, hence together.
Inspect(r) ==
    /\ rpc[r] = "idle" /\ Due
    /\ IF status \in Terminal
       THEN Goto(r, "repair", NoView)
       ELSE Goto(r, CASE status = "admitting" -> "admit"
                      [] status = "running"   -> "list"
                      [] status = "canceling" -> "cancel", View)
    /\ UNCHANGED <<run, selected, waits, claims, ticket, bpc, spc, asked, canceler, pending, faults>>

\* finalize: the row changes only if it is as it was inspected.
FinalizeRow(r, s, why) ==
    IF Matches(view[r])
    THEN Terminalize(s, why) /\ Goto(r, "settle", NoView)
    ELSE /\ claims' = IF status \in Terminal THEN {} ELSE claims
         /\ Goto(r, "idle", NoView)
         /\ UNCHANGED run

\* AdvanceAdmission.
AdvanceAdmission ==
    /\ status = "admitting" /\ link = "complete"
    /\ status' = "running" /\ age' = "recent"

\* reconcileAdmitting.
Admit(r) ==
    /\ rpc[r] = "admit"
    /\ LET v == view[r] IN
       \/ /\ v.link = "complete" /\ AdvanceAdmission
          /\ Goto(r, "idle", NoView)
          /\ UNCHANGED <<link, plan, exec, reason, claims>>
       \/ /\ v.link = "complete" /\ status # "admitting"
          /\ Goto(r, "reinspect", NoView) /\ UNCHANGED <<run, claims>>
       \/ /\ v.link = "empty" /\ v.age = "recent"
          /\ Goto(r, "idle", NoView) /\ UNCHANGED <<run, claims>>
       \/ /\ v.link = "empty" /\ v.age = "overdue"
          /\ FinalizeRow(r, "errored", "interrupted")
    /\ UNCHANGED <<selected, waits, ticket, bpc, spc, asked, canceler, pending, faults>>

\* reconcileFalseAdmissionCAS: no run returns to admitting, so that only the
\* canceling one has something left to do.
Reinspect(r) ==
    /\ rpc[r] = "reinspect"
    /\ IF status = "canceling" THEN Goto(r, "outcome", View) ELSE Goto(r, "idle", NoView)
    /\ UNCHANGED <<run, selected, waits, claims, ticket, bpc, spc, asked, canceler, pending, faults>>

\* ReconcilePending: list the accepted answers of the run, then complete each;
\* one that cannot be completed though it still waits fails the row.
ListPending(r) ==
    /\ rpc[r] = "list"
    /\ pending' = [pending EXCEPT ![r] = {w \in OpenWaits : intent[w] # NoHuman}]
    /\ Goto(r, "answer", view[r])
    /\ UNCHANGED <<run, selected, waits, claims, ticket, bpc, spc, asked, canceler, faults>>

CompletePending(r, w) ==
    /\ rpc[r] = "answer" /\ w \in pending[r]
    /\ \/ /\ Resolve(w, intent[w])
          /\ pending' = [pending EXCEPT ![r] = @ \ {w}]
          /\ UNCHANGED <<rpc, view>>
       \/ /\ wait[w] # "waiting"
          /\ pending' = [pending EXCEPT ![r] = @ \ {w}]
          /\ UNCHANGED <<rpc, view, waits, claims>>
       \/ /\ wait[w] = "waiting" /\ status # "running"
          /\ pending' = [pending EXCEPT ![r] = {}]
          /\ Goto(r, "idle", NoView)
          /\ UNCHANGED <<waits, claims>>
    /\ UNCHANGED <<run, selected, ticket, bpc, spc, asked, canceler, faults>>

AnswersCompleted(r) ==
    /\ rpc[r] = "answer" /\ pending[r] = {}
    /\ Goto(r, "outcome", view[r])
    /\ UNCHANGED <<run, selected, waits, claims, ticket, bpc, spc, asked, canceler, pending, faults>>

\* reconcileRunning, reconcileCanceling and finalizeCopiedOutcome: the verdicts
\* on an inspected run; none at all defers it to a later pass.  A success is
\* withdrawn when the recorded plan or outputs do not bear it out.
Verdict(s, why) == [status |-> s, reason |-> why]

BuildActive(v) == v.build \in {"pending", "started"}

Copied(v) ==
    IF v.exec = "succeeded"
    THEN {Verdict("succeeded", "none"), Verdict("failed", "mismatch"), Verdict("errored", "corrupt")}
    ELSE {Verdict(v.exec, "copied")}

Verdicts(v) ==
    IF v.status = "running"
    THEN CASE v.exec = "none" /\ BuildActive(v)  -> {}
           [] v.exec = "none" /\ ~BuildActive(v) -> {Verdict("errored", "lost")}
           [] v.exec # "none" /\ v.plan = "none"         -> {Verdict("errored", "incomplete")}
           [] OTHER                              -> Copied(v)
    ELSE CASE v.exec = "succeeded" /\ v.plan = "none"           -> {Verdict("errored", "incomplete")}
           [] v.exec # "none" /\ (v.exec = "succeeded" => v.plan = "actual") -> Copied(v)
           [] v.exec = "none" /\ BuildActive(v)         -> {}
           [] v.exec = "none" /\ v.build \in Terminal   -> {Verdict("errored", "lost")}
           [] OTHER -> IF v.age = "overdue" THEN {Verdict("errored", "incomplete")} ELSE {}

Outcome(r) ==
    /\ rpc[r] = "outcome"
    /\ \/ /\ Verdicts(view[r]) = {}
          /\ Goto(r, "idle", NoView)
          /\ UNCHANGED <<run, claims>>
       \/ \E d \in Verdicts(view[r]) : FinalizeRow(r, d.status, d.reason)
    /\ UNCHANGED <<selected, waits, ticket, bpc, spc, asked, canceler, pending, faults>>

\* cancelOpenWaits: before the outcome of a canceling run, after the
\* finalization of any run, and as the repair of a terminal one.
SettleWaits(r) ==
    /\ rpc[r] \in {"cancel", "settle", "repair"}
    /\ CancelWaits
    /\ Goto(r, IF rpc[r] = "cancel" THEN "outcome" ELSE "ticket", view[r])
    /\ UNCHANGED <<run, selected, claims, ticket, bpc, spc, asked, canceler, pending, faults>>

\* settleOpenWaits logs a failure and goes on.
SettleFails(r) ==
    /\ rpc[r] = "settle" /\ Fault
    /\ Goto(r, "ticket", NoView)
    /\ UNCHANGED <<run, selected, waits, claims, ticket, bpc, spc, asked, canceler, pending>>

\* projectOwningTicket.
ProjectTicket(r) ==
    /\ rpc[r] = "ticket"
    /\ ticket' = "needs_review"
    /\ Goto(r, "idle", NoView)
    /\ UNCHANGED <<run, selected, waits, claims, bpc, spc, asked, canceler, pending, faults>>

\* A call fails or the web crashes: the row is claimed again later.
ReconcilerStops(r) ==
    /\ rpc[r] # "idle" /\ Fault
    /\ Goto(r, "idle", NoView)
    /\ pending' = [pending EXCEPT ![r] = {}]
    /\ UNCHANGED <<run, selected, waits, claims, ticket, bpc, spc, asked, canceler>>

-----------------------------------------------------------------------------
BinderNext(b) == Bind(b) \/ Refuse(b) \/ CreateExecution(b) \/ Advance(b) \/ BinderStops(b)
SchedulerNext == StartBuild \/ FinishUnstarted
EngineEnds == \E s \in Terminal : EngineFinish(s)
EngineNext == EngineEnds \/ SealOutput \/ \E w \in Waits : Await(w) \/ Expire(w)
HumanNext(h) == Complete(h) \/ \E w \in Waits : Reserve(h, w)
CancelerNext == \/ CancelRequested \/ CancelLoad \/ CancelMove \/ CancelClose \/ CancelAbort
                \/ CancelCheck \/ CancelOpenWaits \/ CancelStops
ReconcilerNext(r) == \/ Inspect(r) \/ Admit(r) \/ Reinspect(r) \/ ListPending(r)
                     \/ AnswersCompleted(r) \/ Outcome(r) \/ SettleWaits(r) \/ ProjectTicket(r)
                     \/ \E w \in Waits : CompletePending(r, w)
TimeNext == TimeoutPasses \/ \E w \in Waits : DeadlinePasses(w)
FaultNext == DeleteBuild \/ SchedulerStops \/ \E r \in Reconcilers : SettleFails(r) \/ ReconcilerStops(r)

Next == \/ \E b \in Binders : BinderNext(b)
        \/ SchedulerNext \/ EngineNext \/ AbortBuild
        \/ \E h \in Humans : HumanNext(h)
        \/ CancelerNext
        \/ \E r \in Reconcilers : ReconcilerNext(r)
        \/ TimeNext \/ FaultNext

Spec == Init /\ [][Next]_vars

\* The scheduler and the reconcilers are run at an interval by the component
\* runner, a build that runs ends, and time passes.  Nobody has to bind, to
\* answer or to cancel.
Fairness ==
    /\ WF_vars(SchedulerNext)
    /\ WF_vars(EngineEnds)
    /\ WF_vars(TimeoutPasses)
    /\ \A r \in Reconcilers : WF_vars(ReconcilerNext(r))

FairSpec == Spec /\ Fairness

-----------------------------------------------------------------------------
(* Properties. *)

Views == [status : Statuses, link : {"empty", "complete"}, plan : {"none", "actual"},
          exec : Outcomes, age : {"recent", "overdue"},
          build : Outcomes \cup {"pending", "started", "gone"}]

Reasons == {"none", "refused", "planning", "interrupted", "lost", "incomplete", "mismatch", "corrupt",
            "copied"}

RunType ==
    /\ status \in Statuses /\ link \in {"empty", "complete"}
    /\ plan \in {"none", "actual"} /\ exec \in Outcomes
    /\ reason \in Reasons
    /\ age \in {"recent", "overdue"} /\ aborted \in BOOLEAN
    /\ build \in Outcomes \cup {"pending", "started", "gone"}
    /\ ticket \in {"running", "needs_review"}
    /\ faults \in 0..MaxFaults

WaitType ==
    /\ wait \in [Waits -> {"none", "waiting", "resolved", "timed_out", "cancelled"}]
    /\ late \subseteq Waits
    /\ intent \in [Waits -> Humans \cup {NoHuman}]
    /\ answer \in [Waits -> Humans \cup {NoHuman, Default}]
    /\ claims \subseteq Claims
    /\ asked \in [Humans -> Waits \cup {NoWait}]

ProgramType ==
    /\ bpc \in [Binders -> {"idle", "resume", "advance"}]
    /\ spc \in {"idle", "abort", "planError"}
    /\ cpc \in {"idle", "load", "move", "close", "abort", "check", "waits"}
    /\ tries \in Nat
    /\ seen \in [status : Statuses, plan : {"none", "actual"}, exec : Outcomes]

ReconcilerType ==
    /\ rpc \in [Reconcilers -> {"idle", "admit", "reinspect", "list", "answer", "outcome", "cancel",
                                "settle", "repair", "ticket"}]
    /\ view \in [Reconcilers -> Views]
    /\ pending \in [Reconcilers -> SUBSET Waits]

TypeOK == RunType /\ WaitType /\ ProgramType /\ ReconcilerType

\* The terminal status of a run tells what its build did, whoever classified it
\* and however stale what they had read: a succeeded run has the copied success
\* of its build and a recorded plan; an aborted run had its build aborted or
\* never had one; a failed run had a build that failed or whose success was
\* withdrawn; an outcome is declared lost only when the build is gone; and a
\* copied outcome is the one the build has.
TruthfulOutcome ==
    /\ status = "succeeded" => exec = "succeeded" /\ plan = "actual"
    /\ status = "aborted" => exec = "aborted" \/ (exec = "none" /\ link = "empty")
    /\ status = "failed" => exec \in {"failed", "succeeded"}
    /\ status = "errored" /\ reason = "lost" => build = "gone" /\ exec = "none"
    /\ exec # "none" => build \in {exec, "gone"}

\* A terminal run holds no claim of class 'run', so that its snapshots can be
\* collected: an answer, a question, a default or an output that is attached
\* while the run is being finalized is either released by it or refused
\* (lockActiveWorkflowWaitRun, validateSealInvocation,
\* releaseAgentWorkflowRunRetention).
ClaimsReleased == status \in Terminal => claims = {}

\* Four iterations are always enough for the canceler: it never gives up
\* because of lost races alone (the bound of the loop in cancelExecution).
AttemptsSuffice == tries < MaxAttempts

\* What the programs rely on between their transactions: link and selected
\* build appear together; what a reconciler has inspected is only overtaken,
\* never contradicted; the canceler's iterations are bounded by the steps the
\* status can still take; an accepted answer belongs to a wait that is open or
\* resolved by it.
LinkInv ==
    /\ link = "complete" <=> build # "none"
    /\ status = "running" => link = "complete"
    /\ link = "complete" => status # "none"
    /\ plan = "actual" => link = "complete"
    /\ build \in Terminal => exec = build
    /\ \A b \in Binders : bpc[b] = "advance" => link = "complete"

ViewFits(pc, v) ==
    /\ pc = "admit" => v.status = "admitting"
    /\ pc \in {"list", "answer"} => v.status = "running"
    /\ pc = "cancel" => v.status = "canceling"
    /\ pc = "outcome" => v.status \in {"running", "canceling"}
    /\ v.status = "running" => v.build # "none"
    /\ v.build \in Terminal => v.exec = v.build
    /\ v.build = "gone" => build = "gone"

ViewInv == \A r \in Reconcilers : ViewFits(rpc[r], view[r])

CancelInv ==
    /\ cpc \in {"load", "move", "close"} \/ tries = 0
    /\ tries = 1 => status \notin {"none", "admitting"}
    /\ tries = 2 => status \notin {"none", "admitting", "running"}
    /\ tries = 3 => status \in Terminal
    /\ cpc = "move" => \/ seen.status = "admitting" /\ tries = 0 /\ status # "none"
                       \/ seen.status = "running" /\ tries < 2 /\ status \notin {"none", "admitting"}
    /\ cpc = "close" => /\ seen.status = "canceling" /\ seen.exec = "none" /\ seen.plan = "none"
                        /\ link = "empty" /\ tries < 3 /\ status \notin {"none", "admitting", "running"}

WaitInv ==
    /\ \A w \in Waits :
          /\ intent[w] # NoHuman => wait[w] \in {"waiting", "resolved"}
          /\ wait[w] = "resolved" => intent[w] # NoHuman /\ answer[w] = intent[w]
    /\ \A r \in Reconcilers : \A w \in pending[r] :
          wait[w] # "none" /\ (wait[w] = "waiting" => intent[w] # NoHuman)

\* All of it together is inductive: no program leaves the row, the build, the
\* waits and what another one has read of them in a state they do not expect.
RunInv == /\ TypeOK /\ LinkInv /\ ViewInv /\ CancelInv /\ WaitInv
          /\ TruthfulOutcome /\ ClaimsReleased /\ AttemptsSuffice

\* An accepted answer is never replaced by another one nor by the timeout: it
\* is the one that resolves the wait, or goes with the whole wait when that is
\* cancelled after the run left running.  And the answer of a wait that ended
\* never changes.
AcceptedAnswerKept ==
    [][\A w \in Waits :
          /\ intent[w] # NoHuman =>
                \/ intent'[w] = intent[w] /\ wait'[w] = "waiting"
                \/ intent'[w] = intent[w] /\ wait'[w] = "resolved" /\ answer'[w] = intent[w]
                \/ wait'[w] = "cancelled" /\ status # "running"
          /\ wait[w] \in {"resolved", "timed_out", "cancelled"} =>
                wait'[w] = wait[w] /\ answer'[w] = answer[w]]_vars

\* What is terminal stays: no step changes the status, the outcome or the plan
\* of a terminal run, nor an outcome once it is copied.
HistoryImmutable ==
    [][/\ status \in Terminal => status' = status /\ exec' = exec /\ plan' = plan /\ reason' = reason
       /\ exec # "none" => exec' = exec]_vars

\* Every admitted run is settled: it becomes terminal, none of its waits stays
\* open and its ticket leaves running, whatever fails on the way.
RunSettles == []<>(status = "none" \/ (status \in Terminal /\ OpenWaits = {} /\ ticket # "running"))

\* The run implements its contract: seen from outside, all the transactions of
\* all the programs are one admission, at most one recorded outcome, and one
\* justified and final verdict that gives up the claims (RunSettles says that
\* the verdict comes).
Contract == INSTANCE RunContract
    WITH Retainable <- Claims,
         phase <- IF status \in Active THEN "open" ELSE status,
         evidence <- exec,
         retained <- claims

KeepsContract == Contract!Spec

\* A terminal run has no build that is pending or running: the test "reserves
\* direct terminal transitions for an empty failed admission" demands it of
\* the transition out of admitting.
NoBypassedBuild == status \in Terminal => build \notin {"pending", "started"}
=============================================================================

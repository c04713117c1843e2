-------------------------- MODULE WorkflowRunProofs --------------------------
(***************************************************************************)
(* Proofs about WorkflowRun, for any number of binders, reconcilers,       *)
(* people, waits and faults.                                               *)
(***************************************************************************)
EXTENDS WorkflowRun, TLAPS

USE DEF run, selected, waits, canceler, reconciler

(* What a reconciler may keep of a row is a view.                           *)
LEMMA ViewsTyped == RunInv => View \in Views /\ NoView \in Views
  BY Zenon DEF RunInv, TypeOK, RunType, View, NoView, Views, Statuses, Outcomes

(* A verdict on a row that is still as it was inspected is true of it.      *)
LEMMA VerdictTrue ==
  ASSUME RunInv, NEW r \in Reconcilers, rpc[r] = "outcome", NEW d \in Verdicts(view[r])
  PROVE  /\ view[r].status \in {"running", "canceling"}
         /\ d.status \in Terminal /\ d.reason \in Reasons
         /\ Matches(view[r]) =>
              /\ d.status = "succeeded" => exec = "succeeded" /\ plan = "actual"
              /\ d.status = "aborted" => exec = "aborted"
              /\ d.status = "failed" => exec \in {"failed", "succeeded"}
              /\ d.reason = "lost" => build = "gone" /\ exec = "none"
  <1> DEFINE v == view[r]
  <1>1. v \in Views /\ ViewFits("outcome", v)
    BY Zenon DEF RunInv, TypeOK, ReconcilerType, ViewInv
  <1> HIDE DEF v
  <1>2. d \in Verdicts(v)
    BY Zenon DEF v
  <1>3. v.status \in {"running", "canceling"} /\ v.exec \in Outcomes
    BY <1>1, Zenon DEF ViewFits, Views
  <1>4. CASE d \in Copied(v) /\ v.exec # "none" /\ (v.exec = "succeeded" => v.plan = "actual")
    <2>1. d.status \in Terminal /\ d.reason \in Reasons /\ d.reason # "lost"
      BY <1>3, <1>4 DEF Copied, Verdict, Outcomes, Terminal, Reasons
    <2>2. \/ d.status = v.exec
          \/ v.exec = "succeeded" /\ d.status \in {"failed", "errored"}
      BY <1>4 DEF Copied, Verdict
    <2> QED
      BY <1>3, <1>4, <2>1, <2>2, Zenon DEF v, Matches
  <1>5. CASE d = Verdict("errored", "incomplete")
    BY <1>3, <1>5, Zenon DEF v, Verdict, Terminal, Reasons
  <1>6. CASE d = Verdict("errored", "lost") /\ v.exec = "none" /\ v.build = "gone"
    <2>1. build = "gone"
      BY <1>1, <1>6, Zenon DEF ViewFits
    <2> QED
      BY <1>3, <1>6, <2>1, Zenon DEF v, Verdict, Terminal, Reasons, Matches
  <1>7. d = Verdict("errored", "lost") => v.exec = "none" /\ v.build = "gone"
    <2>1. CASE v.status = "running"
      BY <1>1, <1>2, <1>3, <2>1
         DEF Verdicts, Verdict, Copied, BuildActive, ViewFits, Views, Outcomes, Terminal
    <2>2. CASE v.status = "canceling"
      BY <1>1, <1>2, <1>3, <2>2
         DEF Verdicts, Verdict, Copied, BuildActive, ViewFits, Views, Outcomes, Terminal
    <2> QED
      BY <1>3, <2>1, <2>2, Zenon
  <1>8. \/ d \in Copied(v) /\ v.exec # "none" /\ (v.exec = "succeeded" => v.plan = "actual")
        \/ d = Verdict("errored", "incomplete")
        \/ d = Verdict("errored", "lost")
    <2>1. CASE v.status = "running"
      BY <1>1, <1>2, <2>1, Zenon DEF Verdicts, Views
    <2>2. CASE v.status = "canceling"
      BY <1>1, <1>2, <2>2, Zenon DEF Verdicts, Views
    <2> QED
      BY <1>3, <2>1, <2>2, Zenon
  <1> QED
    BY <1>4, <1>5, <1>6, <1>7, <1>8, Zenon

(* What a reconciler's verdict does: nothing, or it ends an active run as   *)
(* the row and the build bear out.                                          *)
LEMMA OutcomeEffect ==
  ASSUME RunInv, NEW r \in Reconcilers, Outcome(r)
  PROVE  /\ Goto(r, "idle", NoView) \/ Goto(r, "settle", NoView)
         /\ UNCHANGED <<link, plan, exec, age, build>>
         /\ \/ UNCHANGED <<status, reason, claims>>
            \/ /\ status \in {"running", "canceling"} /\ status' \in Terminal
               /\ reason' \in Reasons /\ claims' = {}
               /\ status' = "succeeded" => exec = "succeeded" /\ plan = "actual"
               /\ status' = "aborted" => exec = "aborted"
               /\ status' = "failed" => exec \in {"failed", "succeeded"}
               /\ reason' = "lost" => build = "gone" /\ exec = "none"
  <1>1. UNCHANGED build
    BY Zenon DEF Outcome
  <1>2. CASE Goto(r, "idle", NoView) /\ UNCHANGED <<run, claims>>
    BY <1>1, <1>2, Zenon
  <1>3. ASSUME NEW d \in Verdicts(view[r]), FinalizeRow(r, d.status, d.reason), Matches(view[r])
        PROVE  /\ Goto(r, "settle", NoView) /\ claims' = {}
               /\ status' = d.status /\ reason' = d.reason
               /\ UNCHANGED <<link, plan, exec, age>>
    BY <1>3, Zenon DEF FinalizeRow, Terminalize
  <1>4. ASSUME NEW d \in Verdicts(view[r]), FinalizeRow(r, d.status, d.reason), ~Matches(view[r])
        PROVE  Goto(r, "idle", NoView) /\ UNCHANGED <<run, claims>>
    BY <1>4, Zenon DEF FinalizeRow, RunInv, ClaimsReleased
  <1>5. rpc[r] = "outcome"
    BY Zenon DEF Outcome
  <1>6. ASSUME NEW d \in Verdicts(view[r]), FinalizeRow(r, d.status, d.reason), Matches(view[r])
        PROVE  /\ status \in {"running", "canceling"} /\ d.status \in Terminal /\ d.reason \in Reasons
               /\ d.status = "succeeded" => exec = "succeeded" /\ plan = "actual"
               /\ d.status = "aborted" => exec = "aborted"
               /\ d.status = "failed" => exec \in {"failed", "succeeded"}
               /\ d.reason = "lost" => build = "gone" /\ exec = "none"
    BY <1>5, <1>6, VerdictTrue, Zenon DEF Matches
  <1> QED
    BY <1>1, <1>2, <1>3, <1>4, <1>6, Zenon DEF Outcome

(* What a reconciler does to an admitting run.                              *)
LEMMA AdmitEffect ==
  ASSUME RunInv, NEW r \in Reconcilers, Admit(r)
  PROVE  /\ Goto(r, "idle", NoView) \/ Goto(r, "settle", NoView) \/ Goto(r, "reinspect", NoView)
         /\ UNCHANGED <<link, plan, exec, build>>
         /\ \/ UNCHANGED <<status, reason, age, claims>>
            \/ /\ status = "admitting" /\ link = "complete" /\ status' = "running"
               /\ age' = "recent" /\ UNCHANGED <<reason, claims>>
            \/ /\ status = "admitting" /\ status' = "errored" /\ reason' = "interrupted"
               /\ claims' = {} /\ UNCHANGED age
  <1>1. view[r].status = "admitting"
    BY Zenon DEF Admit, RunInv, ViewInv, ViewFits
  <1>2. UNCHANGED build
    BY Zenon DEF Admit
  <1>3. CASE FinalizeRow(r, "errored", "interrupted")
    BY <1>1, <1>2, <1>3, Zenon DEF FinalizeRow, Matches, Terminalize, RunInv, ClaimsReleased
  <1> QED
    BY <1>2, <1>3, Zenon DEF Admit, AdvanceAdmission

(* A build that finishes records its outcome in an open run, or leaves the  *)
(* run as it is.                                                           *)
LEMMA FinishEffect ==
  ASSUME RunInv, NEW s \in Terminal, build # "none", Finish(s)
  PROVE  /\ UNCHANGED <<status, claims>>
         /\ \/ UNCHANGED exec
            \/ status \in Active /\ exec = "none" /\ exec' \in Terminal
  <1>1. status # "none" /\ status \in Statuses
    BY Zenon DEF RunInv, TypeOK, RunType, LinkInv
  <1>2. CASE status \in Terminal
    BY <1>2, Zenon DEF Finish
  <1>3. CASE status \in Active
    <2>1. exec' = s /\ exec \in {"none", s} /\ UNCHANGED <<status, claims>>
      BY <1>3, Zenon DEF Finish, CanCapture, Active, Terminal
    <2> QED
      BY <1>3, <2>1, Zenon
  <1> QED
    BY <1>1, <1>2, <1>3, Zenon DEF Statuses

(* The run, its build and its ticket keep their types.                    *)
LEMMA RunTyped == RunInv /\ Next => RunType'
  <1> SUFFICES ASSUME RunInv, Next PROVE RunType'
    BY Zenon
  <1> DEFINE Frame == UNCHANGED <<status, link, plan, exec, reason, age, build, aborted, ticket, faults>>
  <1>0. CASE Frame
    BY <1>0 DEF RunInv, TypeOK, RunType, Reasons, Statuses, Outcomes, Active, Terminal
  <1>1. ASSUME NEW b \in Binders, Bind(b) PROVE RunType'
    BY <1>1, FaultsAssumption DEF Bind, CreateWithInputs, RunInv, TypeOK, RunType, Reasons,
       Statuses, Outcomes, Active, Terminal
  <1>2. ASSUME NEW b \in Binders, Refuse(b) PROVE RunType'
    BY <1>2, FaultsAssumption, Zenon DEF Refuse, Terminalize, RunInv, TypeOK, RunType, Reasons,
       Statuses, Outcomes, Active, Terminal
  <1>3. ASSUME NEW b \in Binders, CreateExecution(b) PROVE RunType'
    BY <1>3, FaultsAssumption DEF CreateExecution, RunInv, TypeOK, RunType, Reasons, Statuses,
       Outcomes, Active, Terminal
  <1>4. ASSUME NEW b \in Binders, Advance(b) PROVE RunType'
    BY <1>4, FaultsAssumption DEF Advance, RunInv, TypeOK, RunType, Reasons, Statuses, Outcomes,
       Active, Terminal
  <1>5. ASSUME NEW b \in Binders, BinderStops(b) PROVE Frame
    BY <1>5, Zenon DEF BinderStops
  <1>6. ASSUME StartBuild PROVE RunType'
    BY <1>6, FaultsAssumption DEF StartBuild, CapturePlan, RunInv, TypeOK, RunType, Reasons,
       Statuses, Outcomes, Active, Terminal
  <1>7. ASSUME FinishUnstarted PROVE RunType'
    BY <1>7, FaultsAssumption, Zenon DEF FinishUnstarted, Finish, CanCapture, FinishPlanningError,
       RunInv, TypeOK, RunType, Reasons, Statuses, Outcomes, Active, Terminal
  <1>8. ASSUME NEW s \in Terminal, EngineFinish(s) PROVE RunType'
    BY <1>8, FaultsAssumption DEF EngineFinish, Finish, CanCapture, RunInv, TypeOK, RunType,
       Reasons, Statuses, Outcomes, Active, Terminal
  <1>9. ASSUME NEW w \in Waits, Await(w) PROVE Frame
    BY <1>9, Zenon DEF Await, CreateOrGet
  <1>10. ASSUME NEW w \in Waits, Expire(w) PROVE Frame
    BY <1>10, Zenon DEF Expire, ExpireLocked, AnswerClaim
  <1>11. ASSUME AbortBuild PROVE RunType'
    BY <1>11, Zenon DEF AbortBuild, RunInv, TypeOK, RunType
  <1>12. ASSUME NEW h \in Humans, NEW w \in Waits, Reserve(h, w) PROVE Frame
    BY <1>12, Zenon DEF Reserve, ExpireLocked, AnswerClaim
  <1>13. ASSUME NEW h \in Humans, Complete(h) PROVE Frame
    BY <1>13, Zenon DEF Complete, Resolve, AnswerClaim
  <1>14. ASSUME CancelRequested PROVE Frame
    BY <1>14, Zenon DEF CancelRequested
  <1>15. ASSUME CancelLoad PROVE Frame
    BY <1>15, Zenon DEF CancelLoad
  <1>16. ASSUME CancelMove PROVE RunType'
    BY <1>16, FaultsAssumption DEF CancelMove, NoRow, RunInv, TypeOK, RunType, Reasons,
       Statuses, Outcomes, Active, Terminal
  <1>17. ASSUME CancelClose PROVE RunType'
    BY <1>17, FaultsAssumption, Zenon DEF CancelClose, Matches, Terminalize, NoRow, RunInv, TypeOK,
       RunType, Reasons, Statuses, Outcomes, Active, Terminal
  <1>18. ASSUME CancelAbort PROVE RunType'
    BY <1>18, Zenon DEF CancelAbort, RunInv, TypeOK, RunType
  <1>19. ASSUME CancelCheck PROVE Frame
    BY <1>19, Zenon DEF CancelCheck
  <1>20. ASSUME CancelOpenWaits PROVE Frame
    BY <1>20, Zenon DEF CancelOpenWaits, CancelWaits
  <1>21. ASSUME CancelStops PROVE Frame
    BY <1>21, Zenon DEF CancelStops
  <1>22. ASSUME NEW r \in Reconcilers, Inspect(r) PROVE Frame
    BY <1>22, Zenon DEF Inspect, Goto
  <1>23. ASSUME NEW r \in Reconcilers, Admit(r) PROVE RunType'
    BY <1>23, AdmitEffect, Zenon DEF Admit, RunInv, TypeOK, RunType, Statuses, Active, Terminal, Reasons
  <1>24. ASSUME NEW r \in Reconcilers, Reinspect(r) PROVE Frame
    BY <1>24, Zenon DEF Reinspect, Goto
  <1>25. ASSUME NEW r \in Reconcilers, ListPending(r) PROVE Frame
    BY <1>25, Zenon DEF ListPending, Goto
  <1>26. ASSUME NEW r \in Reconcilers, NEW w \in Waits, CompletePending(r, w) PROVE Frame
    BY <1>26, Zenon DEF CompletePending, Resolve, AnswerClaim, Goto
  <1>27. ASSUME NEW r \in Reconcilers, AnswersCompleted(r) PROVE Frame
    BY <1>27, Zenon DEF AnswersCompleted, Goto
  <1>28. ASSUME NEW r \in Reconcilers, Outcome(r) PROVE RunType'
    BY <1>28, OutcomeEffect, Zenon DEF Outcome, RunInv, TypeOK, RunType, Statuses
  <1>29. ASSUME NEW r \in Reconcilers, SettleWaits(r) PROVE Frame
    BY <1>29, Zenon DEF SettleWaits, CancelWaits, Goto
  <1>30. ASSUME NEW r \in Reconcilers, ProjectTicket(r) PROVE RunType'
    BY <1>30, FaultsAssumption DEF ProjectTicket, Goto, NoView, RunInv, TypeOK, RunType,
       Reasons, Statuses, Outcomes, Active, Terminal
  <1>31. ASSUME TimeoutPasses PROVE RunType'
    BY <1>31, FaultsAssumption DEF TimeoutPasses, RunInv, TypeOK, RunType, Reasons, Statuses,
       Outcomes, Active, Terminal
  <1>32. ASSUME NEW w \in Waits, DeadlinePasses(w) PROVE Frame
    BY <1>32, Zenon DEF DeadlinePasses
  <1>33. ASSUME DeleteBuild PROVE RunType'
    BY <1>33, FaultsAssumption DEF DeleteBuild, Fault, RunInv, TypeOK, RunType, Reasons,
       Statuses, Outcomes, Active, Terminal
  <1>34. ASSUME SchedulerStops PROVE RunType'
    BY <1>34, FaultsAssumption DEF SchedulerStops, Fault, RunInv, TypeOK, RunType, Reasons,
       Statuses, Outcomes, Active, Terminal
  <1>35. ASSUME NEW r \in Reconcilers, SettleFails(r) PROVE RunType'
    BY <1>35, FaultsAssumption DEF SettleFails, Fault, Goto, NoView, RunInv, TypeOK, RunType,
       Reasons, Statuses, Outcomes, Active, Terminal
  <1>36. ASSUME NEW r \in Reconcilers, ReconcilerStops(r) PROVE RunType'
    BY <1>36, FaultsAssumption DEF ReconcilerStops, Fault, Goto, NoView, RunInv, TypeOK,
       RunType, Reasons, Statuses, Outcomes, Active, Terminal
  <1>37. ASSUME SealOutput PROVE Frame
    BY <1>37, Zenon DEF SealOutput
  <1> QED
    BY <1>0, <1>1, <1>2, <1>3, <1>4, <1>5, <1>6, <1>7, <1>8, <1>9, <1>10, <1>11, <1>12, <1>13,
       <1>14, <1>15, <1>16, <1>17, <1>18, <1>19, <1>20, <1>21, <1>22, <1>23, <1>24, <1>25,
       <1>26, <1>27, <1>28, <1>29, <1>30, <1>31, <1>32, <1>33, <1>34, <1>35, <1>36, <1>37, Zenon DEF Next,
       BinderNext, SchedulerNext, EngineNext, EngineEnds, HumanNext, CancelerNext,
       ReconcilerNext, TimeNext, FaultNext

(* The waits, claims and requests of people keep their types.             *)
LEMMA WaitTyped == RunInv /\ Next => WaitType'
  <1> SUFFICES ASSUME RunInv, Next PROVE WaitType'
    BY Zenon
  <1> DEFINE Frame == UNCHANGED <<wait, late, intent, answer, claims, asked>>
  <1>0. CASE Frame
    BY <1>0, Zenon DEF RunInv, TypeOK, WaitType, Claims
  <1>1. ASSUME NEW b \in Binders, Bind(b) PROVE WaitType'
    BY <1>1, WaitAssumption, Zenon DEF Bind, CreateWithInputs, RunInv, TypeOK, WaitType, Claims
  <1>2. ASSUME NEW b \in Binders, Refuse(b) PROVE WaitType'
    BY <1>2, WaitAssumption, Zenon DEF Refuse, Terminalize, RunInv, TypeOK, WaitType, Claims
  <1>3. ASSUME NEW b \in Binders, CreateExecution(b) PROVE Frame
    BY <1>3, Zenon DEF CreateExecution
  <1>4. ASSUME NEW b \in Binders, Advance(b) PROVE Frame
    BY <1>4, Zenon DEF Advance
  <1>5. ASSUME NEW b \in Binders, BinderStops(b) PROVE Frame
    BY <1>5, Zenon DEF BinderStops
  <1>6. ASSUME StartBuild PROVE Frame
    BY <1>6, Zenon DEF StartBuild, CapturePlan
  <1>7. ASSUME FinishUnstarted PROVE WaitType'
    BY <1>7, WaitAssumption, Zenon DEF FinishUnstarted, Finish, CanCapture, FinishPlanningError,
       RunInv, TypeOK, WaitType, Claims
  <1>8. ASSUME NEW s \in Terminal, EngineFinish(s) PROVE Frame
    BY <1>8, Zenon DEF EngineFinish, Finish, CanCapture
  <1>9. ASSUME NEW w \in Waits, Await(w) PROVE WaitType'
    BY <1>9, WaitAssumption DEF Await, CreateOrGet, RunInv, TypeOK, WaitType, Claims
  <1>10. ASSUME NEW w \in Waits, Expire(w) PROVE WaitType'
    BY <1>10, WaitAssumption DEF Expire, ExpireLocked, AnswerClaim, RunInv, TypeOK, WaitType,
       Claims
  <1>11. ASSUME AbortBuild PROVE Frame
    BY <1>11, Zenon DEF AbortBuild
  <1>12. ASSUME NEW h \in Humans, NEW w \in Waits, Reserve(h, w) PROVE WaitType'
    BY <1>12, WaitAssumption DEF Reserve, ExpireLocked, AnswerClaim, RunInv, TypeOK, WaitType,
       Claims
  <1>13. ASSUME NEW h \in Humans, Complete(h) PROVE WaitType'
    BY <1>13, WaitAssumption DEF Complete, Resolve, AnswerClaim, RunInv, TypeOK, WaitType,
       Claims
  <1>14. ASSUME CancelRequested PROVE Frame
    BY <1>14, Zenon DEF CancelRequested
  <1>15. ASSUME CancelLoad PROVE Frame
    BY <1>15, Zenon DEF CancelLoad
  <1>16. ASSUME CancelMove PROVE Frame
    BY <1>16, Zenon DEF CancelMove
  <1>17. ASSUME CancelClose PROVE WaitType'
    BY <1>17, WaitAssumption, Zenon DEF CancelClose, Matches, Terminalize, NoRow, RunInv, TypeOK,
       WaitType, Claims
  <1>18. ASSUME CancelAbort PROVE Frame
    BY <1>18, Zenon DEF CancelAbort
  <1>19. ASSUME CancelCheck PROVE Frame
    BY <1>19, Zenon DEF CancelCheck
  <1>20. ASSUME CancelOpenWaits PROVE WaitType'
    BY <1>20, WaitAssumption, Zenon DEF CancelOpenWaits, CancelWaits, RunInv, TypeOK, WaitType, Claims
  <1>21. ASSUME CancelStops PROVE Frame
    BY <1>21, Zenon DEF CancelStops
  <1>22. ASSUME NEW r \in Reconcilers, Inspect(r) PROVE Frame
    BY <1>22, Zenon DEF Inspect, Goto
  <1>23. ASSUME NEW r \in Reconcilers, Admit(r) PROVE WaitType'
    BY <1>23, WaitAssumption, Zenon DEF Admit, AdvanceAdmission, Goto, NoView, FinalizeRow, Matches,
       Terminalize, RunInv, TypeOK, WaitType, Claims
  <1>24. ASSUME NEW r \in Reconcilers, Reinspect(r) PROVE Frame
    BY <1>24, Zenon DEF Reinspect, Goto
  <1>25. ASSUME NEW r \in Reconcilers, ListPending(r) PROVE Frame
    BY <1>25, Zenon DEF ListPending, Goto
  <1>26. ASSUME NEW r \in Reconcilers, NEW w \in Waits, CompletePending(r, w) PROVE WaitType'
    BY <1>26, WaitAssumption DEF CompletePending, Resolve, AnswerClaim, Goto, NoView, RunInv,
       TypeOK, WaitType, Claims
  <1>27. ASSUME NEW r \in Reconcilers, AnswersCompleted(r) PROVE Frame
    BY <1>27, Zenon DEF AnswersCompleted, Goto
  <1>28. ASSUME NEW r \in Reconcilers, Outcome(r) PROVE WaitType'
    BY <1>28, WaitAssumption, Zenon DEF Outcome, Goto, NoView, FinalizeRow, Matches, Terminalize,
       Verdicts, Copied, Verdict, BuildActive, RunInv, TypeOK, WaitType, Claims
  <1>29. ASSUME NEW r \in Reconcilers, SettleWaits(r) PROVE WaitType'
    BY <1>29, WaitAssumption, Zenon DEF SettleWaits, CancelWaits, Goto, RunInv, TypeOK, WaitType,
       Claims
  <1>30. ASSUME NEW r \in Reconcilers, ProjectTicket(r) PROVE Frame
    BY <1>30, Zenon DEF ProjectTicket, Goto
  <1>31. ASSUME TimeoutPasses PROVE Frame
    BY <1>31, Zenon DEF TimeoutPasses
  <1>32. ASSUME NEW w \in Waits, DeadlinePasses(w) PROVE WaitType'
    BY <1>32, WaitAssumption, Zenon DEF DeadlinePasses, RunInv, TypeOK, WaitType, Claims
  <1>33. ASSUME DeleteBuild PROVE Frame
    BY <1>33, Zenon DEF DeleteBuild, Fault
  <1>34. ASSUME SchedulerStops PROVE Frame
    BY <1>34, Zenon DEF SchedulerStops, Fault
  <1>35. ASSUME NEW r \in Reconcilers, SettleFails(r) PROVE Frame
    BY <1>35, Zenon DEF SettleFails, Fault, Goto
  <1>36. ASSUME NEW r \in Reconcilers, ReconcilerStops(r) PROVE Frame
    BY <1>36, Zenon DEF ReconcilerStops, Fault, Goto
  <1>37. ASSUME SealOutput PROVE WaitType'
    BY <1>37, WaitAssumption DEF SealOutput, RunInv, TypeOK, WaitType, Claims
  <1> QED
    BY <1>0, <1>1, <1>2, <1>3, <1>4, <1>5, <1>6, <1>7, <1>8, <1>9, <1>10, <1>11, <1>12, <1>13,
       <1>14, <1>15, <1>16, <1>17, <1>18, <1>19, <1>20, <1>21, <1>22, <1>23, <1>24, <1>25,
       <1>26, <1>27, <1>28, <1>29, <1>30, <1>31, <1>32, <1>33, <1>34, <1>35, <1>36, <1>37, Zenon DEF Next,
       BinderNext, SchedulerNext, EngineNext, EngineEnds, HumanNext, CancelerNext,
       ReconcilerNext, TimeNext, FaultNext

(* Binders, scheduler and canceler keep their types.                      *)
LEMMA ProgramTyped == RunInv /\ Next => ProgramType'
  <1> SUFFICES ASSUME RunInv, Next PROVE ProgramType'
    BY Zenon
  <1> DEFINE Frame == UNCHANGED <<bpc, spc, cpc, seen, tries>>
  <1>0. CASE Frame
    BY <1>0 DEF RunInv, TypeOK, ProgramType, RunType, Statuses, Outcomes, Active, Terminal
  <1>1. ASSUME NEW b \in Binders, Bind(b) PROVE ProgramType'
    BY <1>1 DEF Bind, CreateWithInputs, RunInv, TypeOK, ProgramType, RunType, Statuses,
       Outcomes, Active, Terminal
  <1>2. ASSUME NEW b \in Binders, Refuse(b) PROVE ProgramType'
    BY <1>2 DEF Refuse, Terminalize, RunInv, TypeOK, ProgramType, RunType, Statuses, Outcomes,
       Active, Terminal
  <1>3. ASSUME NEW b \in Binders, CreateExecution(b) PROVE ProgramType'
    BY <1>3 DEF CreateExecution, RunInv, TypeOK, ProgramType, RunType, Statuses, Outcomes,
       Active, Terminal
  <1>4. ASSUME NEW b \in Binders, Advance(b) PROVE ProgramType'
    BY <1>4 DEF Advance, RunInv, TypeOK, ProgramType, RunType, Statuses, Outcomes, Active,
       Terminal
  <1>5. ASSUME NEW b \in Binders, BinderStops(b) PROVE ProgramType'
    BY <1>5 DEF BinderStops, RunInv, TypeOK, ProgramType, RunType, Statuses, Outcomes, Active,
       Terminal
  <1>6. ASSUME StartBuild PROVE ProgramType'
    BY <1>6 DEF StartBuild, CapturePlan, RunInv, TypeOK, ProgramType, RunType, Statuses,
       Outcomes, Active, Terminal
  <1>7. ASSUME FinishUnstarted PROVE ProgramType'
    BY <1>7 DEF FinishUnstarted, Finish, CanCapture, FinishPlanningError, RunInv, TypeOK,
       ProgramType, RunType, Statuses, Outcomes, Active, Terminal
  <1>8. ASSUME NEW s \in Terminal, EngineFinish(s) PROVE Frame
    BY <1>8, Zenon DEF EngineFinish, Finish, CanCapture
  <1>9. ASSUME NEW w \in Waits, Await(w) PROVE Frame
    BY <1>9, Zenon DEF Await, CreateOrGet
  <1>10. ASSUME NEW w \in Waits, Expire(w) PROVE Frame
    BY <1>10, Zenon DEF Expire, ExpireLocked, AnswerClaim
  <1>11. ASSUME AbortBuild PROVE Frame
    BY <1>11, Zenon DEF AbortBuild
  <1>12. ASSUME NEW h \in Humans, NEW w \in Waits, Reserve(h, w) PROVE Frame
    BY <1>12, Zenon DEF Reserve, ExpireLocked, AnswerClaim
  <1>13. ASSUME NEW h \in Humans, Complete(h) PROVE Frame
    BY <1>13, Zenon DEF Complete, Resolve, AnswerClaim
  <1>14. ASSUME CancelRequested PROVE ProgramType'
    BY <1>14, Zenon DEF CancelRequested, RunInv, TypeOK, ProgramType, RunType, Statuses, Outcomes,
       Active, Terminal
  <1>15. ASSUME CancelLoad PROVE ProgramType'
    BY <1>15 DEF CancelLoad, Row, NoRow, RunInv, TypeOK, ProgramType, RunType, Statuses,
       Outcomes, Active, Terminal
  <1>16. ASSUME CancelMove PROVE ProgramType'
    BY <1>16 DEF CancelMove, NoRow, RunInv, TypeOK, ProgramType, RunType, Statuses, Outcomes,
       Active, Terminal
  <1>17. ASSUME CancelClose PROVE ProgramType'
    BY <1>17 DEF CancelClose, Matches, Terminalize, NoRow, RunInv, TypeOK, ProgramType, RunType,
       Statuses, Outcomes, Active, Terminal
  <1>18. ASSUME CancelAbort PROVE ProgramType'
    BY <1>18 DEF CancelAbort, RunInv, TypeOK, ProgramType, RunType, Statuses, Outcomes, Active,
       Terminal
  <1>19. ASSUME CancelCheck PROVE ProgramType'
    BY <1>19, Zenon DEF CancelCheck, RunInv, TypeOK, ProgramType, RunType, Statuses, Outcomes, Active,
       Terminal
  <1>20. ASSUME CancelOpenWaits PROVE ProgramType'
    BY <1>20, Zenon DEF CancelOpenWaits, CancelWaits, RunInv, TypeOK, ProgramType, RunType, Statuses,
       Outcomes, Active, Terminal
  <1>21. ASSUME CancelStops PROVE ProgramType'
    BY <1>21, Zenon DEF CancelStops, NoRow, RunInv, TypeOK, ProgramType, RunType, Statuses, Outcomes,
       Active, Terminal
  <1>22. ASSUME NEW r \in Reconcilers, Inspect(r) PROVE Frame
    BY <1>22, Zenon DEF Inspect, Goto
  <1>23. ASSUME NEW r \in Reconcilers, Admit(r) PROVE Frame
    BY <1>23, Zenon DEF Admit, AdvanceAdmission, Goto, FinalizeRow, Matches, Terminalize
  <1>24. ASSUME NEW r \in Reconcilers, Reinspect(r) PROVE Frame
    BY <1>24, Zenon DEF Reinspect, Goto
  <1>25. ASSUME NEW r \in Reconcilers, ListPending(r) PROVE Frame
    BY <1>25, Zenon DEF ListPending, Goto
  <1>26. ASSUME NEW r \in Reconcilers, NEW w \in Waits, CompletePending(r, w) PROVE Frame
    BY <1>26, Zenon DEF CompletePending, Resolve, AnswerClaim, Goto
  <1>27. ASSUME NEW r \in Reconcilers, AnswersCompleted(r) PROVE Frame
    BY <1>27, Zenon DEF AnswersCompleted, Goto
  <1>28. ASSUME NEW r \in Reconcilers, Outcome(r) PROVE Frame
    BY <1>28, Zenon DEF Outcome, Goto, FinalizeRow, Matches, Terminalize
  <1>29. ASSUME NEW r \in Reconcilers, SettleWaits(r) PROVE Frame
    BY <1>29, Zenon DEF SettleWaits, CancelWaits, Goto
  <1>30. ASSUME NEW r \in Reconcilers, ProjectTicket(r) PROVE Frame
    BY <1>30, Zenon DEF ProjectTicket, Goto
  <1>31. ASSUME TimeoutPasses PROVE Frame
    BY <1>31, Zenon DEF TimeoutPasses
  <1>32. ASSUME NEW w \in Waits, DeadlinePasses(w) PROVE Frame
    BY <1>32, Zenon DEF DeadlinePasses
  <1>33. ASSUME DeleteBuild PROVE Frame
    BY <1>33, Zenon DEF DeleteBuild, Fault
  <1>34. ASSUME SchedulerStops PROVE ProgramType'
    BY <1>34, Zenon DEF SchedulerStops, Fault, RunInv, TypeOK, ProgramType, RunType, Statuses,
       Outcomes, Active, Terminal
  <1>35. ASSUME NEW r \in Reconcilers, SettleFails(r) PROVE Frame
    BY <1>35, Zenon DEF SettleFails, Fault, Goto
  <1>36. ASSUME NEW r \in Reconcilers, ReconcilerStops(r) PROVE Frame
    BY <1>36, Zenon DEF ReconcilerStops, Fault, Goto
  <1>37. ASSUME SealOutput PROVE Frame
    BY <1>37, Zenon DEF SealOutput
  <1> QED
    BY <1>0, <1>1, <1>2, <1>3, <1>4, <1>5, <1>6, <1>7, <1>8, <1>9, <1>10, <1>11, <1>12, <1>13,
       <1>14, <1>15, <1>16, <1>17, <1>18, <1>19, <1>20, <1>21, <1>22, <1>23, <1>24, <1>25,
       <1>26, <1>27, <1>28, <1>29, <1>30, <1>31, <1>32, <1>33, <1>34, <1>35, <1>36, <1>37, Zenon DEF Next,
       BinderNext, SchedulerNext, EngineNext, EngineEnds, HumanNext, CancelerNext,
       ReconcilerNext, TimeNext, FaultNext

(* Reconcilers keep their types.                                          *)
LEMMA ReconcilerTyped == RunInv /\ Next => ReconcilerType'
  <1> SUFFICES ASSUME RunInv, Next PROVE ReconcilerType'
    BY Zenon
  <1> DEFINE Frame == UNCHANGED <<rpc, view, pending>>
  <1>0. CASE Frame
    BY <1>0, Zenon DEF RunInv, TypeOK, ReconcilerType, OpenWaits
  <1>1. ASSUME NEW b \in Binders, Bind(b) PROVE Frame
    BY <1>1, Zenon DEF Bind, CreateWithInputs
  <1>2. ASSUME NEW b \in Binders, Refuse(b) PROVE Frame
    BY <1>2, Zenon DEF Refuse, Terminalize
  <1>3. ASSUME NEW b \in Binders, CreateExecution(b) PROVE Frame
    BY <1>3, Zenon DEF CreateExecution
  <1>4. ASSUME NEW b \in Binders, Advance(b) PROVE Frame
    BY <1>4, Zenon DEF Advance
  <1>5. ASSUME NEW b \in Binders, BinderStops(b) PROVE Frame
    BY <1>5, Zenon DEF BinderStops
  <1>6. ASSUME StartBuild PROVE Frame
    BY <1>6, Zenon DEF StartBuild, CapturePlan
  <1>7. ASSUME FinishUnstarted PROVE Frame
    BY <1>7, Zenon DEF FinishUnstarted, Finish, CanCapture, FinishPlanningError
  <1>8. ASSUME NEW s \in Terminal, EngineFinish(s) PROVE Frame
    BY <1>8, Zenon DEF EngineFinish, Finish, CanCapture
  <1>9. ASSUME NEW w \in Waits, Await(w) PROVE Frame
    BY <1>9, Zenon DEF Await, CreateOrGet
  <1>10. ASSUME NEW w \in Waits, Expire(w) PROVE Frame
    BY <1>10, Zenon DEF Expire, ExpireLocked, AnswerClaim
  <1>11. ASSUME AbortBuild PROVE Frame
    BY <1>11, Zenon DEF AbortBuild
  <1>12. ASSUME NEW h \in Humans, NEW w \in Waits, Reserve(h, w) PROVE Frame
    BY <1>12, Zenon DEF Reserve, ExpireLocked, AnswerClaim
  <1>13. ASSUME NEW h \in Humans, Complete(h) PROVE Frame
    BY <1>13, Zenon DEF Complete, Resolve, AnswerClaim
  <1>14. ASSUME CancelRequested PROVE Frame
    BY <1>14, Zenon DEF CancelRequested
  <1>15. ASSUME CancelLoad PROVE Frame
    BY <1>15, Zenon DEF CancelLoad
  <1>16. ASSUME CancelMove PROVE Frame
    BY <1>16, Zenon DEF CancelMove
  <1>17. ASSUME CancelClose PROVE Frame
    BY <1>17, Zenon DEF CancelClose, Matches, Terminalize
  <1>18. ASSUME CancelAbort PROVE Frame
    BY <1>18, Zenon DEF CancelAbort
  <1>19. ASSUME CancelCheck PROVE Frame
    BY <1>19, Zenon DEF CancelCheck
  <1>20. ASSUME CancelOpenWaits PROVE Frame
    BY <1>20, Zenon DEF CancelOpenWaits, CancelWaits
  <1>21. ASSUME CancelStops PROVE Frame
    BY <1>21, Zenon DEF CancelStops
  <1>22. ASSUME NEW r \in Reconcilers, Inspect(r) PROVE ReconcilerType'
    <2>1. UNCHANGED pending
      BY <1>22, Zenon DEF Inspect
    <2>2. CASE Goto(r, "repair", NoView)
      BY <1>22, <2>1, <2>2, ViewsTyped, Zenon DEF Goto, RunInv, TypeOK, ReconcilerType
    <2>3. ASSUME NEW pc \in {"admit", "list", "cancel"}, Goto(r, pc, View) PROVE ReconcilerType'
      BY <1>22, <2>1, <2>3, ViewsTyped, Zenon DEF Goto, RunInv, TypeOK, ReconcilerType
    <2> QED
      BY <1>22, <2>2, <2>3, Zenon DEF Inspect, Due, Active, Terminal
  <1>23. ASSUME NEW r \in Reconcilers, Admit(r) PROVE ReconcilerType'
    <2>1. UNCHANGED pending
      BY <1>23, Zenon DEF Admit
    <2> QED
      BY <1>23, <2>1, AdmitEffect, ViewsTyped, Zenon DEF Goto, RunInv, TypeOK, ReconcilerType
  <1>24. ASSUME NEW r \in Reconcilers, Reinspect(r) PROVE ReconcilerType'
    BY <1>24, ViewsTyped, Zenon DEF Reinspect, Goto, RunInv, TypeOK, ReconcilerType, OpenWaits
  <1>25. ASSUME NEW r \in Reconcilers, ListPending(r) PROVE ReconcilerType'
    BY <1>25, ViewsTyped, Zenon DEF ListPending, Goto, OpenWaits, RunInv, TypeOK, ReconcilerType
  <1>26. ASSUME NEW r \in Reconcilers, NEW w \in Waits, CompletePending(r, w) PROVE ReconcilerType'
    BY <1>26, ViewsTyped DEF CompletePending, Resolve, AnswerClaim, Goto, RunInv, TypeOK,
       ReconcilerType, OpenWaits
  <1>27. ASSUME NEW r \in Reconcilers, AnswersCompleted(r) PROVE ReconcilerType'
    BY <1>27, ViewsTyped, Zenon DEF AnswersCompleted, Goto, RunInv, TypeOK, ReconcilerType, OpenWaits
  <1>28. ASSUME NEW r \in Reconcilers, Outcome(r) PROVE ReconcilerType'
    <2>1. UNCHANGED pending
      BY <1>28, Zenon DEF Outcome
    <2> QED
      BY <1>28, <2>1, OutcomeEffect, ViewsTyped, Zenon DEF Goto, RunInv, TypeOK, ReconcilerType
  <1>29. ASSUME NEW r \in Reconcilers, SettleWaits(r) PROVE ReconcilerType'
    BY <1>29, ViewsTyped, Zenon DEF SettleWaits, CancelWaits, Goto, RunInv, TypeOK, ReconcilerType,
       OpenWaits
  <1>30. ASSUME NEW r \in Reconcilers, ProjectTicket(r) PROVE ReconcilerType'
    BY <1>30, ViewsTyped, Zenon DEF ProjectTicket, Goto, RunInv, TypeOK, ReconcilerType, OpenWaits
  <1>31. ASSUME TimeoutPasses PROVE Frame
    BY <1>31, Zenon DEF TimeoutPasses
  <1>32. ASSUME NEW w \in Waits, DeadlinePasses(w) PROVE Frame
    BY <1>32, Zenon DEF DeadlinePasses
  <1>33. ASSUME DeleteBuild PROVE Frame
    BY <1>33, Zenon DEF DeleteBuild, Fault
  <1>34. ASSUME SchedulerStops PROVE Frame
    BY <1>34, Zenon DEF SchedulerStops, Fault
  <1>35. ASSUME NEW r \in Reconcilers, SettleFails(r) PROVE ReconcilerType'
    BY <1>35, ViewsTyped, Zenon DEF SettleFails, Fault, Goto, RunInv, TypeOK, ReconcilerType, OpenWaits
  <1>36. ASSUME NEW r \in Reconcilers, ReconcilerStops(r) PROVE ReconcilerType'
    BY <1>36, ViewsTyped, Zenon DEF ReconcilerStops, Fault, Goto, RunInv, TypeOK, ReconcilerType,
       OpenWaits
  <1>37. ASSUME SealOutput PROVE Frame
    BY <1>37, Zenon DEF SealOutput
  <1> QED
    BY <1>0, <1>1, <1>2, <1>3, <1>4, <1>5, <1>6, <1>7, <1>8, <1>9, <1>10, <1>11, <1>12, <1>13,
       <1>14, <1>15, <1>16, <1>17, <1>18, <1>19, <1>20, <1>21, <1>22, <1>23, <1>24, <1>25,
       <1>26, <1>27, <1>28, <1>29, <1>30, <1>31, <1>32, <1>33, <1>34, <1>35, <1>36, <1>37, Zenon DEF Next,
       BinderNext, SchedulerNext, EngineNext, EngineEnds, HumanNext, CancelerNext,
       ReconcilerNext, TimeNext, FaultNext

(* Every transaction keeps the row truthful, together with its build, and *)
(* a terminal run without claims.                                         *)
LEMMA RunKept == RunInv /\ Next => (LinkInv /\ TruthfulOutcome /\ ClaimsReleased)'
  <1> SUFFICES ASSUME RunInv, Next PROVE (LinkInv /\ TruthfulOutcome /\ ClaimsReleased)'
    BY Zenon
  <1> DEFINE Frame == UNCHANGED <<status, link, plan, exec, reason, build, claims, bpc>>
  <1>0. CASE Frame
    BY <1>0, Zenon DEF RunInv, LinkInv, TruthfulOutcome, ClaimsReleased
  <1>1. ASSUME NEW b \in Binders, Bind(b) PROVE (LinkInv /\ TruthfulOutcome /\ ClaimsReleased)'
    BY <1>1, Zenon DEF Bind, CreateWithInputs, RunInv, TypeOK, RunType, ProgramType, LinkInv,
       TruthfulOutcome, ClaimsReleased, Statuses, Outcomes, Active, Terminal
  <1>2. ASSUME NEW b \in Binders, Refuse(b) PROVE (LinkInv /\ TruthfulOutcome /\ ClaimsReleased)'
    BY <1>2 DEF Refuse, Terminalize, RunInv, TypeOK, RunType, ProgramType, LinkInv,
       TruthfulOutcome, ClaimsReleased, Statuses, Outcomes, Active, Terminal
  <1>3. ASSUME NEW b \in Binders, CreateExecution(b) PROVE (LinkInv /\ TruthfulOutcome /\ ClaimsReleased)'
    BY <1>3 DEF CreateExecution, RunInv, TypeOK, RunType, ProgramType, LinkInv, TruthfulOutcome,
       ClaimsReleased, Statuses, Outcomes, Active, Terminal
  <1>4. ASSUME NEW b \in Binders, Advance(b) PROVE (LinkInv /\ TruthfulOutcome /\ ClaimsReleased)'
    BY <1>4, Zenon DEF Advance, RunInv, TypeOK, RunType, ProgramType, LinkInv, TruthfulOutcome,
       ClaimsReleased, Statuses, Outcomes, Active, Terminal
  <1>5. ASSUME NEW b \in Binders, BinderStops(b) PROVE (LinkInv /\ TruthfulOutcome /\ ClaimsReleased)'
    BY <1>5, Zenon DEF BinderStops, RunInv, TypeOK, RunType, ProgramType, LinkInv, TruthfulOutcome,
       ClaimsReleased, Statuses, Outcomes, Active, Terminal
  <1>6. ASSUME StartBuild PROVE (LinkInv /\ TruthfulOutcome /\ ClaimsReleased)'
    BY <1>6, Zenon DEF StartBuild, CapturePlan, RunInv, TypeOK, RunType, ProgramType, LinkInv,
       TruthfulOutcome, ClaimsReleased, Statuses, Outcomes, Active, Terminal
  <1>7. ASSUME FinishUnstarted PROVE (LinkInv /\ TruthfulOutcome /\ ClaimsReleased)'
    BY <1>7, Zenon DEF FinishUnstarted, Finish, CanCapture, FinishPlanningError, RunInv, TypeOK,
       RunType, ProgramType, LinkInv, TruthfulOutcome, ClaimsReleased, Statuses, Outcomes,
       Active, Terminal
  <1>8. ASSUME NEW s \in Terminal, EngineFinish(s) PROVE (LinkInv /\ TruthfulOutcome /\ ClaimsReleased)'
    BY <1>8, Zenon DEF EngineFinish, Finish, CanCapture, RunInv, TypeOK, RunType, ProgramType, LinkInv,
       TruthfulOutcome, ClaimsReleased, Statuses, Outcomes, Active, Terminal
  <1>9. ASSUME NEW w \in Waits, Await(w) PROVE (LinkInv /\ TruthfulOutcome /\ ClaimsReleased)'
    BY <1>9, Zenon DEF Await, CreateOrGet, RunInv, TypeOK, RunType, ProgramType, LinkInv,
       TruthfulOutcome, ClaimsReleased, Statuses, Outcomes, Active, Terminal
  <1>10. ASSUME NEW w \in Waits, Expire(w) PROVE (LinkInv /\ TruthfulOutcome /\ ClaimsReleased)'
    BY <1>10, Zenon DEF Expire, ExpireLocked, AnswerClaim, RunInv, TypeOK, RunType, ProgramType,
       LinkInv, TruthfulOutcome, ClaimsReleased, Statuses, Outcomes, Active, Terminal
  <1>11. ASSUME AbortBuild PROVE Frame
    BY <1>11, Zenon DEF AbortBuild
  <1>12. ASSUME NEW h \in Humans, NEW w \in Waits, Reserve(h, w) PROVE (LinkInv /\ TruthfulOutcome /\ ClaimsReleased)'
    BY <1>12, Zenon DEF Reserve, ExpireLocked, AnswerClaim, RunInv, TypeOK, RunType, ProgramType,
       LinkInv, TruthfulOutcome, ClaimsReleased, Statuses, Outcomes, Active, Terminal
  <1>13. ASSUME NEW h \in Humans, Complete(h) PROVE (LinkInv /\ TruthfulOutcome /\ ClaimsReleased)'
    BY <1>13, Zenon DEF Complete, Resolve, AnswerClaim, RunInv, TypeOK, RunType, ProgramType, LinkInv,
       TruthfulOutcome, ClaimsReleased, Statuses, Outcomes, Active, Terminal
  <1>14. ASSUME CancelRequested PROVE Frame
    BY <1>14, Zenon DEF CancelRequested
  <1>15. ASSUME CancelLoad PROVE Frame
    BY <1>15, Zenon DEF CancelLoad
  <1>16. ASSUME CancelMove PROVE (LinkInv /\ TruthfulOutcome /\ ClaimsReleased)'
    BY <1>16, Zenon DEF CancelMove, NoRow, RunInv, TypeOK, RunType, ProgramType, LinkInv,
       TruthfulOutcome, ClaimsReleased, Statuses, Outcomes, Active, Terminal
  <1>17. ASSUME CancelClose PROVE (LinkInv /\ TruthfulOutcome /\ ClaimsReleased)'
    BY <1>17, Zenon DEF CancelClose, Matches, Terminalize, NoRow, RunInv, TypeOK, RunType, ProgramType,
       LinkInv, TruthfulOutcome, ClaimsReleased, Statuses, Outcomes, Active, Terminal, CancelInv
  <1>18. ASSUME CancelAbort PROVE Frame
    BY <1>18, Zenon DEF CancelAbort
  <1>19. ASSUME CancelCheck PROVE Frame
    BY <1>19, Zenon DEF CancelCheck
  <1>20. ASSUME CancelOpenWaits PROVE Frame
    BY <1>20, Zenon DEF CancelOpenWaits, CancelWaits
  <1>21. ASSUME CancelStops PROVE Frame
    BY <1>21, Zenon DEF CancelStops
  <1>22. ASSUME NEW r \in Reconcilers, Inspect(r) PROVE Frame
    BY <1>22, Zenon DEF Inspect, Goto
  <1>23. ASSUME NEW r \in Reconcilers, Admit(r) PROVE (LinkInv /\ TruthfulOutcome /\ ClaimsReleased)'
    <2>1. UNCHANGED bpc
      BY <1>23, Zenon DEF Admit
    <2> QED
      BY <1>23, <2>1, AdmitEffect, Zenon DEF RunInv, LinkInv, TruthfulOutcome, ClaimsReleased, Terminal
  <1>24. ASSUME NEW r \in Reconcilers, Reinspect(r) PROVE Frame
    BY <1>24, Zenon DEF Reinspect, Goto
  <1>25. ASSUME NEW r \in Reconcilers, ListPending(r) PROVE Frame
    BY <1>25, Zenon DEF ListPending, Goto
  <1>26. ASSUME NEW r \in Reconcilers, NEW w \in Waits, CompletePending(r, w) PROVE (LinkInv /\ TruthfulOutcome /\ ClaimsReleased)'
    BY <1>26, Zenon DEF CompletePending, Resolve, AnswerClaim, Goto, NoView, RunInv, TypeOK, RunType,
       ProgramType, LinkInv, TruthfulOutcome, ClaimsReleased, Statuses, Outcomes, Active,
       Terminal
  <1>27. ASSUME NEW r \in Reconcilers, AnswersCompleted(r) PROVE Frame
    BY <1>27, Zenon DEF AnswersCompleted, Goto
  <1>28. ASSUME NEW r \in Reconcilers, Outcome(r) PROVE (LinkInv /\ TruthfulOutcome /\ ClaimsReleased)'
    <2>1. UNCHANGED bpc
      BY <1>28, Zenon DEF Outcome
    <2> QED
      BY <1>28, <2>1, OutcomeEffect, Zenon DEF RunInv, LinkInv, TruthfulOutcome, ClaimsReleased, Terminal
  <1>29. ASSUME NEW r \in Reconcilers, SettleWaits(r) PROVE Frame
    BY <1>29, Zenon DEF SettleWaits, CancelWaits, Goto
  <1>30. ASSUME NEW r \in Reconcilers, ProjectTicket(r) PROVE Frame
    BY <1>30, Zenon DEF ProjectTicket, Goto
  <1>31. ASSUME TimeoutPasses PROVE Frame
    BY <1>31, Zenon DEF TimeoutPasses
  <1>32. ASSUME NEW w \in Waits, DeadlinePasses(w) PROVE Frame
    BY <1>32, Zenon DEF DeadlinePasses
  <1>33. ASSUME DeleteBuild PROVE (LinkInv /\ TruthfulOutcome /\ ClaimsReleased)'
    BY <1>33, Zenon DEF DeleteBuild, Fault, RunInv, TypeOK, RunType, ProgramType, LinkInv,
       TruthfulOutcome, ClaimsReleased, Statuses, Outcomes, Active, Terminal
  <1>34. ASSUME SchedulerStops PROVE Frame
    BY <1>34, Zenon DEF SchedulerStops, Fault
  <1>35. ASSUME NEW r \in Reconcilers, SettleFails(r) PROVE Frame
    BY <1>35, Zenon DEF SettleFails, Fault, Goto
  <1>36. ASSUME NEW r \in Reconcilers, ReconcilerStops(r) PROVE Frame
    BY <1>36, Zenon DEF ReconcilerStops, Fault, Goto
  <1>37. ASSUME SealOutput PROVE (LinkInv /\ TruthfulOutcome /\ ClaimsReleased)'
    BY <1>37, Zenon DEF SealOutput, RunInv, TypeOK, RunType, ProgramType, LinkInv,
       TruthfulOutcome, ClaimsReleased, Statuses, Outcomes, Active, Terminal
  <1> QED
    BY <1>0, <1>1, <1>2, <1>3, <1>4, <1>5, <1>6, <1>7, <1>8, <1>9, <1>10, <1>11, <1>12, <1>13,
       <1>14, <1>15, <1>16, <1>17, <1>18, <1>19, <1>20, <1>21, <1>22, <1>23, <1>24, <1>25,
       <1>26, <1>27, <1>28, <1>29, <1>30, <1>31, <1>32, <1>33, <1>34, <1>35, <1>36, <1>37, Zenon DEF Next,
       BinderNext, SchedulerNext, EngineNext, EngineEnds, HumanNext, CancelerNext,
       ReconcilerNext, TimeNext, FaultNext

(* What a reconciler inspected is only overtaken.                         *)
LEMMA ViewKept == RunInv /\ Next => ViewInv'
  <1> SUFFICES ASSUME RunInv, Next PROVE ViewInv'
    BY Zenon
  <1> DEFINE Frame == UNCHANGED <<rpc, view, build>>
  <1>0. CASE Frame
    BY <1>0, Zenon DEF RunInv, TypeOK, ReconcilerType, ViewInv, ViewFits, Terminal
  <1>1. ASSUME NEW b \in Binders, Bind(b) PROVE Frame
    BY <1>1, Zenon DEF Bind, CreateWithInputs
  <1>2. ASSUME NEW b \in Binders, Refuse(b) PROVE Frame
    BY <1>2, Zenon DEF Refuse, Terminalize
  <1>3. ASSUME NEW b \in Binders, CreateExecution(b) PROVE ViewInv'
    BY <1>3, Zenon DEF CreateExecution, RunInv, TypeOK, ReconcilerType, ViewInv, ViewFits, Terminal,
       LinkInv
  <1>4. ASSUME NEW b \in Binders, Advance(b) PROVE Frame
    BY <1>4, Zenon DEF Advance
  <1>5. ASSUME NEW b \in Binders, BinderStops(b) PROVE Frame
    BY <1>5, Zenon DEF BinderStops
  <1>6. ASSUME StartBuild PROVE ViewInv'
    BY <1>6, Zenon DEF StartBuild, CapturePlan, RunInv, TypeOK, ReconcilerType, ViewInv, ViewFits,
       Terminal
  <1>7. ASSUME FinishUnstarted PROVE ViewInv'
    BY <1>7, Zenon DEF FinishUnstarted, Finish, CanCapture, FinishPlanningError, RunInv, TypeOK,
       ReconcilerType, ViewInv, ViewFits, Terminal
  <1>8. ASSUME NEW s \in Terminal, EngineFinish(s) PROVE ViewInv'
    BY <1>8, Zenon DEF EngineFinish, Finish, CanCapture, RunInv, TypeOK, ReconcilerType, ViewInv,
       ViewFits, Terminal
  <1>9. ASSUME NEW w \in Waits, Await(w) PROVE Frame
    BY <1>9, Zenon DEF Await, CreateOrGet
  <1>10. ASSUME NEW w \in Waits, Expire(w) PROVE Frame
    BY <1>10, Zenon DEF Expire, ExpireLocked, AnswerClaim
  <1>11. ASSUME AbortBuild PROVE Frame
    BY <1>11, Zenon DEF AbortBuild
  <1>12. ASSUME NEW h \in Humans, NEW w \in Waits, Reserve(h, w) PROVE Frame
    BY <1>12, Zenon DEF Reserve, ExpireLocked, AnswerClaim
  <1>13. ASSUME NEW h \in Humans, Complete(h) PROVE Frame
    BY <1>13, Zenon DEF Complete, Resolve, AnswerClaim
  <1>14. ASSUME CancelRequested PROVE Frame
    BY <1>14, Zenon DEF CancelRequested
  <1>15. ASSUME CancelLoad PROVE Frame
    BY <1>15, Zenon DEF CancelLoad
  <1>16. ASSUME CancelMove PROVE Frame
    BY <1>16, Zenon DEF CancelMove
  <1>17. ASSUME CancelClose PROVE Frame
    BY <1>17, Zenon DEF CancelClose, Matches, Terminalize
  <1>18. ASSUME CancelAbort PROVE Frame
    BY <1>18, Zenon DEF CancelAbort
  <1>19. ASSUME CancelCheck PROVE Frame
    BY <1>19, Zenon DEF CancelCheck
  <1>20. ASSUME CancelOpenWaits PROVE Frame
    BY <1>20, Zenon DEF CancelOpenWaits, CancelWaits
  <1>21. ASSUME CancelStops PROVE Frame
    BY <1>21, Zenon DEF CancelStops
  <1>22. ASSUME NEW r \in Reconcilers, Inspect(r) PROVE ViewInv'
    BY <1>22 DEF Inspect, Goto, View, NoView, Due, RunInv, TypeOK, ReconcilerType, ViewInv,
       ViewFits, Terminal, RunType, LinkInv, TruthfulOutcome, Statuses, Active
  <1>23. ASSUME NEW r \in Reconcilers, Admit(r) PROVE ViewInv'
    <2>1. /\ \E pc \in {"idle", "settle", "reinspect"} : Goto(r, pc, NoView)
          /\ UNCHANGED build
      BY <1>23, AdmitEffect, Zenon
    <2>2. ASSUME NEW pc \in {"idle", "settle", "reinspect"}, Goto(r, pc, NoView) PROVE ViewInv'
      BY <2>1, <2>2, Zenon DEF Goto, NoView, RunInv, TypeOK, ReconcilerType, ViewInv, ViewFits, Terminal
    <2> QED
      BY <2>1, <2>2, Zenon
  <1>24. ASSUME NEW r \in Reconcilers, Reinspect(r) PROVE ViewInv'
    <2>1. \/ Goto(r, "outcome", View) /\ status = "canceling"
          \/ Goto(r, "idle", NoView)
      BY <1>24, Zenon DEF Reinspect
    <2>2. UNCHANGED build
      BY <1>24, Zenon DEF Reinspect
    <2>3. ViewFits("outcome", View) \/ status # "canceling"
      BY Zenon DEF View, ViewFits, RunInv, LinkInv
    <2>4. CASE Goto(r, "idle", NoView)
      BY <2>2, <2>4, Zenon DEF Goto, NoView, RunInv, TypeOK, ReconcilerType, ViewInv, ViewFits, Terminal
    <2>5. CASE Goto(r, "outcome", View) /\ status = "canceling"
      BY <2>2, <2>3, <2>5, Zenon DEF Goto, RunInv, TypeOK, ReconcilerType, ViewInv, ViewFits
    <2> QED
      BY <2>1, <2>4, <2>5, Zenon
  <1>25. ASSUME NEW r \in Reconcilers, ListPending(r) PROVE ViewInv'
    BY <1>25, Zenon DEF ListPending, Goto, OpenWaits, RunInv, TypeOK, ReconcilerType, ViewInv,
       ViewFits, Terminal
  <1>26. ASSUME NEW r \in Reconcilers, NEW w \in Waits, CompletePending(r, w) PROVE ViewInv'
    <2>1. \/ UNCHANGED <<rpc, view, build>>
          \/ Goto(r, "idle", NoView) /\ UNCHANGED build
      BY <1>26, Zenon DEF CompletePending
    <2>2. CASE Goto(r, "idle", NoView) /\ UNCHANGED build
      BY <2>2, Zenon DEF Goto, NoView, RunInv, TypeOK, ReconcilerType, ViewInv, ViewFits, Terminal
    <2> QED
      BY <1>0, <2>1, <2>2, Zenon
  <1>27. ASSUME NEW r \in Reconcilers, AnswersCompleted(r) PROVE ViewInv'
    BY <1>27, Zenon DEF AnswersCompleted, Goto, RunInv, TypeOK, ReconcilerType, ViewInv, ViewFits,
       Terminal
  <1>28. ASSUME NEW r \in Reconcilers, Outcome(r) PROVE ViewInv'
    <2>1. /\ \E pc \in {"idle", "settle", "reinspect"} : Goto(r, pc, NoView)
          /\ UNCHANGED build
      BY <1>28, OutcomeEffect, Zenon
    <2>2. ASSUME NEW pc \in {"idle", "settle", "reinspect"}, Goto(r, pc, NoView) PROVE ViewInv'
      BY <2>1, <2>2, Zenon DEF Goto, NoView, RunInv, TypeOK, ReconcilerType, ViewInv, ViewFits, Terminal
    <2> QED
      BY <2>1, <2>2, Zenon
  <1>29. ASSUME NEW r \in Reconcilers, SettleWaits(r) PROVE ViewInv'
    BY <1>29, Zenon DEF SettleWaits, CancelWaits, Goto, RunInv, TypeOK, ReconcilerType, ViewInv,
       ViewFits, Terminal
  <1>30. ASSUME NEW r \in Reconcilers, ProjectTicket(r) PROVE ViewInv'
    BY <1>30, Zenon DEF ProjectTicket, Goto, NoView, RunInv, TypeOK, ReconcilerType, ViewInv, ViewFits,
       Terminal
  <1>31. ASSUME TimeoutPasses PROVE Frame
    BY <1>31, Zenon DEF TimeoutPasses
  <1>32. ASSUME NEW w \in Waits, DeadlinePasses(w) PROVE Frame
    BY <1>32, Zenon DEF DeadlinePasses
  <1>33. ASSUME DeleteBuild PROVE ViewInv'
    BY <1>33, Zenon DEF DeleteBuild, Fault, RunInv, TypeOK, ReconcilerType, ViewInv, ViewFits, Terminal
  <1>34. ASSUME SchedulerStops PROVE Frame
    BY <1>34, Zenon DEF SchedulerStops, Fault
  <1>35. ASSUME NEW r \in Reconcilers, SettleFails(r) PROVE ViewInv'
    BY <1>35, Zenon DEF SettleFails, Fault, Goto, NoView, RunInv, TypeOK, ReconcilerType, ViewInv,
       ViewFits, Terminal
  <1>36. ASSUME NEW r \in Reconcilers, ReconcilerStops(r) PROVE ViewInv'
    BY <1>36, Zenon DEF ReconcilerStops, Fault, Goto, NoView, RunInv, TypeOK, ReconcilerType, ViewInv,
       ViewFits, Terminal
  <1>37. ASSUME SealOutput PROVE Frame
    BY <1>37, Zenon DEF SealOutput
  <1> QED
    BY <1>0, <1>1, <1>2, <1>3, <1>4, <1>5, <1>6, <1>7, <1>8, <1>9, <1>10, <1>11, <1>12, <1>13,
       <1>14, <1>15, <1>16, <1>17, <1>18, <1>19, <1>20, <1>21, <1>22, <1>23, <1>24, <1>25,
       <1>26, <1>27, <1>28, <1>29, <1>30, <1>31, <1>32, <1>33, <1>34, <1>35, <1>36, <1>37, Zenon DEF Next,
       BinderNext, SchedulerNext, EngineNext, EngineEnds, HumanNext, CancelerNext,
       ReconcilerNext, TimeNext, FaultNext

(* The iterations of the canceler are bounded by the status.              *)
LEMMA CancelKept == RunInv /\ Next => (CancelInv /\ AttemptsSuffice)'
  <1> SUFFICES ASSUME RunInv, Next PROVE (CancelInv /\ AttemptsSuffice)'
    BY Zenon
  <1> DEFINE Frame == UNCHANGED <<status, link, cpc, seen, tries>>
  <1>0. CASE Frame
    BY <1>0, Zenon DEF RunInv, TypeOK, ProgramType, RunType, CancelInv, AttemptsSuffice, Terminal,
       MaxAttempts
  <1>1. ASSUME NEW b \in Binders, Bind(b) PROVE (CancelInv /\ AttemptsSuffice)'
    BY <1>1, Zenon DEF Bind, CreateWithInputs, RunInv, TypeOK, ProgramType, RunType, CancelInv,
       AttemptsSuffice, Terminal, MaxAttempts
  <1>2. ASSUME NEW b \in Binders, Refuse(b) PROVE (CancelInv /\ AttemptsSuffice)'
    BY <1>2, Zenon DEF Refuse, Terminalize, RunInv, TypeOK, ProgramType, RunType, CancelInv,
       AttemptsSuffice, Terminal, MaxAttempts
  <1>3. ASSUME NEW b \in Binders, CreateExecution(b) PROVE (CancelInv /\ AttemptsSuffice)'
    BY <1>3, Zenon DEF CreateExecution, RunInv, TypeOK, ProgramType, RunType, CancelInv,
       AttemptsSuffice, Terminal, MaxAttempts, LinkInv
  <1>4. ASSUME NEW b \in Binders, Advance(b) PROVE (CancelInv /\ AttemptsSuffice)'
    BY <1>4, Zenon DEF Advance, RunInv, TypeOK, ProgramType, RunType, CancelInv, AttemptsSuffice,
       Terminal, MaxAttempts
  <1>5. ASSUME NEW b \in Binders, BinderStops(b) PROVE Frame
    BY <1>5, Zenon DEF BinderStops
  <1>6. ASSUME StartBuild PROVE Frame
    BY <1>6, Zenon DEF StartBuild, CapturePlan
  <1>7. ASSUME FinishUnstarted PROVE (CancelInv /\ AttemptsSuffice)'
    BY <1>7, Zenon DEF FinishUnstarted, Finish, CanCapture, FinishPlanningError, RunInv, TypeOK,
       ProgramType, RunType, CancelInv, AttemptsSuffice, Terminal, MaxAttempts
  <1>8. ASSUME NEW s \in Terminal, EngineFinish(s) PROVE Frame
    BY <1>8, Zenon DEF EngineFinish, Finish, CanCapture
  <1>9. ASSUME NEW w \in Waits, Await(w) PROVE Frame
    BY <1>9, Zenon DEF Await, CreateOrGet
  <1>10. ASSUME NEW w \in Waits, Expire(w) PROVE Frame
    BY <1>10, Zenon DEF Expire, ExpireLocked, AnswerClaim
  <1>11. ASSUME AbortBuild PROVE Frame
    BY <1>11, Zenon DEF AbortBuild
  <1>12. ASSUME NEW h \in Humans, NEW w \in Waits, Reserve(h, w) PROVE Frame
    BY <1>12, Zenon DEF Reserve, ExpireLocked, AnswerClaim
  <1>13. ASSUME NEW h \in Humans, Complete(h) PROVE Frame
    BY <1>13, Zenon DEF Complete, Resolve, AnswerClaim
  <1>14. ASSUME CancelRequested PROVE (CancelInv /\ AttemptsSuffice)'
    BY <1>14, Zenon DEF CancelRequested, RunInv, TypeOK, ProgramType, RunType, CancelInv,
       AttemptsSuffice, Terminal, MaxAttempts
  <1>15. ASSUME CancelLoad PROVE (CancelInv /\ AttemptsSuffice)'
    BY <1>15 DEF CancelLoad, Row, NoRow, RunInv, TypeOK, ProgramType, RunType, CancelInv,
       AttemptsSuffice, Terminal, MaxAttempts, LinkInv, TruthfulOutcome, Outcomes, Statuses,
       Active
  <1>16. ASSUME CancelMove PROVE (CancelInv /\ AttemptsSuffice)'
    <2>1. CASE seen.status = "admitting" /\ tries = 0 /\ status # "none"
      BY <1>16, <2>1 DEF CancelMove, RunInv, CancelInv, AttemptsSuffice, MaxAttempts
    <2>2. CASE seen.status = "running" /\ tries < 2 /\ status \notin {"none", "admitting"}
      <3>1. tries \in {0, 1}
        BY <2>2 DEF RunInv, TypeOK, ProgramType
      <3>2. cpc' = "load" /\ tries' \in {1, 2} /\ status' \in {status, "canceling"}
        BY <1>16, <3>1 DEF CancelMove
      <3>3. tries' = 2 => status' # "running"
        BY <1>16, <2>2, <3>1, Zenon DEF CancelMove, RunInv, CancelInv
      <3> QED
        BY <2>2, <3>2, <3>3 DEF CancelInv, AttemptsSuffice, MaxAttempts
    <2> QED
      BY <1>16, <2>1, <2>2, Zenon DEF CancelMove, RunInv, CancelInv
  <1>17. ASSUME CancelClose PROVE (CancelInv /\ AttemptsSuffice)'
    <2>1. /\ seen.status = "canceling" /\ seen.exec = "none" /\ seen.plan = "none"
          /\ link = "empty" /\ tries < 3 /\ status \notin {"none", "admitting", "running"}
      BY <1>17, Zenon DEF CancelClose, RunInv, CancelInv
    <2>2. exec = "none" /\ plan = "none"
      BY <2>1, Zenon DEF RunInv, TypeOK, RunType, LinkInv, TruthfulOutcome, Outcomes, Terminal
    <2>3. tries \in {0, 1, 2}
      BY <2>1 DEF RunInv, TypeOK, ProgramType
    <2>4. status' \in Terminal
      BY <1>17, <2>1, <2>2, Zenon DEF CancelClose, Matches, Terminalize, RunInv, TypeOK, RunType, Statuses,
         Active, Terminal
    <2>5. cpc' = "load" /\ tries' = tries + 1
      BY <1>17, Zenon DEF CancelClose
    <2> QED
      BY <2>3, <2>4, <2>5 DEF CancelInv, AttemptsSuffice, MaxAttempts, Terminal
  <1>18. ASSUME CancelAbort PROVE (CancelInv /\ AttemptsSuffice)'
    BY <1>18, Zenon DEF CancelAbort, RunInv, TypeOK, ProgramType, RunType, CancelInv, AttemptsSuffice,
       Terminal, MaxAttempts
  <1>19. ASSUME CancelCheck PROVE (CancelInv /\ AttemptsSuffice)'
    BY <1>19, Zenon DEF CancelCheck, RunInv, TypeOK, ProgramType, RunType, CancelInv, AttemptsSuffice,
       Terminal, MaxAttempts
  <1>20. ASSUME CancelOpenWaits PROVE (CancelInv /\ AttemptsSuffice)'
    BY <1>20, Zenon DEF CancelOpenWaits, CancelWaits, RunInv, TypeOK, ProgramType, RunType, CancelInv,
       AttemptsSuffice, Terminal, MaxAttempts
  <1>21. ASSUME CancelStops PROVE (CancelInv /\ AttemptsSuffice)'
    BY <1>21 DEF CancelStops, RunInv, CancelInv, AttemptsSuffice, MaxAttempts
  <1>22. ASSUME NEW r \in Reconcilers, Inspect(r) PROVE Frame
    BY <1>22, Zenon DEF Inspect, Goto
  <1>23. ASSUME NEW r \in Reconcilers, Admit(r) PROVE (CancelInv /\ AttemptsSuffice)'
    <2>1. UNCHANGED canceler
      BY <1>23, Zenon DEF Admit
    <2> QED
      BY <1>23, <2>1, AdmitEffect, Zenon DEF RunInv, CancelInv, AttemptsSuffice, Terminal
  <1>24. ASSUME NEW r \in Reconcilers, Reinspect(r) PROVE Frame
    BY <1>24, Zenon DEF Reinspect, Goto
  <1>25. ASSUME NEW r \in Reconcilers, ListPending(r) PROVE Frame
    BY <1>25, Zenon DEF ListPending, Goto
  <1>26. ASSUME NEW r \in Reconcilers, NEW w \in Waits, CompletePending(r, w) PROVE Frame
    BY <1>26, Zenon DEF CompletePending, Resolve, AnswerClaim, Goto
  <1>27. ASSUME NEW r \in Reconcilers, AnswersCompleted(r) PROVE Frame
    BY <1>27, Zenon DEF AnswersCompleted, Goto
  <1>28. ASSUME NEW r \in Reconcilers, Outcome(r) PROVE (CancelInv /\ AttemptsSuffice)'
    <2>1. UNCHANGED canceler
      BY <1>28, Zenon DEF Outcome
    <2> QED
      BY <1>28, <2>1, OutcomeEffect, Zenon DEF RunInv, CancelInv, AttemptsSuffice, Terminal
  <1>29. ASSUME NEW r \in Reconcilers, SettleWaits(r) PROVE Frame
    BY <1>29, Zenon DEF SettleWaits, CancelWaits, Goto
  <1>30. ASSUME NEW r \in Reconcilers, ProjectTicket(r) PROVE Frame
    BY <1>30, Zenon DEF ProjectTicket, Goto
  <1>31. ASSUME TimeoutPasses PROVE Frame
    BY <1>31, Zenon DEF TimeoutPasses
  <1>32. ASSUME NEW w \in Waits, DeadlinePasses(w) PROVE Frame
    BY <1>32, Zenon DEF DeadlinePasses
  <1>33. ASSUME DeleteBuild PROVE Frame
    BY <1>33, Zenon DEF DeleteBuild, Fault
  <1>34. ASSUME SchedulerStops PROVE Frame
    BY <1>34, Zenon DEF SchedulerStops, Fault
  <1>35. ASSUME NEW r \in Reconcilers, SettleFails(r) PROVE Frame
    BY <1>35, Zenon DEF SettleFails, Fault, Goto
  <1>36. ASSUME NEW r \in Reconcilers, ReconcilerStops(r) PROVE Frame
    BY <1>36, Zenon DEF ReconcilerStops, Fault, Goto
  <1>37. ASSUME SealOutput PROVE Frame
    BY <1>37, Zenon DEF SealOutput
  <1> QED
    BY <1>0, <1>1, <1>2, <1>3, <1>4, <1>5, <1>6, <1>7, <1>8, <1>9, <1>10, <1>11, <1>12, <1>13,
       <1>14, <1>15, <1>16, <1>17, <1>18, <1>19, <1>20, <1>21, <1>22, <1>23, <1>24, <1>25,
       <1>26, <1>27, <1>28, <1>29, <1>30, <1>31, <1>32, <1>33, <1>34, <1>35, <1>36, <1>37, Zenon DEF Next,
       BinderNext, SchedulerNext, EngineNext, EngineEnds, HumanNext, CancelerNext,
       ReconcilerNext, TimeNext, FaultNext

(* An accepted answer belongs to an open wait or resolved it.             *)
LEMMA WaitKept == RunInv /\ Next => WaitInv'
  <1> SUFFICES ASSUME RunInv, Next PROVE WaitInv'
    BY Zenon
  <1> DEFINE Frame == UNCHANGED <<wait, intent, answer, pending>>
  <1>0. CASE Frame
    BY <1>0, Zenon DEF RunInv, TypeOK, WaitType, ReconcilerType, WaitInv
  <1>1. ASSUME NEW b \in Binders, Bind(b) PROVE Frame
    BY <1>1, Zenon DEF Bind, CreateWithInputs
  <1>2. ASSUME NEW b \in Binders, Refuse(b) PROVE Frame
    BY <1>2, Zenon DEF Refuse, Terminalize
  <1>3. ASSUME NEW b \in Binders, CreateExecution(b) PROVE Frame
    BY <1>3, Zenon DEF CreateExecution
  <1>4. ASSUME NEW b \in Binders, Advance(b) PROVE Frame
    BY <1>4, Zenon DEF Advance
  <1>5. ASSUME NEW b \in Binders, BinderStops(b) PROVE Frame
    BY <1>5, Zenon DEF BinderStops
  <1>6. ASSUME StartBuild PROVE Frame
    BY <1>6, Zenon DEF StartBuild, CapturePlan
  <1>7. ASSUME FinishUnstarted PROVE Frame
    BY <1>7, Zenon DEF FinishUnstarted, Finish, CanCapture, FinishPlanningError
  <1>8. ASSUME NEW s \in Terminal, EngineFinish(s) PROVE Frame
    BY <1>8, Zenon DEF EngineFinish, Finish, CanCapture
  <1>9. ASSUME NEW w \in Waits, Await(w) PROVE WaitInv'
    BY <1>9, HumanAssumption, WaitAssumption, Zenon DEF Await, CreateOrGet, RunInv, TypeOK, WaitType,
       ReconcilerType, WaitInv
  <1>10. ASSUME NEW w \in Waits, Expire(w) PROVE WaitInv'
    BY <1>10, HumanAssumption, WaitAssumption, Zenon DEF Expire, ExpireLocked, AnswerClaim, RunInv,
       TypeOK, WaitType, ReconcilerType, WaitInv
  <1>11. ASSUME AbortBuild PROVE Frame
    BY <1>11, Zenon DEF AbortBuild
  <1>12. ASSUME NEW h \in Humans, NEW w \in Waits, Reserve(h, w) PROVE WaitInv'
    <2> USE HumanAssumption DEF RunInv, TypeOK, WaitType, ReconcilerType, WaitInv
    <2>1. UNCHANGED pending
      BY <1>12, Zenon DEF Reserve
    <2>2. CASE UNCHANGED waits
      BY <2>1, <2>2, <1>0, Zenon
    <2>3. CASE intent' = [intent EXCEPT ![w] = h] /\ UNCHANGED <<wait, answer>>
      BY <1>12, <2>1, <2>3, Zenon DEF Reserve
    <2>4. CASE ExpireLocked(w)
      BY <1>12, <2>1, <2>4, Zenon DEF Reserve, ExpireLocked
    <2> QED
      BY <1>12, <2>2, <2>3, <2>4, Zenon DEF Reserve
  <1>13. ASSUME NEW h \in Humans, Complete(h) PROVE WaitInv'
    <2>1. UNCHANGED pending
      BY <1>13, Zenon DEF Complete
    <2>2. CASE UNCHANGED waits
      BY <2>1, <2>2, <1>0, Zenon
    <2>3. CASE Resolve(asked[h], h)
      <3>1. asked[h] \in Waits
        BY <1>13, Zenon DEF Complete, RunInv, TypeOK, WaitType
      <3>2. /\ intent[asked[h]] = h /\ UNCHANGED intent
            /\ wait' = [wait EXCEPT ![asked[h]] = "resolved"]
            /\ answer' = [answer EXCEPT ![asked[h]] = h]
        BY <2>3, Zenon DEF Resolve
      <3> QED
        BY <2>1, <3>1, <3>2, HumanAssumption
           DEF RunInv, TypeOK, WaitType, ReconcilerType, WaitInv
    <2> QED
      BY <1>13, <2>2, <2>3, Zenon DEF Complete
  <1>14. ASSUME CancelRequested PROVE Frame
    BY <1>14, Zenon DEF CancelRequested
  <1>15. ASSUME CancelLoad PROVE Frame
    BY <1>15, Zenon DEF CancelLoad
  <1>16. ASSUME CancelMove PROVE Frame
    BY <1>16, Zenon DEF CancelMove
  <1>17. ASSUME CancelClose PROVE Frame
    BY <1>17, Zenon DEF CancelClose, Matches, Terminalize
  <1>18. ASSUME CancelAbort PROVE Frame
    BY <1>18, Zenon DEF CancelAbort
  <1>19. ASSUME CancelCheck PROVE Frame
    BY <1>19, Zenon DEF CancelCheck
  <1>20. ASSUME CancelOpenWaits PROVE WaitInv'
    BY <1>20, HumanAssumption, WaitAssumption, Zenon DEF CancelOpenWaits, CancelWaits, RunInv, TypeOK,
       WaitType, ReconcilerType, WaitInv
  <1>21. ASSUME CancelStops PROVE Frame
    BY <1>21, Zenon DEF CancelStops
  <1>22. ASSUME NEW r \in Reconcilers, Inspect(r) PROVE Frame
    BY <1>22, Zenon DEF Inspect, Goto
  <1>23. ASSUME NEW r \in Reconcilers, Admit(r) PROVE Frame
    BY <1>23, Zenon DEF Admit, AdvanceAdmission, Goto, FinalizeRow, Matches, Terminalize
  <1>24. ASSUME NEW r \in Reconcilers, Reinspect(r) PROVE Frame
    BY <1>24, Zenon DEF Reinspect, Goto
  <1>25. ASSUME NEW r \in Reconcilers, ListPending(r) PROVE WaitInv'
    BY <1>25, HumanAssumption, WaitAssumption, Zenon DEF ListPending, Goto, OpenWaits, RunInv, TypeOK,
       WaitType, ReconcilerType, WaitInv
  <1>26. ASSUME NEW r \in Reconcilers, NEW w \in Waits, CompletePending(r, w) PROVE WaitInv'
    <2> USE DEF RunInv, TypeOK, WaitType, ReconcilerType, WaitInv
    <2>1. CASE Resolve(w, intent[w]) /\ pending' = [pending EXCEPT ![r] = @ \ {w}]
      BY <1>26, <2>1 DEF CompletePending, Resolve
    <2>2. CASE UNCHANGED waits /\ pending' = [pending EXCEPT ![r] = @ \ {w}]
      BY <1>26, <2>2
    <2>3. CASE UNCHANGED waits /\ pending' = [pending EXCEPT ![r] = {}]
      BY <1>26, <2>3, Zenon
    <2> QED
      BY <1>26, <2>1, <2>2, <2>3, Zenon DEF CompletePending
  <1>27. ASSUME NEW r \in Reconcilers, AnswersCompleted(r) PROVE Frame
    BY <1>27, Zenon DEF AnswersCompleted, Goto
  <1>28. ASSUME NEW r \in Reconcilers, Outcome(r) PROVE Frame
    BY <1>28, Zenon DEF Outcome, Goto, FinalizeRow, Matches, Terminalize
  <1>29. ASSUME NEW r \in Reconcilers, SettleWaits(r) PROVE WaitInv'
    BY <1>29, HumanAssumption, WaitAssumption, Zenon DEF SettleWaits, CancelWaits, Goto, RunInv,
       TypeOK, WaitType, ReconcilerType, WaitInv
  <1>30. ASSUME NEW r \in Reconcilers, ProjectTicket(r) PROVE Frame
    BY <1>30, Zenon DEF ProjectTicket, Goto
  <1>31. ASSUME TimeoutPasses PROVE Frame
    BY <1>31, Zenon DEF TimeoutPasses
  <1>32. ASSUME NEW w \in Waits, DeadlinePasses(w) PROVE Frame
    BY <1>32, Zenon DEF DeadlinePasses
  <1>33. ASSUME DeleteBuild PROVE Frame
    BY <1>33, Zenon DEF DeleteBuild, Fault
  <1>34. ASSUME SchedulerStops PROVE Frame
    BY <1>34, Zenon DEF SchedulerStops, Fault
  <1>35. ASSUME NEW r \in Reconcilers, SettleFails(r) PROVE Frame
    BY <1>35, Zenon DEF SettleFails, Fault, Goto
  <1>36. ASSUME NEW r \in Reconcilers, ReconcilerStops(r) PROVE WaitInv'
    BY <1>36, HumanAssumption, WaitAssumption, Zenon DEF ReconcilerStops, Fault, Goto, NoView, RunInv,
       TypeOK, WaitType, ReconcilerType, WaitInv
  <1>37. ASSUME SealOutput PROVE WaitInv'
    BY <1>37, HumanAssumption, WaitAssumption, Zenon DEF SealOutput, RunInv, TypeOK, WaitType,
       ReconcilerType, WaitInv
  <1> QED
    BY <1>0, <1>1, <1>2, <1>3, <1>4, <1>5, <1>6, <1>7, <1>8, <1>9, <1>10, <1>11, <1>12, <1>13,
       <1>14, <1>15, <1>16, <1>17, <1>18, <1>19, <1>20, <1>21, <1>22, <1>23, <1>24, <1>25,
       <1>26, <1>27, <1>28, <1>29, <1>30, <1>31, <1>32, <1>33, <1>34, <1>35, <1>36, <1>37, Zenon DEF Next,
       BinderNext, SchedulerNext, EngineNext, EngineEnds, HumanNext, CancelerNext,
       ReconcilerNext, TimeNext, FaultNext

(* The initial state satisfies the invariant.                              *)
LEMMA InvInit == Init => RunInv
  <1> SUFFICES ASSUME Init PROVE RunInv
    BY Zenon
  <1>1. RunType
    <2>1. aborted \in BOOLEAN
      BY Zenon DEF Init
    <2> QED
      BY <2>1, FaultsAssumption DEF Init, RunType, Statuses, Outcomes, Reasons
  <1>2. WaitType
    BY Zenon DEF Init, WaitType
  <1>3. ProgramType
    BY Zenon DEF Init, ProgramType, NoRow, Statuses, Outcomes
  <1>4. ReconcilerType
    BY Zenon DEF Init, ReconcilerType, NoView, Views, Statuses, Outcomes
  <1>5. LinkInv /\ TruthfulOutcome /\ ClaimsReleased
    BY Zenon DEF Init, LinkInv, TruthfulOutcome, ClaimsReleased, Terminal
  <1>6. ViewInv
    BY Zenon DEF Init, ViewInv, ViewFits, NoView, Terminal
  <1>7. CancelInv /\ AttemptsSuffice
    BY DEF Init, CancelInv, AttemptsSuffice, MaxAttempts
  <1>8. WaitInv
    BY Zenon DEF Init, WaitInv
  <1> QED
    BY <1>1, <1>2, <1>3, <1>4, <1>5, <1>6, <1>7, <1>8, Zenon DEF RunInv, TypeOK

(* A step that changes nothing keeps the invariant.                        *)
LEMMA InvStutters == RunInv /\ UNCHANGED vars => RunInv'
  <1> SUFFICES ASSUME RunInv, UNCHANGED vars PROVE RunInv'
    BY Zenon
  <1> USE DEF RunInv, vars
  <1>1. TypeOK'
    <2>1. RunType'
      BY Zenon DEF TypeOK, RunType
    <2>2. WaitType'
      BY Zenon DEF TypeOK, WaitType
    <2>3. (ProgramType /\ ReconcilerType)'
      BY Zenon DEF TypeOK, ProgramType, ReconcilerType
    <2> QED
      BY <2>1, <2>2, <2>3, Zenon DEF TypeOK
  <1>2. (LinkInv /\ TruthfulOutcome /\ ClaimsReleased)'
    BY Zenon DEF LinkInv, TruthfulOutcome, ClaimsReleased
  <1>3. (ViewInv /\ WaitInv)'
    BY Zenon DEF ViewInv, ViewFits, WaitInv
  <1>4. (CancelInv /\ AttemptsSuffice)'
    BY Zenon DEF CancelInv, AttemptsSuffice
  <1> QED
    BY <1>1, <1>2, <1>3, <1>4, Zenon

(* The row, its build, its waits and what the programs have read of them   *)
(* always agree.                                                           *)
THEOREM RunInvariant == Spec => []RunInv
  <1>1. RunInv /\ Next => RunInv'
    BY RunTyped, WaitTyped, ProgramTyped, ReconcilerTyped, RunKept, ViewKept, CancelKept, WaitKept, Zenon
       DEF RunInv, TypeOK
  <1>2. RunInv /\ [Next]_vars => RunInv'
    BY <1>1, InvStutters, Zenon
  <1> QED
    BY <1>2, InvInit, PTL DEF Spec

(* The terminal status of a run tells what its build did.                  *)
THEOREM OutcomesTruthful == Spec => []TruthfulOutcome
  <1>1. RunInv => TruthfulOutcome
    BY Zenon DEF RunInv
  <1> QED
    BY <1>1, RunInvariant, PTL

(* A terminal run holds no claim of class 'run'.                           *)
THEOREM RunClaimsReleased == Spec => []ClaimsReleased
  <1>1. RunInv => ClaimsReleased
    BY Zenon DEF RunInv
  <1> QED
    BY <1>1, RunInvariant, PTL

(* Lost races alone never exhaust the canceler's iterations.               *)
THEOREM CancelNeverGivesUp == Spec => []AttemptsSuffice
  <1>1. RunInv => AttemptsSuffice
    BY Zenon DEF RunInv
  <1> QED
    BY <1>1, RunInvariant, PTL

(* What is terminal stays.                                                 *)
THEOREM HistoryStays == Spec => HistoryImmutable
  <1> DEFINE Kept == /\ status \in Terminal =>
                          status' = status /\ exec' = exec /\ plan' = plan /\ reason' = reason
                     /\ exec # "none" => exec' = exec
             Frame == UNCHANGED <<status, exec, plan, reason>>
  <1>0. ASSUME Frame PROVE Kept
    BY <1>0, Zenon
  <1>1. ASSUME RunInv, NEW b \in Binders, Bind(b) PROVE Kept
    BY <1>1, Zenon DEF Bind, CreateWithInputs, RunInv, CancelInv, Active, Terminal
  <1>2. ASSUME RunInv, NEW b \in Binders, Refuse(b) PROVE Kept
    BY <1>2, Zenon DEF Refuse, Terminalize, RunInv, CancelInv, Active, Terminal
  <1>3. ASSUME NEW b \in Binders, CreateExecution(b) PROVE Frame
    BY <1>3, Zenon DEF CreateExecution
  <1>4. ASSUME RunInv, NEW b \in Binders, Advance(b) PROVE Kept
    BY <1>4, Zenon DEF Advance, RunInv, CancelInv, Active, Terminal
  <1>5. ASSUME NEW b \in Binders, BinderStops(b) PROVE Frame
    BY <1>5, Zenon DEF BinderStops
  <1>6. ASSUME RunInv, StartBuild PROVE Kept
    BY <1>6, Zenon DEF StartBuild, CapturePlan, RunInv, CancelInv, Active, Terminal
  <1>7. ASSUME RunInv, FinishUnstarted PROVE Kept
    BY <1>7, Zenon DEF FinishUnstarted, Finish, CanCapture, FinishPlanningError, RunInv, CancelInv,
       Active, Terminal
  <1>8. ASSUME RunInv, NEW s \in Terminal, EngineFinish(s) PROVE Kept
    BY <1>8, Zenon DEF EngineFinish, Finish, CanCapture, RunInv, CancelInv, Active, Terminal
  <1>9. ASSUME NEW w \in Waits, Await(w) PROVE Frame
    BY <1>9, Zenon DEF Await, CreateOrGet
  <1>10. ASSUME NEW w \in Waits, Expire(w) PROVE Frame
    BY <1>10, Zenon DEF Expire, ExpireLocked, AnswerClaim
  <1>11. ASSUME AbortBuild PROVE Frame
    BY <1>11, Zenon DEF AbortBuild
  <1>12. ASSUME NEW h \in Humans, NEW w \in Waits, Reserve(h, w) PROVE Frame
    BY <1>12, Zenon DEF Reserve, ExpireLocked, AnswerClaim
  <1>13. ASSUME NEW h \in Humans, Complete(h) PROVE Frame
    BY <1>13, Zenon DEF Complete, Resolve, AnswerClaim
  <1>14. ASSUME CancelRequested PROVE Frame
    BY <1>14, Zenon DEF CancelRequested
  <1>15. ASSUME CancelLoad PROVE Frame
    BY <1>15, Zenon DEF CancelLoad
  <1>16. ASSUME RunInv, CancelMove PROVE Kept
    BY <1>16, Zenon DEF CancelMove, NoRow, RunInv, CancelInv, Active, Terminal
  <1>17. ASSUME RunInv, CancelClose PROVE Kept
    BY <1>17, Zenon DEF CancelClose, Matches, Terminalize, NoRow, RunInv, CancelInv, Active, Terminal
  <1>18. ASSUME CancelAbort PROVE Frame
    BY <1>18, Zenon DEF CancelAbort
  <1>19. ASSUME CancelCheck PROVE Frame
    BY <1>19, Zenon DEF CancelCheck
  <1>20. ASSUME CancelOpenWaits PROVE Frame
    BY <1>20, Zenon DEF CancelOpenWaits, CancelWaits
  <1>21. ASSUME CancelStops PROVE Frame
    BY <1>21, Zenon DEF CancelStops
  <1>22. ASSUME NEW r \in Reconcilers, Inspect(r) PROVE Frame
    BY <1>22, Zenon DEF Inspect, Goto
  <1>23. ASSUME RunInv, NEW r \in Reconcilers, Admit(r) PROVE Kept
    BY <1>23, AdmitEffect, Zenon DEF Terminal
  <1>24. ASSUME NEW r \in Reconcilers, Reinspect(r) PROVE Frame
    BY <1>24, Zenon DEF Reinspect, Goto
  <1>25. ASSUME NEW r \in Reconcilers, ListPending(r) PROVE Frame
    BY <1>25, Zenon DEF ListPending, Goto
  <1>26. ASSUME NEW r \in Reconcilers, NEW w \in Waits, CompletePending(r, w) PROVE Frame
    BY <1>26, Zenon DEF CompletePending, Resolve, AnswerClaim, Goto
  <1>27. ASSUME NEW r \in Reconcilers, AnswersCompleted(r) PROVE Frame
    BY <1>27, Zenon DEF AnswersCompleted, Goto
  <1>28. ASSUME RunInv, NEW r \in Reconcilers, Outcome(r) PROVE Kept
    BY <1>28, OutcomeEffect, Zenon DEF Terminal
  <1>29. ASSUME NEW r \in Reconcilers, SettleWaits(r) PROVE Frame
    BY <1>29, Zenon DEF SettleWaits, CancelWaits, Goto
  <1>30. ASSUME NEW r \in Reconcilers, ProjectTicket(r) PROVE Frame
    BY <1>30, Zenon DEF ProjectTicket, Goto
  <1>31. ASSUME TimeoutPasses PROVE Frame
    BY <1>31, Zenon DEF TimeoutPasses
  <1>32. ASSUME NEW w \in Waits, DeadlinePasses(w) PROVE Frame
    BY <1>32, Zenon DEF DeadlinePasses
  <1>33. ASSUME DeleteBuild PROVE Frame
    BY <1>33, Zenon DEF DeleteBuild, Fault
  <1>34. ASSUME SchedulerStops PROVE Frame
    BY <1>34, Zenon DEF SchedulerStops, Fault
  <1>35. ASSUME NEW r \in Reconcilers, SettleFails(r) PROVE Frame
    BY <1>35, Zenon DEF SettleFails, Fault, Goto
  <1>36. ASSUME NEW r \in Reconcilers, ReconcilerStops(r) PROVE Frame
    BY <1>36, Zenon DEF ReconcilerStops, Fault, Goto
  <1>37. ASSUME SealOutput PROVE Frame
    BY <1>37, Zenon DEF SealOutput
  <1>90. RunInv /\ [Next]_vars => [Kept]_vars
    BY <1>0, <1>1, <1>2, <1>3, <1>4, <1>5, <1>6, <1>7, <1>8, <1>9, <1>10, <1>11, <1>12, <1>13,
       <1>14, <1>15, <1>16, <1>17, <1>18, <1>19, <1>20, <1>21, <1>22, <1>23, <1>24, <1>25,
       <1>26, <1>27, <1>28, <1>29, <1>30, <1>31, <1>32, <1>33, <1>34, <1>35, <1>36, <1>37, Zenon DEF Next,
       BinderNext, SchedulerNext, EngineNext, EngineEnds, HumanNext, CancelerNext,
       ReconcilerNext, TimeNext, FaultNext
  <1> QED
    BY <1>90, RunInvariant, PTL DEF Spec, HistoryImmutable

(* An accepted answer is kept until it resolves its wait, or the wait is    *)
(* cancelled with the run.                                                  *)
THEOREM AcceptedAnswersKept == Spec => AcceptedAnswerKept
  <1> DEFINE Kept ==
        \A w \in Waits :
          /\ intent[w] # NoHuman =>
                \/ intent'[w] = intent[w] /\ wait'[w] = "waiting"
                \/ intent'[w] = intent[w] /\ wait'[w] = "resolved" /\ answer'[w] = intent[w]
                \/ wait'[w] = "cancelled" /\ status # "running"
          /\ wait[w] \in {"resolved", "timed_out", "cancelled"} =>
                wait'[w] = wait[w] /\ answer'[w] = answer[w]
             Frame == UNCHANGED <<wait, intent, answer>>
  <1>0. ASSUME RunInv, Frame PROVE Kept
    BY <1>0, Zenon DEF RunInv, WaitInv
  <1>1. ASSUME NEW b \in Binders, Bind(b) PROVE Frame
    BY <1>1, Zenon DEF Bind, CreateWithInputs
  <1>2. ASSUME NEW b \in Binders, Refuse(b) PROVE Frame
    BY <1>2, Zenon DEF Refuse, Terminalize
  <1>3. ASSUME NEW b \in Binders, CreateExecution(b) PROVE Frame
    BY <1>3, Zenon DEF CreateExecution
  <1>4. ASSUME NEW b \in Binders, Advance(b) PROVE Frame
    BY <1>4, Zenon DEF Advance
  <1>5. ASSUME NEW b \in Binders, BinderStops(b) PROVE Frame
    BY <1>5, Zenon DEF BinderStops
  <1>6. ASSUME StartBuild PROVE Frame
    BY <1>6, Zenon DEF StartBuild, CapturePlan
  <1>7. ASSUME FinishUnstarted PROVE Frame
    BY <1>7, Zenon DEF FinishUnstarted, Finish, CanCapture, FinishPlanningError
  <1>8. ASSUME NEW s \in Terminal, EngineFinish(s) PROVE Frame
    BY <1>8, Zenon DEF EngineFinish, Finish, CanCapture
  <1>9. ASSUME RunInv, NEW w \in Waits, Await(w) PROVE Kept
    BY <1>9, Zenon DEF Await, CreateOrGet, RunInv, TypeOK, WaitType, WaitInv, Terminal
  <1>10. ASSUME RunInv, NEW w \in Waits, Expire(w) PROVE Kept
    BY <1>10, Zenon DEF Expire, ExpireLocked, AnswerClaim, RunInv, TypeOK, WaitType, WaitInv, Terminal
  <1>11. ASSUME AbortBuild PROVE Frame
    BY <1>11, Zenon DEF AbortBuild
  <1>12. ASSUME RunInv, NEW h \in Humans, NEW w \in Waits, Reserve(h, w) PROVE Kept
    <2>1. CASE UNCHANGED waits
      BY <1>12, <2>1, <1>0, Zenon
    <2>2. CASE intent[w] = NoHuman /\ intent' = [intent EXCEPT ![w] = h] /\ UNCHANGED <<wait, answer>>
      BY <1>12, <2>2, Zenon DEF RunInv, TypeOK, WaitType, WaitInv
    <2>3. CASE intent[w] = NoHuman /\ ExpireLocked(w)
      BY <1>12, <2>3, Zenon DEF Reserve, ExpireLocked, RunInv, TypeOK, WaitType, WaitInv
    <2> QED
      BY <1>12, <2>1, <2>2, <2>3, Zenon DEF Reserve
  <1>13. ASSUME RunInv, NEW h \in Humans, Complete(h) PROVE Kept
    <2>1. CASE UNCHANGED waits
      BY <1>13, <2>1, <1>0, Zenon
    <2>2. CASE Resolve(asked[h], h)
      BY <1>13, <2>2, Zenon DEF Resolve, RunInv, TypeOK, WaitType, WaitInv
    <2> QED
      BY <1>13, <2>1, <2>2, Zenon DEF Complete
  <1>14. ASSUME CancelRequested PROVE Frame
    BY <1>14, Zenon DEF CancelRequested
  <1>15. ASSUME CancelLoad PROVE Frame
    BY <1>15, Zenon DEF CancelLoad
  <1>16. ASSUME CancelMove PROVE Frame
    BY <1>16, Zenon DEF CancelMove
  <1>17. ASSUME CancelClose PROVE Frame
    BY <1>17, Zenon DEF CancelClose, Matches, Terminalize
  <1>18. ASSUME CancelAbort PROVE Frame
    BY <1>18, Zenon DEF CancelAbort
  <1>19. ASSUME CancelCheck PROVE Frame
    BY <1>19, Zenon DEF CancelCheck
  <1>20. ASSUME RunInv, CancelOpenWaits PROVE Kept
    BY <1>20, Zenon DEF CancelOpenWaits, CancelWaits, RunInv, TypeOK, WaitType, WaitInv, Terminal
  <1>21. ASSUME CancelStops PROVE Frame
    BY <1>21, Zenon DEF CancelStops
  <1>22. ASSUME NEW r \in Reconcilers, Inspect(r) PROVE Frame
    BY <1>22, Zenon DEF Inspect, Goto
  <1>23. ASSUME NEW r \in Reconcilers, Admit(r) PROVE Frame
    BY <1>23, Zenon DEF Admit, AdvanceAdmission, Goto, FinalizeRow, Matches, Terminalize
  <1>24. ASSUME NEW r \in Reconcilers, Reinspect(r) PROVE Frame
    BY <1>24, Zenon DEF Reinspect, Goto
  <1>25. ASSUME NEW r \in Reconcilers, ListPending(r) PROVE Frame
    BY <1>25, Zenon DEF ListPending, Goto
  <1>26. ASSUME RunInv, NEW r \in Reconcilers, NEW w \in Waits, CompletePending(r, w) PROVE Kept
    <2>1. CASE UNCHANGED waits
      BY <1>26, <2>1, <1>0, Zenon
    <2>2. CASE Resolve(w, intent[w])
      BY <1>26, <2>2, Zenon DEF Resolve, RunInv, TypeOK, WaitType, WaitInv
    <2> QED
      BY <1>26, <2>1, <2>2, Zenon DEF CompletePending
  <1>27. ASSUME NEW r \in Reconcilers, AnswersCompleted(r) PROVE Frame
    BY <1>27, Zenon DEF AnswersCompleted, Goto
  <1>28. ASSUME NEW r \in Reconcilers, Outcome(r) PROVE Frame
    BY <1>28, Zenon DEF Outcome, Goto, FinalizeRow, Matches, Terminalize
  <1>29. ASSUME RunInv, NEW r \in Reconcilers, SettleWaits(r) PROVE Kept
    BY <1>29, Zenon DEF SettleWaits, CancelWaits, Goto, RunInv, TypeOK, WaitType, WaitInv, Terminal
  <1>30. ASSUME NEW r \in Reconcilers, ProjectTicket(r) PROVE Frame
    BY <1>30, Zenon DEF ProjectTicket, Goto
  <1>31. ASSUME TimeoutPasses PROVE Frame
    BY <1>31, Zenon DEF TimeoutPasses
  <1>32. ASSUME NEW w \in Waits, DeadlinePasses(w) PROVE Frame
    BY <1>32, Zenon DEF DeadlinePasses
  <1>33. ASSUME DeleteBuild PROVE Frame
    BY <1>33, Zenon DEF DeleteBuild, Fault
  <1>34. ASSUME SchedulerStops PROVE Frame
    BY <1>34, Zenon DEF SchedulerStops, Fault
  <1>35. ASSUME NEW r \in Reconcilers, SettleFails(r) PROVE Frame
    BY <1>35, Zenon DEF SettleFails, Fault, Goto
  <1>36. ASSUME NEW r \in Reconcilers, ReconcilerStops(r) PROVE Frame
    BY <1>36, Zenon DEF ReconcilerStops, Fault, Goto
  <1>37. ASSUME RunInv, SealOutput PROVE Kept
    BY <1>37, Zenon DEF SealOutput, RunInv, TypeOK, WaitType, WaitInv, Terminal
  <1>90. RunInv /\ [Next]_vars => [Kept]_vars
    BY <1>0, <1>1, <1>2, <1>3, <1>4, <1>5, <1>6, <1>7, <1>8, <1>9, <1>10, <1>11, <1>12, <1>13,
       <1>14, <1>15, <1>16, <1>17, <1>18, <1>19, <1>20, <1>21, <1>22, <1>23, <1>24, <1>25,
       <1>26, <1>27, <1>28, <1>29, <1>30, <1>31, <1>32, <1>33, <1>34, <1>35, <1>36, <1>37, ZenonT(30) DEF Next,
       BinderNext, SchedulerNext, EngineNext, EngineEnds, HumanNext, CancelerNext,
       ReconcilerNext, TimeNext, FaultNext
  <1> QED
    BY <1>90, RunInvariant, PTL DEF Spec, AcceptedAnswerKept


(* Seen from outside a step of the run is a step of its contract, or none. *)
LEMMA ContractStep ==
  ASSUME TypeOK, TypeOK',
         \/ UNCHANGED <<status, exec, claims>>
         \/ status = "none" /\ status' = "admitting" /\ exec' = exec
         \/ /\ status \in Active /\ status' \in Active /\ exec' = exec
            /\ claims \subseteq claims'
         \/ /\ status \in Active /\ status' = status /\ claims' = claims
            /\ exec = "none" /\ exec' \in Terminal
         \/ /\ status \in Active /\ status' \in Terminal /\ claims' = {}
            /\ exec' = exec \/ (exec = "none" /\ exec' \in Terminal)
            /\ status' = "succeeded" => exec' = "succeeded"
            /\ status' = "aborted" => exec' \in {"aborted", "none"}
            /\ status' = "failed" => exec' \in {"failed", "succeeded"}
  PROVE  [Contract!Next]_(Contract!contract)
  <1> DEFINE phase == IF status \in Active THEN "open" ELSE status
  <1>0. claims \in SUBSET Claims /\ claims' \in SUBSET Claims
    BY Zenon DEF TypeOK, WaitType
  <1>1. CASE UNCHANGED <<status, exec, claims>>
    BY <1>1, Zenon DEF Contract!contract
  <1>2. CASE status = "none" /\ status' = "admitting" /\ exec' = exec
    BY <1>0, <1>2, Zenon DEF Contract!Next, Contract!Admit, Active
  <1>3. CASE /\ status \in Active /\ status' \in Active /\ exec' = exec
             /\ claims \subseteq claims'
    BY <1>0, <1>3, Zenon DEF Contract!Next, Contract!Retain
  <1>4. CASE /\ status \in Active /\ status' = status /\ claims' = claims
             /\ exec = "none" /\ exec' \in Terminal
    BY <1>4, Zenon DEF Contract!Next, Contract!Record, Contract!Verdict, Terminal
  <1>5. CASE /\ status \in Active /\ status' \in Terminal /\ claims' = {}
             /\ exec' = exec \/ (exec = "none" /\ exec' \in Terminal)
             /\ status' = "succeeded" => exec' = "succeeded"
             /\ status' = "aborted" => exec' \in {"aborted", "none"}
             /\ status' = "failed" => exec' \in {"failed", "succeeded"}
    <2>1. phase = "open" /\ phase' = status' /\ status' \in Terminal
      BY <1>5, Zenon DEF Active, Terminal
    <2>2. Contract!Justifies(exec', status')
      BY <1>5, Zenon DEF Contract!Justifies, Terminal
    <2> QED
      BY <1>5, <2>1, <2>2, Zenon DEF Contract!Next, Contract!Close, Contract!Verdict, Terminal
  <1> QED
    BY <1>1, <1>2, <1>3, <1>4, <1>5, Zenon

(* The run implements its contract.                                        *)
THEOREM ContractKept == Spec => KeepsContract
  <1> DEFINE Frame == UNCHANGED <<status, exec, claims>>
             Kept == \/ Frame
                     \/ status = "none" /\ status' = "admitting" /\ exec' = exec
                     \/ /\ status \in Active /\ status' \in Active /\ exec' = exec
                        /\ claims \subseteq claims'
                     \/ /\ status \in Active /\ status' = status /\ claims' = claims
                        /\ exec = "none" /\ exec' \in Terminal
                     \/ /\ status \in Active /\ status' \in Terminal /\ claims' = {}
                        /\ exec' = exec \/ (exec = "none" /\ exec' \in Terminal)
                        /\ status' = "succeeded" => exec' = "succeeded"
                        /\ status' = "aborted" => exec' \in {"aborted", "none"}
                        /\ status' = "failed" => exec' \in {"failed", "succeeded"}
  <1>0. ASSUME Frame PROVE Kept
    BY <1>0, Zenon
  <1>1. ASSUME RunInv, NEW b \in Binders, Bind(b) PROVE Kept
    BY <1>1, Zenon DEF Bind, CreateWithInputs, RunInv, LinkInv, CancelInv, TypeOK, RunType, Outcomes,
       Active, Terminal
  <1>2. ASSUME RunInv, NEW b \in Binders, Refuse(b) PROVE Kept
    BY <1>2, Zenon DEF Refuse, Terminalize, RunInv, LinkInv, CancelInv, TypeOK, RunType, Outcomes,
       Active, Terminal
  <1>3. ASSUME NEW b \in Binders, CreateExecution(b) PROVE Frame
    BY <1>3, Zenon DEF CreateExecution
  <1>4. ASSUME RunInv, NEW b \in Binders, Advance(b) PROVE Kept
    BY <1>4, Zenon DEF Advance, RunInv, LinkInv, CancelInv, TypeOK, RunType, Outcomes, Active, Terminal
  <1>5. ASSUME NEW b \in Binders, BinderStops(b) PROVE Frame
    BY <1>5, Zenon DEF BinderStops
  <1>6. ASSUME StartBuild PROVE Frame
    BY <1>6, Zenon DEF StartBuild, CapturePlan
  <1>7. ASSUME RunInv, FinishUnstarted PROVE Kept
    <2>1. CASE build = "pending" /\ Finish("aborted")
      BY <1>7, <2>1, FinishEffect, Zenon DEF Terminal
    <2>2. CASE build = "pending" /\ FinishPlanningError
      BY <1>7, <2>2, Zenon DEF FinishPlanningError, Terminal
    <2>3. CASE UNCHANGED <<run, selected, claims>>
      BY <2>3, Zenon
    <2> QED
      BY <1>7, <2>1, <2>2, <2>3, Zenon DEF FinishUnstarted
  <1>8. ASSUME RunInv, NEW s \in Terminal, EngineFinish(s) PROVE Kept
    BY <1>8, FinishEffect, Zenon DEF EngineFinish
  <1>9. ASSUME RunInv, NEW w \in Waits, Await(w) PROVE Kept
    BY <1>9, Zenon DEF Await, CreateOrGet, RunInv, LinkInv, CancelInv, TypeOK, RunType, Outcomes,
       Active, Terminal
  <1>10. ASSUME RunInv, NEW w \in Waits, Expire(w) PROVE Kept
    BY <1>10, Zenon DEF Expire, ExpireLocked, AnswerClaim, RunInv, LinkInv, CancelInv, TypeOK, RunType,
       Outcomes, Active, Terminal
  <1>11. ASSUME AbortBuild PROVE Frame
    BY <1>11, Zenon DEF AbortBuild
  <1>12. ASSUME RunInv, NEW h \in Humans, NEW w \in Waits, Reserve(h, w) PROVE Kept
    BY <1>12, Zenon DEF Reserve, ExpireLocked, AnswerClaim, RunInv, LinkInv, CancelInv, TypeOK,
       RunType, Outcomes, Active, Terminal
  <1>13. ASSUME RunInv, NEW h \in Humans, Complete(h) PROVE Kept
    BY <1>13, Zenon DEF Complete, Resolve, AnswerClaim, RunInv, LinkInv, CancelInv, TypeOK, RunType,
       Outcomes, Active, Terminal
  <1>14. ASSUME CancelRequested PROVE Frame
    BY <1>14, Zenon DEF CancelRequested
  <1>15. ASSUME CancelLoad PROVE Frame
    BY <1>15, Zenon DEF CancelLoad
  <1>16. ASSUME RunInv, CancelMove PROVE Kept
    BY <1>16, Zenon DEF CancelMove, NoRow, RunInv, LinkInv, CancelInv, TypeOK, RunType, Outcomes,
       Active, Terminal
  <1>17. ASSUME RunInv, CancelClose PROVE Kept
    BY <1>17, Zenon DEF CancelClose, Matches, Terminalize, NoRow, RunInv, LinkInv, CancelInv, TypeOK,
       RunType, Outcomes, Active, Terminal
  <1>18. ASSUME CancelAbort PROVE Frame
    BY <1>18, Zenon DEF CancelAbort
  <1>19. ASSUME CancelCheck PROVE Frame
    BY <1>19, Zenon DEF CancelCheck
  <1>20. ASSUME CancelOpenWaits PROVE Frame
    BY <1>20, Zenon DEF CancelOpenWaits, CancelWaits
  <1>21. ASSUME CancelStops PROVE Frame
    BY <1>21, Zenon DEF CancelStops
  <1>22. ASSUME NEW r \in Reconcilers, Inspect(r) PROVE Frame
    BY <1>22, Zenon DEF Inspect, Goto
  <1>23. ASSUME RunInv, NEW r \in Reconcilers, Admit(r) PROVE Kept
    BY <1>23, AdmitEffect, Zenon DEF RunInv, ClaimsReleased, Active, Terminal
  <1>24. ASSUME NEW r \in Reconcilers, Reinspect(r) PROVE Frame
    BY <1>24, Zenon DEF Reinspect, Goto
  <1>25. ASSUME NEW r \in Reconcilers, ListPending(r) PROVE Frame
    BY <1>25, Zenon DEF ListPending, Goto
  <1>26. ASSUME RunInv, NEW r \in Reconcilers, NEW w \in Waits, CompletePending(r, w) PROVE Kept
    BY <1>26, Zenon DEF CompletePending, Resolve, AnswerClaim, Goto, NoView, RunInv, LinkInv,
       CancelInv, TypeOK, RunType, Outcomes, Active, Terminal
  <1>27. ASSUME NEW r \in Reconcilers, AnswersCompleted(r) PROVE Frame
    BY <1>27, Zenon DEF AnswersCompleted, Goto
  <1>28. ASSUME RunInv, NEW r \in Reconcilers, Outcome(r) PROVE Kept
    BY <1>28, OutcomeEffect, Zenon DEF RunInv, ClaimsReleased, Active, Terminal
  <1>29. ASSUME NEW r \in Reconcilers, SettleWaits(r) PROVE Frame
    BY <1>29, Zenon DEF SettleWaits, CancelWaits, Goto
  <1>30. ASSUME NEW r \in Reconcilers, ProjectTicket(r) PROVE Frame
    BY <1>30, Zenon DEF ProjectTicket, Goto
  <1>31. ASSUME TimeoutPasses PROVE Frame
    BY <1>31, Zenon DEF TimeoutPasses
  <1>32. ASSUME NEW w \in Waits, DeadlinePasses(w) PROVE Frame
    BY <1>32, Zenon DEF DeadlinePasses
  <1>33. ASSUME DeleteBuild PROVE Frame
    BY <1>33, Zenon DEF DeleteBuild, Fault
  <1>34. ASSUME SchedulerStops PROVE Frame
    BY <1>34, Zenon DEF SchedulerStops, Fault
  <1>35. ASSUME NEW r \in Reconcilers, SettleFails(r) PROVE Frame
    BY <1>35, Zenon DEF SettleFails, Fault, Goto
  <1>36. ASSUME NEW r \in Reconcilers, ReconcilerStops(r) PROVE Frame
    BY <1>36, Zenon DEF ReconcilerStops, Fault, Goto
  <1>37. ASSUME RunInv, SealOutput PROVE Kept
    BY <1>37, Zenon DEF SealOutput, RunInv, LinkInv, CancelInv, TypeOK, RunType, Outcomes,
       Active, Terminal
  <1>90. RunInv /\ [Next]_vars => [Kept]_vars
    BY <1>0, <1>1, <1>2, <1>3, <1>4, <1>5, <1>6, <1>7, <1>8, <1>9, <1>10, <1>11, <1>12, <1>13,
       <1>14, <1>15, <1>16, <1>17, <1>18, <1>19, <1>20, <1>21, <1>22, <1>23, <1>24, <1>25,
       <1>26, <1>27, <1>28, <1>29, <1>30, <1>31, <1>32, <1>33, <1>34, <1>35, <1>36, <1>37, ZenonT(30) DEF Next,
       BinderNext, SchedulerNext, EngineNext, EngineEnds, HumanNext, CancelerNext,
       ReconcilerNext, TimeNext, FaultNext
  <1>91. RunInv /\ RunInv' /\ [Next]_vars => [Contract!Next]_(Contract!contract)
    <2> SUFFICES ASSUME RunInv, RunInv', [Next]_vars
                 PROVE  [Contract!Next]_(Contract!contract)
      BY Zenon
    <2>1. TypeOK /\ TypeOK'
      BY Zenon DEF RunInv
    <2>2. Kept
      BY <1>90, Zenon DEF vars
    <2> QED
      BY <2>1, <2>2, ContractStep, Zenon
  <1>92. Init => Contract!Init
    BY Zenon DEF Init, Contract!Init, Active
  <1> QED
    BY <1>91, <1>92, RunInvariant, PTL DEF Spec, KeepsContract, Contract!Spec
=============================================================================

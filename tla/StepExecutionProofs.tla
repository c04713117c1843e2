------------------------ MODULE StepExecutionProofs ------------------------
(***************************************************************************)
(* Proofs about StepExecution and StepInBuild, for any kind of step, any   *)
(* number of webs, sessions and exit codes, any set of faults and any      *)
(* bounds.                                                                 *)
(***************************************************************************)
EXTENDS StepInBuild, TLAPS

USE DEF podVars, sessionVars, attemptVars, bookVars


(* TypeOK in the parts that the operations change together.                *)
PodTypes ==
    /\ phase \in Phases
    /\ exitAnn \in Statuses \cup {NoCode} /\ exitFile \in Codes \cup {NoCode}
    /\ resultAnn \in BOOLEAN
    /\ launches \in 0..MaxLaunches
    /\ pidFile \in 0..MaxLaunches /\ copies \subseteq 1..launches
SessionTypes ==
    /\ place \in [Sessions -> SessionPlaces]
    /\ copyOf \in [Sessions -> 0..MaxLaunches]
    /\ exitOf \in [Sessions -> Statuses \cup {NoCode}]
AttemptTypes ==
    /\ pc \in [Webs -> AttemptPlaces]
    /\ session \in [Webs -> Sessions \cup {NoSession}]
    /\ got \in [Webs -> Statuses \cup {NoCode}]
    /\ tries \in [Webs -> 0..MaxExecRetries]
    /\ recreated \subseteq Webs /\ dead \subseteq Webs /\ adrift \subseteq Webs
BookTypes ==
    /\ answers \subseteq Statuses \cup {NoCode}
    /\ overlap \in BOOLEAN /\ raced \in BOOLEAN
    /\ disruptions \in 0..MaxDisruptions

(* The type invariant by parts: pod, sessions, attempts, bookkeeping.      *)
LEMMA TypeParts == TypeOK <=> PodTypes /\ SessionTypes /\ AttemptTypes /\ BookTypes
  BY Zenon DEF TypeOK, PodTypes, SessionTypes, AttemptTypes, BookTypes

(* The same for the next state.                                            *)
LEMMA TypePartsNext == TypeOK' <=> PodTypes' /\ SessionTypes' /\ AttemptTypes' /\ BookTypes'
  BY Zenon DEF TypeOK, PodTypes, SessionTypes, AttemptTypes, BookTypes

(* The steps of a session and of an attempt lead to places.                *)
LEMMA StepType ==
    ASSUME SessionTypes, NEW s \in Sessions, NEW to \in SessionPlaces, Step(s, to)
    PROVE  place' \in [Sessions -> SessionPlaces]
  BY Zenon DEF Step, SessionTypes

(* An attempt that goes on goes to a place of attempts.                    *)
LEMMA GotoType ==
    ASSUME AttemptTypes, NEW w \in Webs, NEW to \in AttemptPlaces, Goto(w, to)
    PROVE  pc' \in [Webs -> AttemptPlaces]
  BY Zenon DEF Goto, AttemptTypes

(* What an attempt forgets when it ends keeps its types.                   *)
LEMMA ForgetType ==
    ASSUME AttemptTypes, NEW w \in Webs, Forget(w)
    PROVE  /\ session' \in [Webs -> Sessions \cup {NoSession}]
           /\ got' \in [Webs -> Statuses \cup {NoCode}]
           /\ tries' \in [Webs -> 0..MaxExecRetries]
           /\ recreated' \subseteq Webs /\ adrift' \subseteq Webs
  BY DEF Forget, AttemptTypes, MaxExecRetries

(* An attempt that returns keeps the types of the attempts.                *)
LEMMA ReturnType ==
    ASSUME AttemptTypes, NEW w \in Webs, NEW to \in AttemptPlaces, Return(w, to)
    PROVE  AttemptTypes'
  <1>1. (IF w \in adrift THEN "idle" ELSE to) \in AttemptPlaces
    BY Zenon DEF AttemptPlaces
  <1>2. pc' \in [Webs -> AttemptPlaces]
    BY <1>1, GotoType, Zenon DEF Return
  <1> QED
    BY <1>2, ForgetType, Zenon DEF Return, AttemptTypes

(* A step that is given an exit status keeps the bookkeeping typed.        *)
LEMMA AnswerType ==
    ASSUME AttemptTypes, BookTypes, NEW w \in Webs, NEW code \in Statuses \cup {NoCode},
           Answer(w, code)
    PROVE  AttemptTypes' /\ BookTypes'
  <1>1. AttemptTypes'
    BY ReturnType, Zenon DEF Answer, AttemptPlaces
  <1> QED
    BY <1>1, Zenon DEF Answer, BookTypes

(* An attempt that ends with an error, final or retriable, keeps them too. *)
LEMMA GiveUpType ==
    ASSUME AttemptTypes, BookTypes, NEW w \in Webs, GiveUp(w) \/ Fail(w)
    PROVE  AttemptTypes' /\ BookTypes'
  <1>1. (IF w \in dead THEN "failed" ELSE "idle") \in AttemptPlaces /\ "failed" \in AttemptPlaces
    BY Zenon DEF AttemptPlaces
  <1>2. AttemptTypes'
    BY <1>1, ReturnType, Zenon DEF GiveUp, Fail
  <1>3. BookTypes'
    BY Zenon DEF GiveUp, Fail, BookTypes
  <1> QED
    BY <1>2, <1>3, Zenon

(* A new pod has the types of a pod and no sessions.                       *)
LEMMA ReplacedType ==
    ASSUME TypeOK, NEW p \in Phases, PodReplaced(p)
    PROVE  PodTypes' /\ SessionTypes' /\ answers' = {}
  <1>1. PodTypes'
    <2>1. /\ launches' = 0 /\ pidFile' = 0 /\ copies' = {}
          /\ phase' = p /\ exitAnn' = NoCode /\ exitFile' = NoCode /\ resultAnn' = FALSE
      BY Zenon DEF PodReplaced, ProcessesGone
    <2>2. copies' \subseteq 1..launches'
      BY <2>1, Zenon
    <2>3. launches' \in 0..MaxLaunches /\ pidFile' \in 0..MaxLaunches
      BY <2>1, BoundsAssumption
    <2> QED
      BY <2>1, <2>2, <2>3, Zenon DEF PodTypes
  <1>2. SessionTypes'
    BY TypeParts, Zenon DEF PodReplaced, ProcessesGone, SessionTypes, SessionPlaces
  <1> QED
    BY <1>1, <1>2, Zenon DEF PodReplaced

(* A launch adds a copy of the command and keeps the types of the pod.     *)
LEMMA LaunchType ==
    ASSUME PodTypes, launches < MaxLaunches, launches' = launches + 1,
           copies' = copies \cup {launches + 1},
           UNCHANGED <<phase, exitAnn, resultAnn, exitFile, pidFile>>
    PROVE  PodTypes' /\ launches + 1 \in 0..MaxLaunches
  <1>1. launches + 1 \in 0..MaxLaunches
    BY BoundsAssumption DEF PodTypes
  <1>2. copies' \subseteq 1..launches'
    <2> SUFFICES ASSUME NEW n \in copies' PROVE n \in 1..(launches + 1)
      BY Zenon
    <2>1. launches \in Nat
      BY BoundsAssumption DEF PodTypes
    <2>2. CASE n \in copies
      <3>1. n \in 1..launches
        BY <2>2, Zenon DEF PodTypes
      <3> QED
        BY <2>1, <3>1
    <2>3. CASE n = launches + 1
      BY <2>1, <2>3
    <2> QED
      BY <2>2, <2>3, Zenon
  <1> QED
    BY <1>1, <1>2, Zenon DEF PodTypes

(* Every operation keeps the types.                                        *)
LEMMA TypeStep == TypeOK /\ OneAttempt /\ [Next]_vars => TypeOK'
  <1> SUFFICES ASSUME TypeOK, OneAttempt, [Next]_vars PROVE TypeOK'
    BY Zenon
  <1>0. PodTypes /\ SessionTypes /\ AttemptTypes /\ BookTypes
    BY TypeParts, Zenon
  <1> USE <1>0
  <1>1. ASSUME Pod PROVE TypeOK'
    <2>1. CASE PodStarts
      BY <2>1, TypePartsNext, Zenon DEF PodStarts, PodTypes, SessionTypes, AttemptTypes, BookTypes, Phases
    <2>2. ASSUME NEW p \in Ended \cup {"none"}, PodLost(p) PROVE TypeOK'
      <3>1. AttemptTypes' /\ p \in Phases
        BY <2>2, Zenon DEF PodLost, AttemptTypes, Ended, Phases
      <3>2. CASE p = "none"
        <4>1. PodTypes' /\ SessionTypes' /\ answers' = {}
          BY <2>2, <3>2, ReplacedType, Zenon DEF PodLost, Phases
        <4>2. BookTypes'
          BY <2>2, <4>1, BoundsAssumption DEF PodLost, Disrupt, BookTypes
        <4> QED
          BY <3>1, <4>1, <4>2, TypePartsNext, Zenon
      <3>3. CASE p # "none"
        <4>1. PodTypes'
          BY <2>2, <3>1, <3>3, Zenon DEF PodLost, ProcessesGone, PodTypes
        <4>2. SessionTypes'
          BY <2>2, <3>3, Zenon DEF PodLost, ProcessesGone, SessionTypes, SessionPlaces
        <4>3. BookTypes'
          BY <2>2, <3>3, BoundsAssumption DEF PodLost, Disrupt, BookTypes
        <4> QED
          BY <3>1, <4>1, <4>2, <4>3, TypePartsNext, Zenon
      <3> QED
        BY <3>2, <3>3, Zenon
    <2>3. ASSUME NEW n \in copies, NEW code \in Codes, CommandEnds(n, code) PROVE TypeOK'
      <3>1. PodTypes'
        BY <2>3, Zenon DEF CommandEnds, PodTypes
      <3>2. SessionTypes'
        <4>1. CASE Supervised
          BY <2>3, <4>1, Zenon DEF CommandEnds, SessionTypes
        <4>2. CASE ~Supervised
          <5>1. \A s \in Sessions : place'[s] \in {"exited", place[s]} /\ exitOf'[s] \in {code, exitOf[s]}
            BY <2>3, <4>2, Zenon DEF CommandEnds
          <5> QED
            BY <2>3, <4>2, <5>1, Zenon DEF CommandEnds, SessionTypes, SessionPlaces, Statuses
        <4> QED
          BY <4>1, <4>2, Zenon
      <3> QED
        BY <2>3, <3>1, <3>2, TypePartsNext, Zenon DEF CommandEnds, AttemptTypes, BookTypes
    <2> QED
      BY <1>1, <2>1, <2>2, <2>3, Zenon DEF Pod
  <1>2. ASSUME NEW s \in Sessions, Session(s) PROVE TypeOK'
    <2>1. CASE TestExit(s)
      <3>1. place' \in [Sessions -> SessionPlaces]
        BY <2>1, StepType, Zenon DEF TestExit, SessionPlaces
      <3> QED
        BY <2>1, <3>1, TypePartsNext, Zenon DEF TestExit, PodTypes, SessionTypes, AttemptTypes, BookTypes
    <2>2. CASE TestAlive(s)
      <3>1. place' \in [Sessions -> SessionPlaces]
        BY <2>2, StepType, Zenon DEF TestAlive, SessionPlaces
      <3> QED
        BY <2>2, <3>1, TypePartsNext, Zenon DEF TestAlive, PodTypes, SessionTypes, AttemptTypes, BookTypes
    <2>3. CASE Launch(s)
      <3>1. place' \in [Sessions -> SessionPlaces]
        BY <2>3, StepType, Zenon DEF Launch, SessionPlaces
      <3>2. PodTypes' /\ launches + 1 \in 0..MaxLaunches
        BY <2>3, LaunchType, Zenon DEF Launch
      <3>3. SessionTypes'
        BY <2>3, <3>1, <3>2, Zenon DEF Launch, SessionTypes
      <3> QED
        BY <2>3, <3>2, <3>3, TypePartsNext, Zenon DEF Launch, AttemptTypes, BookTypes
    <2>4. CASE WritePid(s)
      <3>1. place' \in [Sessions -> SessionPlaces]
        BY <2>4, StepType, Zenon DEF WritePid, SessionPlaces
      <3> QED
        BY <2>4, <3>1, TypePartsNext, Zenon DEF WritePid, PodTypes, SessionTypes, AttemptTypes, BookTypes
    <2>5. CASE Poll(s)
      <3>1. place' \in [Sessions -> SessionPlaces]
        BY <2>5, StepType, Zenon DEF Poll, SessionPlaces
      <3>2. SessionTypes'
        BY <2>5, <3>1, Zenon DEF Poll, PodTypes, SessionTypes, Statuses
      <3> QED
        BY <2>5, <3>2, TypePartsNext, Zenon DEF Poll, PodTypes, AttemptTypes, BookTypes
    <2>6. CASE Hangup(s)
      <3>1. place' \in [Sessions -> SessionPlaces]
        BY <2>6, StepType, Zenon DEF Hangup, SessionPlaces
      <3> QED
        BY <2>6, <3>1, TypePartsNext, Zenon DEF Hangup, PodTypes, SessionTypes, AttemptTypes, BookTypes
    <2> QED
      BY <1>2, <2>1, <2>2, <2>3, <2>4, <2>5, <2>6, Zenon DEF Session
  <1>3. ASSUME NEW w \in Webs, Attempt(w) PROVE TypeOK'
    <2>1. CASE Begin(w)
      <3>1. pc' \in [Webs -> AttemptPlaces]
        BY <2>1, GotoType, Zenon DEF Begin, Arrive, Reach, AttemptPlaces
      <3> QED
        BY <2>1, <3>1, TypePartsNext, Zenon DEF Begin, Arrive, Reach, PodTypes, SessionTypes, AttemptTypes, BookTypes
    <2>2. CASE Properties(w)
      <3>1. PodTypes' /\ SessionTypes'
        BY <2>2, Zenon DEF Properties, PodTypes, SessionTypes
      <3>2. CASE Answer(w, 0)
        BY <3>1, <3>2, AnswerType, CodesAssumption, TypePartsNext, Zenon DEF Statuses
      <3>3. CASE Fail(w)
        BY <3>1, <3>3, GiveUpType, TypePartsNext, Zenon
      <3>4. CASE ~Answer(w, 0) /\ ~Fail(w)
        <4>1. pc' \in [Webs -> AttemptPlaces]
          BY <2>2, <3>4, GotoType, Zenon DEF Properties, AttemptPlaces
        <4>2. got' \in [Webs -> Statuses \cup {NoCode}]
          BY <2>2, <3>4, Zenon DEF Properties, AttemptTypes, PodTypes
        <4> QED
          BY <2>2, <3>1, <3>4, <4>1, <4>2, TypePartsNext, Zenon DEF Properties, AttemptTypes, BookTypes
      <3> QED
        BY <3>2, <3>3, <3>4, Zenon
    <2>3. CASE Attach(w)
      <3>1. PodTypes' /\ SessionTypes'
        BY <2>3, Zenon DEF Attach, PodTypes, SessionTypes
      <3>2. CASE Answer(w, exitAnn)
        BY <3>1, <3>2, AnswerType, TypePartsNext, Zenon DEF PodTypes
      <3>3. CASE Fail(w)
        BY <3>1, <3>3, GiveUpType, TypePartsNext, Zenon
      <3>4. CASE ~Answer(w, exitAnn) /\ ~Fail(w)
        <4>1. pc' \in [Webs -> AttemptPlaces]
          BY <2>3, <3>4, GotoType, Zenon DEF Attach, AttemptPlaces
        <4>2. got' \in [Webs -> Statuses \cup {NoCode}]
          BY <2>3, <3>4, Zenon DEF Attach, AttemptTypes, PodTypes
        <4> QED
          BY <2>3, <3>1, <3>4, <4>1, <4>2, TypePartsNext, Zenon DEF Attach, AttemptTypes, BookTypes
      <3> QED
        BY <3>2, <3>3, <3>4, Zenon
    <2>4. CASE Run(w)
      <3>1. pc' \in [Webs -> AttemptPlaces]
        BY <2>4, GotoType, Zenon DEF Run, AttemptPlaces
      <3>2. AttemptTypes'
        BY <2>4, <3>1, Zenon DEF Run, AttemptTypes
      <3>3. CASE PodReplaced("none")
        BY <2>4, <3>2, <3>3, ReplacedType, TypePartsNext, Zenon DEF Run, Phases, BookTypes
      <3>4. CASE UNCHANGED <<podVars, sessionVars, answers>>
        BY <2>4, <3>2, <3>4, TypePartsNext, Zenon DEF Run, PodTypes, SessionTypes, BookTypes
      <3> QED
        BY <2>4, <3>3, <3>4, Zenon DEF Run
    <2>5. CASE Create(w)
      <3>1. CASE PodReplaced("pending") /\ Goto(w, "wait")
        <4>1. pc' \in [Webs -> AttemptPlaces]
          BY <3>1, GotoType, Zenon DEF AttemptPlaces
        <4>2. CASE UNCHANGED <<session, got, tries, recreated, dead, adrift, overlap, raced, disruptions>>
          BY <3>1, <4>1, <4>2, ReplacedType, TypePartsNext, Zenon DEF Phases, AttemptTypes, BookTypes
        <4>3. CASE GiveUp(w) \/ Fail(w)
          BY <3>1, <4>3, ReplacedType, GiveUpType, TypePartsNext, Zenon DEF Phases
        <4> QED
          BY <2>5, <4>2, <4>3, Zenon DEF Create
      <3>2. CASE (GiveUp(w) \/ Fail(w)) /\ UNCHANGED <<podVars, sessionVars>>
        BY <3>2, GiveUpType, TypePartsNext, Zenon DEF PodTypes, SessionTypes
      <3> QED
        BY <2>5, <3>1, <3>2, Zenon DEF Create
    <2>6. CASE Recreate(w)
      <3>1. pc' \in [Webs -> AttemptPlaces]
        BY <2>6, GotoType, Zenon DEF Recreate, AttemptPlaces
      <3>2. AttemptTypes'
        BY <2>6, <3>1, Zenon DEF Recreate, AttemptTypes
      <3>3. CASE PodReplaced("pending")
        BY <2>6, <3>2, <3>3, ReplacedType, TypePartsNext, Zenon DEF Recreate, Phases, BookTypes
      <3>4. CASE UNCHANGED <<podVars, sessionVars, answers>>
        BY <2>6, <3>2, <3>4, TypePartsNext, Zenon DEF Recreate, PodTypes, SessionTypes, BookTypes
      <3> QED
        BY <2>6, <3>3, <3>4, Zenon DEF Recreate
    <2>7. CASE PodRuns(w)
      <3>1. pc' \in [Webs -> AttemptPlaces]
        BY <2>7, GotoType, Zenon DEF PodRuns, AttemptPlaces
      <3> QED
        BY <2>7, <3>1, TypePartsNext, Zenon DEF PodRuns, PodTypes, SessionTypes, AttemptTypes, BookTypes
    <2>8. CASE ReplaceFailedPod(w)
      <3>1. PodTypes' /\ SessionTypes' /\ answers' = {}
        BY <2>8, ReplacedType, Zenon DEF ReplaceFailedPod, Phases
      <3> QED
        BY <2>8, <3>1, TypePartsNext, Zenon DEF ReplaceFailedPod, AttemptTypes, BookTypes
    <2>9. CASE WaitFails(w)
      <3>1. PodTypes' /\ SessionTypes'
        BY <2>9, Zenon DEF WaitFails, PodTypes, SessionTypes
      <3>2. CASE GiveUp(w) \/ Fail(w)
        BY <3>1, <3>2, GiveUpType, TypePartsNext, Zenon
      <3>3. CASE Goto(w, "severed") /\ UNCHANGED <<session, got, tries, recreated, dead, adrift, bookVars>>
        <4>1. pc' \in [Webs -> AttemptPlaces]
          BY <3>3, GotoType, Zenon DEF AttemptPlaces
        <4> QED
          BY <3>1, <3>3, <4>1, TypePartsNext, Zenon DEF AttemptTypes, BookTypes
      <3> QED
        BY <2>9, <3>2, <3>3, Zenon DEF WaitFails
    <2>10. CASE ExecFails(w)
      <3>1. pc' \in [Webs -> AttemptPlaces]
        BY <2>10, GotoType, Zenon DEF ExecFails, AttemptPlaces
      <3>2. tries' \in [Webs -> 0..MaxExecRetries]
        BY <2>10 DEF ExecFails, AttemptTypes, MaxExecRetries
      <3> QED
        BY <2>10, <3>1, <3>2, TypePartsNext, Zenon DEF ExecFails, PodTypes, SessionTypes, AttemptTypes, BookTypes
    <2>11. ASSUME NEW s \in Sessions, Exec(w, s) PROVE TypeOK'
      <3>1. pc' \in [Webs -> AttemptPlaces]
        BY <2>11, GotoType, Zenon DEF Exec, AttemptPlaces
      <3>2. place' \in [Sessions -> SessionPlaces]
        BY <2>11, StepType, Zenon DEF Exec, SessionPlaces
      <3>3. PodTypes' /\ copyOf' \in [Sessions -> 0..MaxLaunches]
        <4>1. CASE Supervised
          <5>1. PodTypes'
            BY <2>11, <4>1, Zenon DEF Exec, PodTypes
          <5>2. copyOf' \in [Sessions -> 0..MaxLaunches]
            BY <2>11, <4>1, BoundsAssumption DEF Exec, SessionTypes
          <5> QED
            BY <5>1, <5>2, Zenon
        <4>2. CASE ~Supervised
          <5>1. PodTypes' /\ launches + 1 \in 0..MaxLaunches
            BY <2>11, <4>2, LaunchType, Zenon DEF Exec
          <5> QED
            BY <2>11, <4>2, <5>1, Zenon DEF Exec, SessionTypes
        <4> QED
          BY <4>1, <4>2, Zenon
      <3>4. SessionTypes' /\ AttemptTypes'
        BY <2>11, <3>1, <3>2, <3>3, Zenon DEF Exec, SessionTypes, AttemptTypes
      <3> QED
        BY <2>11, <3>3, <3>4, TypePartsNext, Zenon DEF Exec, BookTypes
    <2>12. CASE StreamEnds(w)
      <3>1. pc' \in [Webs -> AttemptPlaces]
        BY <2>12, GotoType, Zenon DEF StreamEnds, AttemptPlaces
      <3>2. exitOf[session[w]] \in Statuses \cup {NoCode}
        BY <2>12, Zenon DEF StreamEnds, OneAttempt, AttemptTypes, SessionTypes
      <3> QED
        BY <2>12, <3>1, <3>2, TypePartsNext, Zenon DEF StreamEnds, PodTypes, SessionTypes, AttemptTypes, BookTypes
    <2>13. CASE StreamSevered(w)
      <3>1. pc' \in [Webs -> AttemptPlaces]
        BY <2>13, GotoType, Zenon DEF StreamSevered, AttemptPlaces
      <3>2. disruptions' \in 0..MaxDisruptions
        <4>1. \/ disruptions' = disruptions
              \/ disruptions < MaxDisruptions /\ disruptions' = disruptions + 1
          BY <2>13, Zenon DEF StreamSevered, Disrupt
        <4>2. disruptions \in 0..MaxDisruptions /\ MaxDisruptions \in Nat
          BY BoundsAssumption, Zenon DEF BookTypes
        <4> QED
          BY <4>1, <4>2
      <3> QED
        BY <2>13, <3>1, <3>2, TypePartsNext, Zenon DEF StreamSevered, PodTypes, SessionTypes, AttemptTypes, BookTypes
    <2>14. CASE Severed(w)
      <3>1. PodTypes' /\ SessionTypes'
        BY <2>14, Zenon DEF Severed, PodTypes, SessionTypes
      <3> QED
        BY <2>14, <3>1, GiveUpType, TypePartsNext, Zenon DEF Severed
    <2>15. CASE Annotate(w)
      <3>1. got[w] \in Statuses \cup {NoCode}
        BY Zenon DEF AttemptTypes
      <3>2. PodTypes' /\ SessionTypes'
        BY <2>15, <3>1, Zenon DEF Annotate, PodTypes, SessionTypes
      <3>3. CASE Supervised
        BY <2>15, <3>1, <3>2, <3>3, AnswerType, TypePartsNext, Zenon DEF Annotate
      <3>4. CASE ~Supervised
        <4>1. pc' \in [Webs -> AttemptPlaces]
          BY <2>15, <3>4, GotoType, Zenon DEF Annotate, AttemptPlaces
        <4> QED
          BY <2>15, <3>2, <3>4, <4>1, TypePartsNext, Zenon DEF Annotate, AttemptTypes, BookTypes
      <3> QED
        BY <3>3, <3>4, Zenon
    <2>16. CASE Cache(w)
      <3>1. got[w] \in Statuses \cup {NoCode}
        BY Zenon DEF AttemptTypes
      <3>2. PodTypes' /\ SessionTypes'
        BY <2>16, Zenon DEF Cache, PodTypes, SessionTypes
      <3> QED
        BY <2>16, <3>1, <3>2, AnswerType, TypePartsNext, Zenon DEF Cache
    <2> QED
      BY <1>3, <2>1, <2>2, <2>3, <2>4, <2>5, <2>6, <2>7, <2>8, <2>9, <2>10,
         <2>11, <2>12, <2>13, <2>14, <2>15, <2>16, Zenon DEF Attempt
  <1>4. ASSUME NEW w \in Webs, Web(w) PROVE TypeOK'
    <2>1. PodTypes' /\ SessionTypes'
      BY <1>4, Zenon DEF Web, Cancel, Drain, BeginLeft, Reach, Crash, PodTypes, SessionTypes
    <2>2. BookTypes'
      <3>1. /\ disruptions < MaxDisruptions /\ disruptions' = disruptions + 1
            /\ overlap' \in {overlap, TRUE} /\ UNCHANGED <<answers, raced>>
        BY <1>4, Zenon DEF Web, Cancel, Drain, BeginLeft, Reach, Crash, Disrupt
      <3>2. disruptions' \in 0..MaxDisruptions
        BY <3>1, BoundsAssumption DEF BookTypes
      <3> QED
        BY <3>1, <3>2, Zenon DEF BookTypes
    <2>3. CASE Cancel(w) \/ Drain(w)
      BY <2>1, <2>2, <2>3, TypePartsNext, Zenon DEF Cancel, Drain, AttemptTypes
    <2>4. CASE Crash(w)
      <3>1. pc' \in [Webs -> AttemptPlaces]
        BY <2>4, GotoType, Zenon DEF Crash, AttemptPlaces
      <3> QED
        BY <2>1, <2>2, <2>4, <3>1, ForgetType, TypePartsNext, Zenon DEF Crash, AttemptTypes
    <2>5. CASE BeginLeft(w)
      <3>1. pc' \in [Webs -> AttemptPlaces]
        BY <2>5, GotoType, Zenon DEF BeginLeft, Reach, AttemptPlaces
      <3> QED
        BY <2>1, <2>2, <2>5, <3>1, TypePartsNext, Zenon DEF BeginLeft, Reach, AttemptTypes
    <2> QED
      BY <1>4, <2>3, <2>4, <2>5, Zenon DEF Web
  <1>5. CASE UNCHANGED vars
    BY <1>5, TypePartsNext, Zenon DEF vars, PodTypes, SessionTypes, AttemptTypes, BookTypes
  <1> QED
    BY <1>1, <1>2, <1>3, <1>4, <1>5, Zenon DEF Next

(* What an operation of a web does to attempts: the other webs' attempts are *)
(* left alone, the web's own has a session exactly while it streams from it, *)
(* and only Begin and BeginLeft start from an idle web or mark an overlap.   *)
LEMMA OwnAttempt ==
    ASSUME TypeOK, OneAttempt, NEW w \in Webs, Attempt(w) \/ Web(w)
    PROVE  /\ \A v \in Webs \ {w} : pc'[v] = pc[v] /\ session'[v] = session[v] /\ got'[v] = got[v]
           /\ session'[w] # NoSession <=> pc'[w] = "stream"
           /\ Supervised => pc'[w] \notin {"properties", "cache"}
           /\ Begin(w) \/ (BeginLeft(w) /\ overlap') \/ (pc[w] # "idle" /\ overlap' = overlap)
           /\ raced' = raced
  <1>0. /\ pc \in [Webs -> AttemptPlaces]
        /\ session \in [Webs -> Sessions \cup {NoSession}]
        /\ got \in [Webs -> Statuses \cup {NoCode}]
        /\ session[w] # NoSession <=> pc[w] = "stream"
        /\ Supervised => pc[w] \notin {"properties", "cache"}
    BY Zenon DEF TypeOK, OneAttempt
  <1>1. CASE Begin(w)
    BY <1>0, <1>1, Zenon DEF Begin, Arrive, Reach, Goto
  <1>2. CASE Properties(w)
    BY <1>0, <1>2, Zenon DEF Properties, Answer, Fail, Return, Goto, Forget
  <1>3. CASE Attach(w)
    BY <1>0, <1>3, Zenon DEF Attach, Answer, Fail, Return, Goto, Forget
  <1>4. CASE Run(w)
    BY <1>0, <1>4, Zenon DEF Run, Goto
  <1>5. CASE Create(w)
    BY <1>0, <1>5, Zenon DEF Create, Fail, GiveUp, Return, Goto, Forget
  <1>6. CASE PodRuns(w)
    BY <1>0, <1>6, Zenon DEF PodRuns, Goto
  <1>7. CASE ReplaceFailedPod(w)
    BY <1>0, <1>7, Zenon DEF ReplaceFailedPod
  <1>8. CASE WaitFails(w)
    BY <1>0, <1>8, Zenon DEF WaitFails, Fail, GiveUp, Return, Goto, Forget
  <1>9. CASE ExecFails(w)
    BY <1>0, <1>9, Zenon DEF ExecFails, Goto
  <1>10. CASE Recreate(w)
    BY <1>0, <1>10, Zenon DEF Recreate, Goto
  <1>11. CASE \E s \in Sessions : Exec(w, s)
    BY <1>0, <1>11, SessionAssumption, Zenon DEF Exec, Goto
  <1>12. CASE StreamEnds(w)
    BY <1>0, <1>12, Zenon DEF StreamEnds, Goto
  <1>13. CASE StreamSevered(w)
    BY <1>0, <1>13, Zenon DEF StreamSevered, Goto
  <1>14. CASE Severed(w)
    BY <1>0, <1>14, Zenon DEF Severed, Fail, GiveUp, Return, Goto, Forget
  <1>15. CASE Annotate(w)
    BY <1>0, <1>15, Zenon DEF Annotate, Answer, Return, Goto, Forget
  <1>16. CASE Cache(w)
    BY <1>0, <1>16, Zenon DEF Cache, Answer, Return, Goto, Forget
  <1>17. CASE Cancel(w)
    BY <1>0, <1>17, Zenon DEF Cancel, Active
  <1>18. CASE Drain(w)
    BY <1>0, <1>18, Zenon DEF Drain, Active
  <1>19. CASE Crash(w)
    BY <1>0, <1>19, Zenon DEF Crash, Goto, Forget
  <1>20. CASE BeginLeft(w)
    BY <1>0, <1>20, Zenon DEF BeginLeft, Reach, Goto
  <1> QED
    BY <1>1, <1>2, <1>3, <1>4, <1>5, <1>6, <1>7, <1>8, <1>9, <1>10, <1>11,
         <1>12, <1>13, <1>14, <1>15, <1>16, <1>17, <1>18, <1>19, <1>20, Zenon DEF Attempt, Web

(* The pod and the sessions leave the attempts alone.                      *)
LEMMA PodLeavesAttempts ==
    ASSUME TypeOK, Pod \/ \E s \in Sessions : Session(s)
    PROVE  UNCHANGED <<attemptVars, overlap>> /\ (raced => raced')
  <1>1. CASE Pod
    <2>1. CASE PodStarts
      BY <2>1, Zenon DEF PodStarts
    <2>2. ASSUME NEW p \in Ended \cup {"none"}, PodLost(p)
          PROVE  UNCHANGED <<attemptVars, overlap, raced>>
      BY <2>2, Zenon DEF PodLost
    <2>3. ASSUME NEW n \in copies, NEW code \in Codes, CommandEnds(n, code)
          PROVE  UNCHANGED <<attemptVars, overlap, raced>>
      BY <2>3, Zenon DEF CommandEnds
    <2> QED
      BY <1>1, <2>1, <2>2, <2>3, Zenon DEF Pod
  <1>2. ASSUME NEW s \in Sessions, Session(s)
        PROVE  UNCHANGED <<attemptVars, overlap>> /\ (raced => raced')
    <2>1. UNCHANGED <<attemptVars, overlap>>
      BY <1>2, Zenon DEF Session, TestExit, TestAlive, Launch, WritePid, Poll, Hangup
    <2>2. raced => raced'
      BY <1>2, Zenon DEF Session, TestExit, TestAlive, Launch, WritePid, Poll, Hangup, TypeOK
    <2> QED
      BY <2>1, <2>2, Zenon
  <1> QED
    BY <1>1, <1>2, Zenon

(* One attempt at a time: Begin needs the others to be idle or adrift, and *)
(* an attempt that is adrift then marks an overlap.                        *)
LEMMA AttemptStep == TypeOK /\ OneAttempt /\ [Next]_vars => OneAttempt'
  <1> SUFFICES ASSUME TypeOK, OneAttempt, [Next]_vars PROVE OneAttempt'
    BY Zenon
  <1>1. CASE UNCHANGED <<attemptVars, overlap>>
    BY <1>1, Zenon DEF OneAttempt
  <1>2. ASSUME NEW w \in Webs, Attempt(w) \/ Web(w) PROVE OneAttempt'
    <2>1. /\ \A v \in Webs : session'[v] # NoSession <=> pc'[v] = "stream"
          /\ Supervised => \A v \in Webs : pc'[v] \notin {"properties", "cache"}
      BY <1>2, OwnAttempt, Zenon DEF OneAttempt
    <2>2. ASSUME ~overlap', NEW u \in Webs, NEW v \in Webs, pc'[u] # "idle", pc'[v] # "idle"
          PROVE  u = v
      <3>1. CASE Begin(w)
        <4>1. \A x \in Webs : pc[x] = "idle"
          BY <2>2, <3>1, Zenon DEF Begin, Arrive, Reach
        <4>2. \A x \in Webs \ {w} : pc'[x] = "idle"
          BY <1>2, <4>1, OwnAttempt, Zenon
        <4> QED
          BY <2>2, <4>2, Zenon
      <3>2. CASE pc[w] # "idle" /\ overlap' = overlap
        <4>1. \A x \in Webs : pc'[x] # "idle" => pc[x] # "idle"
          BY <1>2, <3>2, OwnAttempt, Zenon
        <4> QED
          BY <2>2, <3>2, <4>1, Zenon DEF OneAttempt
      <3> QED
        BY <1>2, <2>2, <3>1, <3>2, OwnAttempt, Zenon
    <2> QED
      BY <2>1, <2>2, Zenon DEF OneAttempt
  <1>3. CASE UNCHANGED vars
    BY <1>1, <1>3, Zenon DEF vars
  <1> QED
    BY <1>1, <1>2, <1>3, PodLeavesAttempts, Zenon DEF Next

(* What an operation of a web does to the pod and its sessions: nothing    *)
(* but annotate, or replace the pod, open a session, or kill.              *)
LEMMA PodFrame ==
    ASSUME NEW w \in Webs, Attempt(w) \/ Web(w)
    PROVE  \/ UNCHANGED <<phase, exitFile, pidFile, copies, launches, sessionVars>>
           \/ PodReplaced("none") \/ PodReplaced("pending")
           \/ \E s \in Sessions : Exec(w, s)
           \/ Severed(w)
  BY Zenon DEF Attempt, Begin, Arrive, Reach, Properties, Attach, Run, Create, PodRuns, ReplaceFailedPod,
         WaitFails, ExecFails, Recreate, StreamEnds, StreamSevered, Annotate, Cache,
         Web, Cancel, Drain, BeginLeft, Crash

(* Processes and sessions are there only while the pod runs.               *)
LEMMA ProcessesStep == TypeOK /\ ProcessesNeedPod /\ [Next]_vars => ProcessesNeedPod'
  <1> SUFFICES ASSUME TypeOK, ProcessesNeedPod, [Next]_vars PROVE ProcessesNeedPod'
    BY Zenon
  <1>1. CASE UNCHANGED <<phase, copies, place>>
    BY <1>1, Zenon DEF ProcessesNeedPod
  <1>2. ASSUME Pod PROVE ProcessesNeedPod'
    <2>1. CASE PodStarts
      BY <2>1, Zenon DEF PodStarts, ProcessesNeedPod
    <2>2. ASSUME NEW p \in Ended \cup {"none"}, PodLost(p) PROVE ProcessesNeedPod'
      BY <2>2, Zenon DEF PodLost, PodReplaced, ProcessesGone, ProcessesNeedPod
    <2>3. ASSUME NEW n \in copies, NEW code \in Codes, CommandEnds(n, code)
          PROVE  ProcessesNeedPod'
      BY <2>3, Zenon DEF CommandEnds, ProcessesNeedPod
    <2> QED
      BY <1>2, <2>1, <2>2, <2>3, Zenon DEF Pod
  <1>3. ASSUME NEW s \in Sessions, Session(s) PROVE ProcessesNeedPod'
    <2>1. place[s] # "closed" /\ phase' = phase
      BY <1>3, Zenon DEF Session, TestExit, TestAlive, Launch, WritePid, Poll, Hangup
    <2> QED
      BY <2>1, Zenon DEF ProcessesNeedPod
  <1>4. ASSUME NEW w \in Webs, Attempt(w) \/ Web(w) PROVE ProcessesNeedPod'
    <2>1. CASE PodReplaced("none") \/ PodReplaced("pending")
      BY <2>1, Zenon DEF PodReplaced, ProcessesGone, ProcessesNeedPod
    <2>2. CASE \E s \in Sessions : Exec(w, s)
      BY <2>2, Zenon DEF Exec, ProcessesNeedPod
    <2>3. CASE Severed(w)
      BY <2>3, Zenon DEF Severed, ProcessesNeedPod
    <2> QED
      BY <1>1, <1>4, <2>1, <2>2, <2>3, PodFrame, Zenon
  <1> QED
    BY <1>1, <1>2, <1>3, <1>4, Zenon DEF Next, vars

(* A session is past the launch, and there is an exit file, only after a   *)
(* launch in this pod.                                                     *)
LEMMA LaunchedStep ==
    TypeOK /\ LaunchedFirst /\ [Next]_vars => LaunchedFirst'
  <1> SUFFICES ASSUME TypeOK, LaunchedFirst, Supervised, [Next]_vars PROVE LaunchedFirst'
    BY Zenon DEF LaunchedFirst
  <1>0. /\ launches \in Nat /\ copies \subseteq 1..launches
        /\ place \in [Sessions -> SessionPlaces] /\ copyOf \in [Sessions -> 0..MaxLaunches]
    BY BoundsAssumption DEF TypeOK
  <1>1. CASE UNCHANGED <<exitFile, launches, place, copyOf>>
    BY <1>1, Zenon DEF LaunchedFirst
  <1>2. ASSUME Pod PROVE LaunchedFirst'
    <2>1. CASE PodStarts
      BY <1>1, <2>1, Zenon DEF PodStarts
    <2>2. ASSUME NEW p \in Ended \cup {"none"}, PodLost(p) PROVE LaunchedFirst'
      <3>1. \A s \in Sessions : place'[s] = "closed"
        BY <2>2, Zenon DEF PodLost, PodReplaced, ProcessesGone
      <3>2. exitFile' # NoCode => launches' > 0
        BY <2>2, Zenon DEF PodLost, PodReplaced, LaunchedFirst
      <3> QED
        BY <3>1, <3>2, Zenon DEF LaunchedFirst
    <2>3. ASSUME NEW n \in copies, NEW code \in Codes, CommandEnds(n, code)
          PROVE  LaunchedFirst'
      <3>1. launches > 0
        BY <1>0
      <3> QED
        BY <2>3, <3>1, Zenon DEF CommandEnds, LaunchedFirst
    <2> QED
      BY <1>2, <2>1, <2>2, <2>3, Zenon DEF Pod
  <1>3. ASSUME NEW s \in Sessions, Session(s) PROVE LaunchedFirst'
    <2>1. CASE Launch(s)
      <3>1. launches' = launches + 1 /\ launches' > 0 /\ exitFile' = exitFile
        BY <1>0, <2>1 DEF Launch
      <3>2. ASSUME NEW t \in Sessions, place'[t] = "writePid" PROVE copyOf'[t] \in 1..launches'
        <4>1. CASE t = s
          BY <1>0, <2>1, <3>1, <4>1 DEF Launch
        <4>2. CASE t # s
          BY <1>0, <2>1, <3>1, <3>2, <4>2 DEF Launch, Step, LaunchedFirst
        <4> QED
          BY <4>1, <4>2, Zenon
      <3> QED
        BY <3>1, <3>2, Zenon DEF LaunchedFirst
    <2>2. CASE ~Launch(s)
      <3>1. UNCHANGED <<launches, exitFile, copyOf>>
        BY <1>3, <2>2, Zenon DEF Session, TestExit, TestAlive, WritePid, Poll, Hangup
      <3>2. \A t \in Sessions \ {s} : place'[t] = place[t]
        BY <1>0, <1>3, <2>2, Zenon DEF Session, TestExit, TestAlive, WritePid, Poll, Hangup, Step
      <3>3. place'[s] # "writePid"
        BY <1>0, <1>3, <2>2, Zenon DEF Session, TestExit, TestAlive, WritePid, Poll, Hangup, Step
      <3>4. place'[s] \in {"poll", "exited"} => launches > 0
        <4>1. CASE TestExit(s)
          BY <1>0, <4>1, Zenon DEF TestExit, Step, LaunchedFirst
        <4>2. CASE TestAlive(s)
          <5>1. pidFile \in copies => launches > 0
            BY <1>0
          <5> QED
            BY <1>0, <4>2, <5>1, Zenon DEF TestAlive, Step
        <4>3. CASE WritePid(s) \/ Poll(s) \/ Hangup(s)
          BY <1>0, <4>3, Zenon DEF WritePid, Poll, Hangup, Step, LaunchedFirst
        <4> QED
          BY <1>3, <2>2, <4>1, <4>2, <4>3, Zenon DEF Session
      <3> QED
        BY <3>1, <3>2, <3>3, <3>4, Zenon DEF LaunchedFirst
    <2> QED
      BY <2>1, <2>2, Zenon
  <1>4. ASSUME NEW w \in Webs, Attempt(w) \/ Web(w) PROVE LaunchedFirst'
    <2>1. CASE PodReplaced("none") \/ PodReplaced("pending")
      BY <2>1, Zenon DEF PodReplaced, ProcessesGone, LaunchedFirst
    <2>2. ASSUME NEW s \in Sessions, Exec(w, s) PROVE LaunchedFirst'
      <3>1. /\ UNCHANGED <<launches, exitFile>>
            /\ \A t \in Sessions \ {s} : place'[t] = place[t] /\ copyOf'[t] = copyOf[t]
            /\ place'[s] = "testExit"
        BY <1>0, <2>2, Zenon DEF Exec, Step
      <3> QED
        BY <3>1, Zenon DEF LaunchedFirst
    <2>3. CASE Severed(w)
      BY <1>1, <2>3, Zenon DEF Severed
    <2> QED
      BY <1>1, <1>4, <2>1, <2>2, <2>3, PodFrame, Zenon
  <1> QED
    BY <1>1, <1>2, <1>3, <1>4, Zenon DEF Next, vars

(* Sessions between the liveness test and the write of the pid file        *)
(* exclude each other, and outside of it the pid file has the one copy,    *)
(* as long as no launch went uncovered.                                    *)
LEMMA CoverStep ==
    TypeOK /\ OneAttempt /\ PidFileCovers /\ [Next]_vars => PidFileCovers'
  <1> SUFFICES ASSUME TypeOK, OneAttempt, PidFileCovers, [Next]_vars, Supervised, ~raced'
               PROVE  PidFileCovers'
    BY Zenon DEF PidFileCovers
  <1>0. place \in [Sessions -> SessionPlaces] /\ copyOf \in [Sessions -> 0..MaxLaunches]
    BY Zenon DEF TypeOK
  <1>1. ~raced
    BY PodLeavesAttempts, OwnAttempt, Zenon DEF Next, vars
  <1>2. CASE UNCHANGED <<place, copyOf, pidFile>> /\ copies' \subseteq copies
    BY <1>1, <1>2, Zenon DEF PidFileCovers
  <1>3. CASE copies' = {} /\ \A s \in Sessions : place'[s] = "closed"
    BY <1>3, Zenon DEF PidFileCovers, Launching
  <1>4. ASSUME Pod PROVE PidFileCovers'
    BY <1>2, <1>3, <1>4, Zenon DEF Pod, PodStarts, PodLost, PodReplaced, ProcessesGone, CommandEnds
  <1>5. ASSUME NEW s \in Sessions, Session(s) PROVE PidFileCovers'
    <2>1. \A t \in Sessions \ {s} : place'[t] = place[t] /\ copyOf'[t] = copyOf[t]
      BY <1>0, <1>5, Zenon DEF Session, TestExit, TestAlive, Launch, WritePid, Poll, Hangup, Step
    <2>2. CASE TestExit(s) \/ Poll(s)
      <3>1. /\ place[s] \notin Launching /\ place'[s] \notin Launching
            /\ UNCHANGED <<copies, pidFile, copyOf>>
        BY <1>0, <2>2, Zenon DEF TestExit, Poll, Step, Launching
      <3> QED
        BY <1>1, <2>1, <3>1, Zenon DEF PidFileCovers, Launching
    <2>3. CASE TestAlive(s)
      <3>1. place[s] \notin Launching /\ UNCHANGED <<copies, pidFile, copyOf>>
        BY <2>3, Zenon DEF TestAlive, Launching
      <3>2. CASE pidFile \in copies
        <4>1. place'[s] \notin Launching
          BY <1>0, <2>3, <3>2, Zenon DEF TestAlive, Step, Launching
        <4> QED
          BY <1>1, <2>1, <3>1, <4>1, Zenon DEF PidFileCovers, Launching
      <3>3. CASE pidFile \notin copies
        <4>1. place'[s] = "launch" /\ \A t \in Sessions : place[t] \notin Launching
          BY <1>0, <2>3, <3>3, Zenon DEF TestAlive, Step
        <4>2. copies = {}
          BY <1>1, <3>3, <4>1, Zenon DEF PidFileCovers
        <4> QED
          BY <2>1, <3>1, <4>1, <4>2, Zenon DEF PidFileCovers, Launching
      <3> QED
        BY <3>2, <3>3, Zenon
    <2>4. CASE Launch(s)
      <3>1. place[s] = "launch" /\ copies = {} /\ place[s] \in Launching
        BY <1>1, <2>4, Zenon DEF Launch, PidFileCovers, Launching
      <3>2. \A t \in Sessions \ {s} : place[t] \notin Launching
        BY <1>1, <3>1, Zenon DEF PidFileCovers
      <3>3. place'[s] = "writePid" /\ copies' = {copyOf'[s]}
        BY <1>0, <2>4, <3>1, Zenon DEF Launch, Step
      <3> QED
        BY <2>1, <3>2, <3>3, Zenon DEF PidFileCovers, Launching
    <2>5. CASE WritePid(s)
      <3>1. place[s] = "writePid" /\ place[s] \in Launching /\ copies \subseteq {copyOf[s]}
        BY <1>1, <2>5, Zenon DEF WritePid, PidFileCovers, Launching
      <3>2. \A t \in Sessions \ {s} : place[t] \notin Launching
        BY <1>1, <3>1, Zenon DEF PidFileCovers
      <3>3. place'[s] = "poll" /\ copies' = copies /\ pidFile' = copyOf[s]
        BY <1>0, <2>5, Zenon DEF WritePid, Step
      <3> QED
        BY <2>1, <3>1, <3>2, <3>3, Zenon DEF PidFileCovers, Launching
    <2>6. CASE Hangup(s)
      <3>1. /\ place'[s] = "closed" /\ place[s] # "writePid"
            /\ UNCHANGED <<copies, pidFile, copyOf>>
        BY <1>0, <2>6, Zenon DEF Hangup, Step
      <3>2. CASE place[s] = "launch"
        BY <1>1, <2>1, <3>1, <3>2, Zenon DEF PidFileCovers, Launching
      <3>3. CASE place[s] \notin Launching
        BY <1>1, <2>1, <3>1, <3>3, Zenon DEF PidFileCovers, Launching
      <3> QED
        BY <3>1, <3>2, <3>3, Zenon DEF Launching
    <2> QED
      BY <1>5, <2>2, <2>3, <2>4, <2>5, <2>6, Zenon DEF Session
  <1>6. ASSUME NEW w \in Webs, Attempt(w) \/ Web(w) PROVE PidFileCovers'
    <2>1. CASE PodReplaced("none") \/ PodReplaced("pending")
      BY <1>3, <2>1, Zenon DEF PodReplaced, ProcessesGone
    <2>2. ASSUME NEW s \in Sessions, Exec(w, s) PROVE PidFileCovers'
      <3>1. /\ place[s] = "closed" /\ place'[s] = "testExit"
            /\ \A t \in Sessions \ {s} : place'[t] = place[t] /\ copyOf'[t] = copyOf[t]
            /\ UNCHANGED <<copies, pidFile>>
        BY <1>0, <2>2, Zenon DEF Exec, Step
      <3> QED
        BY <1>1, <3>1, Zenon DEF PidFileCovers, Launching
    <2>3. CASE Severed(w)
      BY <1>2, <2>3, Zenon DEF Severed
    <2> QED
      BY <1>2, <1>6, <2>1, <2>2, <2>3, PodFrame, Zenon
  <1> QED
    BY <1>2, <1>4, <1>5, <1>6, Zenon DEF Next, vars

(* No operation takes back an overlap; and while there is none, no other   *)
(* web has anything but an idle attempt when one takes a step, except that *)
(* Begin starts from an idle one.                                          *)
LEMMA Alone ==
    ASSUME TypeOK, OneAttempt, ~overlap', NEW w \in Webs, Attempt(w) \/ Web(w)
    PROVE  /\ ~overlap
           /\ \A v \in Webs \ {w} : pc'[v] = "idle"
  <1>1. CASE Begin(w)
    <2>1. ~overlap /\ adrift = {}
      BY <1>1, Zenon DEF Begin, Arrive, Reach, TypeOK
    <2>2. \A v \in Webs : pc[v] = "idle"
      BY <1>1, <2>1, Zenon DEF Begin, Arrive, Reach
    <2> QED
      BY <2>1, <2>2, OwnAttempt, Zenon
  <1>2. CASE pc[w] # "idle" /\ overlap' = overlap
    <2>1. \A v \in Webs \ {w} : pc[v] = "idle"
      BY <1>2, Zenon DEF OneAttempt
    <2> QED
      BY <1>2, <2>1, OwnAttempt, Zenon
  <1> QED
    BY <1>1, <1>2, OwnAttempt, Zenon

(* An attempt that may open a session was not given an exit status to read. *)
LEMMA ReopenStep ==
    TypeOK /\ OneAttempt /\ NotReopening /\ [Next]_vars => NotReopening'
  <1> SUFFICES ASSUME TypeOK, OneAttempt, NotReopening, [Next]_vars PROVE NotReopening'
    BY Zenon
  <1>1. phase' = "none" => exitAnn' = NoCode
    <2>1. ASSUME Pod \/ \E s \in Sessions : Session(s) PROVE phase' = "none" => exitAnn' = NoCode
      BY <2>1, Zenon DEF Pod, PodStarts, PodLost, PodReplaced, Ended, CommandEnds, Session, TestExit,
         TestAlive, Launch, WritePid, Poll, Hangup, NotReopening
    <2>2. ASSUME NEW w \in Webs, Attempt(w) \/ Web(w) PROVE phase' = "none" => exitAnn' = NoCode
      <3>1. CASE PodReplaced("none") \/ PodReplaced("pending")
        BY <3>1, Zenon DEF PodReplaced
      <3>2. CASE Annotate(w)
        BY <3>2, Zenon DEF Annotate, NotReopening
      <3>3. CASE ~Annotate(w) /\ ~PodReplaced("none") /\ ~PodReplaced("pending")
        <4>1. UNCHANGED <<phase, exitAnn>>
          BY <2>2, <3>3, Zenon DEF Attempt, Begin, Arrive, Reach, Properties, Attach, Run, Create, PodRuns,
             ReplaceFailedPod, WaitFails, ExecFails, Recreate, Exec, StreamEnds, StreamSevered,
             Severed, Cache, Web, Cancel, Drain, BeginLeft, Crash
        <4> QED
          BY <4>1, Zenon DEF NotReopening
      <3> QED
        BY <3>1, <3>2, <3>3, Zenon
    <2> QED
      BY <2>1, <2>2, Zenon DEF Next, vars, NotReopening
  <1>2. ASSUME "api" \notin Faults, ~overlap', NEW v \in Webs \ dead', pc'[v] \in Opening
        PROVE  exitAnn' = NoCode
    <2>1. CASE UNCHANGED <<attemptVars, overlap>> /\ exitAnn' \in {NoCode, exitAnn}
      BY <1>2, <2>1, Zenon DEF NotReopening
    <2>2. ASSUME Pod \/ \E s \in Sessions : Session(s) PROVE exitAnn' = NoCode
      <3>1. exitAnn' \in {NoCode, exitAnn}
        BY <2>2, Zenon DEF Pod, PodStarts, PodLost, PodReplaced, CommandEnds, Session, TestExit,
           TestAlive, Launch, WritePid, Poll, Hangup
      <3> QED
        BY <2>1, <2>2, <3>1, PodLeavesAttempts, Zenon
    <2>3. ASSUME NEW w \in Webs, Attempt(w) \/ Web(w) PROVE exitAnn' = NoCode
      <3>1. ~overlap /\ v = w
        BY <1>2, <2>3, Alone, Zenon DEF Opening
      <3>2. pc \in [Webs -> AttemptPlaces]
        BY Zenon DEF TypeOK
      <3>3. CASE PodReplaced("none") \/ PodReplaced("pending")
        BY <3>3, Zenon DEF PodReplaced
      <3>4. CASE UNCHANGED exitAnn /\ pc[w] \in Opening /\ w \notin dead
        BY <1>2, <3>1, <3>4, Zenon DEF NotReopening
      <3>5. CASE Attach(w)
        <4>1. w \notin dead /\ pc'[w] # "cache" /\ pc'[w] # "done" /\ pc'[w] # "failed" /\ pc'[w] # "idle"
          BY <1>2, <3>1, <3>5, Zenon DEF Attach, Answer, Fail, Return, Opening
        <4>2. phase = "none" \/ exitAnn = NoCode
          BY <1>2, <3>2, <3>5, <4>1, Zenon DEF Attach, Answer, Fail, Return, Goto
        <4> QED
          BY <3>5, <4>2, Zenon DEF Attach, NotReopening
      <3>6. CASE Begin(w) \/ Properties(w) \/ StreamEnds(w) \/ StreamSevered(w) \/ Severed(w)
                 \/ Annotate(w) \/ Cache(w) \/ Crash(w)
        <4>1. pc'[w] \notin Opening
          BY <3>2, <3>6, Zenon DEF Begin, Arrive, Reach, Properties, StreamEnds, StreamSevered,
             Severed, Annotate, Cache, Crash, Answer, Fail, GiveUp, Return, Goto, Opening
        <4> QED
          BY <1>2, <3>1, <4>1, Zenon
      <3>7. CASE Run(w) \/ Create(w) \/ Recreate(w)
        BY <1>2, <3>1, <3>3, <3>4, <3>7, Zenon DEF Run, Create, Recreate, Fail, GiveUp, Return, Opening
      <3>8. CASE PodRuns(w) \/ ReplaceFailedPod(w) \/ WaitFails(w) \/ ExecFails(w)
        BY <1>2, <3>1, <3>3, <3>4, <3>8, Zenon DEF PodRuns, ReplaceFailedPod, WaitFails, ExecFails,
           Fail, GiveUp, Return, Opening
      <3>9. CASE (\E s \in Sessions : Exec(w, s)) \/ Cancel(w) \/ Drain(w)
        BY <1>2, <3>1, <3>4, <3>9, Zenon DEF Exec, Cancel, Drain, Opening
      <3>10. ~BeginLeft(w)
        BY <1>2, Zenon DEF BeginLeft
      <3> QED
        BY <2>3, <3>5, <3>6, <3>7, <3>8, <3>9, <3>10, Zenon DEF Attempt, Web
    <2> QED
      BY <2>1, <2>2, <2>3, Zenon DEF Next, vars
  <1> QED
    BY <1>1, <1>2, Zenon DEF NotReopening

(* An operation of a web leaves what a session reads alone unless it       *)
(* replaces the pod, opens a session or kills.                             *)
LEMMA ExitAttemptStep ==
    ASSUME TypeOK, LaunchedFirst, OneAttempt, OneExit, Supervised, ~overlap',
           NEW w \in Webs, Attempt(w) \/ Web(w)
    PROVE  OneExit'
  <1>0. ~overlap /\ (\A v \in Webs \ {w} : pc'[v] = "idle") /\ pc[w] \notin {"properties", "cache"}
    BY Alone, Zenon DEF OneAttempt
  <1>1. ~overlap /\ (\A v \in Webs : v # w => pc'[v] = "idle") /\ pc[w] \notin {"properties", "cache"}
    BY <1>0, Zenon
  <1>2. /\ pc \in [Webs -> AttemptPlaces] /\ got \in [Webs -> Statuses \cup {NoCode}]
        /\ session \in [Webs -> Sessions \cup {NoSession}]
        /\ place \in [Sessions -> SessionPlaces]
        /\ answers \subseteq Statuses \cup {NoCode} /\ launches \in Nat
    <2>1. launches \in 0..MaxLaunches
      BY Zenon DEF TypeOK
    <2>2. launches \in Nat
      BY <2>1, BoundsAssumption
    <2> QED
      BY <2>2, Zenon DEF TypeOK
  <1>3. CASE /\ Run(w) \/ Create(w) \/ ReplaceFailedPod(w) \/ Recreate(w)
             /\ PodReplaced("none") \/ PodReplaced("pending")
    <2>1. launches' = 0 /\ answers' = {} /\ exitAnn' = NoCode
      BY <1>3, Zenon DEF PodReplaced
    <2>2. pc'[w] # "annotate"
      BY <1>2, <1>3, Zenon DEF Run, Create, ReplaceFailedPod, Recreate, Goto, Return, Fail, GiveUp
    <2>3. launches' # 1
      BY <2>1
    <2>4. ASSUME NEW v \in Webs PROVE pc'[v] # "annotate"
      BY <1>1, <2>2, Zenon
    <2> QED
      BY <2>1, <2>3, <2>4, Zenon DEF OneExit
  <1>4. CASE /\ UNCHANGED <<phase, exitFile, pidFile, launches, sessionVars, answers, exitAnn>>
             /\ copies' \subseteq copies
             /\ pc'[w] \notin {"annotate", "stream"}
    BY <1>1, <1>4, Zenon DEF OneExit
  <1>5. CASE /\ UNCHANGED <<podVars, sessionVars, answers>>
             /\ pc'[w] = pc[w] /\ got'[w] = got[w] /\ session'[w] = session[w]
    <2>1. \A v \in Webs : pc'[v] \in {"annotate", "stream"} =>
             v = w /\ pc[v] = pc'[v] /\ got'[v] = got[v] /\ session'[v] = session[v]
      BY <1>1, <1>5, Zenon
    <2>2. ASSUME launches = 1, NEW v \in Webs, pc'[v] = "stream" PROVE ReadsExit(session[v])'
      <3>1. ReadsExit(session[v])
        BY <1>1, <2>1, <2>2, Zenon DEF OneExit
      <3> QED
        BY <1>5, <2>1, <2>2, <3>1, Zenon DEF ReadsExit
    <2> QED
      BY <1>1, <1>5, <2>1, <2>2, Zenon DEF OneExit
  <1>6. CASE Attach(w)
    <2>1. CASE Answer(w, exitAnn) /\ phase # "none" /\ exitAnn # NoCode
      <3>1. /\ UNCHANGED <<podVars, sessionVars>> /\ pc'[w] \notin {"annotate", "stream"}
            /\ answers' \subseteq answers \cup {exitAnn}
        BY <1>2, <1>6, <2>1, Zenon DEF Attach, Answer, Return, Goto
      <3>2. \A v \in Webs : pc'[v] \notin {"annotate", "stream"}
        BY <1>1, <3>1, Zenon
      <3>3. UNCHANGED <<phase, exitAnn, exitFile, copies, launches>>
        BY <3>1, Zenon
      <3>4. launches # 0
        BY <1>1, <2>1, Zenon DEF OneExit
      <3>5. launches = 1 => /\ answers \subseteq {exitFile} \ {NoCode}
                            /\ exitAnn = exitFile
                            /\ exitFile # NoCode => copies = {}
        BY <1>1, <2>1, Zenon DEF OneExit
      <3>6. launches = 1 => answers' \subseteq {exitFile} \ {NoCode}
        BY <2>1, <3>1, <3>5, Zenon
      <3> QED
        BY <3>2, <3>3, <3>4, <3>5, <3>6, Zenon DEF OneExit
    <2>2. CASE Goto(w, "run") /\ UNCHANGED <<podVars, sessionVars, answers>>
      BY <1>2, <1>4, <2>2, Zenon DEF Goto
    <2> QED
      BY <1>6, <2>1, <2>2, Zenon DEF Attach
  <1>7. ASSUME NEW s \in Sessions, Exec(w, s) PROVE OneExit'
    <2>1. /\ UNCHANGED <<podVars, answers>> /\ pc'[w] = "stream"
          /\ session'[w] = s /\ place'[s] = "testExit"
      BY <1>2, <1>7, Zenon DEF Exec, Goto, Step
    <2> QED
      BY <1>1, <2>1, Zenon DEF OneExit, ReadsExit
  <1>8. CASE StreamEnds(w)
    <2>1. /\ session[w] \in Sessions /\ place[session[w]] = "exited" /\ pc[w] = "stream"
          /\ launches > 0
      BY <1>2, <1>8, Zenon DEF StreamEnds, OneAttempt, LaunchedFirst
    <2>2. /\ UNCHANGED <<podVars, sessionVars, answers>> /\ pc'[w] = "annotate"
          /\ got'[w] = exitOf[session[w]]
      BY <1>2, <1>8, Zenon DEF StreamEnds, Goto
    <2>3. launches = 1 => exitFile # NoCode /\ got'[w] = exitFile
      BY <1>1, <2>1, <2>2, Zenon DEF OneExit, ReadsExit
    <2> QED
      BY <1>1, <2>1, <2>2, <2>3, Zenon DEF OneExit
  <1>9. CASE Annotate(w)
    <2>1. /\ UNCHANGED <<phase, exitFile, pidFile, copies, launches, sessionVars>>
          /\ exitAnn' \in {exitAnn, got[w]} /\ pc'[w] \notin {"annotate", "stream"}
          /\ answers' \subseteq answers \cup {got[w]} /\ pc[w] = "annotate"
      BY <1>2, <1>9, Zenon DEF Annotate, Answer, Return, Goto
    <2>2. \A v \in Webs : pc'[v] \notin {"annotate", "stream"}
      BY <1>1, <2>1, Zenon
    <2>3. phase # "none" => launches # 0
      <3>1. phase # "none" => launches > 0
        BY <1>1, <2>1, Zenon DEF OneExit
      <3>2. launches > 0 => launches # 0
        BY <1>2
      <3> QED
        BY <3>1, <3>2, Zenon
    <2>4. launches = 1 => /\ answers \subseteq {exitFile} \ {NoCode}
                          /\ exitAnn \in {NoCode, exitFile}
                          /\ exitFile # NoCode /\ got[w] = exitFile /\ copies = {}
      BY <1>1, <2>1, Zenon DEF OneExit
    <2>5. launches = 1 => /\ answers' \subseteq {exitFile} \ {NoCode}
                          /\ exitAnn' \in {NoCode, exitFile}
      BY <2>1, <2>4, Zenon
    <2> QED
      BY <2>1, <2>2, <2>3, <2>4, <2>5, Zenon DEF OneExit
  <1>10. CASE Begin(w) \/ PodRuns(w) \/ WaitFails(w) \/ ExecFails(w) \/ StreamSevered(w)
              \/ Severed(w) \/ Crash(w)
    BY <1>2, <1>4, <1>10, Zenon DEF Begin, Arrive, Reach, PodRuns, WaitFails, ExecFails,
       StreamSevered, Severed, Crash, Fail, GiveUp, Return, Goto
  <1>11. CASE Run(w) \/ Create(w) \/ ReplaceFailedPod(w) \/ Recreate(w)
    BY <1>2, <1>3, <1>4, <1>11, Zenon DEF Run, Create, ReplaceFailedPod, Recreate, Fail, GiveUp, Return, Goto
  <1>12. CASE Cancel(w) \/ Drain(w)
    BY <1>5, <1>12, Zenon DEF Cancel, Drain
  <1>13. CASE BeginLeft(w)
    BY <1>13, Zenon DEF BeginLeft, OneExit
  <1> QED
    BY <1>1, <1>6, <1>7, <1>8, <1>9, <1>10, <1>11, <1>12, <1>13, Zenon DEF Attempt, Web,
       Properties, Cache

(* What the command's one exit is known as stays the same: one step per    *)
(* operation of the pod and of a session.                                  *)
LEMMA ExitStep ==
    /\ TypeOK /\ ProcessesNeedPod /\ LaunchedFirst /\ OneAttempt /\ OneExit
    /\ [Next]_vars
    => OneExit'
  <1> SUFFICES ASSUME TypeOK, ProcessesNeedPod, LaunchedFirst, OneAttempt, OneExit, [Next]_vars,
                      Supervised, ~overlap'
               PROVE  OneExit'
    BY Zenon DEF OneExit
  <1>0. /\ launches \in Nat /\ copies \subseteq 1..launches
        /\ place \in [Sessions -> SessionPlaces]
        /\ copyOf \in [Sessions -> 0..MaxLaunches]
        /\ exitOf \in [Sessions -> Statuses \cup {NoCode}]
        /\ session \in [Webs -> Sessions \cup {NoSession}]
        /\ \A w \in Webs : pc[w] = "stream" => session[w] \in Sessions
    <2>1. launches \in 0..MaxLaunches /\ copies \subseteq 1..launches
      BY Zenon DEF TypeOK
    <2>2. launches \in Nat
      BY <2>1, BoundsAssumption
    <2>3. /\ place \in [Sessions -> SessionPlaces]
          /\ copyOf \in [Sessions -> 0..MaxLaunches]
          /\ exitOf \in [Sessions -> Statuses \cup {NoCode}]
          /\ session \in [Webs -> Sessions \cup {NoSession}]
      BY Zenon DEF TypeOK
    <2>4. \A w \in Webs : pc[w] = "stream" => session[w] \in Sessions
      BY <2>3, Zenon DEF OneAttempt
    <2> QED
      BY <2>1, <2>2, <2>3, <2>4, Zenon
  <1>1. ASSUME Pod \/ \E s \in Sessions : Session(s)
        PROVE  ~overlap /\ UNCHANGED <<pc, session, got, overlap>>
    BY <1>1, PodLeavesAttempts
  <1>2. ASSUME Pod PROVE OneExit'
    <2>1. CASE PodStarts
      <3>1. /\ phase # "none" /\ UNCHANGED <<exitAnn, exitFile, pidFile, copies, launches>>
            /\ UNCHANGED <<sessionVars, answers>>
        BY <2>1, Zenon DEF PodStarts
      <3>2. ASSUME launches = 1, NEW w \in Webs, pc[w] = "stream" PROVE ReadsExit(session[w])'
        <4>1. ReadsExit(session[w]) /\ session'[w] = session[w]
          BY <1>1, <1>2, <3>2, Zenon DEF OneExit
        <4> QED
          BY <3>1, <4>1, Zenon DEF ReadsExit
      <3> QED
        BY <1>1, <1>2, <3>1, <3>2, Zenon DEF OneExit
    <2>2. ASSUME NEW p \in Ended \cup {"none"}, PodLost(p) PROVE OneExit'
      <3>1. CASE p = "none"
        <4>1. phase' = "none" /\ launches' = 0
          BY <2>2, <3>1, Zenon DEF PodLost, PodReplaced
        <4>2. launches' # 1
          BY <4>1
        <4> QED
          BY <4>1, <4>2, Zenon DEF OneExit
      <3>2. CASE p # "none"
        <4>1. /\ phase # "none" /\ copies' = {} /\ \A s \in Sessions : place'[s] = "closed"
              /\ UNCHANGED <<exitAnn, exitFile, pidFile, launches, answers>>
          BY <2>2, <3>2, Zenon DEF PodLost, ProcessesGone
        <4> QED
          BY <1>0, <1>1, <1>2, <4>1, Zenon DEF OneExit, ReadsExit
      <3> QED
        BY <3>1, <3>2, Zenon
    <2>3. ASSUME NEW n \in copies, NEW code \in Codes, CommandEnds(n, code) PROVE OneExit'
      <3>1. /\ exitFile' = code /\ copies' = copies \ {n}
            /\ UNCHANGED <<phase, exitAnn, launches, place, copyOf, exitOf, pidFile, answers>>
        BY <2>3, Zenon DEF CommandEnds
      <3>2. code # NoCode
        BY CodesAssumption DEF NoCode
      <3>3. launches = 1 => exitFile = NoCode
        BY <1>1, <1>2, <2>3, Zenon DEF OneExit
      <3>4. launches = 1 => copies' = {}
        BY <1>0, <2>3, <3>1
      <3>5. ASSUME launches = 1, NEW w \in Webs, pc[w] = "stream" PROVE ReadsExit(session[w])'
        BY <1>1, <1>2, <3>1, <3>2, <3>3, <3>5, Zenon DEF OneExit, ReadsExit
      <3> QED
        BY <1>1, <1>2, <3>1, <3>2, <3>3, <3>4, <3>5, Zenon DEF OneExit
    <2> QED
      BY <1>2, <2>1, <2>2, <2>3, Zenon DEF Pod
  <1>3. ASSUME NEW s \in Sessions, Session(s) PROVE OneExit'
    <2>0. ~overlap /\ UNCHANGED <<pc, session, got, overlap>>
      BY <1>1, <1>3, Zenon
    <2>1. \A t \in Sessions \ {s} : /\ place'[t] = place[t] /\ copyOf'[t] = copyOf[t]
                                    /\ exitOf'[t] = exitOf[t]
      BY <1>0, <1>3, Zenon DEF Session, TestExit, TestAlive, Launch, WritePid, Poll, Hangup, Step
    <2>2. CASE TestExit(s)
      <3>1. /\ UNCHANGED <<podVars, answers>> /\ place'[s] \in {"testAlive", "poll"}
            /\ place'[s] = "poll" => exitFile # NoCode
        BY <1>0, <2>2, Zenon DEF TestExit, Step
      <3>2. ASSUME launches = 1, NEW w \in Webs, pc[w] = "stream" PROVE ReadsExit(session[w])'
        BY <1>0, <2>0, <2>1, <3>1, <3>2, Zenon DEF OneExit, ReadsExit
      <3> QED
        BY <2>0, <3>1, <3>2, Zenon DEF OneExit
    <2>3. CASE TestAlive(s)
      <3>1. /\ UNCHANGED <<podVars, answers>> /\ place'[s] \in {"launch", "poll"}
            /\ place'[s] = "poll" => pidFile \in copies
        BY <1>0, <2>3, Zenon DEF TestAlive, Step
      <3>2. ASSUME launches = 1, NEW w \in Webs, pc[w] = "stream" PROVE ReadsExit(session[w])'
        BY <1>0, <2>0, <2>1, <3>1, <3>2, Zenon DEF OneExit, ReadsExit
      <3> QED
        BY <2>0, <3>1, <3>2, Zenon DEF OneExit
    <2>4. CASE Launch(s)
      <3>1. /\ UNCHANGED <<phase, exitAnn, exitFile, answers>> /\ launches' = launches + 1
            /\ copyOf'[s] \in copies' /\ place'[s] = "writePid" /\ place[s] = "launch"
        BY <1>0, <2>4, Zenon DEF Launch, Step
      <3>0. launches \in Nat /\ launches' = launches + 1
        BY <1>0, <3>1, Zenon
      <3>2. launches' > 0 /\ (launches' = 1 => launches = 0) /\ ~(launches > 0 /\ launches = 0)
        BY <3>0
      <3>3. phase # "none"
        BY <3>1, Zenon DEF ProcessesNeedPod
      <3>4. launches = 0 => /\ answers = {} /\ exitAnn = NoCode /\ exitFile = NoCode
                            /\ \A w \in Webs : pc[w] # "annotate"
        BY <2>0, <3>2, <3>3, Zenon DEF OneExit, LaunchedFirst
      <3>5. launches = 0 => \A t \in Sessions : place[t] \notin {"writePid", "poll", "exited"}
        BY <3>2, Zenon DEF LaunchedFirst
      <3>6. ASSUME launches = 0, NEW w \in Webs, pc[w] = "stream" PROVE ReadsExit(session[w])'
        BY <1>0, <2>0, <2>1, <3>1, <3>5, <3>6, Zenon DEF ReadsExit
      <3>7. launches' # 0
        BY <3>0
      <3> QED
        BY <2>0, <3>1, <3>2, <3>4, <3>6, <3>7, Zenon DEF OneExit
    <2>5. CASE WritePid(s)
      <3>1. /\ UNCHANGED <<phase, exitAnn, exitFile, copies, launches, answers>>
            /\ pidFile' = copyOf[s] /\ place'[s] = "poll" /\ place[s] = "writePid"
            /\ copyOf' = copyOf
        BY <1>0, <2>5, Zenon DEF WritePid, Step
      <3>2. launches = 1 => copyOf[s] = 1 /\ copies \subseteq {1}
        <4>1. copyOf[s] \in 1..launches
          BY <3>1, Zenon DEF LaunchedFirst
        <4> QED
          BY <1>0, <4>1
      <3>3. launches = 1 /\ pidFile \in copies => pidFile' \in copies'
        BY <3>1, <3>2, Zenon
      <3>4. ASSUME launches = 1, NEW w \in Webs, pc[w] = "stream" PROVE ReadsExit(session[w])'
        <4>1. CASE session[w] = s
          BY <2>0, <3>1, <3>4, <4>1, Zenon DEF OneExit, ReadsExit
        <4>2. CASE session[w] # s
          BY <1>0, <2>0, <2>1, <3>1, <3>3, <3>4, <4>2, Zenon DEF OneExit, ReadsExit
        <4> QED
          BY <4>1, <4>2, Zenon
      <3> QED
        BY <2>0, <3>1, <3>4, Zenon DEF OneExit
    <2>6. CASE Poll(s)
      <3>1. /\ UNCHANGED <<podVars, answers, copyOf>> /\ place'[s] = "exited" /\ place[s] = "poll"
            /\ exitFile # NoCode => exitOf'[s] = exitFile
            /\ exitFile # NoCode \/ pidFile \notin copies
        BY <1>0, <2>6, Zenon DEF Poll, Step
      <3>2. ASSUME launches = 1, NEW w \in Webs, pc[w] = "stream" PROVE ReadsExit(session[w])'
        <4>1. CASE session[w] = s
          BY <2>0, <3>1, <3>2, <4>1, Zenon DEF OneExit, ReadsExit
        <4>2. CASE session[w] # s
          BY <1>0, <2>0, <2>1, <3>1, <3>2, <4>2, Zenon DEF OneExit, ReadsExit
        <4> QED
          BY <4>1, <4>2, Zenon
      <3> QED
        BY <2>0, <3>1, <3>2, Zenon DEF OneExit
    <2>7. CASE Hangup(s)
      <3>1. UNCHANGED <<podVars, answers, copyOf>> /\ \A w \in Webs : session[w] # s
        BY <2>7, Zenon DEF Hangup
      <3>2. ASSUME launches = 1, NEW w \in Webs, pc[w] = "stream" PROVE ReadsExit(session[w])'
        BY <1>0, <2>0, <2>1, <3>1, <3>2, Zenon DEF OneExit, ReadsExit
      <3> QED
        BY <2>0, <3>1, <3>2, Zenon DEF OneExit
    <2> QED
      BY <1>3, <2>2, <2>3, <2>4, <2>5, <2>6, <2>7, Zenon DEF Session
  <1>4. ASSUME NEW w \in Webs, Attempt(w) \/ Web(w) PROVE OneExit'
    BY <1>4, ExitAttemptStep, Zenon
  <1>5. CASE UNCHANGED vars
    BY <1>5, Zenon DEF vars, OneExit, ReadsExit
  <1> QED
    BY <1>2, <1>3, <1>4, <1>5, Zenon DEF Next

(* The invariant holds at first ...                                        *)
LEMMA StepInvStarts == Init => StepInv
  <1> SUFFICES ASSUME Init PROVE StepInv
    BY Zenon
  <1>1. TypeOK
    <2>1. launches \in 0..MaxLaunches /\ pidFile \in 0..MaxLaunches /\ disruptions \in 0..MaxDisruptions
      BY BoundsAssumption DEF Init
    <2>2. PodTypes /\ BookTypes
      BY <2>1, Zenon DEF Init, PodTypes, BookTypes, Phases
    <2>3. SessionTypes
      BY BoundsAssumption DEF Init, SessionTypes, SessionPlaces
    <2>4. AttemptTypes
      BY DEF Init, AttemptTypes, AttemptPlaces, MaxExecRetries
    <2> QED
      BY <2>2, <2>3, <2>4, TypeParts, Zenon
  <1>2. ProcessesNeedPod /\ LaunchedFirst /\ PidFileCovers
    BY Zenon DEF Init, ProcessesNeedPod, LaunchedFirst, PidFileCovers, Launching
  <1>3. OneAttempt /\ OneExit /\ NotReopening
    BY Zenon DEF Init, OneAttempt, OneExit, NotReopening, Opening
  <1> QED
    BY <1>1, <1>2, <1>3, Zenon DEF StepInv

(* ... and every step keeps it.                                            *)
LEMMA StepInvKept == StepInv /\ [Next]_vars => StepInv'
  BY TypeStep, ProcessesStep, LaunchedStep, CoverStep, AttemptStep, ExitStep, ReopenStep, Zenon
     DEF StepInv

(* Every operation of the pod, of a session and of a web keeps StepInv:    *)
(* for any kind of step, any webs, sessions, exit codes and faults.        *)
THEOREM StepInvariant == Spec => []StepInv
  BY StepInvStarts, StepInvKept, PTL DEF Spec

(* However many webs open sessions into a pod, the supervisor runs one     *)
(* copy of the command, unless a launch was not covered by the pid file.   *)
THEOREM OneCopyRuns == Spec => []OneCopy
  <1>1. StepInv => OneCopy
    <2> SUFFICES ASSUME PidFileCovers, Supervised, ~raced, NEW m \in copies, NEW n \in copies
                 PROVE  m = n
      BY Zenon DEF StepInv, OneCopy
    <2>1. CASE \E s \in Sessions : place[s] \in Launching
      BY <2>1 DEF PidFileCovers, Launching
    <2>2. CASE \A s \in Sessions : place[s] \notin Launching
      BY <2>2, Zenon DEF PidFileCovers
    <2> QED
      BY <2>1, <2>2, Zenon
  <1> QED
    BY <1>1, StepInvariant, PTL

(* A supervised step that was launched once is given the exit status its   *)
(* command recorded, whatever web reports it and by whatever way.          *)
THEOREM AnswersHold == Spec => []AnswersAreTheExit
  <1>1. StepInv => AnswersAreTheExit
    BY Zenon DEF StepInv, OneExit, AnswersAreTheExit
  <1> QED
    BY <1>1, StepInvariant, PTL

(* Without errors of the Kubernetes API a pod whose exit status is         *)
(* annotated is not executed in again.                                     *)
THEOREM NotRerun == "api" \notin Faults => (Spec => CompletedNotRerun)
  <1> SUFFICES ASSUME "api" \notin Faults PROVE Spec => CompletedNotRerun
    BY Zenon
  <1> DEFINE Reopens == \A w \in Webs : Opens(w) => exitAnn = NoCode \/ overlap
  <1>1. StepInv /\ [Next]_vars => [Reopens]_vars
    <2> SUFFICES ASSUME StepInv, [Next]_vars, NEW w \in Webs, Opens(w), ~overlap
                 PROVE  exitAnn = NoCode
      BY Zenon
    <2>1. CASE UNCHANGED session
      BY <2>1, Zenon DEF Opens
    <2>2. ASSUME NEW v \in Webs, Attempt(v) \/ Web(v) PROVE exitAnn = NoCode
      <3>1. v = w
        BY <2>2, OwnAttempt, Zenon DEF StepInv, Opens
      <3>2. session \in [Webs -> Sessions \cup {NoSession}]
        BY Zenon DEF StepInv, TypeOK
      <3>3. \E s \in Sessions : Exec(w, s)
        BY <2>2, <3>1, <3>2, Zenon DEF Opens, Attempt, Begin, Arrive, Reach, Properties, Attach, Run, Create, PodRuns,
           ReplaceFailedPod, WaitFails, ExecFails, Recreate, StreamEnds, StreamSevered, Severed,
           Annotate, Cache, Web, Cancel, Drain, BeginLeft, Crash, Answer, Fail, GiveUp, Return, Forget
      <3>4. pc[w] \in Opening /\ w \notin dead
        BY <3>3, Zenon DEF Exec, Opening
      <3> QED
        BY <3>4, Zenon DEF StepInv, NotReopening
    <2>3. CASE Pod \/ \E s \in Sessions : Session(s)
      BY <2>1, <2>3, PodLeavesAttempts, Zenon DEF StepInv
    <2> QED
      BY <2>1, <2>2, <2>3, Zenon DEF Next, vars
  <1> QED
    BY <1>1, StepInvariant, PTL DEF Spec, CompletedNotRerun

-----------------------------------------------------------------------------
(* A step in its build                                                     *)

(* An operation of an attempt leaves the attempt under way, as adrift as it *)
(* was, or ends it, and an attempt that was adrift ends in oblivion.        *)
LEMMA AttemptGoesOn ==
    ASSUME TypeOK, NEW w \in Webs, pc[w] # "idle", Attempt(w)
    PROVE  /\ Active(w)
           /\ \/ Active(w)' /\ adrift' = adrift
              \/ \E to \in AttemptPlaces : Return(w, to)
  <1>0. pc \in [Webs -> AttemptPlaces]
    BY Zenon DEF TypeOK
  <1>1. /\ "idle" \in AttemptPlaces /\ "done" \in AttemptPlaces
        /\ "failed" \in AttemptPlaces
    BY Zenon DEF AttemptPlaces
  <1>2. CASE Properties(w)
    BY <1>0, <1>1, <1>2, Zenon DEF Properties, Answer, Fail, Goto, Active
  <1>3. CASE Attach(w)
    BY <1>0, <1>1, <1>3, Zenon DEF Attach, Answer, Fail, Goto, Active
  <1>4. CASE Run(w)
    BY <1>0, <1>4, Zenon DEF Run, Goto, Active
  <1>5. CASE Create(w)
    BY <1>0, <1>1, <1>5, Zenon DEF Create, Fail, GiveUp, Goto, Active
  <1>6. CASE PodRuns(w)
    BY <1>0, <1>6, Zenon DEF PodRuns, Goto, Active
  <1>7. CASE ReplaceFailedPod(w)
    BY <1>0, <1>7, Zenon DEF ReplaceFailedPod, Active
  <1>8. CASE WaitFails(w)
    BY <1>0, <1>1, <1>8, Zenon DEF WaitFails, Fail, GiveUp, Goto, Active
  <1>9. CASE ExecFails(w)
    BY <1>0, <1>9, Zenon DEF ExecFails, Goto, Active
  <1>10. CASE Recreate(w)
    BY <1>0, <1>10, Zenon DEF Recreate, Goto, Active
  <1>11. CASE \E s \in Sessions : Exec(w, s)
    BY <1>0, <1>11, Zenon DEF Exec, Goto, Active
  <1>12. CASE StreamEnds(w)
    BY <1>0, <1>12, Zenon DEF StreamEnds, Goto, Active
  <1>13. CASE StreamSevered(w)
    BY <1>0, <1>13, Zenon DEF StreamSevered, Goto, Active
  <1>14. CASE Severed(w)
    BY <1>0, <1>1, <1>14, Zenon DEF Severed, Fail, GiveUp, Active
  <1>15. CASE Annotate(w)
    BY <1>0, <1>1, <1>15, Zenon DEF Annotate, Answer, Goto, Active
  <1>16. CASE Cache(w)
    BY <1>0, <1>1, <1>16, Zenon DEF Cache, Answer, Active
  <1> QED
    BY <1>2, <1>3, <1>4, <1>5, <1>6, <1>7, <1>8, <1>9, <1>10, <1>11, <1>12, <1>13,
       <1>14, <1>15, <1>16, Zenon DEF Attempt, Begin, Arrive, Reach

(* So it keeps who is adrift, apart from the attempt itself.               *)
LEMMA AttemptDrifts ==
    ASSUME TypeOK, NEW w \in Webs, pc[w] # "idle", Attempt(w)
    PROVE  /\ Active(w)
           /\ \A v \in Webs : v # w => (v \in adrift' <=> v \in adrift)
           /\ w \in adrift' => Active(w)'
           /\ w \in adrift /\ pc'[w] # "idle" => w \in adrift'
           /\ adrift' \subseteq adrift
  <1>0. pc \in [Webs -> AttemptPlaces]
    BY Zenon DEF TypeOK
  <1>1. CASE Active(w)' /\ adrift' = adrift
    BY <1>1, AttemptGoesOn, Zenon
  <1>2. ASSUME NEW to \in AttemptPlaces, Return(w, to)
        PROVE  adrift' = adrift \ {w} /\ (w \in adrift => pc'[w] = "idle")
    BY <1>0, <1>2, Zenon DEF Return, Forget, Goto
  <1> QED
    BY <1>1, <1>2, AttemptGoesOn, Zenon

(* The pod, the sessions and a cancellation leave the attempts alone.      *)
LEMMA ElsewhereFrame ==
    ASSUME TypeOK, Elsewhere
    PROVE  UNCHANGED <<pc, adrift, overlap, heard, buildVars>> /\ Next
  BY PodLeavesAttempts, Zenon DEF Elsewhere, Cancel, Next, Web, attemptVars

(* A status the step is given is the command's, if the command was started *)
(* once in the pod; and if it was not started there, nobody is about to.   *)
LEMMA AnswerSettled ==
    ASSUME StepInv, Supervised, ~overlap, NEW code \in answers
    PROVE  Settled(code)
  BY Zenon DEF StepInv, OneExit, ProcessesNeedPod, Settled

(* What is settled stays settled: a command that ended once does not end   *)
(* again, and another start of it is a second one.                         *)
LEMMA SettledStays ==
    ASSUME StepInv, Supervised, ~overlap, NEW code, Settled(code), Elsewhere
    PROVE  Settled(code)'
  <1>0. launches \in Nat /\ copies \subseteq 1..launches
    BY DEF StepInv, TypeOK
  <1>1. CASE UNCHANGED <<launches, exitFile, place>>
    BY <1>1, Zenon DEF Settled
  <1>2. ASSUME NEW p \in Ended \cup {"none"}, PodLost(p) PROVE Settled(code)'
    <2>1. \A s \in Sessions : place'[s] = "closed"
      BY <1>2, Zenon DEF PodLost, PodReplaced, ProcessesGone
    <2>2. launches' = 0 \/ UNCHANGED <<launches, exitFile>>
      BY <1>2, Zenon DEF PodLost, PodReplaced
    <2>3. 0 # 1
      OBVIOUS
    <2> QED
      BY <2>1, <2>2, <2>3, Zenon DEF Settled
  <1>3. ASSUME NEW n \in copies, NEW c \in Codes, CommandEnds(n, c) PROVE Settled(code)'
    <2>1. launches # 0
      BY <1>0, <1>3
    <2>2. launches # 1
      BY <1>3, Zenon DEF StepInv, OneExit, Settled
    <2> QED
      BY <1>3, <2>1, <2>2, Zenon DEF CommandEnds, Settled
  <1>4. ASSUME NEW s \in Sessions, Session(s) PROVE Settled(code)'
    <2>1. place[s] # "closed"
      BY <1>4, Zenon DEF Session, TestExit, TestAlive, Launch, WritePid, Poll, Hangup
    <2>2. launches # 0
      BY <2>1, Zenon DEF Settled
    <2>3. CASE Launch(s)
      <3>1. launches' = launches + 1
        BY <2>3, Zenon DEF Launch
      <3>2. launches' # 0 /\ launches' # 1
        BY <1>0, <2>2, <3>1
      <3> QED
        BY <3>2, Zenon DEF Settled
    <2>4. CASE ~Launch(s)
      <3>1. UNCHANGED <<launches, exitFile>>
        BY <1>4, <2>4, Zenon DEF Session, TestExit, TestAlive, WritePid, Poll, Hangup, podVars
      <3> QED
        BY <2>2, <3>1, Zenon DEF Settled
    <2> QED
      BY <2>3, <2>4
  <1>5. CASE PodStarts \/ \E w \in Webs : Cancel(w)
    BY <1>1, <1>5, Zenon DEF PodStarts, Cancel, podVars, sessionVars
  <1> QED
    BY <1>2, <1>3, <1>4, <1>5, Zenon DEF Elsewhere, Pod

(* The tracking lock does what Begin asks for: who begins an attempt drives *)
(* the build, and who else has one is adrift.                               *)
LEMMA EnterBegins ==
    ASSUME Together, NEW w \in Webs, Enter(w)
    PROVE  Begin(w)
  <1>1. w \in drivers
    BY Zenon DEF Enter, Together, TypeInBuild
  <1>2. \A v \in Webs : pc[v] # "idle" => v \in adrift
    BY <1>1, Zenon DEF Together, AttemptsDriven, Enter, Arrive, Reach
  <1> QED
    BY <1>2, Zenon DEF Enter, Begin

(* So a step of the step in its build is one of StepExecution.             *)
LEMMA InBuildStep ==
    ASSUME Together, [NextInBuild]_allVars, ~unlocked'
    PROVE  [Next]_vars
  <1>1. CASE Elsewhere
    BY <1>1, ElsewhereFrame, Zenon DEF Together, StepInv
  <1>2. CASE Track
    BY <1>2, Zenon DEF Track, stepVars
  <1>3. CASE LoseLock
    BY <1>3, Zenon DEF LoseLock, stepVars
  <1>4. ASSUME NEW w \in Webs, Enter(w) PROVE Next
    BY <1>4, EnterBegins, Zenon DEF Next, Attempt
  <1>5. ASSUME NEW w \in Webs, Proceed(w) \/ EnterLeft(w) PROVE Next
    BY <1>5, Zenon DEF Proceed, EnterLeft, Next, Web
  <1>6. ASSUME NEW w \in Webs, RunReturns(w) PROVE [Next]_vars
    BY <1>6, Zenon DEF RunReturns, Next, Web
  <1>7. ASSUME NEW w \in Webs, Exit(w) PROVE [Next]_vars
    BY <1>7, Zenon DEF Exit, Next, Web
  <1>8. ASSUME NEW w \in Webs, ExecutePlan(w) \/ PlanEnds(w) \/ Stop(w) \/ Finish(w)
        PROVE  UNCHANGED vars
    BY <1>8, Zenon DEF ExecutePlan, PlanEnds, Stop, Finish, stepVars
  <1>9. CASE UNCHANGED allVars
    BY <1>9, Zenon DEF allVars, stepVars
  <1> QED
    BY <1>1, <1>2, <1>3, <1>4, <1>5, <1>6, <1>7, <1>8, <1>9, Zenon DEF NextInBuild

(* The variables of the composition keep their types.                      *)
LEMMA InBuildTyped ==
    ASSUME Together, TypeOK', [NextInBuild]_allVars, ~unlocked'
    PROVE  TypeInBuild'
  <1>0. TypeInBuild
    BY Zenon DEF Together
  <1>1. CASE UNCHANGED <<drivers, running, report, heard>> /\ left' \subseteq left
    BY <1>0, <1>1, Zenon DEF TypeInBuild
  <1>2. CASE Elsewhere \/ LoseLock \/ \E w \in Webs : Enter(w) \/ EnterLeft(w) \/ Stop(w) \/ Finish(w)
    BY <1>1, <1>2, Zenon DEF Elsewhere, LoseLock, Enter, EnterLeft, Stop, Finish, buildVars, stepVars,
       Build!Unlock, Build!Stop, Build!Conclude
  <1>3. CASE Track
    <2>1. CASE Build!RequestAbort \/ Build!Start \/ Build!Refuse \/ \E w \in Webs : Build!Leave(w)
      BY <1>1, <1>3, <2>1, Zenon DEF Track, stepVars, Build!RequestAbort, Build!Start,
         Build!Refuse, Build!Leave
    <2>2. ASSUME NEW w \in Webs, Build!Take(w) PROVE TypeInBuild'
      BY <1>0, <1>3, <2>2, Zenon DEF Track, stepVars, Build!Take, TypeInBuild
    <2>3. ASSUME NEW w \in Webs, Build!Forget(w) PROVE TypeInBuild'
      BY <1>0, <1>3, <2>3, Zenon DEF Track, stepVars, Build!Forget, TypeInBuild
    <2> QED
      BY <1>3, <2>1, <2>2, <2>3, Zenon DEF Track
  <1>4. ASSUME NEW w \in Webs, Proceed(w) PROVE TypeInBuild'
    <2>1. heard' \in [Webs -> Statuses \cup {NoCode}]
      BY <1>0, <1>4, Zenon DEF Proceed, TypeInBuild, TypeOK
    <2> QED
      BY <1>0, <1>4, <2>1, Zenon DEF Proceed, buildVars, TypeInBuild
  <1>5. ASSUME NEW w \in Webs, ExecutePlan(w) PROVE TypeInBuild'
    BY <1>0, <1>5, Zenon DEF ExecutePlan, stepVars, Build!Execute, TypeInBuild
  <1>6. ASSUME NEW w \in Webs, PlanEnds(w) PROVE TypeInBuild'
    <2>1. report' \in [Webs -> Build!Reports \cup {"none"}]
      BY <1>0, <1>6, Zenon DEF PlanEnds, Build!Report, TypeInBuild
    <2> QED
      BY <1>0, <1>6, <2>1, Zenon DEF PlanEnds, stepVars, Build!Report, TypeInBuild
  <1>7. ASSUME NEW w \in Webs, RunReturns(w) PROVE TypeInBuild'
    BY <1>0, <1>7, Zenon DEF RunReturns, Build!Yield, TypeInBuild
  <1>8. ASSUME NEW w \in Webs, Exit(w) PROVE TypeInBuild'
    BY <1>0, <1>8, Zenon DEF Exit, Build!Vanish, TypeInBuild
  <1>9. CASE UNCHANGED allVars
    BY <1>1, <1>9, Zenon DEF allVars, stepVars, buildVars
  <1> QED
    BY <1>2, <1>3, <1>4, <1>5, <1>6, <1>7, <1>8, <1>9, Zenon DEF NextInBuild

(* What gives an attempt up: an end of the web, of its result or of the    *)
(* wait for it.                                                            *)
LEMMA CrashFrame ==
    ASSUME TypeOK, NEW w \in Webs, Crash(w)
    PROVE  /\ \A v \in Webs : pc'[v] = IF v = w THEN "idle" ELSE pc[v]
           /\ adrift' = adrift \ {w}
           /\ UNCHANGED <<overlap, launches, exitFile, place>>
  BY Zenon DEF Crash, Goto, Forget, TypeOK, podVars, sessionVars

(* Every step keeps the attempts driven.                                   *)
LEMMA InBuildDriven ==
    ASSUME Together, ~unlocked, [NextInBuild]_allVars, ~unlocked'
    PROVE  AttemptsDriven'
  <1>0. /\ TypeOK /\ AttemptsDriven
        /\ running \subseteq drivers /\ drivers \subseteq Webs
        /\ report \in [Webs -> Build!Reports \cup {"none"}]
        /\ adrift \subseteq Webs
    BY Zenon DEF Together, StepInv, TypeInBuild, TypeOK
  <1>1. CASE UNCHANGED <<pc, adrift, status, drivers, executors, report, leaving, running, left>>
    BY <1>0, <1>1, Zenon DEF AttemptsDriven, Active
  <1>2. CASE Elsewhere \/ LoseLock \/ UNCHANGED allVars
    BY <1>0, <1>1, <1>2, ElsewhereFrame, Zenon DEF buildVars, stepVars, allVars, vars, attemptVars,
       LoseLock, Build!Unlock
  <1>3. CASE Track
    <2>0. UNCHANGED <<pc, adrift, running, left>>
      BY <1>3, Zenon DEF Track, stepVars, vars, attemptVars
    <2>1. CASE Build!RequestAbort
      BY <1>1, <2>0, <2>1, Zenon DEF Build!RequestAbort
    <2>2. CASE Build!Start \/ Build!Refuse
      <3>1. status = "pending" /\ UNCHANGED <<drivers, executors, report, leaving>>
        BY <2>2, Zenon DEF Build!Start, Build!Refuse
      <3> QED
        BY <1>0, <2>0, <3>1, Zenon DEF AttemptsDriven, Active
    <2>3. ASSUME NEW w \in Webs, Build!Take(w) PROVE AttemptsDriven'
      <3>1. /\ drivers = {} /\ drivers' = drivers \cup {w}
            /\ UNCHANGED <<status, executors, report, leaving>>
        BY <2>3, Zenon DEF Build!Take
      <3> QED
        BY <1>0, <2>0, <3>1, Zenon DEF AttemptsDriven, Active
    <2>4. ASSUME NEW w \in Webs, Build!Forget(w) PROVE AttemptsDriven'
      BY <1>0, <2>0, <2>4, Zenon DEF AttemptsDriven, Active, Build!Forget
    <2>5. ASSUME NEW w \in Webs, Build!Leave(w) PROVE AttemptsDriven'
      BY <1>0, <2>0, <2>5, Zenon DEF AttemptsDriven, Active, Build!Leave
    <2> QED
      BY <1>3, <2>1, <2>2, <2>3, <2>4, <2>5, Zenon DEF Track
  <1>4. ASSUME NEW w \in Webs, Enter(w) PROVE AttemptsDriven'
    <2>1. /\ w \in running /\ pc[w] = "idle"
          /\ \A v \in Webs : v # w => pc'[v] = pc[v]
          /\ UNCHANGED <<adrift, status, drivers, executors, report, leaving, running, left>>
      BY <1>0, <1>4, Zenon DEF Enter, Arrive, Reach, Goto, TypeOK, buildVars
    <2> QED
      BY <1>0, <2>1, Zenon DEF AttemptsDriven, Active
  <1>5. ASSUME NEW w \in Webs, Proceed(w) PROVE AttemptsDriven'
    <2>1. /\ \A v \in Webs : v # w => pc'[v] = pc[v]
          /\ UNCHANGED <<status, drivers, executors, report, leaving, running, left>>
      BY <1>0, <1>5, OwnAttempt, Zenon DEF Proceed, buildVars, Together, StepInv
    <2>2. /\ pc[w] # "idle" /\ Active(w)
          /\ \A v \in Webs : v # w => (v \in adrift' <=> v \in adrift)
          /\ w \in adrift' => Active(w)'
          /\ w \in adrift /\ pc'[w] # "idle" => w \in adrift'
          /\ adrift' \subseteq adrift
      BY <1>0, <1>5, AttemptDrifts, Zenon DEF Proceed
    <2> QED
      BY <1>0, <2>1, <2>2, Zenon DEF AttemptsDriven, Active
  <1>6. ASSUME NEW w \in Webs, ExecutePlan(w) PROVE AttemptsDriven'
    <2>1. /\ UNCHANGED <<pc, adrift, status, drivers, report, leaving, left>>
          /\ status = "started" /\ report[w] = "none"
          /\ executors' = executors \cup {w} /\ running' = running \cup {w}
      BY <1>6, Zenon DEF ExecutePlan, Build!Execute, stepVars, vars, attemptVars
    <2> QED
      BY <1>0, <2>1, Zenon DEF AttemptsDriven, Active
  <1>7. ASSUME NEW w \in Webs, PlanEnds(w) PROVE AttemptsDriven'
    <2>1. /\ UNCHANGED <<pc, adrift, status, drivers, leaving, left>>
          /\ w \in running /\ running' = running \ {w}
          /\ executors' \in {executors \ {w}, executors}
          /\ w \in executors' <=> Active(w) \/ w \in left
      BY <1>7, Zenon DEF PlanEnds, Build!Report, stepVars, vars, attemptVars
    <2>2. running' = {}
      BY <1>0, <2>1, Zenon DEF AttemptsDriven
    <2> QED
      BY <1>0, <2>1, <2>2, Zenon DEF AttemptsDriven, Active
  <1>8. ASSUME NEW w \in Webs, Stop(w) PROVE AttemptsDriven'
    BY <1>0, <1>8, Zenon DEF Stop, Build!Stop, stepVars, vars, attemptVars, AttemptsDriven, Active
  <1>9. ASSUME NEW w \in Webs, Finish(w) PROVE AttemptsDriven'
    <2>1. /\ UNCHANGED <<pc, adrift, drivers, executors, report, leaving, running, left>>
          /\ w \notin running /\ drivers = {w}
      BY <1>9, Zenon DEF Finish, Build!Conclude, stepVars, vars, attemptVars
    <2>2. running = {}
      BY <1>0, <2>1, Zenon
    <2> QED
      BY <1>0, <2>1, <2>2, Zenon DEF AttemptsDriven, Active
  <1>10. ASSUME NEW w \in Webs, RunReturns(w) PROVE AttemptsDriven'
    <2>1. /\ UNCHANGED <<status, executors, report, leaving>>
          /\ w \in drivers /\ (w \in executors => w \in leaving)
          /\ drivers' = drivers \ {w}
          /\ running' = running \ {w}
          /\ left' = left \/ (w \in running /\ left' = left \cup {w})
      BY <1>10, Zenon DEF RunReturns, Build!Yield
    <2>2. drivers' = {} /\ running' = {} /\ left' \subseteq executors \cap leaving
      BY <1>0, <2>1, Zenon DEF AttemptsDriven
    <2>3. CASE Drain(w)
      BY <1>0, <2>1, <2>2, <2>3, Zenon DEF Drain, AttemptsDriven, Active
    <2>4. CASE Crash(w)
      <3>1. /\ \A v \in Webs : pc'[v] # "idle" => v # w /\ pc'[v] = pc[v]
            /\ adrift' = adrift \ {w}
        BY <1>0, <2>4, CrashFrame, Zenon
      <3>2. \A v \in Webs : pc'[v] # "idle" => v \in adrift'
        BY <1>0, <2>1, <3>1, Zenon DEF AttemptsDriven
      <3>3. \A v \in Webs : Active(v)' => v \in executors
        BY <1>0, <3>1, Zenon DEF AttemptsDriven, Active
      <3>4. \A v \in adrift' : Active(v)' /\ v \in leaving
        <4>1. ASSUME NEW v \in Webs, v # w PROVE pc'[v] = pc[v]
          BY <1>0, <2>4, <4>1, CrashFrame, Zenon
        <4> QED
          BY <1>0, <3>1, <4>1, Zenon DEF AttemptsDriven, Active
      <3> QED
        BY <2>1, <2>2, <3>2, <3>3, <3>4, Zenon DEF AttemptsDriven
    <2>5. CASE /\ ~(Active(w) /\ w \notin adrift) /\ pc[w] \notin {"done", "failed"}
               /\ UNCHANGED vars
      <3>1. UNCHANGED <<pc, adrift>> /\ (pc[w] = "idle" \/ w \in adrift)
        BY <2>5, Zenon DEF vars, attemptVars, Active
      <3> QED
        BY <1>0, <2>1, <2>2, <3>1, Zenon DEF AttemptsDriven, Active
    <2> QED
      BY <1>10, <2>3, <2>4, <2>5, Zenon DEF RunReturns
  <1>11. ASSUME NEW w \in Webs, Exit(w) PROVE AttemptsDriven'
    <2>1. /\ status' = status
          /\ drivers' = drivers \ {w} /\ executors' = executors \ {w}
          /\ leaving' = leaving \ {w} /\ running' = running \ {w} /\ left' = left \ {w}
          /\ \A v \in Webs : v # w => report'[v] = report[v]
      BY <1>0, <1>11, Zenon DEF Exit, Build!Vanish
    <2>2. /\ \A v \in Webs : pc'[v] = IF v = w THEN "idle" ELSE pc[v]
          /\ adrift' = adrift \ {w}
      <3>1. CASE Crash(w)
        BY <1>0, <3>1, CrashFrame, Zenon
      <3>2. CASE pc[w] = "idle" /\ UNCHANGED vars
        BY <1>0, <3>2, Zenon DEF vars, attemptVars, AttemptsDriven, Active
      <3> QED
        BY <1>11, <3>1, <3>2, Zenon DEF Exit
    <2> QED
      BY <1>0, <2>1, <2>2, Zenon DEF AttemptsDriven, Active
  <1>12. ASSUME NEW w \in Webs, EnterLeft(w) PROVE AttemptsDriven'
    <2>1. /\ w \in left /\ pc[w] = "idle" /\ pc'[w] \in {"attach", "properties"}
          /\ \A v \in Webs : v # w => pc'[v] = pc[v]
          /\ adrift' = adrift \cup {w} /\ left' = left \ {w}
          /\ UNCHANGED <<status, drivers, executors, report, leaving, running>>
      BY <1>0, <1>12, Zenon DEF EnterLeft, BeginLeft, Reach, Goto, TypeOK
    <2> QED
      BY <1>0, <2>1, Zenon DEF AttemptsDriven, Active
  <1> QED
    BY <1>2, <1>3, <1>4, <1>5, <1>6, <1>7, <1>8, <1>9, <1>10, <1>11, <1>12, Zenon DEF NextInBuild

(* A lock that was lost stays lost.                                        *)
LEMMA UnlockedStays ==
    ASSUME [NextInBuild]_allVars, unlocked
    PROVE  unlocked'
  BY Zenon DEF NextInBuild, allVars, buildVars

(* A step that leaves reports, statuses and the settled alone, and lets no *)
(* attempt come to an end or under way, leaves the outcome settled.        *)
LEMMA OutcomeFrame ==
    ASSUME OutcomeSettled, UNCHANGED <<heard, overlap, launches, exitFile, place>>,
           \A w \in Webs : pc'[w] \in {"idle", pc[w]},
           \A w \in Webs : report'[w] = "succeeded" => pc'[w] = "done" /\ heard[w] = 0,
           status' = "succeeded" => status = "succeeded"
    PROVE  OutcomeSettled'
  BY Zenon DEF OutcomeSettled, Settled, Active

(* Every step keeps the outcome settled.                                   *)
LEMMA InBuildSettled ==
    ASSUME Together, StepInv', ~unlocked, [NextInBuild]_allVars, ~unlocked'
    PROVE  OutcomeSettled'
  <1>0. /\ StepInv /\ TypeOK /\ OneAttempt /\ AttemptsDriven /\ OutcomeSettled
        /\ drivers \subseteq Webs /\ running \subseteq drivers
        /\ report \in [Webs -> Build!Reports \cup {"none"}]
        /\ heard \in [Webs -> Statuses \cup {NoCode}]
        /\ pc \in [Webs -> AttemptPlaces] /\ overlap \in BOOLEAN
    BY Zenon DEF Together, StepInv, TypeInBuild, TypeOK
  <1>1. ASSUME UNCHANGED <<stepVars, report>>, status' = "succeeded" => status = "succeeded"
        PROVE  OutcomeSettled'
    <2>1. UNCHANGED <<pc, heard, overlap, launches, exitFile, place>>
      BY <1>1, Zenon DEF stepVars, vars, attemptVars, bookVars, podVars, sessionVars
    <2>2. \A w \in Webs : report'[w] = "succeeded" => pc'[w] = "done" /\ heard[w] = 0
      BY <1>0, <1>1, <2>1, Zenon DEF OutcomeSettled
    <2> QED
      BY <1>0, <1>1, <2>1, <2>2, OutcomeFrame, Zenon
  <1>2. CASE Elsewhere
    <2>1. UNCHANGED <<pc, overlap, heard, report, status>>
      BY <1>0, <1>2, ElsewhereFrame, Zenon DEF buildVars
    <2>2. ASSUME Supervised, ~overlap, NEW code, Settled(code) PROVE Settled(code)'
      BY <1>0, <1>2, <2>2, SettledStays, Zenon
    <2> QED
      BY <1>0, <2>1, <2>2, Zenon DEF OutcomeSettled, Active, Settled
  <1>3. CASE Track
    <2>0. UNCHANGED stepVars
      BY <1>3, Zenon DEF Track
    <2>1. CASE \/ Build!RequestAbort \/ Build!Start \/ Build!Refuse
               \/ \E w \in Webs : Build!Take(w) \/ Build!Leave(w)
      BY <1>1, <2>0, <2>1, Zenon DEF Build!RequestAbort, Build!Start, Build!Refuse, Build!Take,
         Build!Leave
    <2>2. ASSUME NEW w \in Webs, Build!Forget(w) PROVE OutcomeSettled'
      <3>1. UNCHANGED <<pc, heard, overlap, launches, exitFile, place>>
        BY <2>0, Zenon DEF stepVars, vars, attemptVars, bookVars, podVars, sessionVars
      <3>2. \A v \in Webs : report'[v] = "succeeded" => report[v] = "succeeded"
        BY <1>0, <2>2, Zenon DEF Build!Forget
      <3>3. \A v \in Webs : report'[v] = "succeeded" => pc'[v] = "done" /\ heard[v] = 0
        BY <1>0, <3>1, <3>2, Zenon DEF OutcomeSettled
      <3> QED
        BY <1>0, <2>2, <3>1, <3>3, OutcomeFrame, Zenon DEF Build!Forget
    <2> QED
      BY <1>3, <2>1, <2>2, Zenon DEF Track
  <1>4. ASSUME NEW w \in Webs, Enter(w) PROVE OutcomeSettled'
    <2>1. /\ w \in running /\ overlap' = (overlap \/ adrift # {})
          /\ pc'[w] # "done" /\ \A v \in Webs : v # w => pc'[v] = pc[v]
          /\ UNCHANGED <<heard, launches, exitFile, place, report, status>>
      BY <1>0, <1>4, Zenon DEF Enter, Arrive, Reach, Goto, podVars, sessionVars, buildVars
    <2>2. report[w] = "none" /\ status = "started"
      BY <1>0, <2>1, Zenon DEF AttemptsDriven
    <2> QED
      BY <1>0, <2>1, <2>2, Zenon DEF OutcomeSettled, Settled
  <1>5. ASSUME NEW w \in Webs, Proceed(w) PROVE OutcomeSettled'
    <2>1. /\ pc[w] # "idle" /\ Active(w) /\ overlap' = overlap
          /\ \A v \in Webs : v # w => pc'[v] = pc[v] /\ heard'[v] = heard[v]
          /\ UNCHANGED <<report, status>>
      <3>1. pc[w] # "idle" /\ Attempt(w) /\ Active(w)
        BY <1>0, <1>5, AttemptDrifts, Zenon DEF Proceed
      <3>2. ~Begin(w) /\ ~BeginLeft(w)
        BY <3>1, Zenon DEF Begin, Arrive, BeginLeft, Reach
      <3>3. overlap' = overlap /\ \A v \in Webs \ {w} : pc'[v] = pc[v]
        BY <1>0, <3>1, <3>2, OwnAttempt, Zenon
      <3>4. \A v \in Webs : v # w => heard'[v] = heard[v]
        BY <1>0, <1>5, Zenon DEF Proceed
      <3> QED
        BY <1>5, <3>1, <3>3, <3>4, Zenon DEF Proceed, buildVars
    <2>2. \A v \in Webs : report'[v] = "succeeded" => pc'[v] = "done" /\ heard'[v] = 0
      BY <1>0, <2>1, Zenon DEF OutcomeSettled, Active
    <2>3. ASSUME Supervised, ~overlap, NEW v \in Webs, pc'[v] = "done"
          PROVE  Settled(heard[v])'
      <3>1. v = w
        BY <1>0, <2>1, <2>3, Zenon DEF OneAttempt
      <3>2. heard'[v] \in answers'
        BY <1>0, <1>5, <2>3, <3>1, Zenon DEF Proceed
      <3>3. ~overlap'
        BY <2>1, <2>3, Zenon
      <3>4. ASSUME NEW code \in answers' PROVE Settled(code)'
        BY <2>3, <3>3, <3>4, AnswerSettled, Zenon DEF Settled, StepInv, OneExit, ProcessesNeedPod
      <3> QED
        BY <3>2, <3>4, Zenon DEF Settled
    <2>4. status # "succeeded" \/ ~Supervised \/ overlap
      BY <1>0, <2>1, Zenon DEF OutcomeSettled
    <2> QED
      BY <2>1, <2>2, <2>3, <2>4, Zenon DEF OutcomeSettled
  <1>6. ASSUME NEW w \in Webs, ExecutePlan(w) \/ Stop(w) PROVE OutcomeSettled'
    BY <1>1, <1>6, Zenon DEF ExecutePlan, Stop, Build!Execute, Build!Stop
  <1>7. ASSUME NEW w \in Webs, PlanEnds(w) PROVE OutcomeSettled'
    <2>1. UNCHANGED <<pc, heard, overlap, launches, exitFile, place, status>>
      BY <1>7, Zenon DEF PlanEnds, Build!Report, stepVars, vars, attemptVars, bookVars, podVars,
         sessionVars
    <2>2. \A v \in Webs : v # w => report'[v] = report[v]
      BY <1>0, <1>7, Zenon DEF PlanEnds, Build!Report
    <2>3. \A v \in Webs : report'[v] = "succeeded" => pc'[v] = "done" /\ heard[v] = 0
      BY <1>0, <1>7, <2>1, <2>2, Zenon DEF PlanEnds, OutcomeSettled
    <2> QED
      BY <1>0, <2>1, <2>3, OutcomeFrame, Zenon
  <1>8. ASSUME NEW w \in Webs, Finish(w) PROVE OutcomeSettled'
    <2>1. status' = Build!Outcome(report[w]) /\ UNCHANGED <<stepVars, report>>
      BY <1>8, Zenon DEF Finish, Build!Conclude
    <2>2. CASE report[w] # "succeeded"
      BY <1>1, <2>1, <2>2, Zenon DEF Build!Outcome
    <2>3. CASE report[w] = "succeeded"
      <3>1. UNCHANGED <<pc, heard, overlap, launches, exitFile, place>>
        BY <2>1, Zenon DEF stepVars, vars, attemptVars, bookVars, podVars, sessionVars
      <3>2. pc[w] = "done" /\ heard[w] = 0
        BY <1>0, <2>3, Zenon DEF OutcomeSettled
      <3>3. Supervised /\ ~overlap => Settled(0) /\ \A v \in Webs : ~Active(v)
        BY <1>0, <3>2, Zenon DEF OutcomeSettled, OneAttempt, Active
      <3> QED
        BY <1>0, <2>1, <3>1, <3>3, Zenon DEF OutcomeSettled, Active, Settled
    <2> QED
      BY <2>2, <2>3
  <1>9. ASSUME NEW w \in Webs, RunReturns(w) \/ Exit(w) PROVE OutcomeSettled'
    <2>1. /\ UNCHANGED <<heard, status>> /\ report'[w] = "none"
          /\ \A v \in Webs : v # w => report'[v] = report[v]
      BY <1>0, <1>9, Zenon DEF RunReturns, Exit, Build!Yield, Build!Vanish
    <2>2. /\ UNCHANGED <<overlap, launches, exitFile, place>>
          /\ \A v \in Webs : pc'[v] \in {"idle", pc[v]} /\ (v # w => pc'[v] = pc[v])
      <3>1. CASE Drain(w)
        BY <3>1, Zenon DEF Drain, podVars, sessionVars
      <3>2. CASE Crash(w)
        BY <1>0, <3>2, CrashFrame, Zenon
      <3>3. CASE UNCHANGED vars
        BY <3>3, Zenon DEF vars, attemptVars, bookVars, podVars, sessionVars
      <3> QED
        BY <1>9, <3>1, <3>2, <3>3, Zenon DEF RunReturns, Exit
    <2>3. \A v \in Webs : report'[v] = "succeeded" => pc'[v] = "done" /\ heard[v] = 0
      BY <1>0, <2>1, <2>2, Zenon DEF OutcomeSettled
    <2> QED
      BY <1>0, <2>1, <2>2, <2>3, OutcomeFrame, Zenon
  <1>10. CASE LoseLock \/ UNCHANGED allVars
    BY <1>1, <1>10, Zenon DEF LoseLock, Build!Unlock, allVars, buildVars
  <1>11. ASSUME NEW w \in Webs, EnterLeft(w) PROVE OutcomeSettled'
    <2>1. /\ pc[w] = "idle" /\ overlap' /\ UNCHANGED <<heard, report>>
          /\ \A v \in Webs : v # w => pc'[v] = pc[v]
      BY <1>0, <1>11, Zenon DEF EnterLeft, BeginLeft, Reach, Goto
    <2> QED
      BY <1>0, <2>1, Zenon DEF OutcomeSettled
  <1> QED
    BY <1>2, <1>3, <1>4, <1>5, <1>6, <1>7, <1>8, <1>9, <1>10, <1>11, Zenon DEF NextInBuild

(* Until a tracking lock is lost, every step keeps what holds together:    *)
(* once it is lost it stays lost.                                          *)
THEOREM InBuildInvariant == SpecInBuild => []InBuildInv
  <1>1. InitInBuild => InBuildInv
    <2> SUFFICES ASSUME InitInBuild PROVE Together
      BY Zenon DEF InBuildInv
    <2>1. StepInv
      BY StepInvStarts, Zenon DEF InitInBuild
    <2>2. TypeInBuild
      BY Zenon DEF InitInBuild, Build!Init, TypeInBuild
    <2>3. AttemptsDriven /\ OutcomeSettled
      BY Zenon DEF InitInBuild, Init, Build!Init, AttemptsDriven, OutcomeSettled, Active
    <2> QED
      BY <2>1, <2>2, <2>3, Zenon DEF Together
  <1>2. InBuildInv /\ [NextInBuild]_allVars => InBuildInv'
    <2> SUFFICES ASSUME InBuildInv, [NextInBuild]_allVars, ~unlocked'
                 PROVE  Together'
      BY Zenon DEF InBuildInv
    <2>1. ~unlocked
      BY UnlockedStays, Zenon
    <2>2. Together
      BY <2>1, Zenon DEF InBuildInv
    <2>3. StepInv'
      BY <2>2, InBuildStep, StepInvKept, Zenon DEF Together
    <2>4. TypeInBuild'
      BY <2>2, <2>3, InBuildTyped, Zenon DEF StepInv
    <2> QED
      BY <2>1, <2>2, <2>3, <2>4, InBuildDriven, InBuildSettled, Zenon DEF Together
  <1> QED
    BY <1>1, <1>2, PTL DEF SpecInBuild

(* What StepExecution assumes of a web that begins an attempt, the tracking *)
(* lock of the build provides, as long as it is not lost.                   *)
THEOREM StepExecutionKept == SpecInBuild => KeepsStepExecution
  <1>1. InitInBuild => Init
    BY Zenon DEF InitInBuild
  <1>2. InBuildInv /\ [NextInBuild]_allVars => [unlocked' \/ Next]_vars
    BY UnlockedStays, InBuildStep, Zenon DEF InBuildInv
  <1> QED
    BY <1>1, <1>2, InBuildInvariant, PTL DEF SpecInBuild, KeepsStepExecution

(* A build that needs a task or agent step succeeds only if the command of *)
(* the step exited with 0.                                                 *)
THEOREM SuccessMeansExitZero == SpecInBuild => []SuccessIsExitZero
  <1>1. InBuildInv => SuccessIsExitZero
    BY Zenon DEF InBuildInv, Together, OutcomeSettled, Settled, SuccessIsExitZero
  <1> QED
    BY <1>1, InBuildInvariant, PTL

=============================================================================

---------------------------- MODULE RunContract ----------------------------
(***************************************************************************)
(* What a durable workflow run promises to those who admit it, and nothing *)
(* of how: it is admitted once; while it is open at most one outcome of    *)
(* its execution is recorded as evidence, and snapshots are retained for   *)
(* it; it is closed once, with a verdict its evidence justifies, and what  *)
(* it retained is given up in the same step; after that nothing changes.   *)
(***************************************************************************)

CONSTANT Retainable  \* what a run may retain

VARIABLES
    phase,     \* "none", "open" or the verdict
    evidence,  \* the recorded outcome of the execution, or "none"
    retained   \* the snapshots retained for the run

contract == <<phase, evidence, retained>>

Verdict == {"succeeded", "failed", "errored", "aborted"}

\* A success needs a successful execution, which may still be judged failed;
\* an abort needs an aborted execution, or none; an error may always happen.
Justifies(e, v) ==
    CASE v = "succeeded" -> e = "succeeded"
      [] v = "failed"    -> e \in {"failed", "succeeded"}
      [] v = "aborted"   -> e \in {"aborted", "none"}
      [] v = "errored"   -> TRUE

Init == phase = "none" /\ evidence = "none" /\ retained = {}

Admit ==
    /\ phase = "none" /\ phase' = "open"
    /\ retained' \in SUBSET Retainable
    /\ UNCHANGED evidence

Retain ==
    /\ phase = "open" /\ retained \subseteq retained' /\ retained' \subseteq Retainable
    /\ UNCHANGED <<phase, evidence>>

Record ==
    /\ phase = "open" /\ evidence = "none" /\ evidence' \in Verdict
    /\ UNCHANGED <<phase, retained>>

\* The last evidence may be recorded in the step that closes the run.
Close ==
    /\ phase = "open" /\ phase' \in Verdict
    /\ evidence' = evidence \/ (evidence = "none" /\ evidence' \in Verdict)
    /\ Justifies(evidence', phase')
    /\ retained' = {}

Next == Admit \/ Retain \/ Record \/ Close

Spec == Init /\ [][Next]_contract
=============================================================================

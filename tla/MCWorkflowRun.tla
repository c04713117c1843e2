--------------------------- MODULE MCWorkflowRun ---------------------------
(* Instances of WorkflowRun for TLC. *)
EXTENDS WorkflowRun

CONSTANTS b1, b2, r1, r2, h1, h2, w1, noone, default, nowait

MCOne == {b1}
MCBinders == {b1, b2}
MCReconcilers == {r1, r2}
MCOneReconciler == {r1}
MCHumans == {h1, h2}
MCWaits == {w1}
=============================================================================

--------------------------- MODULE MCStepInBuild ---------------------------
(* A finite instance of StepInBuild for TLC. *)
EXTENDS MCStepExecution, StepInBuild

=============================================================================

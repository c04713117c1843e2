-------------------------- MODULE MCStepExecution --------------------------
(* Finite instances of StepExecution for TLC. *)
EXTENDS StepExecution, TLC

CONSTANTS w1, w2, s1, s2

TwoWebs == {w1, w2}
TwoSessions == {s1, s2}
OkAndFailed == {0, 1}

AllFaults == {"crash", "drain", "sever", "pod", "api", "cancel"}
AllButApi == {"crash", "drain", "sever", "pod", "cancel"}

SessionSymmetry == Permutations(TwoWebs) \cup Permutations(TwoSessions)

=============================================================================

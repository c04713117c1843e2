------------------------- MODULE MCBuildTracking -------------------------
(* Finite instances of BuildTracking for TLC. *)
EXTENDS BuildTracking, TLC

CONSTANTS w1, w2, j1, c1

TwoWebs == {w1, w2}
OneJob == {j1}
OneCheck == {c1}
NoBuilds == {}

AllFaults == {"db", "session", "listener"}
NoFaults == {}
LockFaults == {"db", "session"}

WebSymmetry == Permutations(TwoWebs)

=============================================================================

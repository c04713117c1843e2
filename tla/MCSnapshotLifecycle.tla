------------------------ MODULE MCSnapshotLifecycle ------------------------
(***************************************************************************)
(* An instance of SnapshotLifecycle for TLC: two attempts, at one output,  *)
(* at two of one team, or at outputs of two teams.                         *)
(***************************************************************************)
EXTENDS SnapshotLifecycle, TLC

CONSTANTS t1, t2, y1, y2, o1, o2, o3, s1, s2, n1, n2

TwoTeams == {t1, t2}
TwoTypes == {y1, y2}
ThreeOutputs == {o1, o2, o3}
OutputTarget == (o1 :> <<t1, y1>>) @@ (o2 :> <<t1, y2>>) @@ (o3 :> <<t2, y1>>)
TwoSealers == {s1, s2}
ReplaySiblingOther == {(s1 :> o1) @@ (s2 :> o) : o \in Outputs}
\* One of each sort: input claims are like pins, waits like fixtures.
ThreeClasses == {"binding", "pin", "fixture"}
TwoNodes == {n1, n2}
=============================================================================

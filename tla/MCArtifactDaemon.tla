-------------------------- MODULE MCArtifactDaemon --------------------------
(***************************************************************************)
(* Instances of ArtifactDaemon for TLC: handle 1 holds paths 1 and 2,      *)
(* handle 2 path 3.                                                        *)
(***************************************************************************)
EXTENDS ArtifactDaemon, TLC

CONSTANTS r1, r2, sw

TwoRequests == {r1, r2}
ThreePaths == 1..3
TwoHandles == 1..2
OneTwoApart == (1 :> 1) @@ (2 :> 1) @@ (3 :> 2)

Of(kind, key, at) == [kind |-> kind, key |-> key, at |-> at]

\* Reads by path and through an alias, and resolves in both directions, within
\* one handle and to a peer, against what replaces, deletes and registers.
MixedOps ==
  (r1 :> {Of("get", 1, 1), Of("get", 3, 3), Of("mirror", 1, 1),
          Of("register", 3, 2), Of("resolve", 1, 3), Of("resolve", 2, 1)})
  @@ (r2 :> {Of("streamin", 1, 1), Of("delete", 1, 1), Of("register", 2, 1),
             Of("resolve", 3, 1)})

FirstTwo == {1, 2}
AliasOrNot == {NoAliases, [NoAliases EXCEPT ![3] = 1]}
=============================================================================

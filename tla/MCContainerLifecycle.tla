------------------------ MODULE MCContainerLifecycle ------------------------
(* One job build and one in-memory check, a step each, and two containers. *)
EXTENDS ContainerLifecycle, TLC

CONSTANTS j1, c1, sj, sc, h1, h2

BuildOfSteps == sj :> j1 @@ sc :> c1
=============================================================================

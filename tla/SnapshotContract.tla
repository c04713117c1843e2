-------------------------- MODULE SnapshotContract --------------------------
(***************************************************************************)
(* What the content of a digest promises to those who seal and retain it,  *)
(* and nothing of stages, locations, replicas and leases: a seal records   *)
(* its manifest and leaves it readable, and the first seal of an output    *)
(* retains it, which a replay of that seal does not do again; what is      *)
(* retained by a claim taken under the lease is not given up; a manifest   *)
(* expires when nothing retains the digest and it can no longer be read,   *)
(* and comes back only with a seal of its team.  Damage ends the promise   *)
(* that content stays readable, and no other.                              *)
(***************************************************************************)
EXTENDS Naturals

CONSTANTS
    Teams, Types,
    Outputs,   \* the outputs that are sealed
    Target,    \* Target[o]: the manifest of output o
    Claims,
    Lasting    \* the claims content is kept for

VARIABLES
    record,    \* per manifest: "none", "available" or "expired"
    recorded,  \* the outputs whose seal is recorded
    retained,  \* the claims in force
    readable,  \* the content can be read where it is said to be
    damages    \* how many copies were lost or spoilt

contract == <<record, recorded, retained, readable, damages>>

Manifests == Teams \X Types
Sealed == {m \in Manifests : record[m] # "none"}
Present == {m \in Manifests : record[m] = "available"}

Init ==
    /\ record = [m \in Manifests |-> "none"]
    /\ recorded = {} /\ retained = {} /\ ~readable /\ damages = 0

\* The manifest of output o is recorded, and what expired of its team is back.
Seal(o) ==
    /\ record' = [n \in Manifests |->
          IF n = Target[o] \/ (n[1] = Target[o][1] /\ record[n] = "expired")
          THEN "available" ELSE record[n]]
    /\ recorded' = recorded \cup {o}
    /\ retained' = IF o \in recorded THEN retained ELSE retained \cup {"binding"}
    /\ readable' \in BOOLEAN /\ (readable \/ damages = 0 => readable')
    /\ UNCHANGED damages

Claim(k) ==
    /\ Sealed # {} /\ (k \in Lasting => Present # {})
    /\ retained' = retained \cup {k}
    /\ UNCHANGED <<record, recorded, readable, damages>>

Unclaim(k) ==
    /\ retained' = retained \ {k}
    /\ UNCHANGED <<record, recorded, readable, damages>>

\* A copy is made, found or arrives.
Restore ==
    /\ Present # {}
    /\ readable' = TRUE /\ UNCHANGED <<record, recorded, retained, damages>>

\* The last copy goes.
GiveUp ==
    /\ retained \cap Lasting = {} \/ damages # 0
    /\ readable' = FALSE /\ UNCHANGED <<record, recorded, retained, damages>>

Expire ==
    /\ retained = {} /\ ~readable
    /\ record' = [m \in Manifests |-> IF m \in Present THEN "expired" ELSE record[m]]
    /\ UNCHANGED <<recorded, retained, readable, damages>>

Damage ==
    /\ damages' = damages + 1
    /\ readable' \in {readable, FALSE}
    /\ UNCHANGED <<record, recorded, retained>>

Next ==
    \/ \E o \in Outputs : Seal(o)
    \/ \E k \in Claims : Claim(k) \/ Unclaim(k)
    \/ Restore \/ GiveUp \/ Expire \/ Damage

Spec == Init /\ [][Next]_contract
=============================================================================

------------------------- MODULE SnapshotLifecycle -------------------------
(***************************************************************************)
(* The bytes of one snapshot digest and the rows that describe them.       *)
(*                                                                         *)
(*   - sealers stage a row, store the bytes, and commit the manifest       *)
(*     (agent/snapshot/sealer.go commitCaptured)                           *)
(*   - the lifecycle expires the content of digests nobody retains, drops  *)
(*     the remains of failed seals, and repairs replicas                   *)
(*     (agent/snapshot/lifecycle.go)                                       *)
(*   - the sweep reclaims durable objects that no row mentions             *)
(*     (agent/snapshot/orphan_sweep.go)                                    *)
(*   - users, workflow runs and experiments claim the snapshot             *)
(*                                                                         *)
(* Rows and bytes change in separate steps. What keeps them together is    *)
(* the digest lease, an advisory lock of the database that a sealer and a  *)
(* lifecycle pass hold across all of theirs (WithDigestLease): whoever     *)
(* holds it, one at a time, is at step `at' of its callback. A claim that  *)
(* is taken under the lease is a single transaction, so it is one action   *)
(* that waits for the lease; claims of waits and of experiment fixtures do *)
(* not take it.                                                            *)
(***************************************************************************)
EXTENDS Integers, FiniteSets

CONSTANTS
    Teams, Types,  \* a manifest of the digest is of a team and of a type
    Outputs,       \* build outputs with this digest; the claim of an upload is a pin
    Target,        \* Target[o]: the manifest of output o
    Sealers,       \* attempts to seal an output
    Scenarios,     \* which outputs the attempts may be at
    Nodes,         \* nodes whose artifact daemon can hold a replica
    Hangar,        \* the durable object store
    Classes,       \* the kinds of claims that are made
    Free,          \* nobody holds the digest lease
    Keeper,        \* a lifecycle pass holds it
    Factor,        \* replicationFactor
    MaxFaults,     \* bound on failed lifecycle passes
    MaxDamage      \* bound on replicas lost or corrupted

Manifests == Teams \X Types

\* An output's binding has an expiry date; the claims of waits and fixtures
\* are inserted without the digest lease.
Leased == {"binding", "pin", "input"}
Unleased == {"wait", "fixture"}

ASSUME TargetAssumption == Target \in [Outputs -> Manifests]
ASSUME ScenarioAssumption == Scenarios \subseteq [Sealers -> Outputs]
ASSUME ClassAssumption == Classes \subseteq Leased \cup Unleased
ASSUME PlaceAssumption == Hangar \notin Nodes /\ IsFiniteSet(Nodes)
ASSUME HolderAssumption == {Free, Keeper} \cap Sealers = {} /\ Free # Keeper
ASSUME BoundAssumption == Factor \in Nat \ {0} /\ MaxFaults \in Nat /\ MaxDamage \in Nat

VARIABLES
    output,    \* output[s]: the output that attempt s seals; two attempts at
               \* one output are a seal and its replay
    backing,   \* "hangar" or "daemons": where this deployment keeps content
    manifest,  \* manifest[m]: "none", or column content_state
    produced,  \* the outputs whose seal has recorded a production
    stage,     \* stage[s]: the staged upload of s: "none", "live", "lapsed"
    locations, \* the recorded locations of the digest
    claims,    \* the retention claims in force on a manifest of the digest
    pending,   \* claims checked but not inserted yet
    content,   \* content[p]: "none", "ok", or "bad" (fails verification)
    late,      \* places an abandoned upload is still on its way to
    generation,\* generation of the object in the durable store
    age,       \* "young" or "old": whether it has reached the sweep's age
    listed,    \* generation of the object the sweep has listed, 0 for none
    seal,      \* seal[s]: "new", "open", "done" or "failed"
    lease,     \* who holds the digest lease
    at,        \* the step its holder is at
    held,      \* locations its holder has to record, or to unrecord
    prune,     \* locations a repair has to unrecord after that
    doomed,    \* staged uploads an orphan collection has to remove
    faults, damage

setup == <<output, backing>>
rows == <<manifest, produced, stage, locations, claims>>
objects == <<generation, age, listed>>
callback == <<lease, at, held, prune, doomed>>
bounds == <<faults, damage>>
vars == <<setup, rows, pending, content, late, objects, seal, callback, bounds>>

Places == Nodes \cup {Hangar}
Store == IF backing = "hangar" THEN {Hangar} ELSE Nodes

Phases == {"free", "staged", "stored", "deleting", "unrecording", "reclaiming",
           "expiring", "discarding", "cleaning", "recording", "pruning", "sweeping"}

(***************************************************************************)
(* What a recheck under the lease reads.                                   *)
(***************************************************************************)
HasManifest == \E m \in Manifests : manifest[m] # "none"

\* DigestState.Validate: the manifests agree on the state of the content.
Coherent ==
    \A m, n \in Manifests :
        manifest[m] # "none" /\ manifest[n] # "none" => manifest[m] = manifest[n]

Available == Coherent /\ \E m \in Manifests : manifest[m] = "available"

HasActiveRetention == claims # {}
HasUnexpiredStage == \E s \in Sealers : stage[s] = "live"
Lapsed == {s \in Sealers : stage[s] = "lapsed"}

\* Mutant: a digest without locations is passed over.
CollectableRecorded ==
    Available /\ ~HasActiveRetention /\ ~HasUnexpiredStage /\ (locations # {} \/ lease # Free)

Collectable == Available /\ ~HasActiveRetention /\ ~HasUnexpiredStage
CanExpire == Collectable /\ locations = {}

\* Content that verifies against the digest at a recorded location.
Verified == {p \in locations : content[p] = "ok"}

Init ==
    /\ output \in Scenarios
    /\ backing \in {"hangar", "daemons"}
    /\ manifest = [m \in Manifests |-> "none"]
    /\ produced = {}
    /\ stage = [s \in Sealers |-> "none"]
    /\ locations = {}
    /\ claims = {}
    /\ pending = {}
    /\ content = [p \in Places |-> "none"]
    /\ late = {}
    /\ generation = 0
    /\ age = "young"
    /\ listed = 0
    /\ seal = [s \in Sealers |-> "new"]
    /\ lease = Free
    /\ at = "free"
    /\ held = {}
    /\ prune = {}
    /\ doomed = {}
    /\ faults = 0
    /\ damage = 0

(***************************************************************************)
(* The lease and the content store.                                        *)
(***************************************************************************)
Acquire(who, step) == lease = Free /\ lease' = who /\ at' = step

Release ==
    /\ lease' = Free /\ at' = "free"
    /\ held' = {} /\ prune' = {} /\ doomed' = {}

Fault == faults < MaxFaults /\ faults' = faults + 1

\* The store after writes to the places W: an object that is there and
\* verifies is kept, one that does not is deleted and rewritten.
Written(W) == [p \in Places |-> IF p \in W THEN "ok" ELSE content[p]]
Erased(W) == [p \in Places |-> IF p \in W THEN "none" ELSE content[p]]

\* A new object in the durable store has a new generation.
Created(W) ==
    IF Hangar \in W /\ content[Hangar] = "none"
    THEN generation' = generation + 1 /\ age' = "young"
    ELSE UNCHANGED <<generation, age>>

(***************************************************************************)
(* A seal.                                                                 *)
(***************************************************************************)
SealStage(s) ==
    /\ seal[s] = "new"
    /\ Acquire(s, "staged")
    /\ seal' = [seal EXCEPT ![s] = "open"]
    /\ stage' = [stage EXCEPT ![s] = "live"]
    /\ UNCHANGED <<setup, manifest, produced, locations, claims, pending, content, late, objects,
                   held, prune, doomed, bounds>>

\* Verified content of an available digest is reused, where it can be reached.
SealReuse(s) ==
    /\ lease = s /\ at = "staged"
    /\ Available
    /\ \E V \in SUBSET Verified : V # {} /\ held' = V
    /\ at' = "stored"
    /\ UNCHANGED <<setup, rows, pending, content, late, objects, seal, lease, prune,
                   doomed, bounds>>

\* Nothing was verified: there is nothing, or it was not reached.  Put succeeds
\* with at least one acknowledgement; an upload that was given up may reach its
\* daemon later.
SealPut(s) ==
    /\ lease = s /\ at = "staged"
    /\ Coherent
    /\ \E W, L \in SUBSET Store :
        /\ W # {} /\ W \cap L = {} /\ Cardinality(W \cup L) <= Factor
        /\ content' = Written(W)
        /\ Created(W)
        /\ late' = late \cup L
        /\ held' = W
    /\ at' = "stored"
    /\ UNCHANGED <<setup, rows, pending, listed, seal, lease, prune, doomed, bounds>>

\* Mutant: the failed callback keeps the lease.
FailsHolding(s) ==
    /\ seal' = [seal EXCEPT ![s] = "failed"]
    /\ at' = "free" /\ UNCHANGED <<lease, held, prune, doomed>>

\* The callback returns an error, or its web stops: the staged row stays.
Fails(s) == seal' = [seal EXCEPT ![s] = "failed"] /\ Release

SealFails(s) ==
    /\ lease = s
    /\ Fails(s)
    /\ UNCHANGED <<setup, rows, pending, content, late, objects, bounds>>

\* Put gives up: some uploads are done, others reach the daemon later.
SealPutFails(s) ==
    /\ lease = s /\ at = "staged"
    /\ Coherent
    /\ \E W, L \in SUBSET Store :
        /\ Cardinality(W \cup L) <= Factor
        /\ content' = Written(W)
        /\ Created(W)
        /\ late' = late \cup L
    /\ Fails(s)
    /\ UNCHANGED <<setup, rows, pending, listed, bounds>>

LateUpload(p) ==
    /\ p \in late
    /\ late' = late \ {p}
    /\ content' = IF content[p] = "none" THEN Written({p}) ELSE content
    /\ Created({p})
    /\ UNCHANGED <<setup, rows, pending, listed, seal, callback, bounds>>

\* Mutant: a seal revives its own manifest only.
RevivedOne(m) == [manifest EXCEPT ![m] = "available"]

\* Expired manifests of the seal team come back with the new one.
Revived(m) ==
    [n \in Manifests |->
        IF n = m \/ (n[1] = m[1] /\ manifest[n] = "expired") THEN "available" ELSE manifest[n]]

\* The claim is inserted with the production; a replay finds both there, or
\* the claim expired, and makes no other.
CommitSealBatch(s) ==
    /\ lease = s /\ at = "stored"
    /\ stage[s] = "live"
    /\ Coherent
    /\ manifest' = Revived(Target[output[s]])
    /\ locations' = locations \cup held
    /\ claims' = IF output[s] \in produced THEN claims ELSE claims \cup {"binding"}
    /\ produced' = produced \cup {output[s]}
    /\ stage' = [stage EXCEPT ![s] = "none"]
    /\ seal' = [seal EXCEPT ![s] = "done"]
    /\ Release
    /\ UNCHANGED <<setup, pending, content, late, objects, bounds>>

(***************************************************************************)
(* Collection of a digest that nobody retains. The recheck that follows    *)
(* the acquisition decides; a digest that fails it is left alone.          *)
(***************************************************************************)
ExpiryBegin ==
    /\ Collectable
    /\ Acquire(Keeper, "deleting")
    /\ UNCHANGED <<setup, rows, pending, content, late, objects, seal, held, prune,
                   doomed, bounds>>

DeleteLocation(p) ==
    /\ at = "deleting" /\ p \in locations
    /\ content' = Erased({p})
    /\ held' = {p}
    /\ at' = "unrecording"
    /\ UNCHANGED <<setup, rows, pending, late, objects, seal, lease, prune, doomed,
                   bounds>>

UnrecordDeleted ==
    /\ at = "unrecording"
    /\ locations' = locations \ held
    /\ held' = {}
    /\ at' = "deleting"
    /\ UNCHANGED <<setup, manifest, produced, stage, claims, pending, content, late, objects,
                   seal, lease, prune, doomed, bounds>>

\* The second recheck: ErrLifecycleStateChange unless nothing has changed.
ExpiryRecheck ==
    /\ at = "deleting" /\ locations = {}
    /\ IF CanExpire
       THEN at' = "reclaiming" /\ UNCHANGED <<lease, held, prune, doomed>>
       ELSE Release
    /\ UNCHANGED <<setup, rows, pending, content, late, objects, seal, bounds>>

DeleteAll(next) ==
    /\ content' = Erased(Store)
    /\ at' = next
    /\ UNCHANGED <<setup, rows, pending, late, objects, seal, lease, held, prune,
                   doomed, bounds>>

ExpiryReclaim == at = "reclaiming" /\ DeleteAll("expiring")

MarkDigestExpired ==
    /\ at = "expiring"
    /\ manifest' = IF CanExpire
                   THEN [m \in Manifests |-> IF manifest[m] = "available" THEN "expired"
                                             ELSE manifest[m]]
                   ELSE manifest
    /\ Release
    /\ UNCHANGED <<setup, produced, stage, locations, claims, pending, content, late, objects,
                   seal, bounds>>

(***************************************************************************)
(* Collection of the remains of failed seals.                              *)
(***************************************************************************)
\* Mutant: the bytes go even if the digest has a manifest.
OrphanBeginAlways ==
    /\ Coherent /\ Lapsed # {}
    /\ HasManifest \/ ~HasUnexpiredStage
    /\ Acquire(Keeper, "discarding")
    /\ doomed' = Lapsed
    /\ UNCHANGED <<setup, rows, pending, content, late, objects, seal, held, prune,
                   bounds>>

OrphanBegin ==
    /\ Coherent /\ Lapsed # {}
    /\ HasManifest \/ ~HasUnexpiredStage
    /\ Acquire(Keeper, IF HasManifest THEN "cleaning" ELSE "discarding")
    /\ doomed' = Lapsed
    /\ UNCHANGED <<setup, rows, pending, content, late, objects, seal, held, prune,
                   bounds>>

OrphanDiscard == at = "discarding" /\ DeleteAll("cleaning")

RemoveStagedUploads ==
    /\ at = "cleaning"
    /\ stage' = [s \in Sealers |-> IF s \in doomed THEN "none" ELSE stage[s]]
    /\ Release
    /\ UNCHANGED <<setup, manifest, produced, locations, claims, pending, content, late, objects,
                   seal, bounds>>

\* DeleteAll fails on some of the nodes.
DeletePartly ==
    /\ at \in {"reclaiming", "discarding"}
    /\ Fault
    /\ \E W \in SUBSET Store : content' = Erased(W)
    /\ Release
    /\ UNCHANGED <<setup, rows, pending, late, objects, seal, damage>>

(***************************************************************************)
(* Repair of a digest that is retained. RepairReplicas examines recorded   *)
(* locations until Factor of them verify: V do, S do not. Without any it   *)
(* looks for a copy on the other nodes, and gives up if there is none. It  *)
(* then writes to nodes C, and what is left of S is stale. Nodes in `down' *)
(* cannot be judged and are left alone. A durable object has no replicas:  *)
(* nothing changes.                                                        *)
(***************************************************************************)
Examined(down, V, S) ==
    /\ (V \cup S) \cap down = {}
    /\ \/ Cardinality(V) = Factor
       \/ Cardinality(V) < Factor /\ V = Verified \ down /\ S = (locations \ Verified) \ down

\* The copy found on a node that is not recorded, when none verified.
Recovered(down, V, R) ==
    IF V # {} THEN R = {}
    ELSE \E p \in Nodes \ (locations \cup down) : content[p] = "ok" /\ R = {p}

\* Nodes that got a copy; all that were tried did, unless a write failed.
Copied(down, V, C) ==
    /\ C \subseteq Nodes \ (V \cup down)
    /\ Cardinality(V) + Cardinality(C) <= Factor

CopiedAll(V, C) == Cardinality(V) + Cardinality(C) = Factor \/ C = Nodes \ V

RepairReplicas(down, V, S, R, C) ==
    /\ Examined(down, V, S)
    /\ Recovered(down, V, R)
    /\ Copied(down, V \cup R, C)
    /\ R \cup C \cup S # {}
    /\ content' = [p \in Places |->
                      IF p \in C THEN "ok" ELSE IF p \in S THEN "none" ELSE content[p]]
    /\ held' = R \cup C
    /\ prune' = S \ C

\* Mutant: a digest that can be read somewhere is not repaired.
RepairBeginLost ==
    /\ backing = "daemons"
    /\ Available /\ HasActiveRetention /\ Verified = {}
    /\ Acquire(Keeper, "recording")
    /\ \E S \in SUBSET (locations \ Verified), R, C \in SUBSET Nodes :
        RepairReplicas({}, {}, S, R, C) /\ CopiedAll(R, C)
    /\ UNCHANGED <<setup, rows, pending, late, objects, seal, doomed, bounds>>

RepairBegin ==
    /\ backing = "daemons"
    /\ Available /\ HasActiveRetention
    /\ Acquire(Keeper, "recording")
    /\ \E V \in SUBSET Verified, S \in SUBSET (locations \ Verified), R, C \in SUBSET Nodes :
        \/ RepairReplicas({}, V, S, R, C) /\ CopiedAll(V \cup R, C) /\ UNCHANGED faults
        \/ \E down \in SUBSET Nodes : RepairReplicas(down, V, S, R, C) /\ Fault
    /\ UNCHANGED <<setup, rows, pending, late, objects, seal, doomed, damage>>

AddLocation(p) ==
    /\ at = "recording" /\ p \in held
    /\ locations' = locations \cup {p}
    /\ held' = held \ {p}
    /\ UNCHANGED <<setup, manifest, produced, stage, claims, pending, content, late, objects,
                   seal, lease, at, prune, doomed, bounds>>

RecordedAll ==
    /\ at = "recording" /\ held = {}
    /\ at' = "pruning"
    /\ UNCHANGED <<setup, rows, pending, content, late, objects, seal, lease, held,
                   prune, doomed, bounds>>

RemoveLocation(p) ==
    /\ at = "pruning" /\ p \in prune
    /\ locations' = locations \ {p}
    /\ prune' = prune \ {p}
    /\ UNCHANGED <<setup, manifest, produced, stage, claims, pending, content, late, objects,
                   seal, lease, at, held, doomed, bounds>>

PrunedAll ==
    /\ at = "pruning" /\ prune = {}
    /\ Release
    /\ UNCHANGED <<setup, rows, pending, content, late, objects, seal, bounds>>

\* A lifecycle pass ends early: a failed call, or its web stops.
Abandon ==
    /\ lease = Keeper
    /\ Fault
    /\ Release
    /\ UNCHANGED <<setup, rows, pending, content, late, objects, seal, damage>>

(***************************************************************************)
(* The sweep of the durable store: it lists without the lease, judges each *)
(* object under it, and deletes the generation that it listed.             *)
(***************************************************************************)
ListDurableObjects ==
    /\ backing = "hangar" /\ content[Hangar] # "none" /\ age = "old"
    /\ listed # generation
    /\ listed' = generation
    /\ UNCHANGED <<setup, rows, pending, content, late, generation, age, seal,
                   callback, bounds>>

SweepJudge ==
    /\ listed # 0
    /\ ~HasManifest /\ locations = {} /\ \A s \in Sealers : stage[s] = "none"
    /\ Acquire(Keeper, "sweeping")
    /\ UNCHANGED <<setup, rows, pending, content, late, objects, seal, held, prune,
                   doomed, bounds>>

\* Mutants: the deletion is not pinned to the generation; the sweep only reports.
DeleteUnpinned ==
    /\ at = "sweeping"
    /\ content' = Erased({Hangar})
    /\ listed' = 0
    /\ Release
    /\ UNCHANGED <<setup, rows, pending, late, generation, age, seal, bounds>>

DeleteReported ==
    /\ at = "sweeping"
    /\ listed' = 0
    /\ Release
    /\ UNCHANGED <<setup, rows, pending, content, late, generation, age, seal, bounds>>

DeleteDurableObject ==
    /\ at = "sweeping"
    /\ content' = IF generation = listed THEN Erased({Hangar}) ELSE content
    /\ listed' = 0
    /\ Release
    /\ UNCHANGED <<setup, rows, pending, late, generation, age, seal, bounds>>

(***************************************************************************)
(* Claims.                                                                 *)
(***************************************************************************)
\* Pin, and CreateWithInputs of a workflow run: under the digest lease.
ClaimLeased(k) ==
    /\ k \in {"pin", "input"} \ claims
    /\ lease = Free
    /\ \E m \in Manifests : manifest[m] = "available"
    /\ claims' = claims \cup {k}
    /\ UNCHANGED <<setup, manifest, produced, stage, locations, pending, content, late, objects,
                   seal, callback, bounds>>

\* The wait or fixture finds the snapshot available ...
ClaimCheck(k) ==
    /\ k \in Unleased \ (claims \cup pending)
    /\ \E m \in Manifests : manifest[m] = "available"
    /\ pending' = pending \cup {k}
    /\ UNCHANGED <<setup, rows, content, late, objects, seal, callback, bounds>>

\* ... and its claim is inserted.
ClaimInsert(k) ==
    /\ k \in pending
    /\ pending' = pending \ {k}
    /\ claims' = claims \cup {k}
    /\ UNCHANGED <<setup, manifest, produced, stage, locations, content, late, objects, seal,
                   callback, bounds>>

\* Unpin waits for the lease; runs end and drafts change without it, and a
\* binding expires by the clock.
Unclaim(k) ==
    /\ k \in claims
    /\ k = "pin" => lease = Free
    /\ claims' = claims \ {k}
    /\ UNCHANGED <<setup, manifest, produced, stage, locations, pending, content, late, objects,
                   seal, callback, bounds>>

(***************************************************************************)
(* Time and the nodes.                                                     *)
(***************************************************************************)
StageLapses(s) ==
    /\ stage[s] = "live"
    /\ stage' = [stage EXCEPT ![s] = "lapsed"]
    /\ UNCHANGED <<setup, manifest, produced, locations, claims, pending, content, late, objects,
                   seal, callback, bounds>>

ObjectAges ==
    /\ content[Hangar] # "none" /\ age = "young"
    /\ age' = "old"
    /\ UNCHANGED <<setup, rows, pending, content, late, generation, listed, seal,
                   callback, bounds>>

\* A node loses a replica, or a bit of it.
ReplicaDamaged(p, c) ==
    /\ content[p] = "ok" /\ damage < MaxDamage
    /\ content' = [content EXCEPT ![p] = c]
    /\ damage' = damage + 1
    /\ UNCHANGED <<setup, rows, pending, late, objects, seal, callback, faults>>

Maintain ==
    \/ ExpiryBegin \/ UnrecordDeleted \/ ExpiryRecheck \/ ExpiryReclaim \/ MarkDigestExpired
    \/ \E p \in Places : DeleteLocation(p) \/ AddLocation(p) \/ RemoveLocation(p)
    \/ OrphanBegin \/ OrphanDiscard \/ RemoveStagedUploads
    \/ RecordedAll \/ PrunedAll
    \/ ListDurableObjects \/ SweepJudge \/ DeleteDurableObject

Sealing(s) == SealStage(s) \/ SealReuse(s) \/ SealPut(s) \/ CommitSealBatch(s)

Next ==
    \/ Maintain
    \/ RepairBegin
    \/ DeletePartly \/ Abandon
    \/ \E s \in Sealers : Sealing(s) \/ SealFails(s) \/ SealPutFails(s) \/ StageLapses(s)
    \/ \E p \in Places : LateUpload(p)
    \/ \E k \in Classes :
        ClaimLeased(k) \/ ClaimCheck(k) \/ ClaimInsert(k) \/ Unclaim(k)
    \/ ObjectAges
    \/ \E p \in Nodes, c \in {"none", "bad"} : ReplicaDamaged(p, c)

Spec == Init /\ [][Next]_vars

\* What happens by itself: calls under way arrive, and time passes.
Elapse ==
    \/ \E p \in Places : LateUpload(p)
    \/ \E s \in Sealers : StageLapses(s)
    \/ ObjectAges
    \/ Unclaim("binding")

\* A callback runs to its end or fails, and the passes keep being scheduled.
\* Nobody has to seal, claim or unclaim.
Fairness ==
    /\ WF_vars(Maintain)
    /\ WF_vars(RepairBegin)
    /\ WF_vars(\E s \in Sealers : lease = s /\ (Sealing(s) \/ SealFails(s)))
    /\ WF_vars(Elapse)

FairSpec == Spec /\ Fairness

-----------------------------------------------------------------------------
RowsType ==
    /\ output \in [Sealers -> Outputs]
    /\ backing \in {"hangar", "daemons"}
    /\ manifest \in [Manifests -> {"none", "available", "expired"}]
    /\ produced \subseteq Outputs
    /\ stage \in [Sealers -> {"none", "live", "lapsed"}]
    /\ locations \subseteq Store
    /\ claims \subseteq Leased \cup Unleased
    /\ pending \subseteq Unleased

ObjectsType ==
    /\ content \in [Places -> {"none", "ok", "bad"}]
    /\ late \subseteq Store
    /\ generation \in Nat /\ listed \in 0..generation
    /\ age \in {"young", "old"}

CallbackType ==
    /\ seal \in [Sealers -> {"new", "open", "done", "failed"}]
    /\ lease \in Sealers \cup {Free, Keeper}
    /\ at \in Phases
    /\ held \subseteq Store /\ prune \subseteq Store
    /\ doomed \subseteq Sealers
    /\ faults \in 0..MaxFaults /\ damage \in 0..MaxDamage

TypeOK == RowsType /\ ObjectsType /\ CallbackType

\* The lease and the phases of its holder.
LeaseOK ==
    /\ lease = Free <=> at = "free"
    /\ lease \in Sealers <=> at \in {"staged", "stored"}
    /\ \A s \in Sealers : seal[s] = "open" <=> lease = s
    /\ at \notin {"stored", "unrecording", "recording"} => held = {}
    /\ at \notin {"recording", "pruning"} => prune = {}
    /\ at # "cleaning" /\ at # "discarding" => doomed = {}

\* The lifecycle's handling of a digest is consistent: only the holder of the
\* lease is inside a callback, a collection is under way only of content that
\* no claim taken under the lease retains, a discard or a sweep only of content
\* without manifest, and a repair always knows a readable copy that it keeps.
PhaseOK ==
    /\ at \in {"deleting", "unrecording", "reclaiming", "expiring"} =>
        Available /\ claims \cap Leased = {}
    /\ at \in {"reclaiming", "expiring"} => locations = {}
    /\ at \in {"discarding", "sweeping"} => ~HasManifest
    /\ at \in {"recording", "pruning"} =>
        /\ Available
        /\ damage = 0 => \E p \in (locations \cup held) \ prune : content[p] = "ok"
    /\ at = "stored" => held # {} /\ (damage = 0 => \A p \in held : content[p] = "ok")

\* Without a manifest there is nothing to locate or to claim, and when all
\* manifests have expired no location is recorded.
RowsOK ==
    /\ ~HasManifest => claims = {} /\ pending = {}
    /\ (\A m \in Manifests : manifest[m] # "available") => locations = {}

\* An object that was listed was old, and still is if it is the same one.
ListedOK == (listed # 0 /\ listed = generation => age = "old") /\ (at = "sweeping" => listed # 0)

SnapshotInv == TypeOK /\ LeaseOK /\ PhaseOK /\ RowsOK /\ ListedOK

\* The manifests of a team that share the digest never disagree on whether the
\* content is there: MarkDigestExpired moves all that are available, and a seal
\* brings back every one of its team (CommitSealBatch).  Those of two teams may:
\* a seal leaves what expired of another team expired.
SiblingsCoherent ==
    \A m, n \in Manifests :
        m[1] = n[1] /\ manifest[m] # "none" /\ manifest[n] # "none" =>
            manifest[m] = manifest[n]

\* While the claim that its seal made is in force, a sealed output can be read
\* at a recorded location, whatever collections, sweeps, repairs and other
\* seals do, unless a node loses a replica.
SealedContentReadable == "binding" \in claims /\ damage = 0 => Verified # {}

\* No step of a collection, repair, sweep or seal takes the last readable copy
\* of a digest that is retained by a claim taken under the digest lease.
RetainedStaysReadable ==
    [][Verified # {} /\ claims \cap claims' \cap Leased # {} /\ damage' = 0
        => Verified' # {}]_vars

\* The digest keeps the contract of SnapshotContract: its content can be read
\* from a seal on for as long as a claim taken under the lease retains it, and
\* its manifests expire only unretained and unreadable, whatever seals,
\* collections, repairs and sweeps do between their calls.
Contract ==
    INSTANCE SnapshotContract
    WITH Claims <- Leased \cup Unleased, Lasting <- Leased, record <- manifest,
         recorded <- produced, retained <- claims, readable <- (Verified # {}), damages <- damage

KeepsSnapshotContract == Contract!Spec

\* The sweep never takes an object that is younger than the minimum age, even
\* when one arrives in place of the object it has listed and judged.
YoungObjectKept ==
    [][at = "sweeping" /\ content[Hangar] # "none" /\ content'[Hangar] = "none"
        => age = "old"]_vars

\* Content that nobody retains and nobody seals expires, that of a seal which was
\* replayed after its claim had expired included.  It stays when the manifests of
\* two teams disagree: every transaction on such a digest is refused.
UnretainedExpires ==
    <>[](claims = {})
        => []<>(~Coherent \/ \A m \in Manifests : manifest[m] # "available")

\* What failed and abandoned uploads leave in the durable store goes away,
\* unless a manifest was made in the meantime.
OrphansReclaimed == <>[](HasManifest \/ content[Hangar] = "none")

\* A retained digest that can be read, and whose manifests agree, gets its
\* replicas back.
ReplicasRestored ==
    <>[](/\ backing = "daemons" /\ Coherent
         /\ claims \cap {"pin", "input"} # {} /\ Verified # {})
        => []<>(Cardinality(Verified) >= Factor \/ Verified = Nodes)
=============================================================================

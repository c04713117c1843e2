------------------------ MODULE ArtifactDaemonWaits -------------------------
(***************************************************************************)
(* Requests and the sweeper of the artifact daemon never wait for each     *)
(* other in a circle, for any set of requests, paths and handles: a rank   *)
(* grows along every wait.                                                 *)
(***************************************************************************)
EXTENDS ArtifactDaemonProofs, FiniteSetTheorems

USE DEF disk, guard, registry, local, request, sweeper

(* A rank that grows along every wait: a handle before the handles after   *)
(* it, on each handle those who come before the one that is announced      *)
(* before those who hold it, then persistMu, then whoever waits for        *)
(* nothing.                                                                *)
Last == CHOOSE last \in Handles : \A h \in Handles : h <= last
Coming(h) == 2 * h + 1
Awaiting(h) == 2 * h + 2
Mutating == 2 * Last + 3
Free == 2 * Last + 4

RequestRank(r) ==
  CASE pc[r] \in {"get", "mirror", "delete"} -> Coming(HKey(r))
    [] pc[r] = "reopen" -> Coming(HSrc(r))
    [] pc[r] = "first" -> Coming(FirstHandle(r))
    [] pc[r] = "second" -> Coming(SecondHandle(r))
    [] pc[r] = "peer" -> Coming(HAt(r))
    [] pc[r] = "wait" -> Awaiting(HKey(r))
    [] pc[r] \in {"drop", "alias"} -> Mutating
    [] OTHER -> Free

SweeperRank ==
  CASE spc = "pick" -> 0
    [] spc = "wait" -> Awaiting(cur)
    [] spc = "forget" -> Mutating
    [] OTHER -> Free

Rank(a) == IF a = Sweeper THEN SweeperRank ELSE RequestRank(a)

(* There is a last handle. *)
LEMMA LastOf == Last \in Handles /\ Last \in Nat /\ \A h \in Handles : h \in Nat /\ h <= Last
  BY LastAssumption, PathAssumption, Zenon DEF Last

(* Ranks are numbers, and no handle's reaches the persistMu's. *)
LEMMA RankBounds ==
  /\ Free \in Nat /\ Mutating \in 0..Free /\ Mutating < Free
  /\ \A h \in Handles : /\ Coming(h) \in 0..Free /\ Awaiting(h) \in 0..Free
                        /\ Coming(h) < Awaiting(h) /\ Awaiting(h) < Mutating
                        /\ 0 < Coming(h)
  /\ \A g, h \in Handles : g < h => Awaiting(g) < Coming(h)
  BY LastOf DEF Coming, Awaiting, Mutating, Free

(* A rank is bounded. *)
LEMMA RankTyped ==
  ASSUME TypeOK, NEW a \in Actors PROVE Rank(a) \in 0..Free
  <1>1. CASE a = Sweeper
    <2>1. cur \in Handles
      BY DEF TypeOK, SweeperType
    <2> QED
      BY <1>1, <2>1, RankBounds DEF Rank, SweeperRank
  <1>2. CASE a \in Requests
    <2>1. RequestRank(a) \in 0..Free
      BY <1>2, Named, PairNamed, RankBounds DEF RequestRank
    <2> QED
      BY <1>2, <2>1, SweeperAssumption DEF Rank
  <1> QED
    BY <1>1, <1>2 DEF Actors

(* Whoever holds a handle waits, if at all, for a later one or for the     *)
(* persistMu.                                                              *)
LEMMA HolderRank ==
  ASSUME DaemonInv, NEW h \in Handles, NEW a \in readers[h] \cup writers[h]
  PROVE Awaiting(h) < Rank(a)
  <1>1. AtWork(a, h) /\ a \in Actors /\ TypeOK
    BY DEF GuardInv, DaemonInv, TypeOK, GuardType
  <1>2. CASE a = Sweeper
    <2>1. spc \in {"stat", "removing", "forget", "save"}
      BY <1>1, <1>2, Zenon DEF AtWork
    <2>2. Rank(a) = Mutating \/ Rank(a) = Free
      BY <1>2, <2>1 DEF Rank, SweeperRank
    <2> QED
      BY <2>2, RankBounds
  <1>3. CASE a \in Requests /\ pc[a] \in Working
    <2>1. RequestRank(a) = Mutating \/ RequestRank(a) = Free
      BY <1>3 DEF RequestRank, Working
    <2> QED
      BY <1>3, <2>1, RankBounds, SweeperAssumption DEF Rank
  <1>4. CASE a \in Requests /\ pc[a] = "second" /\ h = FirstHandle(a)
    <2>1. HSrc(a) # HAt(a)
      BY <1>4, Zenon DEF DaemonInv, HeldInv, Held
    <2>2. FirstHandle(a) < SecondHandle(a) /\ SecondHandle(a) \in Handles
      <3>1. HSrc(a) \in Handles /\ HAt(a) \in Handles
        BY <1>1, <1>4, Named, Zenon
      <3>2. HSrc(a) \in Nat /\ HAt(a) \in Nat
        BY <3>1, LastOf, Zenon
      <3> QED
        BY <2>1, <3>1, <3>2 DEF FirstHandle, SecondHandle
    <2>3. Rank(a) = Coming(SecondHandle(a))
      BY <1>4, SweeperAssumption DEF Rank, RequestRank
    <2> QED
      BY <1>4, <2>2, <2>3, RankBounds
  <1> QED
    BY <1>1, <1>2, <1>3, <1>4, RequestWork, Zenon DEF Actors

(* Who is announced on a handle waits for those who hold it. *)
LEMMA AnnouncedRank ==
  ASSUME DaemonInv, NEW h \in Handles, NEW a \in waiting[h]
  PROVE Rank(a) = Awaiting(h)
  <1>1. Announced(a, h) /\ a \in Actors
    BY DEF GuardInv, DaemonInv, TypeOK, GuardType
  <1>2. CASE a = Sweeper
    BY <1>1, <1>2 DEF Announced, Rank, SweeperRank
  <1>3. CASE a \in Requests
    BY <1>1, <1>3, SweeperAssumption DEF Announced, Rank, RequestRank
  <1> QED
    BY <1>1, <1>2, <1>3 DEF Actors

(* Who holds the persistMu saves, and waits for nothing. *)
LEMMA SaverRank ==
  ASSUME DaemonInv, NEW a \in saver PROVE a \in Actors /\ Rank(a) = Free
  <1>1. a \in Actors
    BY DEF DaemonInv, TypeOK, RegistryType
  <1>2. CASE a = Sweeper
    <2>1. spc = "save"
      BY <1>2, Zenon DEF DaemonInv, SaveInv
    <2> QED
      BY <1>1, <1>2, <2>1 DEF Rank, SweeperRank
  <1>3. CASE a \in Requests
    <2>1. pc[a] = "save"
      BY <1>3, Zenon DEF DaemonInv, SaveInv
    <2> QED
      BY <1>1, <1>3, <2>1, SweeperAssumption DEF Rank, RequestRank
  <1> QED
    BY <1>1, <1>2, <1>3 DEF Actors

(* Whoever keeps an actor from a handle has the higher rank. *)
LEMMA HandleAscends ==
  ASSUME DaemonInv, NEW h \in Handles, NEW b \in WriteBlockers(h)
  PROVE /\ b \in Actors /\ Coming(h) < Rank(b) /\ 0 < Rank(b)
        /\ b \in readers[h] \cup writers[h] => Awaiting(h) < Rank(b)
  <1>1. b \in Actors /\ TypeOK
    BY DEF WriteBlockers, ReadBlockers, DaemonInv, TypeOK, GuardType
  <1>2. Rank(b) \in Int /\ Coming(h) \in Int /\ Awaiting(h) \in Int
    BY <1>1, RankTyped, RankBounds
  <1>3. CASE b \in readers[h] \cup writers[h]
    BY <1>1, <1>2, <1>3, HolderRank, RankBounds
  <1>4. CASE b \in waiting[h]
    <2>1. Rank(b) = Awaiting(h)
      BY <1>4, AnnouncedRank
    <2>2. b \in readers[h] \cup writers[h] => Awaiting(h) < Rank(b)
      BY HolderRank
    <2> QED
      BY <1>1, <1>2, <2>1, <2>2, RankBounds
  <1> QED
    BY <1>3, <1>4 DEF WriteBlockers, ReadBlockers

(* Waiting for a side of a handle. *)
LEMMA SideAscends ==
  ASSUME DaemonInv, NEW h \in Handles, NEW b
  PROVE /\ b \in ReadBlockers(h) => b \in Actors /\ Coming(h) < Rank(b)
        /\ \A r : b \in LockBlockers(r, h) => b \in Actors /\ Coming(h) < Rank(b)
  BY HandleAscends, Zenon DEF WriteBlockers, ReadBlockers, LockBlockers

(* A request waits only for those of higher rank. *)
LEMMA RequestAscends ==
  ASSUME DaemonInv, NEW r \in Requests, NEW b \in RequestBlockers(r)
  PROVE b \in Actors /\ RequestRank(r) < Rank(b)
  <1> /\ HKey(r) \in Handles /\ HSrc(r) \in Handles /\ HAt(r) \in Handles
      /\ FirstHandle(r) \in Handles /\ SecondHandle(r) \in Handles
    BY Named, PairNamed DEF DaemonInv
  <1>1. CASE pc[r] \in {"get", "mirror", "delete"}
    <2>1. b \in ReadBlockers(HKey(r)) /\ RequestRank(r) = Coming(HKey(r))
      BY <1>1 DEF RequestBlockers, RequestRank
    <2> QED
      BY <2>1, SideAscends, Zenon
  <1>2. CASE pc[r] = "reopen"
    <2>1. b \in ReadBlockers(HSrc(r)) /\ RequestRank(r) = Coming(HSrc(r))
      BY <1>2 DEF RequestBlockers, RequestRank
    <2> QED
      BY <2>1, SideAscends, Zenon
  <1>3. CASE pc[r] = "first"
    <2>1. b \in LockBlockers(r, FirstHandle(r)) /\ RequestRank(r) = Coming(FirstHandle(r))
      BY <1>3 DEF RequestBlockers, RequestRank
    <2> QED
      BY <2>1, SideAscends, Zenon
  <1>4. CASE pc[r] = "second"
    <2>1. b \in LockBlockers(r, SecondHandle(r)) /\ RequestRank(r) = Coming(SecondHandle(r))
      BY <1>4 DEF RequestBlockers, RequestRank
    <2> QED
      BY <2>1, SideAscends, Zenon
  <1>5. CASE pc[r] = "peer"
    <2>1. b \in WriteBlockers(HAt(r)) /\ RequestRank(r) = Coming(HAt(r))
      BY <1>5 DEF RequestBlockers, RequestRank
    <2> QED
      BY <2>1, HandleAscends, Zenon
  <1>6. CASE pc[r] = "wait"
    <2>1. b \in readers[HKey(r)] \cup writers[HKey(r)] /\ RequestRank(r) = Awaiting(HKey(r))
      BY <1>6 DEF RequestBlockers, RequestRank
    <2> QED
      BY <2>1, HandleAscends, Zenon DEF WriteBlockers, ReadBlockers
  <1>7. CASE pc[r] \in {"drop", "alias"}
    <2>1. b \in saver /\ RequestRank(r) = Mutating
      BY <1>7 DEF RequestBlockers, RequestRank
    <2>2. b \in Actors /\ Rank(b) = Free
      BY <2>1, SaverRank, Zenon
    <2> QED
      BY <2>1, <2>2, RankBounds, Zenon
  <1> QED
    BY <1>1, <1>2, <1>3, <1>4, <1>5, <1>6, <1>7 DEF RequestBlockers

(* So does the sweeper. *)
LEMMA SweeperAscends ==
  ASSUME DaemonInv, NEW b \in SweeperBlockers
  PROVE b \in Actors /\ SweeperRank < Rank(b)
  <1> cur \in Handles /\ todo \in SUBSET Handles
    BY Zenon DEF DaemonInv, TypeOK, SweeperType
  <1>1. CASE spc = "pick"
    <2>1. SweeperRank = 0 /\ \E h \in todo : b \in ReadBlockers(h)
      BY <1>1 DEF SweeperBlockers, SweeperRank
    <2>2. PICK h \in Handles : b \in ReadBlockers(h)
      BY <2>1, Zenon
    <2> QED
      BY <2>1, <2>2, HandleAscends, Zenon DEF WriteBlockers
  <1>2. CASE spc = "wait"
    <2>1. b \in readers[cur] \cup writers[cur] /\ SweeperRank = Awaiting(cur)
      BY <1>2 DEF SweeperBlockers, SweeperRank
    <2> QED
      BY <2>1, HandleAscends, Zenon DEF WriteBlockers, ReadBlockers
  <1>3. CASE spc = "forget"
    <2>1. b \in saver /\ SweeperRank = Mutating
      BY <1>3 DEF SweeperBlockers, SweeperRank
    <2>2. b \in Actors /\ Rank(b) = Free
      BY <2>1, SaverRank, Zenon
    <2> QED
      BY <2>1, <2>2, RankBounds, Zenon
  <1> QED
    BY <1>1, <1>2, <1>3 DEF SweeperBlockers

(* A set of numbers that is bounded has a largest: its up-sets are finite,  *)
(* and among finite sets strict inclusion is well-founded.                 *)
LEMMA LargestOf ==
  ASSUME NEW T, NEW B \in Nat, T \subseteq 0..B, T # {} PROVE \E x \in T : \A y \in T : y <= x
  <1> DEFINE D == {(t..B) : t \in T}
  <1>1. D \subseteq FiniteSubsetsOf(Nat) /\ D # {}
    <2>1. ASSUME NEW t \in T PROVE (t..B) \in FiniteSubsetsOf(Nat)
      BY FS_Interval DEF FiniteSubsetsOf
    <2> QED
      BY <2>1, Zenon
  <1>2. PICK d \in D : \A e \in D : ~(<<e, d>> \in StrictSubsetOrdering(Nat))
    BY <1>1, WFMin, FS_StrictSubsetOrderingWellFounded, Zenon
  <1>3. PICK x \in T : d = x..B
    OBVIOUS
  <1>4. ASSUME NEW y \in T PROVE y <= x
    <2>1. ~ (<<(y..B), (x..B)>> \in StrictSubsetOrdering(Nat))
      BY <1>2, <1>3, Zenon
    <2>2. (y..B) \in SUBSET Nat /\ (x..B) \in SUBSET Nat
      OBVIOUS
    <2>3. (y..B) \subseteq (x..B) => (y..B) = (x..B)
      BY <2>1, <2>2 DEF StrictSubsetOrdering
    <2>4. x \in x..B
      OBVIOUS
    <2>5. CASE x < y
      BY <2>3, <2>4, <2>5
    <2> QED
      BY <2>5
  <1> QED
    BY <1>4

(* Ranks grow along the waits and are bounded, so nobody waits in a circle. *)
LEMMA Unblocked == ASSUME DaemonInv PROVE NoCircularWait
  <1> SUFFICES ASSUME NEW S \in SUBSET Actors, S # {} PROVE \E a \in S : Blockers(a) \cap S = {}
    BY Zenon DEF NoCircularWait
  <1> DEFINE T == {Rank(a) : a \in S}
  <1>1. ASSUME NEW a \in S, NEW b \in Blockers(a) PROVE Rank(a) < Rank(b)
    BY <1>1, RequestAscends, SweeperAscends, Zenon DEF Blockers, Rank, Actors
  <1>2. T \subseteq 0..Free /\ T # {} /\ Free \in Nat
    BY RankTyped, RankBounds, Zenon DEF DaemonInv
  <1>3. PICK t \in T : \A u \in T : u <= t
    <2> HIDE DEF T
    <2> QED
      BY <1>2, LargestOf, Zenon
  <1>4. PICK a \in S : t = Rank(a)
    OBVIOUS
  <1>5. ASSUME NEW b \in Blockers(a) \cap S PROVE FALSE
    <2>1. Rank(a) < Rank(b) /\ Rank(b) <= Rank(a)
      BY <1>1, <1>3, <1>4, <1>5, ZenonT(30)
    <2>2. Rank(a) \in Int /\ Rank(b) \in Int
      BY <1>2, <1>5
    <2> QED
      BY <2>1, <2>2
  <1> QED
    BY <1>5, Zenon

(* Requests and the sweeper never wait for each other in a circle, through *)
(* any number of handles and persistMu: resolves take their two handles in *)
(* order, and nobody waits for a handle while it saves.                    *)
THEOREM NobodyDeadlocks == Spec => []NoCircularWait
  <1>1. DaemonInv => NoCircularWait
    BY Unblocked, Zenon
  <1> QED
    BY <1>1, DaemonInvariant, PTL

=============================================================================

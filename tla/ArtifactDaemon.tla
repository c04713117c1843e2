--------------------------- MODULE ArtifactDaemon ---------------------------
(***************************************************************************)
(* The artifact daemon of one node (cmd/artifact-daemon).  Artifacts are   *)
(* directories steps/{handle}/{output}.  Requests read them (GET, mirror,  *)
(* resolve), publish them (stream-in, resolve) and delete them while the   *)
(* TTL sweeper removes whole handles; all of them meet in the ReadGuard, a *)
(* readers/writer lock per handle.  The registry maps keys to paths in     *)
(* memory; the aliases among them are saved to a file and survive a        *)
(* restart.                                                                *)
(*                                                                         *)
(* A path is a number and is its own canonical key; HandleOf gives the     *)
(* handle above it, and the order of the handles is the lexical order of   *)
(* their names.  0 stands for "no path".                                   *)
(***************************************************************************)
EXTENDS Naturals

CONSTANTS
  Requests,     \* HTTP requests and mirror jobs, each served once
  Sweeper,      \* the goroutine of the TTL sweeper
  Paths,        \* steps/{handle}/{output} directories
  Handles,      \* the handles, as numbers
  HandleOf,     \* the handle of a path
  OpsOf,        \* per request, what it may ask: kind, key and a second path
  Outputs,      \* the paths that are there when the daemon starts
  Saved,        \* what aliases.json may hold then
  MaxTries,     \* bound of the registry retry loops (8 in the code)
  MaxFaults     \* bound of failed removals, interrupted publications, restarts

Actors == Requests \cup {Sweeper}
Kinds == {"get", "mirror", "resolve", "streamin", "delete", "register"}
None == 0

Ops == [kind : Kinds, key : Paths, at : Paths]
Aliases == [Paths -> Paths \cup {None}]

ASSUME SweeperAssumption == Sweeper \notin Requests
ASSUME PathAssumption ==
  /\ Handles \subseteq Nat /\ Handles # {} /\ Paths \subseteq Nat \ {0}
  /\ HandleOf \in [Paths -> Handles]
(* Handles are UUIDs: there is a last one in the order of their names. *)
ASSUME LastAssumption == \E last \in Handles : \A h \in Handles : h <= last
ASSUME OpsAssumption == OpsOf \in [Requests -> SUBSET Ops]
ASSUME DiskAssumption == Outputs \subseteq Paths /\ Saved \subseteq Aliases
ASSUME BoundAssumption == MaxTries \in Nat /\ MaxFaults \in Nat

VARIABLES
  tree,       \* per path: "none", "whole", or "torn" (some of its entries are gone)
  old,        \* per handle: the mtime of its directory is before the cutoff
  readers,    \* per handle: holders of the shared side of the guard
  writers,    \* per handle: holder of the exclusive side
  waiting,    \* per handle: the writer that called Lock and waits out the readers
  entries,    \* the registry
  aliases,    \* its entries that came from POST /register
  file,       \* aliases.json
  saver,      \* holder of persistMu, between a mutation and its save
  snap,       \* per actor: the copy of the aliases it is about to save
  unsaved,    \* the last save has failed
  pc, op,     \* per request: where it is and what it does
  src,        \* per request: the path it opened or is going to open
  registered, \* per request: a resolve found src in the registry
  tries,      \* per request: rounds of the retry loop
  spc, todo, cur, \* the sweeper: where it is, handles left in this pass, its handle
  faults

disk == <<tree, old>>
guard == <<readers, writers, waiting>>
registry == <<entries, aliases, file, saver, snap, unsaved>>
local == <<op, src, registered, tries>>
request == <<pc, local>>
sweeper == <<spc, todo, cur>>
vars == <<tree, old, readers, writers, waiting, entries, aliases, file, saver, snap,
          unsaved, pc, op, src, registered, tries, spc, todo, cur, faults>>

NoAliases == [k \in Paths |-> None]

Present(h) == \E p \in Paths : HandleOf[p] = h /\ tree[p] # "none"
Key(r) == op[r].key
At(r) == op[r].at
HSrc(r) == HandleOf[src[r]]
HAt(r) == HandleOf[At(r)]
HKey(r) == HandleOf[Key(r)]

-----------------------------------------------------------------------------
(* The saved aliases whose path exists (AliasStore.Load). *)
Valid(f) == [k \in Paths |-> IF f[k] # None /\ tree[f[k]] # "none" THEN f[k] ELSE None]

(* A daemon that has started and loaded its aliases.  Of the outputs on    *)
(* disk some were found by the scan, the others written by steps since.    *)
Init ==
  /\ tree = [p \in Paths |-> IF p \in Outputs THEN "whole" ELSE "none"]
  /\ old = [h \in Handles |-> FALSE]
  /\ readers = [h \in Handles |-> {}]
  /\ writers = [h \in Handles |-> {}]
  /\ waiting = [h \in Handles |-> {}]
  /\ file \in Saved /\ aliases = Valid(file)
  /\ \E found \in SUBSET Outputs :
       entries = [k \in Paths |-> IF aliases[k] # None THEN aliases[k]
                                  ELSE IF k \in found THEN k ELSE None]
  /\ saver = {} /\ snap = [a \in Actors |-> NoAliases] /\ unsaved = FALSE
  /\ pc = [r \in Requests |-> "idle"]
  /\ op \in {o \in [Requests -> UNION {OpsOf[r] : r \in Requests}] :
                \A r \in Requests : o[r] \in OpsOf[r]}
  /\ src = [r \in Requests |-> Key(r)]
  /\ registered = [r \in Requests |-> FALSE]
  /\ tries = [r \in Requests |-> 0]
  /\ spc = "idle" /\ todo = {} /\ cur = CHOOSE h \in Handles : TRUE
  /\ faults = 0

(* The request reaches its handler. *)
Arrive(r) ==
  /\ pc[r] = "idle"
  /\ pc' = [pc EXCEPT ![r] = op[r].kind]
  /\ UNCHANGED <<disk, guard, registry, local, sweeper, faults>>

-----------------------------------------------------------------------------
(* The guard: a Go RWMutex per handle.  A writer that waits in Lock holds  *)
(* the inner mutex and keeps new readers out; TryLock needs both free.     *)
CanRead(h) == writers[h] = {} /\ waiting[h] = {}

CanWriteOverReaders(h) == writers[h] = {} /\ waiting[h] = {}
CanWrite(h) == writers[h] = {} /\ waiting[h] = {} /\ readers[h] = {}

Grant(lock, h, a) == [lock EXCEPT ![h] = @ \cup {a}]

(* Give back whatever the actor holds or waits for. *)
Release(a) ==
  /\ readers' = [h \in Handles |-> readers[h] \ {a}]
  /\ writers' = [h \in Handles |-> writers[h] \ {a}]
  /\ waiting' = [h \in Handles |-> waiting[h] \ {a}]

(* The request answers and its deferred releases run. *)
End(r) == pc' = [pc EXCEPT ![r] = "done"] /\ Release(r)

Step(r, at) == pc' = [pc EXCEPT ![r] = at] /\ UNCHANGED guard

-----------------------------------------------------------------------------
(* Reads.                                                                  *)

(* The source is open under the shared side; the walk streams it. *)
StartRead(r, p) ==
  /\ readers' = Grant(readers, HandleOf[p], r)
  /\ src' = [src EXCEPT ![r] = p]
  /\ pc' = [pc EXCEPT ![r] = "walk"]
  /\ UNCHANGED <<tree, writers, waiting, registry, op, registered, tries, sweeper, faults>>

(* GET: first the canonical path.  An open source is touched. *)
GetOpen(r) ==
  /\ pc[r] = "get" /\ CanRead(HKey(r))
  /\ \/ /\ tree[Key(r)] # "none"
        /\ StartRead(r, Key(r))
        /\ old' = [old EXCEPT ![HKey(r)] = FALSE]
     \/ /\ tree[Key(r)] = "none"
        /\ Step(r, "lookup")
        /\ UNCHANGED <<disk, registry, local, sweeper, faults>>

(* ... then the registry. *)
GetLookup(r) ==
  /\ pc[r] = "lookup"
  /\ \/ /\ entries[Key(r)] = None
        /\ End(r)
        /\ UNCHANGED src
     \/ /\ entries[Key(r)] # None
        /\ src' = [src EXCEPT ![r] = entries[Key(r)]]
        /\ Step(r, "reopen")
  /\ UNCHANGED <<disk, registry, op, registered, tries, sweeper, faults>>

(* One more round of a retry loop, or its error. *)
Retry(r, from) ==
  /\ tries' = [tries EXCEPT ![r] = @ + 1]
  /\ pc' = [pc EXCEPT ![r] = IF tries[r] + 1 >= MaxTries THEN "done" ELSE from]
  /\ Release(r)
  /\ UNCHANGED <<disk, registry, op, src, registered, sweeper, faults>>

(* Existence is validated before the guard is taken, not under it. *)
GetReopenUnguarded(r) ==
  /\ pc[r] = "reopen"
  /\ \/ entries[Key(r)] # src[r] /\ Retry(r, "lookup")
     \/ /\ entries[Key(r)] = src[r] /\ tree[src[r]] = "none"
        /\ pc' = [pc EXCEPT ![r] = "drop"]
        /\ UNCHANGED <<disk, guard, registry, local, sweeper, faults>>
     \/ /\ entries[Key(r)] = src[r] /\ tree[src[r]] # "none" /\ CanRead(HSrc(r))
        /\ StartRead(r, src[r])
        /\ old' = [old EXCEPT ![HSrc(r)] = FALSE]

(* The mapping and the directory are checked again under the guard. *)
GetReopen(r) ==
  /\ pc[r] = "reopen" /\ CanRead(HSrc(r))
  /\ \/ entries[Key(r)] # src[r] /\ Retry(r, "lookup")
     \/ /\ entries[Key(r)] = src[r] /\ tree[src[r]] = "none"
        /\ readers' = Grant(readers, HSrc(r), r)
        /\ pc' = [pc EXCEPT ![r] = "drop"]
        /\ UNCHANGED <<disk, writers, waiting, registry, local, sweeper, faults>>
     \/ /\ entries[Key(r)] = src[r] /\ tree[src[r]] # "none"
        /\ StartRead(r, src[r])
        /\ old' = [old EXCEPT ![HSrc(r)] = FALSE]

(* A mirror job walks the canonical path and touches nothing. *)
MirrorOpen(r) ==
  /\ pc[r] = "mirror" /\ CanRead(HKey(r))
  /\ \/ tree[Key(r)] # "none" /\ StartRead(r, Key(r)) /\ UNCHANGED old
     \/ /\ tree[Key(r)] = "none" /\ End(r)
        /\ UNCHANGED <<disk, registry, local, sweeper, faults>>

(* The tar stream ends. *)
Served(r) ==
  /\ pc[r] = "walk"
  /\ End(r)
  /\ UNCHANGED <<disk, registry, local, sweeper, faults>>

-----------------------------------------------------------------------------
(* The registry.  Mutations of aliases hold persistMu through the save of  *)
(* the copy they took.                                                     *)
Mutate(a, e, al) ==
  /\ entries' = e /\ aliases' = al
  /\ IF al # aliases THEN saver' = saver \cup {a} /\ snap' = [snap EXCEPT ![a] = al]
                     ELSE UNCHANGED <<saver, snap>>
  /\ UNCHANGED <<file, unsaved>>

(* A save that fails is logged, and left at that. *)
Save(a) ==
  /\ a \in saver
  /\ \/ file' = snap[a] /\ unsaved' = FALSE
     \/ file' = file /\ unsaved' = TRUE
  /\ saver' = saver \ {a}
  /\ snap' = [snap EXCEPT ![a] = NoAliases]
  /\ UNCHANGED <<entries, aliases>>

(* RemoveIf under the guard, for a GET as for a resolve. *)
RemoveIf(r) ==
  /\ pc[r] = "drop" /\ saver = {}
  /\ Mutate(r, [entries EXCEPT ![Key(r)] = IF @ = src[r] THEN None ELSE @],
               [aliases EXCEPT ![Key(r)] = IF entries[Key(r)] = src[r] THEN None ELSE @])
  /\ \/ saver' # {} /\ Step(r, "save")
     \/ saver' = {} /\ End(r)
  /\ UNCHANGED <<disk, local, sweeper, faults>>

SaveAliases(r) ==
  /\ pc[r] = "save"
  /\ Save(r) /\ End(r)
  /\ UNCHANGED <<disk, local, sweeper, faults>>

(* POST /register: the path exists, without the guard ... *)
RegisterCheck(r) ==
  /\ pc[r] = "register"
  /\ \/ tree[At(r)] = "none" /\ End(r)
     \/ tree[At(r)] # "none" /\ Step(r, "alias")
  /\ UNCHANGED <<disk, registry, local, sweeper, faults>>

(* ... and the alias is recorded; it is saved even when it was there. *)
RegisterAlias(r) ==
  /\ pc[r] = "alias" /\ saver = {}
  /\ entries' = [entries EXCEPT ![Key(r)] = At(r)]
  /\ aliases' = [aliases EXCEPT ![Key(r)] = At(r)]
  /\ saver' = {r} /\ snap' = [snap EXCEPT ![r] = aliases']
  /\ Step(r, "save")
  /\ UNCHANGED <<file, unsaved, disk, local, sweeper, faults>>

-----------------------------------------------------------------------------
(* Resolve: copy the artifact of a key into the directory At.              *)

(* Admission: a free slot of resolveSlots, or "busy".  The slots are shared  *)
(* with resolves other than the ones followed here.                        *)
Admit(r) ==
  /\ pc[r] = "resolve"
  /\ Step(r, "find") \/ End(r)
  /\ UNCHANGED <<disk, registry, local, sweeper, faults>>

(* The registered path, or the canonical one. *)
Find(r) ==
  /\ pc[r] = "find"
  /\ registered' = [registered EXCEPT ![r] = entries[Key(r)] # None]
  /\ src' = [src EXCEPT ![r] = IF entries[Key(r)] # None THEN entries[Key(r)] ELSE Key(r)]
  /\ Step(r, "first")
  /\ UNCHANGED <<disk, registry, op, tries, sweeper, faults>>

(* BeginResolveContext takes the two handles in the order of their names,  *)
(* the source shared and the destination exclusive.                        *)
SourceFirst(r) == HSrc(r)
FirstHandle(r) == IF HAt(r) < HSrc(r) THEN HAt(r) ELSE HSrc(r)

SecondHandle(r) == IF FirstHandle(r) = HSrc(r) THEN HAt(r) ELSE HSrc(r)

LockFor(r, h) ==
  \/ /\ h = HAt(r) /\ CanWrite(h)
     /\ writers' = Grant(writers, h, r) /\ UNCHANGED <<readers, waiting>>
  \/ /\ h # HAt(r) /\ CanRead(h)
     /\ readers' = Grant(readers, h, r) /\ UNCHANGED <<writers, waiting>>

LockFirst(r) ==
  /\ pc[r] = "first"
  /\ LockFor(r, FirstHandle(r))
  /\ pc' = [pc EXCEPT ![r] = IF HSrc(r) = HAt(r) THEN "paired" ELSE "second"]
  /\ UNCHANGED <<disk, registry, local, sweeper, faults>>

LockSecond(r) ==
  /\ pc[r] = "second"
  /\ LockFor(r, SecondHandle(r))
  /\ pc' = [pc EXCEPT ![r] = "paired"]
  /\ UNCHANGED <<disk, registry, local, sweeper, faults>>

(* Under both: the mapping is still the one that was looked up. *)
Unchanged(r) ==
  IF registered[r] THEN entries[Key(r)] = src[r] ELSE entries[Key(r)] = None

Paired(r) ==
  /\ pc[r] = "paired"
  /\ \/ ~Unchanged(r) /\ Retry(r, "find")
     \/ /\ Unchanged(r) /\ tree[src[r]] = "none" /\ registered[r]
        /\ Step(r, "drop")
        /\ UNCHANGED <<disk, registry, local, sweeper, faults>>
     \/ /\ Unchanged(r) /\ tree[src[r]] = "none" /\ ~registered[r]
        /\ pc' = [pc EXCEPT ![r] = "probe"] /\ Release(r)
        /\ UNCHANGED <<disk, registry, local, sweeper, faults>>
     \/ /\ Unchanged(r) /\ tree[src[r]] # "none"
        /\ entries' = [entries EXCEPT ![Key(r)] = src[r]]
        /\ old' = [old EXCEPT ![HSrc(r)] = FALSE]
        /\ \/ src[r] = At(r) /\ End(r)
           \/ src[r] # At(r) /\ Step(r, "copy")
        /\ UNCHANGED <<tree, aliases, file, saver, snap, unsaved, local, sweeper, faults>>

(* No local source: ask the peers. *)
Probe(r) ==
  /\ pc[r] = "probe"
  /\ End(r) \/ Step(r, "peer")
  /\ UNCHANGED <<disk, registry, local, sweeper, faults>>

(* The fetched tar is unpacked over the destination without the guard. *)
PeerUnlocked(r) ==
  /\ pc[r] = "peer"
  /\ Step(r, "fetch")
  /\ UNCHANGED <<disk, registry, local, sweeper, faults>>

PeerLock(r) ==
  /\ pc[r] = "peer" /\ CanWrite(HAt(r))
  /\ writers' = Grant(writers, HAt(r), r)
  /\ pc' = [pc EXCEPT ![r] = "fetch"]
  /\ UNCHANGED <<readers, waiting, disk, registry, local, sweeper, faults>>

(* The copy (or the fetched tar) is complete in a temporary directory; the *)
(* one of a fetch is beside the destination, which touches the handle.     *)
(* Renaming it to a destination that is not there touches the handle too;  *)
(* a destination that is there is cleared and refilled entry by entry.     *)
Publish(r) ==
  /\ pc[r] \in {"copy", "fetch"}
  /\ \/ /\ tree[At(r)] = "none"
        /\ tree' = [tree EXCEPT ![At(r)] = "whole"]
        /\ old' = [old EXCEPT ![HAt(r)] = FALSE]
        /\ End(r)
     \/ /\ tree[At(r)] # "none"
        /\ tree' = [tree EXCEPT ![At(r)] = "torn"]
        /\ old' = [old EXCEPT ![HAt(r)] = @ /\ pc[r] = "copy"]
        /\ Step(r, "publish")
  /\ UNCHANGED <<registry, local, sweeper, faults>>

Published(r) ==
  /\ pc[r] = "publish"
  /\ tree' = [tree EXCEPT ![At(r)] = "whole"]
  /\ End(r)
  /\ UNCHANGED <<old, registry, local, sweeper, faults>>

-----------------------------------------------------------------------------
(* Stream-in and DELETE: destructive, under the exclusive side.            *)

(* The upload is extracted into a temporary directory; it may be broken. *)
Upload(r) ==
  /\ pc[r] = "streamin"
  /\ Step(r, "delete") \/ End(r)
  /\ UNCHANGED <<disk, registry, local, sweeper, faults>>

DeleteUnguarded(r) ==
  /\ pc[r] = "delete"
  /\ Step(r, "remove")
  /\ UNCHANGED <<disk, registry, local, sweeper, faults>>

(* Lock of the handle: announce, then wait out the readers. *)
BeginSweep(r) ==
  /\ pc[r] = "delete" /\ writers[HKey(r)] = {} /\ waiting[HKey(r)] = {}
  /\ waiting' = Grant(waiting, HKey(r), r)
  /\ pc' = [pc EXCEPT ![r] = "wait"]
  /\ UNCHANGED <<readers, writers, disk, registry, local, sweeper, faults>>

TakeSweep(r) ==
  /\ pc[r] = "wait" /\ readers[HKey(r)] = {} /\ writers[HKey(r)] = {}
  /\ writers' = Grant(writers, HKey(r), r)
  /\ waiting' = [waiting EXCEPT ![HKey(r)] = @ \ {r}]
  /\ pc' = [pc EXCEPT ![r] = "remove"]
  /\ UNCHANGED <<readers, disk, registry, local, sweeper, faults>>

RemoveBegins(r) ==
  /\ pc[r] = "remove"
  /\ tree' = [tree EXCEPT ![Key(r)] = IF @ = "none" THEN @ ELSE "torn"]
  /\ Step(r, "removing")
  /\ UNCHANGED <<old, registry, local, sweeper, faults>>

RemoveEnds(r) ==
  /\ pc[r] = "removing"
  /\ tree' = [tree EXCEPT ![Key(r)] = "none"]
  /\ old' = [old EXCEPT ![HKey(r)] = @ /\ tree[Key(r)] = "none"]
  /\ \/ op[r].kind = "streamin" /\ Step(r, "rename")
     \/ op[r].kind # "streamin" /\ End(r)
  /\ UNCHANGED <<registry, local, sweeper, faults>>

(* The temporary directory is renamed into place and the guard released; *)
Rename(r) ==
  /\ pc[r] = "rename"
  /\ tree' = [tree EXCEPT ![Key(r)] = "whole"]
  /\ old' = [old EXCEPT ![HKey(r)] = FALSE]
  /\ pc' = [pc EXCEPT ![r] = "enter"] /\ Release(r)
  /\ UNCHANGED <<registry, local, sweeper, faults>>

(* the registry learns of it afterwards. *)
Register(r) ==
  /\ pc[r] = "enter"
  /\ entries' = [entries EXCEPT ![Key(r)] = Key(r)]
  /\ End(r)
  /\ UNCHANGED <<disk, aliases, file, saver, snap, unsaved, local, sweeper, faults>>

-----------------------------------------------------------------------------
(* The TTL sweeper.                                                        *)

Sweep ==
  /\ spc = "idle"
  /\ todo' = {h \in Handles : Present(h) /\ old[h]}
  /\ todo' # {}
  /\ spc' = "pick"
  /\ UNCHANGED <<disk, guard, registry, request, cur, faults>>

(* The next handle, if it is still expired; its Lock is announced. *)
SweepPick(h) ==
  /\ spc = "pick" /\ h \in todo
  /\ \/ /\ ~old[h] \/ ~Present(h)
        /\ todo' = todo \ {h}
        /\ spc' = IF todo' = {} THEN "idle" ELSE "pick"
        /\ UNCHANGED <<cur, waiting>>
     \/ /\ old[h] /\ Present(h) /\ writers[h] = {} /\ waiting[h] = {}
        /\ waiting' = Grant(waiting, h, Sweeper)
        /\ cur' = h /\ todo' = todo \ {h} /\ spc' = "wait"
  /\ UNCHANGED <<readers, writers, disk, registry, request, faults>>

SweepTake ==
  /\ spc = "wait" /\ readers[cur] = {} /\ writers[cur] = {}
  /\ writers' = Grant(writers, cur, Sweeper)
  /\ waiting' = [waiting EXCEPT ![cur] = @ \ {Sweeper}]
  /\ spc' = "stat"
  /\ UNCHANGED <<readers, disk, registry, request, todo, cur, faults>>

SweepNextHandle ==
  /\ spc' = IF todo = {} THEN "idle" ELSE "pick"
  /\ Release(Sweeper)

Removing(h) ==
  tree' = [p \in Paths |-> IF HandleOf[p] = h /\ tree[p] # "none" THEN "torn" ELSE tree[p]]

(* The expiry found when the directory was listed is trusted. *)
SweepStatCached ==
  /\ spc = "stat"
  /\ Removing(cur) /\ spc' = "removing" /\ UNCHANGED guard
  /\ UNCHANGED <<old, registry, request, todo, cur, faults>>

(* The mtime is read again under the guard. *)
SweepStat ==
  /\ spc = "stat"
  /\ \/ /\ ~old[cur] \/ ~Present(cur)
        /\ SweepNextHandle /\ UNCHANGED tree
     \/ /\ old[cur] /\ Present(cur)
        /\ Removing(cur) /\ spc' = "removing" /\ UNCHANGED guard
  /\ UNCHANGED <<old, registry, request, todo, cur, faults>>

SweepRemoved ==
  /\ spc = "removing"
  /\ tree' = [p \in Paths |-> IF HandleOf[p] = cur THEN "none" ELSE tree[p]]
  /\ spc' = "forget"
  /\ UNCHANGED <<old, guard, registry, request, todo, cur, faults>>

(* RemoveByPath.  The prefix test of the code is exact for handles of      *)
(* equal length, which container handles (UUIDs) are.                      *)
Under(k, h) == entries[k] # None /\ HandleOf[entries[k]] = h

RemoveByPath ==
  /\ spc = "forget" /\ saver = {}
  /\ Mutate(Sweeper, [k \in Paths |-> IF Under(k, cur) THEN None ELSE entries[k]],
                     [k \in Paths |-> IF Under(k, cur) THEN None ELSE aliases[k]])
  /\ \/ saver' # {} /\ spc' = "save" /\ UNCHANGED guard
     \/ saver' = {} /\ SweepNextHandle
  /\ UNCHANGED <<disk, request, todo, cur, faults>>

SweepSave ==
  /\ spc = "save"
  /\ Save(Sweeper) /\ SweepNextHandle
  /\ UNCHANGED <<disk, request, todo, cur, faults>>

-----------------------------------------------------------------------------
(* Time, errors and restarts.                                              *)

(* The TTL passes without a touch. *)
Age(h) ==
  /\ Present(h) /\ ~old[h]
  /\ old' = [old EXCEPT ![h] = TRUE]
  /\ UNCHANGED <<tree, guard, registry, request, sweeper, faults>>

(* The error returns that leave the trees alone: the context ends while    *)
(* the guard is awaited or the copy or fetch runs, the peer fails (maybe   *)
(* after the temporary directory was made), the destination's parent was   *)
(* replaced, the upload cannot be renamed.                                 *)
GiveUp(r) ==
  /\ \/ pc[r] \in {"get", "reopen", "first", "second", "probe", "peer", "walk", "copy", "fetch",
                   "rename"}
     \/ pc[r] = "remove" /\ op[r].kind = "streamin"
  /\ \/ UNCHANGED old
     \/ pc[r] = "fetch" /\ old' = [old EXCEPT ![HAt(r)] = FALSE]
  /\ End(r)
  /\ UNCHANGED <<tree, registry, local, sweeper, faults>>

Fault == faults < MaxFaults /\ faults' = faults + 1

(* A removal fails half way, or the deadline of a resolve passes between   *)
(* two entries of its publication: the handler returns as it is.           *)
LeftTorn(r) ==
  /\ Fault
  /\ pc[r] \in {"removing", "publish"}
  /\ End(r)
  /\ UNCHANGED <<disk, registry, local, sweeper>>

(* os.RemoveAll fails; the lock stays with the sweeper. *)
SweepFailsHolding ==
  /\ Fault
  /\ spc = "removing"
  /\ spc' = IF todo = {} THEN "idle" ELSE "pick"
  /\ UNCHANGED <<disk, guard, registry, request, todo, cur>>

(* os.RemoveAll fails.  The handle is young again if a child was removed. *)
SweepFails ==
  /\ Fault
  /\ spc = "removing"
  /\ \E still \in {old[cur], FALSE} : old' = [old EXCEPT ![cur] = still]
  /\ SweepNextHandle
  /\ UNCHANGED <<tree, registry, request, todo, cur>>

(* The daemon stops and starts: ScanHostPath enters the outputs on disk of  *)
(* the handles it could read, then LoadAliases the saved aliases K whose    *)
(* path it found.                                                           *)
StartUp(scanned, K) ==
  /\ Fault
  /\ aliases' = [k \in Paths |-> IF k \in K THEN Valid(file)[k] ELSE None]
  /\ entries' = [k \in Paths |-> IF aliases'[k] # None THEN aliases'[k]
                                 ELSE IF tree[k] # "none" /\ HandleOf[k] \in scanned THEN k
                                 ELSE None]
  /\ saver' = {} /\ snap' = [a \in Actors |-> NoAliases] /\ unsaved' = FALSE
  /\ readers' = [h \in Handles |-> {}]
  /\ writers' = [h \in Handles |-> {}]
  /\ waiting' = [h \in Handles |-> {}]
  /\ pc' = [r \in Requests |-> IF pc[r] = "idle" THEN "idle" ELSE "done"]
  /\ spc' = "idle" /\ todo' = {}
  /\ UNCHANGED <<disk, file, local, cur>>

OnDisk == {h \in Handles : Present(h)}
InFile == {k \in Paths : Valid(file)[k] # None}

Restart == StartUp(OnDisk, InFile)

(* What cannot be read then, of the handles or of the aliases, is logged    *)
(* and left out: all of either if ReadDir(steps) or the alias file fails.   *)
RestartBlind ==
  \E scanned \in SUBSET OnDisk, K \in SUBSET InFile :
    <<scanned, K>> # <<OnDisk, InFile>> /\ StartUp(scanned, K)

-----------------------------------------------------------------------------
ReadNext(r) == GetOpen(r) \/ GetLookup(r) \/ GetReopen(r) \/ MirrorOpen(r) \/ Served(r)

RegistryNext(r) == RemoveIf(r) \/ SaveAliases(r) \/ RegisterCheck(r) \/ RegisterAlias(r)

ResolveNext(r) ==
  \/ Admit(r) \/ Find(r) \/ LockFirst(r) \/ LockSecond(r) \/ Paired(r)
  \/ Probe(r) \/ PeerLock(r) \/ Publish(r) \/ Published(r)

WriteNext(r) ==
  \/ Upload(r) \/ BeginSweep(r) \/ TakeSweep(r) \/ RemoveBegins(r) \/ RemoveEnds(r)
  \/ Rename(r) \/ Register(r)

RequestNext(r) == ReadNext(r) \/ RegistryNext(r) \/ ResolveNext(r) \/ WriteNext(r)

SweeperNext ==
  \/ Sweep \/ (\E h \in Handles : SweepPick(h)) \/ SweepTake \/ SweepStat
  \/ SweepRemoved \/ RemoveByPath \/ SweepSave

Next ==
  \/ \E r \in Requests : Arrive(r) \/ RequestNext(r) \/ GiveUp(r) \/ LeftTorn(r)
  \/ SweeperNext \/ SweepFails
  \/ \E h \in Handles : Age(h)
  \/ Restart \/ RestartBlind

Spec == Init /\ [][Next]_vars

(* Handlers and the sweeper keep running; no context has to end for that. *)
Fairness ==
  /\ \A r \in Requests : WF_vars(RequestNext(r))
  /\ WF_vars(SweeperNext)

FairSpec == Spec /\ Fairness

-----------------------------------------------------------------------------
DiskType == tree \in [Paths -> {"none", "whole", "torn"}] /\ old \in [Handles -> BOOLEAN]

GuardType ==
  /\ readers \in [Handles -> SUBSET Actors] /\ writers \in [Handles -> SUBSET Actors]
  /\ waiting \in [Handles -> SUBSET Actors]

RegistryType ==
  /\ entries \in Aliases /\ aliases \in Aliases /\ file \in Aliases
  /\ saver \in SUBSET Actors /\ snap \in [Actors -> Aliases] /\ unsaved \in BOOLEAN

RequestType ==
  /\ pc \in [Requests -> Kinds \cup
       {"idle", "done", "walk", "lookup", "reopen", "drop", "save", "alias", "find", "first",
        "second", "paired", "copy", "probe", "peer", "fetch", "publish", "wait", "remove",
        "removing", "rename", "enter"}]
  /\ op \in [Requests -> Ops] /\ src \in [Requests -> Paths]
  /\ registered \in [Requests -> BOOLEAN] /\ tries \in [Requests -> Nat]

SweeperType ==
  /\ spc \in {"idle", "pick", "wait", "stat", "removing", "forget", "save"}
  /\ todo \in SUBSET Handles /\ cur \in Handles /\ faults \in Nat

TypeOK == DiskType /\ GuardType /\ RegistryType /\ RequestType /\ SweeperType

(* The guard excludes: a writer is alone. *)
Exclusive ==
  \A h \in Handles :
    /\ writers[h] # {} => readers[h] = {}
    /\ \A a, b \in writers[h] : a = b

(* The sides a request relies on at each point of its handler. *)
PairHeld(r) ==
  /\ r \in writers[HAt(r)]
  /\ HSrc(r) # HAt(r) => r \in readers[HSrc(r)]

Held(r) ==
  /\ pc[r] = "walk" => r \in readers[HSrc(r)]
  /\ pc[r] = "second" =>
       /\ HSrc(r) # HAt(r)
       /\ FirstHandle(r) = HAt(r) => r \in writers[HAt(r)]
       /\ FirstHandle(r) # HAt(r) => r \in readers[HSrc(r)]
  /\ pc[r] \in {"paired", "copy"} => PairHeld(r)
  /\ pc[r] = "copy" => src[r] # At(r)
  /\ pc[r] \in {"fetch", "publish"} => r \in writers[HAt(r)]
  /\ pc[r] \in {"remove", "removing", "rename"} => r \in writers[HKey(r)]
  /\ pc[r] = "drop" => r \in readers[HSrc(r)] \cup writers[HSrc(r)]

SweeperHeld == spc \in {"stat", "removing", "forget", "save"} => Sweeper \in writers[cur]

HeldInv == SweeperHeld /\ \A r \in Requests : Held(r)

(* Nothing is held but by an actor at work on it, and a request that waits *)
(* for the second handle of a resolve holds the first: whatever way a      *)
(* handler returns, the guard is given back.                               *)
AtWork(a, h) ==
  IF a = Sweeper
  THEN spc \in {"stat", "removing", "forget", "save"}
  ELSE \/ pc[a] \in {"walk", "paired", "copy", "drop", "save", "fetch", "publish",
                      "remove", "removing", "rename"}
       \/ pc[a] = "second" /\ h = FirstHandle(a)

Announced(a, h) ==
  IF a = Sweeper THEN spc = "wait" /\ h = cur ELSE pc[a] = "wait" /\ h = HKey(a)

GuardInv ==
  \A h \in Handles :
    /\ \A a \in readers[h] \cup writers[h] : AtWork(a, h)
    /\ \A a \in waiting[h] : Announced(a, h)

(* What is about to be dropped from the registry is gone, and stays gone   *)
(* while the handle is held; an unregistered source is the canonical path; *)
(* an entry is a key's own path or its alias.                              *)
Found(r) == pc[r] \in {"first", "second", "paired"} /\ ~registered[r] => src[r] = Key(r)

DropInv ==
  /\ \A r \in Requests : Found(r)
  /\ \A r \in Requests : pc[r] = "drop" => tree[src[r]] = "none"
  /\ \A r \in Requests : pc[r] = "rename" => tree[Key(r)] = "none"
  /\ spc \in {"forget", "save"} => ~Present(cur)
  /\ spc = "removing" => old[cur]
  /\ \A k \in Paths : entries[k] \in {None, k, aliases[k]}

(* An actor between a mutation and its save holds persistMu, and the copy  *)
(* it is going to save is the latest.                                      *)
SaveInv ==
  /\ \A r \in Requests : pc[r] = "save" <=> r \in saver
  /\ spc = "save" <=> Sweeper \in saver
  /\ \A a, b \in saver : a = b
  /\ \A a \in saver : snap[a] = aliases

(* Once nobody is saving, every alias of POST /register is in aliases.json *)
(* for a restart to restore, unless the last save has failed.  persistMu   *)
(* is held from the mutation to the end of the save, so no older copy      *)
(* overwrites a newer one.  The next save makes good for one that failed.  *)
AliasesSaved ==
  saver = {} /\ ~unsaved =>
    \A k \in Paths : aliases[k] # None => file[k] = aliases[k]

(* Who is at work on a partial tree, while nothing has failed. *)
Works(r, p) == \/ pc[r] = "removing" /\ Key(r) = p
               \/ pc[r] = "publish" /\ At(r) = p

Changing(p) == (\E r \in Requests : Works(r, p)) \/ (spc = "removing" /\ HandleOf[p] = cur)

TornInv == faults = 0 => \A p \in Paths : tree[p] = "torn" => Changing(p)

(* A tree being removed has lost its first entry, one being refilled its old ones. *)
WorkInv ==
  /\ \A r \in Requests : pc[r] = "removing" => tree[Key(r)] # "whole"
  /\ \A r \in Requests : pc[r] = "publish" => tree[At(r)] = "torn"
  /\ spc = "removing" => \A p \in Paths : HandleOf[p] = cur => tree[p] # "whole"

(* The inductive invariant: types, what each request holds of the guard    *)
(* and nothing more, what the registry may forget, what has been saved,    *)
(* what is partial.                                                        *)
DaemonInv ==
  /\ TypeOK /\ Exclusive /\ HeldInv /\ GuardInv
  /\ DropInv /\ SaveInv /\ AliasesSaved /\ TornInv /\ WorkInv

Walks(r, p) == pc[r] \in {"walk", "copy"} /\ src[r] = p

(* No directory changes while a GET, a mirror job or a resolve walks it: a *)
(* read never returns a subset of a tree as if it were complete.           *)
WalkedUntouched ==
  [][\A r \in Requests : \A p \in Paths : Walks(r, p) => tree'[p] = tree[p]]_vars

(* As long as no removal or publication is cut short, a partial tree is    *)
(* seen by nobody but the holder of the exclusive side: "partial state ... *)
(* must never be visible at the final path" (handleStreamIn).              *)
PartialInvisible ==
  faults = 0 => \A p \in Paths : tree[p] = "torn" => writers[HandleOf[p]] # {}

(* The sweeper removes only what has not been touched for the TTL: a read  *)
(* that ended while it waited for the guard saves the directory.           *)
FreshKept ==
  [][\A p \in Paths :
       tree'[p] # tree[p] /\ Sweeper \in writers[HandleOf[p]] => old[HandleOf[p]]]_vars

(* A running daemon forgets a key only when the directory it names is      *)
(* gone: neither the remove/rename window of stream-in, nor a failed open, *)
(* nor a sweep loses a mapping to an existing artifact.  A restart that    *)
(* reads the disk keeps them too, unless it cuts off a save or the last    *)
(* save has failed.                                                        *)
RegistrationKept ==
  [][\A k \in Paths :
       entries[k] # None /\ entries'[k] = None
         => \/ tree[entries[k]] = "none"
            \/ Restart /\ (saver # {} \/ unsaved)
            \/ RestartBlind]_vars

(* Those an actor waits for: the holders that keep it from the side of the *)
(* guard, or from the persistMu, that its next step takes.                 *)
ReadBlockers(h) == writers[h] \cup waiting[h]
WriteBlockers(h) == readers[h] \cup ReadBlockers(h)
LockBlockers(r, h) == IF h = HAt(r) THEN WriteBlockers(h) ELSE ReadBlockers(h)

RequestBlockers(r) ==
  CASE pc[r] \in {"get", "mirror", "delete"} -> ReadBlockers(HKey(r))
    [] pc[r] = "reopen" -> ReadBlockers(HSrc(r))
    [] pc[r] = "first" -> LockBlockers(r, FirstHandle(r))
    [] pc[r] = "second" -> LockBlockers(r, SecondHandle(r))
    [] pc[r] = "peer" -> WriteBlockers(HAt(r))
    [] pc[r] = "wait" -> readers[HKey(r)] \cup writers[HKey(r)]
    [] pc[r] \in {"drop", "alias"} -> saver
    [] OTHER -> {}

SweeperBlockers ==
  CASE spc = "pick" -> UNION {ReadBlockers(h) : h \in todo}
    [] spc = "wait" -> readers[cur] \cup writers[cur]
    [] spc = "forget" -> saver
    [] OTHER -> {}

Blockers(a) == IF a = Sweeper THEN SweeperBlockers ELSE RequestBlockers(a)

(* No deadlock: among any actors there is one that waits for none of the   *)
(* others, however resolves in opposite directions, uploads, deletions and *)
(* the sweep meet: "Different handles are always acquired in lexical       *)
(* order, independent of their lock mode, preventing A->B and B->A         *)
(* resolves from deadlocking" (BeginResolveContext).                       *)
NoCircularWait ==
  \A S \in SUBSET Actors : S # {} => \E a \in S : Blockers(a) \cap S = {}

(* The daemon keeps the contract of ArtifactContract: the artifacts        *)
(* readers and writers see are whole, still while they are read, expire    *)
(* only when stale and are left damaged only by a mishap.  A partial tree  *)
(* somebody works on is `changing'.                                        *)
Shelf(p) ==
  CASE tree[p] = "none" -> "empty"
    [] tree[p] = "whole" -> "full"
    [] tree[p] = "torn" -> IF Changing(p) THEN "changing" ELSE "damaged"

Reading(r) == IF pc[r] \in {"walk", "copy"} THEN src[r] ELSE None

shelf == [p \in Paths |-> Shelf(p)]
reading == [r \in Requests |-> Reading(r)]

Contract ==
  INSTANCE ArtifactContract WITH Readers <- Requests, stale <- old, mishaps <- faults

KeepsArtifactContract == Contract!Spec

(* No request is under way for ever, without any deadline having to pass:  *)
(* resolves in opposite directions and blocked writers do not wait for one *)
(* another.  Each request comes once: of readers that keep coming and      *)
(* starve the TryLock of a resolve it says nothing.                        *)
AllServed == \A r \in Requests : []<>(pc[r] \in {"idle", "done"})

(* An expired handle is removed unless it is touched first. *)
ExpiredReclaimed == \A h \in Handles : []<>~(Present(h) /\ old[h])
=============================================================================

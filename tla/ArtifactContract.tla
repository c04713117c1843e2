-------------------------- MODULE ArtifactContract --------------------------
(***************************************************************************)
(* What the artifact daemon of a node promises to those who read and write *)
(* artifacts, and nothing of how: an artifact is there as a whole or not at*)
(* all; while somebody replaces or removes it, it is not read, and while it*)
(* is read nobody but the reader itself changes anything beside it; a      *)
(* handle expires as a whole, when it was not used for its time.  Only a   *)
(* mishap leaves something damaged behind.                                 *)
(***************************************************************************)
EXTENDS Naturals

CONSTANTS Readers, Paths, Handles, HandleOf, None

VARIABLES
    shelf,    \* per path: "empty", "full", "changing" or "damaged"
    reading,  \* per reader: the path it reads, or None
    stale,    \* per handle: it was not used for its time
    mishaps   \* how many failed removals, cut-off replacements and restarts

contract == <<shelf, reading, stale, mishaps>>

Beside(p, h) == p # None /\ HandleOf[p] = h
Quiet(h, R) == \A q \in R : ~Beside(reading[q], h)

\* A handle that is used is not stale.
Use(h) == stale' = stale \/ stale' = [stale EXCEPT ![h] = FALSE]

\* A reader may stop with what it does.
MayStop(r) == reading' = reading \/ reading' = [reading EXCEPT ![r] = None]

Init ==
    /\ shelf \in [Paths -> {"empty", "full"}]
    /\ reading = [r \in Readers |-> None]
    /\ stale = [h \in Handles |-> FALSE]
    /\ mishaps = 0

Read(r, p) ==
    /\ reading[r] = None /\ shelf[p] \in {"full", "damaged"}
    /\ reading' = [reading EXCEPT ![r] = p]
    /\ Use(HandleOf[p])
    /\ UNCHANGED <<shelf, mishaps>>

Stop(r) ==
    /\ reading' = [reading EXCEPT ![r] = None]
    /\ UNCHANGED <<shelf, stale, mishaps>>

Touch(h) == Use(h) /\ UNCHANGED <<shelf, reading, mishaps>>

Age(h) ==
    /\ stale' = [stale EXCEPT ![h] = TRUE]
    /\ UNCHANGED <<shelf, reading, mishaps>>

\* The artifact of a path begins to be removed or replaced ...
Change(r, p) ==
    /\ shelf[p] \in {"full", "damaged"} /\ Quiet(HandleOf[p], Readers \ {r})
    /\ shelf' = [shelf EXCEPT ![p] = "changing"]
    /\ MayStop(r) /\ Use(HandleOf[p]) /\ UNCHANGED mishaps

\* ... is gone ...
Clear(r, p) ==
    /\ shelf[p] = "changing" /\ Quiet(HandleOf[p], Readers \ {r})
    /\ shelf' = [shelf EXCEPT ![p] = "empty"]
    /\ MayStop(r) /\ Use(HandleOf[p]) /\ UNCHANGED mishaps

\* ... or is there again.
Put(r, p) ==
    /\ shelf[p] \in {"empty", "changing"} /\ Quiet(HandleOf[p], Readers \ {r})
    /\ shelf' = [shelf EXCEPT ![p] = "full"]
    /\ MayStop(r) /\ Use(HandleOf[p]) /\ UNCHANGED mishaps

Within(p, h) == HandleOf[p] = h /\ shelf[p] # "empty"

\* A stale handle expires with all its artifacts ...
Expire(h) ==
    /\ stale[h] /\ Quiet(h, Readers)
    /\ shelf' = [p \in Paths |-> IF Within(p, h) THEN "changing" ELSE shelf[p]]
    /\ UNCHANGED <<reading, stale, mishaps>>

\* ... which are then gone.
Expired(h) ==
    /\ stale[h] /\ Quiet(h, Readers)
    /\ \A p \in Paths : HandleOf[p] = h => shelf[p] \in {"empty", "changing"}
    /\ shelf' = [p \in Paths |-> IF HandleOf[p] = h THEN "empty" ELSE shelf[p]]
    /\ UNCHANGED <<reading, stale, mishaps>>

\* Changes are cut off.  Nobody reads on if it was the daemon that stopped.
Mishap ==
    /\ mishaps' = mishaps + 1
    /\ \E cut \in SUBSET {p \in Paths : shelf[p] = "changing"} :
        shelf' = [p \in Paths |-> IF p \in cut THEN "damaged" ELSE shelf[p]]
    /\ \/ reading' = reading
       \/ reading' = [r \in Readers |-> None] /\ \A p \in Paths : shelf'[p] # "changing"
    /\ \A h \in Handles : stale'[h] => stale[h]

Next ==
    \/ \E r \in Readers : Stop(r) \/ \E p \in Paths :
        Read(r, p) \/ Change(r, p) \/ Clear(r, p) \/ Put(r, p)
    \/ \E h \in Handles : Touch(h) \/ Age(h) \/ Expire(h) \/ Expired(h)
    \/ Mishap

Spec == Init /\ [][Next]_contract
=============================================================================

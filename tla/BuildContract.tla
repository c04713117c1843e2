--------------------------- MODULE BuildContract ---------------------------
(***************************************************************************)
(* What a job build promises to those who watch it, and nothing of how:    *)
(* the build waits, is started once and gets one outcome.  One web at a    *)
(* time drives it.  The web that drives it executes its plan, and nobody   *)
(* else does but webs on their way out that gave the build up with a step  *)
(* still running.  The outcome is what the execution of the driver         *)
(* reported; once it was started, a build is aborted only if somebody asked*)
(* for it.                                                                 *)
(*                                                                         *)
(* The exclusion rests on a database session: when it breaks under a       *)
(* driver the build is `unlocked', and the promises that need one driver   *)
(* end.                                                                    *)
(***************************************************************************)

CONSTANT Webs

VARIABLES
    status,     \* "pending", "started" or the outcome
    aborted,    \* somebody asked for an abort
    drivers,    \* the webs that drive the build
    executors,  \* the webs that execute a step of its plan
    report,     \* report[w]: what the execution of driver w returned, or "none"
    leaving,    \* the webs that drain
    unlocked    \* the lock of a driver was lost

contract == <<status, aborted, drivers, executors, report, leaving, unlocked>>

Reports == {"succeeded", "failed", "errored", "retriable", "canceled"}

Outcome(r) ==
    CASE r = "canceled" -> "aborted"
      [] r = "succeeded" -> "succeeded"
      [] r = "failed" -> "failed"
      [] OTHER -> "errored"

Init ==
    /\ status = "pending" /\ aborted = FALSE
    /\ drivers = {} /\ executors = {} /\ leaving = {}
    /\ report = [w \in Webs |-> "none"]
    /\ unlocked = FALSE

RequestAbort ==
    /\ aborted' = TRUE
    /\ UNCHANGED <<status, drivers, executors, report, leaving, unlocked>>

Start ==
    /\ status = "pending" /\ ~aborted
    /\ status' = "started"
    /\ UNCHANGED <<aborted, drivers, executors, report, leaving, unlocked>>

\* A build that cannot start.
Refuse ==
    /\ status = "pending"
    /\ status' \in {"aborted", "errored"}
    /\ UNCHANGED <<aborted, drivers, executors, report, leaving, unlocked>>

\* A web takes a build that was started and that nobody drives.
Take(w) ==
    /\ status # "pending"
    /\ drivers = {} \/ unlocked
    /\ report[w] = "none"
    /\ drivers' = drivers \cup {w}
    /\ UNCHANGED <<status, aborted, executors, report, leaving, unlocked>>

\* Whoever else still executes a step is a web on its way out.
Alone == executors \subseteq leaving

Execute(w) ==
    /\ w \in drivers /\ report[w] = "none"
    /\ unlocked \/ (status = "started" /\ Alone)
    /\ executors' = executors \cup {w}
    /\ UNCHANGED <<status, aborted, drivers, report, leaving, unlocked>>

\* The execution ends, with a report if the web still drives the build.
Report(w) ==
    /\ w \in executors \cap drivers
    /\ executors' \in {executors \ {w}, executors}
    /\ w \in executors' => w \in leaving
    /\ \E r \in Reports :
        /\ r = "canceled" => aborted
        /\ report' = [report EXCEPT ![w] = r]
    /\ UNCHANGED <<status, aborted, drivers, leaving, unlocked>>

Stop(w) ==
    /\ w \in executors \cap leaving
    /\ executors' = executors \ {w}
    /\ UNCHANGED <<status, aborted, drivers, report, leaving, unlocked>>

\* The only driver gives the build the outcome that was reported to it, or an
\* error if nothing could be executed.  What is worth a retry is no outcome.
Conclude(w) ==
    /\ w \in drivers /\ report[w] # "retriable"
    /\ unlocked \/ (status = "started" /\ drivers = {w} /\ Alone)
    /\ status' = Outcome(report[w])
    /\ UNCHANGED <<aborted, drivers, executors, report, leaving, unlocked>>

Forget(w) ==
    /\ w \in drivers
    /\ report' = [report EXCEPT ![w] = "none"]
    /\ UNCHANGED <<status, aborted, drivers, executors, leaving, unlocked>>

\* A driver gives the build up; only a web that drains leaves a step behind.
Yield(w) ==
    /\ w \in drivers /\ report[w] = "none"
    /\ w \in executors => w \in leaving
    /\ drivers' = drivers \ {w}
    /\ UNCHANGED <<status, aborted, executors, report, leaving, unlocked>>

Leave(w) ==
    /\ leaving' = leaving \cup {w}
    /\ UNCHANGED <<status, aborted, drivers, executors, report, unlocked>>

Vanish(w) ==
    /\ drivers' = drivers \ {w} /\ executors' = executors \ {w}
    /\ leaving' = leaving \ {w}
    /\ report' = [report EXCEPT ![w] = "none"]
    /\ UNCHANGED <<status, aborted, unlocked>>

Unlock ==
    /\ drivers # {} /\ unlocked' = TRUE
    /\ UNCHANGED <<status, aborted, drivers, executors, report, leaving>>

Next ==
    \/ RequestAbort \/ Start \/ Refuse \/ Unlock
    \/ \E w \in Webs :
        \/ Take(w) \/ Execute(w) \/ Report(w) \/ Stop(w) \/ Conclude(w)
        \/ Forget(w) \/ Yield(w) \/ Leave(w) \/ Vanish(w)

Spec == Init /\ [][Next]_contract
=============================================================================

------------------------- MODULE ContainerContract -------------------------
(***************************************************************************)
(* What a container promises to the step it was made for and to the build  *)
(* of that step, and nothing of how: it is made once, for one step of a    *)
(* build that runs, and what is given up is never kept again.  A result    *)
(* that was recorded in its pod is not replaced, and as long as a job build*)
(* that may run its plan again keeps the container, nobody deletes the     *)
(* pod; only the cluster may lose it.  A container that such a build still *)
(* needs is given up only without a pod, or with one that the last report  *)
(* of the cluster's pods did not have.                                     *)
(***************************************************************************)

VARIABLES
    client,    \* "nobody"; "job" or "check" while a build of that kind runs; "over"
    stage,     \* "unused", "kept", "given up"
    pod,       \* "none", "live", or "completed" (has the result)
    reported,  \* the last report had the pod
    cleaner    \* where the program is that deletes pods

contract == <<client, stage, pod, reported, cleaner>>

Init ==
    /\ client = "nobody" /\ stage = "unused" /\ pod = "none"
    /\ reported = FALSE /\ cleaner = "list"

Running == client \in {"job", "check"}

Create ==
    /\ client = "nobody" /\ client' \in {"job", "check"}
    /\ stage' = "kept"
    /\ UNCHANGED <<pod, reported, cleaner>>

\* The step finds no result and starts in a new pod or goes on in its pod.
Work ==
    /\ Running /\ pod # "completed"
    /\ pod' = "live"
    /\ UNCHANGED <<client, stage, reported, cleaner>>

Record ==
    /\ Running /\ pod # "none"
    /\ pod' = "completed"
    /\ UNCHANGED <<client, stage, reported, cleaner>>

\* The build ends, alone or in a crash; what a check used may be given up with it.
Finish ==
    /\ Running
    /\ client' = "over"
    /\ stage' = stage \/ (client = "check" /\ stage' = "given up")
    /\ UNCHANGED <<pod, reported>>

GiveUp ==
    /\ stage = "kept" /\ stage' = "given up"
    /\ client = "job" => pod = "none" \/ ~reported
    /\ UNCHANGED <<client, pod, reported, cleaner>>

\* The cleaner goes on and perhaps reports.
Clean ==
    /\ cleaner' # cleaner
    /\ reported' => client # "nobody"
    /\ UNCHANGED <<client, stage, pod>>

\* The cleaner deletes the pod.
Delete ==
    /\ cleaner' # cleaner
    /\ client = "job" => stage = "given up"
    /\ pod' = "none"
    /\ UNCHANGED <<client, stage, reported>>

\* The cluster loses the pod, which is no step of the cleaner.
Lose ==
    /\ pod' = "none"
    /\ UNCHANGED <<client, stage, reported, cleaner>>

Next == Create \/ Work \/ Record \/ Finish \/ GiveUp \/ Clean \/ Delete \/ Lose

Spec == Init /\ [][Next]_contract
=============================================================================

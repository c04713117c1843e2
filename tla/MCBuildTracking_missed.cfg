SPECIFICATION Spec
CONSTANTS
    w1 = w1
    w2 = w2
    j1 = j1
    c1 = c1
    Free = Free
    Orphaned = Orphaned
    Webs <- TwoWebs
    JobBuilds <- OneJob
    CheckBuilds <- NoBuilds
    Abortable <- OneJob
    Faults <- NoFaults
    MaxDisruptions = 0
SYMMETRY WebSymmetry
INVARIANTS
    AbortReachesListeners

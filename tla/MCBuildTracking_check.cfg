SPECIFICATION Spec
CONSTANTS
    w1 = w1
    w2 = w2
    j1 = j1
    c1 = c1
    Free = Free
    Orphaned = Orphaned
    Webs <- TwoWebs
    JobBuilds <- NoBuilds
    CheckBuilds <- OneCheck
    Abortable <- NoBuilds
    Faults <- LockFaults
    MaxDisruptions = 2
SYMMETRY WebSymmetry
INVARIANTS
    TrackingInv

SPECIFICATION FairSpec
CONSTANTS
    t1 = t1
    t2 = t2
    y1 = y1
    y2 = y2
    o1 = o1
    o2 = o2
    o3 = o3
    s1 = s1
    s2 = s2
    n1 = n1
    n2 = n2
    Teams <- TwoTeams
    Types <- TwoTypes
    Outputs <- ThreeOutputs
    Target <- OutputTarget
    Sealers <- TwoSealers
    Scenarios <- ReplaySiblingOther
    Nodes <- TwoNodes
    Classes <- ThreeClasses
    Hangar = Hangar
    Free = Free
    Keeper = Keeper
    Factor = 2
    MaxFaults = 1
    MaxDamage = 1
CHECK_DEADLOCK FALSE
INVARIANT SnapshotInv
INVARIANT SiblingsCoherent
PROPERTY KeepsSnapshotContract
PROPERTY YoungObjectKept
PROPERTY UnretainedExpires
PROPERTY OrphansReclaimed
PROPERTY ReplicasRestored

SPECIFICATION SpecInBuild
CONSTANTS
    w1 = w1
    w2 = w2
    s1 = s1
    s2 = s2
    NoSession = NoSession
    Webs <- TwoWebs
    Sessions <- TwoSessions
    Kind = "agent"
    Codes <- OkAndFailed
    Faults <- AllFaults
    MaxLaunches = 1
    MaxDisruptions = 1
CHECK_DEADLOCK FALSE
SYMMETRY SessionSymmetry
INVARIANT SuccessIsExitZero
PROPERTY KeepsStepExecution

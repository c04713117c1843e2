SPECIFICATION Spec
CONSTANTS
    w1 = w1
    w2 = w2
    s1 = s1
    s2 = s2
    NoSession = NoSession
    Webs <- TwoWebs
    Sessions <- TwoSessions
    Kind = "resource"
    Codes <- OkAndFailed
    Faults <- AllButApi
    MaxLaunches = 2
    MaxDisruptions = 3
CHECK_DEADLOCK FALSE
SYMMETRY SessionSymmetry
PROPERTIES
    CompletedNotRerun

SPECIFICATION FairSpec
CONSTANTS
    w1 = w1
    w2 = w2
    s1 = s1
    s2 = s2
    NoSession = NoSession
    Webs <- TwoWebs
    Sessions <- TwoSessions
    Kind = "agent"
    Codes <- OkAndFailed
    Faults <- AllButApi
    MaxLaunches = 3
    MaxDisruptions = 2
CHECK_DEADLOCK FALSE
INVARIANTS
    StepInv
    OneCopy
    AnswersAreTheExit
PROPERTIES
    StepConcludes

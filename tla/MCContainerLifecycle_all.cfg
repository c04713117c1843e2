CONSTANTS
    j1 = j1
    c1 = c1
    sj = sj
    sc = sc
    h1 = h1
    h2 = h2
    Jobs = {j1}
    Checks = {c1}
    Steps = {sj, sc}
    BuildOf <- BuildOfSteps
    Handles = {h1, h2}
    NoStep = NoStep
    NoHandle = NoHandle
    MaxFaults = 1
SPECIFICATION FairSpec
CHECK_DEADLOCK FALSE
INVARIANT LifecycleInv
PROPERTY KeptWhileRunning
PROPERTY KeepsContainerContract
PROPERTY Collected

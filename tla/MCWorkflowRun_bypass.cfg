CONSTANTS
    b1 = b1
    b2 = b2
    r1 = r1
    r2 = r2
    h1 = h1
    h2 = h2
    w1 = w1
    noone = noone
    default = default
    nowait = nowait
    Binders <- MCBinders
    Reconcilers <- MCReconcilers
    Humans <- MCHumans
    Waits <- MCWaits
    Defaulted <- MCWaits
    NoHuman = noone
    Default = default
    NoWait = nowait
    MaxFaults = 1
SPECIFICATION Spec
INVARIANT NoBypassedBuild

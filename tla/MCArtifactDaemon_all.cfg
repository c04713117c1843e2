SPECIFICATION FairSpec
CONSTANTS
  r1 = r1
  r2 = r2
  sw = sw
  Requests <- TwoRequests
  Sweeper = sw
  Paths <- ThreePaths
  Handles <- TwoHandles
  HandleOf <- OneTwoApart
  OpsOf <- MixedOps
  Outputs <- FirstTwo
  Saved <- AliasOrNot
  MaxTries = 2
  MaxFaults = 1
INVARIANT DaemonInv
INVARIANT PartialInvisible
INVARIANT NoCircularWait
PROPERTY KeepsArtifactContract
PROPERTY WalkedUntouched
PROPERTY FreshKept
PROPERTY RegistrationKept
PROPERTY AllServed
PROPERTY ExpiredReclaimed
CHECK_DEADLOCK FALSE

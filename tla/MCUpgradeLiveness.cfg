SPECIFICATION FairSpec
CONSTANTS
  Hosts <- TwoHosts
  HasDrives <- FirstTwo
  DefaultContainer = FALSE
  SkipWait = FALSE
  RepairsInRun = FALSE
  SlowRebuild = TRUE
  LateDetection = TRUE
  FaultAt <- RolledBack
  MaxFaults = 2
INVARIANT
  RollbackStartsBackUp
PROPERTY
  EventuallyUpgraded

SPECIFICATION Spec
CONSTANTS
  Hosts <- ThreeHosts
  HasDrives <- FirstTwo
  DefaultContainer = FALSE
  SkipWait = FALSE
  RepairsInRun = FALSE
  SlowRebuild = FALSE
  LateDetection = FALSE
  FaultAt <- AnyFault
  MaxFaults = 2
INVARIANTS
  TypeOK
PROPERTIES
  OneMachineAtATime
  UpgradedStayUp
CHECK_DEADLOCK FALSE

SPECIFICATION Spec
CONSTANTS
  Machines <- TwoMachines
  Tools <- AllTools
  LateDetection = FALSE
  FaultAt <- AnyFault
  MaxFaults = 2
  S3Hosts <- TwoMachines
  Containers <- TwoContainers
  Leftovers <- LeftoverOnFirst
  SortsAsOld <- FirstOnly
  HealthTimeouts = FALSE
  Blacklisting = TRUE
  Matches <- Apart
INVARIANTS
  TypeOK
  OneS3Away
  CompletedIsUpgraded
PROPERTIES
  OneMachineAtATime
  CoresChangeWithoutReaper

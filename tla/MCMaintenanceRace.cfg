SPECIFICATION Spec
CONSTANTS
  Machines <- TwoMachines
  Tools <- FDOnly
  LateDetection = TRUE
  FaultAt <- NoFault
  MaxFaults = 0
  S3Hosts <- NoFault
  Containers <- OneContainer
  Leftovers <- NoLeftover
  SortsAsOld <- FirstOnly
  HealthTimeouts = FALSE
  Blacklisting = TRUE
  Matches <- Apart
PROPERTY
  OneMachineAtATime

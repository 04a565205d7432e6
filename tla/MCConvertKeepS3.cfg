SPECIFICATION Spec
CONSTANTS
  Hosts <- ThreeHosts
  Extras <- TwoExtras
  Frontends <- TwoHosts
  S3Init <- AllOfTwo
  SmbInit <- AllOfTwo
  PortsInit <- NoPorts
  KeepS3Up = TRUE
  RemoveOld = FALSE
  FaultAt <- AnyFault
  MaxFaults = 2
  SkipFailed = TRUE
  MaxStops = 1
INVARIANTS
  OneDraining
CHECK_DEADLOCK FALSE

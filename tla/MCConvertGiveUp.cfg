SPECIFICATION Spec
CONSTANTS
  Hosts <- TwoHosts
  Extras <- TwoExtras
  Frontends <- TwoHosts
  S3Init <- NoMachine
  SmbInit <- NoMachine
  PortsInit <- NoPorts
  KeepS3Up = FALSE
  RemoveOld = FALSE
  FaultAt <- GiveUp
  MaxFaults = 1
  SkipFailed = FALSE
  MaxStops = 0
INVARIANT
  ReportedIsConverted
CHECK_DEADLOCK FALSE

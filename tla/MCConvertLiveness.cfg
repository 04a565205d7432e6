SPECIFICATION FairSpec
CONSTANTS
  Hosts <- TwoHosts
  Extras <- TwoExtras
  Frontends <- TwoHosts
  S3Init <- AllOfTwo
  SmbInit <- AllOfTwo
  PortsInit <- PortPerHost
  KeepS3Up = FALSE
  RemoveOld = FALSE
  FaultAt <- EarlyFaults
  MaxFaults = 2
  SkipFailed = FALSE
  MaxStops = 1
PROPERTIES
  EventuallyConverted
  RunEnds

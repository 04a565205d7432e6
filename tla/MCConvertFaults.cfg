SPECIFICATION Spec
CONSTANTS
  Hosts <- TwoHosts
  Extras <- TwoExtras
  Frontends <- TwoHosts
  S3Init <- AllOfTwo
  SmbInit <- AllOfTwo
  PortsInit <- PortPerHost
  KeepS3Up = FALSE
  RemoveOld = TRUE
  FaultAt <- AnyFault
  MaxFaults = 2
  SkipFailed = FALSE
  MaxStops = 1
INVARIANTS
  TypeOK
  ProtocolQuorum
  StoppedServesNothing
  RebootServiceable
  ReportedServesAsBefore
  FailsOnlyByFault
PROPERTY
  OneMachineAtATime
CHECK_DEADLOCK FALSE

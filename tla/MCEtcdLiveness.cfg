SPECIFICATION FairSpec
CONSTANTS
  Hosts <- TwoHosts
  AutoMode = TRUE
  HeedsWarning = TRUE
  Writes <- OneWrite
  FaultAt <- AnyFault
  MaxFaults = 2
PROPERTIES
  AlwaysWritableAgain
  EventuallyOnKwas

SPECIFICATION FairSpec
CONSTANTS
  Nodes <- MCNodes
  Drives <- MCDrives
  Owner <- MCOwner
  MaxUnwritable = 1
  AllowedFailures = 0
  StallFile = FALSE
  MaxFills = 2
  MaxFaults = 2
  StripeProtectionDrives = 1
  NoDisk = "none"
INVARIANTS
  TypeOK
  RestartsWithinAllowed
  UnwritableBounded
PROPERTIES
  RestartsDrained
  FullIsHandled

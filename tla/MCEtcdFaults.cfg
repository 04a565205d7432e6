SPECIFICATION Spec
CONSTANTS
  Hosts <- ThreeHosts
  AutoMode = FALSE
  HeedsWarning = TRUE
  Writes <- TwoWrites
  FaultAt <- AnyFault
  MaxFaults = 2
INVARIANTS
  TypeOK
  AckedReadable
  NoSplitBrain
  OneHostDrained

SPECIFICATION FairSpec
CONSTANTS
  Numas <- MCNumas
  AllCpus <- MCAllCpus
  FirstSibling <- MCFirstSibling
  NumaOf <- MCNumaOf
  Memory <- MCMemory
  Disks <- MCDisks
  Nics <- MCNics
  Master <- MCMaster
  Arguments <- AllArguments
INVARIANTS
  TypeOK
  CoresExclusive
  NumaBalanced
  NodesPlaced
  PortsDisjoint
  DrivesPlaced
  DevicesSuffice
  MemoryFits
PROPERTY
  Terminates
CHECK_DEADLOCK FALSE

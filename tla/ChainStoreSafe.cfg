SPECIFICATION Spec
CONSTANTS
  MaxBlocks = 4
  RepairFaults = FALSE
  ConcurrentSend = FALSE
INVARIANTS TypeOK NoSilentLoss MemoryMatchesFile AckedOnMedium
PROPERTY ImplementsDurableLog
CHECK_DEADLOCK FALSE

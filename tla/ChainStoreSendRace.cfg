SPECIFICATION Spec
CONSTANTS
  MaxBlocks = 3
  RepairFaults = FALSE
  ConcurrentSend = TRUE
INVARIANT MemoryMatchesFile
CHECK_DEADLOCK FALSE

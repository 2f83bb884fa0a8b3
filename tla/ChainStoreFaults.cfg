SPECIFICATION Spec
CONSTANTS
  MaxBlocks = 3
  RepairFaults = TRUE
  ConcurrentSend = TRUE
INVARIANTS ServesLinearChain
PROPERTY OnlyRepairsLoseBlocks
CHECK_DEADLOCK FALSE

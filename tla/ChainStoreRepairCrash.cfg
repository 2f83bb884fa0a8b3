SPECIFICATION Spec
CONSTANTS
  MaxBlocks = 3
  RepairFaults = TRUE
  ConcurrentSend = FALSE
INVARIANT NoSilentLoss
CHECK_DEADLOCK FALSE

SPECIFICATION Spec
CONSTANTS
  a = a
  b = b
  g1 = g1
  g2 = g2
  Networks <- MCNetworks
  Listed <- MCListed
  Node = {a, b}
  Genesis = {g1, g2}
  Batch = 2
  MaxRoundsPerCall = 2
  MaxBlocksPerCall = 2
  CooldownThreshold = 1
  CooldownBase = 1
  CooldownMaxFactor = 2
  MaxU32 = 3
  GossipThreshold = 1
  GossipCooldown = 1
INVARIANTS
  TypeOK
  NetworksStayApart
  OneSealerOneChain
PROPERTIES
  GateOpensAfterCatchUp
  TickEnds
  CatchesUp

SPECIFICATION Spec
CONSTANTS
  Conn = {c1, c2, c3}
  Slots = 2
  MaxFrames = 4
  MaxAppFrames = 3
  MaxProtocolErrors = 2
  MaxInvalidBlocks = 2
  MaxStaleBlocks = 1
  MaxInboundTx = 1
  MaxTip = 1
INVARIANTS
  TypeOK
  SlotsAreExact
  QuotasHold
PROPERTY
  PoisonSilencesSessions

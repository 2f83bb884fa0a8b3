SPECIFICATION FairSpec
CONSTANTS
  Conn = {c1, c2}
  Slots = 2
  MaxFrames = 2
  MaxAppFrames = 3
  MaxProtocolErrors = 2
  MaxInvalidBlocks = 2
  MaxStaleBlocks = 1
  MaxInboundTx = 1
  MaxTip = 1
PROPERTY
  SlotsAreReturned

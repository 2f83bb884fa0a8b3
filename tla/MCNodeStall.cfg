SPECIFICATION FairSpec
CONSTANTS
  alice = alice
  bob = bob
  carol = carol
  Addr = {alice, carol}
  MaxU64 = 3
  Tx <- MCOverspendingTx
  Genesis <- MCGenesis
  NoAccount = NoAccount
  Capacity = 3
  MaxBlockTxs = 2
  NoTx = NoTx
  Peers = 0
  BookPeers = 0
  PeerTx = {}
  Wallet = alice
  Time = {0}
  MaxDrift = 1
  MaxHeight = 0
  MaxPending = 2
  MaxNetTxs = 1
  Faults = {}
PROPERTIES
  ExecutableIsSettled

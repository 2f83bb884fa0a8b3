SPECIFICATION Spec
CONSTANTS
  alice = alice
  bob = bob
  carol = carol
  Addr = {alice, bob, carol}
  MaxU64 = 3
  Tx <- MCTx
  Genesis <- MCGenesis
  NoAccount = NoAccount
  Capacity = 2
  MaxBlockTxs = 2
  NoTx = NoTx
  Peers = 1
  BookPeers = 1
  PeerTx <- MCTx
  Wallet = alice
  Time = {0, 1}
  MaxDrift = 1
  MaxHeight = 1
  MaxPending = 1
  MaxNetTxs = 1
  Faults = {"crash", "store", "queue"}
INVARIANTS
  TypeOK
  LedgerIsReplay
  MemoryMatchesDisk
  ExposedIsDurable
  CommittedOnce
  SupplyIsConserved
  PoolIsConsistent
  NeverSealsPoisoned
PROPERTIES
  LossIsExplained
  SealsInArrivalOrder

SPECIFICATION Spec
CONSTANTS
  alice = alice
  bob = bob
  carol = carol
  NoAccount = NoAccount
  Addr = {alice, bob, carol}
  MaxU64 = 5
  Tx <- MCTx
  Genesis <- MCGenesis
  Hash = {1, 2, 3, 4}
  RootLink = RootLink
  MaxHeight = 2
  Trees <- MCTrees
  Entries <- MCEntries
  GenesisHash = 1
  MaxReorgDepth = 1
  MaxLies = 1
  MaxTs = 2
INVARIANTS
  TypeOK
  ForkIsDeepestCommonAncestor
  SelectionNeverShortens
  ValidPlanIsCurrent
  ReplayAgreesWithLiveChain
  WrongForkStateIsCaught

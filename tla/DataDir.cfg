SPECIFICATION Spec
CONSTANTS
  Procs = {p1, p2}
  Docs = {d1, d2}
  EmptyGenesis = EmptyGenesis
  NoFile = NoFile
  EmptyFile = EmptyFile
  MaxCommands = 3
  MaxCrashes = 1
  MaxBlocks = 2
INVARIANTS
  OneGenesisPerDirectory
  LiveChainIsTheFile
PROPERTIES
  BindingIsForever
  CommandsEnd
CHECK_DEADLOCK FALSE

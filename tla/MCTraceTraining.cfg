CONSTANTS
  BlockSize = 4
  SymbolLimit = 4
  Byte = {0, 1, 2}
  ByteBits = 2
  WordBits = 4
  Traces = {"a", "b"}
  Contents <- MCContents
  Commands <- MCCommands
  Lengths = {1, 2, 3}
  PaperConfigs <- MCPaperConfigs
  StandardTarget <- Three
  MaxChanges = 1
SPECIFICATION BselSpec
INVARIANTS
  TrainedNeverTested
  EveryBlockUsedOnce
  SavedModelIsComplete
  ReportsAddUp
CHECK_DEADLOCK FALSE

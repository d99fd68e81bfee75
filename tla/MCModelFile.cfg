CONSTANTS
  BlockSize = 4
  SymbolLimit = 4
  Byte = {0, 1, 2}
  ByteBits = 2
  WordBits = 4
  Radix = 2
  DefaultTarget = 3
  Models <- MCModels
SPECIFICATION FileSpec
INVARIANTS
  SavedLinesLoadBack
CHECK_DEADLOCK FALSE

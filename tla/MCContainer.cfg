CONSTANTS
  BlockSize = 4
  SymbolLimit = 4
  Byte = {0, 1, 2}
  ByteBits = 2
  WordBits = 4
  Magic = 7
  Originals <- MCOriginals
  FileModels <- MCModels
SPECIFICATION ContainerSpec
INVARIANTS
  DecodedIsOriginal
PROPERTIES
  RefusesOnlyIncomplete
CHECK_DEADLOCK FALSE

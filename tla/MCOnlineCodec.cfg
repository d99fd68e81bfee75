CONSTANTS
  BlockSize = 4
  SymbolLimit = 4
  Byte = {0, 1, 2}
  ByteBits = 2
  WordBits = 4
  IdealMetadata = 1
  PortBits = 3
  MaxBlocks = 3
  Models <- MCModels
SPECIFICATION Spec
INVARIANTS
  RoundTrip
  MetadataNamesThePattern
  SmallestTarget
  UpperBoundHolds
  CircuitsAgree
CHECK_DEADLOCK FALSE

CONSTANTS
  BlockSize = 4
  SymbolLimit = 4
  Byte = {0, 1, 2, 3}
SPECIFICATION Spec
INVARIANTS
  JoinIsLeastUpperBound
  DescribesWhatIsBelow

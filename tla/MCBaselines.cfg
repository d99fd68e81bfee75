CONSTANTS
  ByteBits = 4
  BlockSize = 24
  DictionaryEntries = 2
  IndexBits = 1
  Traces <- MCTraces
  TargetLists <- MCTargetLists
SPECIFICATION Spec
INVARIANTS
  DecodesExactly
  HuffmanCodesAreComplete
  TotalsExplained
CHECK_DEADLOCK FALSE

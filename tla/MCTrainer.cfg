CONSTANTS
  BlockSize = 5
  SymbolLimit = 16
  DictionarySize = 4
  MaxPatterns = 3
  FrequencyThreshold = 2
  MaxAtoms = 3
  MaxCount = 2
  Inputs <- MCInputs
SPECIFICATION Spec
INVARIANTS
  NoAtomLost
  CandidatesLegal
  EveryBlockAccounted
  StopsOnlyWhenCovered
  HeapIsSound
  LazyNeverCostsMore
PROPERTIES
  Terminates
  ImplementsGreedyCover
CHECK_DEADLOCK FALSE

CONSTANTS
  ByteBits = 4
  WordCount = 6
  Traces <- MCTraces
  MaxPatterns <- MCMaxPatterns
  Inputs <- MCInputs
SPECIFICATION ToolSpec
INVARIANTS
  RestoresOrRefuses
  LoadsTrainedOrRefuses
  SmallestStream
CHECK_DEADLOCK FALSE

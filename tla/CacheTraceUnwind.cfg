CONSTANTS
  Threads = {t1}
  Lines = {0, 1, 2}
  SetCount = 1
  Ways = 2
  RoiGiven = TRUE
  WarmupMisses = 0
  MaximumBlocks = 2
  Unwinding = TRUE
  MaxDepth = 1
  MaxAccesses = 3
SPECIFICATION Spec
INVARIANT RecordsOnlyInside
CHECK_DEADLOCK FALSE

CONSTANTS
  Threads = {t1, t2}
  Lines = {0, 1, 2, 4}
  SetCount = 2
  Ways = 2
  RoiGiven = TRUE
  WarmupMisses = 1
  MaximumBlocks = 2
  Unwinding = TRUE
  MaxDepth = 2
  MaxAccesses = 4
SPECIFICATION Spec
INVARIANT RecordsWhatWasAsked
PROPERTY IsLruCache
CHECK_DEADLOCK FALSE

CONSTANTS
  Threads <- MCThreads
  PrefixBlock = 2
  LocalSize = 1
  BitsPerWord = 2
  ChunkSize = 2
  Unit = 12
  kDistInf = 20
  kMaxBin = 20
  kBinSizeThreshold = 2
  MinAverageDegree = 1
  Byte = 4
  Jobs <- MCJobs
SPECIFICATION Spec
INVARIANTS
  GraphIsAsListed
  QueueHoldsNodesOnce
  ScoresAreExact
  LabelsStayInside
  LabelsAreComponents
  DistancesAreShortest
  TrianglesAreCountedOnce
  FilesHoldTheGraph
PROPERTIES
  SearchesByLevels
  Terminates
CHECK_DEADLOCK FALSE

SPECIFICATION Spec
CONSTANTS
  HeapStart = 65536
  HeapEnd = 200704
  WORD = 1048576
  Requests = {24, 100, 3000, 134700, 1048400, 1048560}
  OtherRequests = {24, 200}
  Alignments = {48}
  Options <- MCOptions
  Increments = {40}
  MaxLive = 3
  MaxCalls = 6
  MaxOther = 1
INVARIANTS CheckMallocState ChunksAccounted TightFit FailsOnlyWhenFull
PROPERTY ImplementsAllocator
CHECK_DEADLOCK FALSE

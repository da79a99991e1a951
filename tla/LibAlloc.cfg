SPECIFICATION FairSpec
CONSTANTS
  Requests <- MCRequests
  HeapPages <- MCPages
  MaxGiven = 3
  TagSize = 1
  PageSize = 16
  PageCount = 2
  MinExp = 3
  MaxExp = 6
  MaxComplete = 1
INVARIANTS
  Tiled
  BinsWhole
  Coalesced
  CompleteCounted
PROPERTIES
  CallsEnd
  ImplementsHeap
  KeepsToPageAllocator
CHECK_DEADLOCK FALSE

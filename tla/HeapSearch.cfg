SPECIFICATION FairSpec
CONSTANTS
  Requests <- MCRequests
  HeapPages <- MCPages
  MaxGiven = 3
  TagSize = 1
  PageSize = 16
  PageCount = 2
  MinExp = 3
  MaxExp = 6
  MaxComplete = 1
INVARIANT MakesOneIfNoneFits
CHECK_DEADLOCK FALSE

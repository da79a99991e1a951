SPECIFICATION FairSpec
CONSTANTS
  MemoryMaps <- MCMaps
  Requests <- MCRequests
  AddressPages = 16
  BitsPerByte = 4
  BytesPerPage = 2
  Word = 4
INVARIANTS
  OutOfMemoryMeansNone
CHECK_DEADLOCK FALSE

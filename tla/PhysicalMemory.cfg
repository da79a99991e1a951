SPECIFICATION FairSpec
CONSTANTS
  MemoryMaps <- MCMaps
  Requests <- MCRequests
  AddressPages = 16
  BitsPerByte = 4
  BytesPerPage = 2
  Word = 4
INVARIANTS
  OwnedDisjoint
  BitmapExact
  HaltJustified
  OverrunOnlyAtEdge
  RamConserved
  IInv
PROPERTIES
  AllocEnds
  ImplementsPageAllocator
CHECK_DEADLOCK FALSE

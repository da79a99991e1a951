SPECIFICATION Spec
CONSTANTS
  Inputs <- MCInputs
  Modules <- MCModules
  Paths <- MCPaths
  Counts <- MCCounts
  Offsets <- MCOffsets
  HeaderSize = 2
  TableSize = 2
  Word = 64
  MinFd <- MCMinFd
  MaxFd = 2
  MinPos <- MCMinPos
  MaxPos = 2
INVARIANTS
  TablesWhole
  ReadsStayInside
  FilesReadBackIffFirst
PROPERTIES
  DescriptorsFresh
  ImplementsFileAccess
CHECK_DEADLOCK FALSE

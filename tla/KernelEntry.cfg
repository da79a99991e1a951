\* A boot that has stopped stays stopped.
SPECIFICATION Spec
CONSTANTS
  Machines <- MCMachines
  MaxGSIs = 2
  Inputs = {0, 2}
  None = None
INVARIANT InterruptsFindTheWay
PROPERTY BootEnds
CHECK_DEADLOCK FALSE

SPECIFICATION Spec
CONSTANTS
  Span <- MCSpan
  Indexes <- MCIndexes
  Frames <- MCFrames
  Virt <- MCVirt
  Machines <- MCMachines
  Contents <- MCContents
  Programs <- MCPrograms
  Unloadable = unloadable
  Users = {u1}
  BspThread = bsp
  Kernel = kernel
  None = none
  Limine = limine
  KernelVirt = 176
  HhdmVirt = 0
  StackVirt = 184
  KStackVirt = 264
  StackPages = 1
  KStackPages = 2
  PageBytes = 2
  MaxSkip = 0
INVARIANTS
  IInv
  UserPagesPrivate
  WindowHolds
  KernelStackBacked
  LoadedIffPageSized
PROPERTY ImplementsAddressSpaces
CHECK_DEADLOCK FALSE

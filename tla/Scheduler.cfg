SPECIFICATION FairSpec
CONSTANTS
  CpuIds <- BothIds
  BspIds <- BothIds
  BspThread = bsp
  Users <- MCUsers
  u1 = u1
  u2 = u2
  None = None
  Idle = Idle
  MaxWork = 1
INVARIANTS
  IInv
  QueueWellFormed
  RunningIsCurrent
  ContextIntegrity
PROPERTIES
  ImplementsRoundRobin
  TicksGoOn
  RunnableRuns

SPECIFICATION KernelSpec
CONSTANTS
  low = low
  med1 = med1
  med2 = med2
  high = high
  NoThread = NoThread
  Thread <- MCThread
  init_priority <- MCPriority
  HoldMax = 2
INVARIANTS
  OwnershipConsistent
  PriorityRestored
PROPERTIES
  HandoverToHighest
  NoOvertaking
  NoMediumRuns

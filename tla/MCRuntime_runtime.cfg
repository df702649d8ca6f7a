SPECIFICATION MCSpec
CONSTANTS
  MaxCalls = 7
  Nodes = 2
  MinClass = 2
  Requests <- MCRequests
  Setups <- MCSetups
INVARIANTS HeldIntact NoRace MemorySound Carried
PROPERTIES GetsNewest AllDelivered
CHECK_DEADLOCK FALSE

SPECIFICATION MCSpec
CONSTANTS
  MaxCalls = 7
  Nodes = 2
  MinClass = 2
  Requests <- MCRequests
  Setups <- MultipleSetups

PROPERTY AllDelivered
CHECK_DEADLOCK FALSE

SPECIFICATION FairSpec
CONSTANTS
  Worker = {w1}
  Server = {s1, s2}
  PartSets <- SomeServer
  MaxRequests <- Two
PROPERTIES WaitReturns AddsApplied
CHECK_DEADLOCK FALSE

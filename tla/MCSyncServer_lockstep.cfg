SPECIFICATION FairSpec
CONSTANTS
  Worker = {w1, w2, w3}
  IntMax = 9
  NumGets = 2
  AddsBefore <- Program
  NumAdds = 4
  Pipelined = FALSE
  Unwaited = FALSE
  EarlyStop = FALSE
INVARIANTS GetsSeeJthUpdate LockStep NoCheckFails Inv
PROPERTIES ImplementsBsp TrainingEnds
CHECK_DEADLOCK FALSE

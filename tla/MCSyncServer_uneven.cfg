SPECIFICATION Spec
CONSTANTS
  Worker = {w1, w2, w3}
  IntMax = 9
  NumGets = 2
  AddsBefore <- Program
  NumAdds = 4
  Pipelined = FALSE
  Unwaited = FALSE
  EarlyStop = TRUE
INVARIANT GetsAgree
PROPERTY ImplementsBsp
CHECK_DEADLOCK FALSE

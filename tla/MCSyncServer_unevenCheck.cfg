SPECIFICATION Spec
CONSTANTS
  Worker = {w1, w2}
  IntMax = 9
  NumGets = 2
  AddsBefore <- Program
  NumAdds = 4
  Pipelined = FALSE
  Unwaited = FALSE
  EarlyStop = TRUE
SYMMETRY Perms
INVARIANT NoCheckFails
CHECK_DEADLOCK FALSE

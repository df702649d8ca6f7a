SPECIFICATION Spec
CONSTANTS
  Worker = {w1, w2, w3}
  IntMax = 9
  NumGets = 2
  AddsBefore <- Program
  NumAdds = 4
  Pipelined = TRUE
  Unwaited = FALSE
  EarlyStop = FALSE
SYMMETRY Perms
INVARIANT GetsAgree
CHECK_DEADLOCK FALSE

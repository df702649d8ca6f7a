SPECIFICATION Spec
CONSTANTS
  Jobs <- ZmqJobs
  Small = 4
INVARIANT Correct
CHECK_DEADLOCK FALSE

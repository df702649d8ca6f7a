SPECIFICATION Spec
CONSTANTS
  Jobs <- MCJobs
  Small = 4
INVARIANT Correct
PROPERTY Ends
CHECK_DEADLOCK FALSE

SPECIFICATION FairSpec
CONSTANTS
  Size = 3
  Role <- Roles
  NumBarriers = 2
  Eager = {FALSE}
PROPERTY AllStop
CHECK_DEADLOCK FALSE

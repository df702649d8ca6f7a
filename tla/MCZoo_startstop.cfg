SPECIFICATION FairSpec
CONSTANTS
  Size = 3
  Role <- Roles
  NumBarriers = 2
  Eager = {TRUE, FALSE}
INVARIANTS BarrierHolds IdsAgree
PROPERTY BufferedStop
CHECK_DEADLOCK FALSE

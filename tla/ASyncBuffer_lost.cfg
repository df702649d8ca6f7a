SPECIFICATION FairSpec
CONSTANT MaxCalls = 7
PROPERTY CallsReturn
CHECK_DEADLOCK FALSE

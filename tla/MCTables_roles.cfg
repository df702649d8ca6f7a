SPECIFICATION Spec
CONSTANTS
  NumRow = 3
  NumRanks = 3
  NumServers = 2
  NumWorkers = 2
  ServerIdToRank <- Apart
  Kinds = {"array"}
  Calls <- Adds
  MaxRequests <- Requests
  Pipeline = FALSE
INVARIANT ChecksHold
CHECK_DEADLOCK FALSE

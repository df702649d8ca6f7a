SPECIFICATION Spec
CONSTANTS
  NumRow = 3
  NumRanks = 3
  NumServers = 2
  NumWorkers = 2
  ServerIdToRank <- Swapped
  Kinds = {"sparse"}
  Calls <- RowCalls
  MaxRequests <- Requests
  Pipeline = FALSE
INVARIANT ChecksHold
CHECK_DEADLOCK FALSE

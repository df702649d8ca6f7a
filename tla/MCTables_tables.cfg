SPECIFICATION Spec
CONSTANTS
  NumRow = 3
  NumRanks = 3
  NumServers = 2
  NumWorkers = 2
  ServerIdToRank <- Swapped
  Kinds = {"array", "kv", "matrix", "sparseMatrix", "dense", "sparse", "logreg", "ftrl"}
  Calls <- CareCalls
  MaxRequests <- Requests
  Pipeline = TRUE
INVARIANTS ChecksHold AddsConserved Fresh
PROPERTY GetDelivers
CHECK_DEADLOCK FALSE

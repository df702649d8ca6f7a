SPECIFICATION Spec
CONSTANTS
  Worker = {w1, w2}
  Server = {s1, s2}
  PartSets <- SomeServer
  MaxRequests <- Requests
SYMMETRY Perms
INVARIANTS GetsSeeAdds WaitsForAll NoneTooLate
CHECK_DEADLOCK FALSE

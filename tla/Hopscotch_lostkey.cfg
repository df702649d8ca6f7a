SPECIFICATION Spec
CONSTANTS
  Keys = {0, 1, 2, 4, 5}
  Vals = {1}
  Neighbour = 3
  MinCapacity = 4
  MaxCapacity = 8
INVARIANT Agrees
CHECK_DEADLOCK FALSE

SPECIFICATION MCSpec
CONSTANTS
  Configs <- MCConfigs
  TrainFiles <- MCTrainFiles
  TestFiles <- MCTestFiles
  ReadBuffer = 2
  Epochs = 2
  Keys = {0, 1, 2, 4, 5, 8}
  Vals = {1}
  Neighbour = 3
  MinCapacity = 4
  MaxCapacity = 8
INVARIANTS SamplesKept InOrder ModelSound KeysMatch HashAgrees
PROPERTY TrainingEnds
CHECK_DEADLOCK FALSE

SPECIFICATION MCSpec
CONSTANTS
  Configs <- MCConfigs
  Words = {"a", "b"}
  MaxPreload = 1
  CountChunk = 1
  Unit = 16
  Vocab = {"a", "b", "c", "d"}
  Freqs = {0, 1, 2, 3}
  MaxLines = 4
  MinCount = 2
INVARIANTS BlocksInOrder NoLostUpdate SavedLast
INVARIANTS DictionaryAgrees OptimalCode
PROPERTY TrainingEnds
CHECK_DEADLOCK FALSE

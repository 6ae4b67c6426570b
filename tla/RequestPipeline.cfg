SPECIFICATION Spec
CONSTANTS
  Threshold = 9
  KeepRecent = 1
  GuardMargin = 1
  BulkWeight = 3
  MinRun = 2
  MaxTries = 3
  Margin = 2
  TokenMinimum = 6
  MinFloor = 1
  Reserve = 0
  Tops = {0, 2}
  Factors = {10}
  Window = 2
  FirstEpoch = TRUE
  Beginnings <- MCBeginnings
  MaxExchanges = 3
  MaxFaults = 2
  Nothing = Nothing
  Unloaded = Unloaded
INVARIANTS
  HistoryIsWhole
  ReplacedIsStored
  ResultsHaveUses
  ActivePairIsWhole
  FallbackAlternates
  AnswerIsUsed
CHECK_DEADLOCK FALSE

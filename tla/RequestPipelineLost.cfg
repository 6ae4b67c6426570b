SPECIFICATION Spec
CONSTANTS
  Threshold = 9
  KeepRecent = 1
  GuardMargin = 1
  BulkWeight = 3
  MinRun = 2
  MaxTries = 3
  Margin = 2
  TokenMinimum = 6
  MinFloor = 1
  Reserve = 0
  Tops = {0}
  Factors = {10}
  Window = 2
  FirstEpoch = TRUE
  Beginnings <- MCTwoTools
  MaxExchanges = 4
  MaxFaults = 2
  Nothing = Nothing
  Unloaded = Unloaded
INVARIANT LostPrefixIsRefolded
CHECK_DEADLOCK FALSE

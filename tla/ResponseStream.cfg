SPECIFICATION LiveSpec
CONSTANTS
  MaxItems = 3
  HardLimit = TRUE
  IdleLimit = TRUE
INVARIANTS
  NothingLost
  SuccessIsWhole
  UsageIsOfWhole
PROPERTIES
  ReplyStays
  HandlerEnds

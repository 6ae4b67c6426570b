SPECIFICATION FairSpec
CONSTANTS
  q1 = q1
  q2 = q2
  Requests = {q1, q2}
  MaxEpoch = 2
  MaxRestarts = 1
  NoRequest = NoRequest
  NoBase = NoBase
  NoRow = NoRow
  Unread = Unread
INVARIANTS
  NewestAnswerStays
  EmptyIsKnown
  BranchKeepsItsOwn
  RowIsLastDecision
PROPERTY RequestsEnd
CHECK_DEADLOCK FALSE

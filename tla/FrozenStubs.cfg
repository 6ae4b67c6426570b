SPECIFICATION Spec
CONSTANTS
  x = x
  y = y
  q1 = q1
  q2 = q2
  Requests = {q1, q2}
  Histories <- MCHistories
  Earlier <- MCEarlier
  BadRows = {1}
  MaxEpoch = 2
  MaxRestarts = 0
  NoRequest = NoRequest
  NoSnap = NoSnap
  Corrupt = Corrupt
  Unknown = Unknown
SYMMETRY SameHandlers
INVARIANTS
  ReusedPrefixFits
  AbsenceIsKnown
  StoredStays
  RowIsLastDecision
CHECK_DEADLOCK FALSE

SPECIFICATION FairSpec
CONSTANTS
  x = x
  y = y
  q1 = q1
  q2 = q2
  Requests = {q1, q2}
  Histories <- MCEarlier
  Earlier = {}
  BadRows = {0, 1}
  MaxEpoch = 1
  MaxRestarts = 1
  NoRequest = NoRequest
  NoSnap = NoSnap
  Corrupt = Corrupt
  Unknown = Unknown
PROPERTY RequestsEnd
CHECK_DEADLOCK FALSE

\* As in HistoryArchive.cfg, with histories that can be put in canonical form only.
SPECIFICATION Spec
CONSTANTS
  x = x
  y = y
  q1 = q1
  q2 = q2
  b1 = b1
  b2 = b2
  b3 = b3
  Requests = {q1, q2}
  Messages = {x, y}
  Histories <- MCReadable
  Invalid = Invalid
  BlockIDs = {b1, b2}
  MaxEpoch = 3
SYMMETRY HandlersAndIDs
INVARIANT MarkersResolve

\* Two overlapping requests of a session, histories of one or two messages, two
\* blocks and two changes of branch.
SPECIFICATION Spec
CONSTANTS
  x = x
  y = y
  q1 = q1
  q2 = q2
  b1 = b1
  b2 = b2
  b3 = b3
  Requests = {q1, q2}
  Messages = {x, y}
  Histories <- MCHistories
  Invalid = Invalid
  BlockIDs = {b1, b2}
  MaxEpoch = 3
SYMMETRY HandlersAndIDs
INVARIANTS
  VisibleOnKnownBranch
  DerivedOnBranch
  MarkerNamesItsText
PROPERTY EpochsAreBranches

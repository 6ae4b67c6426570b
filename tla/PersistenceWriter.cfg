\* Three writes of one key, the second a delete, and one of another; two workers
\* and a queue of two; no symmetry, for the temporal properties.
SPECIFICATION Spec
CONSTANTS
  a1 = a1
  a2 = a2
  a3 = a3
  b1 = b1
  a = a
  b = b
  NoOp = NoOp
  Keys = {a, b}
  KeyOf <- MCKeyOf
  Deletes = {a2}
  Ops = {a1, a2, a3, b1}
  Workers = {w1, w2}
  w1 = w1
  w2 = w2
  QueueCapacity = 2
INVARIANTS
  TriedInOrder
  DiskIsNewestSaved
  NoLostWakeup
  DrainedIsComplete
PROPERTIES
  CloseReturns
  ImplementsOrderedStore
CHECK_DEADLOCK FALSE

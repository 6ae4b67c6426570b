\* Three requests on one-place queues: one in the worker's hands while one is queued
\* and one lost, before or after the claim; no symmetry, for the temporal properties.
SPECIFICATION Spec
CONSTANTS
  r1 = r1
  r2 = r2
  r3 = r3
  Requests = {r1, r2, r3}
  Eligible = {r1, r2}
  SessionCapacity = 1
  TerminalCapacity = 1
INVARIANTS
  NoSilentLoss
  HealthyOrAnnounced
  DrainedIsEmpty
PROPERTIES
  CloseReturns
  ImplementsDelivery
CHECK_DEADLOCK FALSE

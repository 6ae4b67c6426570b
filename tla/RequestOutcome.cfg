\* One request with two writes and an archive commit, two workers that may both find
\* it finished, a queue of one, and the shutdown; no symmetry, for the temporal property.
SPECIFICATION OutcomeSpec
CONSTANTS
  o1 = o1
  o2 = o2
  a = a
  b = b
  r1 = r1
  w1 = w1
  w2 = w2
  NoOp = NoOp
  Ops = {o1, o2}
  Deletes = {}
  Keys = {a, b}
  KeyOf <- MCKeyOf
  Owner <- MCOwnerOne
  Requests = {r1}
  Workers = {w1, w2}
  QueueCapacity = 1
INVARIANTS
  DispatchedOnceAndLast
  ClosureTellsTheWorst
  OrderlyShutdownRefusesNothing
PROPERTY AcceptedRequestCloses
CHECK_DEADLOCK FALSE

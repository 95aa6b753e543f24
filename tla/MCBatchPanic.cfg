SPECIFICATION Spec
CONSTANTS
  N = 3
  MaxWorkers = 2
  Backends <- ThreadOnly
INVARIANT
  NeverRaises
CHECK_DEADLOCK FALSE

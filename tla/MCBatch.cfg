SPECIFICATION Spec
CONSTANTS
  N = 3
  MaxWorkers = 2
  Backends <- AllBackends
INVARIANTS
  TypeOK
  CompletionOrder
  CancelBites
  OnlyPanicsAndCrashesRaise
PROPERTIES
  KeepsPromise
  Terminates
CHECK_DEADLOCK FALSE

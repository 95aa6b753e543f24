SPECIFICATION Spec
CONSTANTS
  s1 = s1
  s2 = s2
  Streams <- TwoStreams
  Descriptors <- FourDescriptors
  NoFd = NoFd
  Capacity = 1
  Lengths <- SomeLengths
  Requests <- SomeRequests
  Interrupts = TRUE
INVARIANT
  WriteEndIsWorkers
CHECK_DEADLOCK FALSE

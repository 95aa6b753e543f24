SPECIFICATION Spec
CONSTANTS
  s1 = s1
  s2 = s2
  Streams <- TwoStreams
  Descriptors <- FourDescriptors
  NoFd = NoFd
  Capacity = 1
  Lengths <- SomeLengths
  Requests <- SomeRequests
  Interrupts = FALSE
INVARIANT
  AlarmMeansBroken
CHECK_DEADLOCK FALSE

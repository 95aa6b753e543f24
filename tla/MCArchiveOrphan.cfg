SPECIFICATION Spec
CONSTANTS
  f1 = f1
  f2 = f2
  s1 = s1
  Files <- TwoFiles
  Streams <- OneStream
  NoFile = NoFile
  Owner = Owner
  Sources <- BytesOnly
  SpillFaults = TRUE
  Reaping = FALSE
INVARIANT
  CloseDeletesEveryFile
CHECK_DEADLOCK FALSE

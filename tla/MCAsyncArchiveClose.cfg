SPECIFICATION Spec
CONSTANTS
  f1 = f1
  f2 = f2
  a1 = a1
  a2 = a2
  s1 = s1
  s2 = s2
  r1 = r1
  c1 = c1
  c2 = c2
  NoFile = NoFile
  Owner = Owner
  Files <- TwoFiles
  Attempts <- OneAttempt
  Streams <- OneStream
  Calls <- OneCall
  Closers <- TwoClosers
INVARIANTS
  ReleasedOnce
CHECK_DEADLOCK FALSE

SPECIFICATION Spec
CONSTANTS
  f1 = f1
  f2 = f2
  a1 = a1
  a2 = a2
  s1 = s1
  s2 = s2
  r1 = r1
  c1 = c1
  c2 = c2
  NoFile = NoFile
  Owner = Owner
  Files <- TwoFiles
  Attempts <- TwoAttempts
  Streams <- OneStream
  Calls <- OneCall
  Closers <- TwoClosers
INVARIANTS
  TypeOK
  ReleasedOnceApart
  LeftNothingBehind
PROPERTIES
  CallsInsideFindTheCopy
  OpenedInsideIsServed
  AbandonedCopyGoes
  KeepsClaims
CHECK_DEADLOCK FALSE

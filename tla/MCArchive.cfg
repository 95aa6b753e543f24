SPECIFICATION Spec
CONSTANTS
  f1 = f1
  f2 = f2
  s1 = s1
  Files <- TwoFiles
  Streams <- OneStream
  NoFile = NoFile
  Owner = Owner
  Sources <- AnySource
  SpillFaults = TRUE
  Reaping = TRUE
INVARIANTS
  TypeOK
  ClaimedFileExists
  NothingLeftBehind
  SealedStaysShut
  ReprIsSafe
PROPERTIES
  GoodArchiveRecognised
  ClosedIsFinal
  NoStarvedReader
  LetGoFilesGo
  KeepsClaims
CHECK_DEADLOCK FALSE

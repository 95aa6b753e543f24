SPECIFICATION SpecAll
CONSTANTS
  f1 = f1
  f2 = f2
  s1 = s1
  a = a
  b = b
  Files <- TwoFiles
  Streams <- OneStream
  NoFile = NoFile
  Owner = Owner
  Sources <- BytesOnly
  SpillFaults = FALSE
  Reaping = FALSE
  Names <- TwoNames
  MaxEntries = 3
  Listing <- Doubled
  Selections <- SomeSelections
  MaxDepth = 2
INVARIANTS
  StackOK
  RunningFindsItsCopy
  ListingNeverBusy
  LentReaderIsCurrent
  LookupsAgree
CHECK_DEADLOCK FALSE

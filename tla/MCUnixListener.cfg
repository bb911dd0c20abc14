SPECIFICATION LiveSpec
CONSTANTS
  Calls = {i1, i2}
  Other = Other
  None = None
  MaxLstatErrors = 1
INVARIANTS
  TypeOK
  PathReachable
  CleanedUp
PROPERTIES
  ReplaceOnly
  SupersededCloses
  WatchEnds

CONSTANTS
  None = None
  PathDangles = TRUE
  MaxInode = 2
  MaxLine = 2
  MaxOps = 6
SPECIFICATION FairSpec
INVARIANTS
  TypeOK
  LiveWatchesMapped
  PositionInFile
  DeafOnlyAfterFailure
PROPERTIES
  NoLineTwice
  WrittenLineProcessed
CHECK_DEADLOCK FALSE

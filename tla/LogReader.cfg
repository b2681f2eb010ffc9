CONSTANTS
  Writes <- MixedWrites
  Seps <- Newlines
  NUL = "Z"
  ReadMax = 2
  MaxItem = 3
  SizeLimit = 2
  MaxBytes = 6
SPECIFICATION FairSpec
INVARIANTS
  TypeOK
  NothingSkipped
  HeadIsOneLine
  TrashBounded
  CaughtUpWhenIdle
  SizeNoticesMatch
PROPERTIES
  RoundEnds
CHECK_DEADLOCK FALSE

CONSTANTS
  Writes <- MixedWrites
  Seps <- Newline
  NUL = "Z"
  ReadMax = 3
  MaxItem = 3
  SizeLimit = 2
  MaxBytes = 7
SPECIFICATION Spec
INVARIANT
  ItemIsOneLine
CHECK_DEADLOCK FALSE

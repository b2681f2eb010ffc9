CONSTANTS
  None = None
  PathDangles = FALSE
  MaxInode = 3
  MaxLine = 2
  MaxOps = 6
SPECIFICATION Spec
INVARIANT
  NeverDeaf
CHECK_DEADLOCK FALSE

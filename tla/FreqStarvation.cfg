CONSTANTS
  Configs <- OnlyPair
  Crcs = {0}
  HardSlack = 1
  SleepSecs = 1
  Lag = 0
  MaxTime = 12
  MaxMatch = 2
SPECIFICATION Spec
INVARIANTS
  DownboundTimelyWhileAlive
CHECK_DEADLOCK FALSE

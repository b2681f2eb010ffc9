CONSTANTS
  Configs <- SoloAndPair
  Crcs = {0, 1}
  HardSlack = 0
  SleepSecs = 1
  Lag = 1
  MaxTime = 8
  MaxMatch = 4
SPECIFICATION Spec
INVARIANTS
  TypeOK
  QueueBounded
  ExcessNotHidden
  ShortestDownboundTimely
PROPERTIES
  FireOnlyWhenQuiet
  NotifyOnlyOnBurst
CHECK_DEADLOCK FALSE

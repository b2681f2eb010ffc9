CONSTANTS
  Threads = {main, worker}
  Main = main
  None = None
  Messages <- MCMessages
  MaxMinute = 2
  MaxCalls = 2
  MaxSignals = 2
  CommandLines <- MCCommandLines
SPECIFICATION Spec
INVARIANTS
  TypeOK
  StreamsUsedOpen
  RepeatsAccounted
  RotationTakesEffect
  StartedAsAsked
PROPERTIES
  LogReturns
CHECK_DEADLOCK FALSE

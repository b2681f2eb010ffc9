CONSTANTS
  Producers = {main, down}
  Workers = {w1, w2}
  Commands = {upb, downb, empty}
  Empty = empty
  NoThread = NoThread
  NoCommand = NoCommand
  MaxPush = 3
SPECIFICATION FairSpec
INVARIANTS
  TypeOK
  NothingLostOrDuplicated
  MutexHeldByPusher
PROPERTIES
  ImplementsFifo
  AwakeWorkerDrains
  NextSignalRescues
  EnqueueReturns

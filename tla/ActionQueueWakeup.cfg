CONSTANTS
  Producers = {main}
  Workers = {w1, w2}
  Commands = {upb, downb, empty}
  Empty = empty
  NoThread = NoThread
  NoCommand = NoCommand
  MaxPush = 2
SPECIFICATION FairSpec
PROPERTIES
  EveryActionTaken

CONSTANTS
  Texts <- SomeTexts
  NoFile = NoFile
  Paths = {"log", "aux"}
  Options <- SomeOptions
  def_config <- Defaults
  Undefined = "undefined"
  BadRegex = "bad"
  NoItem = NoItem
  MaxEnv = 4
SPECIFICATION FairSpec
INVARIANTS
  TypeOK
  NoDanglingPointer
  WholeConfiguration
PROPERTIES
  LoadAgreesWithTest
  RequestSeen
  LoadReturns
CHECK_DEADLOCK FALSE

CONSTANTS
  Texts <- SomeTexts
  NoFile = NoFile
  Paths = {"log", "aux"}
  Options <- SomeOptions
  def_config <- Defaults
  Undefined = "undefined"
  BadRegex = "bad"
  NoItem = NoItem
  MaxEnv = 3
SPECIFICATION Spec
PROPERTIES
  ReloadKeepsDaemon
CHECK_DEADLOCK FALSE

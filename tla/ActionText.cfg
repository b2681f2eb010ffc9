CONSTANTS
  MaxLength = 5
  MaxTokens = 4
  Characters <- SomeCharacters
  Actions <- SomeActions
  Lines <- SomeLines
  Matches <- SomeMatches
SPECIFICATION Spec
INVARIANTS
  SubstitutesAsDocumented
PROPERTIES
  SubstitutionEnds
CHECK_DEADLOCK FALSE

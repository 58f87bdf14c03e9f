SPECIFICATION Spec
CONSTANTS
  None = None
  DefaultCap = 3
  Caps = {0, 2}
  Timeout = 1
  SnippetMax = 1
  MaxFrame = 2
  MaxBody = 4
  FlagSets <- MCFlagSets
INVARIANTS
  FailureNamesLayer
  InBudget
  BodyIsHonest
  FlagsHonoured
PROPERTY
  Terminates

SPECIFICATION Spec
CONSTANTS
  Configs <- InvalidSources
  Worlds <- OneWorld
INVARIANT PrepareFindsInvalidSource

SPECIFICATION Spec
CONSTANTS
  Builds = {b1, b2}
  Configs <- ImportConfigs
  Libraries <- AllLibraries
INVARIANTS
  TypeOK
  ImportedIsThere
PROPERTY ReplacedOnRequest

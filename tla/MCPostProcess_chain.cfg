SPECIFICATION Spec
CONSTANTS
  Configs <- AllConfigs
  Inventories <- AllInventories
  Tries = 2
INVARIANTS
  TypeOK
  TemplateIsMade
  NothingIsLost
CHECK_DEADLOCK FALSE

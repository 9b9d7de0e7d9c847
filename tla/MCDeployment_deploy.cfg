SPECIFICATION FairSpec
CONSTANTS
  Configs <- AllConfigs
  Worlds <- SomeWorlds
INVARIANTS
  TypeOK
  AsConfigured
  OldMachineKept
  LeftBehind
PROPERTY Settles

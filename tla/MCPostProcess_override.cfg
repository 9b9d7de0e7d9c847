SPECIFICATION Spec
CONSTANTS
  Configs <- OverrideConfigs
  Inventories <- UsualInventories
  Tries = 2
INVARIANT MachineIsNotReplaced
CHECK_DEADLOCK FALSE

SPECIFICATION Spec
CONSTANTS
  Items <- MachineFiles
  Disks <- MachineDisks
  Configs <- AllConfigs
INVARIANT OvaIsMade

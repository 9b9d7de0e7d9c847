SPECIFICATION FairSpec
CONSTANTS
  Items <- MachineFiles
  Disks <- MachineDisks
  Configs <- AllConfigs
INVARIANTS
  TypeOK
  WholeExport
PROPERTY Settles

SPECIFICATION Spec
CONSTANTS
  Configs <- TaggingConfigs
  Foreign <- EmptyNamespace
INVARIANT NeverPanics

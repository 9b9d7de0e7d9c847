SPECIFICATION Spec
CONSTANTS
  Configs <- ImportingConfigs
  Foreign <- EmptyNamespace
INVARIANT ImportedImageCleaned

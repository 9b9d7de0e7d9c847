SPECIFICATION Spec
CONSTANTS
  Configs <- PublishingConfigs
  Foreign <- EmptyNamespace
INVARIANT SuccessIsFinished

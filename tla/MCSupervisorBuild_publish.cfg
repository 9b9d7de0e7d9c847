SPECIFICATION Spec
CONSTANTS
  Configs <- PublishingConfigs
  Foreign <- TakenPublishRequest
PROPERTY SparesForeignPublishRequest

SPECIFICATION FairSpec
CONSTANTS
  Configs <- BuildConfigs
  Foreign <- SharedNamespaces
INVARIANTS
  TypeOK
  LeavesNothingBehind
  StatesPresent
  ProvisionsReadyVM
  FailureReported
  SuccessIsPublished
PROPERTIES
  DeletesOnlyOwn
  PublishesProvisionedVM
  BuildEnds
  KeepsContract

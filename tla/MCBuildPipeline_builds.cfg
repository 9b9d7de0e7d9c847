SPECIFICATION FairSpec
CONSTANT Configs <- AllConfigs
INVARIANTS
  TypeOK
  LeavesNothingBehind
  RequiredKeysPresent
  DestroysColdMachine
  UninterruptedFailureReported
  CompleteArtifact
PROPERTIES
  ProductsAreCold
  BuildReturns
  ImplementsContract

SPECIFICATION FairSpec
CONSTANTS
  Builds = {b1, b2}
  TagOf <- ServerTags
  Existing <- OldTags
  Categories <- ServerCategories
  Associable <- VMCategories
  WellFormed <- URNs
  Configs <- AllConfigs
  MaxAttempts = 3
  Faults = {"transient", "permanent"}
INVARIANTS
  TypeOK
  AppliesWhatIsWanted
PROPERTIES
  ResolvesBeforeAttaching
  Ends

SPECIFICATION Spec
CONSTANTS
  Builds = {b1, b2}
  TagOf <- ServerTags
  Existing <- OldTags
  Categories <- ServerCategories
  Associable <- VMCategories
  WellFormed <- URNs
  Configs <- SharingConfigs
  MaxAttempts = 3
  Faults = {}
INVARIANT SharedTagsCreated

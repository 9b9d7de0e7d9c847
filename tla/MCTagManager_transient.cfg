SPECIFICATION Spec
CONSTANTS
  Builds = {b1}
  TagOf <- ServerTags
  Existing <- OldTags
  Categories <- ServerCategories
  Associable <- VMCategories
  WellFormed <- URNs
  Configs <- SharingConfigs
  MaxAttempts = 3
  Faults = {"transient"}
INVARIANT TransientErrorsSurvived

SPECIFICATION Spec
CONSTANTS
  MaxUnit <- MCMaxUnit
  MaxDisks <- MCMaxDisks
  MaxBus = 1
  Reserved = 2
  Datastores = {"ds1", "ds2"}
  Policies = {"gold", "silver"}
  Names = {"a", "b"}
  NetworkTypes = {"Network", "OpaqueNetwork"}
  Unset = Unset
  Templates <- MCTemplates
  DiskConfigurations <- MCDiskConfigurations
  StorageServers = {}
  StorageRequests = {}
  Inventories = {}
  Queries = {}
INVARIANT DisksAtExistingUnits
CHECK_DEADLOCK FALSE

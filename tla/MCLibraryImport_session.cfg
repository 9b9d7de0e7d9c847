SPECIFICATION Spec
CONSTANTS
  Builds = {b1}
  Configs <- SessionConfigs
  Libraries <- LocalLibrary
INVARIANT TagsFindSession

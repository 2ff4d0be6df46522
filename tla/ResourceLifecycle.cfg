CONSTANTS
  app = app
  lib = lib
  core = core
  broken = broken
  tool = tool
  mod = mod
  nowhere = nowhere
  Resource <- Resources
  Needs <- Manifests
  Unmet <- Constrained
  Foreign <- Unsuited
  Builds <- Built
  MaxBuilds = 2
SPECIFICATION FairSpec
INVARIANTS TypeOK DependenciesRun StopReachesDependants NothingLeftOver NoRecursion
PROPERTIES PutOffKept CallsReturn
CHECK_DEADLOCK FALSE

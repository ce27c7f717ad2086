SPECIFICATION FairSpec
CONSTANTS
  Jobs = {1, 2}
  Relations <- MCRelations
  Targets = {"dir", "rsync"}
  Limit = 1
  MaxFails = 1
  MaxCrashes = 1
INVARIANTS
  ResultFound
  DependencyStays
PROPERTIES
  SpaceComesBack

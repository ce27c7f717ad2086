SPECIFICATION FairSpec
CONSTANTS
  Jobs = {"big", "small"}
  Tenths <- MCTenths
  PoolTenths = 10
  Fillers = {"small"}
  Ttl = 1
  MaxFaults = 2
  MaxCrashes = 1
INVARIANTS
  TypeOK
  RetryIsHarmless
  RunningFits
PROPERTIES
  LeasesAreFreed
  LeasesComeBack

SPECIFICATION FairSpec
CONSTANTS
  Jobs = {1, 2}
  Workloads <- ChainWorkloads
  MaxRetries = 1
  MaxRevise = 0
  MaxOomRetries = 0
  MaxDrainRequeues = 0
  MaxExtend = 1
  MaxAttempts = 1
  MaxFaults = 1
  StatusMayTimeOut = FALSE
PROPERTIES
  EveryRunEnds
  BlockedIsDecided

SPECIFICATION Spec
CONSTANTS
  Jobs = {1, 2}
  Workloads <- PreAfterWorkloads
  MaxRetries = 1
  MaxRevise = 0
  MaxOomRetries = 1
  MaxDrainRequeues = 1
  MaxExtend = 0
  MaxAttempts = 2
  MaxFaults = 0
  StatusMayTimeOut = FALSE
INVARIANTS
  NothingFiresUnapproved

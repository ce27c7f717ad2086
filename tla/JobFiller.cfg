SPECIFICATION Spec
CONSTANTS
  Jobs = {1, 2}
  Workloads <- FillerWorkloads
  MaxRetries = 1
  MaxRevise = 0
  MaxOomRetries = 1
  MaxDrainRequeues = 1
  MaxExtend = 0
  MaxAttempts = 1
  MaxFaults = 1
  StatusMayTimeOut = FALSE
INVARIANTS
  OneCopy

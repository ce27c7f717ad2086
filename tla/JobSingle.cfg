SPECIFICATION Spec
CONSTANTS
  Jobs = {1}
  Workloads <- SingleWorkloads
  MaxRetries = 1
  MaxRevise = 1
  MaxOomRetries = 1
  MaxDrainRequeues = 1
  MaxExtend = 1
  MaxAttempts = 2
  MaxFaults = 2
  StatusMayTimeOut = TRUE
INVARIANTS
  NoDoneWithoutRecord
  StagedRunsOnlyApproved
  PostGateHolds
  HeldIsWhole
  OneCopy
  RequeuesAreBounded

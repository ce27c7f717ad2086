SPECIFICATION Spec
CONSTANTS
  Jobs = {1, 2, 3}
  Workloads <- DagWorkloads
  MaxRetries = 1
  MaxRevise = 0
  MaxOomRetries = 1
  MaxDrainRequeues = 1
  MaxExtend = 0
  MaxAttempts = 2
  MaxFaults = 1
  StatusMayTimeOut = FALSE
INVARIANTS
  DependenciesFirst
PROPERTIES
  TerminalIsFinal
  KeepsPromise

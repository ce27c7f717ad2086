SPECIFICATION FairSpec
CONSTANTS
  Cells = {c1}
  Cids = {3}
  Vms = {v1, v2, v3}
  Handlers = {h1, h2}
  MaxFaults = 1
INVARIANTS
  TypeOK
  OneMachine
  WorkKept
PROPERTIES
  MachinesAreKnown
CHECK_DEADLOCK FALSE

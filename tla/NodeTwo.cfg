SPECIFICATION Spec
CONSTANTS
  Cells = {c1, c2}
  Cids = {3, 4}
  Vms = {v1, v2, v3}
  Handlers = {h1}
  MaxFaults = 1
SYMMETRY Symmetric
INVARIANTS
  CidsDistinct
CHECK_DEADLOCK FALSE

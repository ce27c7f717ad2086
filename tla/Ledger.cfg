SPECIFICATION FairSpec
CONSTANTS
  Procs = {p1, p2}
  Events = {e1}
  Background = {p1}
  Base = 2
  MaxLines = 2
  MaxFails = 1
  MaxCrashes = 1
  MaxOverlaps = 1
INVARIANTS
  NothingSkipped
  InOrder
  OnceIfAlone
  HeadsAgree
PROPERTIES
  RecordedIsApplied

SPECIFICATION FairSpec
CONSTANTS
  Tasks = {1, 2, 3}
CHECK_DEADLOCK FALSE
INVARIANTS
  WavesLayered
  CyclesNamed
PROPERTIES
  AlwaysReturns

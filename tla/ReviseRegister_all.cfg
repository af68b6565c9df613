SPECIFICATION Spec
CONSTANTS
  Files <- TaskFiles
  Guidance <- ScanGuidance
  MaxReviseRounds = 3
  MaxFlags = 5
INVARIANTS
  RoundsLimited
PROPERTIES
  NothingLost

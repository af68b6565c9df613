SPECIFICATION FairSpec
CONSTANTS
  Tasks <- PairTasks
  Wave <- PairWave
  Deps <- PairDeps
  MaxReviseRounds = 0
  Breakable = {}
  ExplicitLines = {FALSE}
  ReAnswer = FALSE
  MaxIntents = 10
  MaxCrashes = 0
  MaxHeals = 1
  MaxErrors = 1
  CanHold = FALSE
PROPERTIES
  GatesOpen
  Settles

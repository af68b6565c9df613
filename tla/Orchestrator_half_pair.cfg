SPECIFICATION Spec
CONSTANTS
  Tasks <- PairTasks
  Wave <- PairWave
  Deps <- PairDeps
  MaxReviseRounds = 1
  Breakable = {}
  ExplicitLines = {FALSE}
  ReAnswer = FALSE
  MaxIntents = 8
  MaxCrashes = 1
  MaxHeals = 0
  MaxErrors = 0
  CanHold = FALSE
INVARIANT
  DoneIsReviewed

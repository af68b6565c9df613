SPECIFICATION Spec
CONSTANTS
  Tasks <- PairTasks
  Wave <- PairWave
  Deps <- PairDeps
  MaxReviseRounds = 1
  Breakable = {2}
  ExplicitLines = {FALSE}
  ReAnswer = FALSE
  MaxIntents = 10
  MaxCrashes = 0
  MaxHeals = 0
  MaxErrors = 0
  CanHold = FALSE
INVARIANTS
  DoneIsReviewed
  NoneStranded
  BlockedAfterRounds
PROPERTIES
  FinalIsFinal
  ReviewsAreAtomic

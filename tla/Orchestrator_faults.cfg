SPECIFICATION Spec
CONSTANTS
  Tasks <- WavesTasks
  Wave <- WavesWave
  Deps <- WavesDeps
  MaxReviseRounds = 1
  Breakable = {}
  ExplicitLines = {FALSE}
  ReAnswer = FALSE
  MaxIntents = 7
  MaxCrashes = 1
  MaxHeals = 1
  MaxErrors = 0
  CanHold = TRUE
INVARIANTS
  ClosedMeansDone
  ReviewIsolation
  OneLiveDispatch
PROPERTIES
  DispatchRespectsDeps

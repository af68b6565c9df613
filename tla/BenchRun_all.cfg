SPECIFICATION FairSpec
CONSTANTS
  Tasks = {1, 2}
  Wave <- OneWave
  Deps <- NoDeps
  Before <- OneToDo
  Odd = {2}
  StaleAfter = 1
  MaxMishaps = 2
  Instances = 2
  Deadline = 1
INVARIANTS
  ResultsTrue
PROPERTIES
  BeatingNotRestarted
  SyncSuffices
  DeadHealed
  BatchEnds

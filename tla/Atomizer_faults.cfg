SPECIFICATION Spec
CONSTANTS
  Tasks = {1, 2, 3}
  MaxSteps = 3
  MaxSubtasks = 2
  Verbatim = {1, 2, 3}
  Faults = {"nonce", "write", "unlink", "map"}
  MaxCalls = 2
  MayKill = TRUE
CHECK_DEADLOCK FALSE
INVARIANTS
  TypeOK
  OrderKept
  MapAgrees
  FailureUndone
  NoStepLost

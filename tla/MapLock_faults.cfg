SPECIFICATION FairSpec
CONSTANTS
  Procs = {p1, p2, p3}
  MaxRetries = 2
  Ages = "any"
  MayRaise = TRUE
  MayCrash = TRUE
  OSErrors = TRUE
  NoOwner = NoOwner
INVARIANTS
  NoLockLeft
PROPERTIES
  CallsEnd

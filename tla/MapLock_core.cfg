SPECIFICATION Spec
CONSTANTS
  Procs = {p1, p2, p3}
  MaxRetries = 2
  Ages = "nobody"
  MayRaise = FALSE
  MayCrash = TRUE
  OSErrors = TRUE
  NoOwner = NoOwner
INVARIANTS
  TypeOK
  Mutex
PROPERTIES
  AtomicUpdates

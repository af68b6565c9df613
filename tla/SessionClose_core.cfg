SPECIFICATION FairSpec
CONSTANTS
  Procs = {p1, p2}
  Orphans = {p2}
  Tasks = {1, 2}
  Breakable = {2}
  MaxSessions = 2
  MaxRepairs = 1
  MaxKills = 1
INVARIANTS
  NothingCarriedOver
  StillClosable
PROPERTIES
  ClosedCodeIsClean
  OnlyDoneDeleted
  ClosesAtomically
  SessionsClose

------------------------------ MODULE AtomicMap ------------------------------
(***************************************************************************)
(* What the callers of map_io.update_map_status rely on: the update of     *)
(* each caller reaches MAP.md in one step, no update ever undoes another,  *)
(* and a call returns normally only after its update is there.             *)
(***************************************************************************)
CONSTANT Procs

VARIABLES map, returned

AInit == map = {} /\ returned = {}

Commit(p) ==
  /\ p \notin map
  /\ map' = map \cup {p}
  /\ UNCHANGED returned

Return(p) ==
  /\ p \in map
  /\ returned' = returned \cup {p}
  /\ UNCHANGED map

ANext == \E p \in Procs : Commit(p) \/ Return(p)

ASpec == AInit /\ [][ANext]_<<map, returned>>
=============================================================================

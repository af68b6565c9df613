----------------------------- MODULE AtomicClose -----------------------------
(***************************************************************************)
(* What a session comes to for those who plan it and work in it: it is     *)
(* planned, its tasks become DONE, its code may have to be mended, and it  *)
(* is closed in one step, at a moment when the code on disk passes every   *)
(* audit and its tests.                                                    *)
(***************************************************************************)
CONSTANTS Tasks, Audits

VARIABLES listed, done, passes, green

avars == <<listed, done, passes, green>>

AInit ==
  /\ listed = {} /\ done = {}
  /\ passes \in SUBSET Audits /\ green \in BOOLEAN

Plan ==
  /\ listed = {} /\ listed' \in (SUBSET Tasks) \ {{}}
  /\ UNCHANGED <<done, passes, green>>

Edit == passes' \in SUBSET Audits /\ green' \in BOOLEAN

Finish(t) ==
  /\ t \in listed \ done
  /\ done' = done \cup {t}
  /\ Edit
  /\ UNCHANGED listed

Finished == listed # {} /\ listed = done

Mend ==
  /\ Finished
  /\ Edit
  /\ UNCHANGED <<listed, done>>

Close ==
  /\ Finished /\ passes = Audits /\ green
  /\ listed' = {} /\ done' = {}
  /\ UNCHANGED <<passes, green>>

ANext == Plan \/ (\E t \in Tasks : Finish(t)) \/ Mend \/ Close

AStep == ANext \/ UNCHANGED avars

ASpec == AInit /\ [][ANext]_avars
=============================================================================

SPECIFICATION Spec
CONSTANTS
  Files = {f1, f2}
  Lines = {1}
  Large = {f1}
  Calls = {c1, c2}
  MaxChanges = 1
  None = None
SYMMETRY CallSymmetry
INVARIANTS
  StampVouches
  SeenIsTrue
PROPERTIES
  AnswersAreTrue

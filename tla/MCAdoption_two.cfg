SPECIFICATION Spec
CONSTANTS
  Callers = {p1, p2}
  Tasks = {a, b}
  Versions = {v1}
  MaxChannel = 3
  None = None
INVARIANTS
  AdoptionIsResumable
SYMMETRY MCSymmetry
CHECK_DEADLOCK FALSE

SPECIFICATION Spec
CONSTANTS
  None = None
  p1 = p1
  p2 = p2
  t1 = t1
  t2 = t2
  Callers = {p1, p2}
  Tasks = {t1, t2}
  Origin <- MCOrigin
  MaxGen = 3
  MaxPages = 4
SYMMETRY Symmetry
INVARIANTS
  ReturnFollows
PROPERTIES
  CutoverIsDrained
CHECK_DEADLOCK FALSE

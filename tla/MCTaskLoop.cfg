SPECIFICATION Spec
CONSTANTS
  Callers = {p1, p2}
  Ids = {m1, m2}
  Goal = goal
  Texts = {x1, x2}
  Request = request
  Versions = {v1, v2}
  Origins = {"executor", "reviewer", "third"}
  None = None
INVARIANTS
  TypeOK
  OneResult
  ResultWasAccepted
  ReturnedIsReceived
  OneOpenDelivery
SYMMETRY MCSymmetry
CHECK_DEADLOCK FALSE

SPECIFICATION Spec
CONSTANTS
  Callers = {p1, p2}
  Requests <- MCRequests
  Natives = {peer, old, n1, n2}
  Peer = peer
  Predecessor = old
  OldName = "old"
  None = None
INVARIANTS
  TypeOK
  CreatedAtMostOnce
  AnswersAreTrue
  SuccessorIsNew
  OneSuccessorInTurn
PROPERTIES
  AppliedIsFinal
SYMMETRY MCSymmetry
CHECK_DEADLOCK FALSE

SPECIFICATION Spec
CONSTANTS
  Callers = {p1, p2}
  Requests <- MCHandoffs
  Natives = {peer, old, n1, n2, n3}
  Peer = peer
  Predecessor = old
  OldName = "old"
  None = None
INVARIANTS
  OneSuccessor
SYMMETRY MCSymmetry
CHECK_DEADLOCK FALSE

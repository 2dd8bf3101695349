SPECIFICATION QueueSpec
CONSTANTS
  Drivers = {d1, d2, d3}
  Messages = {m1}
  Turns = {t1, t2}
  Nil = Nil
INVARIANTS
  QueueTypeOK
  WokenAtMostOnce
  ConsumedWasRun
  AcceptedWasAgreed
PROPERTIES
  UnknownStays
  ConsumedStays
SYMMETRY MCSymmetry
CHECK_DEADLOCK FALSE

SPECIFICATION Spec
CONSTANTS
  Absent = Absent
  Broken = Broken
  TooLarge = TooLarge
  MaxPayload = 2
  MaxChanges = 3
INVARIANTS
  AcceptedExactlyWhenTrue
PROPERTIES
  WithheldIsUndecided
CHECK_DEADLOCK FALSE

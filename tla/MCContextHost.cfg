SPECIFICATION Spec
CONSTANTS
  Absent = Absent
  Broken = Broken
  TooLarge = TooLarge
  MaxPayload = 2
  HardBytes = 2
  Limits <- MCLimits
  Contents <- MCContents
  MaxTime = 2
  MaxChanges = 3
VIEW View
INVARIANTS
  DisclosedInForce
  FailuresSayWhy
CHECK_DEADLOCK FALSE

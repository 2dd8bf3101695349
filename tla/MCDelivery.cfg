SPECIFICATION FairSpec
CONSTANTS
  Callers = {p1, p2}
  Messages = {m1, m2}
  Texts = {t1, t2}
  Connections = {c1, c2}
  FirstConnection = c1
  Records = {r1, r2, r3}
  JournalBound = 7
  None = None
  Legacy = Legacy
  Foreign = Foreign
INVARIANTS
  TypeOK
  AtMostOneInput
  SettledWasReceived
  OneInputSettlesOneMessage
  AnswersAreBacked
  OneRoute
PROPERTIES
  SilentWhileUnknown
  ReceiptIsFinal
  LockIsReleased
  KeepsPromise
CHECK_DEADLOCK FALSE

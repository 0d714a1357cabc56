SPECIFICATION MCSpec
CONSTANTS
  p1 = p1
  p2 = p2
  p3 = p3
  Proc = {p1, p2, p3}
  Reader = {p1, p2, p3}
  MaxSleep = 3
  MaxNow = 5
  STDIN_BUFSIZE = 2
  MaxLen = 3
  MaxKeys = 4
SYMMETRY Symmetric
CHECK_DEADLOCK FALSE
INVARIANTS
  LinksAlive
  DeltasEncodeDeadlines
  KeysInv
PROPERTIES
  ImplementsAlarmClock
  ImplementsKeyboard

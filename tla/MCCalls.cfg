SPECIFICATION MCSpec
CONSTANTS
  Preemptive = FALSE
  Proc = {p1, p2}
  Dirs = {root}
  Files = {f1}
  Entries <- AllEntries
  MaxCalls = 1
  MAX_PROCESS = 7
  MAX_PID = 9
CHECK_DEADLOCK FALSE
INVARIANTS
  OrderKept
  SleepsUnlocked
  WindowFree
PROPERTIES
  CallsEnd
  SearchEnds

SPECIFICATION MCSpec
CONSTANTS
  Preemptive = TRUE
  N = 4
  TIMES = 1
CHECK_DEADLOCK FALSE
INVARIANT
  NobodyForgotten
PROPERTIES
  ImplementsDining
  ThreadsEnd

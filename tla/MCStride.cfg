SPECIFICATION MCSpec
CONSTANTS
  p1 = p1
  p2 = p2
  p3 = p3
  p4 = p4
  NULL = NULL
  idleproc = idleproc
  MaxRuns = 12
CHECK_DEADLOCK FALSE
INVARIANTS
  PoolIsTree
  ShareProportional
PROPERTY
  NoStarvation

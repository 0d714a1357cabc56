SPECIFICATION Spec
CONSTANTS
  u1 = u1
  u2 = u2
  u3 = u3
  idle = idle
  init = init
  User = {u1, u2, u3}
  Proc = {u1, u2, u3, idle, init}
  idleproc = idle
  initproc = init
  KillTargets = {u1, u2, u3, init}
  MAX_PROCESS = 5
  MAX_TIME_SLICE = 1
  MaxSleep = 2
  MaxChars = 2
SYMMETRY Symmetric
CHECK_DEADLOCK FALSE
INVARIANTS
  RunQueueExact
  NoLostWakeup
  FreedIsUnreferenced
  CountExact
  InitQuitsLast
PROPERTY
  ReapedByParentOnly

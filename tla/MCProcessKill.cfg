SPECIFICATION FairSpec
CONSTANTS
  u1 = u1
  u2 = u2
  u3 = u3
  idle = idle
  init = init
  User = {u1, u2}
  Proc = {u1, u2, idle, init}
  idleproc = idle
  initproc = init
  KillTargets = {u1, u2}
  MAX_PROCESS = 4
  MAX_TIME_SLICE = 1
  MaxSleep = 1
  MaxChars = 1
CHECK_DEADLOCK FALSE
PROPERTY
  KilledProcessExits

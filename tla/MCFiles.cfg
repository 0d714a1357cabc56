SPECIFICATION MCSpec
CONSTANTS
  p0 = p0
  p1 = p1
  p2 = p2
  t0 = t0
  t1 = t1
  t2 = t2
  script = script
  home = home
  root = root
  Proc = {p0, p1, p2}
  initproc = p0
  Files = {t0, t1, t2}
  File = {script}
  Dir = {root, home}
  FILES_STRUCT_NENTRY = 3
  MAX_INODE_COUNT = 100
  MaxLost = 1
  MaxOrphans = 2
  stdin = stdin
  NULL = NULL
  f1 = f1
  f2 = f2
  d1 = d1
  d2 = d2
  NoFile = NoFile
  Ino = {f1, f2}
  Desc = {d1, d2}
  Blocks = {1, 2, 3}
  MaxIO = 3
  SFS_BLKSIZE = 2
  SFS_NDIRECT = 1
  SFS_MAX_FILE_SIZE = 7
SYMMETRY Symmetric
CHECK_DEADLOCK FALSE
INVARIANTS
  InodeCountsExact
  TablesInv
  BlocksInv
PROPERTIES
  ImplementsFlatFiles

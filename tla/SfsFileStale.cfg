SPECIFICATION SfsSpec
CONSTANTS
  NoFile = NoFile
  Ino = {f1}
  Desc = {d1, d2}
  Blocks = {1, 2, 3}
  MaxIO = 3
  SFS_BLKSIZE = 2
  SFS_NDIRECT = 1
  SFS_MAX_FILE_SIZE = 7
CHECK_DEADLOCK FALSE
INVARIANT
  IndexInFile

SPECIFICATION MCSpec
CONSTANTS
  NPages = 4
  Sizes = {1, 2}
  NULL = NULL
  NoPage = NoPage
  BuddyPages = 8
  Requests = {1, 3}
  CountLimit = 16
  PAGE_SIZE = 12
  SLOB_UNIT = 2
  BIGBLOCK = 3
  NoBlock = NoBlock
  HeapPages = 3
  HeapSizes = {1, 6, 8, 13}
CHECK_DEADLOCK FALSE
INVARIANTS
  PagesInv
  BuddyInv
  HeapInv
PROPERTIES
  ImplementsFirstFit
  ImplementsBuddyPool

SPECIFICATION PagesSpec
CONSTANTS
  NPages = 5
  Sizes = {1, 2}
  NULL = NULL
CHECK_DEADLOCK FALSE
INVARIANTS
  ListedAreFree

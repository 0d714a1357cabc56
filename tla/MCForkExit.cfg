SPECIFICATION MCSpec
CONSTANTS
  m1 = m1
  m2 = m2
  Mm = {m1, m2}
  PGSIZE = 2
  NPTEENTRY = 4
  NPDEENTRY = 2
  Directories = 2
  USERBASE = 2
  USTACKPAGE = 3
  StackMapped = 1
  Programs <- Layouts
  AnyOrder = FALSE
  initproc = initproc
  Proc = {initproc, p1, p2}
  p1 = p1
  p2 = p2
  p3 = p3
  p4 = p4
  NULL = NULL
  NIL = NIL
  init_task = init_task
  Task = {init_task, p1, p2, p3, p4}
SYMMETRY Symmetric
CHECK_DEADLOCK FALSE
INVARIANTS
  SpacesInv
  ChecksExact
  ObjectsInv
  LinksInv
PROPERTIES
  CopyIsComplete
  ImplementsFamily

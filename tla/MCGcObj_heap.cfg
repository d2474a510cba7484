SPECIFICATION Spec
CONSTANTS
  t1 = t1
  t2 = t2
  p1 = p1
  p2 = p2
  c1 = c1
  c2 = c2
  double = double
  string = string
  None = none
  Thread <- OneThread
  Pool <- Pools
  Cell <- Cells
  Type <- Types
  PtrType <- Strings
  Size <- Sizes
  BeginSize = 3
  GrayStackSize = 1
  NbFirst = 1
  MaxNb = 2
  MaxRoots = 0
  Published <- Types
  Increment = TRUE
  Shutdown = TRUE
SYMMETRY Symmetry
INVARIANTS
  TypeOK
  FreeMatchesBitmap
  PoolsListed
  KeptAllocated
  SizeExact
  NbFits
CHECK_DEADLOCK FALSE

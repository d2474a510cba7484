SPECIFICATION FairSpec
CONSTANTS
  t1 = t1
  t2 = t2
  p1 = p1
  p2 = p2
  c1 = c1
  c2 = c2
  double = double
  string = string
  None = none
  Thread <- Threads
  Pool <- Pools
  Cell <- Cells
  Type <- Types
  PtrType <- Strings
  Size <- Sizes
  BeginSize = 3
  GrayStackSize = 1
  NbFirst = 1
  MaxNb = 1
  MaxRoots = 2
  Published <- Doubles
  Increment = FALSE
  Shutdown = TRUE
INVARIANTS
  ReachableAllocated
  NoAlias
  GarbageCollected
  ShutdownFreesAll
PROPERTIES
  CollectionEnds
CHECK_DEADLOCK FALSE

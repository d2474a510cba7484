SPECIFICATION RootSpec
CONSTANTS
  MinLists = 1
  Object <- Objects
  NodeAddr <- Addrs
  MaxRef = 2
INVARIANTS
  RemovedIsNoRoot
CHECK_DEADLOCK FALSE

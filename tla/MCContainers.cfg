SPECIFICATION MCSpec
CONSTANTS
  n1 = n1
  n2 = n2
  n3 = n3
  n4 = n4
  n5 = n5
  Null = null
  Nil = nil
  TreeNode <- MCTreeNode
  Loops = {"next", "prev"}
  NULL = null
  DHead = dhead
  SHead = shead
  Copy = copy
  Junk = junk
  MinLists = 1
  Node <- MCNode
  ListNode = {n1, n2, n3, n4}
  Object = {16, 21}
  NodeAddr <- MCNodeAddr
  MaxRef = 2
  KeyOf <- MCKeyOf
INVARIANTS
  SizeExact
  FoundByKey
  TraversalComplete
  RootsKept
  SearchTree
  RedBlack
  TraversalOrdered
  ListIsSequence
  ListTraversalOrdered
PROPERTIES
  ImplementsKeyedSet
  TreeImplementsKeyedSet
  CallsReturn

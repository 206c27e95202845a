SPECIFICATION Spec
CONSTANTS
  RootsSize = 3
  DatabaseSize = 5
  LeafSize = 2
  MaxDepth = 2
  NULL = NULL
INVARIANTS
  NothingDangling
  TreeIntact
  LeavesInOrder
  NothingLeaked

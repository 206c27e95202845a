SPECIFICATION Spec
CONSTANTS
  DatabaseSize = 5
  LeafLists <- ThreeLeaves
INVARIANTS
  AssertionHolds
  LeavesAreContiguous
PROPERTIES
  Termination

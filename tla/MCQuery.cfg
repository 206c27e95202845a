SPECIFICATION Spec
CONSTANTS
  DatabaseSize = 4
  NumLeaves = 3
  StartId <- LeafStarts
  MaxThreads = 2
  K = 1
  QuerySize = 1
  Queries <- AllPlacements
  Configs <- SortedExact
  VALUE_MAX = 4
  NoLeaf = NoLeaf
  EmptyLeaf = EmptyLeaf
INVARIANTS
  NearestFound

SPECIFICATION Spec
CONSTANTS
  DatabaseSize = 5
  NumLeaves = 4
  StartId <- LeafStarts
  MaxThreads = 2
  K = 2
  QuerySize = 1
  Queries <- NearerElsewhere
  Configs <- SortedExact
  VALUE_MAX = 6
  NoLeaf = NoLeaf
  EmptyLeaf = EmptyLeaf
INVARIANTS
  FullAnswerIsKNearest

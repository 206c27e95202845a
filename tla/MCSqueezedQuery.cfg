SPECIFICATION Spec
CONSTANTS
  DatabaseSize = 3
  NumLeaves = 2
  StartId <- TwoLeaves
  MaxThreads = 1
  K = 1
  QuerySize = 1
  Queries <- SqueezedQueries
  Configs <- SortedExact
  VALUE_MAX = 1000
  NoLeaf = NoLeaf
  EmptyLeaf = EmptyLeaf
INVARIANTS
  NearestFound

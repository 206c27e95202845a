SPECIFICATION Spec
CONSTANTS
  DatabaseSize = 4
  NumLeaves = 3
  StartId <- LeafStarts
  MaxThreads = 2
  K = 2
  QuerySize = 2
  Queries <- Mixed
  Configs <- AllConfigs
  VALUE_MAX = 4
  NoLeaf = NoLeaf
  EmptyLeaf = EmptyLeaf
INVARIANTS
  NearestFound
  AnsweredUnlessLeafEmpty
  NoSeriesTwice
  BoundIsWorstHeld
  LeavesPrepared
PROPERTIES
  AnswersOnlyImprove
  Termination

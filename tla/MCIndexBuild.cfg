SPECIFICATION Spec
CONSTANTS
  NumSegments = 2
  SaxCardinality = 2
  DatabaseSize = 5
  MaxThreads = 2
  BlockSize = 2
  InitialLeafSize = 1
  LeafSize = 3
  NoNode = NoNode
  Databases <- DatabasesOfWords
INVARIANTS
  MutualExclusion
  EverySeriesOnce
  LeavesPartitionWords
  FiledWhereRouted
  WithinCapacity
  BuiltIsComplete
  FailsOnlyWhenInevitable
PROPERTIES
  StoredSeriesOnlyMoveDown
  EmptyChildOnlyIfInseparable
  ImplementsAbstractIndex

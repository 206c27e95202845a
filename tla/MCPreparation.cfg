SPECIFICATION Spec

CONSTANTS
  Options <- MCOptions
  CommandLines <- MCCommandLines
  MaxThreads = 2

INVARIANTS
  MeansOfSegments
  BlocksApart
  NothingReadEarly
  ThreadsPlaced

PROPERTIES
  Termination

SPECIFICATION Spec

CONSTANTS
  SaxCardinality = 3
  SeriesLength = 8
  SaxLength = 3
  VectorLengths = {2}
  VALUE_MIN <- MCValueMin
  VALUE_MAX = 100
  Sources <- MCNormal
  Means <- MCUnequalMeans
  Queries <- MCUnequalQueries
  Masks <- MCMasks
  Deviations <- MCFlat
  Thresholds = {}

INVARIANTS
  LowerBounding

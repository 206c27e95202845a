SPECIFICATION Spec

CONSTANTS
  SaxCardinality = 3
  SeriesLength = 16
  SaxLength = 2
  VectorLengths = {2}
  VALUE_MIN <- MCValueMin
  VALUE_MAX = 100
  Sources <- MCAdhoc
  Means <- MCColumnMeans
  Queries <- MCColumnQueries
  Masks <- MCMasks
  Deviations <- MCFlat
  Thresholds = {}

INVARIANTS
  LowerBounding

SPECIFICATION Spec

CONSTANTS
  SaxCardinality = 3
  SeriesLength = 16
  SaxLength = 4
  VectorLengths = {2, 3, 4}
  VALUE_MIN <- MCValueMin
  VALUE_MAX = 100
  Sources <- MCNormal
  Means <- MCMeans
  Queries <- MCQueries
  Masks <- MCMasks
  Deviations <- MCAround
  Thresholds = {65, 200, 900, 2500}

INVARIANTS
  LowerBounding
  VectorsAgree
  NearerSeriesGetThrough

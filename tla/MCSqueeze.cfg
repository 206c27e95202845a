SPECIFICATION SqueezeSpec
CONSTANTS
  NumSegments = 2
  SaxCardinality = 4
  DatabaseSize = 4
  LeafLists <- MCLists
  Built <- MCBuilt
INVARIANTS
  SqueezedWithinLeaf
  AgreeAboveLastBit
  NoBitGivenUpInVain

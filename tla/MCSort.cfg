SPECIFICATION Spec

CONSTANTS
  MCLength = 6
  MCLargest = 3
  Length = 6
  EPSILON = 1
  Inputs <- MCInputs
  Pivots <- MCPivots
  Sought <- MCSought

INVARIANTS
  ScansStayInRange
  Rearranged
  OutOfOrderByLittle

PROPERTIES
  PartitionsShrink

------------------------------ MODULE MCSort ------------------------------
(***************************************************************************)
(* Arrays for TLC: all of MCLength values of 0 .. MCLargest, in the order  *)
(* of the leaves and in its reverse, as it may be left by another query.   *)
(***************************************************************************)
EXTENDS Sort

CONSTANTS MCLength, MCLargest

MCPositions == 0 .. MCLength - 1

MCInputs ==
  [indices : {[i \in MCPositions |-> i], [i \in MCPositions |-> MCLength - 1 - i]},
   orders : [MCPositions -> 0 .. MCLargest]]

MCPivots == {1, MCLargest}
MCSought == {-1, 1, MCLargest + 2}

=============================================================================

-------------------------------- MODULE Sort --------------------------------
(***************************************************************************)
(* Sorting indices by the values they stand for, qSortFirstHalfIndicesBy   *)
(* with qSortIndicesBy, and searching the result, bSearchByIndicesFloor    *)
(* (src/src/utils/sort.c), as conductQueries calls them one after another. *)
(* A scan is two actions per turn: the step and the read, because only its *)
(* values, not a bound, stop a scan of qSortIndicesBy.  Values are         *)
(* integers; they are compared up to EPSILON.  The recursion is the set    *)
(* calls of ranges that still have to be sorted: depth first and left      *)
(* before right means the leftmost one next.                               *)
(***************************************************************************)
EXTENDS Integers, FiniteSets

CONSTANTS Length,    \* the number of indices
          Inputs,    \* the indices and orders to sort
          Pivots,    \* the pivots of the first partition
          Sought,    \* the values searched for
          EPSILON    \* VALUE_EPSILON

Positions == 0 .. Length - 1

ASSUME SortAssumption == Length \in Nat \ {0} /\ EPSILON \in Nat

ASSUME InputsAssumption ==
  /\ \A in \in Inputs :
       /\ in.indices \in [Positions -> Positions] /\ in.orders \in [Positions -> Int]
       /\ \A p \in Positions : \E i \in Positions : in.indices[i] = p
  /\ Pivots \subseteq Int /\ Sought \subseteq Int

\* The macros VALUE_L and VALUE_G of globals.h.
VALUE_L(left, right) == right - left > EPSILON
VALUE_G(left, right) == left - right > EPSILON

Ranges == {r \in (0 .. Length) \X (-1 .. Length - 1) : r[1] < r[2]}
Within(r) == r[1] .. r[2]

VARIABLES
  indices, orders,   \* the array sorted and what it is sorted by
  bsf,               \* the pivot conductQueries gives: its local_bsf
  half,              \* whether qSortFirstHalfIndicesBy is partitioning
  calls,             \* ranges qSortIndicesBy still has to sort
  range,             \* first_inclusive and last_inclusive
  pivot, first_g, last_l,
  pc,
  sought             \* value, when bSearchByIndicesFloor runs

vars == <<indices, orders, bsf, half, calls, range, pivot, first_g, last_l, pc, sought>>

Value(i) == orders[indices[i]]

Init ==
  /\ \E in \in Inputs : indices = in.indices /\ orders = in.orders
  /\ half = TRUE
  /\ calls = {}
  /\ range = <<0, Length - 1>>
  /\ bsf \in Pivots /\ pivot = bsf
  /\ first_g = -1 /\ last_l = Length
  /\ pc = IF 0 < Length - 1 THEN "up" ELSE "call"
  /\ sought = 0

PivotOf_LastOne(first, last) == Value(last)

\* The pivot of a range: its middle, but in ranges of five and more neither below
\* nor above both of its ends.
PivotOf(first, last) ==
  LET middle  == Value((first + last) \div 2)
      swapped == VALUE_L(Value(last), Value(first))
      smaller == IF swapped THEN Value(last) ELSE Value(first)
      larger  == IF swapped THEN Value(first) ELSE Value(last)
  IN  IF first + 3 >= last THEN middle
      ELSE IF VALUE_L(middle, smaller) THEN smaller
      ELSE IF VALUE_G(middle, larger) THEN larger
      ELSE middle

\* qSortIndicesBy is entered for the leftmost range.
Call ==
  /\ pc = "call"
  /\ \E r \in calls :
       /\ \A c \in calls : r[1] <= c[1]
       /\ range' = r /\ calls' = calls \ {r}
       /\ pivot' = PivotOf(r[1], r[2])
       /\ first_g' = r[1] - 1 /\ last_l' = r[2] + 1
  /\ half' = FALSE
  /\ pc' = "up"
  /\ UNCHANGED <<indices, orders, bsf, sought>>

StepUp ==
  /\ pc = "up"
  /\ first_g' = first_g + 1
  /\ pc' = "readUp"
  /\ UNCHANGED <<indices, orders, bsf, half, calls, range, pivot, last_l, sought>>

ReadUp_NotGreater ==
  /\ pc = "readUp"
  /\ pc' = IF (half => first_g <= range[2]) /\ first_g \in Positions /\ ~VALUE_G(Value(first_g), pivot)
           THEN "up" ELSE "down"
  /\ UNCHANGED <<indices, orders, bsf, half, calls, range, pivot, first_g, last_l, sought>>

\* The condition of the first do-while; only the first half's tests the bound.
ReadUp ==
  /\ pc = "readUp"
  /\ pc' = IF (half => first_g <= range[2]) /\ VALUE_L(Value(first_g), pivot)
           THEN "up" ELSE "down"
  /\ UNCHANGED <<indices, orders, bsf, half, calls, range, pivot, first_g, last_l, sought>>

StepDown ==
  /\ pc = "down"
  /\ last_l' = last_l - 1
  /\ pc' = "readDown"
  /\ UNCHANGED <<indices, orders, bsf, half, calls, range, pivot, first_g, sought>>

ReadDown ==
  /\ pc = "readDown"
  /\ pc' = IF (half => last_l >= range[1]) /\ VALUE_G(Value(last_l), pivot)
           THEN "down" ELSE "meet"
  /\ UNCHANGED <<indices, orders, bsf, half, calls, range, pivot, first_g, last_l, sought>>

Swap_OneWay ==
  /\ pc = "meet" /\ first_g < last_l
  /\ indices' = [indices EXCEPT ![first_g] = indices[last_l], ![last_l] = indices[last_l]]
  /\ pc' = "up"
  /\ UNCHANGED <<orders, bsf, half, calls, range, pivot, first_g, last_l, sought>>

Swap ==
  /\ pc = "meet" /\ first_g < last_l
  /\ indices' = [indices EXCEPT ![first_g] = indices[last_l], ![last_l] = indices[first_g]]
  /\ pc' = "up"
  /\ UNCHANGED <<orders, bsf, half, calls, range, pivot, first_g, last_l, sought>>

Parts_MeetingLeftOut ==
  IF half THEN {<<range[1], IF last_l < range[2] THEN last_l ELSE range[2]>>}
  ELSE {<<range[1], last_l - 1>>, <<last_l + 1, range[2]>>}
\* The ranges to sort after a partition; those of at most one position return.
Parts ==
  IF half THEN {<<range[1], IF last_l < range[2] THEN last_l ELSE range[2]>>}
  ELSE {<<range[1], last_l>>, <<last_l + 1, range[2]>>}

Recurse ==
  /\ pc = "meet" /\ first_g >= last_l
  /\ calls' = calls \cup {r \in Parts : r[1] < r[2]}
  /\ pc' = "call"
  /\ UNCHANGED <<indices, orders, bsf, half, range, pivot, first_g, last_l, sought>>

\* Sorted; bSearchByIndicesFloor is called on all of it.  The distance of the
\* first leaf has become VALUE_MAX, which the search never reads.
Search ==
  /\ pc = "call" /\ calls = {}
  /\ sought' \in Sought
  /\ range' = <<0, Length - 1>>
  /\ pc' = "search"
  /\ UNCHANGED <<indices, orders, bsf, half, calls, pivot, first_g, last_l>>

Bisect ==
  LET mid == (range[1] + range[2]) \div 2
  IN  /\ pc = "search" /\ range[1] + 1 < range[2]
      /\ range' = IF VALUE_L(sought, Value(mid)) THEN <<range[1], mid>> ELSE <<mid, range[2]>>
      /\ UNCHANGED <<indices, orders, bsf, half, calls, pivot, first_g, last_l, pc, sought>>

Found ==
  /\ pc = "search" /\ range[1] + 1 >= range[2]
  /\ pc' = "found"
  /\ UNCHANGED <<indices, orders, bsf, half, calls, range, pivot, first_g, last_l, sought>>

Terminated == pc = "found" /\ UNCHANGED vars

Next ==
  \/ Call \/ StepUp \/ ReadUp \/ StepDown \/ ReadDown \/ Swap \/ Recurse
  \/ Search \/ Bisect \/ Found \/ Terminated

Spec == Init /\ [][Next]_vars /\ WF_vars(Next)

-----------------------------------------------------------------------------
\* Types: ranges lie within the array whenever they are sorted or searched.
TypeOK ==
  /\ indices \in [Positions -> Positions]
  /\ orders \in [Positions -> Int]
  /\ bsf \in Int /\ half \in BOOLEAN
  /\ calls \subseteq (Positions \X Positions)
  /\ range \in Positions \X Positions
  /\ pivot \in Int /\ first_g \in Int /\ last_l \in Int /\ sought \in Int
  /\ pc \in {"call", "up", "readUp", "down", "readDown", "meet", "search", "found"}

\* The scans of qSortIndicesBy test no bound: a value that stops them always lies
\* ahead, in the same range.  Reading on would leave the array.
ScansStayInRange ==
  ~half => /\ pc \in {"readUp", "down", "readDown", "meet"} => first_g \in Within(range)
           /\ pc \in {"readDown", "meet"} => last_l \in Within(range)

\* Every partition leaves two ranges that are smaller than the one it divides:
\* otherwise the recursion would not end, at the values that the pivot is kept
\* between as at any others.
PartitionsShrink ==
  [][Recurse /\ ~half => last_l \in range[1] .. range[2] - 1]_vars

\* No index is lost or doubled: a leaf missing from leaf_indices is never searched.
Rearranged == \A p \in Positions : \E i \in Positions : indices[i] = p

Sorted == pc = "call" /\ calls = {}

\* What qSortFirstHalfIndicesBy establishes: an index is not far behind one with a
\* larger value, unless both are in the half not sorted, not below the pivot.  Two
\* values that both compare as equal to a pivot may differ by twice EPSILON.  The
\* early return of queryThread and its skipping of leaves rely on this order.
OutOfOrderByLittle ==
  Sorted => \A i, j \in Positions : i < j =>
              \/ Value(i) <= Value(j) + 2 * EPSILON
              \/ ~VALUE_L(Value(i), bsf) /\ ~VALUE_L(Value(j), bsf)

\* bSearchByIndicesFloor ends between a value that is not larger than the one
\* sought and one that is, or at an end of the array.
FloorFound ==
  pc = "found" =>
    /\ range[1] = 0 \/ ~VALUE_L(sought, Value(range[1]))
    /\ range[1] + 1 >= Length - 1 \/ VALUE_L(sought, Value(range[1] + 1))

\* Sorting and searching end.
Termination == <>(pc = "found")

=============================================================================

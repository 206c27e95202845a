----------------------------- MODULE Distances -----------------------------
(***************************************************************************)
(* Squared distances of series (src/src/utils/distance.c): plain, by       *)
(* vectors of eight lanes, and given up early, once they exceed a          *)
(* threshold.  Values are integers, so that sums do not depend on their    *)
(* order; lengths are multiples of eight, as initializeConfig asserts.     *)
(***************************************************************************)
EXTENDS Sums

Lanes == 0 .. 7

Square(left, right, i) == (left[i] - right[i]) * (left[i] - right[i])
Squares(left, right)   == [i \in DOMAIN left |-> Square(left, right, i)]

l2Square(length, left, right) == SumOver(Squares(left, right), 0 .. length - 1)

\* _mm256_hadd_ps of a vector with itself: sums of pairs, within each half.
HAdd(v) ==
  [k \in Lanes |-> LET first == 4 * (k \div 4) + 2 * (k % 2) IN v[first] + v[first + 1]]

\* What both loops read off a vector: the sums of its halves.
SumOfLanes_Adjacent(v) == LET cache == HAdd(HAdd(v)) IN cache[0] + cache[1]
SumOfLanes(v) == LET cache == HAdd(HAdd(v)) IN cache[0] + cache[4]

\* Where the loops that step by eight begin a vector.
Steps(length) == {i \in 0 .. length - 1 : i % 8 = 0}
Starts(left)  == {i \in DOMAIN left : i % 8 = 0}

\* What one lane adds up.
Lane(left, right, k) == [i \in Starts(left) |-> Square(left, right, i + k)]

l2SquareSIMD(length, left, right) ==
  SumOfLanes([k \in Lanes |-> SumOver(Lane(left, right, k), Steps(length))])

\* What each vector adds to the sum, and the sum when the vector at i has been added.
Vectors(left, right) ==
  [i \in Starts(left) |-> SumOfLanes([k \in Lanes |-> Square(left, right, i + k)])]
SumUpTo(left, right, i) == SumOver(Vectors(left, right), Steps(i + 1))

\* The loop ends where the sum exceeds the threshold for the first time, or at the end.
l2SquareEarlySIMD(length, left, right, threshold) ==
  LET Exceeding == {i \in Steps(length) : SumUpTo(left, right, i) > threshold}
  IN  SumUpTo(left, right, IF Exceeding = {} THEN length - 1 ELSE Min(Exceeding))

l2SquareEarly(length, left, right, threshold) ==
  LET Exceeding == {i \in 0 .. length - 1 : l2Square(i + 1, left, right) > threshold}
  IN  l2Square(IF Exceeding = {} THEN length ELSE Min(Exceeding) + 1, left, right)
=============================================================================

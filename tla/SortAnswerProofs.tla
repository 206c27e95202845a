-------------------------- MODULE SortAnswerProofs --------------------------
(***************************************************************************)
(* Proofs about the two arrays that queries keep in some order, Sort and   *)
(* Answer.  Sort: for arrays of any length, any integers in them and any   *)
(* EPSILON, the scans without bounds stay in their range, partitions       *)
(* shrink, and the result is in order up to twice EPSILON.  Answer: for    *)
(* any k, the heap implements the bag of the k smallest distances.         *)
(***************************************************************************)
EXTENDS Sort, Answer, SumsProofs

-----------------------------------------------------------------------------
(* SORTING *)

Partitioning == pc \in {"up", "readUp", "down", "readDown", "meet"}

-----------------------------------------------------------------------------
(* The invariant. *)

\* In the range to sort or in a range that still has to be, two positions are in
\* any order; all others are in order already.
Together(i, j) ==
  \/ \E r \in calls : i \in Within(r) /\ j \in Within(r)
  \/ Partitioning /\ i \in Within(range) /\ j \in Within(range)

Little(i, j) ==
  \/ Value(i) <= Value(j) + 2 * EPSILON
  \/ ~VALUE_L(Value(i), bsf) /\ ~VALUE_L(Value(j), bsf)

InOrder == \A i, j \in Positions : i < j => Together(i, j) \/ Little(i, j)

\* The ranges are apart from each other, and from the one being partitioned.
Apart ==
  /\ \A r \in calls : r[1] < r[2]
  /\ \A r, q \in calls : r # q => r[2] < q[1] \/ q[2] < r[1]
  /\ Partitioning => /\ range[1] < range[2]
                     /\ \A r \in calls : r[2] < range[1] \/ range[2] < r[1]
                     /\ half => calls = {} /\ range = <<0, Length - 1>> /\ pivot = bsf
  /\ pc \in {"search", "found"} => calls = {}

\* No position up to l has a value above the pivot, none from g on one below.
NoneAbove(l) == \A i \in Positions : range[1] <= i /\ i <= l => ~VALUE_G(Value(i), pivot)
NoneBelow(g) == \A i \in Positions : g <= i /\ i <= range[2] => ~VALUE_L(Value(i), pivot)

\* The value that will stop a scan of qSortIndicesBy: upwards, it lies before
\* the last position or where the scan downwards has been.
StopsUp(from) ==
  ~half => \/ last_l <= range[2]
           \/ \E q \in Positions : from <= q /\ q < range[2] /\ ~VALUE_L(Value(q), pivot)
StopsDown(to) ==
  ~half => \E q \in Positions : range[1] <= q /\ q <= to /\ ~VALUE_G(Value(q), pivot)

Scans ==
  /\ Partitioning => range[1] - 1 <= first_g /\ last_l <= range[2] + 1
  /\ pc = "up" => /\ first_g < last_l
                  /\ NoneAbove(first_g) /\ NoneBelow(last_l)
                  /\ StopsUp(first_g + 1) /\ StopsDown(last_l - 1)
  /\ pc = "readUp" => /\ range[1] <= first_g /\ first_g <= last_l
                      /\ NoneAbove(first_g - 1) /\ NoneBelow(last_l)
                      /\ StopsUp(first_g) /\ StopsDown(last_l - 1)
  /\ pc = "down" => /\ range[1] <= first_g /\ first_g <= last_l
                    /\ NoneAbove(first_g - 1) /\ NoneBelow(last_l)
                    /\ first_g <= range[2] => ~VALUE_L(Value(first_g), pivot)
                    /\ ~half => first_g < range[2] \/ (first_g <= range[2] /\ last_l <= range[2])
                    /\ StopsDown(last_l - 1)
  /\ pc = "readDown" => /\ range[1] <= first_g /\ first_g <= last_l + 1 /\ last_l <= range[2]
                        /\ NoneAbove(first_g - 1) /\ NoneBelow(last_l + 1)
                        /\ first_g <= range[2] => ~VALUE_L(Value(first_g), pivot)
                        /\ ~half => first_g < range[2] \/ (first_g <= range[2] /\ last_l < range[2])
                        /\ StopsDown(last_l)
  /\ pc = "meet" => /\ range[1] <= first_g /\ first_g <= last_l + 1 /\ last_l <= range[2]
                    /\ NoneAbove(first_g - 1) /\ NoneBelow(last_l + 1)
                    /\ first_g <= range[2] => ~VALUE_L(Value(first_g), pivot)
                    /\ range[1] <= last_l => ~VALUE_G(Value(last_l), pivot)
                    /\ ~half => /\ first_g < range[2] \/ (first_g <= range[2] /\ last_l < range[2])
                                /\ range[1] <= last_l

\* Where the search has narrowed its range, the value sought lies between its ends.
Narrowed ==
  pc \in {"search", "found"} =>
    /\ range[1] < range[2] \/ Length = 1
    /\ range[1] <= range[2]
    /\ range[1] = 0 \/ ~VALUE_L(sought, Value(range[1]))
    /\ range[2] = Length - 1 \/ VALUE_L(sought, Value(range[2]))
    /\ pc = "found" => range[1] + 1 >= range[2]

IInv == TypeOK /\ Rearranged /\ Apart /\ InOrder /\ Scans /\ Narrowed

-----------------------------------------------------------------------------
LEMMA PositionsInts == Positions \subseteq Int /\ Length \in Nat \ {0} /\ EPSILON \in Nat
BY SortAssumption DEF Positions

LEMMA ValueType == TypeOK => \A i \in Positions : Value(i) \in Int
BY DEF TypeOK, Value

LEMMA InvInit == Init => IInv
<1> SUFFICES ASSUME Init PROVE IInv
  OBVIOUS
<1> USE PositionsInts
<1>1. /\ indices \in [Positions -> Positions] /\ orders \in [Positions -> Int]
      /\ Rearranged /\ bsf \in Int
  BY InputsAssumption DEF Init, Rearranged
<1>2. 0 \in Positions /\ Length - 1 \in Positions
  BY DEF Positions
<1>3. TypeOK
  BY <1>1, <1>2 DEF Init, TypeOK
<1>4. Apart
  BY DEF Init, Apart, Partitioning
<1>5. InOrder
  <2> SUFFICES ASSUME NEW i \in Positions, NEW j \in Positions, i < j
               PROVE  Together(i, j)
    BY DEF InOrder
  <2> QED BY DEF Init, Together, Partitioning, Within, Positions
<1>6. Scans
  BY DEF Init, Scans, Partitioning, NoneAbove, NoneBelow, StopsUp, StopsDown, Positions
<1>7. Narrowed
  BY DEF Init, Narrowed
<1> QED BY <1>1, <1>3, <1>4, <1>5, <1>6, <1>7 DEF IInv

\* The actions of a scan move no index and touch no pending range.
LEMMA ScanKeeps ==
  ASSUME TypeOK, Rearranged, Apart, InOrder, Narrowed,
         Partitioning, Partitioning',
         UNCHANGED <<indices, orders, bsf, half, calls, range, pivot, sought>>,
         first_g' \in Int, last_l' \in Int
  PROVE  TypeOK' /\ Rearranged' /\ Apart' /\ InOrder' /\ Narrowed'
<1>1. TypeOK'
  BY DEF TypeOK, Partitioning
<1>2. Rearranged'
  BY DEF Rearranged
<1>3. Apart'
  BY DEF Apart, Partitioning
<1>4. InOrder'
  BY DEF InOrder, Together, Little, Value
<1>5. Narrowed'
  BY DEF Narrowed, Partitioning
<1> QED BY <1>1, <1>2, <1>3, <1>4, <1>5

LEMMA StepUpInv == IInv /\ StepUp => IInv'
<1> SUFFICES ASSUME IInv, StepUp PROVE IInv'
  OBVIOUS
<1> USE PositionsInts
<1>1. TypeOK /\ Partitioning /\ Partitioning'
  BY DEF IInv, StepUp, Partitioning
<1>2. TypeOK' /\ Rearranged' /\ Apart' /\ InOrder' /\ Narrowed'
  BY <1>1, ScanKeeps DEF IInv, StepUp, TypeOK
<1>3. /\ pc = "up" /\ pc' = "readUp" /\ first_g' = first_g + 1 /\ last_l' = last_l
      /\ range' = range /\ half' = half /\ pivot' = pivot
      /\ first_g \in Int /\ last_l \in Int /\ range[1] \in Int /\ range[2] \in Int
      /\ \A i \in Positions : Value(i)' = Value(i)
  BY DEF StepUp, IInv, TypeOK, Value, Positions
<1>4. /\ range[1] - 1 <= first_g /\ last_l <= range[2] + 1 /\ first_g < last_l
      /\ NoneAbove(first_g) /\ NoneBelow(last_l)
      /\ StopsUp(first_g + 1) /\ StopsDown(last_l - 1)
  BY <1>1, <1>3 DEF IInv, Scans
<1>5. NoneAbove(first_g - 1)' /\ NoneBelow(last_l)'
  BY <1>3, <1>4 DEF NoneAbove, NoneBelow, VALUE_L, VALUE_G
<1>6. StopsUp(first_g)' /\ StopsDown(last_l - 1)'
  BY <1>3, <1>4 DEF StopsUp, StopsDown, VALUE_L, VALUE_G
<1>7. Scans'
  BY <1>3, <1>4, <1>5, <1>6 DEF Scans
<1> QED BY <1>2, <1>7 DEF IInv

LEMMA StepDownInv == IInv /\ StepDown => IInv'
<1> SUFFICES ASSUME IInv, StepDown PROVE IInv'
  OBVIOUS
<1> USE PositionsInts
<1>1. TypeOK /\ Partitioning /\ Partitioning'
  BY DEF IInv, StepDown, Partitioning
<1>2. TypeOK' /\ Rearranged' /\ Apart' /\ InOrder' /\ Narrowed'
  BY <1>1, ScanKeeps DEF IInv, StepDown, TypeOK
<1>3. /\ pc = "down" /\ pc' = "readDown" /\ last_l' = last_l - 1 /\ first_g' = first_g
      /\ range' = range /\ half' = half /\ pivot' = pivot
      /\ first_g \in Int /\ last_l \in Int /\ range[1] \in Int /\ range[2] \in Int
      /\ \A i \in Positions : Value(i)' = Value(i)
      /\ (first_g <= range[2] => Value(first_g)' = Value(first_g))
  BY DEF StepDown, IInv, TypeOK, Value, Positions
<1>4. /\ range[1] - 1 <= first_g /\ last_l <= range[2] + 1
      /\ range[1] <= first_g /\ first_g <= last_l
      /\ NoneAbove(first_g - 1) /\ NoneBelow(last_l)
      /\ first_g <= range[2] => ~VALUE_L(Value(first_g), pivot)
      /\ ~half => first_g < range[2] \/ (first_g <= range[2] /\ last_l <= range[2])
      /\ StopsDown(last_l - 1)
  BY <1>1, <1>3 DEF IInv, Scans
<1>5. NoneAbove(first_g - 1)' /\ NoneBelow(last_l + 1)'
  BY <1>3, <1>4 DEF NoneAbove, NoneBelow, VALUE_L, VALUE_G
<1>6. StopsDown(last_l)'
  BY <1>3, <1>4 DEF StopsDown, VALUE_G
<1>7. first_g <= range[2] => ~VALUE_L(Value(first_g)', pivot)
  BY <1>3, <1>4 DEF VALUE_L
<1>8. Scans'
  BY <1>3, <1>4, <1>5, <1>6, <1>7 DEF Scans, VALUE_L
<1> QED BY <1>2, <1>8 DEF IInv

LEMMA ReadUpInv == IInv /\ ReadUp => IInv'
<1> SUFFICES ASSUME IInv, ReadUp PROVE IInv'
  OBVIOUS
<1> USE PositionsInts
<1>1. TypeOK /\ Partitioning /\ Partitioning'
  BY DEF IInv, ReadUp, Partitioning
<1>2. TypeOK' /\ Rearranged' /\ Apart' /\ InOrder' /\ Narrowed'
  BY <1>1, ScanKeeps DEF IInv, ReadUp, TypeOK
<1>3. /\ pc = "readUp" /\ last_l' = last_l /\ first_g' = first_g
      /\ range' = range /\ half' = half /\ pivot' = pivot
      /\ first_g \in Int /\ last_l \in Int /\ pivot \in Int
      /\ range[1] \in Positions /\ range[2] \in Positions
      /\ \A i \in Positions : Value(i)' = Value(i) /\ Value(i) \in Int
      /\ (first_g <= range[2] => Value(first_g)' = Value(first_g))
  BY <1>1, ValueType DEF ReadUp, IInv, TypeOK, Value, Positions
<1>4. /\ range[1] - 1 <= first_g /\ last_l <= range[2] + 1
      /\ range[1] <= first_g /\ first_g <= last_l
      /\ NoneAbove(first_g - 1) /\ NoneBelow(last_l)
      /\ StopsUp(first_g) /\ StopsDown(last_l - 1)
  BY <1>1, <1>3 DEF IInv, Scans
<1>5. /\ NoneAbove(first_g - 1)' <=> NoneAbove(first_g - 1)
      /\ NoneAbove(first_g)' <=> NoneAbove(first_g)
      /\ NoneBelow(last_l)' <=> NoneBelow(last_l)
      /\ StopsUp(first_g + 1)' <=> StopsUp(first_g + 1)
      /\ StopsDown(last_l - 1)' <=> StopsDown(last_l - 1)
  BY <1>3 DEF NoneAbove, NoneBelow, StopsUp, StopsDown, VALUE_L, VALUE_G
<1>6. CASE (half => first_g <= range[2]) /\ VALUE_L(Value(first_g), pivot)
  <2>1. pc' = "up"
    BY <1>6 DEF ReadUp
  <2>2. first_g <= range[2]
    BY <1>3, <1>4, <1>6 DEF StopsUp, Positions
  <2>3. first_g \in Positions
    BY <1>3, <1>4, <2>2 DEF Positions
  <2>4. first_g < last_l
    BY <1>3, <1>4, <1>6, <2>2, <2>3 DEF NoneBelow
  <2>5. NoneAbove(first_g)
    BY <1>3, <1>4, <1>6, <2>3 DEF NoneAbove, VALUE_L, VALUE_G, Positions
  <2>6. StopsUp(first_g + 1)
    BY <1>3, <1>4, <1>6, <2>3 DEF StopsUp, Positions
  <2> QED BY <1>2, <1>3, <1>4, <1>5, <2>1, <2>4, <2>5, <2>6 DEF IInv, Scans
<1>7. CASE ~((half => first_g <= range[2]) /\ VALUE_L(Value(first_g), pivot))
  <2>1. pc' = "down"
    BY <1>7 DEF ReadUp
  <2>2. first_g <= range[2] => ~VALUE_L(Value(first_g), pivot)
    BY <1>7
  <2>3. ~half => first_g < range[2] \/ (first_g <= range[2] /\ last_l <= range[2])
    BY <1>3, <1>4 DEF StopsUp, Positions
  <2>4. (first_g <= range[2] => ~VALUE_L(Value(first_g), pivot))'
    BY <1>3, <2>2 DEF VALUE_L
  <2> QED BY <1>2, <1>3, <1>4, <1>5, <2>1, <2>3, <2>4 DEF IInv, Scans
<1> QED BY <1>6, <1>7

LEMMA ReadDownInv == IInv /\ ReadDown => IInv'
<1> SUFFICES ASSUME IInv, ReadDown PROVE IInv'
  OBVIOUS
<1> USE PositionsInts
<1>1. TypeOK /\ Partitioning /\ Partitioning'
  BY DEF IInv, ReadDown, Partitioning
<1>2. TypeOK' /\ Rearranged' /\ Apart' /\ InOrder' /\ Narrowed'
  BY <1>1, ScanKeeps DEF IInv, ReadDown, TypeOK
<1>3. /\ pc = "readDown" /\ last_l' = last_l /\ first_g' = first_g
      /\ range' = range /\ half' = half /\ pivot' = pivot
      /\ first_g \in Int /\ last_l \in Int /\ pivot \in Int
      /\ range[1] \in Positions /\ range[2] \in Positions
      /\ \A i \in Positions : Value(i)' = Value(i) /\ Value(i) \in Int
      /\ Value(first_g)' = Value(first_g) /\ Value(last_l)' = Value(last_l)
  BY <1>1, ValueType DEF ReadDown, IInv, TypeOK, Value, Positions
<1>4. /\ range[1] - 1 <= first_g /\ last_l <= range[2] + 1
      /\ range[1] <= first_g /\ first_g <= last_l + 1 /\ last_l <= range[2]
      /\ NoneAbove(first_g - 1) /\ NoneBelow(last_l + 1)
      /\ first_g <= range[2] => ~VALUE_L(Value(first_g), pivot)
      /\ ~half => first_g < range[2] \/ (first_g <= range[2] /\ last_l < range[2])
      /\ StopsDown(last_l)
  BY <1>1, <1>3 DEF IInv, Scans
<1>5. /\ NoneAbove(first_g - 1)' <=> NoneAbove(first_g - 1)
      /\ NoneBelow(last_l)' <=> NoneBelow(last_l)
      /\ NoneBelow(last_l + 1)' <=> NoneBelow(last_l + 1)
      /\ StopsDown(last_l - 1)' <=> StopsDown(last_l - 1)
      /\ (first_g <= range[2] => ~VALUE_L(Value(first_g), pivot))'
  BY <1>3, <1>4 DEF NoneAbove, NoneBelow, StopsDown, VALUE_L, VALUE_G
<1>6. CASE (half => last_l >= range[1]) /\ VALUE_G(Value(last_l), pivot)
  <2>1. pc' = "down"
    BY <1>6 DEF ReadDown
  <2>2. last_l >= range[1]
    BY <1>3, <1>4, <1>6 DEF StopsDown, Positions
  <2>3. last_l \in Positions
    BY <1>3, <1>4, <2>2 DEF Positions
  <2>4. first_g <= last_l
    BY <1>3, <1>4, <1>6, <2>2, <2>3 DEF NoneAbove
  <2>5. NoneBelow(last_l)
    BY <1>3, <1>4, <1>6, <2>3 DEF NoneBelow, VALUE_L, VALUE_G, Positions
  <2>6. StopsDown(last_l - 1)
    BY <1>3, <1>4, <1>6, <2>3 DEF StopsDown, Positions
  <2> QED BY <1>2, <1>3, <1>4, <1>5, <2>1, <2>4, <2>5, <2>6 DEF IInv, Scans
<1>7. CASE ~((half => last_l >= range[1]) /\ VALUE_G(Value(last_l), pivot))
  <2>1. pc' = "meet"
    BY <1>7 DEF ReadDown
  <2>2. ~half => range[1] <= last_l
    BY <1>3, <1>4 DEF StopsDown, Positions
  <2>3. (range[1] <= last_l => ~VALUE_G(Value(last_l), pivot))'
    BY <1>3, <1>7 DEF VALUE_G, Positions
  <2> QED BY <1>2, <1>3, <1>4, <1>5, <2>1, <2>2, <2>3 DEF IInv, Scans
<1> QED BY <1>6, <1>7

-----------------------------------------------------------------------------
(* Entering, dividing and leaving ranges. *)

\* The pivot stops the first scan upwards before the last position, and the first
\* scan downwards within the range, also where the ends of the range replace it.
LEMMA PivotStops ==
  ASSUME TypeOK, NEW f \in Positions, NEW l \in Positions, f < l
  PROVE  /\ PivotOf(f, l) \in Int
         /\ \E q \in Positions : f <= q /\ q < l /\ ~VALUE_L(Value(q), PivotOf(f, l))
         /\ \E q \in Positions : f <= q /\ q <= l /\ ~VALUE_G(Value(q), PivotOf(f, l))
<1> USE PositionsInts
<1> DEFINE m == (f + l) \div 2
<1>1. m \in Positions /\ f <= m /\ m < l
  BY DEF Positions
<1>2. Value(f) \in Int /\ Value(l) \in Int /\ Value(m) \in Int
  BY <1>1, ValueType
<1>3. \/ PivotOf(f, l) = Value(m)
      \/ PivotOf(f, l) = Value(f) /\ VALUE_L(Value(m), Value(f))
      \/ PivotOf(f, l) = Value(l) /\ VALUE_L(Value(l), Value(f))
      \/ PivotOf(f, l) \in {Value(f), Value(l)} /\ VALUE_G(Value(m), PivotOf(f, l))
  <2> HIDE DEF m
  <2>1. (f + l) \div 2 = m
    BY DEF m
  <2> QED BY <2>1 DEF PivotOf
<1> HIDE DEF m
<1>4. CASE PivotOf(f, l) = Value(m)
  BY <1>1, <1>2, <1>4 DEF VALUE_L, VALUE_G
<1>5. CASE PivotOf(f, l) = Value(f)
  BY <1>2, <1>5 DEF VALUE_L, VALUE_G
<1>6. CASE PivotOf(f, l) = Value(l) /\ VALUE_L(Value(l), Value(f))
  BY <1>2, <1>6 DEF VALUE_L, VALUE_G
<1>7. CASE PivotOf(f, l) = Value(l) /\ VALUE_G(Value(m), PivotOf(f, l))
  BY <1>1, <1>2, <1>7 DEF VALUE_L, VALUE_G
<1> QED BY <1>3, <1>4, <1>5, <1>6, <1>7

LEMMA CallInv == IInv /\ Call => IInv'
<1> SUFFICES ASSUME IInv, Call PROVE IInv'
  OBVIOUS
<1> USE PositionsInts
<1>1. \E r \in calls :
        /\ range' = r /\ calls' = calls \ {r}
        /\ pivot' = PivotOf(r[1], r[2])
        /\ first_g' = r[1] - 1 /\ last_l' = r[2] + 1
  BY DEF Call
<1>2. PICK r \in calls :
        /\ range' = r /\ calls' = calls \ {r}
        /\ pivot' = PivotOf(r[1], r[2])
        /\ first_g' = r[1] - 1 /\ last_l' = r[2] + 1
  BY <1>1
<1>3. /\ UNCHANGED <<indices, orders, bsf, sought>> /\ half' = FALSE
      /\ pc = "call" /\ pc' = "up" /\ ~Partitioning /\ Partitioning'
  BY DEF Call, Partitioning
<1>4. r \in Positions \X Positions /\ r[1] \in Positions /\ r[2] \in Positions /\ r[1] < r[2]
  BY DEF IInv, TypeOK, Apart
<1>5. /\ pivot' \in Int
      /\ \E q \in Positions : r[1] <= q /\ q < r[2] /\ ~VALUE_L(Value(q), pivot')
      /\ \E q \in Positions : r[1] <= q /\ q <= r[2] /\ ~VALUE_G(Value(q), pivot')
  BY <1>2, <1>4, PivotStops DEF IInv
<1>6. TypeOK'
  <2>1. first_g' \in Int /\ last_l' \in Int
    BY <1>2, <1>4 DEF Positions
  <2>2. range' \in Positions \X Positions /\ calls' \subseteq Positions \X Positions
    BY <1>2, <1>4 DEF IInv, TypeOK
  <2> QED BY <1>3, <1>5, <2>1, <2>2 DEF IInv, TypeOK
<1>7. Rearranged'
  BY <1>3 DEF IInv, Rearranged
<1>8. Apart'
  BY <1>2, <1>3, <1>4 DEF IInv, Apart
<1>9. InOrder'
  <2> SUFFICES ASSUME NEW i \in Positions, NEW j \in Positions, i < j
               PROVE  (Together(i, j) \/ Little(i, j))'
    BY DEF InOrder
  <2>1. CASE Little(i, j)
    BY <1>3, <2>1 DEF Little, Value
  <2>2. CASE Together(i, j)
    BY <1>2, <1>3, <2>2 DEF Together
  <2> QED BY <2>1, <2>2 DEF IInv, InOrder
<1>10. Scans'
  <2>1. \A i \in Positions : Value(i)' = Value(i)
    BY <1>3 DEF Value
  <2>2. StopsUp(first_g + 1)' /\ StopsDown(last_l - 1)'
    BY <1>2, <1>4, <1>5, <2>1 DEF StopsUp, StopsDown, VALUE_L, VALUE_G, Positions
  <2>3. NoneAbove(first_g)' /\ NoneBelow(last_l)'
    BY <1>2, <1>4 DEF NoneAbove, NoneBelow, Positions
  <2> QED BY <1>2, <1>3, <1>4, <2>2, <2>3 DEF Scans, Positions
<1>11. Narrowed'
  BY <1>3 DEF Narrowed
<1> QED BY <1>6, <1>7, <1>8, <1>9, <1>10, <1>11 DEF IInv

LEMMA SwapInv == IInv /\ Swap => IInv'
<1> SUFFICES ASSUME IInv, Swap PROVE IInv'
  OBVIOUS
<1> USE PositionsInts
<1>1. /\ pc = "meet" /\ pc' = "up" /\ first_g < last_l
      /\ UNCHANGED <<orders, bsf, half, calls, range, pivot, first_g, last_l, sought>>
      /\ Partitioning /\ Partitioning'
  BY DEF Swap, Partitioning
<1>2. /\ first_g \in Int /\ last_l \in Int /\ pivot \in Int
      /\ range[1] \in Positions /\ range[2] \in Positions
      /\ calls \subseteq Positions \X Positions
  BY DEF IInv, TypeOK
<1>3. /\ range[1] <= first_g /\ last_l <= range[2]
      /\ NoneAbove(first_g - 1) /\ NoneBelow(last_l + 1)
      /\ first_g <= range[2] => ~VALUE_L(Value(first_g), pivot)
      /\ range[1] <= last_l => ~VALUE_G(Value(last_l), pivot)
  BY <1>1 DEF IInv, Scans
<1>4. /\ first_g \in Positions /\ last_l \in Positions
      /\ ~VALUE_L(Value(first_g), pivot) /\ ~VALUE_G(Value(last_l), pivot)
  BY <1>1, <1>2, <1>3 DEF Positions
<1>5. /\ indices' \in [Positions -> Positions]
      /\ Value(first_g)' = Value(last_l) /\ Value(last_l)' = Value(first_g)
      /\ \A i \in Positions \ {first_g, last_l} : Value(i)' = Value(i)
  BY <1>1, <1>4 DEF Swap, IInv, TypeOK, Value
<1>6. TypeOK'
  BY <1>1, <1>5 DEF IInv, TypeOK
<1>7. Rearranged'
  <2> SUFFICES ASSUME NEW p \in Positions PROVE \E i \in Positions : indices'[i] = p
    BY DEF Rearranged
  <2>1. PICK i \in Positions : indices[i] = p
    BY DEF IInv, Rearranged
  <2>2. CASE i = first_g
    BY <1>4, <2>1, <2>2 DEF Swap, IInv, TypeOK
  <2>3. CASE i = last_l
    BY <1>4, <2>1, <2>3 DEF Swap, IInv, TypeOK
  <2>4. CASE i \notin {first_g, last_l}
    BY <1>4, <2>1, <2>4 DEF Swap, IInv, TypeOK
  <2> QED BY <2>2, <2>3, <2>4
<1>8. Apart'
  BY <1>1 DEF IInv, Apart, Partitioning
<1>9. InOrder'
  <2> SUFFICES ASSUME NEW i \in Positions, NEW j \in Positions, i < j, ~Together(i, j)'
               PROVE  Little(i, j)'
    BY DEF InOrder
  <2>1. ~Together(i, j) /\ ~(i \in Within(range) /\ j \in Within(range))
    BY <1>1 DEF Together
  <2>2. \A k \in Positions : k \in {first_g, last_l} => k \in Within(range)
    BY <1>1, <1>2, <1>3, <1>4 DEF Within, Positions
  <2>3. Little(i, j)
    BY <2>1 DEF IInv, InOrder
  <2>4. CASE i \notin Within(range) /\ j \notin Within(range)
    BY <1>1, <1>5, <2>2, <2>3, <2>4 DEF Little
  <2>5. CASE i \notin Within(range) /\ j \in Within(range)
    <3>1. \A k \in Positions : k \in Within(range) => i < k /\ ~Together(i, k)
      BY <1>1, <1>2, <2>5 DEF Within, Together, IInv, Apart, Positions
    <3>2. \A k \in Positions : k \in Within(range) => Little(i, k)
      BY <3>1 DEF IInv, InOrder
    <3>3. Value(i)' = Value(i) /\ bsf' = bsf
      BY <1>1, <1>5, <2>2, <2>5
    <3>4. \E k \in Positions : k \in Within(range) /\ Value(j)' = Value(k)
      BY <1>1, <1>4, <1>5, <2>2, <2>5
    <3> QED BY <3>2, <3>3, <3>4 DEF Little
  <2>6. CASE i \in Within(range) /\ j \notin Within(range)
    <3>1. \A k \in Positions : k \in Within(range) => k < j /\ ~Together(k, j)
      BY <1>1, <1>2, <2>6 DEF Within, Together, IInv, Apart, Positions
    <3>2. \A k \in Positions : k \in Within(range) => Little(k, j)
      BY <3>1 DEF IInv, InOrder
    <3>3. Value(j)' = Value(j) /\ bsf' = bsf
      BY <1>1, <1>5, <2>2, <2>6
    <3>4. \E k \in Positions : k \in Within(range) /\ Value(i)' = Value(k)
      BY <1>1, <1>4, <1>5, <2>2, <2>6
    <3> QED BY <3>2, <3>3, <3>4 DEF Little
  <2> QED BY <2>1, <2>4, <2>5, <2>6
<1>10. Scans'
  <2>0. /\ \A i \in Positions : range[1] <= i /\ i <= first_g => ~VALUE_G(Value(i)', pivot)
        /\ \A i \in Positions : last_l <= i /\ i <= range[2] => ~VALUE_L(Value(i)', pivot)
    <3>1. Value(first_g)' = Value(last_l)
      BY <1>5
    <3>2. \A i \in Positions : i = first_g => Value(i)' = Value(last_l)
      BY <1>1, <1>5
    <3>3. \A i \in Positions : i = last_l => Value(i)' = Value(first_g)
      BY <1>1, <1>5
    <3>4. \A i \in Positions : i # first_g /\ i # last_l => Value(i)' = Value(i)
      BY <1>5
    <3>5. \A i \in Positions : range[1] <= i /\ i <= first_g =>
            i = first_g \/ (i # first_g /\ i # last_l /\ i <= first_g - 1)
      BY <1>1, <1>2, <1>4 DEF Positions
    <3>6. \A i \in Positions : last_l <= i /\ i <= range[2] =>
            i = last_l \/ (i # first_g /\ i # last_l /\ last_l + 1 <= i)
      BY <1>1, <1>2, <1>4 DEF Positions
    <3> QED BY <1>3, <1>4, <3>2, <3>3, <3>4, <3>5, <3>6 DEF NoneAbove, NoneBelow
  <2>1. NoneAbove(first_g)' /\ NoneBelow(last_l)'
    BY <1>1, <2>0 DEF NoneAbove, NoneBelow, VALUE_L, VALUE_G
  <2>2. StopsUp(first_g + 1)' /\ StopsDown(last_l - 1)'
    BY <1>1, <1>2, <1>3, <1>4, <2>0 DEF StopsUp, StopsDown, VALUE_G, Positions
  <2> QED BY <1>1, <1>2, <1>3, <2>1, <2>2 DEF Scans, Positions
<1>11. Narrowed'
  BY <1>1 DEF Narrowed
<1> QED BY <1>6, <1>7, <1>8, <1>9, <1>10, <1>11 DEF IInv

\* What a partition ends with: the scans have met, within the range, and a sub-range
\* is smaller than the range it comes from.
LEMMA MeetFacts ==
  ASSUME IInv, pc = "meet", first_g >= last_l
  PROVE  /\ first_g \in Int /\ last_l \in Int /\ pivot \in Int /\ half \in BOOLEAN
         /\ range[1] \in Positions /\ range[2] \in Positions /\ range[1] < range[2]
         /\ range[1] - 1 <= last_l /\ last_l <= range[2]
         /\ ~half => last_l \in range[1] .. range[2] - 1
         /\ NoneAbove(last_l) /\ NoneBelow(last_l + 1)
<1> USE PositionsInts
<1>1. /\ first_g \in Int /\ last_l \in Int /\ pivot \in Int /\ half \in BOOLEAN
      /\ range[1] \in Positions /\ range[2] \in Positions /\ range[1] < range[2]
  BY DEF IInv, TypeOK, Apart, Partitioning
<1>2. /\ range[1] <= first_g /\ first_g <= last_l + 1 /\ last_l <= range[2]
      /\ NoneAbove(first_g - 1) /\ NoneBelow(last_l + 1)
      /\ range[1] <= last_l => ~VALUE_G(Value(last_l), pivot)
      /\ ~half => /\ first_g < range[2] \/ (first_g <= range[2] /\ last_l < range[2])
                  /\ range[1] <= last_l
  BY DEF IInv, Scans
<1>3. NoneAbove(last_l)
  <2> SUFFICES ASSUME NEW i \in Positions, range[1] <= i, i <= last_l
               PROVE  ~VALUE_G(Value(i), pivot)
    BY DEF NoneAbove
  <2>1. CASE i = last_l
    BY <1>2, <2>1
  <2>2. CASE i # last_l
    BY <1>1, <1>2, <2>2 DEF NoneAbove, Positions
  <2> QED BY <2>1, <2>2
<1> QED BY <1>1, <1>2, <1>3 DEF Positions

LEMMA RecurseInv == IInv /\ Recurse => IInv'
<1> SUFFICES ASSUME IInv, Recurse PROVE IInv'
  OBVIOUS
<1> USE PositionsInts
<1>1. /\ pc = "meet" /\ pc' = "call" /\ first_g >= last_l
      /\ UNCHANGED <<indices, orders, bsf, half, range, pivot, first_g, last_l, sought>>
      /\ calls' = calls \cup {r \in Parts : r[1] < r[2]}
      /\ Partitioning /\ ~Partitioning'
  BY DEF Recurse, Partitioning
<1>2. /\ first_g \in Int /\ last_l \in Int /\ pivot \in Int /\ half \in BOOLEAN
      /\ range[1] \in Positions /\ range[2] \in Positions /\ range[1] < range[2]
      /\ range[1] - 1 <= last_l /\ last_l <= range[2]
      /\ ~half => last_l \in range[1] .. range[2] - 1
      /\ NoneAbove(last_l) /\ NoneBelow(last_l + 1)
  BY <1>1, MeetFacts
<1>3. /\ \A r \in calls : r[2] < range[1] \/ range[2] < r[1]
      /\ half => calls = {} /\ pivot = bsf /\ range = <<0, Length - 1>>
      /\ calls \subseteq Positions \X Positions
  BY <1>1 DEF IInv, Apart, TypeOK
<1>4. half => Parts = {<<range[1], last_l>>}
  BY <1>2 DEF Parts, Positions
<1>5. ~half => Parts = {<<range[1], last_l>>, <<last_l + 1, range[2]>>}
  BY DEF Parts
<1>6. \A r \in Parts : r[1] < r[2] =>
        /\ r \in Positions \X Positions /\ range[1] <= r[1] /\ r[2] <= range[2]
        /\ r[2] = last_l \/ r[1] = last_l + 1
  BY <1>2, <1>4, <1>5 DEF Positions
<1>7. TypeOK'
  BY <1>1, <1>6 DEF IInv, TypeOK
<1>8. Rearranged'
  BY <1>1 DEF IInv, Rearranged
<1>9. Apart'
  <2>1. \A r \in calls' : r[1] < r[2]
    BY <1>1 DEF IInv, Apart
  <2>2. \A r \in calls, q \in Parts : q[1] < q[2] => r[2] < q[1] \/ q[2] < r[1]
    <3> SUFFICES ASSUME NEW r \in calls, NEW q \in Parts, q[1] < q[2]
                 PROVE  r[2] < q[1] \/ q[2] < r[1]
      OBVIOUS
    <3>1. r[1] \in Int /\ r[2] \in Int /\ q[1] \in Int /\ q[2] \in Int
      BY <1>3, <1>6 DEF Positions
    <3> QED BY <1>2, <1>3, <1>6, <3>1 DEF Positions
  <2>3. \A r, q \in Parts : r # q => r[2] < q[1] \/ q[2] < r[1]
    BY <1>2, <1>4, <1>5 DEF Positions
  <2>4. \A r, q \in calls' : r # q => r[2] < q[1] \/ q[2] < r[1]
    BY <1>1, <2>2, <2>3 DEF IInv, Apart
  <2> QED BY <1>1, <2>1, <2>4 DEF Apart
<1>10. InOrder'
  <2> SUFFICES ASSUME NEW i \in Positions, NEW j \in Positions, i < j, ~Together(i, j)'
               PROVE  Little(i, j)'
    BY DEF InOrder
  <2>1. Little(i, j)' <=> Little(i, j)
    BY <1>1 DEF Little, Value
  <2>2. ~\E r \in calls : i \in Within(r) /\ j \in Within(r)
    BY <1>1 DEF Together
  <2>3. CASE ~(i \in Within(range) /\ j \in Within(range))
    BY <2>1, <2>2, <2>3 DEF IInv, InOrder, Together
  <2>4. CASE i \in Within(range) /\ j \in Within(range)
    <3>1. /\ i \in Int /\ j \in Int /\ range[1] <= i /\ i <= range[2]
          /\ range[1] <= j /\ j <= range[2]
      BY <2>4 DEF Within, Positions
    <3>2. \A r \in Parts : r[1] < r[2] => ~(i \in Within(r) /\ j \in Within(r))
      BY <1>1 DEF Together
    <3>3. last_l < j
      <4> SUFFICES ASSUME j <= last_l PROVE FALSE
        BY <1>2, <3>1
      <4>1. <<range[1], last_l>> \in Parts
        BY <1>2, <1>4, <1>5
      <4>2. range[1] < last_l
        BY <1>2, <3>1 DEF Positions
      <4>3. i \in range[1] .. last_l /\ j \in range[1] .. last_l
        BY <1>2, <3>1 DEF Positions
      <4> QED BY <3>2, <4>1, <4>2, <4>3 DEF Within
    <3>4. ~VALUE_L(Value(j), pivot)
      BY <1>2, <3>1, <3>3 DEF NoneBelow
    <3>5. Value(i) \in Int /\ Value(j) \in Int
      BY ValueType DEF IInv
    <3>6. CASE i <= last_l
      <4>1. ~VALUE_G(Value(i), pivot)
        BY <1>2, <3>1, <3>6 DEF NoneAbove
      <4> QED BY <1>2, <2>1, <3>4, <3>5, <4>1 DEF Little, VALUE_L, VALUE_G
    <3>7. CASE last_l < i
      <4>1. half
        <5> SUFFICES ASSUME ~half PROVE FALSE
          BY <1>2
        <5>1. <<last_l + 1, range[2]>> \in Parts
          BY <1>5
        <5>2. i \in last_l + 1 .. range[2] /\ j \in last_l + 1 .. range[2] /\ last_l + 1 < range[2]
          BY <1>2, <3>1, <3>7 DEF Positions
        <5> QED BY <3>2, <5>1, <5>2 DEF Within
      <4>2. ~VALUE_L(Value(i), pivot)
        BY <1>2, <3>1, <3>7 DEF NoneBelow
      <4> QED BY <1>3, <2>1, <3>4, <4>1, <4>2 DEF Little
    <3> QED BY <1>2, <3>1, <3>6, <3>7
  <2> QED BY <2>3, <2>4
<1>11. Scans'
  BY <1>1 DEF Scans, Partitioning
<1>12. Narrowed'
  BY <1>1 DEF Narrowed
<1> QED BY <1>7, <1>8, <1>9, <1>10, <1>11, <1>12 DEF IInv

-----------------------------------------------------------------------------
(* Searching. *)

LEMMA SearchInv == IInv /\ (Search \/ Bisect \/ Found \/ UNCHANGED vars) => IInv'
<1> SUFFICES ASSUME IInv, Search \/ Bisect \/ Found \/ UNCHANGED vars PROVE IInv'
  OBVIOUS
<1> USE PositionsInts
<1>1. CASE UNCHANGED vars
  BY <1>1 DEF IInv, vars, TypeOK, Rearranged, Apart, InOrder, Together, Little, Scans,
              Narrowed, Partitioning, NoneAbove, NoneBelow, StopsUp, StopsDown, Value
<1>2. CASE Search \/ Bisect \/ Found
  <2>1. /\ UNCHANGED <<indices, orders, bsf, half, calls, pivot, first_g, last_l>>
        /\ ~Partitioning /\ ~Partitioning' /\ calls = {}
        /\ pc' \in {"search", "found"}
    BY <1>2 DEF Search, Bisect, Found, Partitioning, IInv, Apart
  <2>2. /\ range[1] \in Positions /\ range[2] \in Positions /\ range \in Positions \X Positions
        /\ 0 \in Positions /\ Length - 1 \in Positions
    BY DEF IInv, TypeOK, Positions
  <2>3. \A i \in Positions : Value(i)' = Value(i)
    BY <2>1 DEF Value
  <2>4. TypeOK' /\ Narrowed'
    <3>1. CASE Search
      <4>1. /\ range'[1] = 0 /\ range'[2] = Length - 1 /\ range' = <<0, Length - 1>>
            /\ pc' = "search" /\ sought' \in Int
        BY <3>1, InputsAssumption DEF Search
      <4>2. TypeOK'
        BY <2>1, <2>2, <4>1 DEF IInv, TypeOK
      <4> QED BY <4>1, <4>2 DEF Narrowed
    <3>2. CASE Bisect
      <4> DEFINE mid == (range[1] + range[2]) \div 2
      <4>1. mid \in Positions /\ range[1] < mid /\ mid < range[2]
        BY <2>2, <3>2 DEF Bisect, Positions
      <4>2. /\ pc = "search" /\ UNCHANGED <<pc, sought>>
            /\ range' = IF VALUE_L(sought, Value(mid)) THEN <<range[1], mid>> ELSE <<mid, range[2]>>
        BY <3>2 DEF Bisect
      <4> HIDE DEF mid
      <4>3. TypeOK'
        BY <2>1, <2>2, <4>1, <4>2 DEF IInv, TypeOK
      <4>4. CASE VALUE_L(sought, Value(mid))
        <5>1. range'[1] = range[1] /\ range'[2] = mid
          BY <4>2, <4>4
        <5>2. range[1] = 0 \/ ~VALUE_L(sought, Value(range[1]))
          BY <4>2 DEF IInv, Narrowed
        <5> QED BY <2>1, <2>2, <4>1, <4>2, <4>3, <4>4, <5>1, <5>2 DEF Narrowed, VALUE_L, Value, Positions
      <4>5. CASE ~VALUE_L(sought, Value(mid))
        <5>1. range'[1] = mid /\ range'[2] = range[2]
          BY <4>2, <4>5
        <5>2. range[2] = Length - 1 \/ VALUE_L(sought, Value(range[2]))
          BY <4>2 DEF IInv, Narrowed
        <5> QED BY <2>1, <2>2, <4>1, <4>2, <4>3, <4>5, <5>1, <5>2 DEF Narrowed, VALUE_L, Value, Positions
      <4> QED BY <4>4, <4>5
    <3>3. CASE Found
      BY <2>1, <2>2, <3>3 DEF Found, IInv, TypeOK, Narrowed, Value, VALUE_L
    <3> QED BY <1>2, <3>1, <3>2, <3>3
  <2>5. Rearranged'
    BY <2>1 DEF IInv, Rearranged
  <2>6. Apart'
    BY <2>1 DEF Apart
  <2>7. InOrder'
    BY <2>1 DEF IInv, InOrder, Together, Little, Value
  <2>8. Scans'
    BY <2>1 DEF Scans, Partitioning
  <2> QED BY <2>4, <2>5, <2>6, <2>7, <2>8 DEF IInv
<1> QED BY <1>1, <1>2

LEMMA InvHolds == Spec => []IInv
<1>1. IInv /\ [Next]_vars => IInv'
  BY CallInv, StepUpInv, ReadUpInv, StepDownInv, ReadDownInv, SwapInv, RecurseInv, SearchInv
     DEF Next, Terminated
<1> QED BY <1>1, InvInit, PTL DEF Spec

-----------------------------------------------------------------------------
\* Sorting keeps its types; the ranges pending stay within the array.
THEOREM TypeCorrect == Spec => []TypeOK
BY InvHolds, PTL DEF IInv

\* The scans of qSortIndicesBy, which test no bound, never leave their range.
THEOREM ScansNeverLeaveRange == Spec => []ScansStayInRange
<1>1. IInv => ScansStayInRange
  <2> SUFFICES ASSUME IInv, ~half PROVE ScansStayInRange
    BY DEF ScansStayInRange
  <2>1. /\ first_g \in Int /\ last_l \in Int /\ range[1] \in Int /\ range[2] \in Int
    BY PositionsInts DEF IInv, TypeOK, Positions
  <2>2. CASE pc = "readUp"
    BY <2>1, <2>2, PositionsInts DEF IInv, Scans, StopsUp, ScansStayInRange, Within, Positions
  <2>3. CASE pc = "down"
    BY <2>1, <2>3 DEF IInv, Scans, ScansStayInRange, Within
  <2>4. CASE pc = "readDown"
    BY <2>1, <2>4, PositionsInts DEF IInv, Scans, StopsDown, ScansStayInRange, Within, Positions
  <2>5. CASE pc = "meet"
    BY <2>1, <2>5 DEF IInv, Scans, ScansStayInRange, Within
  <2> QED BY <2>2, <2>3, <2>4, <2>5 DEF ScansStayInRange
<1> QED BY <1>1, InvHolds, PTL

\* Every call of qSortIndicesBy has a smaller range than its caller, whatever the
\* pivot: the recursion is no deeper than the array is long.
THEOREM RecursionShrinks == Spec => PartitionsShrink
<1>1. IInv /\ [Next]_vars => [Recurse /\ ~half => last_l \in range[1] .. range[2] - 1]_vars
  BY MeetFacts DEF Recurse
<1> QED BY <1>1, InvHolds, PTL DEF Spec, PartitionsShrink

\* No index is lost or doubled by the swaps.
THEOREM IndicesAreRearranged == Spec => []Rearranged
BY InvHolds, PTL DEF IInv

\* The result is in order, up to twice EPSILON and to the half not sorted.
THEOREM ComesOutInOrder == Spec => []OutOfOrderByLittle
<1>1. IInv => OutOfOrderByLittle
  BY DEF IInv, InOrder, Together, Little, OutOfOrderByLittle, Sorted, Partitioning
<1> QED BY <1>1, InvHolds, PTL

\* The search ends where the value sought belongs.
THEOREM FindsFloor == Spec => []FloorFound
<1>1. IInv => FloorFound
  <2> SUFFICES ASSUME IInv, pc = "found" PROVE FloorFound
    BY DEF FloorFound
  <2>1. range[1] \in Int /\ range[2] \in Int
    BY PositionsInts DEF IInv, TypeOK, Positions
  <2>2. CASE range[2] = range[1] + 1
    BY <2>1, <2>2, PositionsInts DEF IInv, Narrowed, FloorFound
  <2>3. CASE range[2] # range[1] + 1
    BY <2>1, <2>3, PositionsInts DEF IInv, Narrowed, FloorFound
  <2> QED BY <2>2, <2>3
<1> QED BY <1>1, InvHolds, PTL

-----------------------------------------------------------------------------
(* THE ANSWER *)
(* Its two recursive functions: they exist, and what they compute.         *)

\* The indices of a heap: parents lie below their two children.
LEMMA Parents ==
  \A c \in Nat \ {0} : /\ Parent(c) \in Nat /\ Parent(c) < c
                       /\ c = 2 * Parent(c) + 1 \/ c = 2 * Parent(c) + 2
BY DEF Parent

LEMMA Children == \A p \in Nat : Parent(2 * p + 1) = p /\ Parent(2 * p + 2) = p
BY DEF Parent

\* What step makes of a function at x depends on values of smaller rank only.
StepsDown(S, T, N, rank, step) ==
  /\ rank \in [S -> 0 .. N] /\ step \in [[S -> T] -> [S -> T]]
  /\ \A f, g \in [S -> T] : \A x \in S :
       (\A y \in S : rank[y] < rank[x] => f[y] = g[y]) => step[f][x] = step[g][x]

Ends(S, T, step) == \E f \in [S -> T] : step[f] = f

\* A function on S is well defined if its value at x depends on values of
\* smaller rank only.
LEMMA Recursion ==
  ASSUME NEW S, NEW T, T # {}, NEW N \in Nat, NEW rank, NEW step,
         StepsDown(S, T, N, rank, step)
  PROVE  Ends(S, T, step)
<1>0. /\ rank \in [S -> 0 .. N] /\ step \in [[S -> T] -> [S -> T]]
      /\ \A f, g \in [S -> T] : \A x \in S :
           (\A y \in S : rank[y] < rank[x] => f[y] = g[y]) => step[f][x] = step[g][x]
  BY DEF StepsDown
<1> DEFINE UpTo(n, f) == \A x \in S : rank[x] < n => step[f][x] = f[x]
           Bad == {n \in 0 .. N + 1 : \A f \in [S -> T] : ~UpTo(n, f)}
<1>1. ASSUME Bad # {} PROVE FALSE
  <2>0. Bad \in SUBSET Nat
    OBVIOUS
  <2>1. PICK n \in Bad : \A m \in Bad : n <= m
    <3> HIDE DEF Bad
    <3> QED BY <1>1, <2>0, Least
  <2>2. n # 0
    <3>0. PICK t \in T : TRUE
      OBVIOUS
    <3>1. [x \in S |-> t] \in [S -> T] /\ UpTo(0, [x \in S |-> t])
      BY <1>0
    <3>2. 0 \notin Bad
      BY <3>1
    <3> QED BY <2>1, <3>2
  <2>3. n \in 0 .. N + 1 /\ n - 1 \in 0 .. N + 1 /\ n - 1 \notin Bad
    <3>1. n \in 0 .. N + 1 /\ n - 1 \in 0 .. N + 1
      BY <2>1, <2>2
    <3> HIDE DEF Bad
    <3> QED BY <2>1, <3>1
  <2>4. PICK f \in [S -> T] : UpTo(n - 1, f)
    BY <2>3
  <2> DEFINE g == step[f]
  <2>5. g \in [S -> T]
    BY <1>0
  <2>6. ASSUME NEW x \in S, rank[x] < n PROVE step[g][x] = g[x]
    <3>1. \A y \in S : rank[y] < rank[x] => g[y] = f[y]
      <4>1. rank[x] \in 0 .. N /\ \A y \in S : rank[y] \in 0 .. N
        BY <1>0
      <4>2. \A y \in S : rank[y] < rank[x] => rank[y] < n - 1
        BY <2>3, <2>6, <4>1
      <4> QED BY <2>4, <4>2
    <3> HIDE DEF g
    <3>2. step[g][x] = step[f][x]
      BY <1>0, <2>5, <3>1
    <3> QED BY <3>2 DEF g
  <2>7. n \notin Bad
    BY <2>5, <2>6
  <2> QED BY <2>1, <2>7
<1>2. PICK f \in [S -> T] : UpTo(N + 1, f)
  <2>1. N + 1 \in 0 .. N + 1
    OBVIOUS
  <2> HIDE DEF UpTo
  <2> QED BY <1>1, <2>1
<1>3. \A x \in S : step[f][x] = f[x]
  <2>1. \A x \in S : rank[x] < N + 1
    BY <1>0
  <2> QED BY <1>2, <2>1
<1>4. step[f] = f
  BY <1>0, <1>3
<1> QED BY <1>4 DEF Ends

\* Induction over the rank.
Hereditary(S, Good, rank) ==
  /\ rank \in [S -> Nat]
  /\ \A x \in S : (\A y \in S : rank[y] < rank[x] => y \in Good) => x \in Good

LEMMA ByRank ==
  ASSUME NEW S, NEW Good, NEW rank, Hereditary(S, Good, rank)
  PROVE  S \subseteq Good
<1>0. /\ rank \in [S -> Nat]
      /\ \A x \in S : (\A y \in S : rank[y] < rank[x] => y \in Good) => x \in Good
  BY DEF Hereditary
<1> DEFINE Bad == {n \in Nat : \E x \in S : rank[x] = n /\ x \notin Good}
<1>1. ASSUME Bad # {} PROVE FALSE
  <2>1. PICK n \in Bad : \A m \in Bad : n <= m
    <3>1. Bad \in SUBSET Nat
      OBVIOUS
    <3> HIDE DEF Bad
    <3> QED BY <1>1, <3>1, Least
  <2>2. PICK x \in S : rank[x] = n /\ x \notin Good
    BY <2>1
  <2>3. \A y \in S : rank[y] < n => rank[y] \notin Bad
    <3> HIDE DEF Bad
    <3>1. n \in Nat /\ \A y \in S : rank[y] \in Nat
      BY <1>0, <2>2
    <3> QED BY <2>1, <3>1
  <2>4. \A y \in S : rank[y] < rank[x] => y \in Good
    BY <1>0, <2>2, <2>3
  <2> QED BY <1>0, <2>2, <2>4
<1> QED BY <1>0, <1>1

LEMMA Exchanged ==
  ASSUME NEW h \in Heaps, NEW a \in Slots, NEW b \in Slots
  PROVE  /\ Exchange(h, a, b) \in Heaps
         /\ \A j \in Slots : Exchange(h, a, b)[j] = IF j = a THEN h[b]
                                                   ELSE IF j = b THEN h[a] ELSE h[j]
BY DEF Exchange, Heaps

\* Values of a heap can be compared.
LEMMA HeapType == \A h \in Heaps : \A j \in Slots : h[j] \in Int
<1>1. Distances \cup {VALUE_MAX} \subseteq Int
  BY AnswerAssumption
<1> QED BY <1>1 DEF Heaps

LEMMA LiftedType ==
  ASSUME NEW h \in Heaps, NEW c \in Slots, c # 0
  PROVE  Parent(c) \in Slots /\ Lifted(h, c) \in Heaps
<1>1. Parent(c) \in Slots
  BY Parents, AnswerAssumption DEF Slots
<1> QED BY <1>1, Exchanged DEF Lifted

\* What heapifyBottomUp does at entry c of heap h, f being what it does above.
Up(f, c, h) == IF c = 0 THEN h ELSE f[Parent(c)][Lifted(h, c)]

Ups(f) == f = [c \in Slots |-> [h \in Heaps |-> Up(f, c, h)]]

LEMMA UpExists == \E f \in [Slots -> [Heaps -> Heaps]] : Ups(f)
<1> DEFINE T == [Heaps -> Heaps]
           step == [f \in [Slots -> T] |-> [c \in Slots |-> [h \in Heaps |-> Up(f, c, h)]]]
           rank == [c \in Slots |-> c]
<1>1. step \in [[Slots -> T] -> [Slots -> T]]
  <2>1. ASSUME NEW f \in [Slots -> T], NEW c \in Slots, NEW h \in Heaps
        PROVE  Up(f, c, h) \in Heaps
    BY LiftedType DEF Up
  <2> QED BY <2>1
<1>2. rank \in [Slots -> 0 .. K - 1]
  BY DEF Slots
<1>3. [h \in Heaps |-> h] \in T
  OBVIOUS
<1>4. ASSUME NEW f \in [Slots -> T], NEW g \in [Slots -> T], NEW c \in Slots,
             \A d \in Slots : rank[d] < rank[c] => f[d] = g[d]
      PROVE  step[f][c] = step[g][c]
  <2>1. ASSUME NEW h \in Heaps, c # 0 PROVE f[Parent(c)] = g[Parent(c)]
    <3>1. Parent(c) \in Slots /\ Parent(c) < c
      BY <2>1, Parents, LiftedType DEF Slots
    <3> QED BY <1>4, <3>1
  <2>2. \A h \in Heaps : Up(f, c, h) = Up(g, c, h)
    BY <2>1 DEF Up
  <2>3. step[f][c] = [h \in Heaps |-> Up(f, c, h)] /\ step[g][c] = [h \in Heaps |-> Up(g, c, h)]
    OBVIOUS
  <2> QED BY <2>2, <2>3
<1>5. K - 1 \in Nat
  BY AnswerAssumption
<1>6. Ends(Slots, T, step)
  <2>1. StepsDown(Slots, T, K - 1, rank, step)
    BY <1>1, <1>2, <1>4 DEF StepsDown
  <2> HIDE DEF step, rank, T
  <2> QED BY <1>3, <1>5, <2>1, Recursion, Zenon
<1> QED BY <1>6 DEF Ups, Ends

IsHeapifyBottomUp(f) ==
  \A c \in Slots : \A h \in Heaps : f[c][h] = Up(f, c, h) /\ heapifyBottomUp(h, c) = f[c][h]

\* heapifyBottomUp is what the recursion says.
LEMMA UpIs == \E f : IsHeapifyBottomUp(f)
<1> DEFINE f == CHOOSE f : Ups(f)
<1>1. Ups(f)
  BY UpExists, Zenon
<1>2. \A c : \A h : heapifyBottomUp(h, c) = f[c][h]
  BY Zenon DEF heapifyBottomUp, Ups, Up
<1> HIDE DEF f
<1>3. \A c \in Slots : \A h \in Heaps : f[c][h] = Up(f, c, h)
  <2>1. TAKE c \in Slots
  <2>2. TAKE h \in Heaps
  <2> DEFINE g == [d \in Slots |-> [i \in Heaps |-> Up(f, d, i)]]
  <2>3. f = g
    BY <1>1, Zenon DEF Ups
  <2>4. g[c][h] = Up(f, c, h)
    BY Zenon
  <2> HIDE DEF g
  <2> QED BY <2>3, <2>4, Zenon
<1>4. IsHeapifyBottomUp(f)
  BY <1>2, <1>3 DEF IsHeapifyBottomUp
<1> QED BY <1>4

\* What heapifyTopDown does at entry p of heap h with n entries.
Down(f, n, p, h) ==
  LET left  == 2 * p + 1
      right == left + 1
      next  == LargerChild(h, left, right)
  IN  IF right < n
      THEN IF h[p] < h[next] THEN f[next][Exchange(h, p, next)] ELSE h
      ELSE IF left < n /\ h[p] < h[left] THEN Exchange(h, p, left) ELSE h

Downs(f, n) == f = [p \in Slots |-> [h \in Heaps |-> Down(f, n, p, h)]]

\* The children that heapifyTopDown looks at are entries of the heap.
LEMMA ChildrenInside ==
  ASSUME NEW n \in 0 .. K, NEW p \in Slots, NEW h \in Heaps
  PROVE  /\ 2 * p + 1 < n => 2 * p + 1 \in Slots /\ p < 2 * p + 1
         /\ 2 * p + 2 < n => /\ 2 * p + 2 \in Slots /\ p < 2 * p + 2
                             /\ 2 * p + 1 \in Slots
                             /\ LargerChild(h, 2 * p + 1, 2 * p + 2) \in Slots
                             /\ LargerChild(h, 2 * p + 1, 2 * p + 2) > p
                             /\ LargerChild(h, 2 * p + 1, 2 * p + 2) \in {2 * p + 1, 2 * p + 2}
<1>1. p \in Nat /\ K \in Nat /\ n \in Nat /\ n <= K
  BY AnswerAssumption DEF Slots
<1>2. LargerChild(h, 2 * p + 1, 2 * p + 2) \in {2 * p + 1, 2 * p + 2}
  BY DEF LargerChild
<1>3. /\ 2 * p + 1 < n => 2 * p + 1 \in Slots /\ p < 2 * p + 1
      /\ 2 * p + 2 < n => /\ 2 * p + 2 \in Slots /\ p < 2 * p + 2
                          /\ 2 * p + 1 \in Slots /\ p < 2 * p + 1
  BY <1>1 DEF Slots
<1> QED BY <1>2, <1>3

LEMMA DownExists ==
  ASSUME NEW n \in 0 .. K
  PROVE  \E f \in [Slots -> [Heaps -> Heaps]] : Downs(f, n)
<1> DEFINE T == [Heaps -> Heaps]
           step == [f \in [Slots -> T] |-> [p \in Slots |-> [h \in Heaps |-> Down(f, n, p, h)]]]
           rank == [p \in Slots |-> K - 1 - p]
<1>1. step \in [[Slots -> T] -> [Slots -> T]]
  <2>1. ASSUME NEW f \in [Slots -> T], NEW p \in Slots, NEW h \in Heaps
        PROVE  Down(f, n, p, h) \in Heaps
    <3> DEFINE next == LargerChild(h, 2 * p + 1, 2 * p + 2)
    <3>1. (2 * p + 1) + 1 = 2 * p + 2
      BY DEF Slots
    <3>2. CASE 2 * p + 2 < n
      <4>1. next \in Slots /\ Exchange(h, p, next) \in Heaps
        BY <3>2, ChildrenInside, Exchanged
      <4> HIDE DEF next
      <4>2. f[next][Exchange(h, p, next)] \in Heaps
        BY <4>1
      <4> QED BY <3>1, <3>2, <4>2 DEF Down, next
    <3>3. CASE ~(2 * p + 2 < n) /\ 2 * p + 1 < n
      BY <3>1, <3>3, ChildrenInside, Exchanged DEF Down
    <3>4. CASE ~(2 * p + 2 < n) /\ ~(2 * p + 1 < n)
      BY <3>1, <3>4 DEF Down
    <3> QED BY <3>2, <3>3, <3>4
  <2> QED BY <2>1
<1>2. rank \in [Slots -> 0 .. K - 1]
  BY AnswerAssumption DEF Slots
<1>3. [h \in Heaps |-> h] \in T
  OBVIOUS
<1>4. ASSUME NEW f \in [Slots -> T], NEW g \in [Slots -> T], NEW p \in Slots,
             \A q \in Slots : rank[q] < rank[p] => f[q] = g[q]
      PROVE  step[f][p] = step[g][p]
  <2>1. ASSUME NEW h \in Heaps PROVE Down(f, n, p, h) = Down(g, n, p, h)
    <3> DEFINE next == LargerChild(h, 2 * p + 1, 2 * p + 2)
    <3>1. (2 * p + 1) + 1 = 2 * p + 2
      BY DEF Slots
    <3>2. CASE 2 * p + 2 < n
      <4>1. next \in Slots /\ next > p
        BY <3>2, ChildrenInside
      <4> HIDE DEF next
      <4>2. rank[next] < rank[p]
        BY <4>1, AnswerAssumption DEF Slots
      <4>3. f[next] = g[next]
        BY <1>4, <4>1, <4>2
      <4> QED BY <3>1, <4>3 DEF Down, next
    <3>3. CASE ~(2 * p + 2 < n)
      BY <3>1, <3>3 DEF Down
    <3> QED BY <3>2, <3>3
  <2>2. step[f][p] = [h \in Heaps |-> Down(f, n, p, h)] /\ step[g][p] = [h \in Heaps |-> Down(g, n, p, h)]
    OBVIOUS
  <2> QED BY <2>1, <2>2
<1>5. K - 1 \in Nat
  BY AnswerAssumption
<1>6. Ends(Slots, T, step)
  <2>1. StepsDown(Slots, T, K - 1, rank, step)
    BY <1>1, <1>2, <1>4 DEF StepsDown
  <2> HIDE DEF step, rank, T
  <2> QED BY <1>3, <1>5, <2>1, Recursion, Zenon
<1> QED BY <1>6 DEF Downs, Ends

IsHeapifyTopDown(f, n) ==
  \A p \in Slots : \A h \in Heaps : f[p][h] = Down(f, n, p, h) /\ heapifyTopDown(h, p, n) = f[p][h]

\* heapifyTopDown is what the recursion says.
LEMMA DownIs == ASSUME NEW n \in 0 .. K PROVE \E f : IsHeapifyTopDown(f, n)
<1> DEFINE f == CHOOSE f : Downs(f, n)
<1>1. Downs(f, n)
  BY DownExists, Zenon
<1>2. \A p : \A h : heapifyTopDown(h, p, n) = f[p][h]
  BY Zenon DEF heapifyTopDown, Downs, Down
<1> HIDE DEF f
<1>3. \A p \in Slots : \A h \in Heaps : f[p][h] = Down(f, n, p, h)
  <2>1. TAKE p \in Slots
  <2>2. TAKE h \in Heaps
  <2> DEFINE g == [d \in Slots |-> [i \in Heaps |-> Down(f, n, d, i)]]
  <2>3. f = g
    BY <1>1, Zenon DEF Downs
  <2>4. g[p][h] = Down(f, n, p, h)
    BY Zenon
  <2> HIDE DEF g
  <2> QED BY <2>3, <2>4, Zenon
<1>4. IsHeapifyTopDown(f, n)
  BY <1>2, <1>3 DEF IsHeapifyTopDown
<1> QED BY <1>4

-----------------------------------------------------------------------------
(* What the two heapify functions leave: the same entries, in order. *)

\* The first n entries of a max-heap.
HeapOrder(h, n) == \A c \in 1 .. n - 1 : h[c] <= h[Parent(c)]

Places(h, n, d) == {j \in 0 .. n - 1 : h[j] = d}

SameEntries(g, h, n) == \A d : Cardinality(Places(g, n, d)) = Cardinality(Places(h, n, d))

LEMMA PlacesFinite ==
  ASSUME NEW n \in Nat, NEW h, NEW d
  PROVE  IsFiniteSet(Places(h, n, d)) /\ Cardinality(Places(h, n, d)) \in Nat
<1>1. IsFiniteSet(0 .. n - 1) /\ Places(h, n, d) \in SUBSET (0 .. n - 1)
  BY FS_Interval DEF Places
<1> QED BY <1>1, FS_Subset, FS_CardinalityType

LEMMA ExchangeKeeps ==
  ASSUME NEW n \in 1 .. K, NEW h \in Heaps, NEW a \in 0 .. n - 1, NEW b \in 0 .. n - 1
  PROVE  SameEntries(Exchange(h, a, b), h, n)
<1> DEFINE g == Exchange(h, a, b)
           swap(j) == IF j = a THEN b ELSE IF j = b THEN a ELSE j
<1>1. 0 .. n - 1 \subseteq Slots
  BY AnswerAssumption DEF Slots
<1>2. \A j \in 0 .. n - 1 : g[j] = h[swap(j)] /\ swap(j) \in 0 .. n - 1 /\ swap(swap(j)) = j
  <2>1. a \in Slots /\ b \in Slots
    BY <1>1
  <2>2. \A j \in Slots : g[j] = IF j = a THEN h[b] ELSE IF j = b THEN h[a] ELSE h[j]
    BY <2>1, Exchanged
  <2> HIDE DEF g
  <2> QED BY <1>1, <2>2
<1> HIDE DEF g
<1>3. ASSUME NEW d PROVE Cardinality(Places(g, n, d)) = Cardinality(Places(h, n, d))
  <2> DEFINE A == Places(g, n, d)
             B == Places(h, n, d)
             f == [j \in A |-> swap(j)]
  <2>1. f \in [A -> B]
    BY <1>2 DEF Places
  <2>2. \A x, y \in A : f[x] = f[y] => x = y
    BY <1>2 DEF Places
  <2>3. \A y \in B : swap(y) \in A /\ f[swap(y)] = y
    BY <1>2 DEF Places
  <2>4. f \in Bijection(A, B)
    <3> HIDE DEF A, B, f
    <3>1. \A y \in B : \E x \in A : f[x] = y
      BY <2>3
    <3> QED BY <2>1, <2>2, <3>1 DEF Bijection, Injection, Surjection, IsInjective
  <2>5. IsFiniteSet(A)
    BY PlacesFinite
  <2> HIDE DEF f, A, B
  <2>6. ExistsBijection(A, B)
    BY <2>4 DEF ExistsBijection
  <2>7. Cardinality(B) = Cardinality(A)
    BY <2>5, <2>6, FS_Bijection
  <2> QED BY <2>7 DEF A, B
<1> QED BY <1>3 DEF SameEntries, g

\* The largest entry is at the top.
LEMMA TopIsLargest ==
  ASSUME NEW n \in 1 .. K, NEW h \in Heaps, HeapOrder(h, n)
  PROVE  \A j \in 0 .. n - 1 : h[j] <= h[0]
<1> DEFINE Good == {j \in 0 .. n - 1 : h[j] <= h[0]}
           rank == [j \in 0 .. n - 1 |-> j]
<1>1. \A j \in 0 .. n - 1 : h[j] \in Int /\ h[0] \in Int
  <2>1. 0 .. n - 1 \subseteq Slots /\ 0 \in Slots
    BY AnswerAssumption DEF Slots
  <2> QED BY <2>1, HeapType
<1>2. rank \in [0 .. n - 1 -> Nat]
  OBVIOUS
<1>3. ASSUME NEW c \in 0 .. n - 1, \A y \in 0 .. n - 1 : rank[y] < rank[c] => y \in Good
      PROVE  c \in Good
  <2>1. CASE c = 0
    BY <1>1, <2>1
  <2>2. CASE c # 0
    <3>1. Parent(c) \in 0 .. n - 1 /\ Parent(c) < c /\ c \in 1 .. n - 1
      BY <2>2, Parents
    <3>2. h[Parent(c)] <= h[0]
      BY <1>3, <3>1
    <3>3. h[c] <= h[Parent(c)]
      BY <3>1 DEF HeapOrder
    <3> QED BY <1>1, <3>1, <3>2, <3>3
  <2> QED BY <2>1, <2>2
<1>4. 0 .. n - 1 \subseteq Good
  <2>1. Hereditary(0 .. n - 1, Good, rank)
    BY <1>2, <1>3 DEF Hereditary
  <2> HIDE DEF Good, rank
  <2> QED BY <2>1, ByRank
<1> QED BY <1>4

\* In order but for entry c, which may be larger than its parent.
OrderedButAbove(h, c, n) ==
  \A j \in 1 .. n - 1 : /\ j # c => h[j] <= h[Parent(j)]
                        /\ Parent(j) = c /\ c # 0 => h[j] <= h[Parent(c)]

\* In order but for entry p, which may be smaller than its children.
OrderedButBelow(h, p, n) ==
  \A j \in 1 .. n - 1 : /\ Parent(j) # p => h[j] <= h[Parent(j)]
                        /\ Parent(j) = p /\ p # 0 => h[j] <= h[Parent(p)]

\* The entries of a heap of n and their parents.
LEMMA Inside ==
  ASSUME NEW n \in 1 .. K, NEW h \in Heaps
  PROVE  /\ 0 .. n - 1 \subseteq Slots
         /\ \A j \in 1 .. n - 1 : Parent(j) \in 0 .. n - 1 /\ Parent(j) < j
         /\ \A j \in 0 .. n - 1 : h[j] \in Int
<1>1. 0 .. n - 1 \subseteq Slots
  BY AnswerAssumption DEF Slots
<1>2. \A j \in 1 .. n - 1 : Parent(j) \in 0 .. n - 1 /\ Parent(j) < j
  BY Parents
<1> QED BY <1>1, <1>2, HeapType

\* One turn of heapifyBottomUp moves the disorder up to the parent.
LEMMA LiftedOrder ==
  ASSUME NEW n \in 1 .. K, NEW h \in Heaps, NEW c \in 1 .. n - 1, OrderedButAbove(h, c, n)
  PROVE  OrderedButAbove(Lifted(h, c), Parent(c), n) /\ SameEntries(Lifted(h, c), h, n)
<1> DEFINE q == Parent(c)
           g == Lifted(h, c)
<1>1. /\ q \in 0 .. n - 1 /\ c \in 0 .. n - 1 /\ q < c /\ q \in Slots /\ c \in Slots
      /\ \A j \in 1 .. n - 1 : Parent(j) \in 0 .. n - 1 /\ Parent(j) < j
      /\ \A j \in 0 .. n - 1 : h[j] \in Int /\ j \in Slots
  BY Inside
<1>2. CASE h[q] < h[c]
  <2>1. g = Exchange(h, q, c)
    BY <1>2 DEF Lifted
  <2>2. \A j \in 0 .. n - 1 : g[j] = IF j = q THEN h[c] ELSE IF j = c THEN h[q] ELSE h[j]
    <3> HIDE DEF g, q
    <3>0. q \in Slots /\ c \in Slots
      BY <1>1
    <3>1. \A j \in Slots : g[j] = IF j = q THEN h[c] ELSE IF j = c THEN h[q] ELSE h[j]
      BY <2>1, <3>0, Exchanged
    <3> QED BY <1>1, <3>1
  <2>3. SameEntries(g, h, n)
    BY <1>1, <2>1, ExchangeKeeps
  <2> HIDE DEF g
  <2>4. ASSUME NEW j \in 1 .. n - 1 PROVE j # q => g[j] <= g[Parent(j)]
    <3>1. j # c => h[j] <= h[Parent(j)]
      BY DEF OrderedButAbove
    <3>2. Parent(j) = c => h[j] <= h[q]
      BY <1>1 DEF OrderedButAbove
    <3>3. CASE j = c
      BY <1>1, <1>2, <2>2, <3>3
    <3>4. CASE j # c /\ j # q
      <4>1. g[j] = h[j] /\ j \in 0 .. n - 1
        BY <2>2, <3>4
      <4>2. CASE Parent(j) = c
        BY <1>1, <2>2, <3>2, <4>1, <4>2
      <4>3. CASE Parent(j) = q
        BY <1>1, <1>2, <2>2, <3>1, <3>4, <4>1, <4>3
      <4>4. CASE Parent(j) # c /\ Parent(j) # q
        BY <1>1, <2>2, <3>1, <3>4, <4>1, <4>4
      <4> QED BY <4>2, <4>3, <4>4
    <3> QED BY <3>3, <3>4
  <2>5. ASSUME NEW j \in 1 .. n - 1, Parent(j) = q, q # 0 PROVE g[j] <= g[Parent(q)]
    <3>1. h[q] <= h[Parent(q)] /\ q \in 1 .. n - 1
      BY <1>1, <2>5 DEF OrderedButAbove
    <3>2. g[Parent(q)] = h[Parent(q)]
      BY <1>1, <2>2, <3>1
    <3>3. CASE j = c
      BY <1>1, <2>2, <3>1, <3>2, <3>3
    <3>4. CASE j # c
      <4>1. h[j] <= h[q]
        BY <2>5, <3>4 DEF OrderedButAbove
      <4>2. g[j] = h[j]
        BY <1>1, <2>2, <2>5, <3>4
      <4> QED BY <1>1, <3>1, <3>2, <4>1, <4>2
    <3> QED BY <3>3, <3>4
  <2> QED BY <2>3, <2>4, <2>5 DEF OrderedButAbove, g
<1>3. CASE ~(h[q] < h[c])
  <2>1. g = h
    BY <1>3 DEF Lifted
  <2>2. \A j \in 1 .. n - 1 : h[j] <= h[Parent(j)]
    BY <1>1, <1>3 DEF OrderedButAbove
  <2>3. \A j \in 1 .. n - 1 : Parent(j) = q /\ q # 0 => h[j] <= h[Parent(q)]
    <3>1. TAKE j \in 1 .. n - 1
    <3>2. HAVE Parent(j) = q /\ q # 0
    <3>3. q \in 1 .. n - 1
      BY <1>1, <3>2
    <3> HIDE DEF q
    <3>4. h[j] <= h[q] /\ h[q] <= h[Parent(q)]
      BY <2>2, <3>2, <3>3
    <3> QED BY <1>1, <3>3, <3>4
  <2> HIDE DEF g, q
  <2>4. OrderedButAbove(h, q, n) /\ SameEntries(h, h, n)
    BY <2>2, <2>3 DEF OrderedButAbove, SameEntries
  <2> QED BY <2>1, <2>4 DEF g, q
<1> QED BY <1>2, <1>3

\* heapifyBottomUp puts an entry in its place.
LEMMA UpOrders ==
  ASSUME NEW n \in 1 .. K, NEW h \in Heaps, NEW c \in 0 .. n - 1, OrderedButAbove(h, c, n)
  PROVE  LET g == heapifyBottomUp(h, c)
         IN  g \in Heaps /\ HeapOrder(g, n) /\ SameEntries(g, h, n)
<1>0. PICK f : IsHeapifyBottomUp(f)
  BY UpIs
<1> DEFINE Right(i, g) == g \in Heaps /\ HeapOrder(g, n) /\ SameEntries(g, i, n)
           S == 0 .. n - 1
           Good == {d \in S : \A i \in Heaps : OrderedButAbove(i, d, n) => Right(i, f[d][i])}
           rank == [d \in S |-> d]
<1>1. \A d \in S : \A i \in Heaps : f[d][i] = Up(f, d, i)
  BY <1>0, Inside DEF IsHeapifyBottomUp
<1>2. ASSUME NEW d \in S, \A y \in S : rank[y] < rank[d] => y \in Good,
             NEW i \in Heaps, OrderedButAbove(i, d, n)
      PROVE  Right(i, f[d][i])
  <2>1. CASE d = 0
    <3>1. f[d][i] = i
      BY <1>1, <2>1 DEF Up
    <3>2. HeapOrder(i, n)
      BY <1>2, <2>1 DEF OrderedButAbove, HeapOrder
    <3>3. SameEntries(i, i, n)
      BY DEF SameEntries
    <3> QED BY <3>1, <3>2, <3>3
  <2>2. CASE d # 0
    <3> DEFINE i2 == Lifted(i, d)
               q == Parent(d)
    <3>1. d \in 1 .. n - 1 /\ q \in S /\ q < d /\ i2 \in Heaps
      BY <2>2, Inside, LiftedType
    <3>2. OrderedButAbove(i2, q, n) /\ SameEntries(i2, i, n)
      BY <1>2, <3>1, LiftedOrder
    <3>3. f[d][i] = f[q][i2]
      BY <1>1, <2>2 DEF Up
    <3> HIDE DEF i2, q
    <3>4. q \in Good
      BY <1>2, <3>1
    <3>5. Right(i2, f[q][i2])
      BY <3>1, <3>2, <3>4
    <3>6. SameEntries(f[q][i2], i, n)
      BY <3>2, <3>5 DEF SameEntries
    <3> QED BY <3>3, <3>5, <3>6
  <2> QED BY <2>1, <2>2
<1>3. Hereditary(S, Good, rank)
  BY <1>2 DEF Hereditary
<1>4. S \subseteq Good
  <2> HIDE DEF S, Good, rank
  <2> QED BY <1>3, ByRank
<1>5. heapifyBottomUp(h, c) = f[c][h]
  BY <1>0, Inside DEF IsHeapifyBottomUp
<1> QED BY <1>4, <1>5

\* One turn of heapifyTopDown moves the disorder down to the larger child.
LEMMA SunkOrder ==
  ASSUME NEW n \in 1 .. K, NEW h \in Heaps, NEW p \in 0 .. n - 1, OrderedButBelow(h, p, n),
         NEW c \in 1 .. n - 1, Parent(c) = p, h[p] < h[c],
         \A j \in 1 .. n - 1 : Parent(j) = p => h[j] <= h[c]
  PROVE  OrderedButBelow(Exchange(h, p, c), c, n) /\ SameEntries(Exchange(h, p, c), h, n)
<1> DEFINE g == Exchange(h, p, c)
<1>1. /\ c \in 0 .. n - 1 /\ p < c /\ p \in Slots /\ c \in Slots
      /\ \A j \in 1 .. n - 1 : Parent(j) \in 0 .. n - 1 /\ Parent(j) < j
      /\ \A j \in 0 .. n - 1 : h[j] \in Int /\ j \in Slots
  BY Inside
<1>2. \A j \in 0 .. n - 1 : g[j] = IF j = p THEN h[c] ELSE IF j = c THEN h[p] ELSE h[j]
  <2> HIDE DEF g
  <2>0. p \in Slots /\ c \in Slots
    BY <1>1
  <2>1. \A j \in Slots : g[j] = IF j = p THEN h[c] ELSE IF j = c THEN h[p] ELSE h[j]
    BY <2>0, Exchanged DEF g
  <2> QED BY <1>1, <2>1
<1>3. SameEntries(g, h, n)
  BY ExchangeKeeps
<1> HIDE DEF g
<1>4. ASSUME NEW j \in 1 .. n - 1, Parent(j) # c PROVE g[j] <= g[Parent(j)]
  <2>1. CASE Parent(j) = p
    <3>1. g[Parent(j)] = h[c]
      BY <1>1, <1>2, <2>1
    <3>2. h[j] <= h[c] /\ j # p /\ j \in 0 .. n - 1
      BY <1>1, <2>1
    <3>3. g[j] = h[p] \/ g[j] = h[j]
      BY <1>2, <3>2
    <3> QED BY <1>1, <3>1, <3>2, <3>3
  <2>2. CASE Parent(j) # p
    <3>1. h[j] <= h[Parent(j)] /\ j # c /\ j \in 0 .. n - 1 /\ Parent(j) \in 0 .. n - 1
      BY <1>1, <2>2 DEF OrderedButBelow
    <3>2. g[Parent(j)] = h[Parent(j)]
      BY <1>2, <1>4, <2>2, <3>1
    <3>3. CASE j = p
      <4>1. h[c] <= h[Parent(p)]
        BY <3>3 DEF OrderedButBelow
      <4>2. g[j] = h[c]
        BY <1>2, <3>1, <3>3
      <4> QED BY <3>2, <3>3, <4>1, <4>2
    <3>4. CASE j # p
      BY <1>2, <3>1, <3>2, <3>4
    <3> QED BY <3>3, <3>4
  <2> QED BY <2>1, <2>2
<1>5. ASSUME NEW j \in 1 .. n - 1, Parent(j) = c PROVE g[j] <= g[Parent(c)]
  <2>1. h[j] <= h[c] /\ j # p /\ j # c /\ j \in 0 .. n - 1
    BY <1>1, <1>5 DEF OrderedButBelow
  <2>2. g[j] = h[j] /\ g[p] = h[c]
    BY <1>2, <2>1
  <2> QED BY <2>1, <2>2
<1> QED BY <1>3, <1>4, <1>5 DEF OrderedButBelow, g

\* Where no child is larger there is no disorder.
LEMMA NothingBelow ==
  ASSUME NEW n \in 1 .. K, NEW h \in Heaps, NEW p \in 0 .. n - 1, OrderedButBelow(h, p, n),
         \A j \in 1 .. n - 1 : Parent(j) = p => h[j] <= h[p]
  PROVE  HeapOrder(h, n)
BY DEF OrderedButBelow, HeapOrder

\* heapifyTopDown puts an entry in its place.
LEMMA DownOrders ==
  ASSUME NEW n \in 1 .. K, NEW h \in Heaps, NEW p \in 0 .. n - 1, OrderedButBelow(h, p, n)
  PROVE  LET g == heapifyTopDown(h, p, n)
         IN  g \in Heaps /\ HeapOrder(g, n) /\ SameEntries(g, h, n)
<1>0. PICK f : IsHeapifyTopDown(f, n)
  <2>1. n \in 0 .. K
    BY AnswerAssumption
  <2> QED BY <2>1, DownIs
<1> DEFINE Right(i, g) == g \in Heaps /\ HeapOrder(g, n) /\ SameEntries(g, i, n)
           S == 0 .. n - 1
           Good == {d \in S : \A i \in Heaps : OrderedButBelow(i, d, n) => Right(i, f[d][i])}
           rank == [d \in S |-> n - 1 - d]
<1>1. \A d \in S : \A i \in Heaps : f[d][i] = Down(f, n, d, i)
  BY <1>0, Inside DEF IsHeapifyTopDown
<1>2. ASSUME NEW d \in S, \A y \in S : rank[y] < rank[d] => y \in Good,
             NEW i \in Heaps, OrderedButBelow(i, d, n)
      PROVE  Right(i, f[d][i])
  <2> DEFINE left == 2 * d + 1
             right == 2 * d + 2
             next == LargerChild(i, left, right)
  <2>1. /\ left + 1 = right /\ n \in Nat /\ d \in Nat /\ n <= K
        /\ \A j \in 1 .. n - 1 : Parent(j) = d => j = left \/ j = right
        /\ Parent(left) = d /\ Parent(right) = d
        /\ \A j \in 1 .. n - 1 : i[j] \in Int
        /\ i[d] \in Int
    <3>1. n \in Nat /\ d \in Nat /\ n <= K /\ left + 1 = right
      BY AnswerAssumption
    <3>2. \A j \in 1 .. n - 1 : Parent(j) = d => j = left \/ j = right
      BY Parents
    <3>3. Parent(left) = d /\ Parent(right) = d
      BY <3>1, Children
    <3>4. \A j \in 0 .. n - 1 : i[j] \in Int
      BY Inside
    <3> HIDE DEF left, right
    <3> QED BY <3>1, <3>2, <3>3, <3>4
  <2>2. ASSUME NEW c \in 1 .. n - 1, Parent(c) = d, i[d] < i[c],
               \A j \in 1 .. n - 1 : Parent(j) = d => i[j] <= i[c]
        PROVE  /\ Exchange(i, d, c) \in Heaps /\ OrderedButBelow(Exchange(i, d, c), c, n)
               /\ SameEntries(Exchange(i, d, c), i, n) /\ rank[c] < rank[d] /\ c \in S
    <3>1. c \in S /\ c \in Slots /\ d \in Slots /\ d < c
      BY <2>2, Inside
    <3>2. Exchange(i, d, c) \in Heaps
      BY <3>1, Exchanged
    <3>3. OrderedButBelow(Exchange(i, d, c), c, n) /\ SameEntries(Exchange(i, d, c), i, n)
      BY <1>2, <2>2, SunkOrder
    <3>4. rank[c] < rank[d]
      BY <3>1
    <3> QED BY <3>1, <3>2, <3>3, <3>4
  <2>3. ASSUME \A j \in 1 .. n - 1 : Parent(j) = d => i[j] <= i[d] PROVE Right(i, i)
    <3>1. HeapOrder(i, n)
      BY <1>2, <2>3, NothingBelow
    <3> QED BY <3>1 DEF SameEntries
  <2>4. f[d][i] = Down(f, n, d, i)
    BY <1>1
  <2>5. CASE right < n
    <3>1. /\ left \in 1 .. n - 1 /\ right \in 1 .. n - 1 /\ next \in {left, right}
          /\ i[left] <= i[next] /\ i[right] <= i[next] /\ next \in 1 .. n - 1 /\ Parent(next) = d
      BY <2>1, <2>5 DEF LargerChild
    <3>2. CASE i[d] < i[next]
      <4> DEFINE e == Exchange(i, d, next)
      <4>1. f[d][i] = f[next][e]
        BY <2>1, <2>4, <2>5, <3>2 DEF Down
      <4> HIDE DEF next, Right, Good, rank, left, right
      <4>2. \A j \in 1 .. n - 1 : Parent(j) = d => i[j] <= i[next]
        BY <2>1, <3>1
      <4>3. /\ e \in Heaps /\ OrderedButBelow(e, next, n) /\ SameEntries(e, i, n)
            /\ rank[next] < rank[d] /\ next \in S
        BY <2>2, <3>1, <3>2, <4>2
      <4> HIDE DEF e
      <4>4. Right(e, f[next][e])
        <5>1. next \in Good
          BY <1>2, <4>3
        <5> QED BY <4>3, <5>1 DEF Good
      <4> QED BY <4>1, <4>3, <4>4 DEF Right, SameEntries
    <3>3. CASE ~(i[d] < i[next])
      <4>1. f[d][i] = i
        BY <2>1, <2>4, <2>5, <3>3 DEF Down
      <4> HIDE DEF next, Right, Good, rank, left, right
      <4>2. \A j \in 1 .. n - 1 : Parent(j) = d => i[j] <= i[d]
        BY <2>1, <3>1, <3>3
      <4> QED BY <2>3, <4>1, <4>2
    <3> QED BY <3>2, <3>3
  <2>6. CASE ~(right < n) /\ left < n /\ i[d] < i[left]
    <3> DEFINE e == Exchange(i, d, left)
    <3>1. f[d][i] = e
      BY <2>1, <2>4, <2>6 DEF Down
    <3>2. left \in 1 .. n - 1 /\ \A j \in 1 .. n - 1 : Parent(j) = d => j = left
      BY <2>1, <2>6
    <3>3. e \in Heaps /\ OrderedButBelow(e, left, n) /\ SameEntries(e, i, n)
      <4> HIDE DEF left, right, Right, Good, rank
      <4> QED BY <2>1, <2>2, <2>6, <3>2
    <3>4. \A j \in 1 .. n - 1 : Parent(j) # left
      <4>1. \A j \in Nat \ {0} : Parent(j) = left => j >= 2 * left + 1
        BY Parents
      <4>2. 2 * left + 1 >= n
        BY <2>1, <2>6
      <4> QED BY <2>1, <4>1, <4>2
    <3> HIDE DEF e
    <3>5. HeapOrder(e, n)
      BY <3>3, <3>4 DEF OrderedButBelow, HeapOrder
    <3> QED BY <3>1, <3>3, <3>5
  <2>7. CASE ~(right < n) /\ ~(left < n /\ i[d] < i[left])
    <3>1. f[d][i] = i
      BY <2>1, <2>4, <2>7 DEF Down
    <3>2. \A j \in 1 .. n - 1 : Parent(j) = d => i[j] <= i[d]
      BY <2>1, <2>7
    <3> QED BY <2>3, <3>1, <3>2
  <2> QED BY <2>5, <2>6, <2>7
<1>3. Hereditary(S, Good, rank)
  <2>1. rank \in [S -> Nat]
    OBVIOUS
  <2> QED BY <1>2, <2>1 DEF Hereditary
<1>4. S \subseteq Good
  <2> HIDE DEF S, Good, rank
  <2> QED BY <1>3, ByRank
<1>5. heapifyTopDown(h, p, n) = f[p][h]
  BY <1>0, Inside DEF IsHeapifyTopDown
<1> QED BY <1>4, <1>5

-----------------------------------------------------------------------------
(* Bags *)

\* The bag of the first n entries of a heap.
Entries(h, n) == [d \in {h[j] : j \in 0 .. n - 1} |-> Cardinality(Places(h, n, d))]

LEMMA HeldEntries ==
  Held = Entries(distances, size) /\ Held' = Entries(distances', size')
BY DEF Held, Entries, Places

\* A value is an entry if it has a place.
LEMMA Present ==
  ASSUME NEW n \in Nat, NEW h, NEW d
  PROVE  /\ d \in DOMAIN Entries(h, n) <=> Cardinality(Places(h, n, d)) > 0
         /\ Cardinality(Places(h, n, d)) \in Nat
         /\ d \in DOMAIN Entries(h, n) => Entries(h, n)[d] = Cardinality(Places(h, n, d))
<1>1. Places(h, n, d) # {} <=> d \in {h[j] : j \in 0 .. n - 1}
  BY DEF Places
<1>2. IsFiniteSet(Places(h, n, d)) /\ Cardinality(Places(h, n, d)) \in Nat
  BY PlacesFinite
<1>3. Cardinality(Places(h, n, d)) = 0 <=> Places(h, n, d) = {}
  BY <1>2, FS_EmptySet
<1> QED BY <1>1, <1>2, <1>3 DEF Entries

\* Bags of entries are equal if every value has as many places in both.
LEMMA EntriesSame ==
  ASSUME NEW n \in Nat, NEW m \in Nat, NEW g, NEW h,
         \A d : Cardinality(Places(g, m, d)) = Cardinality(Places(h, n, d))
  PROVE  Entries(g, m) = Entries(h, n)
<1>1. DOMAIN Entries(g, m) = DOMAIN Entries(h, n)
  BY Present
<1>2. \A d \in DOMAIN Entries(g, m) : Entries(g, m)[d] = Entries(h, n)[d]
  BY <1>1, Present
<1>3. /\ Entries(g, m) = [d \in DOMAIN Entries(g, m) |-> Entries(g, m)[d]]
      /\ Entries(h, n) = [d \in DOMAIN Entries(h, n) |-> Entries(h, n)[d]]
  BY DEF Entries
<1> QED BY <1>1, <1>2, <1>3

\* Cardinalities of bags are sums.
LEMMA BagSize == ASSUME NEW B PROVE BagCardinality(B) = SumOver(B, DOMAIN B)
BY SumIsFold DEF BagCardinality, Summing, Choice

\* There are as many entries as places.
LEMMA EntriesCount ==
  ASSUME NEW n \in Nat, NEW h PROVE BagCardinality(Entries(h, n)) = n
<1> DEFINE B == Entries(h, n)
           D == DOMAIN B
           In(T) == {j \in 0 .. n - 1 : h[j] \in T}
           Ill == {T \in SUBSET D : SumOver(B, T) # Cardinality(In(T))}
<1>1. IsFiniteSet(0 .. n - 1) /\ Cardinality(0 .. n - 1) = n
  BY FS_Interval
<1>2. IsFiniteSet(D)
  <2>1. D = {h[j] : j \in 0 .. n - 1}
    BY DEF Entries
  <2> DEFINE f == [j \in 0 .. n - 1 |-> h[j]]
  <2>2. f \in Surjection(0 .. n - 1, D)
    BY <2>1 DEF Surjection
  <2> QED BY <1>1, <2>2, FS_Surjection
<1>3. \A d \in D : B[d] = Cardinality(Places(h, n, d)) /\ B[d] \in Int
  BY Present
<1>4. \A T : IsFiniteSet(In(T)) /\ Cardinality(In(T)) \in Nat
  <2>1. TAKE T
  <2>2. In(T) \in SUBSET (0 .. n - 1)
    OBVIOUS
  <2> HIDE DEF In
  <2> QED BY <1>1, <2>2, FS_Subset, FS_CardinalityType
<1>5. \A T \in SUBSET D : IsFiniteSet(T)
  BY <1>2, FS_Subset
<1> HIDE DEF B, D
<1>6. ASSUME Ill # {} PROVE FALSE
  <2>1. PICK T \in Ill : \A x \in T : T \ {x} \notin Ill
    <3>1. \A T \in Ill : IsFiniteSet(T)
      BY <1>5
    <3> HIDE DEF Ill
    <3> QED BY <1>6, <3>1, SmallestSet
  <2>2. T \in SUBSET D /\ SumOver(B, T) # Cardinality(In(T))
    BY <2>1
  <2>3. CASE T = {}
    <3>1. SumOver(B, T) = 0 /\ In(T) = {}
      BY <2>3, SumOfNothing
    <3> QED BY <2>2, <3>1, FS_EmptySet
  <2>4. CASE T # {}
    <3>1. PICK x \in T : TRUE
      BY <2>4
    <3> DEFINE U == T \ {x}
    <3>2. U \in SUBSET D /\ x \in D /\ IsFiniteSet(T)
      BY <1>5, <2>2, <3>1
    <3>3. SumOver(B, U) = Cardinality(In(U))
      BY <2>1, <3>1, <3>2
    <3>4. SumOver(B, T) = B[x] + SumOver(B, U)
      BY <1>3, <2>2, <3>1, <3>2, SumOfElement
    <3>5. In(T) = In(U) \cup Places(h, n, x) /\ In(U) \cap Places(h, n, x) = {}
      BY <3>1 DEF Places
    <3>6. IsFiniteSet(Places(h, n, x))
      BY PlacesFinite
    <3> DEFINE A == In(U)
               P == Places(h, n, x)
    <3>7. IsFiniteSet(A) /\ IsFiniteSet(P) /\ A \cap P = {} /\ In(T) = A \cup P
      BY <1>4, <3>5, <3>6
    <3>8. Cardinality(A \cup P) = Cardinality(A) + Cardinality(P)
      <4> HIDE DEF A, P
      <4>1. Cardinality(A \cap P) = 0
        BY <3>7, FS_EmptySet
      <4>2. Cardinality(A) \in Nat /\ Cardinality(P) \in Nat
        BY <3>7, FS_CardinalityType
      <4>3. Cardinality(A \cup P) = Cardinality(A) + Cardinality(P) - Cardinality(A \cap P)
        BY <3>7, FS_Union
      <4> QED BY <4>1, <4>2, <4>3
    <3>9. B[x] = Cardinality(P) /\ Cardinality(A) \in Nat /\ Cardinality(P) \in Nat
      BY <1>3, <1>4, <3>2, <3>7, FS_CardinalityType
    <3> HIDE DEF A, P, U, In, Ill
    <3> QED BY <2>2, <3>3, <3>4, <3>7, <3>8, <3>9 DEF A, P
  <2> QED BY <2>3, <2>4
<1>7. SumOver(B, D) = Cardinality(In(D))
  BY <1>6
<1>8. In(D) = 0 .. n - 1
  BY DEF D, B, Entries
<1>9. BagCardinality(B) = SumOver(B, D)
  BY BagSize DEF D
<1> QED BY <1>1, <1>7, <1>8, <1>9 DEF B

\* An entry more.
LEMMA EntryAdded ==
  ASSUME NEW n \in Nat, NEW g, NEW h, NEW d, g[n] = d, \A j \in 0 .. n - 1 : g[j] = h[j]
  PROVE  Entries(g, n + 1) = Entries(h, n) (+) SetToBag({d})
<1> DEFINE one == SetToBag({d})
           B == Entries(h, n)
           G == Entries(g, n + 1)
<1>1. ASSUME NEW e
      PROVE  /\ Cardinality(Places(g, n + 1, e)) =
                  Cardinality(Places(h, n, e)) + IF e = d THEN 1 ELSE 0
             /\ Cardinality(Places(h, n, e)) \in Nat
  <2>1. Places(g, n + 1, e) = IF e = d THEN Places(h, n, e) \cup {n} ELSE Places(h, n, e)
    BY DEF Places
  <2>2. n \notin Places(h, n, e)
    BY DEF Places
  <2>3. IsFiniteSet(Places(h, n, e)) /\ Cardinality(Places(h, n, e)) \in Nat
    BY PlacesFinite
  <2>4. Cardinality(Places(h, n, e) \cup {n}) = Cardinality(Places(h, n, e)) + 1
    BY <2>2, <2>3, FS_AddElement
  <2> QED BY <2>1, <2>3, <2>4
<1>2. \A e : e \in DOMAIN B <=> Cardinality(Places(h, n, e)) > 0
  BY Present
<1>3. \A e : e \in DOMAIN G <=> Cardinality(Places(g, n + 1, e)) > 0
  BY Present
<1>4. /\ \A e \in DOMAIN B : B[e] = Cardinality(Places(h, n, e))
      /\ \A e \in DOMAIN G : G[e] = Cardinality(Places(g, n + 1, e))
  BY Present
<1>5. DOMAIN one = {d} /\ one[d] = 1
  BY DEF SetToBag
<1>6. G = [e \in DOMAIN G |-> G[e]]
  BY DEF Entries
<1>7. B (+) one = [e \in (DOMAIN B) \cup (DOMAIN one) |->
         (IF e \in DOMAIN B THEN B[e] ELSE 0) + (IF e \in DOMAIN one THEN one[e] ELSE 0)]
  BY DEF (+)
<1> HIDE DEF B, G, one
<1>8. DOMAIN G = (DOMAIN B) \cup (DOMAIN one)
  <2>1. \A e : e \in DOMAIN G <=> e \in DOMAIN B \/ e = d
    BY <1>1, <1>2, <1>3
  <2> QED BY <1>5, <2>1
<1>9. \A e \in DOMAIN G : G[e] = (IF e \in DOMAIN B THEN B[e] ELSE 0)
                                 + (IF e \in DOMAIN one THEN one[e] ELSE 0)
  <2>1. TAKE e \in DOMAIN G
  <2>2. G[e] = Cardinality(Places(h, n, e)) + IF e = d THEN 1 ELSE 0
    BY <1>1, <1>4
  <2>3. (IF e \in DOMAIN B THEN B[e] ELSE 0) = Cardinality(Places(h, n, e))
    BY <1>1, <1>2, <1>4
  <2>4. (IF e \in DOMAIN one THEN one[e] ELSE 0) = IF e = d THEN 1 ELSE 0
    BY <1>5
  <2> QED BY <2>2, <2>3, <2>4
<1>10. G = B (+) one
  BY <1>6, <1>7, <1>8, <1>9
<1> QED BY <1>10 DEF B, G, one

OneMore(g, h, n, w) ==
  \A e : Cardinality(Places(g, n + 1, e)) =
           Cardinality(Places(h, n, e)) + IF e = w THEN 1 ELSE 0

\* An entry less: w has a place more in g than in h.
LEMMA EntryRemoved ==
  ASSUME NEW n \in Nat, NEW g, NEW h, NEW w, OneMore(g, h, n, w)
  PROVE  Entries(h, n) = Entries(g, n + 1) (-) SetToBag({w})
<1> DEFINE one == SetToBag({w})
           B == Entries(h, n)
           G == Entries(g, n + 1)
           L == [e \in DOMAIN G |-> IF e \in DOMAIN one THEN G[e] - one[e] ELSE G[e]]
<1>1. \A e : /\ e \in DOMAIN B <=> Cardinality(Places(h, n, e)) > 0
             /\ Cardinality(Places(h, n, e)) \in Nat
             /\ e \in DOMAIN B => B[e] = Cardinality(Places(h, n, e))
  BY Present
<1>2. \A e : /\ e \in DOMAIN G <=> Cardinality(Places(g, n + 1, e)) > 0
             /\ e \in DOMAIN G => G[e] = Cardinality(Places(g, n + 1, e))
  BY Present
<1>3. DOMAIN one = {w} /\ one[w] = 1
  BY DEF SetToBag
<1>4. B = [e \in DOMAIN B |-> B[e]]
  BY DEF Entries
<1>5. G (-) one = [e \in {d \in DOMAIN L : L[d] > 0} |-> L[e]]
  BY DEF (-)
<1> HIDE DEF B, G, one
<1>6. \A e \in DOMAIN G : L[e] = Cardinality(Places(h, n, e))
  <2>1. TAKE e \in DOMAIN G
  <2>2. G[e] = Cardinality(Places(h, n, e)) + IF e = w THEN 1 ELSE 0
    BY <1>2 DEF OneMore
  <2>3. Cardinality(Places(h, n, e)) \in Nat
    BY <1>1
  <2>4. CASE e = w
    BY <1>3, <2>2, <2>3, <2>4
  <2>5. CASE e # w
    BY <1>3, <2>2, <2>3, <2>5
  <2> QED BY <2>4, <2>5
<1>7. DOMAIN L = DOMAIN G
  OBVIOUS
<1> HIDE DEF L
<1>8. {d \in DOMAIN L : L[d] > 0} = DOMAIN B
  <2>1. \A e : e \in DOMAIN B => e \in DOMAIN G
    BY <1>1, <1>2 DEF OneMore
  <2>2. \A e : e \in DOMAIN B <=> e \in DOMAIN G /\ L[e] > 0
    BY <1>1, <1>6, <2>1
  <2> QED BY <1>7, <2>2
<1>9. \A e \in DOMAIN B : B[e] = L[e]
  BY <1>1, <1>6, <1>7, <1>8
<1>10. B = G (-) one
  BY <1>4, <1>5, <1>8, <1>9
<1> QED BY <1>10 DEF B, G, one

\* The top is the worst entry.
LEMMA WorstIs ==
  ASSUME NEW bag, NEW w \in DOMAIN bag, \A e \in DOMAIN bag : e \in Int /\ e <= w
  PROVE  Abstract!Worst(bag) = w
<1> DEFINE W == CHOOSE d \in DOMAIN bag : \A e \in DOMAIN bag : e <= d
<1>1. W \in DOMAIN bag /\ \A e \in DOMAIN bag : e <= W
  OBVIOUS
<1>2. Abstract!Worst(bag) = W
  BY DEF Abstract!Worst, Abstract!BagToSet
<1> HIDE DEF W
<1>3. W = w
  BY <1>1
<1> QED BY <1>2, <1>3

LEMMA TopIsWorst ==
  ASSUME NEW n \in 1 .. K, NEW h \in Heaps, HeapOrder(h, n)
  PROVE  Abstract!Worst(Entries(h, n)) = h[0]
<1>1. DOMAIN Entries(h, n) = {h[j] : j \in 0 .. n - 1}
  BY DEF Entries
<1>2. \A j \in 0 .. n - 1 : h[j] \in Int /\ h[j] <= h[0]
  BY Inside, TopIsLargest
<1>3. h[0] \in DOMAIN Entries(h, n) /\ \A e \in DOMAIN Entries(h, n) : e \in Int /\ e <= h[0]
  BY <1>1, <1>2
<1> QED BY <1>3, WorstIs

\* The operators on bags are the same in the abstract specification.
LEMMA SameBags ==
  /\ \A A, B : Abstract!(+)(A, B) = A (+) B
  /\ \A A, B : Abstract!(-)(A, B) = A (-) B
  /\ \A A : Abstract!BagCardinality(A) = BagCardinality(A)
  /\ \A A : Abstract!SetToBag(A) = SetToBag(A)
  /\ Abstract!EmptyBag = EmptyBag
<1>1. ASSUME NEW A, NEW B PROVE Abstract!(+)(A, B) = A (+) B
  BY DEF (+), Abstract!(+)
<1>2. ASSUME NEW A, NEW B PROVE Abstract!(-)(A, B) = A (-) B
  BY DEF (-), Abstract!(-)
<1>3. ASSUME NEW A PROVE Abstract!BagCardinality(A) = BagCardinality(A)
  BY DEF BagCardinality, Abstract!BagCardinality
<1>4. ASSUME NEW A PROVE Abstract!SetToBag(A) = SetToBag(A)
  BY DEF SetToBag, Abstract!SetToBag
<1>5. Abstract!EmptyBag = EmptyBag
  BY <1>4 DEF EmptyBag, Abstract!EmptyBag
<1> QED BY <1>1, <1>2, <1>3, <1>4, <1>5

\* An entry put behind the others, and up to its place.
LEMMA Adding ==
  ASSUME NEW n \in 0 .. K - 1, NEW h \in Heaps, HeapOrder(h, n), NEW d \in Distances
  PROVE  LET g == heapifyBottomUp([h EXCEPT ![n] = d], n)
         IN  /\ g \in Heaps /\ HeapOrder(g, n + 1)
             /\ Entries(g, n + 1) = Entries(h, n) (+) SetToBag({d})
<1> DEFINE i == [h EXCEPT ![n] = d]
           g == heapifyBottomUp(i, n)
           m == n + 1
<1>1. n \in Slots /\ i \in Heaps /\ m \in 1 .. K /\ n \in 0 .. m - 1 /\ n \in Nat /\ m - 1 = n
  BY AnswerAssumption DEF Slots, Heaps
<1>2. i[n] = d /\ \A j \in 0 .. n - 1 : i[j] = h[j]
  BY <1>1 DEF Slots, Heaps
<1> HIDE DEF i
<1>3. OrderedButAbove(i, n, m)
  <2>1. ASSUME NEW j \in 1 .. m - 1
        PROVE  /\ j # n => i[j] <= i[Parent(j)]
               /\ Parent(j) # n
    <3>1. Parent(j) < j /\ j \in Nat /\ j <= n /\ Parent(j) \in Nat
      BY <1>1, Parents
    <3>2. j # n => j \in 1 .. n - 1 /\ Parent(j) \in 0 .. n - 1
      BY <1>1, <3>1
    <3>3. j # n => h[j] <= h[Parent(j)]
      BY <3>2 DEF HeapOrder
    <3>4. Parent(j) # n
      BY <1>1, <3>1
    <3> QED BY <1>2, <3>2, <3>3, <3>4
  <2> HIDE DEF m
  <2> QED BY <2>1 DEF OrderedButAbove
<1>4. g \in Heaps /\ HeapOrder(g, m) /\ SameEntries(g, i, m)
  <2> HIDE DEF m
  <2> QED BY <1>1, <1>3, UpOrders
<1>5. Entries(g, m) = Entries(i, m)
  <2> HIDE DEF g
  <2>1. m \in Nat
    BY <1>1
  <2> HIDE DEF m
  <2> QED BY <1>4, <2>1, EntriesSame DEF SameEntries
<1>6. Entries(i, m) = Entries(h, n) (+) SetToBag({d})
  BY <1>1, <1>2, EntryAdded
<1> QED BY <1>4, <1>5, <1>6 DEF i

\* An entry put in place of the top, and down to its place.
LEMMA Replacing ==
  ASSUME NEW h \in Heaps, HeapOrder(h, K), NEW d \in Distances, d < h[0]
  PROVE  LET g    == heapifyTopDown([h EXCEPT ![0] = d], 0, K)
             more == Entries(h, K) (+) SetToBag({d})
         IN  /\ g \in Heaps /\ HeapOrder(g, K)
             /\ BagCardinality(more) = K + 1
             /\ Abstract!Worst(more) = h[0]
             /\ Entries(g, K) = more (-) SetToBag({h[0]})
<1> DEFINE i == [h EXCEPT ![0] = d]
           g == heapifyTopDown(i, 0, K)
           all == [j \in 0 .. K |-> IF j = K THEN d ELSE h[j]]
           more == Entries(h, K) (+) SetToBag({d})
           w == h[0]
<1>0. K \in Nat /\ K \in 1 .. K /\ 0 \in Slots /\ 0 \in 0 .. K - 1 /\ Slots = 0 .. K - 1
  BY AnswerAssumption DEF Slots
<1>1. /\ i \in Heaps /\ i[0] = d /\ \A j \in Slots : j # 0 => i[j] = h[j]
      /\ all[K] = d /\ \A j \in 0 .. K - 1 : all[j] = h[j]
      /\ d \in Int /\ d # w
  BY <1>0, HeapType, AnswerAssumption DEF Heaps
<1> HIDE DEF i, all
<1>2. OrderedButBelow(i, 0, K)
  <2>1. ASSUME NEW j \in 1 .. K - 1, Parent(j) # 0 PROVE i[j] <= i[Parent(j)]
    <3>1. h[j] <= h[Parent(j)]
      BY DEF HeapOrder
    <3>2. j \in Slots /\ j # 0 /\ Parent(j) \in Slots
      BY <1>0, Inside
    <3> QED BY <1>1, <2>1, <3>1, <3>2
  <2> QED BY <2>1 DEF OrderedButBelow
<1>3. g \in Heaps /\ HeapOrder(g, K) /\ SameEntries(g, i, K)
  BY <1>0, <1>1, <1>2, DownOrders
<1>4. more = Entries(all, K + 1)
  BY <1>0, <1>1, EntryAdded
<1>5. BagCardinality(more) = K + 1
  <2>1. K + 1 \in Nat
    BY <1>0
  <2> HIDE DEF more
  <2> QED BY <1>4, <2>1, EntriesCount
<1>6. Abstract!Worst(more) = w
  <2>1. \A j \in 0 .. K - 1 : h[j] \in Int /\ h[j] <= w
    BY <1>0, Inside, TopIsLargest
  <2>2. DOMAIN more = {all[j] : j \in 0 .. K}
    <3> DEFINE m == K + 1
    <3> HIDE DEF m
    <3>1. DOMAIN Entries(all, m) = {all[j] : j \in 0 .. m - 1}
      BY DEF Entries
    <3>2. m - 1 = K
      BY <1>0 DEF m
    <3> HIDE DEF more
    <3> QED BY <1>4, <3>1, <3>2 DEF m
  <2>3. w = all[0] /\ 0 \in 0 .. K
    BY <1>0, <1>1
  <2>4. \A j \in 0 .. K : all[j] \in Int /\ all[j] <= w
    <3>1. TAKE j \in 0 .. K
    <3>2. CASE j = K
      BY <1>0, <1>1, <2>1, <3>2
    <3>3. CASE j # K
      <4>1. j \in 0 .. K - 1
        BY <1>0, <3>3
      <4> QED BY <1>1, <2>1, <4>1
    <3> QED BY <3>2, <3>3
  <2> HIDE DEF more, w
  <2>5. w \in DOMAIN more /\ \A e \in DOMAIN more : e \in Int /\ e <= w
    BY <2>2, <2>3, <2>4
  <2> QED BY <2>5, WorstIs
<1>7. ASSUME NEW e
      PROVE  Cardinality(Places(all, K + 1, e)) =
               Cardinality(Places(i, K, e)) + IF e = w THEN 1 ELSE 0
  <2> DEFINE A == Places(all, K + 1, e)
             P == Places(i, K, e)
             R == Places(h, K, e) \ {0}
  <2>1. IsFiniteSet(R) /\ Cardinality(R) \in Nat /\ 0 \notin R /\ K \notin R
    <3>1. IsFiniteSet(Places(h, K, e))
      BY <1>0, PlacesFinite
    <3>2. IsFiniteSet(R)
      BY <3>1, FS_RemoveElement
    <3>3. K \notin R
      BY <1>0 DEF Places
    <3> QED BY <3>2, <3>3, FS_CardinalityType
  <2>2. Cardinality(R \cup {0}) = Cardinality(R) + 1 /\ Cardinality(R \cup {K}) = Cardinality(R) + 1
    <3> HIDE DEF R
    <3> QED BY <2>1, FS_AddElement
  <2>3. CASE e = w
    <3>1. A = R \cup {0}
      BY <1>0, <1>1, <2>3 DEF Places
    <3>2. P = R
      BY <1>0, <1>1, <2>3 DEF Places
    <3> HIDE DEF A, P, R
    <3> QED BY <2>1, <2>2, <2>3, <3>1, <3>2 DEF A, P
  <2>4. CASE e = d
    <3>1. A = R \cup {K}
      BY <1>0, <1>1, <2>4 DEF Places
    <3>2. P = R \cup {0}
      BY <1>0, <1>1, <2>4 DEF Places
    <3>3. e # w
      BY <1>1, <2>4
    <3> HIDE DEF A, P, R, w
    <3>4. Cardinality(A) = Cardinality(R) + 1 /\ Cardinality(P) = Cardinality(R) + 1
      BY <2>2, <3>1, <3>2
    <3> QED BY <2>1, <3>3, <3>4 DEF A, P
  <2>5. CASE e # w /\ e # d
    <3>1. A = R
      BY <1>0, <1>1, <2>5 DEF Places
    <3>2. P = R
      BY <1>0, <1>1, <2>5 DEF Places
    <3> HIDE DEF A, P, R
    <3> QED BY <2>1, <2>5, <3>1, <3>2 DEF A, P
  <2> QED BY <2>3, <2>4, <2>5
<1>8. Entries(i, K) = Entries(all, K + 1) (-) SetToBag({w})
  <2>1. OneMore(all, i, K, w)
    BY <1>7 DEF OneMore
  <2> HIDE DEF w
  <2> QED BY <1>0, <2>1, EntryRemoved, Zenon
<1>9. Entries(g, K) = Entries(i, K)
  <2> HIDE DEF g
  <2> QED BY <1>0, <1>3, EntriesSame DEF SameEntries
<1> HIDE DEF more
<1>10. Entries(g, K) = more (-) SetToBag({w})
  BY <1>4, <1>8, <1>9
<1> QED BY <1>3, <1>5, <1>6, <1>10 DEF more, i

-----------------------------------------------------------------------------
(* Theorems *)

\* The inductive invariant: entries in use are in order, and an answer without
\* any has no bound.
AnswerInv ==
  /\ distances \in Heaps /\ size \in 0 .. K
  /\ HeapOrder(distances, size)
  /\ size = 0 => distances[0] = VALUE_MAX

LEMMA EmptyAnswer == \A h : Entries(h, 0) = EmptyBag /\ HeapOrder(h, 0)
<1>1. 0 .. 0 - 1 = {} /\ 1 .. 0 - 1 = {}
  OBVIOUS
<1> QED BY <1>1 DEF Entries, HeapOrder, EmptyBag, SetToBag

LEMMA Starts == InitializeAnswer => AnswerInv /\ Abstract!Init
<1> SUFFICES ASSUME InitializeAnswer PROVE AnswerInv /\ Abstract!Init
  OBVIOUS
<1>1. size = 0 /\ distances \in Heaps /\ distances[0] = VALUE_MAX
  BY AnswerAssumption DEF InitializeAnswer, Heaps, Slots
<1>2. Held = Abstract!EmptyBag
  BY <1>1, HeldEntries, EmptyAnswer, SameBags
<1> QED BY <1>1, <1>2, EmptyAnswer, AnswerAssumption DEF AnswerInv, Abstract!Init, getBSF

LEMMA Cleans == AnswerInv /\ CleanAnswer => AnswerInv' /\ Abstract!Clean
<1> SUFFICES ASSUME AnswerInv, CleanAnswer PROVE AnswerInv' /\ Abstract!Clean
  OBVIOUS
<1>1. size' = 0 /\ distances' \in Heaps /\ distances'[0] = VALUE_MAX
  BY AnswerAssumption DEF AnswerInv, CleanAnswer, Heaps, Slots
<1>2. Held' = Abstract!EmptyBag
  BY <1>1, HeldEntries, EmptyAnswer, SameBags
<1> QED BY <1>1, <1>2, EmptyAnswer, AnswerAssumption DEF AnswerInv, Abstract!Clean, getBSF

\* Every call of checkNUpdateBSF offers its distance, or changes nothing.
LEMMA Offers ==
  ASSUME AnswerInv, NEW d \in Distances, CheckNUpdateBSF(d)
  PROVE  AnswerInv' /\ (Abstract!Offer(d) \/ UNCHANGED answer)
<1> DEFINE more == Entries(distances, size) (+) SetToBag({d})
<1>0. K \in Nat \ {0} /\ distances \in Heaps /\ size \in 0 .. K /\ HeapOrder(distances, size)
  BY AnswerAssumption DEF AnswerInv
<1>1. ASSUME size' \in 1 .. K, distances' \in Heaps, HeapOrder(distances', size'),
             Held' = IF BagCardinality(more) > K
                     THEN more (-) SetToBag({Abstract!Worst(more)}) ELSE more
      PROVE  AnswerInv' /\ Abstract!Offer(d)
  <2>1. AnswerInv'
    BY <1>1 DEF AnswerInv
  <2>2. more = Abstract!(+)(Held, Abstract!SetToBag({d}))
    BY HeldEntries, SameBags
  <2>3. Held' = Entries(distances', size')
    BY HeldEntries
  <2>4. getBSF' = Abstract!Worst(Held')
    BY <1>1, <2>3, TopIsWorst DEF getBSF
  <2> HIDE DEF more
  <2> QED BY <1>1, <2>1, <2>2, <2>4, SameBags DEF Abstract!Offer
<1>2. CASE size < K /\ size' = size + 1
           /\ distances' = heapifyBottomUp([distances EXCEPT ![size] = d], size)
  <2>1. size \in 0 .. K - 1 /\ size' \in 1 .. K /\ size + 1 \in Nat
    BY <1>0, <1>2
  <2>2. /\ distances' \in Heaps /\ HeapOrder(distances', size')
        /\ Entries(distances', size') = more
    BY <1>0, <1>2, <2>1, Adding
  <2>3. BagCardinality(more) = size + 1
    <3> HIDE DEF more
    <3> QED BY <1>2, <2>1, <2>2, EntriesCount
  <2>4. ~(BagCardinality(more) > K)
    BY <1>0, <2>1, <2>3
  <2>5. Held' = more
    BY <2>2, HeldEntries
  <2> HIDE DEF more
  <2> QED BY <1>1, <2>1, <2>2, <2>4, <2>5
<1>3. CASE size = K /\ d < distances[0] /\ size' = size
           /\ distances' = heapifyTopDown([distances EXCEPT ![0] = d], 0, size)
  <2>1. size' \in 1 .. K /\ K + 1 > K
    BY <1>0, <1>3
  <2>2. /\ distances' \in Heaps /\ HeapOrder(distances', size')
        /\ BagCardinality(more) = K + 1
        /\ Abstract!Worst(more) = distances[0]
        /\ Entries(distances', size') = more (-) SetToBag({distances[0]})
    BY <1>0, <1>3, Replacing
  <2>3. Held' = more (-) SetToBag({distances[0]})
    BY <2>2, HeldEntries
  <2> HIDE DEF more
  <2> QED BY <1>1, <2>1, <2>2, <2>3
<1>4. CASE UNCHANGED answer
  BY <1>4 DEF answer, AnswerInv
<1> QED BY <1>2, <1>3, <1>4 DEF CheckNUpdateBSF

LEMMA Steps == AnswerInv /\ [AnswerNext]_answer => AnswerInv' /\ [Abstract!Next]_(Abstract!vars)
<1> SUFFICES ASSUME AnswerInv, [AnswerNext]_answer
             PROVE  AnswerInv' /\ [Abstract!Next]_(Abstract!vars)
  OBVIOUS
<1>1. CASE UNCHANGED answer
  <2>1. AnswerInv' /\ Held' = Held /\ getBSF' = getBSF
    BY <1>1 DEF answer, AnswerInv, Held, getBSF
  <2> QED BY <2>1 DEF Abstract!vars
<1>2. CASE CleanAnswer
  BY <1>2, Cleans DEF Abstract!Next
<1>3. CASE \E d \in Distances : CheckNUpdateBSF(d)
  <2>1. PICK d \in Distances : CheckNUpdateBSF(d)
    BY <1>3
  <2>2. AnswerInv' /\ (Abstract!Offer(d) \/ UNCHANGED answer)
    BY <2>1, Offers
  <2> QED BY <1>1, <2>2 DEF Abstract!Next
<1> QED BY <1>1, <1>2, <1>3 DEF AnswerNext

\* Entries in use always form a max-heap (the two heapify functions of
\* answer.c), and the bound of an answer without entries is VALUE_MAX.
THEOREM HeapStaysInOrder == AnswerSpec => []AnswerInv
BY Starts, Steps, PTL DEF AnswerSpec

\* The heap of answer.c implements the bag of the k smallest distances offered
\* since cleanAnswer, and getBSF returns the largest of them.
THEOREM HoldsKNearest == AnswerSpec => ImplementsKNearest
<1>1. InitializeAnswer => Abstract!Init
  BY Starts
<1>2. AnswerInv /\ [AnswerNext]_answer => [Abstract!Next]_(Abstract!vars)
  BY Steps
<1> QED BY <1>1, <1>2, HeapStaysInOrder, PTL DEF AnswerSpec, ImplementsKNearest, Abstract!Spec
=============================================================================

-------------------------- MODULE SummariesProofs --------------------------
(***************************************************************************)
(* Theorems about Summaries and Distances for series of any length, any    *)
(* number of segments, of bits and of lanes: vectorised distances are the  *)
(* plain ones, a distance given up early is given up rightly, and the      *)
(* distance to a word is never above that to a series of it.               *)
(***************************************************************************)
EXTENDS Summaries, SumsProofs

----------------------------------------------------------------------------
(* Distances of series *)

AllLanes(v) == v[0] + v[1] + v[2] + v[3] + v[4] + v[5] + v[6] + v[7]

LEMMA LanesListed ==
  /\ 0 \in Lanes /\ 1 \in Lanes /\ 2 \in Lanes /\ 3 \in Lanes
  /\ 4 \in Lanes /\ 5 \in Lanes /\ 6 \in Lanes /\ 7 \in Lanes
BY DEF Lanes

LEMMA LanesTogether ==
  ASSUME NEW u, NEW v, NEW w,
         \A k \in Lanes : u[k] \in Int /\ v[k] \in Int /\ w[k] = u[k] + v[k]
  PROVE  AllLanes(w) = AllLanes(u) + AllLanes(v) /\ AllLanes(u) \in Int /\ AllLanes(v) \in Int
BY LanesListed DEF AllLanes

\* Two horizontal additions leave the sum of each half in its first lane.
LEMMA LanesAdd ==
  ASSUME NEW v, \A k \in Lanes : v[k] \in Int
  PROVE  SumOfLanes(v) = AllLanes(v)
<1>1. \A w : /\ HAdd(w)[0] = w[0] + w[1] /\ HAdd(w)[1] = w[2] + w[3]
             /\ HAdd(w)[4] = w[4] + w[5] /\ HAdd(w)[5] = w[6] + w[7]
  BY DEF HAdd, Lanes
<1>2. HAdd(HAdd(v))[0] = (v[0] + v[1]) + (v[2] + v[3])
      /\ HAdd(HAdd(v))[4] = (v[4] + v[5]) + (v[6] + v[7])
  BY <1>1
<1> QED BY <1>2, LanesListed DEF SumOfLanes, AllLanes

\* The loops by vectors take one more step for eight more values.
LEMMA StepsGrow ==
  ASSUME NEW n \in Nat
  PROVE  /\ Steps(8 * (n + 1)) = Steps(8 * n) \cup {8 * n} /\ 8 * n \notin Steps(8 * n)
         /\ Steps(8 * n + 1) = Steps(8 * (n + 1))
         /\ IsFiniteSet(Steps(8 * n)) /\ Steps(0) = {}
<1>1. (8 * n) % 8 = 0 /\ \A i \in 0 .. 7 : (8 * n + i) % 8 = i
  OBVIOUS
<1>2. \A i \in Int : 8 * n < i /\ i < 8 * n + 8 => i % 8 # 0
  <2>1. TAKE i \in Int
  <2>2. HAVE 8 * n < i /\ i < 8 * n + 8
  <2>3. i - 8 * n \in 0 .. 7 /\ i = 8 * n + (i - 8 * n)
    BY <2>2
  <2>4. i % 8 = i - 8 * n
    BY <1>1, <2>3
  <2> QED BY <2>2, <2>4
<1>3. IsFiniteSet(Steps(8 * n))
  <2>1. IsFiniteSet(0 .. 8 * n - 1) /\ Steps(8 * n) \subseteq 0 .. 8 * n - 1
    BY FS_Interval DEF Steps
  <2> QED BY <2>1, FS_Subset
<1>4. Steps(8 * (n + 1)) = Steps(8 * n) \cup {8 * n}
  BY <1>1, <1>2 DEF Steps
<1>5. Steps(8 * n + 1) = Steps(8 * (n + 1))
  BY <1>1, <1>2 DEF Steps
<1> QED BY <1>3, <1>4, <1>5 DEF Steps

\* The series of a length that is a multiple of eight, and the vectors in them.
LEMMA VectorsFit ==
  ASSUME NEW N \in Nat, N % 8 = 0, NEW left \in [0 .. N - 1 -> Int],
         NEW right \in [0 .. N - 1 -> Int]
  PROVE  /\ \A i \in 0 .. N - 1 : /\ Squares(left, right)[i] = Square(left, right, i)
                                  /\ Square(left, right, i) \in Int
                                  /\ Square(left, right, i) >= 0
         /\ \A n \in Nat : 8 * n < N => 8 * (n + 1) <= N /\ 8 * n \in Starts(left)
         /\ \A i \in Starts(left) : \A k \in Lanes :
              i + k \in 0 .. N - 1 /\ Lane(left, right, k)[i] = Square(left, right, i + k)
<1>1. ASSUME NEW i \in 0 .. N - 1
      PROVE  /\ Squares(left, right)[i] = Square(left, right, i)
             /\ Square(left, right, i) \in Int /\ Square(left, right, i) >= 0
  <2>1. left[i] - right[i] \in Int
    OBVIOUS
  <2>2. \A d \in Int : d * d \in Int /\ d * d >= 0
    OBVIOUS
  <2> QED BY <2>1, <2>2 DEF Squares, Square
<1>2. ASSUME NEW n \in Nat, 8 * n < N PROVE 8 * (n + 1) <= N /\ 8 * n \in Starts(left)
  <2>1. (8 * n) % 8 = 0
    OBVIOUS
  <2>2. N = 8 * (N \div 8)
    OBVIOUS
  <2> QED BY <1>2, <2>1, <2>2 DEF Starts
<1>3. ASSUME NEW i \in Starts(left), NEW k \in Lanes
      PROVE  i + k \in 0 .. N - 1 /\ Lane(left, right, k)[i] = Square(left, right, i + k)
  <2>1. i \in 0 .. N - 1 /\ i % 8 = 0
    BY DEF Starts
  <2>2. /\ N = 8 * (N \div 8) /\ N \div 8 \in Int
        /\ i = 8 * (i \div 8) /\ i \div 8 \in Int
    BY <2>1
  <2>3. \A a, c \in Int : 8 * a < 8 * c => 8 * a + 8 <= 8 * c
    OBVIOUS
  <2>4. i < N
    BY <2>1
  <2>5. i + 8 <= N
    <3> DEFINE a == i \div 8
               c == N \div 8
    <3>1. a \in Int /\ c \in Int /\ i = 8 * a /\ N = 8 * c
      BY <2>2
    <3> HIDE DEF a, c
    <3> QED BY <2>3, <2>4, <3>1
  <2> QED BY <2>1, <2>5 DEF Lane, Lanes
<1> QED BY <1>1, <1>2, <1>3

LEMMA EightMore ==
  ASSUME NEW f, NEW N \in Nat, \A i \in 0 .. N - 1 : f[i] \in Int, NEW b \in Nat, b + 8 <= N
  PROVE  SumOver(f, 0 .. (b + 8) - 1)
         = SumOver(f, 0 .. b - 1) + (f[b] + f[b + 1] + f[b + 2] + f[b + 3]
                                     + f[b + 4] + f[b + 5] + f[b + 6] + f[b + 7])
<1>1. \A n \in 0 .. N - 1 : /\ SumOver(f, 0 .. n - 1) \in Int /\ f[n] \in Int
                            /\ SumOver(f, 0 .. n) = SumOver(f, 0 .. n - 1) + f[n]
  <2>1. /\ \A n \in 0 .. N : SumOver(f, 0 .. n - 1) \in Int
        /\ \A n \in 0 .. N - 1 : SumOver(f, 0 .. n) = SumOver(f, 0 .. n - 1) + f[n]
    BY Prefixes
  <2> QED BY <2>1
<1> DEFINE p(i) == SumOver(f, 0 .. i - 1)
<1>2. \A k \in 0 .. 7 : p((b + k) + 1) = p(b + k) + f[b + k] /\ p(b + k) \in Int /\ f[b + k] \in Int
  <2>1. TAKE k \in 0 .. 7
  <2>2. b + k \in 0 .. N - 1 /\ 0 .. ((b + k) + 1) - 1 = 0 .. b + k
    OBVIOUS
  <2> QED BY <1>1, <2>2
<1> HIDE DEF p
<1>3. /\ p(b) \in Int /\ f[b] \in Int /\ p(b + 1) = p(b) + f[b]
      /\ p(b + 1) \in Int /\ f[b + 1] \in Int /\ p(b + 2) = p(b + 1) + f[b + 1]
      /\ p(b + 2) \in Int /\ f[b + 2] \in Int /\ p(b + 3) = p(b + 2) + f[b + 2]
      /\ p(b + 3) \in Int /\ f[b + 3] \in Int /\ p(b + 4) = p(b + 3) + f[b + 3]
  <2>1. /\ b + 0 = b /\ (b + 0) + 1 = b + 1 /\ (b + 1) + 1 = b + 2
        /\ (b + 2) + 1 = b + 3 /\ (b + 3) + 1 = b + 4
        /\ 0 \in 0 .. 7 /\ 1 \in 0 .. 7 /\ 2 \in 0 .. 7 /\ 3 \in 0 .. 7
    OBVIOUS
  <2> QED BY <1>2, <2>1, Zenon
<1>4. /\ p(b + 4) \in Int /\ f[b + 4] \in Int /\ p(b + 5) = p(b + 4) + f[b + 4]
      /\ p(b + 5) \in Int /\ f[b + 5] \in Int /\ p(b + 6) = p(b + 5) + f[b + 5]
      /\ p(b + 6) \in Int /\ f[b + 6] \in Int /\ p(b + 7) = p(b + 6) + f[b + 6]
      /\ p(b + 7) \in Int /\ f[b + 7] \in Int /\ p(b + 8) = p(b + 7) + f[b + 7]
  <2>1. /\ (b + 4) + 1 = b + 5 /\ (b + 5) + 1 = b + 6
        /\ (b + 6) + 1 = b + 7 /\ (b + 7) + 1 = b + 8
        /\ 4 \in 0 .. 7 /\ 5 \in 0 .. 7 /\ 6 \in 0 .. 7 /\ 7 \in 0 .. 7
    OBVIOUS
  <2> QED BY <1>2, <2>1, Zenon
<1>5. p(b + 8) = p(b) + (f[b] + f[b + 1] + f[b + 2] + f[b + 3]
                         + f[b + 4] + f[b + 5] + f[b + 6] + f[b + 7])
  BY <1>3, <1>4
<1> QED BY <1>5 DEF p

\* Eight values more, added one by one, lane by lane, or as a vector.
LEMMA OneMoreVector ==
  ASSUME NEW N \in Nat, N % 8 = 0, NEW left \in [0 .. N - 1 -> Int],
         NEW right \in [0 .. N - 1 -> Int], NEW n \in Nat, 8 * n < N
  PROVE  LET Sq == [k \in Lanes |-> Square(left, right, 8 * n + k)]
             All == AllLanes(Sq)
         IN  /\ \A k \in Lanes : Sq[k] \in Int
             /\ l2Square(8 * (n + 1), left, right) = l2Square(8 * n, left, right) + All
             /\ \A k \in Lanes : SumOver(Lane(left, right, k), Steps(8 * (n + 1)))
                                 = SumOver(Lane(left, right, k), Steps(8 * n)) + Sq[k]
             /\ SumOver(Vectors(left, right), Steps(8 * (n + 1)))
                = SumOver(Vectors(left, right), Steps(8 * n)) + All
<1> DEFINE b     == 8 * n
           Sq    == [k \in Lanes |-> Square(left, right, b + k)]
           All   == AllLanes(Sq)
           F     == Squares(left, right)
           P(i)  == SumOver(F, 0 .. i - 1)
<1>1. /\ \A i \in 0 .. N - 1 : F[i] = Square(left, right, i) /\ Square(left, right, i) \in Int
      /\ 8 * (n + 1) <= N /\ b \in Starts(left) /\ b \in Nat /\ b + 8 <= N
      /\ \A i \in Starts(left) : \A k \in Lanes :
           i + k \in 0 .. N - 1 /\ Lane(left, right, k)[i] = Square(left, right, i + k)
  <2>1. /\ \A i \in 0 .. N - 1 : F[i] = Square(left, right, i) /\ Square(left, right, i) \in Int
        /\ \A m \in Nat : 8 * m < N => 8 * (m + 1) <= N /\ 8 * m \in Starts(left)
        /\ \A i \in Starts(left) : \A k \in Lanes :
             i + k \in 0 .. N - 1 /\ Lane(left, right, k)[i] = Square(left, right, i + k)
    BY VectorsFit
  <2>2. 8 * (n + 1) <= N /\ b \in Starts(left)
    BY <2>1
  <2>3. b \in Nat /\ b + 8 <= N
    BY <2>2
  <2> QED BY <2>1, <2>2, <2>3
<1>2. \A k \in Lanes : b + k \in 0 .. N - 1 /\ Sq[k] \in Int
  BY <1>1
<1>3. \A i \in 0 .. N - 1 : F[i] \in Int
  BY <1>1
<1>4. P(b + 8) = P(b) + All
  <2>1. \A k \in Lanes : F[b + k] = Sq[k]
    BY <1>1, <1>2
  <2>2. b \in Nat /\ b + 8 <= N /\ b + 0 = b
    BY <1>1
  <2> HIDE DEF F, b, Sq
  <2>3. SumOver(F, 0 .. (b + 8) - 1)
        = SumOver(F, 0 .. b - 1) + (F[b] + F[b + 1] + F[b + 2] + F[b + 3]
                                    + F[b + 4] + F[b + 5] + F[b + 6] + F[b + 7])
    BY <1>3, <2>2, EightMore
  <2>4. /\ F[b] = Sq[0] /\ F[b + 1] = Sq[1] /\ F[b + 2] = Sq[2] /\ F[b + 3] = Sq[3]
        /\ F[b + 4] = Sq[4] /\ F[b + 5] = Sq[5] /\ F[b + 6] = Sq[6] /\ F[b + 7] = Sq[7]
    BY <2>1, <2>2, LanesListed, Zenon
  <2> QED BY <2>3, <2>4, Zenon DEF AllLanes
<1>5. /\ Steps(8 * (n + 1)) = Steps(b) \cup {b} /\ b \notin Steps(b) /\ IsFiniteSet(Steps(b))
      /\ \A i \in Steps(b) \cup {b} : i \in Starts(left)
  <2>1. \A i \in Steps(b) \cup {b} : i \in Starts(left)
    BY <1>1 DEF Steps, Starts
  <2> QED BY <2>1, StepsGrow
<1>6. ASSUME NEW k \in Lanes
      PROVE  SumOver(Lane(left, right, k), Steps(8 * (n + 1)))
             = SumOver(Lane(left, right, k), Steps(8 * n)) + Sq[k]
  <2>1. \A i \in Steps(b) \cup {b} : Lane(left, right, k)[i] \in Int
    BY <1>1, <1>5
  <2>2. Lane(left, right, k)[b] = Sq[k]
    BY <1>1
  <2> HIDE DEF b, Sq
  <2>3. SumOver(Lane(left, right, k), Steps(b) \cup {b})
        = SumOver(Lane(left, right, k), Steps(b)) + Lane(left, right, k)[b]
    BY <1>5, <2>1, SumWith
  <2> QED BY <1>5, <2>2, <2>3 DEF b
<1>7. SumOver(Vectors(left, right), Steps(8 * (n + 1)))
      = SumOver(Vectors(left, right), Steps(8 * n)) + All
  <2>1. ASSUME NEW i \in Starts(left)
        PROVE  /\ Vectors(left, right)[i] = AllLanes([k \in Lanes |-> Square(left, right, i + k)])
               /\ Vectors(left, right)[i] \in Int
    <3> DEFINE v == [k \in Lanes |-> Square(left, right, i + k)]
    <3>1. \A k \in Lanes : v[k] \in Int
      BY <1>1
    <3>2. Vectors(left, right)[i] = SumOfLanes(v)
      BY DEF Vectors
    <3> HIDE DEF v
    <3>3. SumOfLanes(v) = AllLanes(v)
      BY <3>1, LanesAdd
    <3>4. AllLanes(v) \in Int
      <4> DEFINE w == [k \in Lanes |-> v[k] + v[k]]
      <4>1. \A k \in Lanes : v[k] \in Int /\ w[k] = v[k] + v[k]
        BY <3>1
      <4> HIDE DEF w
      <4> QED BY <4>1, LanesTogether
    <3> QED BY <3>2, <3>3, <3>4 DEF v
  <2>2. \A i \in Starts(left) : Vectors(left, right)[i] \in Int
    BY <2>1
  <2>3. Vectors(left, right)[b] = All
    BY <1>1, <2>1
  <2> HIDE DEF b, All
  <2>4. SumOver(Vectors(left, right), Steps(b) \cup {b})
        = SumOver(Vectors(left, right), Steps(b)) + Vectors(left, right)[b]
    <3>1. \A i \in Steps(b) \cup {b} : Vectors(left, right)[i] \in Int
      BY <1>5, <2>2
    <3> QED BY <1>5, <3>1, SumWith
  <2> QED BY <1>5, <2>3, <2>4 DEF b
<1>8. /\ l2Square(8 * n, left, right) = P(b) /\ l2Square(8 * (n + 1), left, right) = P(b + 8)
  BY DEF l2Square
<1> QED BY <1>2, <1>4, <1>6, <1>7, <1>8

\* Whatever way they are added up, sums of whole vectors are the same.
LEMMA VectorSums ==
  ASSUME NEW N \in Nat, N % 8 = 0, NEW left \in [0 .. N - 1 -> Int],
         NEW right \in [0 .. N - 1 -> Int], NEW n \in Nat, 8 * n <= N
  PROVE  LET Sum == [k \in Lanes |-> SumOver(Lane(left, right, k), Steps(8 * n))]
         IN  /\ \A k \in Lanes : Sum[k] \in Int
             /\ l2Square(8 * n, left, right) = AllLanes(Sum)
             /\ l2Square(8 * n, left, right) = SumOver(Vectors(left, right), Steps(8 * n))
             /\ l2Square(8 * n, left, right) \in Int
<1> DEFINE Sum(m) == [k \in Lanes |-> SumOver(Lane(left, right, k), Steps(8 * m))]
           All(m) == AllLanes(Sum(m))
           Plain(m) == l2Square(8 * m, left, right)
           ByVector(m) == SumOver(Vectors(left, right), Steps(8 * m))
           Holds(m) == /\ \A k \in Lanes : Sum(m)[k] \in Int
                       /\ Plain(m) = All(m) /\ Plain(m) = ByVector(m) /\ Plain(m) \in Int
           Ill == {m \in Nat : 8 * m <= N /\ ~Holds(m)}
<1>1. Holds(0)
  <2>1. 8 * 0 = 0 /\ Steps(0) = {} /\ 0 .. 0 - 1 = {}
    BY DEF Steps
  <2>2. \A f : SumOver(f, {}) = 0
    BY SumOfNothing
  <2>3. Plain(0) = 0 /\ ByVector(0) = 0 /\ \A k \in Lanes : Sum(0)[k] = 0
    BY <2>1, <2>2 DEF l2Square
  <2> QED BY <2>3, LanesListed DEF AllLanes
<1>2. ASSUME NEW m \in Nat, 8 * m < N, Holds(m) PROVE Holds(m + 1)
  <2> DEFINE Sq == [k \in Lanes |-> Square(left, right, 8 * m + k)]
             More == AllLanes(Sq)
  <2>1. /\ \A k \in Lanes : Sq[k] \in Int /\ Sum(m + 1)[k] = Sum(m)[k] + Sq[k]
        /\ Plain(m + 1) = Plain(m) + More
        /\ ByVector(m + 1) = ByVector(m) + More
    BY <1>2, OneMoreVector
  <2> HIDE DEF Sum, Plain, ByVector, Sq
  <2>2. All(m + 1) = All(m) + More /\ More \in Int
    BY <1>2, <2>1, LanesTogether
  <2> HIDE DEF More, All
  <2> QED BY <1>2, <2>1, <2>2
<1> HIDE DEF Holds
<1>3. ASSUME Ill # {} PROVE FALSE
  <2>1. PICK m \in Ill : \A o \in Ill : m <= o
    BY <1>3, Least
  <2>2. m \in Nat /\ 8 * m <= N /\ ~Holds(m) /\ m # 0
    BY <1>1, <2>1
  <2>3. m - 1 \in Nat /\ 8 * (m - 1) < N /\ m - 1 \notin Ill /\ (m - 1) + 1 = m
    BY <2>1, <2>2
  <2>4. Holds(m - 1)
    BY <2>3
  <2>5. Holds((m - 1) + 1)
    BY <1>2, <2>3, <2>4
  <2> QED BY <2>2, <2>3, <2>5
<1>4. Holds(n)
  BY <1>3
<1> QED BY <1>4 DEF Holds

\* The vectorised distance is the plain one.
LEMMA SquareSIMD ==
  ASSUME NEW N \in Nat, N % 8 = 0, NEW left \in [0 .. N - 1 -> Int],
         NEW right \in [0 .. N - 1 -> Int]
  PROVE  l2SquareSIMD(N, left, right) = l2Square(N, left, right)
<1> DEFINE n == N \div 8
           v == [k \in Lanes |-> SumOver(Lane(left, right, k), Steps(8 * n))]
<1>1. n \in Nat /\ 8 * n = N /\ 8 * n <= N
  OBVIOUS
<1> HIDE DEF n
<1>2. (\A k \in Lanes : v[k] \in Int) /\ l2Square(8 * n, left, right) = AllLanes(v)
  BY <1>1, VectorSums
<1>3. l2SquareSIMD(N, left, right) = SumOfLanes(v)
  BY <1>1 DEF l2SquareSIMD
<1> HIDE DEF v
<1> QED BY <1>1, <1>2, <1>3, LanesAdd

\* More squares do not make a distance less.
LEMMA DistancesGrow ==
  ASSUME NEW N \in Nat, N % 8 = 0, NEW left \in [0 .. N - 1 -> Int],
         NEW right \in [0 .. N - 1 -> Int]
  PROVE  /\ \A b \in 0 .. N : l2Square(b, left, right) \in Int
         /\ \A b \in 0 .. N : \A a \in 0 .. b :
              l2Square(a, left, right) <= l2Square(b, left, right)
<1> DEFINE F == Squares(left, right)
           P(b) == l2Square(b, left, right)
           Ill == {b \in 0 .. N : \E a \in 0 .. b : ~(P(a) <= P(b))}
<1>1. \A i \in 0 .. N - 1 : F[i] \in Int /\ F[i] >= 0
  BY VectorsFit
<1>2. /\ \A b \in 0 .. N : P(b) \in Int
      /\ \A b \in 0 .. N - 1 : P(b + 1) = P(b) + F[b]
  <2> HIDE DEF F
  <2>1. /\ \A b \in 0 .. N : SumOver(F, 0 .. b - 1) \in Int
        /\ \A b \in 0 .. N - 1 : SumOver(F, 0 .. b) = SumOver(F, 0 .. b - 1) + F[b]
    BY <1>1, Prefixes
  <2>2. \A b \in 0 .. N - 1 : 0 .. (b + 1) - 1 = 0 .. b
    OBVIOUS
  <2> QED BY <2>1, <2>2 DEF l2Square, F
<1> HIDE DEF F, P
<1>3. ASSUME Ill # {} PROVE FALSE
  <2>0. Ill \in SUBSET Nat
    OBVIOUS
  <2>1. PICK b \in Ill : \A c \in Ill : b <= c
    BY <1>3, <2>0, Least
  <2>2. PICK a \in 0 .. b : ~(P(a) <= P(b))
    BY <2>1
  <2>3. b \in 0 .. N /\ a # b
    BY <1>2, <2>1, <2>2
  <2>4. b - 1 \in 0 .. N - 1 /\ a \in 0 .. b - 1 /\ b - 1 \notin Ill /\ (b - 1) + 1 = b
    BY <2>1, <2>2, <2>3
  <2>5. P(a) <= P(b - 1)
    BY <2>4
  <2>6. P(b) = P(b - 1) + F[b - 1] /\ F[b - 1] \in Int /\ F[b - 1] >= 0
    BY <1>1, <1>2, <2>4
  <2>7. P(a) \in Int /\ P(b - 1) \in Int
    BY <1>2, <2>3, <2>4
  <2> QED BY <2>2, <2>5, <2>6, <2>7
<1> QED BY <1>2, <1>3 DEF P

LEMMA MinOf ==
  ASSUME NEW S \in SUBSET Nat, S # {}
  PROVE  Min(S) \in S /\ \A x \in S : Min(S) <= x
BY Least DEF Min

\* A distance given up early exceeds the threshold exactly if the whole one does; one
\* that is not given up is the whole one.
LEMMA EarlyEnds ==
  ASSUME NEW N \in Nat \ {0}, N % 8 = 0, NEW left \in [0 .. N - 1 -> Int],
         NEW right \in [0 .. N - 1 -> Int], NEW t \in Nat
  PROVE  /\ l2SquareEarly(N, left, right, t) > t <=> l2Square(N, left, right) > t
         /\ l2SquareEarlySIMD(N, left, right, t) > t <=> l2Square(N, left, right) > t
         /\ ~ (l2Square(N, left, right) > t) =>
              l2SquareEarlySIMD(N, left, right, t) = l2Square(N, left, right)
         /\ l2SquareEarlySIMD(N, left, right, t) \in Int
<1> DEFINE P(b) == l2Square(b, left, right)
           Q(i) == SumUpTo(left, right, i)
<1>1. /\ \A b \in 0 .. N : P(b) \in Int
      /\ \A b \in 0 .. N : \A a \in 0 .. b : P(a) <= P(b)
  BY DistancesGrow
<1>2. l2SquareEarly(N, left, right, t) > t <=> P(N) > t
  <2> DEFINE Exceeding == {i \in 0 .. N - 1 : P(i + 1) > t}
             E == IF Exceeding = {} THEN P(N) ELSE P(Min(Exceeding) + 1)
  <2>1. l2SquareEarly(N, left, right, t) = E
    BY DEF l2SquareEarly
  <2> HIDE DEF P
  <2>2. CASE Exceeding = {}
    BY <2>1, <2>2
  <2>3. CASE Exceeding # {}
    <3>0. Exceeding \in SUBSET Nat
      OBVIOUS
    <3>1. Min(Exceeding) \in Exceeding
      BY <2>3, <3>0, MinOf
    <3> DEFINE i == Min(Exceeding)
    <3>2. i \in 0 .. N - 1 /\ P(i + 1) > t
      BY <3>1
    <3>3. E = P(i + 1)
      BY <2>3
    <3> HIDE DEF i
    <3>4. P(i + 1) <= P(N) /\ P(i + 1) \in Int /\ P(N) \in Int
      <4>1. i + 1 \in 0 .. N /\ N \in 0 .. N
        BY <3>2
      <4> QED BY <1>1, <4>1
    <3> HIDE DEF E, Exceeding
    <3> QED BY <2>1, <3>2, <3>3, <3>4
  <2> QED BY <2>2, <2>3
<1>8. ASSUME NEW n \in Nat, 8 * n <= N
      PROVE  P(8 * n) = SumOver(Vectors(left, right), Steps(8 * n))
  <2>1. N \in Nat
    OBVIOUS
  <2>2. l2Square(8 * n, left, right) = SumOver(Vectors(left, right), Steps(8 * n))
    BY <1>8, <2>1, VectorSums
  <2> QED BY <2>2
<1>3. /\ \A i \in Steps(N) : i \in 0 .. N - 1 /\ i + 8 \in 0 .. N /\ Q(i) = P(i + 8)
      /\ Q(N - 1) = P(N)
  <2>1. ASSUME NEW i \in Steps(N)
        PROVE  i \in 0 .. N - 1 /\ i + 8 \in 0 .. N /\ Q(i) = P(i + 8)
    <3> DEFINE n == i \div 8
    <3>1. i \in 0 .. N - 1 /\ n \in Nat /\ i = 8 * n
      BY DEF Steps
    <3> HIDE DEF n
    <3>2. 8 * (n + 1) <= N /\ n + 1 \in Nat /\ 8 * (n + 1) = i + 8
      <4>1. \A m \in Nat : 8 * m < N => 8 * (m + 1) <= N
        BY VectorsFit
      <4> QED BY <3>1, <4>1
    <3>3. Steps(i + 1) = Steps(8 * (n + 1))
      BY <3>1, StepsGrow
    <3>4. P(8 * (n + 1)) = SumOver(Vectors(left, right), Steps(8 * (n + 1)))
      BY <3>2, <1>8
    <3> QED BY <3>1, <3>2, <3>3, <3>4 DEF SumUpTo
  <2>2. Q(N - 1) = P(N)
    <3> DEFINE n == N \div 8
    <3>1. n \in Nat /\ 8 * n = N /\ 8 * n <= N /\ (N - 1) + 1 = N
      OBVIOUS
    <3> HIDE DEF n
    <3>2. P(8 * n) = SumOver(Vectors(left, right), Steps(8 * n))
      BY <3>1, <1>8
    <3> QED BY <3>1, <3>2 DEF SumUpTo
  <2> QED BY <2>1, <2>2
<1>4. /\ l2SquareEarlySIMD(N, left, right, t) > t <=> P(N) > t
      /\ ~ (P(N) > t) => l2SquareEarlySIMD(N, left, right, t) = P(N)
      /\ l2SquareEarlySIMD(N, left, right, t) \in Int
  <2> DEFINE Exceeding == {i \in Steps(N) : Q(i) > t}
             E == Q(IF Exceeding = {} THEN N - 1 ELSE Min(Exceeding))
  <2>1. l2SquareEarlySIMD(N, left, right, t) = E
    BY DEF l2SquareEarlySIMD
  <2> HIDE DEF P, Q
  <2>2. CASE Exceeding = {}
    <3>1. P(N) \in Int
      BY <1>1
    <3> QED BY <1>3, <2>1, <2>2, <3>1
  <2>3. CASE Exceeding # {}
    <3>1. Exceeding \in SUBSET Nat
      BY <1>3
    <3>2. Min(Exceeding) \in Exceeding
      BY <2>3, <3>1, MinOf
    <3>3. E = Q(Min(Exceeding))
      BY <2>3
    <3> DEFINE i == Min(Exceeding)
    <3>4. i \in Steps(N) /\ Q(i) > t
      BY <3>2
    <3> HIDE DEF i
    <3>5. i + 8 \in 0 .. N /\ Q(i) = P(i + 8)
      BY <1>3, <3>4
    <3>6. P(i + 8) <= P(N) /\ P(i + 8) \in Int /\ P(N) \in Int
      BY <1>1, <3>5
    <3>7. E = Q(i)
      BY <3>3 DEF i
    <3> HIDE DEF E, Exceeding
    <3> QED BY <2>1, <3>4, <3>5, <3>6, <3>7
  <2> QED BY <2>2, <2>3
<1> QED BY <1>2, <1>4

-----------------------------------------------------------------------------
(* Numbers of symbols, and the search for one *)

\* Among the numbers up to C that something is wrong of there is one before which it is
\* right.
LEMMA FirstOf ==
  ASSUME NEW C \in Nat, NEW N \in SUBSET (0 .. C), N # {}
  PROVE  \E n \in N : n # 0 => n - 1 \in 0 .. C /\ n - 1 \notin N
<1>1. PICK n \in N : \A m \in N : n <= m
  BY Least
<1>2. n \in 0 .. C
  OBVIOUS
<1>3. n # 0 => n - 1 \in 0 .. C
  BY <1>2
<1>4. n - 1 \notin N
  BY <1>1, <1>2
<1> QED BY <1>3, <1>4

CellsOf(f) == f = [b \in 0 .. SaxCardinality |-> IF b = 0 THEN 1 ELSE 2 * f[b - 1]]

\* Cells is a function: there is one up to any number of bits.
LEMMA CellsExist == \E f \in [0 .. SaxCardinality -> Nat \ {0}] : CellsOf(f)
<1> DEFINE C == SaxCardinality
           UpTo(n, f) == \A b \in 0 .. n : f[b] = IF b = 0 THEN 1 ELSE 2 * f[b - 1]
           Bad == {n \in 0 .. C : \A f \in [0 .. C -> Nat \ {0}] : ~UpTo(n, f)}
<1>1. C \in Nat
  BY SummariesAssumption
<1>2. ASSUME Bad # {} PROVE FALSE
  <2>0. Bad \in SUBSET (0 .. C)
    OBVIOUS
  <2>1. PICK n \in Bad : n # 0 => n - 1 \in 0 .. C /\ n - 1 \notin Bad
    <3> HIDE DEF Bad, C
    <3> QED BY <1>1, <1>2, <2>0, FirstOf
  <2>2. CASE n = 0
    <3>1. [b \in 0 .. C |-> 1] \in [0 .. C -> Nat \ {0}] /\ UpTo(0, [b \in 0 .. C |-> 1])
      BY <1>1
    <3> QED BY <2>1, <2>2, <3>1
  <2>3. CASE n # 0
    <3>1. n - 1 \in 0 .. C /\ n - 1 \notin Bad /\ n \in 0 .. C
      BY <2>0, <2>1, <2>3
    <3>2. PICK f \in [0 .. C -> Nat \ {0}] : UpTo(n - 1, f)
      BY <3>1
    <3> DEFINE g == [f EXCEPT ![n] = 2 * f[n - 1]]
    <3>3. f[n - 1] \in Nat \ {0}
      BY <3>1
    <3>4. g \in [0 .. C -> Nat \ {0}]
      BY <3>1, <3>3
    <3>5. UpTo(n, g)
      <4>1. TAKE b \in 0 .. n
      <4>2. CASE b = n
        BY <2>3, <3>1, <4>2
      <4>3. CASE b # n
        <5>1. b \in 0 .. n - 1 /\ b \in 0 .. C /\ g[b] = f[b]
          BY <1>1, <3>1, <4>3
        <5>2. b # 0 => b - 1 \in 0 .. C /\ b - 1 # n
          BY <1>1, <3>1, <5>1
        <5>3. b # 0 => g[b - 1] = f[b - 1]
          BY <5>2
        <5> QED BY <3>2, <5>1, <5>3
      <4> QED BY <4>2, <4>3
    <3> QED BY <2>1, <3>4, <3>5
  <2> QED BY <2>2, <2>3
<1>3. C \in 0 .. C /\ C \notin Bad
  <2>1. C \in 0 .. C
    BY <1>1
  <2> HIDE DEF Bad
  <2> QED BY <1>2, <2>1
<1>4. PICK f \in [0 .. C -> Nat \ {0}] : UpTo(C, f)
  BY <1>3
<1>5. f = [b \in 0 .. C |-> IF b = 0 THEN 1 ELSE 2 * f[b - 1]]
  BY <1>4
<1> QED BY <1>5 DEF CellsOf

LEMMA CellsDouble ==
  /\ Cells \in [0 .. SaxCardinality -> Nat \ {0}] /\ Cells[0] = 1
  /\ \A b \in 0 .. SaxCardinality - 1 : Cells[b + 1] = 2 * Cells[b]
<1>1. Cells = CHOOSE f : CellsOf(f)
  BY DEF Cells, CellsOf
<1>2. CellsOf(Cells)
  BY <1>1, CellsExist
<1>3. SaxCardinality \in Nat /\ 0 \in 0 .. SaxCardinality
  BY SummariesAssumption
<1>4. PICK f \in [0 .. SaxCardinality -> Nat \ {0}] : CellsOf(f)
  BY CellsExist
<1> DEFINE Differ == {b \in 0 .. SaxCardinality : f[b] # Cells[b]}
<1>5. /\ \A b \in 0 .. SaxCardinality : Cells[b] = IF b = 0 THEN 1 ELSE 2 * Cells[b - 1]
      /\ \A b \in 0 .. SaxCardinality : f[b] = IF b = 0 THEN 1 ELSE 2 * f[b - 1]
      /\ DOMAIN Cells = 0 .. SaxCardinality
      /\ Cells = [b \in 0 .. SaxCardinality |-> Cells[b]]
  BY <1>2, <1>4, Zenon DEF CellsOf
<1>6. ASSUME Differ # {} PROVE FALSE
  <2>0. Differ \in SUBSET (0 .. SaxCardinality)
    OBVIOUS
  <2>1. PICK b \in Differ : b # 0 => b - 1 \in 0 .. SaxCardinality /\ b - 1 \notin Differ
    <3> HIDE DEF Differ
    <3> QED BY <1>3, <1>6, <2>0, FirstOf
  <2>2. b \in 0 .. SaxCardinality /\ b # 0
    BY <1>5, <2>1
  <2>3. b - 1 \in 0 .. SaxCardinality /\ b - 1 \notin Differ
    BY <2>1, <2>2
  <2>4. f[b - 1] = Cells[b - 1]
    BY <2>3
  <2> QED BY <1>5, <2>1, <2>2, <2>4
<1>7. Cells \in [0 .. SaxCardinality -> Nat \ {0}]
  <2>1. \A b \in 0 .. SaxCardinality : Cells[b] = f[b] /\ f[b] \in Nat \ {0}
    BY <1>4, <1>6
  <2> QED BY <1>5, <2>1
<1>8. ASSUME NEW b \in 0 .. SaxCardinality - 1 PROVE Cells[b + 1] = 2 * Cells[b]
  <2>1. b + 1 \in 0 .. SaxCardinality /\ b + 1 # 0 /\ (b + 1) - 1 = b
    BY <1>3
  <2> QED BY <1>5, <2>1
<1> QED BY <1>3, <1>5, <1>7, <1>8

Narrowed(value, sorted, range) ==
  LET mid == (range[1] + range[2]) \div 2
  IN  IF value < sorted[mid] THEN <<range[1], mid>> ELSE <<mid, range[2]>>

Found(f, value, sorted, range) ==
  IF range[1] + 1 < range[2] THEN f[Narrowed(value, sorted, range)] ELSE range[1]

\* A range that holds more than one symbol is narrowed to a shorter one that holds one.
LEMMA Narrows ==
  ASSUME NEW M \in Nat, NEW r \in (0 .. M) \X (0 .. M), r[1] + 1 < r[2],
         NEW value, NEW sorted
  PROVE  LET n == Narrowed(value, sorted, r)
         IN  /\ n \in (0 .. M) \X (0 .. M) /\ r[1] <= n[1] /\ n[2] <= r[2]
             /\ n[1] < n[2] /\ n[2] - n[1] <= (r[2] - r[1]) - 1
<1> DEFINE mid == (r[1] + r[2]) \div 2
<1>1. r[1] \in 0 .. M /\ r[2] \in 0 .. M
  OBVIOUS
<1>2. mid \in Int /\ r[1] < mid /\ mid < r[2]
  BY <1>1
<1> HIDE DEF mid
<1>3. \/ Narrowed(value, sorted, r) = <<r[1], mid>>
      \/ Narrowed(value, sorted, r) = <<mid, r[2]>>
  BY Zenon DEF Narrowed, mid
<1>4. mid \in 0 .. M
  BY <1>1, <1>2
<1>5. CASE Narrowed(value, sorted, r) = <<r[1], mid>>
  <2>1. <<r[1], mid>> \in (0 .. M) \X (0 .. M) /\ mid - r[1] <= (r[2] - r[1]) - 1
    BY <1>1, <1>2, <1>4
  <2> QED BY <1>1, <1>2, <1>5, <2>1
<1>6. CASE Narrowed(value, sorted, r) = <<mid, r[2]>>
  <2>1. <<mid, r[2]>> \in (0 .. M) \X (0 .. M) /\ r[2] - mid <= (r[2] - r[1]) - 1
    BY <1>1, <1>2, <1>4
  <2> QED BY <1>1, <1>2, <1>6, <2>1
<1> QED BY <1>3, <1>5, <1>6

Searches(f, value, sorted, M) ==
  \A r \in (0 .. M) \X (0 .. M) : f[r] = Found(f, value, sorted, r)

LEMMA SearchExists ==
  ASSUME NEW M \in Nat, NEW value, NEW sorted
  PROVE  \E f \in [(0 .. M) \X (0 .. M) -> 0 .. M] : Searches(f, value, sorted, M)
<1> DEFINE R == (0 .. M) \X (0 .. M)
           Step(f, r) == Found(f, value, sorted, r)
           UpTo(n, f) == \A r \in R : r[2] - r[1] <= n => f[r] = Step(f, r)
           Bad == {n \in 0 .. M : \A f \in [R -> 0 .. M] : ~UpTo(n, f)}
<1>1. \A r \in R : r[1] \in 0 .. M /\ r[2] \in 0 .. M
  OBVIOUS
<1>2. ASSUME NEW f \in [R -> 0 .. M], NEW r \in R PROVE Step(f, r) \in 0 .. M
  <2>1. CASE r[1] + 1 < r[2]
    <3>1. Narrowed(value, sorted, r) \in R
      BY <2>1, Narrows
    <3>2. Step(f, r) = f[Narrowed(value, sorted, r)]
      BY <2>1 DEF Found
    <3> HIDE DEF Step, R
    <3> QED BY <3>1, <3>2
  <2>2. CASE ~(r[1] + 1 < r[2])
    BY <1>1, <2>2 DEF Found
  <2> QED BY <2>1, <2>2
<1>3. ASSUME NEW f, NEW g, NEW n \in Nat, NEW r \in R, r[2] - r[1] <= n + 1,
             \A s \in R : s[2] - s[1] <= n => g[s] = f[s]
      PROVE  Step(g, r) = Step(f, r)
  <2>1. CASE r[1] + 1 < r[2]
    <3> DEFINE s == Narrowed(value, sorted, r)
    <3>1. s \in R /\ s[2] - s[1] <= (r[2] - r[1]) - 1
      BY <2>1, Narrows
    <3>2. Step(f, r) = f[s] /\ Step(g, r) = g[s]
      BY <2>1 DEF Found
    <3>3. r[1] \in 0 .. M /\ r[2] \in 0 .. M /\ s[1] \in 0 .. M /\ s[2] \in 0 .. M
      BY <1>1, <3>1
    <3> HIDE DEF s, R, Step
    <3>4. s[2] - s[1] <= n
      BY <1>3, <3>1, <3>3
    <3> QED BY <1>3, <3>1, <3>2, <3>4
  <2>2. CASE ~(r[1] + 1 < r[2])
    BY <2>2 DEF Found
  <2> QED BY <2>1, <2>2
<1>4. ASSUME Bad # {} PROVE FALSE
  <2>0. Bad \in SUBSET (0 .. M)
    OBVIOUS
  <2>1. PICK n \in Bad : n # 0 => n - 1 \in 0 .. M /\ n - 1 \notin Bad
    <3> HIDE DEF Bad
    <3> QED BY <1>4, <2>0, FirstOf
  <2>2. CASE n = 0
    <3> DEFINE f == [r \in R |-> r[1]]
    <3>1. f \in [R -> 0 .. M]
      BY <1>1
    <3>2. \A r \in R : r[2] - r[1] <= 0 => ~(r[1] + 1 < r[2]) /\ f[r] = r[1]
      BY <1>1
    <3>3. UpTo(0, f)
      BY <3>2 DEF Found
    <3> QED BY <2>1, <2>2, <3>1, <3>3
  <2>3. CASE n # 0
    <3>1. n - 1 \in 0 .. M /\ n - 1 \notin Bad /\ n \in 0 .. M /\ n - 1 \in Nat /\ (n - 1) + 1 = n
      BY <2>0, <2>1, <2>3
    <3>2. PICK f \in [R -> 0 .. M] : UpTo(n - 1, f)
      BY <3>1
    <3> DEFINE g == [r \in R |-> Step(f, r)]
    <3> HIDE DEF Step
    <3>3. g \in [R -> 0 .. M]
      BY <1>2
    <3>4. \A s \in R : s[2] - s[1] <= n - 1 => g[s] = f[s]
      BY <3>2
    <3> HIDE DEF R
    <3>5. \A r \in R : r[2] - r[1] <= n => Step(g, r) = Step(f, r)
      <4> HIDE DEF g
      <4>1. TAKE r \in R
      <4>2. HAVE r[2] - r[1] <= n
      <4>3. r[2] - r[1] <= (n - 1) + 1
        BY <3>1, <4>2
      <4> DEFINE before == n - 1
      <4>4. before \in Nat /\ r[2] - r[1] <= before + 1
            /\ \A s \in R : s[2] - s[1] <= before => g[s] = f[s]
        BY <3>1, <3>4, <4>3
      <4> HIDE DEF before
      <4> QED BY <1>3, <4>4
    <3>6. UpTo(n, g)
      BY <3>5
    <3> QED BY <2>1, <3>3, <3>6
  <2> HIDE DEF Bad
  <2> QED BY <2>2, <2>3
<1>5. M \in 0 .. M /\ M \notin Bad
  <2> HIDE DEF Bad
  <2> QED BY <1>4
<1>6. PICK f \in [R -> 0 .. M] : UpTo(M, f)
  BY <1>5
<1>7. \A r \in R : f[r] = Step(f, r)
  <2>1. \A r \in R : r[2] - r[1] <= M
    BY <1>1
  <2> QED BY <1>6, <2>1
<1> QED BY <1>6, <1>7 DEF Searches

\* bSearchFloor narrows the range from 0 to M.
LEMMA SearchNarrows ==
  ASSUME NEW M \in Nat, NEW value, NEW sorted
  PROVE  \E f : /\ bSearchFloor(value, sorted, 0, M) = f[<<0, M>>]
                /\ Searches(f, value, sorted, M)
<1> DEFINE IsSearch(f) == f = [r \in (0 .. M) \X (0 .. M) |-> Found(f, value, sorted, r)]
<1>1. PICK g : IsSearch(g)
  <2>1. PICK g \in [(0 .. M) \X (0 .. M) -> 0 .. M] :
          Searches(g, value, sorted, M)
    BY SearchExists, Zenon
  <2>2. IsSearch(g)
    BY <2>1 DEF Searches
  <2> HIDE DEF IsSearch
  <2> QED BY <2>2
<1> DEFINE f == CHOOSE f : IsSearch(f)
<1>2. IsSearch(f)
  <2> HIDE DEF IsSearch
  <2> QED BY <1>1
<1>3. bSearchFloor(value, sorted, 0, M) = f[<<0, M>>]
  BY Zenon DEF bSearchFloor, Found, Narrowed
<1> HIDE DEF f
<1>4. \A r \in (0 .. M) \X (0 .. M) : f[r] = Found(f, value, sorted, r)
  <2>1. TAKE r \in (0 .. M) \X (0 .. M)
  <2>2. [q \in (0 .. M) \X (0 .. M) |-> Found(f, value, sorted, q)][r] = Found(f, value, sorted, r)
    BY Zenon
  <2> QED BY <1>2, <2>2, Zenon
<1> QED BY <1>3, <1>4, Zenon DEF Searches

\* What is found lies in the range.
LEMMA FoundWithin ==
  ASSUME NEW M \in Nat, NEW value, NEW sorted, NEW f,
         Searches(f, value, sorted, M),
         NEW r \in (0 .. M) \X (0 .. M), r[1] < r[2]
  PROVE  f[r] \in r[1] .. r[2] - 1
<1> DEFINE R == (0 .. M) \X (0 .. M)
           Ill == {n \in 0 .. M : \E s \in R : s[1] < s[2] /\ s[2] - s[1] = n
                                               /\ f[s] \notin s[1] .. s[2] - 1}
<1>1. \A s \in R : s[1] \in 0 .. M /\ s[2] \in 0 .. M
  OBVIOUS
<1>2. ASSUME Ill # {} PROVE FALSE
  <2>0. Ill \in SUBSET Nat
    OBVIOUS
  <2>1. PICK n \in Ill : \A m \in Ill : n <= m
    <3> HIDE DEF Ill
    <3> QED BY <1>2, <2>0, Least
  <2>2. PICK s \in R : s[1] < s[2] /\ s[2] - s[1] = n /\ f[s] \notin s[1] .. s[2] - 1
    BY <2>1
  <2>3. f[s] = Found(f, value, sorted, s)
    BY <2>2 DEF Searches
  <2>4. CASE s[1] + 1 < s[2]
    <3> DEFINE t == Narrowed(value, sorted, s)
    <3>1. /\ t \in R /\ s[1] <= t[1] /\ t[2] <= s[2]
          /\ t[1] < t[2] /\ t[2] - t[1] <= (s[2] - s[1]) - 1
      BY <2>4, Narrows
    <3>2. f[s] = f[t]
      BY <2>3, <2>4 DEF Found
    <3> HIDE DEF t
    <3>3. s[1] \in 0 .. M /\ s[2] \in 0 .. M /\ t[1] \in 0 .. M /\ t[2] \in 0 .. M
      BY <1>1, <2>2, <3>1
    <3>4. t[2] - t[1] \in 0 .. M /\ t[2] - t[1] < n
      BY <2>2, <3>1, <3>3
    <3>5. t[2] - t[1] \notin Ill
      <4> HIDE DEF Ill
      <4>1. n \in Int
        BY <2>0, <2>1
      <4> QED BY <2>1, <3>3, <3>4, <4>1
    <3>6. f[t] \in t[1] .. t[2] - 1
      BY <3>1, <3>4, <3>5
    <3> QED BY <2>2, <3>1, <3>2, <3>3, <3>6
  <2>5. CASE ~(s[1] + 1 < s[2])
    <3>1. f[s] = s[1]
      BY <2>3, <2>5 DEF Found
    <3> QED BY <1>1, <2>2, <3>1
  <2> QED BY <2>4, <2>5
<1>3. r[2] - r[1] \in 0 .. M
  BY <1>1
<1> QED BY <1>2, <1>3

\* A symbol of b bits holds Cells[SaxCardinality - b] of those of all bits.
LEMMA CellsSplit ==
  LET C == SaxCardinality
      E(b) == Cells[C - b]
  IN  /\ C \in Nat /\ E(0) = Cells[C] /\ E(C) = 1
      /\ \A b \in 0 .. C : /\ E(b) \in Nat \ {0} /\ Cells[b] \in Nat \ {0}
                           /\ Cells[b] * E(b) = Cells[C]
      /\ \A b \in 1 .. C : E(b - 1) = 2 * E(b) /\ Cells[b] = 2 * Cells[b - 1]
<1> DEFINE C == SaxCardinality
           E(b) == Cells[C - b]
           Ill == {b \in 0 .. C : Cells[b] * E(b) # Cells[C]}
<1>1. C \in Nat /\ C \in 0 .. C
  BY SummariesAssumption
<1>2. \A b \in 0 .. C : b \in Nat /\ C - b \in 0 .. C /\ E(b) \in Nat \ {0} /\ Cells[b] \in Nat \ {0}
  BY <1>1, CellsDouble
<1>3. ASSUME NEW b \in 1 .. C PROVE E(b - 1) = 2 * E(b) /\ Cells[b] = 2 * Cells[b - 1]
  <2>1. /\ b - 1 \in 0 .. C - 1 /\ (b - 1) + 1 = b
        /\ C - b \in 0 .. C - 1 /\ (C - b) + 1 = C - (b - 1)
    BY <1>1
  <2>2. Cells[(b - 1) + 1] = 2 * Cells[b - 1] /\ Cells[(C - b) + 1] = 2 * Cells[C - b]
    BY <2>1, CellsDouble
  <2> QED BY <2>1, <2>2
<1>4. E(0) = Cells[C] /\ E(C) = 1 /\ Cells[0] = 1
  BY <1>1, CellsDouble
<1>5. ASSUME Ill # {} PROVE FALSE
  <2>0. Ill \in SUBSET (0 .. C)
    OBVIOUS
  <2>1. PICK b \in Ill : b # 0 => b - 1 \in 0 .. C /\ b - 1 \notin Ill
    <3> HIDE DEF Ill, C
    <3> QED BY <1>1, <1>5, <2>0, FirstOf
  <2>2. b \in 0 .. C /\ Cells[b] * E(b) # Cells[C]
    BY <2>1
  <2>3. b # 0
    <3>1. Cells[C] \in Nat
      BY <1>1, <1>2
    <3> QED BY <1>4, <2>2, <3>1
  <2>4. b - 1 \in 0 .. C /\ b \in 1 .. C /\ Cells[b - 1] * E(b - 1) = Cells[C]
    BY <2>1, <2>2, <2>3
  <2>5. E(b - 1) = 2 * E(b) /\ Cells[b] = 2 * Cells[b - 1]
    BY <1>3, <2>4
  <2>6. Cells[b - 1] \in Int /\ E(b) \in Int
    BY <1>2, <2>2, <2>4
  <2> HIDE DEF E
  <2>7. \A x, y \in Int : x * (2 * y) = (2 * x) * y
    OBVIOUS
  <2>8. Cells[b] * E(b) = Cells[b - 1] * E(b - 1)
    BY <2>5, <2>6, <2>7
  <2> QED BY <2>2, <2>4, <2>8
<1>6. \A b \in 0 .. C : Cells[b] * E(b) = Cells[C]
  BY <1>5
<1> HIDE DEF E
<1>7. /\ C \in Nat /\ E(0) = Cells[C] /\ E(C) = 1
      /\ \A b \in 0 .. C : /\ E(b) \in Nat \ {0} /\ Cells[b] \in Nat \ {0}
                           /\ Cells[b] * E(b) = Cells[C]
      /\ \A b \in 1 .. C : E(b - 1) = 2 * E(b) /\ Cells[b] = 2 * Cells[b - 1]
  BY <1>1, <1>2, <1>3, <1>4, <1>6
<1> QED BY <1>7 DEF E

LEMMA Halves ==
  ASSUME NEW s \in Nat, NEW E \in Nat \ {0}
  PROVE  /\ s * (2 * E) = (2 * s) * E /\ (s + 1) * (2 * E) = (2 * s + 2) * E
         /\ (s * (2 * E) + (s + 1) * (2 * E)) \div 2 = (2 * s + 1) * E
         /\ s * (2 * E) + 1 < (s + 1) * (2 * E)
<1>1. s * (2 * E) = 2 * (s * E) /\ (s + 1) * (2 * E) = 2 * (s * E) + 2 * E
      /\ (2 * s) * E = 2 * (s * E) /\ (2 * s + 2) * E = 2 * (s * E) + 2 * E
      /\ (2 * s + 1) * E = 2 * (s * E) + E
  OBVIOUS
<1> DEFINE p == s * E
<1>2. p \in Int
  OBVIOUS
<1> HIDE DEF p
<1>3. (2 * p + (2 * p + 2 * E)) \div 2 = 2 * p + E /\ 2 * p + 1 < 2 * p + 2 * E
  BY <1>2
<1> QED BY <1>1, <1>3 DEF p

\* The symbol with b bits of a value: the value lies between the breakpoints that a
\* search in fewer, coarser steps would have ended at.
LEMMA SymbolHolds ==
  ASSUME NEW value \in Int, NEW sorted, \A k \in 0 .. Cells[SaxCardinality] : sorted[k] \in Int,
         sorted[0] <= value, value < sorted[Cells[SaxCardinality]],
         NEW b \in 0 .. SaxCardinality
  PROVE  LET E == Cells[SaxCardinality - b]
             s == bSearchFloor(value, sorted, 0, Cells[SaxCardinality]) \div E
         IN  /\ s \in 0 .. Cells[b] - 1 /\ s * E \in 0 .. Cells[SaxCardinality]
             /\ (s + 1) * E \in 0 .. Cells[SaxCardinality]
             /\ sorted[s * E] <= value /\ value < sorted[(s + 1) * E]
<1> DEFINE C == SaxCardinality
           M == Cells[C]
           E(c) == Cells[C - c]
<1>1. /\ C \in Nat /\ E(0) = M /\ M \in Nat \ {0}
      /\ \A c \in 0 .. C : /\ E(c) \in Nat \ {0} /\ Cells[c] \in Nat \ {0}
                           /\ Cells[c] * E(c) = M
      /\ \A c \in 1 .. C : E(c - 1) = 2 * E(c) /\ Cells[c] = 2 * Cells[c - 1]
  <2>1. /\ C \in Nat /\ E(0) = M
        /\ \A c \in 0 .. C : /\ E(c) \in Nat \ {0} /\ Cells[c] \in Nat \ {0}
                             /\ Cells[c] * E(c) = M
        /\ \A c \in 1 .. C : E(c - 1) = 2 * E(c) /\ Cells[c] = 2 * Cells[c - 1]
    BY CellsSplit
  <2>2. M \in Nat \ {0}
    BY <2>1
  <2> QED BY <2>1, <2>2
<1>3. sorted[0] <= value /\ value < sorted[M] /\ \A k \in 0 .. M : sorted[k] \in Int
  OBVIOUS
<1> HIDE DEF M, E, C
<1>2. PICK f : /\ bSearchFloor(value, sorted, 0, M) = f[<<0, M>>]
               /\ Searches(f, value, sorted, M)
  BY <1>1, SearchNarrows, Zenon
<1>4. ASSUME NEW c \in 0 .. C, NEW s \in 0 .. Cells[c] - 1
      PROVE  s * E(c) \in 0 .. M /\ (s + 1) * E(c) \in 0 .. M /\ s * E(c) < (s + 1) * E(c)
  <2>1. E(c) \in Nat \ {0} /\ Cells[c] \in Nat \ {0} /\ Cells[c] * E(c) = M /\ s \in Nat
        /\ s + 1 <= Cells[c]
    BY <1>1
  <2>2. \A x, y, e \in Nat : x <= y => x * e <= y * e
    <3>1. TAKE x, y, e \in Nat
    <3>2. HAVE x <= y
    <3>3. y * e = x * e + (y - x) * e /\ (y - x) * e >= 0 /\ x * e \in Int
      BY <3>2
    <3> QED BY <3>3
  <2>3. (s + 1) * E(c) <= M
    BY <2>1, <2>2
  <2>4. (s + 1) * E(c) = s * E(c) + E(c) /\ s * E(c) \in Nat
    BY <2>1
  <2> QED BY <1>1, <2>1, <2>3, <2>4
<1> DEFINE Reached(c, s) == /\ f[<<0, M>>] = f[<<s * E(c), (s + 1) * E(c)>>]
                            /\ sorted[s * E(c)] <= value /\ value < sorted[(s + 1) * E(c)]
           Ill == {c \in 0 .. C : \A s \in 0 .. Cells[c] - 1 : ~Reached(c, s)}
<1>5. Reached(0, 0) /\ 0 \in 0 .. C /\ 0 \in 0 .. Cells[0] - 1
  <2>1. 0 \in 0 .. C /\ Cells[0] \in Nat \ {0}
    BY <1>1
  <2>2. 0 * E(0) = 0 /\ (0 + 1) * E(0) = M
    BY <1>1
  <2> QED BY <1>3, <2>1, <2>2
<1>6. ASSUME NEW c \in 1 .. C, NEW s \in 0 .. Cells[c - 1] - 1, Reached(c - 1, s)
      PROVE  \E t \in 0 .. Cells[c] - 1 : Reached(c, t)
  <2> DEFINE first == s * E(c - 1)
             last  == (s + 1) * E(c - 1)
             mid   == (2 * s + 1) * E(c)
             r     == <<first, last>>
  <2>1. c - 1 \in 0 .. C /\ c \in 0 .. C /\ s \in Nat /\ E(c) \in Nat \ {0}
        /\ E(c - 1) = 2 * E(c) /\ Cells[c] = 2 * Cells[c - 1] /\ Cells[c - 1] \in Nat
    BY <1>1
  <2>2. /\ first = (2 * s) * E(c) /\ last = (2 * s + 2) * E(c)
        /\ (first + last) \div 2 = mid /\ first + 1 < last
    BY <2>1, Halves
  <2>3. first \in 0 .. M /\ last \in 0 .. M
    BY <1>4, <2>1
  <2>4. 2 * s \in 0 .. Cells[c] - 1 /\ 2 * s + 1 \in 0 .. Cells[c] - 1
        /\ (2 * s + 1) + 1 = 2 * s + 2
    BY <2>1
  <2>5. f[r] = f[IF value < sorted[mid] THEN <<first, mid>> ELSE <<mid, last>>]
    <3> HIDE DEF first, last, mid
    <3>1. r \in (0 .. M) \X (0 .. M) /\ r[1] = first /\ r[2] = last
      BY <2>3
    <3>2. f[r] = Found(f, value, sorted, r)
      BY <1>2, <3>1 DEF Searches
    <3>3. r[1] + 1 < r[2]
      BY <2>2, <3>1
    <3>4. f[r] = f[Narrowed(value, sorted, r)]
      BY <3>2, <3>3, Zenon DEF Found
    <3>5. (r[1] + r[2]) \div 2 = mid
      BY <2>2, <3>1
    <3>6. Narrowed(value, sorted, r) = IF value < sorted[mid] THEN <<r[1], mid>> ELSE <<mid, r[2]>>
      <4> HIDE DEF r
      <4> QED BY <3>5, Zenon DEF Narrowed
    <3> QED BY <3>1, <3>4, <3>6, Zenon
  <2>6. f[<<0, M>>] = f[r] /\ sorted[first] <= value /\ value < sorted[last]
    BY <1>6
  <2>7. mid \in 0 .. M /\ sorted[mid] \in Int
    BY <1>3, <1>4, <2>1, <2>4
  <2>8. CASE value < sorted[mid]
    <3>1. f[<<0, M>>] = f[<<first, mid>>]
      BY <2>5, <2>6, <2>8, Zenon
    <3>2. Reached(c, 2 * s)
      <4>1. sorted[(2 * s) * E(c)] <= value /\ value < sorted[(2 * s + 1) * E(c)]
        BY <2>2, <2>6, <2>8, Zenon
      <4>2. f[<<0, M>>] = f[<<(2 * s) * E(c), (2 * s + 1) * E(c)>>]
        BY <2>2, <3>1, Zenon
      <4> QED BY <4>1, <4>2, Zenon
    <3> HIDE DEF Reached
    <3> QED BY <2>4, <3>2, Zenon
  <2>9. CASE ~(value < sorted[mid])
    <3>1. f[<<0, M>>] = f[<<mid, last>>] /\ sorted[mid] <= value
      <4>1. sorted[mid] <= value
        BY <2>7, <2>9
      <4> QED BY <2>5, <2>6, <2>9, <4>1, Zenon
    <3>2. Reached(c, 2 * s + 1)
      <4>1. sorted[(2 * s + 1) * E(c)] <= value /\ value < sorted[((2 * s + 1) + 1) * E(c)]
        BY <2>2, <2>4, <2>6, <3>1, Zenon
      <4>2. f[<<0, M>>] = f[<<(2 * s + 1) * E(c), ((2 * s + 1) + 1) * E(c)>>]
        BY <2>2, <2>4, <3>1, Zenon
      <4> QED BY <4>1, <4>2, Zenon
    <3> HIDE DEF Reached
    <3> QED BY <2>4, <3>2, Zenon
  <2> QED BY <2>8, <2>9
<1> HIDE DEF Reached
<1>7. ASSUME Ill # {} PROVE FALSE
  <2>0. Ill \in SUBSET (0 .. C)
    OBVIOUS
  <2>1. PICK c \in Ill : c # 0 => c - 1 \in 0 .. C /\ c - 1 \notin Ill
    <3> HIDE DEF Ill
    <3> QED BY <1>1, <1>7, <2>0, FirstOf
  <2>2. c # 0 /\ c \in 0 .. C
    BY <1>5, <2>1
  <2>3. PICK s \in 0 .. Cells[c - 1] - 1 : Reached(c - 1, s)
    BY <2>1, <2>2
  <2>4. c \in 1 .. C
    BY <2>2
  <2> QED BY <1>6, <2>1, <2>3, <2>4
<1>8. b \in 0 .. C
  BY DEF C
<1>9. PICK s \in 0 .. Cells[b] - 1 : Reached(b, s)
  BY <1>7, <1>8
<1> DEFINE found == f[<<0, M>>]
<1>10. /\ s * E(b) \in 0 .. M /\ (s + 1) * E(b) \in 0 .. M
       /\ s * E(b) < (s + 1) * E(b) /\ E(b) \in Nat \ {0}
  BY <1>1, <1>4, <1>8
<1>11. found \in s * E(b) .. (s + 1) * E(b) - 1
  <2> DEFINE first == s * E(b)
             last == (s + 1) * E(b)
  <2>1. found = f[<<first, last>>]
    BY <1>9 DEF Reached
  <2>2. first \in 0 .. M /\ last \in 0 .. M /\ first < last
    BY <1>10
  <2> HIDE DEF first, last, found
  <2> DEFINE r == <<first, last>>
  <2>3. r \in (0 .. M) \X (0 .. M) /\ r[1] = first /\ r[2] = last
    BY <2>2
  <2> HIDE DEF r
  <2>4. f[r] \in r[1] .. r[2] - 1
    BY <1>1, <1>2, <2>2, <2>3, FoundWithin
  <2> QED BY <2>1, <2>3, <2>4 DEF first, last, r
<1>12. found \div E(b) = s
  <2> DEFINE e == E(b)
  <2>1. found \in Nat /\ s \in Nat /\ e \in Nat \ {0} /\ s * e <= found /\ found < (s + 1) * e
    BY <1>10, <1>11
  <2> HIDE DEF found, e
  <2>2. found \div e = s
    BY <2>1
  <2> QED BY <2>2 DEF e
<1>13. sorted[s * E(b)] <= value /\ value < sorted[(s + 1) * E(b)]
  BY <1>9 DEF Reached
<1> QED BY <1>2, <1>10, <1>12, <1>13 DEF E, C, M

-----------------------------------------------------------------------------
(* Breakpoints *)

LEMMA ExtractedBounds ==
  ASSUME NEW s \in Sources, NEW b \in Bits
  PROVE  LET bounds == extractBreakpoints8(s.memory, s.length)[b]
         IN  /\ bounds[0] = VALUE_MIN /\ bounds[Cells[b]] = VALUE_MAX
             /\ \A m \in 1 .. Cells[b] - 1 : bounds[m] = s.memory[m * RangeLength(s.length, b)]
             /\ \A m \in 0 .. Cells[b] : bounds[m] \in Int
<1> DEFINE bounds == extractBreakpoints8(s.memory, s.length)[b]
           c == Cells[b]
           Value(m) == s.memory[m * RangeLength(s.length, b)]
<1>1. c \in Nat \ {0} /\ VALUE_MIN \in Int /\ VALUE_MAX \in Int
  <2>1. b \in 0 .. SaxCardinality
    BY SummariesAssumption DEF Bits
  <2> QED BY <2>1, CellsDouble, SummariesAssumption
<1>2. \A m \in 1 .. c - 1 : Value(m) \in Int
  BY SourcesAssumption
<1>3. bounds = [m \in 0 .. c |-> IF m = 0 THEN VALUE_MIN ELSE IF m = c THEN VALUE_MAX ELSE Value(m)]
  BY Zenon DEF extractBreakpoints8
<1> HIDE DEF bounds, c, Value
<1>4. /\ bounds[0] = VALUE_MIN /\ bounds[c] = VALUE_MAX
      /\ \A m \in 1 .. c - 1 : bounds[m] = Value(m)
  BY <1>1, <1>3
<1>5. \A m \in 0 .. c : bounds[m] \in Int
  <2>1. TAKE m \in 0 .. c
  <2>2. m = 0 \/ m = c \/ m \in 1 .. c - 1
    BY <1>1
  <2> QED BY <1>1, <1>2, <1>4, <2>2
<1> QED BY <1>4, <1>5 DEF bounds, c, Value

\* In a table that is as long as NORMAL_BREAKPOINTS_8 the breakpoints of few bits are
\* among those of more: where a symbol of b bits ends, one of all bits does.
LEMMA NestedBounds ==
  ASSUME NEW s \in Sources, Nested(s.length), NEW b \in Bits, NEW m \in 0 .. Cells[b]
  PROVE  LET C == SaxCardinality
             bounds == extractBreakpoints8(s.memory, s.length)
         IN  bounds[b][m] = bounds[C][m * Cells[C - b]]
<1> DEFINE C == SaxCardinality
           bounds == extractBreakpoints8(s.memory, s.length)
           e == Cells[C - b]
           c == Cells[b]
           M == Cells[C]
           q == s.length \div M
           RL(a) == RangeLength(s.length, a)
<1>1. b \in 0 .. C /\ C \in Bits /\ b \in Bits
  BY SummariesAssumption DEF Bits
<1>2. c \in Nat \ {0} /\ e \in Nat \ {0} /\ c * e = M /\ M \in Nat \ {0}
  <2>1. \A a \in 0 .. C : Cells[C - a] \in Nat \ {0} /\ Cells[a] \in Nat \ {0}
                          /\ Cells[a] * Cells[C - a] = Cells[C]
    BY CellsSplit
  <2>2. C \in 0 .. C
    BY <1>1
  <2> QED BY <1>1, <2>1, <2>2
<1>3. s.length \in Nat /\ s.length % M = M - 1
  BY SourcesAssumption DEF Nested
<1>4. RL(b) = 1 + s.length \div c /\ RL(C) = 1 + q
  BY DEF RangeLength
<1>5. /\ bounds[b][0] = VALUE_MIN /\ bounds[b][c] = VALUE_MAX
      /\ \A k \in 1 .. c - 1 : bounds[b][k] = s.memory[k * RL(b)]
      /\ bounds[C][0] = VALUE_MIN /\ bounds[C][M] = VALUE_MAX
      /\ \A k \in 1 .. M - 1 : bounds[C][k] = s.memory[k * RL(C)]
  BY <1>1, ExtractedBounds
<1>6. m \in 0 .. c
  OBVIOUS
<1> HIDE DEF bounds, e, c, M, RL
<1>7. q \in Nat /\ s.length = q * M + (M - 1)
  BY <1>2, <1>3
<1> HIDE DEF q
<1>8. RL(b) = (q + 1) * e
  <2> DEFINE p == (q + 1) * e
  <2>1. (q + 1) * M = p * c
    <3>1. \A x, y, z \in Int : x * (y * z) = (x * z) * y
      OBVIOUS
    <3> QED BY <1>2, <1>7, <3>1
  <2>2. (q + 1) * M = q * M + M
    BY <1>2, <1>7
  <2>3. p \in Nat \ {0}
    BY <1>2, <1>7
  <2> HIDE DEF p
  <2>4. (p - 1) * c = p * c - c /\ p * c \in Int /\ q * M \in Int
    BY <1>2, <1>7, <2>3
  <2>5. s.length = (p - 1) * c + (c - 1)
    BY <1>2, <1>7, <2>1, <2>2, <2>4
  <2> DEFINE o == p - 1
             n == s.length
  <2>6. o \in Nat /\ n = o * c + (c - 1) /\ n \in Nat
    BY <1>3, <2>3, <2>5
  <2>7. n \div c = o
    <3> HIDE DEF o, n
    <3>1. o * c <= n /\ n < (o + 1) * c
      BY <1>2, <2>6
    <3> QED BY <1>2, <2>6, <3>1
  <2> QED BY <1>4, <2>3, <2>7 DEF p
<1>9. CASE m = 0
  <2>1. m * e = 0
    BY <1>2, <1>9
  <2> QED BY <1>5, <1>9, <2>1 DEF e, bounds
<1>10. CASE m = c
  <2> QED BY <1>2, <1>5, <1>10 DEF e, bounds
<1>11. CASE m # 0 /\ m # c
  <2>1. m \in 1 .. c - 1 /\ m \in Nat
    BY <1>2, <1>6, <1>11
  <2>2. m * e \in 1 .. M - 1
    <3>1. m * e >= e /\ (c - m) * e >= e /\ (c - m) * e = c * e - m * e
      BY <1>2, <2>1
    <3> QED BY <1>2, <2>1, <3>1
  <2>3. m * RL(b) = (m * e) * RL(C)
    <3>1. \A x, y, z \in Int : x * (y * z) = (x * z) * y
      OBVIOUS
    <3>2. m \in Int /\ e \in Int /\ q + 1 \in Int /\ RL(C) = q + 1
      BY <1>2, <1>4, <1>7, <2>1
    <3> QED BY <1>8, <3>1, <3>2
  <2>4. bounds[b][m] = s.memory[m * RL(b)] /\ bounds[C][m * e] = s.memory[(m * e) * RL(C)]
    BY <1>5, <2>1, <2>2
  <2> QED BY <2>3, <2>4 DEF e, bounds
<1> QED BY <1>9, <1>10, <1>11

\* In a state with a word, and breakpoints that are nested or in order: the mean of a
\* segment is among the bounds of its symbol, or the bounds at least are in order.
Worded ==
  /\ means \in Means /\ query \in Queries
  /\ \E s \in Sources : breakpoints = extractBreakpoints8(s.memory, s.length)
  /\ sax = [g \in Segments |->
              bSearchFloor(means[g], breakpoints[SaxCardinality], 0, Cells[SaxCardinality])]

LEMMA ValuesType ==
  ASSUME Worded
  PROVE  \A g \in Segments : /\ means[g] \in Int /\ query[g] \in Int
                             /\ VALUE_MIN <= means[g] /\ means[g] < VALUE_MAX
<1>1. means \in [Segments -> VALUE_MIN .. VALUE_MAX - 1] /\ query \in [Segments -> VALUE_MIN .. VALUE_MAX]
  BY SummariesAssumption DEF Worded
<1>2. \A g \in Segments : means[g] \in VALUE_MIN .. VALUE_MAX - 1 /\ query[g] \in VALUE_MIN .. VALUE_MAX
  BY <1>1
<1> QED BY <1>2, SummariesAssumption

LEMMA SymbolType ==
  ASSUME Worded, NEW s \in Sources, breakpoints = extractBreakpoints8(s.memory, s.length),
         NEW g \in Segments, NEW b \in Bits
  PROVE  LET e == Cells[SaxCardinality - b]
         IN  /\ Symbol(g, b) \in 0 .. Cells[b] - 1
             /\ Floor(g, b) = breakpoints[b][Symbol(g, b)] /\ Floor(g, b) \in Int
             /\ Ceiling(g, b) = breakpoints[b][Symbol(g, b) + 1] /\ Ceiling(g, b) \in Int
             /\ breakpoints[SaxCardinality][Symbol(g, b) * e] <= means[g]
             /\ means[g] < breakpoints[SaxCardinality][(Symbol(g, b) + 1) * e]
<1> DEFINE C == SaxCardinality
           M == Cells[C]
           e == Cells[C - b]
           sorted == breakpoints[C]
<1>1. b \in 0 .. C /\ C \in Bits /\ C \in 0 .. C
  BY SummariesAssumption DEF Bits
<1>2. /\ means[g] \in Int /\ VALUE_MIN <= means[g] /\ means[g] < VALUE_MAX
  BY ValuesType
<1>3. sorted[0] = VALUE_MIN /\ sorted[M] = VALUE_MAX /\ \A k \in 0 .. M : sorted[k] \in Int
  BY <1>1, ExtractedBounds
<1>4. sax[g] = bSearchFloor(means[g], sorted, 0, M)
  BY DEF Worded
<1>5. Symbol(g, b) = bSearchFloor(means[g], sorted, 0, M) \div e
  BY <1>4 DEF Symbol
<1> HIDE DEF sorted
<1>6. LET symbol == bSearchFloor(means[g], sorted, 0, M) \div e
      IN  /\ symbol \in 0 .. Cells[b] - 1
          /\ sorted[symbol * e] <= means[g] /\ means[g] < sorted[(symbol + 1) * e]
  BY <1>1, <1>2, <1>3, SymbolHolds
<1>7. /\ Symbol(g, b) \in 0 .. Cells[b] - 1
      /\ sorted[Symbol(g, b) * e] <= means[g] /\ means[g] < sorted[(Symbol(g, b) + 1) * e]
  BY <1>5, <1>6
<1>8. Cells[b] \in Nat
  BY <1>1, CellsDouble
<1>9. \A m \in 0 .. Cells[b] : breakpoints[b][m] \in Int
  BY ExtractedBounds
<1>10. Symbol(g, b) \in 0 .. Cells[b] /\ Symbol(g, b) + 1 \in 0 .. Cells[b]
  BY <1>7, <1>8
<1> QED BY <1>7, <1>9, <1>10 DEF Floor, Ceiling, sorted

LEMMA MeanWithin ==
  ASSUME Worded, NEW s \in Sources, breakpoints = extractBreakpoints8(s.memory, s.length),
         Nested(s.length), NEW g \in Segments, NEW b \in Bits
  PROVE  Floor(g, b) <= means[g] /\ means[g] < Ceiling(g, b)
<1> DEFINE m == Symbol(g, b)
<1>1. b \in 0 .. SaxCardinality
  BY SummariesAssumption DEF Bits
<1>2. Cells[b] \in Nat
  BY <1>1, CellsDouble
<1>3. /\ m \in 0 .. Cells[b] - 1
      /\ Floor(g, b) = breakpoints[b][m] /\ Ceiling(g, b) = breakpoints[b][m + 1]
      /\ breakpoints[SaxCardinality][m * Cells[SaxCardinality - b]] <= means[g]
      /\ means[g] < breakpoints[SaxCardinality][(m + 1) * Cells[SaxCardinality - b]]
  BY SymbolType
<1> HIDE DEF m
<1>4. m \in 0 .. Cells[b] /\ m + 1 \in 0 .. Cells[b]
  BY <1>2, <1>3
<1>5. \A k \in 0 .. Cells[b] :
        breakpoints[b][k] = breakpoints[SaxCardinality][k * Cells[SaxCardinality - b]]
  BY NestedBounds
<1> QED BY <1>3, <1>4, <1>5

LEMMA BoundsInOrder ==
  ASSUME Worded, \A s \in Sources : Nested(s.length) \/ InOrder(s),
         NEW g \in Segments, NEW b \in Bits
  PROVE  Floor(g, b) \in Int /\ Ceiling(g, b) \in Int /\ Floor(g, b) <= Ceiling(g, b)
<1>1. PICK s \in Sources : breakpoints = extractBreakpoints8(s.memory, s.length)
  BY DEF Worded
<1>2. Floor(g, b) \in Int /\ Ceiling(g, b) \in Int
  BY <1>1, SymbolType
<1>3. CASE Nested(s.length)
  <2>1. Floor(g, b) <= means[g] /\ means[g] < Ceiling(g, b)
    BY <1>1, <1>3, MeanWithin
  <2>2. means[g] \in Int
    BY ValuesType
  <2> QED BY <1>2, <2>1, <2>2
<1>4. CASE InOrder(s)
  <2>1. /\ Symbol(g, b) \in 0 .. Cells[b] - 1
        /\ Floor(g, b) = breakpoints[b][Symbol(g, b)]
        /\ Ceiling(g, b) = breakpoints[b][Symbol(g, b) + 1]
    BY <1>1, SymbolType
  <2>2. \A m \in 0 .. Cells[b] - 1 : breakpoints[b][m] <= breakpoints[b][m + 1]
    BY <1>1, <1>4 DEF InOrder
  <2>3. breakpoints[b][Symbol(g, b)] <= breakpoints[b][Symbol(g, b) + 1]
    BY <2>1, <2>2
  <2> QED BY <1>2, <2>1, <2>3
<1> QED BY <1>1, <1>3, <1>4

\* A vector computes both parts of a gap, of which one is none.
LEMMA GapsAgree ==
  ASSUME Worded, \A s \in Sources : Nested(s.length) \/ InOrder(s),
         NEW g \in Segments, NEW b \in Bits
  PROVE  GapSIMD(g, b) = Gap(g, b) /\ Gap(g, b) \in Int /\ Gap(g, b) * Gap(g, b) \in Int
<1>1. Floor(g, b) \in Int /\ Ceiling(g, b) \in Int /\ Floor(g, b) <= Ceiling(g, b)
  BY BoundsInOrder
<1>2. query[g] \in Int
  BY ValuesType
<1>3. GapSIMD(g, b) = Gap(g, b) /\ Gap(g, b) \in Int
  BY <1>1, <1>2 DEF GapSIMD, Gap, Below, Above
<1>4. \A x \in Int : x * x \in Int
  OBVIOUS
<1> QED BY <1>3, <1>4

\* A query is at least as far from the mean of a segment as from its symbol.
LEMMA GapWithin ==
  ASSUME Worded, \A s \in Sources : Nested(s.length), NEW g \in Segments, NEW b \in Bits
  PROVE  Gap(g, b) * Gap(g, b) <= (query[g] - means[g]) * (query[g] - means[g])
<1>1. PICK s \in Sources : breakpoints = extractBreakpoints8(s.memory, s.length)
  BY DEF Worded
<1>2. Floor(g, b) \in Int /\ Ceiling(g, b) \in Int
  BY <1>1, SymbolType
<1>3. Floor(g, b) <= means[g] /\ means[g] < Ceiling(g, b)
  BY <1>1, MeanWithin
<1>4. query[g] \in Int /\ means[g] \in Int
  BY ValuesType
<1> DEFINE gap == Gap(g, b)
           d == query[g] - means[g]
<1>5. gap \in Nat /\ d \in Int /\ (gap <= d \/ gap <= -d)
  BY <1>2, <1>3, <1>4 DEF Gap, Below, Above
<1> HIDE DEF gap, d
<1>6. \A x, y \in Nat : x <= y => x * x <= y * y
  <2>1. TAKE x, y \in Nat
  <2>2. HAVE x <= y
  <2>3. y * y = x * x + (y - x) * (y + x) /\ (y - x) * (y + x) >= 0 /\ x * x \in Int
        /\ (y - x) * (y + x) \in Int
    BY <2>2
  <2> QED BY <2>3
<1>7. (-d) * (-d) = d * d
  BY <1>5
<1>8. CASE gap <= d
  <2>1. d \in Nat
    BY <1>5, <1>8
  <2> QED BY <1>5, <1>6, <1>8, <2>1 DEF gap, d
<1>9. CASE gap <= -d
  <2>1. -d \in Nat
    BY <1>5, <1>9
  <2>2. gap * gap <= (-d) * (-d)
    BY <1>5, <1>6, <1>9, <2>1
  <2>3. gap * gap <= d * d
    BY <1>7, <2>2
  <2> QED BY <2>3 DEF gap, d
<1> QED BY <1>5, <1>8, <1>9

-----------------------------------------------------------------------------
(* Segments *)

\* Where segments end: the first ones are longer by one value.
LEMMA SegmentEnds ==
  LET q == SeriesLength \div SaxLength
      r == SeriesLength % SaxLength
  IN  /\ q \in Nat /\ r \in Nat /\ r < SaxLength /\ SeriesLength = SaxLength * q + r
      /\ \A n \in 0 .. SaxLength :
           SumOver(segment_lengths, 0 .. n - 1) = n * q + (IF n < r THEN n ELSE r)
<1> DEFINE K == SaxLength
           q == SeriesLength \div K
           r == SeriesLength % K
           P(n) == SumOver(segment_lengths, 0 .. n - 1)
           Ill == {n \in 0 .. K : P(n) # n * q + (IF n < r THEN n ELSE r)}
<1>1. K \in Nat \ {0} /\ SeriesLength \in Nat
  BY SummariesAssumption
<1>2. q \in Nat /\ r \in Nat /\ r < K /\ SeriesLength = K * q + r
  BY <1>1
<1>3. \A g \in 0 .. K - 1 : segment_lengths[g] = q + (IF g < r THEN 1 ELSE 0)
  BY DEF segment_lengths, Segments, SegmentLength
<1> HIDE DEF q, r
<1>4. \A g \in 0 .. K - 1 : segment_lengths[g] \in Int
  BY <1>2, <1>3
<1>5. P(0) = 0 /\ \A g \in 0 .. K - 1 : P(g + 1) = P(g) + segment_lengths[g]
  <2>1. /\ SumOver(segment_lengths, 0 .. -1) = 0
        /\ \A n \in 0 .. K - 1 : SumOver(segment_lengths, 0 .. n)
                                 = SumOver(segment_lengths, 0 .. n - 1) + segment_lengths[n]
    BY <1>1, <1>4, Prefixes
  <2>2. 0 - 1 = -1 /\ \A n \in 0 .. K - 1 : (n + 1) - 1 = n
    OBVIOUS
  <2> QED BY <2>1, <2>2
<1> HIDE DEF P, K
<1>6. ASSUME Ill # {} PROVE FALSE
  <2>0. Ill \in SUBSET (0 .. K)
    OBVIOUS
  <2>1. PICK n \in Ill : n # 0 => n - 1 \in 0 .. K /\ n - 1 \notin Ill
    <3> HIDE DEF Ill
    <3> QED BY <1>1, <1>6, <2>0, FirstOf
  <2>2. n \in 0 .. K /\ P(n) # n * q + (IF n < r THEN n ELSE r)
    BY <2>1
  <2>3. n # 0
    BY <1>2, <1>5, <2>2
  <2> DEFINE m == n - 1
  <2>4. m \in 0 .. K - 1 /\ m + 1 = n /\ m \in Nat /\ P(m) = m * q + (IF m < r THEN m ELSE r)
    BY <1>1, <2>1, <2>2, <2>3
  <2>5. P(n) = P(m) + (q + (IF m < r THEN 1 ELSE 0))
    <3> HIDE DEF m
    <3>1. P(m + 1) = P(m) + segment_lengths[m]
      BY <1>5, <2>4
    <3> QED BY <1>3, <2>4, <3>1
  <2>6. n * q = m * q + q /\ m * q \in Int
    BY <1>2, <2>2
  <2> DEFINE x == m * q
             y == n * q
  <2>7. y = x + q /\ x \in Int /\ P(m) = x + (IF m < r THEN m ELSE r) /\ n = m + 1
        /\ P(n) # y + (IF n < r THEN n ELSE r)
    BY <2>2, <2>4, <2>6
  <2> HIDE DEF x, y, m
  <2> QED BY <1>2, <2>4, <2>5, <2>7
<1>7. \A n \in 0 .. K : P(n) = n * q + (IF n < r THEN n ELSE r)
  BY <1>6
<1> QED BY <1>2, <1>7 DEF P, K, q, r

\* Every value of a series belongs to a segment.
LEMMA SegmentsHold ==
  /\ SegmentOf \in [Places -> Segments]
  /\ EqualSegments =>
       LET q == SeriesLength \div SaxLength
       IN  /\ q \in Nat \ {0} /\ SeriesLength = SaxLength * q
           /\ \A g \in Segments : /\ SegmentLength(g) = q
                                  /\ {i \in Places : SegmentOf[i] = g} = g * q .. (g + 1) * q - 1
<1> DEFINE K == SaxLength
           q == SeriesLength \div K
           r == SeriesLength % K
           Ended(i) == {g \in Segments : SegmentEnd(g) <= i}
<1>1. K \in Nat \ {0} /\ SeriesLength \in Nat \ {0}
  BY SummariesAssumption
<1>2. /\ q \in Nat /\ r \in Nat /\ r < K /\ SeriesLength = K * q + r
      /\ \A n \in 0 .. K : SumOver(segment_lengths, 0 .. n - 1) = n * q + (IF n < r THEN n ELSE r)
  BY SegmentEnds
<1> HIDE DEF q, r
<1>3. \A g \in Segments :
        SegmentEnd(g) = (g + 1) * q + (IF g + 1 < r THEN g + 1 ELSE r)
  <2>1. TAKE g \in Segments
  <2>2. g + 1 \in 0 .. K /\ (g + 1) - 1 = g
    BY <1>1 DEF Segments
  <2>3. SumOver(segment_lengths, 0 .. (g + 1) - 1) = (g + 1) * q + (IF g + 1 < r THEN g + 1 ELSE r)
    BY <1>2, <2>2
  <2> QED BY <2>2, <2>3 DEF SegmentEnd
<1>4. K - 1 \in Segments /\ SegmentEnd(K - 1) = SeriesLength
  <2>1. K - 1 \in Segments /\ (K - 1) + 1 = K
    BY <1>1 DEF Segments
  <2>2. SegmentEnd(K - 1) = K * q + r
    <3> DEFINE last == K - 1
    <3>1. SegmentEnd(last) = (last + 1) * q + (IF last + 1 < r THEN last + 1 ELSE r)
      BY <1>3, <2>1
    <3>2. last + 1 = K /\ ~(K < r)
      BY <1>1, <1>2
    <3> HIDE DEF last
    <3>3. SegmentEnd(last) = K * q + r
      BY <3>1, <3>2
    <3> QED BY <3>3 DEF last
  <2> QED BY <1>2, <2>1, <2>2
<1>5. ASSUME NEW i \in Places PROVE Cardinality(Ended(i)) \in Segments
  <2>1. K - 1 \notin Ended(i)
    BY <1>1, <1>4 DEF Places
  <2>2. Ended(i) \subseteq 0 .. K - 2
    BY <1>1, <2>1 DEF Segments
  <2>3. IsFiniteSet(0 .. K - 2) /\ Cardinality(0 .. K - 2) = K - 1
    <3>1. 0 \in Int /\ K - 2 \in Int
      BY <1>1
    <3>2. IsFiniteSet(0 .. K - 2)
          /\ Cardinality(0 .. K - 2) = IF 0 > K - 2 THEN 0 ELSE (K - 2) - 0 + 1
      BY <3>1, FS_Interval
    <3> QED BY <1>1, <3>2
  <2>4. Cardinality(Ended(i)) <= K - 1 /\ Cardinality(Ended(i)) \in Nat
    <3> HIDE DEF Ended
    <3>1. IsFiniteSet(Ended(i)) /\ Cardinality(Ended(i)) <= Cardinality(0 .. K - 2)
      BY <2>2, <2>3, FS_Subset
    <3> QED BY <2>3, <3>1, FS_CardinalityType
  <2> QED BY <1>1, <2>4 DEF Segments
<1>6. SegmentOf = [i \in Places |-> Cardinality(Ended(i))]
  BY DEF SegmentOf
<1>7. SegmentOf \in [Places -> Segments]
  <2> HIDE DEF Ended
  <2> QED BY <1>5, <1>6
<1>8. ASSUME EqualSegments
      PROVE  /\ q \in Nat \ {0} /\ SeriesLength = K * q
             /\ \A g \in Segments : /\ SegmentLength(g) = q
                                    /\ {i \in Places : SegmentOf[i] = g} = g * q .. (g + 1) * q - 1
  <2>1. r = 0
    BY <1>8 DEF EqualSegments, r
  <2>2. q \in Nat \ {0} /\ SeriesLength = K * q
    BY <1>1, <1>2, <2>1
  <2>3. \A g \in Segments : SegmentLength(g) = q
    <3>1. TAKE g \in Segments
    <3>2. ~(g < r)
      BY <2>1 DEF Segments
    <3>3. SegmentLength(g) = q + (IF g < r THEN 1 ELSE 0)
      BY DEF SegmentLength, q, r
    <3> QED BY <2>2, <3>2, <3>3
  <2>4. \A g \in Segments : SegmentEnd(g) = (g + 1) * q /\ g \in Nat
    <3>1. TAKE g \in Segments
    <3>2. g \in Nat /\ ~(g + 1 < r)
      BY <2>1 DEF Segments
    <3>3. SegmentEnd(g) = (g + 1) * q + r
      BY <1>3, <3>2
    <3>4. (g + 1) * q \in Int
      BY <2>2, <3>2
    <3> QED BY <2>1, <3>2, <3>3, <3>4
  <2>5. ASSUME NEW i \in Places
        PROVE  SegmentOf[i] = i \div q /\ i \in Nat
    <3> DEFINE d == i \div q
    <3>1. i \in Nat /\ i < K * q
      BY <2>2 DEF Places
    <3>2. d \in Nat /\ d * q <= i /\ i < (d + 1) * q
      <4>1. i = q * d + (i % q) /\ i % q \in 0 .. q - 1 /\ d \in Nat
        BY <2>2, <3>1
      <4>2. q * d = d * q /\ (d + 1) * q = d * q + q /\ d * q \in Int
        BY <2>2, <4>1
      <4> HIDE DEF d
      <4> QED BY <2>2, <3>1, <4>1, <4>2
    <3> HIDE DEF d
    <3>3. \A x, y \in Nat : x * q < y * q <=> x < y
      <4>1. TAKE x, y \in Nat
      <4>2. x < y => x * q < y * q
        <5>1. HAVE x < y
        <5>2. y * q = x * q + (y - x) * q /\ (y - x) * q > 0 /\ x * q \in Int /\ (y - x) * q \in Int
          BY <2>2, <5>1
        <5> QED BY <5>2
      <4>3. y <= x => y * q <= x * q
        <5>1. HAVE y <= x
        <5>2. x * q = y * q + (x - y) * q /\ (x - y) * q >= 0 /\ y * q \in Int /\ (x - y) * q \in Int
          BY <2>2, <5>1
        <5> QED BY <5>2
      <4>4. x * q \in Int /\ y * q \in Int
        BY <2>2
      <4> QED BY <4>2, <4>3, <4>4
    <3>4. \A g \in Segments : (g + 1) * q <= i <=> g < d
      <4>1. TAKE g \in Segments
      <4>2. g \in Nat /\ g + 1 \in Nat /\ d + 1 \in Nat /\ d * q \in Int /\ (g + 1) * q \in Int
            /\ (d + 1) * q \in Int
        BY <2>2, <2>4, <3>2
      <4>3. g < d => (g + 1) * q <= i
        <5>1. HAVE g < d
        <5>2. ~(d * q < (g + 1) * q)
          BY <3>2, <3>3, <4>2, <5>1
        <5> QED BY <3>1, <3>2, <4>2, <5>2
      <4>4. (g + 1) * q <= i => g < d
        <5>1. HAVE (g + 1) * q <= i
        <5>2. (g + 1) * q < (d + 1) * q
          BY <3>1, <3>2, <4>2, <5>1
        <5>3. g + 1 < d + 1
          BY <3>3, <4>2, <5>2
        <5> QED BY <3>2, <4>2, <5>3
      <4> QED BY <4>3, <4>4
    <3>5. d < K
      <4>1. d * q < K * q
        <5>1. d * q \in Int /\ K * q \in Int
          BY <1>1, <2>2, <3>2
        <5> QED BY <3>1, <3>2, <5>1
      <4> QED BY <1>1, <3>2, <3>3, <4>1
    <3>6. Ended(i) = 0 .. d - 1
      <4>1. \A g \in Segments : SegmentEnd(g) <= i <=> g < d
        BY <2>4, <3>4
      <4>2. Segments = 0 .. K - 1
        BY DEF Segments
      <4> QED BY <1>1, <3>2, <3>5, <4>1, <4>2
    <3>7. Cardinality(0 .. d - 1) = d
      <4>1. 0 \in Int /\ d - 1 \in Int
        BY <3>2
      <4>2. Cardinality(0 .. d - 1) = IF 0 > d - 1 THEN 0 ELSE (d - 1) - 0 + 1
        BY <4>1, FS_Interval
      <4> QED BY <3>2, <4>2
    <3>8. SegmentOf[i] = Cardinality(Ended(i))
      BY <1>6
    <3> HIDE DEF Ended
    <3> QED BY <3>1, <3>6, <3>7, <3>8 DEF d
  <2>6. ASSUME NEW g \in Segments
        PROVE  {i \in Places : SegmentOf[i] = g} = g * q .. (g + 1) * q - 1
    <3>1. g \in Nat /\ g + 1 <= K /\ (g + 1) * q = g * q + q /\ g * q \in Nat
      BY <1>1, <2>2, <2>4 DEF Segments
    <3>2. (g + 1) * q <= K * q
      <4>1. K * q = (g + 1) * q + (K - (g + 1)) * q /\ (K - (g + 1)) * q >= 0
            /\ (K - (g + 1)) * q \in Int /\ (g + 1) * q \in Int
        BY <1>1, <2>2, <3>1
      <4> QED BY <4>1
    <3>3. \A i \in Nat : i \div q = g <=> g * q <= i /\ i < (g + 1) * q
      <4>1. TAKE i \in Nat
      <4>2. g * q <= i /\ i < (g + 1) * q => i \div q = g
        BY <2>2, <3>1
      <4>3. i \div q = g => g * q <= i /\ i < (g + 1) * q
        <5>1. HAVE i \div q = g
        <5>2. i = q * (i \div q) + (i % q) /\ i % q \in 0 .. q - 1
          BY <2>2
        <5>3. q * g = g * q
          BY <2>2, <3>1
        <5>4. i = g * q + (i % q)
          BY <5>1, <5>2, <5>3
        <5> QED BY <2>2, <3>1, <5>2, <5>4
      <4> QED BY <4>2, <4>3
    <3>4. \A i \in Places : SegmentOf[i] = g <=> g * q <= i /\ i < (g + 1) * q
      BY <2>5, <3>3
    <3>5. Places = 0 .. K * q - 1
      BY <2>2 DEF Places
    <3> DEFINE a == g * q
               z == (g + 1) * q
               n == K * q
    <3>6. a \in Nat /\ z \in Int /\ z <= n /\ n \in Int
      BY <1>1, <2>2, <3>1, <3>2
    <3>7. \A i \in Places : SegmentOf[i] = g <=> a <= i /\ i < z
      BY <3>4
    <3>8. Places = 0 .. n - 1
      BY <3>5
    <3> HIDE DEF a, z, n
    <3>9. {i \in Places : SegmentOf[i] = g} = a .. z - 1
      BY <3>6, <3>7, <3>8
    <3> QED BY <3>9 DEF a, z
  <2> QED BY <2>2, <2>3, <2>6
<1> QED BY <1>7, <1>8 DEF q

-----------------------------------------------------------------------------
(* Distances to words *)

\* One vector or two, or one and the other segments one by one, hold every segment once.
LEMMA VectorsSumGaps ==
  ASSUME Worded, \A s \in Sources : Nested(s.length) \/ InOrder(s),
         vector \in VectorLengths, NEW bits \in [Segments -> Bits]
  PROVE  /\ SumByVectors(bits) = SumOver(GapSquares(bits), Segments)
         /\ SumOver(GapSquares(bits), Segments) \in Int
         /\ \A g \in Segments : GapSquares(bits)[g] = Gap(g, bits[g]) * Gap(g, bits[g])
                                /\ GapSquares(bits)[g] \in Int
<1> DEFINE F == GapSquares(bits)
           FV == GapSquaresSIMD(bits)
           K == SaxLength
           v == vector
<1>1. \A g \in Segments : /\ F[g] = Gap(g, bits[g]) * Gap(g, bits[g]) /\ F[g] \in Int
                          /\ FV[g] = F[g]
  <2>1. TAKE g \in Segments
  <2>2. bits[g] \in Bits
    OBVIOUS
  <2>3. /\ GapSIMD(g, bits[g]) = Gap(g, bits[g])
        /\ Gap(g, bits[g]) * Gap(g, bits[g]) \in Int
    BY <2>2, GapsAgree
  <2>4. /\ F[g] = Gap(g, bits[g]) * Gap(g, bits[g])
        /\ FV[g] = GapSIMD(g, bits[g]) * GapSIMD(g, bits[g])
    BY DEF GapSquares, GapSquaresSIMD
  <2> QED BY <2>3, <2>4
<1>2. v \in Nat /\ v <= K /\ K <= 2 * v /\ K \in Nat \ {0} /\ Segments = 0 .. K - 1
  BY SummariesAssumption DEF Segments
<1> HIDE DEF F, FV, K, v
<1>3. ASSUME NEW S \in SUBSET Segments PROVE SumOver(FV, S) = SumOver(F, S) /\ IsFiniteSet(S)
  <2>1. IsFiniteSet(S)
    <3>1. IsFiniteSet(Segments)
      BY <1>2, FS_Interval
    <3> QED BY <3>1, FS_Subset
  <2>2. \A x \in S : FV[x] \in Int /\ FV[x] = F[x]
    BY <1>1
  <2> QED BY <2>1, <2>2, SumCongruent
<1>4. SumOver(F, Segments) \in Int
  BY <1>1, <1>3, SumType
<1>5. SumOver(FV, 0 .. v - 1) = SumOver(F, 0 .. v - 1) /\ SumOver(F, 0 .. v - 1) \in Int
  <2>1. 0 .. v - 1 \in SUBSET Segments
    BY <1>2
  <2>2. \A x \in 0 .. v - 1 : F[x] \in Int
    BY <1>1, <2>1
  <2> QED BY <1>3, <2>1, <2>2, SumType
<1>6. SumOver(F, Segments) = SumOver(F, 0 .. v - 1) + SumOver(F, v .. K - 1)
  <2> DEFINE A == 0 .. v - 1
             B == v .. K - 1
  <2>1. Segments = A \cup B /\ A \cap B = {} /\ A \in SUBSET Segments /\ B \in SUBSET Segments
    BY <1>2
  <2> HIDE DEF A, B
  <2>2. IsFiniteSet(A) /\ IsFiniteSet(B) /\ \A x \in A \cup B : F[x] \in Int
    BY <1>1, <1>3, <2>1
  <2>3. SumOver(F, A \cup B) = SumOver(F, A) + SumOver(F, B)
    BY <2>1, <2>2, SumDisjoint
  <2> QED BY <2>1, <2>3 DEF A, B
<1>7. SumByVectors(bits) =
        SumOver(FV, 0 .. v - 1)
        + IF K = 2 * v THEN SumOver(FV, v .. 2 * v - 1)
          ELSE IF K = v THEN 0 ELSE SumOver(F, v .. K - 1)
  BY Zenon DEF SumByVectors, F, FV, K, v
<1>8. CASE K = 2 * v
  <2>1. SumByVectors(bits) = SumOver(FV, 0 .. v - 1) + SumOver(FV, v .. K - 1)
    BY <1>7, <1>8
  <2>2. v .. K - 1 \in SUBSET Segments
    BY <1>2
  <2>3. SumOver(FV, v .. K - 1) = SumOver(F, v .. K - 1)
    BY <1>3, <2>2
  <2> QED BY <1>1, <1>4, <1>5, <1>6, <2>1, <2>3 DEF F
<1>9. CASE K # 2 * v /\ K = v
  <2>1. SumByVectors(bits) = SumOver(FV, 0 .. v - 1) + 0
    BY <1>7, <1>9
  <2>2. v .. K - 1 = {}
    BY <1>2, <1>9
  <2>3. SumOver(F, v .. K - 1) = 0
    BY <2>2, SumOfNothing
  <2> QED BY <1>1, <1>4, <1>5, <1>6, <2>1, <2>3 DEF F
<1>10. CASE K # 2 * v /\ K # v
  <2>1. SumByVectors(bits) = SumOver(FV, 0 .. v - 1) + SumOver(F, v .. K - 1)
    BY <1>7, <1>10
  <2> QED BY <1>1, <1>4, <1>5, <1>6, <2>1 DEF F
<1> QED BY <1>8, <1>9, <1>10

LEMMA SeriesType ==
  ASSUME Worded
  PROVE  /\ QueryValues \in [0 .. SeriesLength - 1 -> Int]
         /\ Values \in [0 .. SeriesLength - 1 -> Int]
<1>1. \A i \in Places : SegmentOf[i] \in Segments /\ Deviations[i] \in Int
  BY SegmentsHold, DeviationsAssumption
<1>2. \A i \in Places : query[SegmentOf[i]] \in Int /\ means[SegmentOf[i]] + Deviations[i] \in Int
  BY <1>1, ValuesType
<1> QED BY <1>2 DEF QueryValues, Values, Places

-----------------------------------------------------------------------------
(* The invariant *)

THEOREM Invariant == Spec => []SummariesInv
<1>1. Init => SummariesInv
  BY DEF Init, SummariesInv
<1>2. SummariesInv /\ [Next]_vars => SummariesInv'
  <2> SUFFICES ASSUME SummariesInv, [Next]_vars PROVE SummariesInv'
    OBVIOUS
  <2>1. CASE ExtractBreakpoints
    BY <2>1 DEF ExtractBreakpoints, SummariesInv
  <2>2. CASE FindWord
    BY <2>2 DEF FindWord, SummariesInv
  <2>3. CASE Measure
    <3>1. Measured' = Measured
      BY <2>3 DEF Measure, Measured, l2SquareValue2SAXByMask, l2SquareValue2SAXByMaskSIMD,
        l2SquareValue2SAX8, l2SquareValue2SAX8SIMD, SumByVectors, GapSquares, GapSquaresSIMD,
        Gap, GapSIMD, Below, Above, Floor, Ceiling, Symbol, QueryValues, Values
    <3> QED BY <2>3, <3>1 DEF Measure, SummariesInv
  <2>4. CASE UNCHANGED vars
    <3>1. Measured' = Measured
      BY <2>4 DEF vars, Measured, l2SquareValue2SAXByMask, l2SquareValue2SAXByMaskSIMD,
        l2SquareValue2SAX8, l2SquareValue2SAX8SIMD, SumByVectors, GapSquares, GapSquaresSIMD,
        Gap, GapSIMD, Below, Above, Floor, Ceiling, Symbol, QueryValues, Values
    <3> QED BY <2>4, <3>1 DEF vars, SummariesInv
  <2>5. CASE Terminated
    BY <2>4, <2>5 DEF Terminated
  <2> QED BY <2>1, <2>2, <2>3, <2>4, <2>5 DEF Next
<1> QED BY <1>1, <1>2, PTL DEF Spec

-----------------------------------------------------------------------------
(* The properties *)

LEMMA IsWorded ==
  ASSUME SummariesInv, pc = "measured"
  PROVE  Worded /\ vector \in VectorLengths /\ masks \in [Segments -> Bits] /\ distance = Measured
<1>1. masks \in [Segments -> Bits]
  BY SummariesAssumption DEF SummariesInv
<1>2. Worded
  BY DEF SummariesInv, Worded
<1> QED BY <1>1, <1>2 DEF SummariesInv

LEMMA AllBitsType == AllBits \in [Segments -> Bits]
<1>1. SaxCardinality \in Bits
  BY SummariesAssumption DEF Bits
<1> QED BY <1>1 DEF AllBits

\* The entries of what is measured.
LEMMA Entries ==
  ASSUME distance = Measured
  PROVE  /\ distance.leaf = l2SquareValue2SAXByMask
         /\ distance.leafSIMD = l2SquareValue2SAXByMaskSIMD
         /\ distance.series = l2SquareValue2SAX8 /\ distance.seriesSIMD = l2SquareValue2SAX8SIMD
         /\ distance.full = l2Square(SeriesLength, QueryValues, Values)
         /\ distance.fullSIMD = l2SquareSIMD(SeriesLength, QueryValues, Values)
         /\ \A t \in Thresholds :
              /\ distance.early[t] = l2SquareEarly(SeriesLength, QueryValues, Values, t)
              /\ distance.earlySIMD[t] = l2SquareEarlySIMD(SeriesLength, QueryValues, Values, t)
BY DEF Measured

\* The vectorised distances are the plain ones, whatever the number of segments, of
\* lanes and of values, and give up in the same cases: l2SquareValue2SAXByMaskSIMD,
\* l2SquareValue2SAX8SIMD, l2SquareSIMD and l2SquareEarlySIMD.  Breakpoints are those
\* of a table like NORMAL_BREAKPOINTS_8, or in order.
THEOREM VectorsCompute ==
  ASSUME \A s \in Sources : Nested(s.length) \/ InOrder(s)
  PROVE  Spec => []VectorsAgree
<1>1. SummariesInv => VectorsAgree
  <2> SUFFICES ASSUME SummariesInv, pc = "measured"
               PROVE  /\ distance.leafSIMD = distance.leaf
                      /\ distance.seriesSIMD = distance.series
                      /\ distance.fullSIMD = distance.full
                      /\ \A t \in Thresholds : distance.earlySIMD[t] > t <=> distance.early[t] > t
    BY DEF VectorsAgree
  <2>1. Worded /\ vector \in VectorLengths /\ masks \in [Segments -> Bits] /\ distance = Measured
    BY IsWorded
  <2>2. SumByVectors(masks) = SumOver(GapSquares(masks), Segments)
    BY <2>1, VectorsSumGaps
  <2>3. SumByVectors(AllBits) = SumOver(GapSquares(AllBits), Segments)
    BY <2>1, AllBitsType, VectorsSumGaps
  <2>4. distance.leafSIMD = distance.leaf /\ distance.seriesSIMD = distance.series
    BY <2>1, <2>2, <2>3, Entries DEF l2SquareValue2SAXByMask, l2SquareValue2SAXByMaskSIMD,
       l2SquareValue2SAX8, l2SquareValue2SAX8SIMD
  <2>5. /\ QueryValues \in [0 .. SeriesLength - 1 -> Int]
        /\ Values \in [0 .. SeriesLength - 1 -> Int]
        /\ SeriesLength \in Nat \ {0} /\ SeriesLength \in Nat /\ SeriesLength % 8 = 0
    BY <2>1, SeriesType, SummariesAssumption
  <2>6. distance.fullSIMD = distance.full
    BY <2>1, <2>5, Entries, SquareSIMD
  <2>7. ASSUME NEW t \in Thresholds
        PROVE  distance.earlySIMD[t] > t <=> distance.early[t] > t
    <3>1. t \in Nat
      BY DeviationsAssumption
    <3>2. /\ l2SquareEarly(SeriesLength, QueryValues, Values, t) > t
             <=> l2Square(SeriesLength, QueryValues, Values) > t
          /\ l2SquareEarlySIMD(SeriesLength, QueryValues, Values, t) > t
             <=> l2Square(SeriesLength, QueryValues, Values) > t
      BY <2>5, <3>1, EarlyEnds
    <3>3. /\ distance.early[t] = l2SquareEarly(SeriesLength, QueryValues, Values, t)
          /\ distance.earlySIMD[t] = l2SquareEarlySIMD(SeriesLength, QueryValues, Values, t)
      BY <2>1, Entries
    <3> QED BY <3>2, <3>3
  <2> QED BY <2>4, <2>6, <2>7
<1> QED BY <1>1, Invariant, PTL

\* The distance to words of fewer bits or more is at most the least one of series with
\* their means.
LEMMA WordsBound ==
  ASSUME Worded, \A s \in Sources : Nested(s.length), EqualSegments,
         NEW bits \in [Segments -> Bits]
  PROVE  /\ Scaled(SumOver(GapSquares(bits), Segments)) <= LeastDistance
         /\ Scaled(SumOver(GapSquares(bits), Segments)) \in Int /\ LeastDistance \in Int
<1> DEFINE q == SeriesLength \div SaxLength
           K == SaxLength
           F == GapSquares(bits)
           D == [g \in Segments |-> (query[g] - means[g]) * (query[g] - means[g])]
           H == [g \in Segments |->
                   SegmentLength(g) * ((query[g] - means[g]) * (query[g] - means[g]))]
<1>1. /\ q \in Nat \ {0} /\ SeriesLength = K * q /\ K \in Nat \ {0}
      /\ \A g \in Segments : SegmentLength(g) = q
  BY SegmentsHold, SummariesAssumption
<1>2. IsFiniteSet(Segments)
  <2>1. 0 \in Int /\ K - 1 \in Int
    BY <1>1
  <2> QED BY <2>1, FS_Interval DEF Segments
<1>3. \A g \in Segments : F[g] \in Int /\ D[g] \in Int /\ F[g] <= D[g] /\ H[g] = q * D[g]
  <2>1. TAKE g \in Segments
  <2>2. bits[g] \in Bits /\ query[g] \in Int /\ means[g] \in Int
    BY ValuesType
  <2>3. F[g] = Gap(g, bits[g]) * Gap(g, bits[g]) /\ D[g] = (query[g] - means[g]) * (query[g] - means[g])
    BY DEF GapSquares
  <2>4. Gap(g, bits[g]) * Gap(g, bits[g]) \in Int
    BY <2>2, GapsAgree
  <2>5. F[g] <= D[g]
    BY <2>2, <2>3, GapWithin
  <2>6. query[g] - means[g] \in Int /\ \A x \in Int : x * x \in Int
    BY <2>2
  <2>7. H[g] = q * D[g]
    BY <1>1
  <2> QED BY <2>3, <2>4, <2>5, <2>6, <2>7
<1>4. LeastDistance = K * SumOver(H, Segments)
  BY DEF LeastDistance
<1> HIDE DEF F, D, H, q, K
<1>5. SumOver(F, Segments) <= SumOver(D, Segments)
  BY <1>2, <1>3, SumMonotonic
<1>6. SumOver(H, Segments) = q * SumOver(D, Segments)
  BY <1>1, <1>2, <1>3, SumScaled
<1>7. SumOver(F, Segments) \in Int /\ SumOver(D, Segments) \in Int
  BY <1>2, <1>3, SumType
<1> DEFINE x == SumOver(F, Segments)
           y == SumOver(D, Segments)
           N == K * q
<1>8. Scaled(x) = N * x /\ LeastDistance = K * (q * y)
  BY <1>1, <1>4, <1>6 DEF Scaled
<1>9. x \in Int /\ y \in Int /\ x <= y /\ N \in Nat
  BY <1>1, <1>5, <1>7
<1> HIDE DEF x, y
<1>10. K * (q * y) = N * y
  <2>1. \A a, b, c \in Int : a * (b * c) = (a * b) * c
    OBVIOUS
  <2> QED BY <1>1, <1>9, <2>1
<1> HIDE DEF N
<1>11. N * x <= N * y /\ N * x \in Int /\ N * y \in Int
  <2>1. N * y = N * x + N * (y - x) /\ N * (y - x) >= 0 /\ N * x \in Int /\ N * (y - x) \in Int
    BY <1>9
  <2> QED BY <2>1
<1>12. Scaled(x) <= LeastDistance /\ Scaled(x) \in Int /\ LeastDistance \in Int
  BY <1>8, <1>10, <1>11
<1> QED BY <1>12 DEF x, F

\* Lower bounding, for segments of equal length and a table like NORMAL_BREAKPOINTS_8:
\* pruning by l2SquareValue2SAXByMask and l2SquareValue2SAX8 loses no answer.
THEOREM LowerBound ==
  ASSUME \A s \in Sources : Nested(s.length), EqualSegments
  PROVE  Spec => []LowerBounding
<1>1. SummariesInv => LowerBounding
  <2> SUFFICES ASSUME SummariesInv, pc = "measured"
               PROVE  distance.leaf <= LeastDistance /\ distance.series <= LeastDistance
    BY DEF LowerBounding
  <2>1. Worded /\ masks \in [Segments -> Bits] /\ distance = Measured
    BY IsWorded
  <2>2. /\ Scaled(SumOver(GapSquares(masks), Segments)) <= LeastDistance
        /\ Scaled(SumOver(GapSquares(AllBits), Segments)) <= LeastDistance
    BY <2>1, AllBitsType, WordsBound
  <2> QED BY <2>1, <2>2, Entries DEF l2SquareValue2SAXByMask, l2SquareValue2SAX8
<1> QED BY <1>1, Invariant, PTL

\* Series with the means of a series, and series like the query's means, are nowhere
\* nearer to each other than the means are.
LEMMA MeansBound ==
  ASSUME Worded, EqualSegments
  PROVE  LeastDistance <= SaxLength * l2Square(SeriesLength, QueryValues, Values)
<1> DEFINE q == SeriesLength \div SaxLength
           K == SaxLength
           F == Squares(QueryValues, Values)
           c(g) == query[g] - means[g]
           H == [g \in Segments |->
                   SegmentLength(g) * ((query[g] - means[g]) * (query[g] - means[g]))]
           Class(g) == g * q .. (g + 1) * q - 1
           PF(n) == SumOver(F, 0 .. n * q - 1)
           PH(n) == SumOver(H, 0 .. n - 1)
           Ill == {n \in 0 .. K : ~(PH(n) <= PF(n))}
<1>1. /\ q \in Nat \ {0} /\ SeriesLength = K * q /\ K \in Nat \ {0} /\ SeriesLength \in Nat
      /\ SeriesLength % 8 = 0 /\ Segments = 0 .. K - 1
      /\ \A g \in Segments : /\ SegmentLength(g) = q
                             /\ {i \in Places : SegmentOf[i] = g} = Class(g)
  BY SegmentsHold, SummariesAssumption DEF Segments
<1>2. /\ QueryValues \in [0 .. SeriesLength - 1 -> Int] /\ Values \in [0 .. SeriesLength - 1 -> Int]
      /\ \A g \in Segments : c(g) \in Int /\ c(g) * c(g) \in Int
  <2>1. \A g \in Segments : c(g) \in Int
    BY ValuesType
  <2>2. \A x \in Int : x * x \in Int
    OBVIOUS
  <2> QED BY <2>1, <2>2, SeriesType
<1>3. \A i \in Places : F[i] = Square(QueryValues, Values, i) /\ F[i] \in Int
  <2>1. \A i \in 0 .. SeriesLength - 1 : F[i] = Square(QueryValues, Values, i) /\ F[i] \in Int
    <3>1. /\ SeriesLength \in Nat /\ SeriesLength % 8 = 0
          /\ QueryValues \in [0 .. SeriesLength - 1 -> Int]
          /\ Values \in [0 .. SeriesLength - 1 -> Int]
      BY <1>1, <1>2
    <3>2. \A i \in 0 .. SeriesLength - 1 :
            /\ Squares(QueryValues, Values)[i] = Square(QueryValues, Values, i)
            /\ Square(QueryValues, Values, i) \in Int
      BY <3>1, VectorsFit
    <3> QED BY <3>2
  <2> QED BY <2>1 DEF Places
<1>4. \A g \in Segments : H[g] = q * (c(g) * c(g)) /\ H[g] \in Int
  BY <1>1, <1>2
<1>5. ASSUME NEW g \in Segments
      PROVE  /\ SumOver(F, Class(g)) >= H[g] /\ SumOver(F, Class(g)) \in Int
             /\ IsFiniteSet(Class(g)) /\ Class(g) \subseteq Places
  <2> DEFINE S == Class(g)
  <2>1. S \subseteq Places /\ \A i \in S : SegmentOf[i] = g
    BY <1>1
  <2>2. IsFiniteSet(S) /\ Cardinality(S) = q
    <3> DEFINE a == g * q
               z == (g + 1) * q - 1
    <3>1. g \in Int /\ a \in Int /\ z \in Int /\ z - a + 1 = q
      <4>1. g \in Int
        BY <1>1
      <4>2. (g + 1) * q = g * q + q /\ g * q \in Int
        BY <1>1, <4>1
      <4> QED BY <1>1, <4>1, <4>2
    <3> HIDE DEF a, z
    <3>2. IsFiniteSet(a .. z) /\ Cardinality(a .. z) = IF a > z THEN 0 ELSE z - a + 1
      BY <3>1, FS_Interval
    <3>3. ~(a > z)
      BY <1>1, <3>1
    <3> QED BY <3>1, <3>2, <3>3 DEF a, z
  <2>3. SumOver(Deviations, S) = 0
    BY <1>1, DeviationsAssumption
  <2>4. \A i \in S : Deviations[i] \in Int /\ F[i] = (c(g) - Deviations[i]) * (c(g) - Deviations[i])
    <3>1. TAKE i \in S
    <3>2. i \in Places /\ SegmentOf[i] = g /\ Deviations[i] \in Int
      BY <2>1, DeviationsAssumption
    <3>3. QueryValues[i] = query[g] /\ Values[i] = means[g] + Deviations[i]
      BY <3>2 DEF QueryValues, Values
    <3>4. QueryValues[i] - Values[i] = c(g) - Deviations[i]
      <4>1. query[g] \in Int /\ means[g] \in Int
        BY ValuesType
      <4> QED BY <3>2, <3>3, <4>1
    <3>5. F[i] = (QueryValues[i] - Values[i]) * (QueryValues[i] - Values[i])
      BY <1>3, <3>2 DEF Square
    <3> QED BY <3>2, <3>4, <3>5
  <2>5. SumOver(F, S) \in Int
    <3>1. \A i \in S : F[i] \in Int
      BY <1>3, <2>1
    <3> HIDE DEF F, S
    <3> QED BY <2>2, <3>1, SumType
  <2>6. SumOver(F, S) >= q * (c(g) * c(g)) - 2 * (c(g) * 0)
    <3> HIDE DEF F, S
    <3>1. SumOver(F, S) >= Cardinality(S) * (c(g) * c(g)) - 2 * (c(g) * SumOver(Deviations, S))
      <4> DEFINE x == c(g)
      <4>1. x \in Int /\ \A i \in S : Deviations[i] \in Int /\ F[i] = (x - Deviations[i]) * (x - Deviations[i])
        BY <1>2, <2>4
      <4> HIDE DEF x
      <4>2. SumOver(F, S) >= Cardinality(S) * (x * x) - 2 * (x * SumOver(Deviations, S))
        BY <2>2, <4>1, SumAround
      <4> QED BY <4>2 DEF x
    <3> QED BY <2>2, <2>3, <3>1
  <2>7. H[g] = q * (c(g) * c(g)) - 2 * (c(g) * 0)
    <3>1. c(g) * 0 = 0 /\ q * (c(g) * c(g)) \in Int
      BY <1>1, <1>2
    <3> QED BY <1>4, <3>1
  <2> HIDE DEF H, F, c
  <2>8. SumOver(F, S) >= H[g]
    BY <2>6, <2>7
  <2> QED BY <2>1, <2>2, <2>5, <2>8
<1> HIDE DEF F, H, c, q, K
<1>6. ASSUME NEW m \in 0 .. K - 1
      PROVE  /\ PF(m + 1) = PF(m) + SumOver(F, Class(m)) /\ PF(m) \in Int
             /\ PH(m + 1) = PH(m) + H[m] /\ PH(m) \in Int
             /\ H[m] \in Int /\ SumOver(F, Class(m)) \in Int /\ SumOver(F, Class(m)) >= H[m]
  <2>1. m \in Nat /\ m \in Segments
    BY <1>1
  <2>2. H[m] \in Int /\ SumOver(F, Class(m)) \in Int /\ SumOver(F, Class(m)) >= H[m]
        /\ IsFiniteSet(Class(m)) /\ Class(m) \subseteq Places
    BY <1>4, <1>5, <2>1
  <2>3. PH(m + 1) = PH(m) + H[m] /\ PH(m) \in Int
    <3>1. \A i \in 0 .. K - 1 : H[i] \in Int
      BY <1>1, <1>4
    <3>2. /\ \A n \in 0 .. K : SumOver(H, 0 .. n - 1) \in Int
          /\ \A n \in 0 .. K - 1 : SumOver(H, 0 .. n) = SumOver(H, 0 .. n - 1) + H[n]
      BY <1>1, <3>1, Prefixes
    <3>3. m \in 0 .. K /\ (m + 1) - 1 = m
      BY <1>1
    <3> QED BY <3>2, <3>3
  <2>4. PF(m + 1) = PF(m) + SumOver(F, Class(m)) /\ PF(m) \in Int
    <3> DEFINE a == m * q
               z == (m + 1) * q
               A == 0 .. a - 1
               B == a .. z - 1
    <3>1. a \in Nat /\ z \in Nat /\ a <= z /\ z <= SeriesLength
      <4>1. z = a + q /\ a \in Nat
        BY <1>1, <2>1
      <4>2. K * q = z + (K - (m + 1)) * q /\ (K - (m + 1)) * q \in Nat
        BY <1>1, <2>1
      <4> HIDE DEF a, z
      <4> QED BY <1>1, <4>1, <4>2
    <3>2. Places = 0 .. SeriesLength - 1
      BY DEF Places
    <3> HIDE DEF a, z
    <3>3. 0 .. z - 1 = A \cup B /\ A \cap B = {} /\ A \subseteq Places /\ B \subseteq Places
      BY <1>1, <3>1, <3>2
    <3>4. IsFiniteSet(A) /\ IsFiniteSet(B)
      <4>1. 0 \in Int /\ a - 1 \in Int /\ a \in Int /\ z - 1 \in Int
        BY <3>1
      <4> QED BY <4>1, FS_Interval
    <3> HIDE DEF A, B
    <3>5. \A i \in A \cup B : F[i] \in Int
      BY <1>3, <3>3
    <3>6. SumOver(F, A \cup B) = SumOver(F, A) + SumOver(F, B)
      BY <3>3, <3>4, <3>5, SumDisjoint
    <3>7. SumOver(F, A) \in Int
      BY <3>4, <3>5, SumType
    <3> QED BY <3>3, <3>6, <3>7 DEF A, B, a, z
  <2> QED BY <2>2, <2>3, <2>4
<1> HIDE DEF Class
<1>7. PH(0) = 0 /\ PF(0) = 0
  <2>1. 0 .. 0 - 1 = {} /\ 0 * q = 0
    BY <1>1
  <2>2. SumOver(H, {}) = 0 /\ SumOver(F, {}) = 0
    BY SumOfNothing
  <2> QED BY <2>1, <2>2
<1> HIDE DEF PF, PH
<1>8. ASSUME Ill # {} PROVE FALSE
  <2>0. Ill \in SUBSET (0 .. K)
    OBVIOUS
  <2>1. PICK n \in Ill : n # 0 => n - 1 \in 0 .. K /\ n - 1 \notin Ill
    <3> HIDE DEF Ill
    <3> QED BY <1>1, <1>8, <2>0, FirstOf
  <2>2. n \in 0 .. K /\ n # 0 /\ ~(PH(n) <= PF(n))
    BY <1>7, <2>1
  <2> DEFINE m == n - 1
  <2>3. m \in 0 .. K - 1 /\ m + 1 = n /\ PH(m) <= PF(m)
    BY <1>1, <2>1, <2>2
  <2> HIDE DEF m
  <2>4. /\ PF(m + 1) = PF(m) + SumOver(F, Class(m)) /\ PF(m) \in Int
        /\ PH(m + 1) = PH(m) + H[m] /\ PH(m) \in Int
        /\ H[m] \in Int /\ SumOver(F, Class(m)) \in Int /\ SumOver(F, Class(m)) >= H[m]
    BY <1>6, <2>3
  <2> DEFINE s == SumOver(F, Class(m))
             h == H[m]
  <2>5. PF(n) = PF(m) + s /\ PH(n) = PH(m) + h
    BY <2>3, <2>4, Zenon
  <2>6. PF(m) \in Int /\ PH(m) \in Int /\ h \in Int /\ s \in Int /\ s >= h
    BY <2>4
  <2> HIDE DEF s, h
  <2> QED BY <2>2, <2>3, <2>5, <2>6
<1>9. PH(K) <= PF(K)
  <2>1. K \in 0 .. K
    BY <1>1
  <2> HIDE DEF K
  <2> QED BY <1>8, <2>1
<1>10. PF(K) = l2Square(SeriesLength, QueryValues, Values)
  BY <1>1 DEF PF, F, l2Square
<1>11. LeastDistance = K * PH(K)
  <2>1. Segments = 0 .. K - 1
    BY <1>1
  <2>2. LeastDistance = K * SumOver(H, Segments)
    BY DEF LeastDistance, H, K
  <2> QED BY <2>1, <2>2 DEF PH
<1>12. PH(K) \in Int /\ PF(K) \in Int
  <2>1. K - 1 \in 0 .. K - 1 /\ (K - 1) + 1 = K
    BY <1>1
  <2> DEFINE m == K - 1
  <2>2. m \in 0 .. K - 1 /\ m + 1 = K
    BY <2>1
  <2> HIDE DEF m
  <2>3. /\ PF(m + 1) = PF(m) + SumOver(F, Class(m)) /\ PF(m) \in Int
        /\ PH(m + 1) = PH(m) + H[m] /\ PH(m) \in Int
        /\ H[m] \in Int /\ SumOver(F, Class(m)) \in Int
    BY <1>6, <2>2
  <2> QED BY <2>2, <2>3
<1> DEFINE x == PH(K)
           y == PF(K)
<1>13. x \in Int /\ y \in Int /\ x <= y /\ K \in Nat
  BY <1>1, <1>9, <1>12
<1> HIDE DEF x, y
<1>14. K * x <= K * y
  <2>1. K * y = K * x + K * (y - x) /\ K * (y - x) >= 0 /\ K * x \in Int /\ K * (y - x) \in Int
    BY <1>13
  <2> QED BY <2>1
<1> QED BY <1>10, <1>11, <1>14 DEF x, y, K

\* The scan of a leaf, queryNodeThreadCore: a series gets through the tests of its word
\* and of its distance exactly if it is nearer than local_bsf, and then with its distance.
THEOREM NearerGetThrough ==
  ASSUME \A s \in Sources : Nested(s.length), EqualSegments
  PROVE  Spec => []NearerSeriesGetThrough
<1>1. SummariesInv => NearerSeriesGetThrough
  <2> SUFFICES ASSUME SummariesInv, pc = "measured", NEW t \in Thresholds
               PROVE  LET through == /\ distance.seriesSIMD < SaxLength * t
                                     /\ distance.earlySIMD[t] < t
                      IN  /\ through <=> distance.full < t
                          /\ through => distance.earlySIMD[t] = distance.full
    BY DEF NearerSeriesGetThrough
  <2> DEFINE full == l2Square(SeriesLength, QueryValues, Values)
             early == l2SquareEarlySIMD(SeriesLength, QueryValues, Values, t)
             word == Scaled(SumOver(GapSquares(AllBits), Segments))
  <2>1. Worded /\ vector \in VectorLengths /\ distance = Measured
    BY IsWorded
  <2>2. SumByVectors(AllBits) = SumOver(GapSquares(AllBits), Segments)
    BY <2>1, AllBitsType, VectorsSumGaps
  <2>3. distance.full = full /\ distance.earlySIMD[t] = early /\ distance.seriesSIMD = word
    BY <2>1, <2>2, Entries DEF l2SquareValue2SAX8SIMD
  <2>4. /\ QueryValues \in [0 .. SeriesLength - 1 -> Int]
        /\ Values \in [0 .. SeriesLength - 1 -> Int]
        /\ SeriesLength \in Nat \ {0} /\ SeriesLength \in Nat /\ SeriesLength % 8 = 0
        /\ SaxLength \in Nat \ {0} /\ t \in Nat
    BY <2>1, SeriesType, SummariesAssumption, DeviationsAssumption
  <2>5. full \in Int
    <3>1. \A b \in 0 .. SeriesLength : l2Square(b, QueryValues, Values) \in Int
      BY <2>4, DistancesGrow
    <3> QED BY <2>4, <3>1
  <2>6. (early > t <=> full > t) /\ (~(full > t) => early = full) /\ early \in Int
    BY <2>4, EarlyEnds
  <2>7. word <= SaxLength * full /\ word \in Int
    <3>1. word <= LeastDistance /\ word \in Int /\ LeastDistance \in Int
      BY <2>1, AllBitsType, WordsBound
    <3>2. LeastDistance <= SaxLength * full
      BY <2>1, MeansBound
    <3>3. SaxLength * full \in Int
      BY <2>4, <2>5
    <3> HIDE DEF full, word
    <3> QED BY <3>1, <3>2, <3>3
  <2> HIDE DEF full, early, word
  <2>8. full < t => word < SaxLength * t
    <3>1. HAVE full < t
    <3>2. SaxLength * t = SaxLength * full + SaxLength * (t - full) /\ SaxLength * (t - full) > 0
          /\ SaxLength * full \in Int /\ SaxLength * (t - full) \in Int
      BY <2>4, <2>5, <3>1
    <3> QED BY <2>7, <3>2
  <2>9. (word < SaxLength * t /\ early < t) <=> full < t
    <3>1. full < t => early = full
      BY <2>4, <2>5, <2>6
    <3>2. early < t => full < t
      BY <2>4, <2>5, <2>6
    <3> QED BY <2>8, <3>1, <3>2
  <2>10. early < t => early = full
    BY <2>4, <2>5, <2>6, <2>9
  <2> QED BY <2>3, <2>9, <2>10
<1> QED BY <1>1, Invariant, PTL
=============================================================================

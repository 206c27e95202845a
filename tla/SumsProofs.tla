----------------------------- MODULE SumsProofs -----------------------------
(***************************************************************************)
(* What sums over finite sets are, whatever the order of the addition: the *)
(* fold of the community modules chooses one.  Induction is over the       *)
(* smallest counterexample.                                                *)
(***************************************************************************)
EXTENDS Sums, FiniteSetTheorems, WellFoundedInduction, NaturalsInduction, TLAPS

\* Of finite sets, not all empty, there is one from which no element can be
\* taken away.
LEMMA SmallestSet ==
  ASSUME NEW C, C # {}, \A S \in C : IsFiniteSet(S)
  PROVE  \E S \in C : \A x \in S : S \ {x} \notin C
<1> DEFINE Sizes == {Cardinality(S) : S \in C}
<1>1. Sizes \subseteq Nat /\ Sizes # {}
  BY FS_CardinalityType
<1>2. PICK d \in Sizes : \A e \in Sizes : ~(<<e, d>> \in OpToRel(<, Nat))
  BY <1>1, WFMin, NatLessThanWellFounded
<1>3. \A e \in Sizes : ~(e < d)
  BY <1>1, <1>2 DEF OpToRel
<1>4. PICK S \in C : Cardinality(S) = d
  OBVIOUS
<1>5. \A x \in S : Cardinality(S \ {x}) = d - 1 /\ d \in Nat
  BY <1>1, <1>4, FS_RemoveElement
<1>6. \A x \in S : S \ {x} \in C => d - 1 \in Sizes
  BY <1>5
<1> HIDE DEF Sizes
<1>7. ASSUME NEW x \in S, S \ {x} \in C PROVE FALSE
  <2>1. d \in Nat /\ d - 1 \in Sizes
    BY <1>5, <1>6, <1>7
  <2>2. ~(d - 1 < d)
    BY <1>3, <2>1
  <2> QED BY <2>1, <2>2
<1> QED BY <1>4, <1>7

Choice(s) == CHOOSE x \in s : TRUE

Summing(f, S, iter) ==
  iter = [s \in SUBSET S |-> IF s = {} THEN 0 ELSE f[Choice(s)] + iter[s \ {Choice(s)}]]

LEMMA ChoiceIn == \A s : s # {} => Choice(s) \in s
BY DEF Choice

LEMMA SumIsFold ==
  ASSUME NEW f, NEW S
  PROVE  SumOver(f, S) = (CHOOSE iter : Summing(f, S, iter))[S]
BY DEF SumOver, MapThenSumSet, MapThenFoldSet, Summing, Choice

\* The least of a set of numbers.
LEMMA Least ==
  ASSUME NEW N \in SUBSET Nat, N # {}
  PROVE  \E n \in N : \A m \in N : n <= m
<1>1. PICK n \in N : \A m \in N : ~(<<m, n>> \in OpToRel(<, Nat))
  BY WFMin, NatLessThanWellFounded
<1>2. \A m \in N : ~(m < n)
  BY <1>1 DEF OpToRel
<1> QED BY <1>2

LEMMA FoldExists ==
  ASSUME NEW f, NEW S, IsFiniteSet(S), \A x \in S : f[x] \in Int
  PROVE  \E iter \in [SUBSET S -> Int] : Summing(f, S, iter)
<1> DEFINE Right(g, s) == IF s = {} THEN 0 ELSE f[Choice(s)] + g[s \ {Choice(s)}]
           UpTo(n) == {g \in [SUBSET S -> Int] :
                         \A s \in SUBSET S : Cardinality(s) <= n => g[s] = Right(g, s)}
           Bad == {n \in Nat : UpTo(n) = {}}
<1>1. /\ Cardinality(S) \in Nat
      /\ \A s \in SUBSET S : IsFiniteSet(s) /\ Cardinality(s) \in Nat /\ Cardinality(s) <= Cardinality(S)
  BY FS_Subset, FS_CardinalityType
<1>2. \A s \in SUBSET S : s # {} => /\ Choice(s) \in S /\ s \ {Choice(s)} \in SUBSET S
                                   /\ Cardinality(s \ {Choice(s)}) = Cardinality(s) - 1
  BY <1>1, ChoiceIn, FS_RemoveElement
<1>3. ASSUME Bad # {} PROVE FALSE
  <2>1. PICK n \in Bad : \A m \in Bad : n <= m
    BY <1>3, Least
  <2>2. CASE n = 0
    <3> DEFINE g == [s \in SUBSET S |-> 0]
    <3>1. \A s \in SUBSET S : Cardinality(s) <= 0 => s = {}
      BY <1>1, FS_EmptySet
    <3>2. g \in [SUBSET S -> Int] /\ \A s \in SUBSET S : Cardinality(s) <= 0 => g[s] = Right(g, s)
      BY <3>1
    <3>3. g \in UpTo(0)
      BY <3>2
    <3> QED BY <2>1, <2>2, <3>3
  <2>3. CASE n # 0
    <3>1. n - 1 \in Nat /\ n - 1 \notin Bad
      <4> HIDE DEF UpTo
      <4>1. n \in Nat
        OBVIOUS
      <4>2. n - 1 \in Nat /\ ~(n <= n - 1)
        BY <2>3, <4>1
      <4> HIDE DEF Bad
      <4> QED BY <2>1, <4>2
    <3>2. PICK g \in [SUBSET S -> Int] :
                 \A s \in SUBSET S : Cardinality(s) <= n - 1 => g[s] = Right(g, s)
      <4> HIDE DEF Right
      <4> QED BY <3>1
    <3> DEFINE h == [s \in SUBSET S |-> IF Cardinality(s) <= n - 1 THEN g[s] ELSE Right(g, s)]
    <3>3. h \in [SUBSET S -> Int]
      BY <1>2, <3>2
    <3>4. ASSUME NEW s \in SUBSET S, Cardinality(s) <= n PROVE h[s] = Right(g, s)
      BY <3>2, <3>4
    <3>5. ASSUME NEW s \in SUBSET S, Cardinality(s) <= n PROVE Right(h, s) = Right(g, s)
      <4>1. CASE s = {}
        BY <4>1
      <4>2. CASE s # {}
        <5>1. s \ {Choice(s)} \in SUBSET S /\ Cardinality(s \ {Choice(s)}) <= n - 1
          BY <1>1, <1>2, <2>1, <3>5, <4>2
        <5>2. h[s \ {Choice(s)}] = g[s \ {Choice(s)}]
          BY <5>1
        <5> QED BY <4>2, <5>2
      <4> QED BY <4>1, <4>2
    <3>6. h \in UpTo(n)
      <4> HIDE DEF h, Right
      <4>1. \A s \in SUBSET S : Cardinality(s) <= n => h[s] = Right(h, s)
        BY <3>4, <3>5
      <4> QED BY <3>3, <4>1
    <3> QED BY <2>1, <3>6
  <2> QED BY <2>2, <2>3
<1>4. PICK g \in [SUBSET S -> Int] :
             \A s \in SUBSET S : Cardinality(s) <= Cardinality(S) => g[s] = Right(g, s)
  <2> HIDE DEF Right
  <2>1. Cardinality(S) \notin Bad
    BY <1>3
  <2> QED BY <1>1, <2>1
<1>5. g = [s \in SUBSET S |-> Right(g, s)]
  BY <1>1, <1>4
<1> QED BY <1>5 DEF Summing

\* One fold, of the sums of all subsets.
LEMMA FoldOfSubsets ==
  ASSUME NEW f, NEW S, IsFiniteSet(S), \A x \in S : f[x] \in Int
  PROVE  \E iter \in [SUBSET S -> Int] :
           Summing(f, S, iter) /\ \A T \in SUBSET S : SumOver(f, T) = iter[T]
<1>1. PICK iter \in [SUBSET S -> Int] : Summing(f, S, iter)
  BY FoldExists
<1>2. ASSUME NEW T \in SUBSET S PROVE SumOver(f, T) = iter[T]
  <2>1. IsFiniteSet(T)
    BY FS_Subset
  <2>2. \E g : Summing(f, T, g)
    BY <2>1, FoldExists
  <2> DEFINE g == CHOOSE g : Summing(f, T, g)
  <2>3. Summing(f, T, g)
    BY <2>2, Zenon
  <2>4. SumOver(f, T) = g[T]
    BY SumIsFold, Zenon
  <2> HIDE DEF g
  <2> DEFINE Differing == {s \in SUBSET T : g[s] # iter[s]}
  <2>5. ASSUME Differing # {} PROVE FALSE
    <3>1. \A s \in Differing : IsFiniteSet(s)
      BY <2>1, FS_Subset
    <3>2. PICK s \in Differing : \A x \in s : s \ {x} \notin Differing
      BY <2>5, <3>1, SmallestSet
    <3>3. CASE s = {}
      BY <1>1, <2>3, <3>2, <3>3 DEF Summing
    <3>4. CASE s # {}
      <4>1. Choice(s) \in s /\ s \ {Choice(s)} \in SUBSET T /\ s \in SUBSET S
        BY <3>4, ChoiceIn
      <4>2. g[s \ {Choice(s)}] = iter[s \ {Choice(s)}]
        BY <3>2, <4>1
      <4>3. /\ g[s] = f[Choice(s)] + g[s \ {Choice(s)}]
            /\ iter[s] = f[Choice(s)] + iter[s \ {Choice(s)}]
        BY <1>1, <2>3, <3>4, <4>1 DEF Summing
      <4> QED BY <3>2, <4>2, <4>3
    <3> QED BY <3>3, <3>4
  <2> QED BY <2>4, <2>5
<1> QED BY <1>1, <1>2

THEOREM SumOfNothing == ASSUME NEW f PROVE SumOver(f, {}) = 0
<1>1. PICK iter \in [SUBSET {} -> Int] :
            Summing(f, {}, iter) /\ \A T \in SUBSET {} : SumOver(f, T) = iter[T]
  BY FoldOfSubsets, FS_EmptySet
<1> QED BY <1>1 DEF Summing

LEMMA SumType ==
  ASSUME NEW f, NEW S, IsFiniteSet(S), \A x \in S : f[x] \in Int
  PROVE  SumOver(f, S) \in Int
<1>1. PICK iter \in [SUBSET S -> Int] :
            Summing(f, S, iter) /\ \A T \in SUBSET S : SumOver(f, T) = iter[T]
  BY FoldOfSubsets
<1> QED BY <1>1

\* Any element of a set may be added last.
THEOREM SumOfElement ==
  ASSUME NEW f, NEW S, IsFiniteSet(S), \A x \in S : f[x] \in Int, NEW x \in S
  PROVE  SumOver(f, S) = f[x] + SumOver(f, S \ {x})
<1>1. PICK iter \in [SUBSET S -> Int] :
            Summing(f, S, iter) /\ \A T \in SUBSET S : SumOver(f, T) = iter[T]
  BY FoldOfSubsets
<1> DEFINE Ill == {s \in SUBSET S : \E y \in s : iter[s] # f[y] + iter[s \ {y}]}
<1>2. ASSUME Ill # {} PROVE FALSE
  <2>1. \A s \in Ill : IsFiniteSet(s)
    BY FS_Subset
  <2>2. PICK s \in Ill : \A y \in s : s \ {y} \notin Ill
    BY <1>2, <2>1, SmallestSet
  <2>3. PICK y \in s : iter[s] # f[y] + iter[s \ {y}]
    BY <2>2
  <2> DEFINE c == Choice(s)
  <2>4. s \in SUBSET S /\ y \in s /\ c \in s
    BY <2>2, <2>3, ChoiceIn
  <2>5. iter[s] = f[c] + iter[s \ {c}]
    BY <1>1, <2>4 DEF Summing
  <2> HIDE DEF c
  <2>6. y # c
    BY <2>3, <2>5
  <2>7. s \ {y} \in SUBSET S /\ s \ {c} \in SUBSET S /\ c \in s \ {y} /\ y \in s \ {c}
    BY <2>4, <2>6
  <2>8. iter[s \ {y}] = f[c] + iter[(s \ {y}) \ {c}]
    BY <2>2, <2>4, <2>7
  <2>9. iter[s \ {c}] = f[y] + iter[(s \ {c}) \ {y}]
    BY <2>2, <2>4, <2>7
  <2>10. (s \ {y}) \ {c} = (s \ {c}) \ {y} /\ (s \ {c}) \ {y} \in SUBSET S
    BY <2>4
  <2>11. f[c] \in Int /\ f[y] \in Int /\ iter[(s \ {c}) \ {y}] \in Int
    BY <2>4, <2>10
  <2>12. iter[s] = f[y] + iter[s \ {y}]
    <3> DEFINE rest == iter[(s \ {c}) \ {y}]
    <3>1. iter[s] = f[c] + (f[y] + rest) /\ iter[s \ {y}] = f[c] + rest
      BY <2>5, <2>8, <2>9, <2>10
    <3> HIDE DEF rest
    <3> QED BY <3>1, <2>11 DEF rest
  <2> QED BY <2>3, <2>12
<1>3. S \notin Ill
  BY <1>2
<1> QED BY <1>1, <1>3

\* The same, for an element put to a set.
LEMMA SumWith ==
  ASSUME NEW f, NEW S, IsFiniteSet(S), NEW x, x \notin S, \A y \in S \cup {x} : f[y] \in Int
  PROVE  SumOver(f, S \cup {x}) = SumOver(f, S) + f[x]
<1> DEFINE T == S \cup {x}
<1>1. IsFiniteSet(T) /\ x \in T /\ \A y \in T : f[y] \in Int
  BY FS_AddElement
<1>2. SumOver(f, S) \in Int /\ f[x] \in Int
  BY SumType
<1>3. T \ {x} = S
  OBVIOUS
<1> HIDE DEF T
<1>4. SumOver(f, T) = f[x] + SumOver(f, T \ {x})
  BY <1>1, SumOfElement
<1>5. SumOver(f, T) = f[x] + SumOver(f, S)
  BY <1>3, <1>4
<1>6. SumOver(f, T) = SumOver(f, S) + f[x]
  BY <1>2, <1>5
<1> QED BY <1>6 DEF T

\* Functions compare as their sums do.
LEMMA SumMonotonic ==
  ASSUME NEW f, NEW g, NEW S, IsFiniteSet(S),
         \A x \in S : f[x] \in Int /\ g[x] \in Int /\ f[x] <= g[x]
  PROVE  SumOver(f, S) <= SumOver(g, S)
<1> DEFINE Ill == {s \in SUBSET S : ~(SumOver(f, s) <= SumOver(g, s))}
<1>1. \A s \in SUBSET S : IsFiniteSet(s)
  BY FS_Subset
<1>2. ASSUME Ill # {} PROVE FALSE
  <2>1. PICK s \in Ill : \A y \in s : s \ {y} \notin Ill
    BY <1>1, <1>2, SmallestSet
  <2>2. CASE s = {}
    BY <2>1, <2>2, SumOfNothing
  <2>3. CASE s # {}
    <3>1. PICK y : y \in s
      BY <2>3
    <3>2. s \in SUBSET S /\ s \ {y} \in SUBSET S /\ y \in S
      BY <2>1, <3>1
    <3>3. SumOver(f, s \ {y}) <= SumOver(g, s \ {y})
      BY <2>1, <3>1, <3>2
    <3>4. SumOver(f, s) = f[y] + SumOver(f, s \ {y})
      BY <1>1, <3>1, <3>2, SumOfElement
    <3>5. SumOver(g, s) = g[y] + SumOver(g, s \ {y})
      BY <1>1, <3>1, <3>2, SumOfElement
    <3>6. SumOver(f, s \ {y}) \in Int /\ SumOver(g, s \ {y}) \in Int
      BY <1>1, <3>2, SumType
    <3>7. SumOver(f, s) <= SumOver(g, s)
      BY <3>2, <3>3, <3>4, <3>5, <3>6
    <3> QED BY <2>1, <3>7
  <2> QED BY <2>2, <2>3
<1>3. S \notin Ill
  BY <1>2
<1> QED BY <1>3

LEMMA SumCongruent ==
  ASSUME NEW f, NEW g, NEW S, IsFiniteSet(S), \A x \in S : f[x] \in Int /\ f[x] = g[x]
  PROVE  SumOver(f, S) = SumOver(g, S)
<1>1. SumOver(f, S) <= SumOver(g, S) /\ SumOver(g, S) <= SumOver(f, S)
  BY SumMonotonic
<1>2. SumOver(f, S) \in Int /\ SumOver(g, S) \in Int
  BY SumType
<1> QED BY <1>1, <1>2

LEMMA SumOfZeros ==
  ASSUME NEW f, NEW S, IsFiniteSet(S), \A x \in S : f[x] = 0
  PROVE  SumOver(f, S) = 0
<1> DEFINE Ill == {s \in SUBSET S : SumOver(f, s) # 0}
<1>1. \A s \in SUBSET S : IsFiniteSet(s)
  BY FS_Subset
<1>2. ASSUME Ill # {} PROVE FALSE
  <2>1. PICK s \in Ill : \A y \in s : s \ {y} \notin Ill
    BY <1>1, <1>2, SmallestSet
  <2>2. CASE s = {}
    BY <2>1, <2>2, SumOfNothing
  <2>3. CASE s # {}
    <3>1. PICK y : y \in s
      BY <2>3
    <3>2. s \in SUBSET S /\ s \ {y} \in SUBSET S /\ y \in S
      BY <2>1, <3>1
    <3>3. SumOver(f, s \ {y}) = 0
      BY <2>1, <3>1, <3>2
    <3>4. \A x \in s : f[x] \in Int
      BY <3>2
    <3>5. SumOver(f, s) = f[y] + SumOver(f, s \ {y})
      BY <1>1, <3>1, <3>2, <3>4, SumOfElement
    <3> QED BY <2>1, <3>2, <3>3, <3>5
  <2> QED BY <2>2, <2>3
<1>3. S \notin Ill
  BY <1>2
<1> QED BY <1>3

\* The sum over two sets without a common element.
LEMMA SumDisjoint ==
  ASSUME NEW f, NEW S, NEW T, IsFiniteSet(S), IsFiniteSet(T), S \cap T = {},
         \A x \in S \cup T : f[x] \in Int
  PROVE  SumOver(f, S \cup T) = SumOver(f, S) + SumOver(f, T)
<1> DEFINE Ill == {t \in SUBSET T : SumOver(f, S \cup t) # SumOver(f, S) + SumOver(f, t)}
<1>1. \A t \in SUBSET T : IsFiniteSet(t) /\ IsFiniteSet(S \cup t)
  BY FS_Subset, FS_Union
<1>2. SumOver(f, S) \in Int
  BY SumType
<1>3. ASSUME Ill # {} PROVE FALSE
  <2>1. PICK t \in Ill : \A y \in t : t \ {y} \notin Ill
    BY <1>1, <1>3, SmallestSet
  <2>2. CASE t = {}
    <3>1. S \cup t = S /\ SumOver(f, t) = 0
      BY <2>2, SumOfNothing
    <3> QED BY <1>2, <2>1, <3>1
  <2>3. CASE t # {}
    <3>1. PICK y : y \in t
      BY <2>3
    <3>2. t \in SUBSET T /\ t \ {y} \in SUBSET T /\ y \in T /\ y \notin S
      BY <2>1, <3>1
    <3>3. SumOver(f, S \cup (t \ {y})) = SumOver(f, S) + SumOver(f, t \ {y})
      BY <2>1, <3>1, <3>2
    <3>4. \A x \in t : f[x] \in Int
      BY <3>2
    <3>5. SumOver(f, t) = f[y] + SumOver(f, t \ {y})
      BY <1>1, <3>1, <3>2, <3>4, SumOfElement
    <3>6. SumOver(f, t \ {y}) \in Int
      BY <1>1, <3>2, <3>4, SumType
    <3>7. (S \cup t) \ {y} = S \cup (t \ {y}) /\ y \in S \cup t /\ \A x \in S \cup t : f[x] \in Int
      BY <3>1, <3>2
    <3>8. SumOver(f, S \cup t) = f[y] + SumOver(f, S \cup (t \ {y}))
      BY <1>1, <3>2, <3>7, SumOfElement
    <3>9. f[y] \in Int
      BY <3>2
    <3> QED BY <1>2, <2>1, <3>3, <3>5, <3>8, <3>9, <3>6
  <2> QED BY <2>2, <2>3
<1>4. T \notin Ill
  BY <1>3
<1> QED BY <1>4

\* The sum of an array, entry by entry.
LEMMA Prefixes ==
  ASSUME NEW f, NEW N \in Nat, \A i \in 0 .. N - 1 : f[i] \in Int
  PROVE  /\ SumOver(f, 0 .. -1) = 0
         /\ \A n \in 0 .. N : SumOver(f, 0 .. n - 1) \in Int
         /\ \A n \in 0 .. N - 1 : SumOver(f, 0 .. n) = SumOver(f, 0 .. n - 1) + f[n]
<1>1. 0 .. -1 = {}
  OBVIOUS
<1>2. ASSUME NEW n \in 0 .. N PROVE SumOver(f, 0 .. n - 1) \in Int
  <2>1. IsFiniteSet(0 .. n - 1) /\ \A i \in 0 .. n - 1 : f[i] \in Int
    BY FS_Interval
  <2> QED BY <2>1, SumType
<1>3. ASSUME NEW n \in 0 .. N - 1 PROVE SumOver(f, 0 .. n) = SumOver(f, 0 .. n - 1) + f[n]
  <2>1. /\ 0 .. n = (0 .. n - 1) \cup {n} /\ n \notin 0 .. n - 1
        /\ IsFiniteSet(0 .. n - 1) /\ \A i \in (0 .. n - 1) \cup {n} : f[i] \in Int
    BY FS_Interval
  <2> QED BY <2>1, SumWith
<1> QED BY <1>1, <1>2, <1>3, SumOfNothing

\* A common factor.
LEMMA SumScaled ==
  ASSUME NEW f, NEW h, NEW S, IsFiniteSet(S), NEW c \in Int,
         \A x \in S : f[x] \in Int /\ h[x] = c * f[x]
  PROVE  SumOver(h, S) = c * SumOver(f, S)
<1> DEFINE Ill == {s \in SUBSET S : SumOver(h, s) # c * SumOver(f, s)}
<1>0. \A x \in S : h[x] \in Int
  OBVIOUS
<1>1. \A s \in SUBSET S : IsFiniteSet(s)
  BY FS_Subset
<1>2. ASSUME Ill # {} PROVE FALSE
  <2>1. PICK s \in Ill : \A y \in s : s \ {y} \notin Ill
    BY <1>1, <1>2, SmallestSet
  <2>2. CASE s = {}
    <3>1. SumOver(f, s) = 0 /\ SumOver(h, s) = 0
      BY <2>2, SumOfNothing
    <3> QED BY <2>1, <3>1
  <2>3. CASE s # {}
    <3>1. PICK y : y \in s
      BY <2>3
    <3>2. s \in SUBSET S /\ s \ {y} \in SUBSET S /\ y \in S
      BY <2>1, <3>1
    <3>3. SumOver(h, s \ {y}) = c * SumOver(f, s \ {y})
      BY <2>1, <3>1, <3>2
    <3>4. \A x \in s : f[x] \in Int /\ h[x] \in Int
      BY <1>0, <3>2
    <3>5. SumOver(f, s) = f[y] + SumOver(f, s \ {y})
      BY <1>1, <3>1, <3>2, <3>4, SumOfElement
    <3>6. SumOver(h, s) = h[y] + SumOver(h, s \ {y})
      BY <1>1, <3>1, <3>2, <3>4, SumOfElement
    <3>7. SumOver(f, s \ {y}) \in Int
      BY <1>1, <3>2, <3>4, SumType
    <3>8. \A a, b \in Int : c * (a + b) = c * a + c * b
      OBVIOUS
    <3>9. h[y] = c * f[y] /\ f[y] \in Int
      BY <3>2
    <3> QED BY <2>1, <3>3, <3>5, <3>6, <3>7, <3>8, <3>9
  <2> QED BY <2>2, <2>3
<1>3. S \notin Ill
  BY <1>2
<1> QED BY <1>3

\* Squared differences from values that add up to nothing are least when there is no
\* difference between the values.
LEMMA SumAround ==
  ASSUME NEW d, NEW h, NEW S, IsFiniteSet(S), NEW c \in Int,
         \A x \in S : d[x] \in Int /\ h[x] = (c - d[x]) * (c - d[x])
  PROVE  SumOver(h, S) >= Cardinality(S) * (c * c) - 2 * (c * SumOver(d, S))
<1> DEFINE Bound(s) == Cardinality(s) * (c * c) - 2 * (c * SumOver(d, s))
           Ill == {s \in SUBSET S : ~(SumOver(h, s) >= Bound(s))}
<1>0. /\ \A a \in Int : /\ (c - a) * (c - a) = c * c - 2 * (c * a) + a * a /\ a * a >= 0
                        /\ c * c \in Int /\ c * a \in Int /\ a * a \in Int
      /\ \A x \in S : h[x] \in Int
  <2>1. \A a \in Int : /\ (c - a) * (c - a) = c * c - 2 * (c * a) + a * a /\ a * a >= 0
                       /\ c * c \in Int /\ c * a \in Int /\ a * a \in Int
    OBVIOUS
  <2>2. \A x \in S : h[x] \in Int
    <3>1. TAKE x \in S
    <3>2. c - d[x] \in Int
      OBVIOUS
    <3>3. \A a \in Int : a * a \in Int
      OBVIOUS
    <3> QED BY <3>2, <3>3
  <2> QED BY <2>1, <2>2
<1>1. \A s \in SUBSET S : IsFiniteSet(s) /\ Cardinality(s) \in Nat
  BY FS_Subset, FS_CardinalityType
<1>2. ASSUME Ill # {} PROVE FALSE
  <2>1. PICK s \in Ill : \A y \in s : s \ {y} \notin Ill
    BY <1>1, <1>2, SmallestSet
  <2>2. CASE s = {}
    <3>1. SumOver(d, s) = 0 /\ SumOver(h, s) = 0 /\ Cardinality(s) = 0
      BY <2>2, SumOfNothing, FS_EmptySet
    <3>2. Bound(s) = 0
      BY <1>0, <3>1
    <3> QED BY <2>1, <3>1, <3>2
  <2>3. CASE s # {}
    <3>1. PICK y : y \in s
      BY <2>3
    <3> DEFINE r == s \ {y}
    <3>2. s \in SUBSET S /\ r \in SUBSET S /\ y \in S
      BY <2>1, <3>1
    <3>3. SumOver(h, r) >= Bound(r)
      BY <2>1, <3>1, <3>2
    <3>4. \A x \in s : d[x] \in Int /\ h[x] \in Int
      BY <1>0, <3>2
    <3>5. SumOver(d, s) = d[y] + SumOver(d, r)
      BY <1>1, <3>1, <3>2, <3>4, SumOfElement
    <3>6. SumOver(h, s) = h[y] + SumOver(h, r)
      BY <1>1, <3>1, <3>2, <3>4, SumOfElement
    <3>7. SumOver(d, r) \in Int /\ SumOver(h, r) \in Int
      BY <1>1, <3>2, <3>4, SumType
    <3>8. Cardinality(s) = Cardinality(r) + 1 /\ Cardinality(r) \in Nat
      BY <1>1, <3>1, <3>2, FS_RemoveElement
    <3> HIDE DEF r
    <3> DEFINE a == d[y]
               D == SumOver(d, r)
               H == SumOver(h, r)
               n == Cardinality(r)
    <3>9. a \in Int /\ D \in Int /\ H \in Int /\ n \in Nat
      BY <3>2, <3>7, <3>8
    <3>10. H >= n * (c * c) - 2 * (c * D)
      BY <3>3
    <3>11. Bound(s) = (n + 1) * (c * c) - 2 * (c * (a + D))
      BY <3>5, <3>8
    <3>12. SumOver(h, s) = (c * c - 2 * (c * a) + a * a) + H
      BY <1>0, <3>2, <3>6, <3>9
    <3>13. SumOver(h, s) >= Bound(s)
      <4> HIDE DEF a, D, H, n, Bound
      <4>1. (n + 1) * (c * c) = n * (c * c) + c * c /\ n * (c * c) \in Int
        BY <3>9
      <4>2. c * (a + D) = c * a + c * D /\ c * D \in Int
        BY <3>9
      <4>3. a * a >= 0 /\ c * c \in Int /\ c * a \in Int /\ a * a \in Int
        BY <1>0, <3>9
      <4> DEFINE ncc == n * (c * c)
                 cc == c * c
                 ca == c * a
                 cD == c * D
                 aa == a * a
      <4>4. /\ SumOver(h, s) = (cc - 2 * ca + aa) + H
            /\ Bound(s) = (ncc + cc) - 2 * (ca + cD) /\ H >= ncc - 2 * cD
            /\ ncc \in Int /\ cc \in Int /\ ca \in Int /\ cD \in Int /\ aa \in Int /\ aa >= 0
        BY <3>10, <3>11, <3>12, <4>1, <4>2, <4>3
      <4> HIDE DEF ncc, cc, ca, cD, aa
      <4> QED BY <3>9, <4>4
    <3> QED BY <2>1, <3>13
  <2> QED BY <2>2, <2>3
<1>3. S \notin Ill
  BY <1>2
<1> QED BY <1>3
=============================================================================

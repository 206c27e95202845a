--------------------------- MODULE FinalizeProofs ---------------------------
(***************************************************************************)
(* Theorems about Finalize for every database size and every layout of the *)
(* leaves: the assertion holds, and permute puts every series and word at  *)
(* the place fetchPermutation computed, without losing one on the way; and *)
(* about Squeeze, for any number of segments and any cardinality: which    *)
(* bits of a squeezed region can be relied on.                             *)
(***************************************************************************)
EXTENDS Squeeze, FiniteSetTheorems, WellFoundedInduction, TLAPS

LEMMA LeavesTyped ==
  ASSUME leaves \in LeafLists
  PROVE  /\ leaves \in Seq(Seq(Series)) /\ Len(leaves) \in Nat
         /\ DOMAIN leaves = 1 .. Len(leaves)
         /\ \A l \in DOMAIN leaves :
              /\ leaves[l] \in Seq(Series) /\ Len(leaves[l]) \in Nat
              /\ DOMAIN leaves[l] = 1 .. Len(leaves[l])
              /\ \A q \in DOMAIN leaves[l] : leaves[l][q] \in Series
<1>1. leaves \in Seq(Seq(Series))
  BY LeavesAssumption
<1>2. Len(leaves) \in Nat /\ DOMAIN leaves = 1 .. Len(leaves)
      /\ \A l \in DOMAIN leaves : leaves[l] \in Seq(Series)
  BY <1>1
<1> QED BY <1>1, <1>2

\* The initial states satisfy the invariant.
LEMMA InitIInv == Init => IInv
<1> SUFFICES ASSUME Init PROVE IInv
  OBVIOUS
<1>1. leaves \in LeafLists /\ Len(leaves) \in Nat /\ DOMAIN leaves = 1 .. Len(leaves)
  BY LeavesTyped DEF Init
<1>2. TypeOK
  BY <1>1, LeavesAssumption DEF Init, TypeOK, Series
<1>3. Fetched
  BY <1>1 DEF Init, Fetched
<1>4. Unmoved
  BY DEF Init, Unmoved
<1> QED BY <1>1, <1>2, <1>3, <1>4 DEF IInv, Init

\* fetchPermutation at one leaf.
LEMMA FetchLeafIInv ==
  ASSUME IInv, FetchLeaf PROVE IInv'
<1> USE DEF IInv
<1> DEFINE entries == leaves[leaf]
           Position(s) == CHOOSE q \in DOMAIN entries : entries[q] = s
<1>1. /\ leaves \in Seq(Seq(Series)) /\ Len(leaves) \in Nat /\ DOMAIN leaves = 1 .. Len(leaves)
      /\ \A l \in DOMAIN leaves :
              /\ leaves[l] \in Seq(Series) /\ Len(leaves[l]) \in Nat
              /\ DOMAIN leaves[l] = 1 .. Len(leaves[l])
              /\ \A q \in DOMAIN leaves[l] : leaves[l][q] \in Series
  BY LeavesTyped
<1>2. leaf \in DOMAIN leaves /\ leaf \in Nat /\ counter \in Nat
  BY <1>1 DEF TypeOK, FetchLeaf
<1>3. \A l, m \in DOMAIN leaves : \A q \in DOMAIN leaves[l], r \in DOMAIN leaves[m] :
        leaves[l][q] = leaves[m][r] => l = m /\ q = r
  BY LeavesAssumption
<1>4. \A q \in DOMAIN entries : Position(entries[q]) = q
  BY <1>2, <1>3
<1>5. \A q \in DOMAIN entries : permutation'[entries[q]] = counter + q - 1
  BY <1>1, <1>2, <1>4 DEF FetchLeaf
<1>6. \A l \in DOMAIN leaves : l < leaf =>
        \A q \in DOMAIN leaves[l] : permutation'[leaves[l][q]] = permutation[leaves[l][q]]
  BY <1>1, <1>2, <1>3 DEF FetchLeaf
<1>7. start_id' = [start_id EXCEPT ![leaf] = counter] /\ counter' = counter + Len(entries)
      /\ leaf' = leaf + 1 /\ pc = "fetch" /\ pc' = "fetch" /\ leaves' = leaves
      /\ UNCHANGED <<i, next, values, saxs>>
  BY DEF FetchLeaf
<1>8. TypeOK'
  <2>1. \A s \in Series : permutation'[s] \in Int
    <3>1. ASSUME NEW s \in Series, \E q \in DOMAIN entries : entries[q] = s
          PROVE  permutation'[s] \in Int
      <4>1. PICK q \in DOMAIN entries : entries[q] = s
        BY <3>1
      <4>2. permutation'[s] = counter + q - 1 /\ q \in Int
        BY <1>1, <1>2, <1>5, <4>1
      <4> QED BY <1>2, <4>2
    <3>2. ASSUME NEW s \in Series, ~\E q \in DOMAIN entries : entries[q] = s
          PROVE  permutation'[s] \in Int
      BY <3>2 DEF TypeOK, FetchLeaf
    <3> QED BY <3>1, <3>2
  <2>2. permutation' \in [Series -> Int]
    BY <2>1 DEF FetchLeaf
  <2>3. counter' \in Nat /\ leaf' \in Nat \ {0} /\ start_id' \in [DOMAIN leaves' -> Nat]
    BY <1>1, <1>2, <1>7 DEF TypeOK
  <2> QED
    BY <1>7, <2>2, <2>3 DEF TypeOK
<1>9. Fetched'
  <2>1. leaf' <= Len(leaves') + 1
    BY <1>1, <1>2, <1>7
  <2>2. ASSUME NEW l \in DOMAIN leaves, l < leaf'
        PROVE  /\ start_id'[l] + Len(leaves[l]) <= counter'
               /\ \A q \in DOMAIN leaves[l] :
                    /\ permutation'[leaves[l][q]] = start_id'[l] + q - 1
                    /\ permutation'[leaves[l][q]] >= 0
    <3>1. CASE l = leaf
      <4>1. start_id'[l] = counter
        BY <1>2, <1>7, <3>1 DEF TypeOK
      <4>2. \A q \in DOMAIN leaves[l] : q \in Int /\ q >= 1
        BY <1>1
      <4> QED
        BY <1>1, <1>2, <1>5, <1>7, <3>1, <4>1, <4>2
    <3>2. CASE l # leaf
      <4>1. l < leaf
        BY <1>1, <1>2, <1>7, <2>2, <3>2
      <4>2. start_id'[l] = start_id[l] /\ start_id[l] \in Nat
        BY <1>7, <3>2 DEF TypeOK
      <4>3. start_id[l] + Len(leaves[l]) <= counter
        BY <4>1 DEF Fetched
      <4>4. \A q \in DOMAIN leaves[l] :
              /\ permutation[leaves[l][q]] = start_id[l] + q - 1
              /\ permutation[leaves[l][q]] >= 0
        <5>1. TAKE q \in DOMAIN leaves[l]
        <5>2. /\ Target(leaves[l][q]) = start_id[l] + q - 1
              /\ permutation[leaves[l][q]] >= 0
          BY <1>7, <4>1 DEF Fetched
        <5>3. permutation[leaves[l][q]] \in Int
          BY <1>1 DEF TypeOK
        <5> QED BY <5>2, <5>3 DEF Target, Moved
      <4> QED
        <5>1. counter <= counter' /\ start_id[l] + Len(leaves[l]) \in Int /\ counter' \in Int
          BY <1>1, <1>2, <1>7, <4>2
        <5>2. start_id'[l] + Len(leaves[l]) <= counter'
          BY <1>2, <4>2, <4>3, <5>1
        <5> QED
          BY <1>6, <4>1, <4>2, <4>4, <5>2
    <3> QED BY <3>1, <3>2
  <2>3. ASSUME NEW l \in DOMAIN leaves, NEW m \in DOMAIN leaves, l < m, m < leaf'
        PROVE  start_id'[l] + Len(leaves[l]) <= start_id'[m]
    <3>1. l < leaf /\ l # leaf
      BY <1>1, <1>2, <1>7, <2>3
    <3>2. CASE m = leaf
      BY <1>1, <1>7, <3>1, <3>2 DEF Fetched, TypeOK
    <3>3. CASE m # leaf
      BY <1>1, <1>2, <1>7, <2>3, <3>1, <3>3 DEF Fetched, TypeOK
    <3> QED BY <3>2, <3>3
  <2>4. ASSUME NEW p \in 0 .. counter' - 1
        PROVE  \E l \in DOMAIN leaves : \E q \in DOMAIN leaves[l] :
                 l < leaf' /\ p = start_id'[l] + q - 1
    <3>1. CASE p < counter
      <4>1. PICK l \in DOMAIN leaves : \E q \in DOMAIN leaves[l] :
              l < leaf /\ p = start_id[l] + q - 1
        BY <1>2, <3>1 DEF Fetched
      <4>2. l < leaf /\ l \in Int
        BY <1>1, <4>1
      <4>3. l < leaf' /\ start_id'[l] = start_id[l]
        BY <1>2, <1>7, <4>2 DEF TypeOK
      <4> QED BY <4>1, <4>3
    <3>2. CASE p >= counter
      <4>1. p - counter + 1 \in DOMAIN entries
        BY <1>1, <1>2, <1>7, <3>2
      <4>2. start_id'[leaf] = counter /\ leaf < leaf'
        BY <1>2, <1>7 DEF TypeOK
      <4> QED
        BY <1>2, <1>7, <4>1, <4>2
    <3> QED BY <1>2, <3>1, <3>2
  <2> QED
    <3>1. \A l \in DOMAIN leaves : l < leaf' =>
            \A q \in DOMAIN leaves[l] : (Target(leaves[l][q]))' = permutation'[leaves[l][q]]
      <4>1. TAKE l \in DOMAIN leaves
      <4>2. HAVE l < leaf'
      <4>3. TAKE q \in DOMAIN leaves[l]
      <4>4. leaves[l][q] \in Series /\ permutation'[leaves[l][q]] >= 0
        BY <1>1, <2>2, <4>2
      <4>5. permutation'[leaves[l][q]] \in Int
        BY <1>8, <4>4 DEF TypeOK
      <4> QED BY <1>7, <4>4, <4>5 DEF Target, Moved
    <3> QED
      BY <1>7, <2>1, <2>2, <2>3, <2>4, <3>1 DEF Fetched
<1>10. Unmoved'
  BY <1>7 DEF Unmoved
<1> QED BY <1>7, <1>8, <1>9, <1>10

\* The assertion: permutation is a bijection onto the places below counter, so
\* there are as many of these as series.
LEMMA AssertCounterIInv ==
  ASSUME IInv, AssertCounter PROVE IInv'
<1> USE DEF IInv
<1>1. /\ Len(leaves) \in Nat /\ DOMAIN leaves = 1 .. Len(leaves)
      /\ \A l \in DOMAIN leaves :
              /\ Len(leaves[l]) \in Nat /\ DOMAIN leaves[l] = 1 .. Len(leaves[l])
              /\ \A q \in DOMAIN leaves[l] : leaves[l][q] \in Series
  BY LeavesTyped
<1>2. /\ pc = "fetch" /\ leaf > Len(leaves) /\ counter \in Nat
      /\ UNCHANGED <<leaves, leaf, counter, start_id, permutation, i, next, values, saxs>>
      /\ pc' = IF counter = DatabaseSize THEN "permute" ELSE "aborted"
  BY DEF AssertCounter, TypeOK
<1>3. \A l \in DOMAIN leaves : l < leaf /\ start_id[l] \in Nat
  BY <1>1, <1>2 DEF TypeOK
<1>4. \A l \in DOMAIN leaves : \A q \in DOMAIN leaves[l] :
        /\ permutation[leaves[l][q]] = start_id[l] + q - 1
        /\ start_id[l] + q - 1 \in 0 .. counter - 1
  <2>1. TAKE l \in DOMAIN leaves
  <2>2. TAKE q \in DOMAIN leaves[l]
  <2>3. /\ Target(leaves[l][q]) = start_id[l] + q - 1
        /\ permutation[leaves[l][q]] >= 0
        /\ start_id[l] + Len(leaves[l]) <= counter
    BY <1>2, <1>3 DEF Fetched
  <2>4. permutation[leaves[l][q]] \in Int
    BY <1>1 DEF TypeOK
  <2>5. permutation[leaves[l][q]] = start_id[l] + q - 1
    BY <2>3, <2>4 DEF Target, Moved
  <2> QED
    BY <1>1, <1>2, <1>3, <2>3, <2>5
<1>5. \A s \in Series : \E l \in DOMAIN leaves : \E q \in DOMAIN leaves[l] : leaves[l][q] = s
  BY LeavesAssumption
<1>6. \A s \in Series : permutation[s] \in 0 .. counter - 1
  BY <1>4, <1>5
<1>7. \A s, t \in Series : permutation[s] = permutation[t] => s = t
  <2>1. TAKE s, t \in Series
  <2>2. PICK l \in DOMAIN leaves : \E q \in DOMAIN leaves[l] : leaves[l][q] = s
    BY <1>5
  <2>3. PICK q \in DOMAIN leaves[l] : leaves[l][q] = s
    BY <2>2
  <2>4. PICK m \in DOMAIN leaves : \E r \in DOMAIN leaves[m] : leaves[m][r] = t
    BY <1>5
  <2>5. PICK r \in DOMAIN leaves[m] : leaves[m][r] = t
    BY <2>4
  <2>6. HAVE permutation[s] = permutation[t]
  <2>7. start_id[l] + q - 1 = start_id[m] + r - 1
    BY <1>4, <2>3, <2>5, <2>6
  <2>8. /\ q \in 1 .. Len(leaves[l]) /\ r \in 1 .. Len(leaves[m]) /\ l \in Nat /\ m \in Nat
        /\ Len(leaves[l]) \in Nat /\ Len(leaves[m]) \in Nat
        /\ start_id[l] \in Nat /\ start_id[m] \in Nat
    BY <1>1, <1>3
  <2>9. /\ l < m => start_id[l] + Len(leaves[l]) <= start_id[m]
        /\ m < l => start_id[m] + Len(leaves[m]) <= start_id[l]
    BY <1>3 DEF Fetched
  <2>10. l = m
    <3>1. ~(l < m)
      BY <2>7, <2>8, <2>9
    <3>2. ~(m < l)
      BY <2>7, <2>8, <2>9
    <3> QED BY <2>8, <3>1, <3>2
  <2>11. q = r
    BY <1>3, <2>7, <2>8, <2>10
  <2> QED
    BY <2>3, <2>5, <2>10, <2>11
<1>8. \A p \in 0 .. counter - 1 : \E s \in Series : permutation[s] = p
  <2>1. TAKE p \in 0 .. counter - 1
  <2>2. PICK l \in DOMAIN leaves : \E q \in DOMAIN leaves[l] : p = start_id[l] + q - 1
    BY DEF Fetched
  <2>3. PICK q \in DOMAIN leaves[l] : p = start_id[l] + q - 1
    BY <2>2
  <2> QED
    BY <1>1, <1>4, <2>3
<1>9. counter = DatabaseSize
  <2>1. permutation \in Bijection(Series, 0 .. counter - 1)
    <3>1. permutation \in [Series -> 0 .. counter - 1]
      BY <1>6 DEF TypeOK
    <3> QED
      BY <3>1, <1>7, <1>8 DEF Bijection, Injection, Surjection, IsInjective
  <2>2. IsFiniteSet(Series) /\ Cardinality(Series) = DatabaseSize
    BY FS_Interval, SizeAssumption DEF Series
  <2>3. Cardinality(0 .. counter - 1) = counter
    BY FS_Interval, <1>2
  <2> QED
    BY <2>1, <2>2, <2>3, FS_Bijection DEF ExistsBijection
<1>10. pc' = "permute"
  BY <1>2, <1>9
<1>11. \A s \in Series : ~Moved(s) /\ Target(s) = permutation[s] /\ Target(s) \in Series
  BY <1>6, <1>9, SizeAssumption DEF Moved, Target, Series
<1>12. IsPermutation
  BY <1>6, <1>7, <1>9, <1>11, SizeAssumption DEF IsPermutation
<1>13. Cycles
  BY <1>2, <1>11, SizeAssumption DEF Cycles, Open, Holds, Unmoved, Series
<1>14. IsPermutation' /\ Cycles'
  BY <1>2, <1>12, <1>13 DEF IsPermutation, Cycles, Open, Holds, Moved, Target
<1>15. TypeOK'
  BY <1>2, <1>10 DEF TypeOK
<1>16. Fetched'
  BY <1>1, <1>2, <1>10, <1>3 DEF Fetched, Target, Moved, TypeOK
<1> QED
  BY <1>2, <1>10, <1>14, <1>15, <1>16

\* What the two arrays hold after an exchange.
LEMMA SwappedArray ==
  ASSUME NEW array \in [Series -> Series], NEW a \in Series, NEW b \in Series
  PROVE  /\ Swapped(array, a, b) \in [Series -> Series]
         /\ Swapped(array, a, b)[a] = array[b]
         /\ Swapped(array, a, b)[b] = array[a]
         /\ \A s \in Series \ {a, b} : Swapped(array, a, b)[s] = array[s]
BY DEF Swapped

\* One exchange: the cycle is closed by it (<1>9) or goes on (<1>10).
LEMMA MoveNextIInv ==
  ASSUME IInv, MoveNext PROVE IInv'
<1> USE DEF IInv
<1> DEFINE m == permutation[next]
<1>1. /\ pc = "permute" /\ pc' = "permute" /\ i < DatabaseSize /\ ~(m < 0)
      /\ values' = Swapped(values, i, m) /\ saxs' = Swapped(saxs, i, m)
      /\ permutation' = [permutation EXCEPT ![next] = m - DatabaseSize]
      /\ next' = m /\ UNCHANGED <<leaves, leaf, counter, start_id, i>>
      /\ IsPermutation /\ Cycles
  BY DEF MoveNext, Moved, Mark
<1>2. i \in Series /\ next \in Series /\ DatabaseSize \in Nat
  BY <1>1, SizeAssumption DEF Cycles, Series, TypeOK
<1>3. permutation \in [Series -> Int] /\ ~Moved(next) /\ Open /\ Target(next) = m /\ m \in Series
  BY <1>1, <1>2 DEF Moved, Open, Target, IsPermutation, TypeOK
<1>4. /\ values' \in [Series -> Series] /\ saxs' \in [Series -> Series]
      /\ values'[i] = values[m] /\ values'[m] = values[i]
      /\ saxs'[i] = saxs[m] /\ saxs'[m] = saxs[i]
      /\ \A s \in Series : s # i /\ s # m => values'[s] = values[s] /\ saxs'[s] = saxs[s]
  <2>1. values \in [Series -> Series] /\ saxs \in [Series -> Series]
    BY DEF TypeOK
  <2>2. \A array \in [Series -> Series] :
          /\ Swapped(array, i, m) \in [Series -> Series]
          /\ Swapped(array, i, m)[i] = array[m] /\ Swapped(array, i, m)[m] = array[i]
          /\ \A s \in Series \ {i, m} : Swapped(array, i, m)[s] = array[s]
    BY <1>2, <1>3, SwappedArray
  <2> HIDE DEF m
  <2> QED
    BY <1>1, <2>1, <2>2
<1>5. \A s \in Series : Target(s)' = Target(s) /\ (Moved(s)' <=> Moved(s) \/ s = next)
  <2>1. TAKE s \in Series
  <2>2. CASE s = next
    BY <1>1, <1>2, <1>3, <2>2 DEF Target, Moved, Series
  <2>3. CASE s # next
    BY <1>1, <1>2, <1>3, <2>3 DEF Target, Moved
  <2> QED BY <2>2, <2>3
<1>6. TypeOK'
  <2>1. permutation' \in [Series -> Int] /\ next' \in Nat
    BY <1>1, <1>2, <1>3 DEF Series
  <2> QED
    BY <1>1, <1>2, <1>3, <1>4, <2>1 DEF TypeOK
<1>7. Fetched'
  <2>1. \A l \in DOMAIN leaves : \A q \in DOMAIN leaves[l] : leaves[l][q] \in Series
    BY LeavesTyped
  <2> QED
    BY <1>1, <1>5, <2>1 DEF Fetched
<1>8. IsPermutation'
  <2>1. \A s \in Series : permutation'[s] < DatabaseSize
    <3>1. TAKE s \in Series
    <3>2. permutation[s] \in Int /\ permutation[s] < DatabaseSize /\ m < DatabaseSize /\ m \in Int
      BY <1>1, <1>2, <1>3 DEF IsPermutation, Series
    <3>3. permutation'[s] = IF s = next THEN m - DatabaseSize ELSE permutation[s]
      BY <1>1, <1>3
    <3> QED BY <1>2, <3>2, <3>3
  <2> QED
    BY <1>1, <1>5, <2>1 DEF IsPermutation
<1> DEFINE Preceded(s) == \E r \in Series : Moved(r) /\ Target(r) = s
<1>9. CASE Moved(m) \/ m = next
  <2>1. ~Preceded(m)
    BY <1>1, <1>2, <1>3 DEF IsPermutation
  <2>2. m = i
    BY <1>1, <1>3, <1>9, <2>1 DEF Cycles
  <2>3. \A s \in Series : values'[s] = values[s] /\ saxs'[s] = saxs[s]
    BY <1>4, <2>2
  <2>4. ~Open'
    BY <1>1, <1>3, <1>5, <1>9 DEF Open, Moved
  <2>5. \A s \in Series : Moved(s)' =>
          /\ Holds(Target(s), s)'
          /\ Moved(Target(s))'
          /\ \E r \in Series : Moved(r)' /\ Target(r)' = s
    <3>1. TAKE s \in Series
    <3>2. HAVE Moved(s)'
    <3>3. Target(s) \in Series
      BY <1>1 DEF IsPermutation
    <3>4. Moved(Target(s))' <=> Moved(Target(s)) \/ Target(s) = next
      BY <1>1, <1>5, <3>3 DEF Moved
    <3>5. Holds(Target(s), s) /\ (Moved(Target(s)) \/ Target(s) = next)
      BY <1>1, <1>3, <1>5, <1>9, <2>2, <3>2 DEF Cycles
    <3>6. s = i \/ Preceded(s)
      BY <1>1, <1>3, <1>5, <3>2 DEF Cycles
    <3> QED
      BY <1>2, <1>3, <1>5, <2>2, <2>3, <3>3, <3>4, <3>5, <3>6 DEF Holds
  <2>6. \A s \in Series : ~Moved(s)' /\ s # next' => Holds(s, s)' /\ s # i'
    BY <1>1, <1>5, <2>3 DEF Cycles, Holds
  <2>7. Cycles'
    BY <1>1, <1>2, <1>5, <2>2, <2>4, <2>5, <2>6 DEF Cycles
  <2> QED BY <1>1, <1>6, <1>7, <1>8, <2>7
<1>10. CASE ~Moved(m) /\ m # next
  <2>1. Holds(m, m) /\ m # i
    BY <1>1, <1>3, <1>10 DEF Cycles
  <2>2. /\ Holds(i, next)'
        /\ \A s \in Series : s # i /\ s # m => (Holds(s, s)' <=> Holds(s, s))
    BY <1>1, <1>4, <2>1 DEF Holds
  <2>3. values'[m] = next /\ saxs'[m] = next
    BY <1>1, <1>3, <1>4 DEF Cycles, Holds
  <2>4. Open'
    BY <1>1, <1>3, <1>5, <1>10 DEF Open, Moved
  <2>5. \A s \in Series : Moved(s)' =>
          /\ Holds(Target(s), s)'
          /\ Moved(Target(s))' \/ Target(s)' = next'
          /\ Target(s)' # i'
          /\ s = i' \/ \E r \in Series : Moved(r)' /\ Target(r)' = s
    <3>1. TAKE s \in Series
    <3>2. HAVE Moved(s)'
    <3>3. Target(s) \in Series
      BY <1>1 DEF IsPermutation
    <3>4. Moved(Target(s))' <=> Moved(Target(s)) \/ Target(s) = next
      BY <1>1, <1>5, <3>3 DEF Moved
    <3>5. CASE s = next
      <4>1. s = i \/ Preceded(s)
        BY <1>1, <1>3, <3>5 DEF Cycles
      <4> QED
        BY <1>1, <1>3, <1>5, <2>1, <2>3, <3>5, <4>1 DEF Holds
    <3>6. CASE s # next
      <4>1. Moved(s) /\ Target(s) # m
        BY <1>1, <1>2, <1>3, <1>5, <3>2, <3>6 DEF IsPermutation
      <4>2. /\ Holds(Target(s), s) /\ (Moved(Target(s)) \/ Target(s) = next)
            /\ Target(s) # i
            /\ s = i \/ Preceded(s)
        BY <1>1, <1>3, <4>1 DEF Cycles
      <4>3. values'[Target(s)] = values[Target(s)] /\ saxs'[Target(s)] = saxs[Target(s)]
        BY <1>4, <3>3, <4>1, <4>2
      <4> QED
        BY <1>1, <1>5, <3>3, <3>4, <4>2, <4>3 DEF Holds
    <3> QED BY <3>5, <3>6
  <2>6. \A s \in Series : ~Moved(s)' /\ s # next' => Holds(s, s)' /\ s # i'
    BY <1>1, <1>5, <2>2 DEF Cycles
  <2>7. next' # i' /\ \E r \in Series : Moved(r)' /\ Target(r)' = next'
    BY <1>1, <1>2, <1>3, <1>5, <2>1
  <2>8. \A s \in Series : s < i' => Moved(s)'
    BY <1>1, <1>5 DEF Cycles
  <2>9. Cycles'
    BY <1>1, <1>2, <1>3, <2>2, <2>4, <2>5, <2>6, <2>7, <2>8 DEF Cycles
  <2> QED BY <1>1, <1>6, <1>7, <1>8, <2>9
<1> QED BY <1>9, <1>10

\* The end of a cycle: the next position not in place starts a new one.
LEMMA NextCycleIInv ==
  ASSUME IInv, NextCycle PROVE IInv'
<1> USE DEF IInv
<1>1. /\ pc = "permute" /\ pc' = "permute" /\ i < DatabaseSize /\ permutation[next] < 0
      /\ i' = i + 1 /\ next' = i + 1
      /\ UNCHANGED <<leaves, leaf, counter, start_id, permutation, values, saxs>>
      /\ IsPermutation /\ Cycles
  BY DEF NextCycle, Moved
<1>2. i \in Series /\ next \in Series /\ DatabaseSize \in Nat /\ i \in Nat
  BY <1>1, SizeAssumption DEF Cycles, Series, TypeOK
<1>3. TypeOK'
  BY <1>1, <1>2 DEF TypeOK
<1>4. Fetched'
  BY <1>1 DEF Fetched, Target, Moved
<1>5. IsPermutation'
  BY <1>1 DEF IsPermutation, Target, Moved
<1>6. Moved(next) /\ ~Open
  BY <1>1 DEF Moved, Open
<1>7. Moved(i)
  BY <1>1, <1>2, <1>6 DEF Cycles
<1>8. \A s \in Series : /\ Target(s)' = Target(s) /\ Target(s) \in Series
                        /\ Moved(s)' <=> Moved(s)
                        /\ Moved(Target(s))' <=> Moved(Target(s))
                        /\ Holds(s, s)' <=> Holds(s, s)
                        /\ Holds(Target(s), s)' <=> Holds(Target(s), s)
  BY <1>1 DEF Target, Moved, Holds, IsPermutation
<1>9. i' <= DatabaseSize /\ (next' \in Series \/ (next' = i' /\ i' = DatabaseSize)) /\ next' = i'
  BY <1>1, <1>2 DEF Series
<1>10. \A s \in Series : s < i' => Moved(s)'
  <2>1. \A s \in Series : s < i + 1 => s < i \/ s = i
    BY <1>2 DEF Series
  <2> QED BY <1>1, <1>7, <1>8, <2>1 DEF Cycles
<1>11. \A s \in Series : ~Moved(s)' => Holds(s, s)'
  BY <1>1, <1>6, <1>8 DEF Cycles
<1>12. Open' => Holds(i, next)'
  <2>1. Open' => next' \in Series /\ ~(permutation'[next'] < 0)
    BY DEF Open, Moved
  <2>2. \A s \in Series : ~(permutation'[s] < 0) => values'[s] = s /\ saxs'[s] = s
    BY <1>11 DEF Moved, Holds
  <2> QED BY <1>9, <2>1, <2>2 DEF Holds
<1>13. \A s \in Series : Moved(s)' =>
          /\ Holds(Target(s), s)'
          /\ Moved(Target(s))'
          /\ Open' => Target(s)' # i'
          /\ \E r \in Series : Moved(r)' /\ Target(r)' = s
  <2>1. TAKE s \in Series
  <2>2. HAVE Moved(s)'
  <2>3. /\ Holds(Target(s), s) /\ Moved(Target(s))
        /\ \E r \in Series : Moved(r) /\ Target(r) = s
    BY <1>1, <1>6, <1>8, <2>2 DEF Cycles
  <2>4. Open' => Target(s)' # i'
    BY <1>8, <1>9, <2>3 DEF Open, Moved
  <2> QED BY <1>8, <2>3, <2>4
<1>14. Cycles'
  BY <1>9, <1>10, <1>11, <1>12, <1>13 DEF Cycles
<1> QED BY <1>1, <1>3, <1>4, <1>5, <1>14

\* The end of permute, and steps that change nothing.
LEMMA FinishIInv ==
  ASSUME IInv, Finish \/ UNCHANGED vars PROVE IInv'
<1> USE DEF IInv
<1>1. /\ UNCHANGED <<leaves, leaf, counter, start_id, permutation, i, next, values, saxs>>
      /\ pc' = pc \/ (pc = "permute" /\ pc' = "done" /\ i = DatabaseSize)
  BY DEF Finish, vars
<1>2. TypeOK'
  BY <1>1 DEF TypeOK
<1>3. Fetched'
  BY <1>1 DEF Fetched, Target, Moved
<1>4. (Unmoved' <=> Unmoved) /\ (IsPermutation' <=> IsPermutation)
  BY <1>1 DEF Unmoved, IsPermutation, Target, Moved
<1>5. Cycles' <=> Cycles
  BY <1>1 DEF Cycles, Open, Holds, Moved, Target
<1> QED BY <1>1, <1>2, <1>3, <1>4, <1>5

LEMMA NextIInv == IInv /\ [Next]_vars => IInv'
BY FetchLeafIInv, AssertCounterIInv, MoveNextIInv, NextCycleIInv, FinishIInv
DEF Next, Move, Terminated

\* The invariant is inductive.
THEOREM Invariance == Spec => []IInv
BY NextIInv, InitIInv, PTL DEF Spec

\* fetchPermutation counts every series of the database, so that finalizeIndex's
\* assertion holds whatever shape the tree has.
THEOREM AssertionNeverFails == Spec => []AssertionHolds
<1>1. IInv => AssertionHolds
  BY DEF IInv, AssertionHolds
<1> QED BY <1>1, Invariance, PTL

\* After permute the entries of each leaf, and their words, are where the leaf's
\* start_id says, for every permutation of every size.
THEOREM LeavesComeOutContiguous == Spec => []LeavesAreContiguous
<1>1. ASSUME IInv, pc = "done", NEW l \in DOMAIN leaves, NEW q \in DOMAIN leaves[l]
      PROVE  Holds(start_id[l] + q - 1, leaves[l][q])
  <2>1. leaves[l][q] \in Series /\ l \in Nat /\ Len(leaves) \in Nat /\ l <= Len(leaves)
    BY <1>1, LeavesTyped DEF IInv
  <2>2. Target(leaves[l][q]) = start_id[l] + q - 1
    BY <1>1, <2>1 DEF IInv, Fetched
  <2>3. Moved(leaves[l][q])
    BY <1>1, <2>1, SizeAssumption DEF IInv, Cycles, Series
  <2> QED
    BY <1>1, <2>1, <2>2, <2>3 DEF IInv, Cycles
<1>2. IInv => LeavesAreContiguous
  BY <1>1 DEF LeavesAreContiguous, Holds
<1> QED BY <1>2, Invariance, PTL

\* The exchanges of permute never lose a series or a word.
THEOREM SeriesSurvive == Spec => []NothingOverwritten
<1>1. ASSUME IInv, NEW s \in Series PROVE \E p \in Series : Holds(p, s)
  <2>1. CASE pc = "fetch"
    BY <1>1, <2>1 DEF IInv, Unmoved, Holds
  <2>2. CASE pc \in {"permute", "done"}
    <3>1. IsPermutation /\ Cycles
      BY <1>1, <2>2 DEF IInv
    <3>2. CASE Moved(s)
      BY <3>1, <3>2 DEF Cycles, IsPermutation
    <3>3. CASE ~Moved(s) /\ s # next
      BY <3>1, <3>3 DEF Cycles
    <3>4. CASE ~Moved(s) /\ s = next
      <4>1. i \in Nat /\ i < DatabaseSize
        BY <1>1, <3>1, <3>4, SizeAssumption DEF Cycles, IInv, TypeOK, Series
      <4>2. i \in Series
        BY <4>1, SizeAssumption DEF Series
      <4> QED
        BY <3>1, <3>4, <4>2 DEF Cycles, Open
    <3> QED BY <3>2, <3>3, <3>4
  <2> QED BY <1>1, <2>1, <2>2 DEF IInv, TypeOK
<1>2. IInv => NothingOverwritten
  BY <1>1 DEF NothingOverwritten, Holds
<1> QED BY <1>2, Invariance, PTL

\* A series that was brought to its place is not moved again, so that marking
\* it with a negative value is enough to skip it.
THEOREM SettledStay == Spec => SettledSeriesStay
<1> DEFINE Settled(s) == pc = "permute" /\ permutation[s] < 0
<1>1. ASSUME IInv, IInv', [Next]_vars, NEW s \in Series, Settled(s)
      PROVE  values'[Target(s)] = s /\ saxs'[Target(s)] = s
  <2>1. Holds(Target(s), s)
    BY <1>1 DEF IInv, Cycles, Moved
  <2>2. CASE MoveNext
    <3>1. pc' = "permute" /\ permutation' = [permutation EXCEPT ![next] = @ - DatabaseSize]
          /\ ~(permutation[next] < 0)
      BY <2>2 DEF MoveNext, Moved, Mark
    <3>2. permutation'[s] = permutation[s]
      BY <1>1, <3>1 DEF IInv, TypeOK
    <3>3. Moved(s)' /\ Target(s)' = Target(s)
      BY <1>1, <3>2 DEF Moved, Target
    <3> QED
      BY <1>1, <3>1, <3>3 DEF IInv, Cycles, Holds
  <2>3. CASE ~MoveNext
    BY <1>1, <2>1, <2>3 DEF Next, Move, NextCycle, Moved, Finish, Terminated, FetchLeaf, AssertCounter, vars, Holds
  <2> QED BY <2>2, <2>3
<1>2. IInv /\ IInv' /\ [Next]_vars =>
        [\A s \in Series : pc = "permute" /\ permutation[s] < 0 =>
           values'[Target(s)] = s /\ saxs'[Target(s)] = s]_vars
  BY <1>1
<1> QED BY <1>2, Invariance, PTL DEF Spec, SettledSeriesStay, Moved

----------------------------------------------------------------------------
(* Squeezing *)

\* A set of bits has a largest one.
LEMMA LargestBit ==
  ASSUME NEW D \in SUBSET Bits, D # {}
  PROVE  LET top == CHOOSE b \in D : \A c \in D : c <= b
         IN  top \in D /\ \A c \in D : c <= top
<1> DEFINE Depths == {SaxCardinality - b : b \in D}
<1>1. Depths \in SUBSET Nat /\ Depths # {}
  BY RegionsAssumption DEF Bits
<1>2. PICK d \in Depths : \A e \in Depths : d <= e
  <2>1. PICK d \in Depths : \A e \in Depths : ~(<<e, d>> \in OpToRel(<, Nat))
    BY <1>1, WFMin, NatLessThanWellFounded
  <2>2. \A e \in Depths : d \in Nat /\ e \in Nat /\ ~(e < d)
    BY <1>1, <2>1 DEF OpToRel
  <2> HIDE DEF Depths
  <2> QED BY <2>2
<1>3. PICK b \in D : d = SaxCardinality - b
  BY <1>2
<1>4. \A c \in D : c <= b
  <2>1. TAKE c \in D
  <2>2. d <= SaxCardinality - c
    BY <1>2
  <2>3. SaxCardinality \in Int /\ b \in Int /\ c \in Int
    BY RegionsAssumption DEF Bits
  <2> QED BY <1>3, <2>2, <2>3
<1> QED BY <1>3, <1>4

\* What one series does to one segment.
LEMMA SqueezedSegment ==
  ASSUME NEW masks \in [Segments -> Bits], NEW first \in Word, NEW w \in Word,
         NEW s \in Segments, NEW current \in Bits, current <= masks[s]
  PROVE  LET new == Squeezed(masks, first, w, current, s)
         IN  /\ new \in Bits /\ current <= new /\ new <= masks[s]
             /\ \A b \in Bits : new < b /\ b < masks[s] => w[s][b] = first[s][b]
             /\ new # current => new > 0 /\ w[s][new - 1] # first[s][new - 1]
<1> DEFINE differing == {b \in Bits : /\ current < b /\ b < masks[s]
                                      /\ w[s][b] # first[s][b]}
           largest == CHOOSE b \in differing : \A c \in differing : c <= b
<1>1. CASE differing = {}
  <2>1. Squeezed(masks, first, w, current, s) = current
    BY <1>1 DEF Squeezed, Differing
  <2>2. \A b \in Bits : current < b /\ b < masks[s] => w[s][b] = first[s][b]
    BY <1>1
  <2>3. current <= current
    BY DEF Bits
  <2> QED BY <2>1, <2>2, <2>3
<1>2. CASE differing # {}
  <2>1. largest \in differing /\ \A c \in differing : c <= largest
    <3>1. differing \in SUBSET Bits
      OBVIOUS
    <3> HIDE DEF differing
    <3> QED BY <1>2, <3>1, LargestBit
  <2>2. Squeezed(masks, first, w, current, s) = 1 + largest
    BY <1>2 DEF Squeezed, Differing
  <2>3. masks[s] \in Bits
    OBVIOUS
  <2>4. 1 + largest \in Bits /\ current <= 1 + largest /\ 1 + largest <= masks[s]
    BY <2>1, <2>3, RegionsAssumption DEF Bits
  <2>5. \A b \in Bits : 1 + largest < b /\ b < masks[s] => w[s][b] = first[s][b]
    BY <2>1, <2>4 DEF Bits
  <2>6. 1 + largest > 0 /\ (1 + largest) - 1 = largest
    BY <2>1 DEF Bits
  <2> QED BY <2>1, <2>2, <2>4, <2>5, <2>6
<1> QED BY <1>1, <1>2

\* Squeezing leaves to permute all that is permute's.
LEMMA MoveOrStutter == SqueezeNext => [Next]_vars
BY DEF SqueezeNext, EnterLeaf, SqueezeSeries, Finalized, Next, all, vars

THEOREM SqueezeInvariance == SqueezeSpec => []IInv
<1>1. SqueezeInit => IInv
  BY InitIInv DEF SqueezeInit
<1>2. IInv /\ [SqueezeNext]_all => IInv'
  <2>1. [SqueezeNext]_all => [Next]_vars
    BY MoveOrStutter DEF all, vars
  <2> QED BY <2>1, NextIInv
<1> QED BY <1>1, <1>2, PTL DEF SqueezeSpec

\* What squeezeNode reads from a leaf's start_id on, once permute is done.
LEMMA WordsInPlace ==
  ASSUME IInv, pc = "done", NEW l \in DOMAIN leaves, NEW q \in DOMAIN leaves[l]
  PROVE  /\ start_id[l] + q - 1 \in Series
         /\ Holds(start_id[l] + q - 1, leaves[l][q])
<1>1. leaves[l][q] \in Series /\ l \in Nat /\ Len(leaves) \in Nat /\ l <= Len(leaves)
  BY LeavesTyped DEF IInv
<1>2. Target(leaves[l][q]) = start_id[l] + q - 1
  BY <1>1 DEF IInv, Fetched
<1>3. Moved(leaves[l][q])
  BY <1>1, SizeAssumption DEF IInv, Cycles, Series
<1>4. Target(leaves[l][q]) \in Series
  BY <1>1 DEF IInv, IsPermutation
<1> QED
  BY <1>1, <1>2, <1>3, <1>4 DEF IInv, Cycles

LEMMA SqueezeInitInv == SqueezeInit => SqueezeInv
<1> SUFFICES ASSUME SqueezeInit PROVE SqueezeInv
  OBVIOUS
<1>1. PICK b \in Built : leaves = b.leaves /\ nodes = b.nodes /\ words = b.words
  BY DEF SqueezeInit
<1>2. /\ leaves \in LeafLists
      /\ nodes \in [DOMAIN leaves -> Node] /\ words \in [Series -> Word]
      /\ \A l \in DOMAIN leaves : \A q \in DOMAIN leaves[l] : Covers(nodes[l], words[leaves[l][q]])
  BY <1>1, BuiltAssumption
<1>3. Len(leaves) \in Nat /\ DOMAIN leaves = 1 .. Len(leaves)
  BY <1>2, LeavesTyped
<1>4. \A l \in DOMAIN leaves : nodes[l].sax \in Word /\ nodes[l].masks \in [Segments -> Bits]
  BY <1>2 DEF Node
<1>5. SqueezeTypeOK
  BY <1>2, <1>3, <1>4 DEF SqueezeInit, SqueezeTypeOK
<1>6. at = 0 /\ \A l \in DOMAIN leaves : ~(l <= at)
  BY <1>3 DEF SqueezeInit
<1> QED
  BY <1>2, <1>5, <1>6 DEF SqueezeInv, Filed, WordOf, Compared, Flagged, NoBitGivenUpInVain

\* A leaf that is done with: what no comparison has shown, the region it was
\* built with does.
LEMMA DoneAgrees ==
  ASSUME IInv, SqueezeInv, at > 0, LeafDone, NEW q \in DOMAIN leaves[at]
  PROVE  Agrees(at, q)
<1>1. /\ at \in DOMAIN leaves /\ Len(leaves[at]) \in Nat /\ DOMAIN leaves[at] = 1 .. Len(leaves[at])
      /\ entry \in Nat /\ entry > 1 /\ at <= at
  BY LeavesTyped DEF IInv, SqueezeInv, SqueezeTypeOK, Flagged
<1>2. leaves[at] # <<>>
  BY <1>1
<1>3. CASE q < entry
  BY <1>1, <1>2, <1>3 DEF SqueezeInv, Compared
<1>4. CASE ~(q < entry)
  <2>1. Len(leaves[at]) > 1 /\ ~Squeezable
    BY <1>1, <1>4 DEF LeafDone
  <2>2. 1 \in DOMAIN leaves[at]
    BY <1>1
  <2>3. /\ \A s \in Segments : squeezed_masks[at][s] = nodes[at].masks[s]
        /\ sax[at] = WordOf(at, 1)
        /\ Covers(nodes[at], WordOf(at, 1)) /\ Covers(nodes[at], WordOf(at, q))
    BY <1>1, <1>2, <2>1, <2>2 DEF Squeezable, SqueezeInv, Flagged, Compared, Filed
  <2>4. \A s \in Segments : nodes[at].masks[s] \in Bits
    BY <1>1 DEF SqueezeInv, SqueezeTypeOK, Node
  <2>5. \A s \in Segments : \A b \in Bits : squeezed_masks[at][s] < b => b >= nodes[at].masks[s]
    BY <2>3, <2>4 DEF Bits
  <2> QED BY <2>3, <2>5 DEF Agrees, Covers
<1> QED BY <1>3, <1>4

LEMMA EnterLeafInv ==
  ASSUME IInv, SqueezeInv, EnterLeaf PROVE SqueezeInv'
<1> DEFINE new == at + 1
           first == start_id[new]
<1>1. /\ pc = "done" /\ at < Len(leaves) /\ LeafDone /\ at' = new
      /\ squeezed_masks' = [squeezed_masks EXCEPT ![new] = [s \in Segments |-> 0]]
      /\ segment_flags' = IF Len(leaves[new]) > 1
                          THEN [s \in Segments |-> s \in Splittable(nodes[new])]
                          ELSE segment_flags
      /\ entry' = 2 /\ UNCHANGED <<nodes, words>> /\ UNCHANGED vars
  BY DEF EnterLeaf
<1>2. leaves' = leaves /\ pc' = pc
  BY <1>1 DEF vars
<1>3. PICK w \in Word : /\ first < DatabaseSize => w = words[saxs[first]]
                        /\ sax' = [sax EXCEPT ![new] = w]
  BY DEF EnterLeaf
<1>4. /\ Len(leaves) \in Nat /\ DOMAIN leaves = 1 .. Len(leaves)
      /\ \A l \in DOMAIN leaves : /\ Len(leaves[l]) \in Nat /\ DOMAIN leaves[l] = 1 .. Len(leaves[l])
                                  /\ leaves[l] \in Seq(Series)
  BY LeavesTyped DEF IInv
<1>5. new \in DOMAIN leaves /\ at \in Nat
  BY <1>1, <1>4 DEF SqueezeInv, SqueezeTypeOK
<1>6. \A l \in DOMAIN leaves : l <= new => l = new \/ (l <= at /\ l # new /\ (l < at \/ l = at))
  BY <1>4, <1>5
<1>7. sax'[new] = w /\ squeezed_masks'[new] = [s \in Segments |-> 0]
  BY <1>1, <1>3, <1>5 DEF SqueezeInv, SqueezeTypeOK
<1>8. \A l \in DOMAIN leaves : l # new => sax'[l] = sax[l] /\ squeezed_masks'[l] = squeezed_masks[l]
  BY <1>1, <1>3 DEF SqueezeInv, SqueezeTypeOK
<1>9. /\ nodes[new].masks \in [Segments -> Bits] /\ 0 \in Bits
      /\ \A s \in Segments : 0 <= nodes[new].masks[s]
  BY <1>5, RegionsAssumption DEF SqueezeInv, SqueezeTypeOK, Node, Bits
<1>10. leaves[new] # <<>> => w = WordOf(new, 1)
  <2>1. HAVE leaves[new] # <<>>
  <2>2. 1 \in DOMAIN leaves[new]
    BY <1>4, <1>5, <2>1
  <2>3. first + 1 - 1 \in Series /\ Holds(first + 1 - 1, leaves[new][1])
    BY <1>1, <1>5, <2>2, WordsInPlace
  <2>4. first \in Nat
    BY <1>5 DEF IInv, TypeOK
  <2>5. first + 1 - 1 = first
    BY <2>4
  <2>6. first < DatabaseSize /\ saxs[first] = leaves[new][1]
    BY <2>3, <2>5, SizeAssumption DEF Series, Holds
  <2> QED BY <1>3, <2>6 DEF WordOf
<1>11. SqueezeTypeOK'
  <2>1. sax' \in [DOMAIN leaves -> Word]
    BY <1>3 DEF SqueezeInv, SqueezeTypeOK
  <2>2. squeezed_masks' \in [DOMAIN leaves -> [Segments -> Bits]]
    BY <1>1, <1>9 DEF SqueezeInv, SqueezeTypeOK
  <2>3. segment_flags' \in [Segments -> BOOLEAN]
    <3>1. CASE Len(leaves[new]) > 1
      <4>1. segment_flags' = [s \in Segments |-> s \in Splittable(nodes[new])]
        BY <1>1, <3>1
      <4> HIDE DEF new
      <4> QED BY <4>1
    <3>2. CASE ~(Len(leaves[new]) > 1)
      BY <1>1, <3>2 DEF SqueezeInv, SqueezeTypeOK
    <3> QED BY <3>1, <3>2
  <2>4. at' \in 0 .. Len(leaves) /\ entry' \in Nat
    BY <1>1, <1>4, <1>5
  <2> QED BY <1>1, <1>2, <2>1, <2>2, <2>3, <2>4 DEF SqueezeInv, SqueezeTypeOK
<1>12. Filed'
  BY <1>1, <1>2 DEF SqueezeInv, Filed, WordOf
<1>13. Compared'
  <2>1. \A l \in DOMAIN leaves : \A q \in DOMAIN leaves[l] :
          /\ WordOf(l, q)' = WordOf(l, q)
          /\ l # new => (Agrees(l, q)' <=> Agrees(l, q))
    BY <1>1, <1>2, <1>8 DEF WordOf, Agrees
  <2>2. ASSUME NEW l \in DOMAIN leaves, l <= new, leaves[l] # <<>>
        PROVE  /\ sax'[l] = WordOf(l, 1)'
               /\ \A s \in Segments : squeezed_masks'[l][s] <= nodes[l].masks[s]
               /\ \A q \in DOMAIN leaves[l] : l < at' \/ q < entry' => Agrees(l, q)'
    <3>1. CASE l = new
      <4>1. \A q \in DOMAIN leaves[new] : new < at' \/ q < entry' => q = 1
        BY <1>1, <1>4, <1>5
      <4>2. sax'[l] = WordOf(l, 1)'
        BY <1>1, <1>2, <1>7, <1>10, <2>2, <3>1 DEF WordOf
      <4>3. Agrees(l, 1)'
        BY <4>2 DEF Agrees
      <4>4. \A s \in Segments : squeezed_masks'[l][s] <= nodes[l].masks[s]
        BY <1>7, <1>9, <3>1
      <4>5. \A q \in DOMAIN leaves[l] : l < at' \/ q < entry' => Agrees(l, q)'
        BY <3>1, <4>1, <4>3
      <4> QED BY <4>2, <4>4, <4>5
    <3>2. CASE l # new
      <4>1. l <= at /\ (l < at \/ l = at)
        BY <1>6, <2>2, <3>2
      <4>2. \A q \in DOMAIN leaves[l] : Agrees(l, q)
        <5>1. CASE l < at
          BY <2>2, <4>1, <5>1 DEF SqueezeInv, Compared
        <5>2. CASE l = at
          BY <1>1, <1>4, <1>5, <5>2, DoneAgrees
        <5> QED BY <4>1, <5>1, <5>2
      <4>3. sax[l] = WordOf(l, 1) /\ \A s \in Segments : squeezed_masks[l][s] <= nodes[l].masks[s]
        BY <2>2, <4>1 DEF SqueezeInv, Compared
      <4>4. 1 \in DOMAIN leaves[l]
        BY <1>4, <2>2
      <4> QED BY <1>8, <2>1, <3>2, <4>2, <4>3, <4>4
    <3> QED BY <3>1, <3>2
  <2> QED BY <1>1, <1>2, <2>2 DEF Compared
<1>14. Flagged'
  <2>1. Len(leaves[new]) > 1 =>
          \A s \in Segments : segment_flags'[s] <=> squeezed_masks'[new][s] # nodes[new].masks[s]
    <3>1. HAVE Len(leaves[new]) > 1
    <3>2. TAKE s \in Segments
    <3>3. segment_flags'[s] <=> nodes[new].masks[s] # 0
      BY <1>1, <3>1, Zenon DEF Splittable
    <3>4. squeezed_masks'[new][s] = 0
      BY <1>7
    <3> QED BY <3>3, <3>4
  <2> QED BY <1>1, <1>2, <2>1 DEF Flagged
<1>15. NoBitGivenUpInVain'
  <2>1. ASSUME NEW l \in DOMAIN leaves, l <= new, NEW s \in Segments, squeezed_masks'[l][s] > 0
        PROVE  \E q \in DOMAIN leaves[l] :
                 words[leaves[l][q]][s][squeezed_masks'[l][s] - 1] # sax'[l][s][squeezed_masks'[l][s] - 1]
    <3>1. l # new
      BY <1>7, <2>1
    <3>2. l <= at /\ sax'[l] = sax[l] /\ squeezed_masks'[l] = squeezed_masks[l]
      BY <1>6, <1>8, <2>1, <3>1
    <3> QED BY <2>1, <3>2 DEF SqueezeInv, NoBitGivenUpInVain
  <2> QED BY <1>1, <1>2, <2>1 DEF NoBitGivenUpInVain
<1> QED BY <1>11, <1>12, <1>13, <1>14, <1>15 DEF SqueezeInv

\* One series of a leaf: segments give up what it does not share with the first.
LEMMA SqueezeSeriesInv ==
  ASSUME IInv, SqueezeInv, SqueezeSeries PROVE SqueezeInv'
<1>1. /\ ~LeafDone /\ entry' = entry + 1
      /\ squeezed_masks' = [squeezed_masks EXCEPT ![at] = [s \in Segments |->
           IF segment_flags[s]
           THEN Squeezed(nodes[at].masks, sax[at], WordAt(entry), squeezed_masks[at][s], s)
           ELSE squeezed_masks[at][s]]]
      /\ segment_flags' = [s \in Segments |->
           segment_flags[s] /\ squeezed_masks'[at][s] # nodes[at].masks[s]]
      /\ UNCHANGED <<nodes, words, at, sax>> /\ UNCHANGED vars
  BY DEF SqueezeSeries
<1>2. leaves' = leaves /\ pc' = pc
  BY <1>1 DEF vars
<1>3. at > 0 /\ entry <= Len(leaves[at]) /\ at \in DOMAIN leaves /\ entry \in Nat
      /\ Len(leaves) \in Nat /\ DOMAIN leaves = 1 .. Len(leaves)
      /\ \A l \in DOMAIN leaves : /\ Len(leaves[l]) \in Nat /\ DOMAIN leaves[l] = 1 .. Len(leaves[l])
                                  /\ \A q \in DOMAIN leaves[l] : leaves[l][q] \in Series
  <2>1. at > 0 /\ ~(entry > Len(leaves[at])) /\ at \in 0 .. Len(leaves) /\ entry \in Nat
    BY <1>1 DEF LeafDone, SqueezeInv, SqueezeTypeOK
  <2>2. /\ Len(leaves) \in Nat /\ DOMAIN leaves = 1 .. Len(leaves)
        /\ \A l \in DOMAIN leaves : /\ Len(leaves[l]) \in Nat /\ DOMAIN leaves[l] = 1 .. Len(leaves[l])
                                    /\ \A q \in DOMAIN leaves[l] : leaves[l][q] \in Series
    BY LeavesTyped DEF IInv
  <2>3. at \in DOMAIN leaves /\ Len(leaves[at]) \in Nat
    BY <2>1, <2>2
  <2> QED BY <2>1, <2>2, <2>3
<1>4. /\ pc = "done" /\ entry > 1 /\ entry \in DOMAIN leaves[at] /\ 1 \in DOMAIN leaves[at]
      /\ leaves[at] # <<>> /\ at <= at
      /\ \A s \in Segments : segment_flags[s] <=> squeezed_masks[at][s] # nodes[at].masks[s]
  BY <1>3 DEF SqueezeInv, Flagged
<1>5. WordAt(entry) = WordOf(at, entry)
  BY <1>3, <1>4, WordsInPlace DEF Holds, WordAt, WordOf
<1> DEFINE w == WordOf(at, entry)
<1>6. /\ nodes[at].masks \in [Segments -> Bits] /\ sax[at] \in Word
      /\ w \in Word /\ Covers(nodes[at], w)
      /\ sax[at] = WordOf(at, 1) /\ Covers(nodes[at], sax[at])
      /\ squeezed_masks[at] \in [Segments -> Bits]
      /\ \A s \in Segments : squeezed_masks[at][s] <= nodes[at].masks[s]
  BY <1>3, <1>4 DEF SqueezeInv, SqueezeTypeOK, Filed, Compared, WordOf, Node
<1> HIDE DEF w
<1>7. \A s \in Segments : squeezed_masks'[at][s] =
        IF segment_flags[s] THEN Squeezed(nodes[at].masks, sax[at], w, squeezed_masks[at][s], s)
        ELSE squeezed_masks[at][s]
  BY <1>1, <1>3, <1>5 DEF SqueezeInv, SqueezeTypeOK, w
<1>8. \A l \in DOMAIN leaves : l # at => squeezed_masks'[l] = squeezed_masks[l]
  BY <1>1 DEF SqueezeInv, SqueezeTypeOK
<1>9. ASSUME NEW s \in Segments
      PROVE  /\ squeezed_masks'[at][s] \in Bits
             /\ squeezed_masks[at][s] <= squeezed_masks'[at][s]
             /\ squeezed_masks'[at][s] <= nodes[at].masks[s]
             /\ \A b \in Bits : squeezed_masks'[at][s] < b => w[s][b] = sax[at][s][b]
             /\ squeezed_masks'[at][s] # squeezed_masks[at][s] =>
                  /\ squeezed_masks'[at][s] > 0
                  /\ w[s][squeezed_masks'[at][s] - 1] # sax[at][s][squeezed_masks'[at][s] - 1]
  <2> DEFINE current == squeezed_masks[at][s]
             mask    == nodes[at].masks[s]
             new     == Squeezed(nodes[at].masks, sax[at], w, current, s)
  <2>1. /\ current \in Bits /\ mask \in Bits /\ current <= mask
        /\ (segment_flags[s] <=> current # mask)
    BY <1>4, <1>6
  <2>2. \A b \in Bits : mask <= b => w[s][b] = sax[at][s][b]
    BY <1>6, <2>1 DEF Covers, Bits
  <2>3. CASE segment_flags[s]
    <3>1. squeezed_masks'[at][s] = new
      BY <1>7, <2>3
    <3>2. /\ new \in Bits /\ current <= new /\ new <= mask
          /\ \A b \in Bits : new < b /\ b < mask => w[s][b] = sax[at][s][b]
          /\ new # current => new > 0 /\ w[s][new - 1] # sax[at][s][new - 1]
      BY <1>6, <2>1, SqueezedSegment
    <3>3. \A b \in Bits : b < mask \/ mask <= b
      BY <2>1 DEF Bits
    <3> HIDE DEF new, mask
    <3>4. \A b \in Bits : new < b => w[s][b] = sax[at][s][b]
      BY <2>2, <3>2, <3>3
    <3> QED BY <3>1, <3>2, <3>4 DEF mask
  <2>4. CASE ~segment_flags[s]
    <3>1. squeezed_masks'[at][s] = current /\ current = mask
      BY <1>7, <2>1, <2>4
    <3>2. \A b \in Bits : mask < b => mask <= b
      BY <2>1 DEF Bits
    <3>3. current <= current
      BY <2>1 DEF Bits
    <3> QED BY <2>1, <2>2, <3>1, <3>2, <3>3
  <2> QED BY <2>3, <2>4
<1>10. SqueezeTypeOK'
  <2>1. squeezed_masks' \in [DOMAIN leaves -> [Segments -> Bits]]
    <3> DEFINE new == [s \in Segments |->
           IF segment_flags[s]
           THEN Squeezed(nodes[at].masks, sax[at], WordAt(entry), squeezed_masks[at][s], s)
           ELSE squeezed_masks[at][s]]
    <3>1. squeezed_masks' = [squeezed_masks EXCEPT ![at] = new]
      BY <1>1
    <3>2. squeezed_masks'[at] = new /\ DOMAIN new = Segments
      BY <1>3, <3>1 DEF SqueezeInv, SqueezeTypeOK
    <3>3. new \in [Segments -> Bits]
      BY <1>9, <3>2
    <3> HIDE DEF new
    <3> QED BY <3>1, <3>3 DEF SqueezeInv, SqueezeTypeOK
  <2>2. segment_flags' \in [Segments -> BOOLEAN]
    BY <1>1
  <2> QED
    BY <1>1, <1>2, <1>3, <2>1, <2>2 DEF SqueezeInv, SqueezeTypeOK
<1>11. Filed'
  BY <1>1, <1>2 DEF SqueezeInv, Filed, WordOf
<1>12. Compared'
  <2>1. \A l \in DOMAIN leaves : \A q \in DOMAIN leaves[l] :
          /\ WordOf(l, q)' = WordOf(l, q)
          /\ l # at => (Agrees(l, q)' <=> Agrees(l, q))
    BY <1>1, <1>2, <1>8 DEF WordOf, Agrees
  <2>2. ASSUME NEW q \in DOMAIN leaves[at], q < entry + 1,
               NEW s \in Segments, NEW b \in Bits, squeezed_masks'[at][s] < b
        PROVE  WordOf(at, q)[s][b] = sax[at][s][b]
    <3>1. CASE q = entry
      BY <1>9, <2>2, <3>1 DEF w
    <3>2. CASE q # entry
      <4>1. q < entry
        BY <1>3, <2>2, <3>2
      <4>2. squeezed_masks[at][s] < b
        <5>1. squeezed_masks[at][s] \in Bits /\ squeezed_masks'[at][s] \in Bits
          BY <1>6, <1>9
        <5> QED BY <1>9, <2>2, <5>1 DEF Bits
      <4>3. Agrees(at, q)
        BY <1>3, <1>4, <4>1 DEF SqueezeInv, Compared
      <4> QED BY <4>2, <4>3 DEF Agrees
    <3> QED BY <3>1, <3>2
  <2>3. ASSUME NEW l \in DOMAIN leaves, l <= at, leaves[l] # <<>>
        PROVE  /\ sax[l] = WordOf(l, 1)'
               /\ \A s \in Segments : squeezed_masks'[l][s] <= nodes[l].masks[s]
               /\ \A q \in DOMAIN leaves[l] : l < at \/ q < entry' => Agrees(l, q)'
    <3>1. 1 \in DOMAIN leaves[l]
      BY <1>3, <2>3
    <3>2. sax[l] = WordOf(l, 1)'
      BY <2>1, <2>3, <3>1 DEF SqueezeInv, Compared
    <3>3. CASE l = at
      <4>1. \A s \in Segments : squeezed_masks'[l][s] <= nodes[l].masks[s]
        BY <1>9, <3>3
      <4>2. \A q \in DOMAIN leaves[l] : q < entry + 1 => Agrees(l, q)'
        BY <1>1, <2>1, <2>2, <3>3 DEF Agrees
      <4>3. ~(l < at)
        BY <1>3, <3>3
      <4> QED BY <1>1, <3>2, <4>1, <4>2, <4>3
    <3>4. CASE l # at
      <4>1. l < at
        BY <1>3, <2>3, <3>4
      <4> QED BY <1>8, <2>1, <2>3, <3>2, <3>4, <4>1 DEF SqueezeInv, Compared
    <3> QED BY <3>3, <3>4
  <2> QED BY <1>1, <1>2, <2>3 DEF Compared
<1>13. Flagged'
  <2>1. \A s \in Segments : segment_flags'[s] <=> squeezed_masks'[at][s] # nodes[at].masks[s]
    <3>1. TAKE s \in Segments
    <3>2. squeezed_masks[at][s] = nodes[at].masks[s] =>
            squeezed_masks'[at][s] = nodes[at].masks[s]
      BY <1>4, <1>7
    <3> QED BY <1>1, <1>4, <3>2
  <2>2. entry' > 1
    BY <1>1, <1>3, <1>4
  <2> QED BY <1>1, <1>2, <1>3, <1>4, <2>1, <2>2 DEF Flagged
<1>14. NoBitGivenUpInVain'
  <2>1. ASSUME NEW l \in DOMAIN leaves, l <= at, NEW s \in Segments, squeezed_masks'[l][s] > 0
        PROVE  \E q \in DOMAIN leaves[l] :
                 words[leaves[l][q]][s][squeezed_masks'[l][s] - 1] # sax[l][s][squeezed_masks'[l][s] - 1]
    <3>1. CASE squeezed_masks'[l][s] = squeezed_masks[l][s]
      BY <2>1, <3>1 DEF SqueezeInv, NoBitGivenUpInVain
    <3>2. CASE squeezed_masks'[l][s] # squeezed_masks[l][s]
      <4>1. l = at
        BY <1>8, <3>2
      <4> QED BY <1>4, <1>9, <3>2, <4>1 DEF w, WordOf
    <3> QED BY <3>1, <3>2
  <2> QED BY <1>1, <1>2, <2>1 DEF NoBitGivenUpInVain
<1> QED BY <1>10, <1>11, <1>12, <1>13, <1>14 DEF SqueezeInv

\* permute's steps, and none at all.
LEMMA MoveSqueezeInv ==
  ASSUME IInv, SqueezeInv, Move \/ UNCHANGED vars, UNCHANGED squeezing PROVE SqueezeInv'
<1>1. UNCHANGED <<nodes, words, at, sax, squeezed_masks, segment_flags, entry>>
  BY DEF squeezing
<1>2. leaves' = leaves /\ (pc = "done" => pc' = "done")
  BY DEF Move, FetchLeaf, AssertCounter, MoveNext, NextCycle, Finish, vars
<1>3. SqueezeTypeOK'
  BY <1>1, <1>2 DEF SqueezeInv, SqueezeTypeOK
<1>4. Filed'
  BY <1>1, <1>2 DEF SqueezeInv, Filed, WordOf
<1>5. Compared'
  BY <1>1, <1>2 DEF SqueezeInv, Compared, WordOf, Agrees
<1>6. Flagged'
  BY <1>1, <1>2 DEF SqueezeInv, Flagged
<1>7. NoBitGivenUpInVain'
  BY <1>1, <1>2 DEF SqueezeInv, NoBitGivenUpInVain
<1> QED BY <1>3, <1>4, <1>5, <1>6, <1>7 DEF SqueezeInv

\* The invariant holds for the whole of finalizeIndex.
THEOREM Squeezing == SqueezeSpec => [](IInv /\ SqueezeInv)
<1>1. IInv /\ SqueezeInv /\ [SqueezeNext]_all => SqueezeInv'
  BY EnterLeafInv, SqueezeSeriesInv, MoveSqueezeInv DEF SqueezeNext, Finalized, all
<1> QED BY <1>1, SqueezeInitInv, SqueezeInvariance, PTL DEF SqueezeSpec

\* A leaf's squeezed region lies within the region construction filed it under, for
\* leaves of any size, any number of segments and any cardinality.
THEOREM SqueezedStayWithin == SqueezeSpec => []SqueezedWithinLeaf
<1>1. ASSUME IInv, SqueezeInv, NEW l \in DOMAIN leaves, l <= at, leaves[l] # <<>>
      PROVE  Within(Region(l), nodes[l])
  <2>1. 1 \in DOMAIN leaves[l]
    BY <1>1, LeavesTyped DEF IInv
  <2>2. Covers(nodes[l], sax[l]) /\ \A s \in Segments : squeezed_masks[l][s] <= nodes[l].masks[s]
    BY <1>1, <2>1 DEF SqueezeInv, Filed, Compared
  <2> QED BY <2>2 DEF Covers, Region, Within
<1>2. IInv /\ SqueezeInv => SqueezedWithinLeaf
  BY <1>1 DEF SqueezedWithinLeaf
<1> QED BY <1>2, Squeezing, PTL

\* Above the last bit kept, the region bounds all series that construction filed in
\* its leaf, wherever permute has moved their words.
THEOREM SqueezedAgree == SqueezeSpec => []AgreeAboveLastBit
<1>1. ASSUME IInv, SqueezeInv, NEW l \in DOMAIN leaves, l < at \/ (l = at /\ LeafDone),
             NEW q \in DOMAIN leaves[l]
      PROVE  Agrees(l, q)
  <2>1. /\ l \in Nat \ {0} /\ at \in Nat /\ leaves[l] # <<>>
    BY <1>1, LeavesTyped DEF IInv, SqueezeInv, SqueezeTypeOK
  <2>2. CASE l < at
    BY <1>1, <2>1, <2>2 DEF SqueezeInv, Compared
  <2>3. CASE l = at /\ LeafDone
    BY <1>1, <2>1, <2>3, DoneAgrees
  <2> QED BY <1>1, <2>2, <2>3
<1>2. ASSUME IInv, SqueezeInv, NEW l \in DOMAIN leaves, l < at \/ (l = at /\ LeafDone),
             NEW q \in DOMAIN leaves[l], NEW s \in Segments, NEW b \in Bits,
             b > squeezed_masks[l][s]
      PROVE  words[leaves[l][q]][s][b] = sax[l][s][b]
  <2>1. squeezed_masks[l][s] \in Bits
    BY <1>2 DEF SqueezeInv, SqueezeTypeOK
  <2>2. squeezed_masks[l][s] < b
    BY <1>2, <2>1 DEF Bits
  <2> QED BY <1>1, <1>2, <2>2 DEF Agrees, WordOf
<1>3. IInv /\ SqueezeInv => AgreeAboveLastBit
  BY <1>2 DEF AgreeAboveLastBit
<1> QED BY <1>3, Squeezing, PTL

\* Every bit dropped was dropped for a series of the leaf that needed it.
THEOREM SqueezedTightly == SqueezeSpec => []NoBitGivenUpInVain
BY Squeezing, PTL DEF SqueezeInv
=============================================================================

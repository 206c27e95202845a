------------------------------ MODULE Finalize ------------------------------
(***************************************************************************)
(* The first half of finalizeIndex (src/src/index/index_engine.c): fetch-  *)
(* Permutation walks the leaves and gives every series its place in leaf   *)
(* order, the assertion checks the count, and permute moves the series and *)
(* their words there in place, cycle by cycle.                             *)
(*                                                                         *)
(* A series' values and its SAX word are represented by the identifier the *)
(* series had before the move.  The leaves are given in the order of the   *)
(* walk, empty ones below a split included; the roots that finalizeIndex   *)
(* frees before are not among them.                                        *)
(***************************************************************************)
EXTENDS Integers, Sequences

CONSTANTS DatabaseSize,    \* index->database_size
          LeafLists        \* the sequences of leaves, each its ids, to start from

Series == 0 .. DatabaseSize - 1

ASSUME SizeAssumption == DatabaseSize \in Nat \ {0}

\* What construction guarantees (IndexBuildProofs: SeriesAreConserved and
\* BuiltIndexIsComplete): every series is one entry of one leaf.
ASSUME LeavesAssumption ==
  /\ LeafLists \subseteq Seq(Seq(Series))
  /\ \A leaves \in LeafLists :
       /\ \A i \in Series : \E l \in DOMAIN leaves : \E q \in DOMAIN leaves[l] : leaves[l][q] = i
       /\ \A l, m \in DOMAIN leaves : \A q \in DOMAIN leaves[l], r \in DOMAIN leaves[m] :
            leaves[l][q] = leaves[m][r] => l = m /\ q = r

VARIABLES leaves,         \* per leaf of the walk, its array ids
          leaf,           \* the leaf fetchPermutation is at
          counter,        \* finalizeIndex's counter
          start_id,       \* per leaf, its start_id
          permutation,    \* the array permutation
          i, next,        \* permute's loop variables
          values, saxs,   \* whose values and whose word each position holds
          pc

vars == <<leaves, leaf, counter, start_id, permutation, i, next, values, saxs, pc>>

TypeOK ==
  /\ leaves \in Seq(Seq(Series))
  /\ leaf \in Nat \ {0}
  /\ counter \in Nat
  /\ start_id \in [DOMAIN leaves -> Nat]
  /\ permutation \in [Series -> Int]
  /\ i \in Nat /\ next \in Nat
  /\ values \in [Series -> Series] /\ saxs \in [Series -> Series]
  /\ pc \in {"fetch", "permute", "done", "aborted"}

\* permutation comes from aligned_alloc; -1 stands for what it may hold.
Init ==
  /\ leaves \in LeafLists
  /\ leaf = 1
  /\ counter = 0
  /\ start_id = [l \in DOMAIN leaves |-> 0]
  /\ permutation = [s \in Series |-> -1]
  /\ i = 0 /\ next = 0
  /\ values = [s \in Series |-> s] /\ saxs = [s \in Series |-> s]
  /\ pc = "fetch"

\* fetchPermutation at a leaf: it starts at counter, its entries follow.
FetchLeaf_EmptyCounted ==
  LET entries == leaves[leaf]
      Position(s) == CHOOSE q \in DOMAIN entries : entries[q] = s
  IN  /\ pc = "fetch" /\ leaf <= Len(leaves)
      /\ start_id' = [start_id EXCEPT ![leaf] = counter]
      /\ permutation' = [s \in Series |->
           IF \E q \in DOMAIN entries : entries[q] = s
           THEN counter + Position(s) - 1 ELSE permutation[s]]
      /\ counter' = counter + IF entries = <<>> THEN 1 ELSE Len(entries)
      /\ leaf' = leaf + 1
      /\ UNCHANGED <<leaves, i, next, values, saxs, pc>>
FetchLeaf ==
  LET entries == leaves[leaf]
      Position(s) == CHOOSE q \in DOMAIN entries : entries[q] = s
  IN  /\ pc = "fetch" /\ leaf <= Len(leaves)
      /\ start_id' = [start_id EXCEPT ![leaf] = counter]
      /\ permutation' = [s \in Series |->
           IF \E q \in DOMAIN entries : entries[q] = s
           THEN counter + Position(s) - 1 ELSE permutation[s]]
      /\ counter' = counter + Len(entries)
      /\ leaf' = leaf + 1
      /\ UNCHANGED <<leaves, i, next, values, saxs, pc>>

\* assert(counter == index->database_size)
AssertCounter ==
  /\ pc = "fetch" /\ leaf > Len(leaves)
  /\ pc' = IF counter = DatabaseSize THEN "permute" ELSE "aborted"
  /\ UNCHANGED <<leaves, leaf, counter, start_id, permutation, i, next, values, saxs>>

Swapped(array, a, b) == [array EXCEPT ![a] = array[b], ![b] = array[a]]

\* A place below zero is the mark of a series that was moved.
Moved(s) == permutation[s] < 0
Mark_Nothing(s) == permutation
Mark(s) == [permutation EXCEPT ![s] = @ - DatabaseSize]

\* One turn of permute's inner loop: position i gives what it holds to the
\* place of next and takes what was there; next is marked and its place follows.
MoveNext ==
  /\ pc = "permute" /\ i < DatabaseSize /\ ~Moved(next)
  /\ values' = Swapped(values, i, permutation[next])
  /\ saxs' = Swapped(saxs, i, permutation[next])
  /\ permutation' = Mark(next)
  /\ next' = permutation[next]
  /\ UNCHANGED <<leaves, leaf, counter, start_id, i, pc>>

\* The cycle is closed, or i was moved with an earlier one.
NextCycle_NextKept ==
  /\ pc = "permute" /\ i < DatabaseSize /\ Moved(next)
  /\ i' = i + 1
  /\ UNCHANGED <<leaves, leaf, counter, start_id, permutation, next, values, saxs, pc>>
NextCycle ==
  /\ pc = "permute" /\ i < DatabaseSize /\ Moved(next)
  /\ i' = i + 1 /\ next' = i + 1
  /\ UNCHANGED <<leaves, leaf, counter, start_id, permutation, values, saxs, pc>>

Finish ==
  /\ pc = "permute" /\ i = DatabaseSize
  /\ pc' = "done"
  /\ UNCHANGED <<leaves, leaf, counter, start_id, permutation, i, next, values, saxs>>

Terminated == pc \in {"done", "aborted"} /\ UNCHANGED vars

Move == FetchLeaf \/ AssertCounter \/ MoveNext \/ NextCycle \/ Finish

Next == Move \/ Terminated

Spec == Init /\ [][Next]_vars /\ WF_vars(Next)

----------------------------------------------------------------------------
(* Properties *)

\* The assertion of finalizeIndex never fails.
AssertionHolds == pc # "aborted"

\* The place fetchPermutation gave to a series, before or after it was marked.
Target(s) == IF Moved(s) THEN permutation[s] + DatabaseSize ELSE permutation[s]

\* What queries rely on: the entry q of a leaf and its word are found at
\* start_id + q, for every permutation, with the marks in place of a second array.
LeavesAreContiguous ==
  pc = "done" =>
    \A l \in DOMAIN leaves : \A q \in DOMAIN leaves[l] :
      /\ values[start_id[l] + q - 1] = leaves[l][q]
      /\ saxs[start_id[l] + q - 1] = leaves[l][q]

\* No exchange overwrites the only copy of a series or of a word.
NothingOverwritten ==
  \A s \in Series : (\E p \in Series : values[p] = s) /\ (\E p \in Series : saxs[p] = s)

\* A series that was brought to its place is not moved again.
SettledSeriesStay ==
  [][\A s \in Series : pc = "permute" /\ Moved(s) =>
       values'[Target(s)] = s /\ saxs'[Target(s)] = s]_vars

\* The cycles are followed to their end and all positions are visited.
Termination == <>(pc = "done")

----------------------------------------------------------------------------
(* The inductive invariant behind the theorems of FinalizeProofs *)

\* Leaves fetched so far occupy consecutive places from 0 up to counter.
Fetched ==
  /\ leaf <= Len(leaves) + 1
  /\ pc # "fetch" => leaf = Len(leaves) + 1
  /\ \A l \in DOMAIN leaves : l < leaf =>
       /\ start_id[l] + Len(leaves[l]) <= counter
       /\ \A q \in DOMAIN leaves[l] :
            /\ Target(leaves[l][q]) = start_id[l] + q - 1
            /\ pc = "fetch" => permutation[leaves[l][q]] >= 0
  /\ \A l, m \in DOMAIN leaves : l < m /\ m < leaf => start_id[l] + Len(leaves[l]) <= start_id[m]
  /\ \A p \in 0 .. counter - 1 : \E l \in DOMAIN leaves : \E q \in DOMAIN leaves[l] :
       l < leaf /\ p = start_id[l] + q - 1

Unmoved ==
  i = 0 /\ next = 0 /\ \A s \in Series : values[s] = s /\ saxs[s] = s

\* The permutation is one, whatever part of it carries marks.
IsPermutation ==
  /\ \A s \in Series : permutation[s] < DatabaseSize /\ Target(s) \in Series
  /\ \A s, t \in Series : Target(s) = Target(t) => s = t

Open     == next \in Series /\ ~Moved(next)
Holds(p, s) == values[p] = s /\ saxs[p] = s

\* Moved series are in place and form closed cycles, except for the one that
\* is being followed: it runs from i to next, whose series waits at i.
Cycles ==
  /\ i <= DatabaseSize /\ (next \in Series \/ (next = i /\ i = DatabaseSize))
  /\ \A s \in Series : s < i => Moved(s)
  /\ Open => Holds(i, next)
  /\ \A s \in Series : ~Moved(s) /\ s # next => Holds(s, s) /\ s # i
  /\ \A s \in Series : Moved(s) =>
       /\ Holds(Target(s), s)
       /\ Moved(Target(s)) \/ Target(s) = next
       /\ Open => Target(s) # i
       /\ (s = i /\ Open) \/ \E r \in Series : Moved(r) /\ Target(r) = s
  /\ Open /\ next # i => \E r \in Series : Moved(r) /\ Target(r) = next

IInv ==
  /\ TypeOK /\ leaves \in LeafLists /\ Fetched
  /\ pc = "fetch" => Unmoved
  /\ pc # "aborted"
  /\ pc \in {"permute", "done"} => IsPermutation /\ Cycles
  /\ pc = "done" => i = DatabaseSize
=============================================================================

------------------------------- MODULE Answer -------------------------------
(***************************************************************************)
(* The answer to a query (src/src/query/answer.c): an array of k distances *)
(* whose first size entries are a max-heap, filled by checkNUpdateBSF, its *)
(* top read by getBSF and emptied by cleanAnswer.                          *)
(*                                                                         *)
(* One call at a time here; Query interleaves the calls of many threads.   *)
(* Distances are integers: values further apart than VALUE_EPSILON, or     *)
(* equal.                                                                  *)
(***************************************************************************)
EXTENDS Integers, Bags, FiniteSets

CONSTANTS K,              \* answer->k
          Distances,      \* the squared distances that candidates have
          VALUE_MAX       \* the macro of globals.h

\* initializeConfig also lets k = 0 pass, for which distances[0] does not exist.
ASSUME AnswerAssumption ==
  /\ K \in Nat \ {0}
  /\ Distances \subseteq Nat /\ VALUE_MAX \in Nat
  /\ \A d \in Distances : d < VALUE_MAX

VARIABLES distances,      \* answer->distances
          size            \* answer->size

answer == <<distances, size>>

Slots == 0 .. K - 1
Heaps == [Slots -> Distances \cup {VALUE_MAX}]

\* malloc leaves all entries but the first undefined; VALUE_MAX stands for those.
InitializeAnswer == distances = [j \in Slots |-> VALUE_MAX] /\ size = 0

Exchange(heap, a, b) == [heap EXCEPT ![a] = heap[b], ![b] = heap[a]]

\* The child that is larger, the left one of equals.
LargerChild(heap, left, right) == IF heap[left] < heap[right] THEN right ELSE left

\* The recursion is over the entry; what it makes of a heap is a function.
heapifyTopDown(heap, parent, n) ==
  LET Down[p \in Slots] == [h \in Heaps |->
        LET left  == 2 * p + 1
            right == left + 1
            next  == LargerChild(h, left, right)
        IN  IF right < n
            THEN IF h[p] < h[next] THEN Down[next][Exchange(h, p, next)] ELSE h
            ELSE IF left < n /\ h[p] < h[left] THEN Exchange(h, p, left) ELSE h]
  IN  Down[parent][heap]

Parent(child) == (child - 1) \div 2

\* One turn of heapifyBottomUp, which goes on to the top in any case.
Lifted(heap, child) ==
  IF heap[Parent(child)] < heap[child] THEN Exchange(heap, Parent(child), child) ELSE heap

heapifyBottomUp(heap, child) ==
  LET Up[c \in Slots] == [h \in Heaps |->
        IF c = 0 THEN h ELSE Up[Parent(c)][Lifted(h, c)]]
  IN  Up[child][heap]

getBSF == distances[0]

\* checkNUpdateBSF
CheckNUpdateBSF(distance) ==
  \/ /\ size < K
     /\ distances' = heapifyBottomUp([distances EXCEPT ![size] = distance], size)
     /\ size' = size + 1
  \/ /\ size = K /\ distance < distances[0]
     /\ distances' = heapifyTopDown([distances EXCEPT ![0] = distance], 0, size)
     /\ UNCHANGED size
  \/ /\ size = K /\ distance >= distances[0]
     /\ UNCHANGED answer

CleanAnswer_KeepsBound == size' = 0 /\ UNCHANGED distances
CleanAnswer ==
  /\ size' = 0
  /\ distances' = [distances EXCEPT ![0] = VALUE_MAX]

AnswerNext == CleanAnswer \/ \E d \in Distances : CheckNUpdateBSF(d)

AnswerSpec == InitializeAnswer /\ [][AnswerNext]_answer

----------------------------------------------------------------------------
(* Properties *)

\* The distances held, each as often as it is held.
Held ==
  LET values == {distances[j] : j \in 0 .. size - 1}
  IN  [d \in values |-> Cardinality({j \in 0 .. size - 1 : distances[j] = d})]

\* The heap holds the K smallest of all distances it was offered, repetitions
\* included, and its top is the worst of them: neither heapify function loses
\* or repeats an entry, and entries left over from an earlier query never count.
Abstract == INSTANCE AnswerAbstract WITH
  nearest <- Held, bsf <- getBSF, Unbounded <- VALUE_MAX
ImplementsKNearest == Abstract!Spec
=============================================================================

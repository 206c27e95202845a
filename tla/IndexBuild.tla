----------------------------- MODULE IndexBuild -----------------------------
(***************************************************************************)
(* The concurrent construction of the iSAX tree: buildIndex and its        *)
(* buildIndexThread workers (src/src/index/index_engine.c), with           *)
(* splitNode, both decideSplitSegment functions, route and insertNode.     *)
(*                                                                         *)
(* A node is named by its region, the pair of its sax word and its masks:  *)
(* the region of a node does not change during construction, and no two    *)
(* nodes of the tree have the same (proved in IndexBuildProofs).  The left *)
(* and right pointers become the segment the node was split on, from which *)
(* both children follow; left = NULL is segment = NoSegment.  The array    *)
(* ids is the set of its entries; size counts them as the code does.       *)
(***************************************************************************)
EXTENDS Regions, FiniteSets

CONSTANTS DatabaseSize,           \* config->database_size
          MaxThreads,             \* config->max_threads
          BlockSize,              \* config->index_block_size
          InitialLeafSize,        \* config->initial_leaf_size
          LeafSize,               \* config->leaf_size
          Databases,              \* the arrays index->saxs to build from
          NoNode                  \* a node pointer that was not set yet

Series == 0 .. DatabaseSize - 1

\* The asserts of initializeConfig that construction depends on.
ASSUME ConfigAssumption ==
  /\ DatabaseSize \in Nat \ {0}
  /\ MaxThreads \in Nat \ {0}
  /\ BlockSize \in Nat \ {0}
  /\ LeafSize \in Nat \ {0}
  /\ InitialLeafSize \in 1 .. LeafSize

ASSUME DatabasesAssumption == Databases \subseteq [Series -> Word]

ASSUME NoNodeAssumption == NoNode \notin Node

\* ceil(database_size / index_block_size) blocks, and no more threads than that.
NumBlocks  == (DatabaseSize + BlockSize - 1) \div BlockSize
NumThreads == IF MaxThreads > NumBlocks THEN NumBlocks ELSE MaxThreads
Threads    == 1 .. NumThreads
NoThread   == 0

VARIABLES
  saxs,               \* index->saxs, read only during construction
  split_by_summarizations,  \* the flag of config, read only
  shared_start_id,    \* the counter the workers fetch-and-add
  failed,             \* exit(EXIT_FAILURE) was called
  pc,                 \* per worker: where it is,
  series, stop_id,    \*   the loop variable i and local_stop_id,
  node, parent,       \*   node and parent
  ids, size, capacity,  \* per allocated node: its contents,
  segment,              \*   the segment it was split on,
  lock                  \*   and the worker that holds its mutex

input   == <<saxs, split_by_summarizations>>
workers == <<pc, series, stop_id, node, parent>>
tree    == <<ids, size, capacity, segment, lock>>
vars    == <<input, shared_start_id, failed, workers, tree>>

Allocated == DOMAIN lock
IsLeaf(n) == segment[n] = NoSegment

Labels == {"claim", "lock_root", "test", "split", "lock_child",
           "unlock_parent", "insert", "unlock", "done"}

TypeOK ==
  /\ saxs \in [Series -> Word]
  /\ split_by_summarizations \in BOOLEAN
  /\ shared_start_id \in Nat
  /\ failed \in BOOLEAN
  /\ pc \in [Threads -> Labels]
  /\ series \in [Threads -> Nat]
  /\ stop_id \in [Threads -> Nat]
  /\ node \in [Threads -> Node \cup {NoNode}]
  /\ parent \in [Threads -> Node \cup {NoNode}]
  /\ Allocated \in SUBSET Node
  /\ ids \in [Allocated -> SUBSET Series]
  /\ size \in [Allocated -> Nat]
  /\ capacity \in [Allocated -> Nat]
  /\ segment \in [Allocated -> Segments \cup {NoSegment}]
  /\ lock \in [Allocated -> Threads \cup {NoThread}]

Init ==
  /\ saxs \in Databases
  /\ split_by_summarizations \in BOOLEAN
  /\ shared_start_id = 0
  /\ failed = FALSE
  /\ pc = [t \in Threads |-> "claim"]
  /\ series = [t \in Threads |-> 0]
  /\ stop_id = [t \in Threads |-> 0]
  /\ node = [t \in Threads |-> NoNode]
  /\ parent = [t \in Threads |-> NoNode]
  /\ ids = [n \in Roots |-> {}]
  /\ size = [n \in Roots |-> 0]
  /\ capacity = [n \in Roots |-> 0]
  /\ segment = [n \in Roots |-> NoSegment]
  /\ lock = [n \in Roots |-> NoThread]

Goto(t, label) == pc' = [pc EXCEPT ![t] = label]

----------------------------------------------------------------------------
(* insertNode and splitNode *)

CapacityAfterInsert_NotCapped(n, initial, max) ==
  IF capacity[n] = 0 THEN initial
  ELSE IF size[n] = capacity[n] THEN 2 * capacity[n] ELSE capacity[n]

\* The capacity of a leaf after insertNode(leaf, id, initial, max).
CapacityAfterInsert(n, initial, max) ==
  IF capacity[n] = 0 THEN initial
  ELSE IF size[n] = capacity[n]
       THEN IF 2 * capacity[n] > max THEN max ELSE 2 * capacity[n]
       ELSE capacity[n]

\* decideSplitSegmentByNextBit: the segment whose next bit divides the series
\* of n most evenly; of equals the one with the larger mask, then the first.
Difference_Signed(n, s) ==
  2 * Cardinality({i \in ids[n] : saxs[i][s][n.masks[s] - 1] = 1}) - size[n]
Difference(n, s) ==
  LET ones == Cardinality({i \in ids[n] : saxs[i][s][n.masks[s] - 1] = 1})
      diff == 2 * ones - size[n]
  IN  IF diff < 0 THEN -diff ELSE diff

Beats(n, s, r) ==
  \/ Difference(n, s) < Difference(n, r)
  \/ /\ Difference(n, s) = Difference(n, r)
     /\ n.masks[s] > n.masks[r] \/ (n.masks[s] = n.masks[r] /\ s <= r)

NextBitSegments(n) ==
  {s \in Splittable(n) : \A r \in Splittable(n) : Beats(n, s, r)}

\* decideSplitSegmentByDistribution compares floating point statistics of the
\* summarizations, which may come out NaN: any segment with a bit left, or none.
\* Without a candidate both functions return -1.
SplitSegments(n) ==
  IF split_by_summarizations
  THEN Splittable(n) \cup {NoSegment}
  ELSE IF Splittable(n) = {} THEN {NoSegment} ELSE NextBitSegments(n)

\* f, defined on the allocated nodes, with values for two new nodes.
WithNew(f, l, x, r, y) ==
  [n \in DOMAIN f \cup {l, r} |-> IF n = l THEN x ELSE IF n = r THEN y ELSE f[n]]

\* The series of p whose word goes to the right child when p is split on s.
RightIds_OldBit(p, s) == {i \in ids[p] : saxs[i][s][p.masks[s]] = 1}
RightIds(p, s) == {i \in ids[p] : saxs[i][s][p.masks[s] - 1] = 1}

LeftIds_LastLost(p, s) ==
  {i \in ids[p] \ RightIds(p, s) : \E j \in ids[p] : i < j}
LeftIds(p, s) == ids[p] \ RightIds(p, s)

Divide(p, s) ==
  LET l    == LeftChild(p, s)
      r    == RightChild(p, s)
      to_r == RightIds(p, s)
      to_l == LeftIds(p, s)
      \* insertNode(child, id, parent->capacity, parent->capacity)
      cap(moved) == IF moved = {} THEN 0 ELSE capacity[p]
  IN  /\ ids'      = WithNew([ids EXCEPT ![p] = {}], l, to_l, r, to_r)
      /\ size'     = WithNew([size EXCEPT ![p] = 0], l, Cardinality(to_l), r, Cardinality(to_r))
      /\ capacity' = WithNew([capacity EXCEPT ![p] = 0], l, cap(to_l), r, cap(to_r))
      /\ segment'  = WithNew([segment EXCEPT ![p] = s], l, NoSegment, r, NoSegment)
      /\ lock'     = WithNew(lock, l, NoThread, r, NoThread)

----------------------------------------------------------------------------
(* buildIndexThread *)

\* local_stop_id of the block that starts at start.
BlockEnd_TooFar(start) ==
  IF start + BlockSize >= DatabaseSize THEN DatabaseSize ELSE start + BlockSize + 1
BlockEnd_TooShort(start) ==
  IF start + BlockSize > DatabaseSize THEN DatabaseSize ELSE start + BlockSize - 1
BlockEnd(start) ==
  IF start + BlockSize > DatabaseSize THEN DatabaseSize ELSE start + BlockSize

\* __sync_fetch_and_add and the test of the outer loop.
Claim(t) ==
  /\ pc[t] = "claim"
  /\ shared_start_id' = shared_start_id + BlockSize
  /\ IF shared_start_id < DatabaseSize
     THEN /\ series' = [series EXCEPT ![t] = shared_start_id]
          /\ stop_id' = [stop_id EXCEPT ![t] = BlockEnd(shared_start_id)]
          /\ Goto(t, "lock_root")
     ELSE Goto(t, "done") /\ UNCHANGED <<series, stop_id>>
  /\ UNCHANGED <<input, failed, node, parent, tree>>

\* pthread_mutex_lock of a node that becomes the current one.
LockNode_Busy(t, n) ==
  /\ lock' = [lock EXCEPT ![n] = t]
  /\ node' = [node EXCEPT ![t] = n]
LockNode(t, n) ==
  /\ lock[n] = NoThread
  /\ lock' = [lock EXCEPT ![n] = t]
  /\ node' = [node EXCEPT ![t] = n]

LockRoot(t) ==
  /\ pc[t] = "lock_root"
  /\ LockNode(t, RootOf(saxs[series[t]]))
  /\ Goto(t, "test")
  /\ UNCHANGED <<input, shared_start_id, failed, series, stop_id, parent,
                 ids, size, capacity, segment>>

\* The condition of the inner loop, and whether to split before descending.
Test(t) ==
  LET n    == node[t]
      full == capacity[n] # 0 /\ size[n] = LeafSize
  IN  /\ pc[t] = "test"
      /\ IF ~IsLeaf(n) \/ full
         THEN /\ parent' = [parent EXCEPT ![t] = n]
              /\ Goto(t, IF size[n] = LeafSize THEN "split" ELSE "lock_child")
         ELSE Goto(t, "insert") /\ UNCHANGED parent
      /\ UNCHANGED <<input, shared_start_id, failed, series, stop_id, node, tree>>

SplitNode(t) ==
  /\ pc[t] = "split"
  /\ \E s \in SplitSegments(parent[t]) \ {NoSegment} : Divide(parent[t], s)
  /\ Goto(t, "lock_child")
  /\ UNCHANGED <<input, shared_start_id, failed, series, stop_id, node, parent>>

\* "cannot find segment to split": exit(EXIT_FAILURE) ends the whole process.
FailToSplit(t) ==
  /\ pc[t] = "split"
  /\ NoSegment \in SplitSegments(parent[t])
  /\ failed' = TRUE
  /\ UNCHANGED <<input, shared_start_id, workers, tree>>

\* route, then the child's mutex is taken while the parent's is still held.
LockChild(t) ==
  /\ pc[t] = "lock_child"
  /\ LockNode(t, Route(parent[t], segment[parent[t]], saxs[series[t]]))
  /\ Goto(t, "unlock_parent")
  /\ UNCHANGED <<input, shared_start_id, failed, series, stop_id, parent,
                 ids, size, capacity, segment>>

UnlockParent_Forgotten(t) ==
  /\ pc[t] = "unlock_parent"
  /\ Goto(t, "test")
  /\ UNCHANGED <<input, shared_start_id, failed, series, stop_id, node, parent, tree>>
UnlockParent(t) ==
  /\ pc[t] = "unlock_parent"
  /\ lock' = [lock EXCEPT ![parent[t]] = NoThread]
  /\ Goto(t, "test")
  /\ UNCHANGED <<input, shared_start_id, failed, series, stop_id, node, parent,
                 ids, size, capacity, segment>>

InsertNode(t) ==
  LET n == node[t]
  IN  /\ pc[t] = "insert"
      /\ capacity' = [capacity EXCEPT ![n] =
                        CapacityAfterInsert(n, InitialLeafSize, LeafSize)]
      /\ ids' = [ids EXCEPT ![n] = @ \cup {series[t]}]
      /\ size' = [size EXCEPT ![n] = @ + 1]
      /\ Goto(t, "unlock")
      /\ UNCHANGED <<input, shared_start_id, failed, series, stop_id, node,
                     parent, segment, lock>>

Unlock(t) ==
  /\ pc[t] = "unlock"
  /\ lock' = [lock EXCEPT ![node[t]] = NoThread]
  /\ series' = [series EXCEPT ![t] = @ + 1]
  /\ Goto(t, IF series[t] + 1 < stop_id[t] THEN "lock_root" ELSE "claim")
  /\ UNCHANGED <<input, shared_start_id, failed, stop_id, node, parent,
                 ids, size, capacity, segment>>

Step(t) ==
  \/ Claim(t) \/ LockRoot(t) \/ Test(t) \/ SplitNode(t) \/ FailToSplit(t)
  \/ LockChild(t) \/ UnlockParent(t) \/ InsertNode(t) \/ Unlock(t)

Worker(t) == ~failed /\ Step(t)

\* buildIndex returns once every worker is joined.
Built == \A t \in Threads : pc[t] = "done"

Terminated == (failed \/ Built) /\ UNCHANGED vars

Next == Terminated \/ \E t \in Threads : Worker(t)

\* The operating system runs every worker that can go on; a mutex that is
\* free again and again is not promised to any particular waiter.
Spec == Init /\ [][Next]_vars /\ \A t \in Threads : WF_vars(Worker(t))
----------------------------------------------------------------------------
(* Properties *)

\* The nodes whose fields worker t reads or writes at its current label.
Using(t) ==
  CASE pc[t] \in {"test", "split", "lock_child", "insert", "unlock"} -> {node[t]}
    [] pc[t] = "unlock_parent" -> {node[t], parent[t]}
    [] OTHER -> {}

\* No two workers are at work on the same node, whatever they do there: the
\* test of its size, its split and the insertion are one critical section.
MutualExclusion ==
  \A t, u \in Threads : t # u => Using(t) \cap Using(u) = {}

\* The series that t claimed and has not inserted yet.
Pending(t) ==
  {i \in Series : /\ series[t] <= i /\ i < stop_id[t]
                  /\ ~(pc[t] = "unlock" /\ i = series[t])}

Stored(i)  == \E n \in Allocated : i \in ids[n]
Carried(i) == \E t \in Threads : i \in Pending(t)

\* Every series is at exactly one place: not claimed yet, on the way with one
\* worker, or in one node.  The claims by fetch-and-add, the locks and the
\* splits neither lose nor repeat one.
EverySeriesOnce ==
  \A i \in Series :
    /\ i >= shared_start_id => ~Stored(i) /\ ~Carried(i)
    /\ i < shared_start_id  => (Stored(i) <=> ~Carried(i))
    /\ \A m, n \in Allocated : i \in ids[m] /\ i \in ids[n] => m = n
    /\ \A t, u \in Threads : i \in Pending(t) /\ i \in Pending(u) => t = u

\* When all workers are joined the leaves hold the whole database: what
\* finalizeIndex asserts of its counter.
BuiltIsComplete == Built => \A i \in Series : Stored(i)

\* The leaves divide the space of words: the descent of a query or of an
\* insertion, which follows one word, ends in the one leaf that covers it.
LeavesPartitionWords ==
  \A w \in Word :
    /\ \E n \in Allocated : IsLeaf(n) /\ Covers(n, w)
    /\ \A m, n \in Allocated :
         IsLeaf(m) /\ Covers(m, w) /\ IsLeaf(n) /\ Covers(n, w) => m = n

\* What is stored is stored where a query looks for it: in leaves only, and in
\* a leaf whose region contains the word of the series.
FiledWhereRouted ==
  \A n \in Allocated : \A i \in ids[n] : IsLeaf(n) /\ Covers(n, saxs[i])

\* size counts the entries of ids, insertNode never writes past the array it
\* allocated and no leaf outgrows leaf_size, whatever mixture of doubling,
\* capping and splitting came before.
WithinCapacity ==
  /\ \A n \in Allocated :
       size[n] = Cardinality(ids[n]) /\ size[n] <= capacity[n] /\ capacity[n] <= LeafSize
  /\ \A t \in Threads : pc[t] = "insert" =>
       size[node[t]] < CapacityAfterInsert(node[t], InitialLeafSize, LeafSize)

\* Splitting by the next bit gives up only on more than leaf_size series with
\* one and the same word, which no tree could tell apart.
FailsOnlyWhenInevitable ==
  failed /\ ~split_by_summarizations =>
    \E i \in Series : Cardinality({j \in Series : saxs[j] = saxs[i]}) > LeafSize

\* A stored series never leaves the subtree it was stored in, so that a later
\* descent still meets it.
StoredSeriesOnlyMoveDown ==
  [][\A n \in Allocated : \A i \in ids[n] :
       \E m \in Allocated' : i \in ids'[m] /\ Within(m, n)]_vars

\* A split by the next bit leaves a child without series only when no segment
\* could have told the parent's series apart.
EmptyChildOnlyIfInseparable ==
  [][\A n \in Allocated :
       IsLeaf(n) /\ segment'[n] # NoSegment /\ ~split_by_summarizations =>
         LET to_r(s) == Cardinality(RightIds(n, s))
         IN  to_r(segment'[n]) \in {0, size[n]} =>
               \A s \in Splittable(n) : to_r(s) \in {0, size[n]}]_vars

\* Construction ends: locking from the root downwards never blocks for good.
Termination == <>(failed \/ Built)

\* The detailed construction implements the abstract one.
Indexed == UNION {ids[n] : n \in Allocated}
Abstract == INSTANCE IndexAbstract WITH indexed <- Indexed
ImplementsAbstractIndex == Abstract!Spec

----------------------------------------------------------------------------
(* The inductive invariant behind the theorems of IndexBuildProofs *)

HoldsNode   == {"test", "split", "lock_child", "unlock_parent", "insert", "unlock"}
HoldsParent == {"split", "lock_child", "unlock_parent"}

\* A worker owns the mutexes of the nodes it is at.
LocksHeld ==
  \A t \in Threads :
    /\ pc[t] \in HoldsNode => node[t] \in Allocated /\ lock[node[t]] = t
    /\ pc[t] \in HoldsParent => parent[t] \in Allocated /\ lock[parent[t]] = t
    /\ pc[t] \in {"split", "lock_child"} => parent[t] = node[t]
    /\ pc[t] = "unlock_parent" => parent[t] # node[t]

\* Claimed ranges lie below the shared counter; outside them nobody works.
ClaimsBounded ==
  \A t \in Threads :
    /\ stop_id[t] <= DatabaseSize /\ stop_id[t] <= shared_start_id
    /\ pc[t] \in {"claim", "done"} <=> series[t] >= stop_id[t]
    /\ pc[t] = "done" => shared_start_id >= DatabaseSize

\* A worker is at a node that covers its series, and knows whether it is a leaf
\* for as long as it holds the node's mutex.
OnCourse ==
  \A t \in Threads :
    /\ pc[t] \in HoldsNode => Covers(node[t], saxs[series[t]])
    /\ pc[t] \in {"split", "insert"} => IsLeaf(node[t])
    /\ pc[t] = "lock_child" => ~IsLeaf(node[t])

StrictlyWithin(m, n) ==
  Within(m, n) /\ \E s \in Segments : m.masks[s] < n.masks[s]

\* Inner nodes are empty and have both children; every other node is apart from
\* a leaf or above it.
Shape ==
  /\ Roots \subseteq Allocated
  /\ \A n \in Allocated : Clean(n)
  /\ \A n \in Allocated : ~IsLeaf(n) =>
       /\ segment[n] \in Splittable(n)
       /\ LeftChild(n, segment[n]) \in Allocated
       /\ RightChild(n, segment[n]) \in Allocated
       /\ ids[n] = {} /\ size[n] = 0
  /\ \A p, n \in Allocated :
       IsLeaf(p) /\ n # p => Disjoint(p, n) \/ StrictlyWithin(p, n)

\* Every word is covered by a leaf.
WordsCovered == \A w \in Word : \E n \in Allocated : IsLeaf(n) /\ Covers(n, w)

IInv ==
  /\ TypeOK /\ LocksHeld /\ ClaimsBounded /\ OnCourse /\ Shape
  /\ WordsCovered /\ FiledWhereRouted /\ EverySeriesOnce
=============================================================================

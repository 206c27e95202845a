-------------------------- MODULE IndexBuildProofs --------------------------
(***************************************************************************)
(* Theorems about IndexBuild for every database, number of threads, block  *)
(* size, leaf size, number of segments and bits: IInv is inductive, and    *)
(* what follows from it.                                                   *)
(***************************************************************************)
EXTENDS IndexBuild, FiniteSetTheorems, TLAPS

-----------------------------------------------------------------------------
(* Regions, for every number of segments and bits: what splits and routing do *)

\* A root is a node, has no bit set below its mask and covers the words it is
\* computed from (rootSAX2ID, rootID2SAX).
LEMMA RootOfWord ==
  ASSUME NEW w \in Word
  PROVE  /\ RootOf(w) \in Node /\ RootOf(w) \in Roots
         /\ Clean(RootOf(w)) /\ Covers(RootOf(w), w)
<1> DEFINE r == RootOf(w)
<1>1. TopBit \in Bits /\ \A b \in Bits : b < TopBit \/ b = TopBit
  BY RegionsAssumption DEF TopBit, Bits
<1>2. /\ \A s \in Segments : r.masks[s] = TopBit
      /\ \A s \in Segments : \A b \in Bits : r.sax[s][b] = IF b = TopBit THEN w[s][b] ELSE 0
  BY DEF RootOf
<1>3. r.masks \in [Segments -> Bits] /\ r.sax \in Word
  BY <1>1 DEF RootOf, Word
<1>4. r \in Node
  BY <1>3 DEF RootOf, Node
<1>5. Clean(r)
  BY <1>1, <1>2, RegionsAssumption DEF Clean, TopBit, Bits
<1>6. Covers(r, w)
  BY <1>1, <1>2, RegionsAssumption DEF Covers, TopBit, Bits
<1> QED BY <1>4, <1>5, <1>6 DEF Roots

\* Different roots cover different words.
LEMMA RootsDisjoint ==
  ASSUME NEW m \in Roots, NEW n \in Roots, m # n
  PROVE  Disjoint(m, n)
<1>1. PICK v \in Word : m = RootOf(v)
  BY DEF Roots
<1>2. PICK w \in Word : n = RootOf(w)
  BY DEF Roots
<1>3. \E s \in Segments : v[s][TopBit] # w[s][TopBit]
  <2>1. SUFFICES ASSUME \A s \in Segments : v[s][TopBit] = w[s][TopBit]
                 PROVE  FALSE
    OBVIOUS
  <2>2. \A s \in Segments :
          [b \in Bits |-> IF b = TopBit THEN v[s][b] ELSE 0]
            = [b \in Bits |-> IF b = TopBit THEN w[s][b] ELSE 0]
    BY <2>1
  <2>3. RootOf(v) = RootOf(w)
    BY <2>2 DEF RootOf
  <2> QED BY <1>1, <1>2, <2>3
<1>4. TopBit \in Bits
  BY RegionsAssumption DEF TopBit, Bits
<1> QED
  BY <1>1, <1>2, <1>3, <1>4, RegionsAssumption DEF Disjoint, RootOf, Bits, TopBit

\* Both halves of a node are nodes without stray bits, lie strictly within it
\* and are disjoint (splitNode).
LEMMA ChildrenOfNode ==
  ASSUME NEW p \in Node, NEW s \in Splittable(p), Clean(p)
  PROVE  /\ LeftChild(p, s) \in Node /\ RightChild(p, s) \in Node
         /\ Clean(LeftChild(p, s)) /\ Clean(RightChild(p, s))
         /\ Disjoint(LeftChild(p, s), RightChild(p, s))
         /\ LeftChild(p, s).masks[s] < p.masks[s]
         /\ RightChild(p, s).masks[s] < p.masks[s]
         /\ Within(LeftChild(p, s), p) /\ Within(RightChild(p, s), p)
<1> DEFINE l == LeftChild(p, s)
           r == RightChild(p, s)
           c == p.masks[s] - 1
<1>1. /\ s \in Segments /\ c \in Bits /\ p.masks \in [Segments -> Bits]
      /\ p.sax \in [Segments -> [Bits -> {0, 1}]]
  BY RegionsAssumption DEF Splittable, Node, Bits, Word
<1>2. /\ l.masks \in [Segments -> Bits] /\ r.masks = l.masks
      /\ \A q \in Segments : l.masks[q] = IF q = s THEN c ELSE p.masks[q]
  BY <1>1 DEF LeftChild, RightChild, ChildMasks
<1>3. /\ l.sax = p.sax /\ r.sax \in Word
      /\ \A q \in Segments : \A b \in Bits :
           r.sax[q][b] = IF q = s /\ b = c THEN 1 ELSE p.sax[q][b]
  BY <1>1 DEF LeftChild, RightChild, Word
<1>4. l \in Node /\ r \in Node
  BY <1>1, <1>2, <1>3 DEF LeftChild, RightChild, Node, Word
<1>5. Clean(l) /\ Clean(r)
  <2>1. ASSUME NEW q \in Segments, NEW b \in Bits, b < l.masks[q]
        PROVE  b < p.masks[q] /\ ~(q = s /\ b = c)
    BY <1>1, <1>2, <2>1 DEF Bits
  <2>2. ASSUME NEW q \in Segments, NEW b \in Bits, b < l.masks[q]
        PROVE  p.sax[q][b] = 0
    BY <2>1, <2>2 DEF Clean
  <2> QED BY <1>2, <1>3, <2>1, <2>2 DEF Clean
<1>6. Disjoint(l, r)
  BY <1>1, <1>2, <1>3 DEF Disjoint, Clean, Bits
<1>7. Within(l, p) /\ Within(r, p)
  <2>1. \A q \in Segments : p.masks[q] \in Int /\ l.masks[q] <= p.masks[q]
    BY <1>1, <1>2 DEF Bits
  <2>2. ASSUME NEW q \in Segments, NEW b \in Bits, b >= p.masks[q]
        PROVE  ~(q = s /\ b = c)
    BY <1>1, <2>2 DEF Bits
  <2> QED BY <1>2, <1>3, <2>1, <2>2 DEF Within
<1>8. l.masks[s] < p.masks[s] /\ r.masks[s] < p.masks[s]
  BY <1>1, <1>2 DEF Bits
<1> QED BY <1>4, <1>5, <1>6, <1>7, <1>8

\* route sends a word that a node covers to a half that covers it.
LEMMA RouteCovers ==
  ASSUME NEW p \in Node, NEW s \in Splittable(p), Clean(p),
         NEW w \in Word, Covers(p, w)
  PROVE  /\ Covers(Route(p, s, w), w)
         /\ Route(p, s, w) = IF w[s][p.masks[s] - 1] = 1
                             THEN RightChild(p, s) ELSE LeftChild(p, s)
<1> DEFINE l == LeftChild(p, s)
           r == RightChild(p, s)
           c == p.masks[s] - 1
<1>1. /\ s \in Segments /\ c \in Bits /\ p.masks \in [Segments -> Bits]
      /\ p.sax \in [Segments -> [Bits -> {0, 1}]]
  BY RegionsAssumption DEF Splittable, Node, Bits, Word
<1>2. /\ r.masks = l.masks
      /\ \A q \in Segments : l.masks[q] = IF q = s THEN c ELSE p.masks[q]
  BY <1>1 DEF LeftChild, RightChild, ChildMasks
<1>3. /\ l.sax = p.sax
      /\ \A q \in Segments : \A b \in Bits :
           r.sax[q][b] = IF q = s /\ b = c THEN 1 ELSE p.sax[q][b]
  BY <1>1 DEF LeftChild, RightChild
<1>4. w[s][c] \in {0, 1}
  BY <1>1 DEF Word
<1>5. CASE w[s][c] = 1
  BY <1>1, <1>2, <1>3, <1>5 DEF Covers, Route, Bits
<1>6. CASE w[s][c] = 0
  <2>1. p.sax[s][c] = 0
    BY <1>1 DEF Clean, Bits
  <2> QED
    BY <1>1, <1>2, <1>3, <1>6, <2>1 DEF Covers, Route, Bits
<1> QED BY <1>4, <1>5, <1>6

\* Disjoint regions have no word in common.
LEMMA DisjointCover ==
  ASSUME NEW m \in Node, NEW n \in Node, Disjoint(m, n),
         NEW w \in Word, Covers(m, w), Covers(n, w)
  PROVE  FALSE
BY DEF Disjoint, Covers

\* Disjointness is symmetric and inherited by everything within a region.
LEMMA DisjointSymmetric ==
  ASSUME NEW m \in Node, NEW n \in Node, Disjoint(m, n)
  PROVE  Disjoint(n, m)
BY DEF Disjoint

LEMMA DisjointWithin ==
  ASSUME NEW p \in Node, NEW m \in Node, NEW n \in Node, Within(m, p), Disjoint(p, n)
  PROVE  Disjoint(m, n) /\ Disjoint(n, m)
<1>1. PICK s \in Segments, b \in Bits :
        b >= p.masks[s] /\ b >= n.masks[s] /\ p.sax[s][b] # n.sax[s][b]
  BY DEF Disjoint
<1>2. m.sax[s][b] # n.sax[s][b] /\ b >= m.masks[s]
  BY <1>1 DEF Within, Node, Bits
<1> QED BY <1>1, <1>2 DEF Disjoint

\* Regions that contain each other exclude being disjoint or strictly smaller.
LEMMA WithinFacts ==
  ASSUME NEW m \in Node, NEW n \in Node, Within(m, n)
  PROVE  /\ ~Disjoint(m, n) /\ ~Disjoint(n, m)
         /\ \A p \in Node : Within(n, p) => Within(m, p)
         /\ \A w \in Word : Covers(m, w) => Covers(n, w)
<1>1. \A s \in Segments : m.masks[s] \in Int /\ n.masks[s] \in Int
  BY DEF Node, Bits
<1>2. ~Disjoint(m, n) /\ ~Disjoint(n, m)
  BY DEF Within, Disjoint
<1>3. ASSUME NEW p \in Node, Within(n, p)
      PROVE  Within(m, p)
  <2>1. \A s \in Segments : p.masks[s] \in Int
    BY DEF Node, Bits
  <2> QED BY <1>1, <1>3, <2>1 DEF Within, Bits
<1>4. ASSUME NEW w \in Word, Covers(m, w)
      PROVE  Covers(n, w)
  BY <1>1, <1>4 DEF Within, Covers, Bits
<1> QED BY <1>2, <1>3, <1>4

-----------------------------------------------------------------------------
(* The workers and the tree *)

\* A worker that is neither about to claim nor done has a series of the database.
LEMMA AtWork ==
  ASSUME TypeOK, ClaimsBounded, NEW t \in Threads, pc[t] \notin {"claim", "done"}
  PROVE  /\ series[t] \in Series /\ series[t] < stop_id[t]
         /\ saxs[series[t]] \in Word
BY ConfigAssumption DEF TypeOK, ClaimsBounded, Series

\* A free thread number is no worker's.
LEMMA ThreadsFact == NoThread \notin Threads /\ Threads \subseteq Int
BY DEF Threads, NoThread

\* What a node looks like depends only on the arrays of the tree.
LEMMA ShapeKept ==
  ASSUME Shape, WordsCovered, FiledWhereRouted, Allocated' = Allocated,
         UNCHANGED <<saxs, ids, size, segment>>
  PROVE  Shape' /\ WordsCovered' /\ FiledWhereRouted'
BY DEF Shape, WordsCovered, FiledWhereRouted, IsLeaf

\* The initial states satisfy the invariant.
LEMMA InitIInv == ASSUME Init PROVE IInv
<1> USE ConfigAssumption DEF Init
<1>1. Roots \subseteq Node /\ \A n \in Roots : Clean(n)
  BY RootOfWord DEF Roots
<1>2. Allocated = Roots /\ \A n \in Allocated : IsLeaf(n) /\ ids[n] = {}
  BY DEF Allocated, IsLeaf
<1>3. TypeOK
  BY <1>1, <1>2, DatabasesAssumption DEF TypeOK, Labels
<1>4. LocksHeld /\ OnCourse
  BY DEF LocksHeld, OnCourse, HoldsNode, HoldsParent
<1>5. ClaimsBounded
  BY DEF ClaimsBounded
<1>6. Shape
  BY <1>1, <1>2, RootsDisjoint DEF Shape
<1>7. WordsCovered
  BY <1>2, RootOfWord DEF WordsCovered
<1>8. FiledWhereRouted
  BY <1>2 DEF FiledWhereRouted
<1>9. EverySeriesOnce
  BY <1>2 DEF EverySeriesOnce, Stored, Carried, Pending, Series
<1> QED
  BY <1>3, <1>4, <1>5, <1>6, <1>7, <1>8, <1>9 DEF IInv

----------------------------------------------------------------------------
(* One lemma per step of a worker *)

LEMMA ClaimIInv ==
  ASSUME IInv, NEW t \in Threads, Claim(t)
  PROVE  IInv'
<1> USE ConfigAssumption DEF IInv, input, Claim, BlockEnd, Goto, tree
<1>1. Allocated' = Allocated
  BY DEF Allocated
<1>2. TypeOK'
  BY <1>1 DEF TypeOK, Labels
<1>3. LocksHeld'
  BY <1>1 DEF LocksHeld, TypeOK, HoldsNode, HoldsParent
<1>4. ClaimsBounded'
  BY DEF ClaimsBounded, TypeOK
<1>5. OnCourse'
  BY DEF OnCourse, TypeOK, HoldsNode, IsLeaf
<1>6. Shape' /\ WordsCovered' /\ FiledWhereRouted'
  BY <1>1, ShapeKept
<1>7. EverySeriesOnce'
  <2>1. \A i \in Series : Stored(i)' <=> Stored(i)
    BY <1>1 DEF Stored
  <2>2. \A u \in Threads : u # t => Pending(u)' = Pending(u)
    BY DEF Pending, TypeOK
  <2>3. Pending(t) = {}
    BY DEF Pending, ClaimsBounded, TypeOK, Series
  <2>4. Pending(t)' = {i \in Series : shared_start_id <= i /\ i < shared_start_id'}
    BY <2>3 DEF Pending, TypeOK, ClaimsBounded, Series
  <2>5. \A i \in Series : i < shared_start_id' <=> (i < shared_start_id \/ i \in Pending(t)')
    BY <2>4 DEF TypeOK, Series
  <2>6. \A i \in Series : Carried(i)' <=> (Carried(i) \/ i \in Pending(t)')
    BY <2>2, <2>3 DEF Carried
  <2>7. \A i \in Series : i \in Pending(t)' => ~Stored(i) /\ ~Carried(i)
    BY <2>4 DEF EverySeriesOnce
  <2>8. ASSUME NEW i \in Series
        PROVE  /\ i >= shared_start_id' => ~Stored(i)' /\ ~Carried(i)'
               /\ i < shared_start_id'  => (Stored(i)' <=> ~Carried(i)')
    <3>1. i \in Int /\ shared_start_id \in Int /\ shared_start_id' \in Int
          /\ shared_start_id < shared_start_id'
      BY DEF Series, TypeOK
    <3>2. CASE i < shared_start_id
      <4>1. i \notin Pending(t)'
        BY <2>4, <3>1, <3>2
      <4> QED BY <2>1, <2>6, <3>1, <3>2, <4>1 DEF EverySeriesOnce
    <3>3. CASE i >= shared_start_id
      BY <2>1, <2>5, <2>6, <3>1, <3>3 DEF EverySeriesOnce
    <3> QED BY <3>1, <3>2, <3>3
  <2>9. ASSUME NEW i \in Series, NEW u \in Threads, NEW v \in Threads,
               i \in Pending(u)', i \in Pending(v)'
        PROVE  u = v
    BY <2>2, <2>7, <2>9 DEF EverySeriesOnce, Carried
  <2> QED
    BY <1>1, <2>8, <2>9 DEF EverySeriesOnce
<1> QED
  BY <1>2, <1>3, <1>4, <1>5, <1>6, <1>7

\* A step that neither claims nor inserts leaves every series where it is.
LEMMA SeriesKept ==
  ASSUME TypeOK, ClaimsBounded, EverySeriesOnce, Allocated' = Allocated,
         NEW t \in Threads, pc[t] \notin {"claim", "done", "unlock"},
         NEW label \in Labels \ {"claim", "done", "unlock"}, Goto(t, label),
         UNCHANGED <<shared_start_id, series, stop_id, ids>>
  PROVE  EverySeriesOnce' /\ ClaimsBounded'
<1>1. ClaimsBounded'
  BY DEF ClaimsBounded, TypeOK, Goto
<1>2. \A u \in Threads : Pending(u)' = Pending(u)
  BY DEF Pending, Goto, TypeOK
<1>3. \A i \in Series : (Stored(i)' <=> Stored(i)) /\ (Carried(i)' <=> Carried(i))
  BY <1>2 DEF Stored, Carried
<1> QED
  BY <1>1, <1>2, <1>3 DEF EverySeriesOnce

LEMMA LockRootIInv ==
  ASSUME IInv, NEW t \in Threads, LockRoot(t)
  PROVE  IInv'
<1> USE ConfigAssumption DEF IInv, input, LockRoot, LockNode, Goto
<1> DEFINE root == RootOf(saxs[series[t]])
<1>1. saxs[series[t]] \in Word
  BY AtWork
<1>2. root \in Allocated /\ root \in Node /\ Covers(root, saxs[series[t]])
  BY <1>1, RootOfWord DEF Shape
<1>3. Allocated' = Allocated
  BY DEF Allocated
<1>4. lock' = [lock EXCEPT ![root] = t] /\ lock[root] = NoThread
  OBVIOUS
<1>5. TypeOK'
  BY <1>2, <1>3, <1>4 DEF TypeOK, Labels, Allocated
<1>6. LocksHeld'
  BY <1>2, <1>3, <1>4, ThreadsFact DEF LocksHeld, TypeOK, HoldsNode, HoldsParent
<1>7. OnCourse'
  BY <1>2 DEF OnCourse, TypeOK, HoldsNode, IsLeaf
<1>8. Shape' /\ WordsCovered' /\ FiledWhereRouted'
  BY <1>3, ShapeKept
<1>9. EverySeriesOnce' /\ ClaimsBounded'
  BY <1>3, SeriesKept DEF Labels
<1> QED
  BY <1>5, <1>6, <1>7, <1>8, <1>9

LEMMA TestIInv ==
  ASSUME IInv, NEW t \in Threads, Test(t)
  PROVE  IInv'
<1> USE ConfigAssumption DEF IInv, input, Test, Goto, tree
<1>1. Allocated' = Allocated
  BY DEF Allocated
<1>2. node[t] \in Allocated /\ lock[node[t]] = t /\ node[t] \in Node
  BY DEF LocksHeld, HoldsNode, TypeOK
<1>3. PICK label \in {"split", "lock_child", "insert"} : Goto(t, label)
  OBVIOUS
<1>4. TypeOK'
  BY <1>1, <1>2 DEF TypeOK, Labels
<1>5. LocksHeld'
  BY <1>1, <1>2 DEF LocksHeld, TypeOK, HoldsNode, HoldsParent
<1>6. OnCourse'
  <2>1. ~IsLeaf(node[t]) => size[node[t]] = 0
    BY <1>2 DEF Shape
  <2> QED
    BY <1>2, <2>1 DEF OnCourse, TypeOK, HoldsNode, IsLeaf
<1>7. Shape' /\ WordsCovered' /\ FiledWhereRouted'
  BY <1>1, ShapeKept
<1>8. EverySeriesOnce' /\ ClaimsBounded'
  BY <1>1, <1>3, SeriesKept DEF Labels
<1> QED
  BY <1>4, <1>5, <1>6, <1>7, <1>8

LEMMA LockChildIInv ==
  ASSUME IInv, NEW t \in Threads, LockChild(t)
  PROVE  IInv'
<1> USE ConfigAssumption DEF IInv, input, LockChild, LockNode, Goto
<1> DEFINE p     == node[t]
           w     == saxs[series[t]]
           child == Route(p, segment[p], w)
<1>1. w \in Word
  BY AtWork
<1>2. /\ p \in Allocated /\ p \in Node /\ p = parent[t] /\ lock[p] = t
      /\ Covers(p, w) /\ ~IsLeaf(p) /\ Clean(p)
  BY DEF LocksHeld, OnCourse, HoldsNode, HoldsParent, TypeOK, Shape
<1>3. /\ segment[p] \in Splittable(p)
      /\ LeftChild(p, segment[p]) \in Allocated /\ RightChild(p, segment[p]) \in Allocated
  BY <1>2 DEF Shape
<1>4. child \in Allocated /\ child \in Node /\ Covers(child, w)
  BY <1>1, <1>2, <1>3, RouteCovers DEF TypeOK
<1>5. Allocated' = Allocated
  BY DEF Allocated
<1>6. lock' = [lock EXCEPT ![child] = t] /\ lock[child] = NoThread /\ node' = [node EXCEPT ![t] = child]
  BY <1>2
<1>7. TypeOK'
  BY <1>4, <1>5, <1>6 DEF TypeOK, Labels, Allocated
<1>8. LocksHeld'
  BY <1>2, <1>4, <1>5, <1>6, ThreadsFact DEF LocksHeld, TypeOK, HoldsNode, HoldsParent
<1>9. OnCourse'
  BY <1>4, <1>6 DEF OnCourse, TypeOK, HoldsNode, IsLeaf
<1>10. Shape' /\ WordsCovered' /\ FiledWhereRouted'
  BY <1>5, ShapeKept
<1>11. EverySeriesOnce' /\ ClaimsBounded'
  BY <1>5, SeriesKept DEF Labels
<1> QED
  BY <1>7, <1>8, <1>9, <1>10, <1>11

LEMMA UnlockParentIInv ==
  ASSUME IInv, NEW t \in Threads, UnlockParent(t)
  PROVE  IInv'
<1> USE ConfigAssumption DEF IInv, input, UnlockParent, Goto
<1>1. Allocated' = Allocated
  BY DEF Allocated
<1>2. /\ parent[t] \in Allocated /\ lock[parent[t]] = t /\ parent[t] # node[t]
      /\ lock' = [lock EXCEPT ![parent[t]] = NoThread]
  BY DEF LocksHeld, HoldsParent
<1>3. TypeOK'
  BY <1>1, <1>2 DEF TypeOK, Labels, Allocated
<1>4. LocksHeld'
  BY <1>1, <1>2, ThreadsFact DEF LocksHeld, TypeOK, HoldsNode, HoldsParent
<1>5. OnCourse'
  BY DEF OnCourse, TypeOK, HoldsNode, IsLeaf
<1>6. Shape' /\ WordsCovered' /\ FiledWhereRouted'
  BY <1>1, ShapeKept
<1>7. EverySeriesOnce' /\ ClaimsBounded'
  BY <1>1, SeriesKept DEF Labels
<1> QED
  BY <1>3, <1>4, <1>5, <1>6, <1>7

LEMMA FailToSplitIInv ==
  ASSUME IInv, NEW t \in Threads, FailToSplit(t)
  PROVE  IInv'
<1> USE DEF FailToSplit, input, workers, tree
<1>1. Allocated' = Allocated
  BY DEF Allocated
<1>2. TypeOK' /\ LocksHeld' /\ ClaimsBounded' /\ OnCourse'
  BY <1>1 DEF IInv, TypeOK, LocksHeld, ClaimsBounded, OnCourse, IsLeaf
<1>3. Shape' /\ WordsCovered' /\ FiledWhereRouted'
  BY <1>1, ShapeKept DEF IInv
<1>4. EverySeriesOnce'
  BY <1>1 DEF IInv, EverySeriesOnce, Stored, Carried, Pending
<1> QED
  BY <1>2, <1>3, <1>4 DEF IInv

LEMMA InsertNodeIInv ==
  ASSUME IInv, NEW t \in Threads, InsertNode(t)
  PROVE  IInv'
<1> USE ConfigAssumption DEF IInv, input, InsertNode, Goto
<1> DEFINE n == node[t]
           i == series[t]
<1>1. Allocated' = Allocated
  BY DEF Allocated
<1>2. /\ n \in Allocated /\ lock[n] = t /\ IsLeaf(n) /\ Covers(n, saxs[i])
      /\ i \in Series /\ i \in Pending(t)
  <2>1. i \in Series /\ i < stop_id[t]
    BY AtWork
  <2>2. i \in Pending(t)
    BY <2>1 DEF Pending, TypeOK
  <2> QED
    BY <2>1, <2>2 DEF LocksHeld, OnCourse, HoldsNode
<1>3. ids' = [ids EXCEPT ![n] = @ \cup {i}] /\ size' = [size EXCEPT ![n] = @ + 1]
  OBVIOUS
<1>4. CapacityAfterInsert(n, InitialLeafSize, LeafSize) \in Nat
  BY <1>2 DEF CapacityAfterInsert, TypeOK
<1>5. TypeOK'
  BY <1>1, <1>2, <1>3, <1>4 DEF TypeOK, Labels, Allocated
<1>6. LocksHeld' /\ ClaimsBounded' /\ OnCourse'
  <2>1. LocksHeld'
    BY <1>1 DEF LocksHeld, TypeOK, HoldsNode, HoldsParent
  <2>2. ClaimsBounded'
    BY DEF ClaimsBounded, TypeOK
  <2>3. OnCourse'
    BY DEF OnCourse, TypeOK, HoldsNode, IsLeaf
  <2> QED BY <2>1, <2>2, <2>3
<1>7. Shape' /\ WordsCovered' /\ FiledWhereRouted'
  BY <1>1, <1>2, <1>3 DEF Shape, WordsCovered, FiledWhereRouted, IsLeaf, TypeOK
<1>8. EverySeriesOnce'
  <2>1. ~Stored(i)
    BY <1>2 DEF EverySeriesOnce, Carried, TypeOK, Series
  <2>2. Pending(t)' = Pending(t) \ {i}
    BY <1>2 DEF Pending, TypeOK
  <2>3. \A u \in Threads : u # t => Pending(u)' = Pending(u) /\ i \notin Pending(u)
    BY <1>2 DEF Pending, TypeOK, EverySeriesOnce
  <2>4. \A j \in Series : Stored(j)' <=> (Stored(j) \/ j = i)
    BY <1>1, <1>2, <1>3 DEF Stored, TypeOK
  <2>5. \A j \in Series : Carried(j)' <=> (Carried(j) /\ j # i)
    BY <2>2, <2>3 DEF Carried
  <2>6. i < shared_start_id
    BY <1>2 DEF EverySeriesOnce, Carried, TypeOK, Series
  <2>7. \A j \in Series, m \in Allocated : j \in ids'[m] <=> j \in ids[m] \/ (m = n /\ j = i)
    BY <1>2, <1>3 DEF TypeOK
  <2>8. \A j \in Series : /\ j >= shared_start_id => ~Stored(j)' /\ ~Carried(j)'
                          /\ j < shared_start_id => (Stored(j)' <=> ~Carried(j)')
    <3>1. i < shared_start_id /\ ~(i >= shared_start_id)
      BY <1>2, <2>6 DEF Series, TypeOK
    <3>2. \A j \in Series : /\ j >= shared_start_id => ~Stored(j) /\ ~Carried(j)
                            /\ j < shared_start_id => (Stored(j) <=> ~Carried(j))
      BY DEF EverySeriesOnce
    <3> QED
      BY <1>2, <2>4, <2>5, <3>1, <3>2
  <2>9. ASSUME NEW j \in Series, NEW a \in Allocated, NEW b \in Allocated,
               j \in ids'[a], j \in ids'[b]
        PROVE  a = b
    BY <2>1, <2>7, <2>9 DEF EverySeriesOnce, Stored
  <2>10. ASSUME NEW j \in Series, NEW u \in Threads, NEW v \in Threads,
               j \in Pending(u)', j \in Pending(v)'
        PROVE  u = v
    BY <2>2, <2>3, <2>10 DEF EverySeriesOnce
  <2> QED
    BY <1>1, <2>8, <2>9, <2>10 DEF EverySeriesOnce
<1> QED
  BY <1>5, <1>6, <1>7, <1>8

LEMMA UnlockIInv ==
  ASSUME IInv, NEW t \in Threads, Unlock(t)
  PROVE  IInv'
<1> USE ConfigAssumption DEF IInv, input, Unlock, Goto
<1>1. Allocated' = Allocated
  BY DEF Allocated
<1>2. node[t] \in Allocated /\ lock[node[t]] = t
  BY DEF LocksHeld, HoldsNode
<1>3. /\ series[t] \in Series /\ series[t] < stop_id[t]
      /\ pc[t] = "unlock" /\ pc'[t] \in {"lock_root", "claim"}
  BY AtWork DEF TypeOK
<1>4. TypeOK'
  BY <1>1, <1>2 DEF TypeOK, Labels, Allocated
<1>5. LocksHeld'
  BY <1>1, <1>2, ThreadsFact DEF LocksHeld, TypeOK, HoldsNode, HoldsParent
<1>6. ClaimsBounded'
  BY <1>3 DEF ClaimsBounded, TypeOK, Series
<1>7. OnCourse'
  BY <1>1 DEF OnCourse, TypeOK, HoldsNode, IsLeaf
<1>8. Shape' /\ WordsCovered' /\ FiledWhereRouted'
  BY <1>1, ShapeKept
<1>9. EverySeriesOnce'
  <2>1. \A u \in Threads : Pending(u)' = Pending(u)
    <3>1. \A u \in Threads : u # t => Pending(u)' = Pending(u)
      BY DEF Pending, TypeOK
    <3>2. Pending(t)' = Pending(t)
      BY <1>3 DEF Pending, TypeOK, Series
    <3> QED BY <3>1, <3>2
  <2>2. \A i \in Series : (Stored(i)' <=> Stored(i)) /\ (Carried(i)' <=> Carried(i))
    BY <1>1, <2>1 DEF Stored, Carried
  <2> QED
    BY <1>1, <2>1, <2>2 DEF EverySeriesOnce
<1> QED
  BY <1>4, <1>5, <1>6, <1>7, <1>8, <1>9


\* What a split does to the tree: two new, empty-handed leaves that share the
\* series of the old one.
LEMMA SplitEffect ==
  ASSUME IInv, NEW t \in Threads, pc[t] = "split",
         NEW s \in SplitSegments(parent[t]) \ {NoSegment}, Divide(parent[t], s)
  PROVE  LET p == node[t]  l == LeftChild(p, s)  r == RightChild(p, s)
         IN  /\ p = parent[t] /\ p \in Allocated /\ IsLeaf(p) /\ lock[p] = t
             /\ s \in Splittable(p) /\ p \in Node /\ Clean(p)
             /\ l \in Node /\ r \in Node /\ l # r /\ l \notin Allocated /\ r \notin Allocated
             /\ Allocated' = Allocated \cup {l, r}
             /\ ids' = WithNew([ids EXCEPT ![p] = {}], l, ids[p] \ RightIds(p, s), r, RightIds(p, s))
             /\ size' = WithNew([size EXCEPT ![p] = 0], l, Cardinality(ids[p] \ RightIds(p, s)),
                                                       r, Cardinality(RightIds(p, s)))
             /\ segment' = WithNew([segment EXCEPT ![p] = s], l, NoSegment, r, NoSegment)
             /\ lock' = WithNew(lock, l, NoThread, r, NoThread)
<1> USE DEF IInv
<1> DEFINE p == node[t]
           l == LeftChild(p, s)
           r == RightChild(p, s)
<1>1. p = parent[t] /\ p \in Allocated /\ IsLeaf(p) /\ lock[p] = t
  BY DEF LocksHeld, OnCourse, HoldsNode
<1>2. p \in Node /\ Clean(p)
  BY <1>1 DEF TypeOK, Shape
<1>3. s \in Splittable(p)
  BY <1>1 DEF SplitSegments, NextBitSegments
<1>4. /\ l \in Node /\ r \in Node /\ Disjoint(l, r)
      /\ l.masks[s] < p.masks[s] /\ r.masks[s] < p.masks[s]
      /\ Within(l, p) /\ Within(r, p)
  BY <1>2, <1>3, ChildrenOfNode
<1>5. l # r
  BY <1>4 DEF Disjoint
<1>6. ASSUME NEW n \in Node, Within(n, p), n.masks[s] < p.masks[s]
      PROVE  n \notin Allocated
  <2>1. SUFFICES ASSUME n \in Allocated PROVE FALSE
    OBVIOUS
  <2>2. n # p
    BY <1>2, <1>3, <1>6 DEF Node, Splittable, Bits
  <2>3. Disjoint(p, n) \/ StrictlyWithin(p, n)
    BY <1>1, <2>1, <2>2 DEF Shape
  <2>4. ~Disjoint(p, n)
    BY <1>2, <1>6, WithinFacts
  <2>5. p.masks[s] <= n.masks[s]
    BY <1>3, <2>3, <2>4 DEF StrictlyWithin, Within, Splittable
  <2> QED
    BY <1>2, <1>3, <1>6, <2>5 DEF Node, Splittable, Bits
<1>7. l \notin Allocated /\ r \notin Allocated
  BY <1>4, <1>6
<1>8. /\ ids' = WithNew([ids EXCEPT ![p] = {}], l, ids[p] \ RightIds(p, s), r, RightIds(p, s))
      /\ size' = WithNew([size EXCEPT ![p] = 0], l, Cardinality(ids[p] \ RightIds(p, s)),
                                                r, Cardinality(RightIds(p, s)))
      /\ segment' = WithNew([segment EXCEPT ![p] = s], l, NoSegment, r, NoSegment)
      /\ lock' = WithNew(lock, l, NoThread, r, NoThread)
  BY <1>1 DEF Divide, LeftIds
<1>9. Allocated' = Allocated \cup {l, r}
  BY <1>8 DEF Allocated, WithNew
<1> QED
  BY <1>1, <1>2, <1>3, <1>4, <1>5, <1>7, <1>8, <1>9


LEMMA SplitNodeIInv ==
  ASSUME IInv, NEW t \in Threads, SplitNode(t)
  PROVE  IInv'
<1> USE DEF IInv, input
<1>1. PICK s \in SplitSegments(parent[t]) \ {NoSegment} : Divide(parent[t], s)
  BY DEF SplitNode
<1> DEFINE p    == node[t]
           l    == LeftChild(p, s)
           r    == RightChild(p, s)
           to_r == RightIds(p, s)
           to_l == ids[p] \ to_r
<1>2. /\ pc[t] = "split" /\ pc' = [pc EXCEPT ![t] = "lock_child"]
      /\ UNCHANGED <<input, shared_start_id, failed, series, stop_id, node, parent>>
  BY DEF SplitNode, Goto
<1>3. /\ p = parent[t] /\ p \in Allocated /\ IsLeaf(p) /\ lock[p] = t
      /\ s \in Splittable(p) /\ p \in Node /\ Clean(p)
      /\ l \in Node /\ r \in Node /\ l # r /\ l \notin Allocated /\ r \notin Allocated
      /\ Allocated' = Allocated \cup {l, r}
      /\ ids' = WithNew([ids EXCEPT ![p] = {}], l, to_l, r, to_r)
      /\ size' = WithNew([size EXCEPT ![p] = 0], l, Cardinality(to_l), r, Cardinality(to_r))
      /\ segment' = WithNew([segment EXCEPT ![p] = s], l, NoSegment, r, NoSegment)
      /\ lock' = WithNew(lock, l, NoThread, r, NoThread)
  BY <1>1, <1>2, SplitEffect
<1>4. /\ \A n \in Allocated : n # l /\ n # r
      /\ s \in Segments /\ s # NoSegment
  BY <1>3 DEF Splittable, NoSegment, Segments
<1>5. /\ \A n \in Allocated : ids'[n] = IF n = p THEN {} ELSE ids[n]
      /\ ids'[l] = to_l /\ ids'[r] = to_r
  BY <1>3, <1>4 DEF WithNew, TypeOK
<1>6. \A n \in Allocated : size'[n] = IF n = p THEN 0 ELSE size[n]
  BY <1>3, <1>4 DEF WithNew, TypeOK
<1>7. /\ \A n \in Allocated : segment'[n] = IF n = p THEN s ELSE segment[n]
      /\ segment'[l] = NoSegment /\ segment'[r] = NoSegment
  BY <1>3, <1>4 DEF WithNew, TypeOK
<1>8. \A n \in Allocated : lock'[n] = lock[n]
  BY <1>3, <1>4 DEF WithNew, TypeOK
<1>9. /\ Disjoint(l, r) /\ Within(l, p) /\ Within(r, p) /\ Clean(l) /\ Clean(r)
      /\ l.masks[s] < p.masks[s] /\ r.masks[s] < p.masks[s]
  BY <1>3, ChildrenOfNode
<1>10. TypeOK'
  <2>1. to_l \in SUBSET Series /\ to_r \in SUBSET Series
    BY <1>3 DEF RightIds, TypeOK
  <2>2. Cardinality(to_l) \in Nat /\ Cardinality(to_r) \in Nat
    <3>1. IsFiniteSet(Series)
      BY ConfigAssumption, FS_Interval DEF Series
    <3> QED BY <2>1, <3>1, FS_Subset, FS_CardinalityType
  <2>3. ids' \in [Allocated' -> SUBSET Series] /\ size' \in [Allocated' -> Nat]
    BY <1>3, <2>1, <2>2 DEF TypeOK, WithNew
  <2>4. segment' \in [Allocated' -> Segments \cup {NoSegment}]
    BY <1>3, <1>4 DEF TypeOK, WithNew
  <2>5. lock' \in [Allocated' -> Threads \cup {NoThread}]
    BY <1>3 DEF TypeOK, WithNew
  <2>6. capacity' \in [Allocated' -> Nat]
    <3>1. PICK x \in Nat, y \in Nat :
            capacity' = WithNew([capacity EXCEPT ![p] = 0], l, x, r, y)
      <4>1. capacity[p] \in Nat
        BY <1>3 DEF TypeOK
      <4> QED BY <1>1, <1>3, <4>1 DEF Divide, LeftIds
    <3> QED BY <1>3, <3>1 DEF TypeOK, WithNew
  <2>7. pc' \in [Threads -> Labels]
    BY <1>2 DEF TypeOK, Labels
  <2>8. Allocated' \in SUBSET Node
    BY <1>3 DEF TypeOK
  <2> QED
    BY <1>2, <2>3, <2>4, <2>5, <2>6, <2>7, <2>8 DEF TypeOK
<1>11. LocksHeld'
  BY <1>2, <1>3, <1>8 DEF LocksHeld, TypeOK, HoldsNode, HoldsParent
<1>12. ClaimsBounded'
  BY <1>2 DEF ClaimsBounded, TypeOK
<1>13. OnCourse'
  <2>1. ASSUME NEW u \in Threads, u # t, pc[u] \in HoldsNode
        PROVE  node[u] \in Allocated /\ node[u] # p /\ (IsLeaf(node[u])' <=> IsLeaf(node[u]))
    <3>1. node[u] \in Allocated /\ node[u] # p
      BY <1>3, <2>1 DEF LocksHeld
    <3> QED
      BY <1>2, <1>7, <3>1 DEF IsLeaf
  <2>2. ~IsLeaf(node[t])'
    BY <1>2, <1>3, <1>4, <1>7 DEF IsLeaf
  <2> QED
    BY <1>2, <2>1, <2>2 DEF OnCourse, TypeOK, HoldsNode
<1>14. Shape'
  <2>1. Roots \subseteq Allocated'
    BY <1>3 DEF Shape
  <2>2. \A n \in Allocated' : Clean(n)
    BY <1>3, <1>9 DEF Shape
  <2>3. ASSUME NEW n \in Allocated', ~IsLeaf(n)'
        PROVE  /\ segment'[n] \in Splittable(n)
               /\ LeftChild(n, segment'[n]) \in Allocated'
               /\ RightChild(n, segment'[n]) \in Allocated'
               /\ ids'[n] = {} /\ size'[n] = 0
    <3>1. n \in Allocated
      BY <1>3, <1>7, <2>3 DEF IsLeaf
    <3>2. CASE n = p
      BY <1>3, <1>5, <1>6, <1>7, <3>2
    <3>3. CASE n # p
      BY <1>3, <1>5, <1>6, <1>7, <2>3, <3>1, <3>3 DEF Shape, IsLeaf
    <3> QED BY <3>2, <3>3
  <2>4. ASSUME NEW a \in Allocated', NEW n \in Allocated', IsLeaf(a)', n # a
        PROVE  Disjoint(a, n) \/ StrictlyWithin(a, n)
    <3>1. a # p
      BY <1>3, <1>4, <1>7, <2>4 DEF IsLeaf
    <3>2. \A c \in {l, r} : c \in Node /\ Within(c, p) /\ StrictlyWithin(c, p)
      BY <1>3, <1>4, <1>9 DEF StrictlyWithin
    <3>3. CASE a \in Allocated /\ n \in Allocated
      BY <1>7, <2>4, <3>1, <3>3 DEF Shape, IsLeaf
    <3>4. CASE a \in Allocated /\ n \in {l, r}
      <4>1. a \in Node /\ IsLeaf(a)
        BY <1>7, <2>4, <3>1, <3>4 DEF IsLeaf, TypeOK
      <4>2. Disjoint(a, p) \/ StrictlyWithin(a, p)
        BY <1>3, <3>1, <3>4, <4>1 DEF Shape
      <4>3. Disjoint(p, a) \/ StrictlyWithin(p, a)
        BY <1>3, <3>1, <3>4, <4>1 DEF Shape
      <4>4. ~(StrictlyWithin(a, p) /\ StrictlyWithin(p, a))
        BY <1>3, <4>1 DEF StrictlyWithin, Within, Node, Bits
      <4>5. Disjoint(p, a)
        BY <1>3, <4>1, <4>2, <4>3, <4>4, DisjointSymmetric
      <4> QED
        BY <1>3, <3>2, <3>4, <4>1, <4>5, DisjointWithin
    <3>5. CASE a \in {l, r} /\ n \in Allocated
      <4>1. n \in Node
        BY <3>5 DEF TypeOK
      <4>2. CASE n = p
        BY <3>2, <3>5, <4>2
      <4>3. CASE Disjoint(p, n)
        BY <1>3, <3>2, <3>5, <4>1, <4>3, DisjointWithin
      <4>4. CASE StrictlyWithin(p, n)
        <5>1. Within(a, n)
          BY <1>3, <3>2, <3>5, <4>1, <4>4, WithinFacts DEF StrictlyWithin
        <5>2. PICK q \in Segments : p.masks[q] < n.masks[q]
          BY <4>4 DEF StrictlyWithin
        <5>3. a.masks[q] <= p.masks[q]
          BY <3>2, <3>5 DEF Within
        <5>4. a.masks[q] \in Int /\ p.masks[q] \in Int /\ n.masks[q] \in Int
          BY <1>3, <3>5, <4>1 DEF Node, Bits
        <5> QED BY <5>1, <5>2, <5>3, <5>4 DEF StrictlyWithin
      <4> QED
        BY <1>3, <3>5, <4>2, <4>3, <4>4 DEF Shape
    <3>6. CASE a \in {l, r} /\ n \in {l, r}
      BY <1>3, <1>9, <2>4, <3>6, DisjointSymmetric
    <3> QED
      BY <1>3, <3>3, <3>4, <3>5, <3>6
  <2> QED
    BY <2>1, <2>2, <2>3, <2>4 DEF Shape
<1>15. WordsCovered'
  <2>1. SUFFICES ASSUME NEW w \in Word
                 PROVE  \E n \in Allocated' : IsLeaf(n)' /\ Covers(n, w)
    BY DEF WordsCovered
  <2>2. PICK n \in Allocated : IsLeaf(n) /\ Covers(n, w)
    BY DEF WordsCovered
  <2>3. CASE n # p
    BY <1>3, <1>7, <2>2, <2>3 DEF IsLeaf
  <2>4. CASE n = p
    BY <1>3, <1>7, <2>2, <2>4, RouteCovers DEF IsLeaf
  <2> QED BY <2>3, <2>4
<1>16. FiledWhereRouted'
  <2>1. ASSUME NEW n \in Allocated', NEW i \in ids'[n]
        PROVE  IsLeaf(n)' /\ Covers(n, saxs'[i])
    <3>1. CASE n \in Allocated
      BY <1>2, <1>5, <1>7, <2>1, <3>1 DEF FiledWhereRouted, IsLeaf
    <3>2. CASE n \in {l, r}
      <4>1. i \in ids[p] /\ i \in Series /\ saxs[i] \in Word /\ Covers(p, saxs[i])
        BY <1>3, <1>5, <2>1, <3>2 DEF FiledWhereRouted, TypeOK, RightIds
      <4>2. n = Route(p, s, saxs[i])
        <5>1. Route(p, s, saxs[i]) = IF saxs[i][s][p.masks[s] - 1] = 1 THEN r ELSE l
          BY <1>3, <4>1, RouteCovers
        <5>2. i \in to_r <=> saxs[i][s][p.masks[s] - 1] = 1
          BY <4>1 DEF RightIds
        <5>3. n = l => i \in to_l
          BY <1>5, <2>1
        <5>4. n = r => i \in to_r
          BY <1>5, <2>1
        <5> QED BY <1>3, <3>2, <5>1, <5>2, <5>3, <5>4
      <4> QED
        BY <1>2, <1>3, <1>7, <3>2, <4>1, <4>2, RouteCovers DEF IsLeaf
    <3> QED BY <1>3, <3>1, <3>2
  <2> QED BY <2>1 DEF FiledWhereRouted
<1>17. EverySeriesOnce'
  <2>1. \A u \in Threads : Pending(u)' = Pending(u)
    BY <1>2 DEF Pending, TypeOK
  <2>2. to_r \subseteq ids[p] /\ to_l \subseteq ids[p] /\ ids[p] = to_l \cup to_r
    BY DEF RightIds
  <2>3. \A i \in Series : (Stored(i)' <=> Stored(i)) /\ (Carried(i)' <=> Carried(i))
    <3>1. \A i \in Series : Carried(i)' <=> Carried(i)
      BY <2>1 DEF Carried
    <3>2. ASSUME NEW i \in Series, NEW n \in Allocated, i \in ids[n]
          PROVE  \E m \in Allocated' : i \in ids'[m]
      <4>1. CASE n # p
        BY <1>3, <1>5, <3>2, <4>1
      <4>2. CASE n = p
        BY <1>3, <1>5, <2>2, <3>2, <4>2
      <4> QED BY <4>1, <4>2
    <3>3. ASSUME NEW i \in Series, NEW n \in Allocated', i \in ids'[n]
          PROVE  \E m \in Allocated : i \in ids[m]
      <4>1. CASE n \in Allocated
        BY <1>5, <3>3, <4>1
      <4>2. CASE n \in {l, r}
        BY <1>3, <1>5, <2>2, <3>3, <4>2
      <4> QED BY <1>3, <4>1, <4>2
    <3> QED
      BY <3>1, <3>2, <3>3 DEF Stored
  <2>4. ASSUME NEW i \in Series, NEW a \in Allocated', NEW b \in Allocated',
               i \in ids'[a], i \in ids'[b]
        PROVE  a = b
    <3> DEFINE Source(n) == IF n \in {l, r} THEN p ELSE n
    <3>1. \A n \in Allocated' : i \in ids'[n] => Source(n) \in Allocated /\ i \in ids[Source(n)]
      BY <1>3, <1>4, <1>5, <2>2
    <3>2. Source(a) = Source(b)
      BY <2>4, <3>1 DEF EverySeriesOnce
    <3>3. a # p /\ b # p
      BY <1>3, <1>5, <2>4
    <3>4. ~(a = l /\ b = r) /\ ~(a = r /\ b = l)
      BY <1>5, <2>4
    <3> QED
      BY <3>2, <3>3, <3>4
  <2> QED
    BY <1>2, <2>1, <2>3, <2>4 DEF EverySeriesOnce
<1> QED
  BY <1>10, <1>11, <1>12, <1>13, <1>14, <1>15, <1>16, <1>17


----------------------------------------------------------------------------
(* The theorems *)

LEMMA NextIInv == IInv /\ [Next]_vars => IInv'
<1> SUFFICES ASSUME IInv, [Next]_vars PROVE IInv'
  OBVIOUS
<1>1. ASSUME UNCHANGED vars PROVE IInv'
  <2>1. UNCHANGED vars
    BY <1>1
  <2>2. TypeOK' /\ LocksHeld' /\ ClaimsBounded' /\ OnCourse'
    BY <2>1 DEF IInv, vars, input, workers, tree, Allocated, TypeOK, LocksHeld,
       ClaimsBounded, OnCourse, IsLeaf
  <2>3. Shape' /\ WordsCovered' /\ FiledWhereRouted'
    BY <2>1, ShapeKept DEF IInv, vars, input, workers, tree, Allocated
  <2>4. EverySeriesOnce'
    BY <2>1 DEF IInv, vars, input, workers, tree, Allocated, EverySeriesOnce, Stored, Carried, Pending
  <2> QED BY <2>2, <2>3, <2>4 DEF IInv
<1>2. ASSUME NEW t \in Threads, Worker(t) PROVE IInv'
  BY <1>2, ClaimIInv, LockRootIInv, TestIInv, SplitNodeIInv, FailToSplitIInv,
     LockChildIInv, UnlockParentIInv, InsertNodeIInv, UnlockIInv DEF Worker, Step
<1> QED
  BY <1>1, <1>2 DEF Next, Terminated

\* IInv is an invariant: types, lock ownership, claims, positions of workers
\* and the shape and contents of the tree (buildIndexThread, splitNode).
THEOREM Invariance == Spec => []IInv
<1>1. Init => IInv
  BY InitIInv
<1> QED
  BY <1>1, NextIInv, PTL DEF Spec

\* Every reachable state is well typed.
THEOREM TypeCorrect == Spec => []TypeOK
<1>1. IInv => TypeOK
  BY DEF IInv
<1> QED
  BY <1>1, Invariance, PTL

\* Hand-over-hand locking: two workers never work on one node.
THEOREM NodesAreExclusive == Spec => []MutualExclusion
<1>1. IInv => MutualExclusion
  <2> SUFFICES ASSUME IInv, NEW t \in Threads, NEW u \in Threads, t # u,
                      NEW n \in Using(t), n \in Using(u)
               PROVE  FALSE
    BY DEF MutualExclusion
  <2>1. ASSUME NEW v \in Threads, n \in Using(v)
        PROVE  lock[n] = v
    <3>1. CASE pc[v] \in {"test", "split", "lock_child", "insert", "unlock"}
      BY <2>1, <3>1 DEF Using, IInv, LocksHeld, HoldsNode
    <3>2. CASE pc[v] = "unlock_parent"
      BY <2>1, <3>2 DEF Using, IInv, LocksHeld, HoldsNode, HoldsParent
    <3>3. CASE pc[v] \notin {"test", "split", "lock_child", "insert", "unlock", "unlock_parent"}
      BY <2>1, <3>3 DEF Using
    <3> QED BY <3>1, <3>2, <3>3
  <2> QED BY <2>1
<1> QED
  BY <1>1, Invariance, PTL

\* No series is lost or stored twice, however the workers interleave.
THEOREM SeriesAreConserved == Spec => []EverySeriesOnce
<1>1. IInv => EverySeriesOnce
  BY DEF IInv
<1> QED
  BY <1>1, Invariance, PTL

LEMMA SomeThread == 1 \in Threads
<1>1. NumBlocks >= 1
  <2>1. DatabaseSize + BlockSize - 1 >= BlockSize /\ BlockSize > 0
    BY ConfigAssumption
  <2> QED BY <2>1, ConfigAssumption DEF NumBlocks
<1> QED BY <1>1, ConfigAssumption DEF Threads, NumThreads, NumBlocks

\* The assertion of finalizeIndex holds: after the last join the leaves hold
\* every series of the database.
THEOREM BuiltIndexIsComplete == Spec => []BuiltIsComplete
<1>1. IInv => BuiltIsComplete
  <2> SUFFICES ASSUME IInv, Built, NEW i \in Series PROVE Stored(i)
    BY DEF BuiltIsComplete
  <2>1. shared_start_id >= DatabaseSize /\ i < DatabaseSize
    BY SomeThread, ConfigAssumption DEF Built, IInv, ClaimsBounded, Series
  <2>2. ~Carried(i)
    BY DEF Carried, Pending, Built, IInv, ClaimsBounded, TypeOK, Series
  <2>3. i < shared_start_id
    BY <2>1, ConfigAssumption DEF IInv, TypeOK, Series
  <2> QED BY <2>2, <2>3 DEF IInv, EverySeriesOnce
<1> QED
  BY <1>1, Invariance, PTL

\* The leaves partition the words at every moment of the construction, so a
\* descent along one word has exactly one destination.
THEOREM LeavesPartition == Spec => []LeavesPartitionWords
<1>1. IInv => LeavesPartitionWords
  <2> SUFFICES ASSUME IInv, NEW w \in Word, NEW m \in Allocated, NEW n \in Allocated,
                      IsLeaf(m), Covers(m, w), IsLeaf(n), Covers(n, w), m # n
               PROVE  FALSE
    BY DEF LeavesPartitionWords, IInv, WordsCovered
  <2>1. m \in Node /\ n \in Node
    BY DEF IInv, TypeOK
  <2>2. ~Disjoint(m, n) /\ ~Disjoint(n, m)
    BY <2>1, DisjointCover
  <2>3. StrictlyWithin(m, n) /\ StrictlyWithin(n, m)
    BY <2>2 DEF IInv, Shape
  <2> QED BY <2>1, <2>3 DEF StrictlyWithin, Within, Node, Bits
<1> QED
  BY <1>1, Invariance, PTL

\* A stored series is in a leaf that covers its word.
THEOREM SeriesAreFiled == Spec => []FiledWhereRouted
<1>1. IInv => FiledWhereRouted
  BY DEF IInv
<1> QED
  BY <1>1, Invariance, PTL

LEMMA NotBoth ==
  ASSUME IInv, NEW i \in Series, Carried(i)
  PROVE  ~Stored(i)
<1>1. i \in Int /\ shared_start_id \in Int
  BY DEF IInv, TypeOK, Series
<1> QED BY <1>1 DEF IInv, EverySeriesOnce

\* Every step of the construction is a step of the abstract index or leaves the
\* abstract index alone (safety part of the refinement).
THEOREM ImplementsAbstract ==
  Spec => Abstract!Init /\ [][Abstract!Next]_(Abstract!vars)
<1>1. Init => Abstract!Init
  BY DEF Init, Abstract!Init, Indexed, Allocated
<1>2. IInv /\ [Next]_vars => [Abstract!Next]_(Abstract!vars)
  <2> SUFFICES ASSUME IInv, [Next]_vars
               PROVE  Abstract!Next \/ UNCHANGED <<Indexed, failed>>
    BY DEF Abstract!vars
  <2>1. ASSUME UNCHANGED <<ids, lock, failed>> PROVE UNCHANGED <<Indexed, failed>>
    BY <2>1 DEF Indexed, Allocated
  <2>2. ASSUME NEW t \in Threads, ~failed, InsertNode(t) PROVE Abstract!Next
    <3>1. Allocated' = Allocated /\ node[t] \in Allocated /\ failed' = failed
      BY <2>2 DEF InsertNode, Allocated, IInv, LocksHeld, HoldsNode
    <3>2. series[t] \in Series /\ series[t] \in Pending(t)
      <4>1. series[t] \in Series /\ series[t] < stop_id[t]
        BY <2>2, AtWork DEF InsertNode, IInv
      <4> QED BY <2>2, <4>1 DEF Pending, InsertNode, IInv, TypeOK
    <3>3. series[t] \notin Indexed
      <4>1. Carried(series[t])
        BY <3>2 DEF Carried
      <4>2. ~Stored(series[t])
        BY <3>2, <4>1, NotBoth
      <4> QED BY <4>2 DEF Indexed, Stored
    <3>4. ids' = [ids EXCEPT ![node[t]] = @ \cup {series[t]}]
      BY <2>2 DEF InsertNode
    <3>5. Indexed' = Indexed \cup {series[t]}
      BY <3>1, <3>4 DEF Indexed, IInv, TypeOK
    <3> QED
      BY <2>2, <3>1, <3>2, <3>3, <3>5 DEF Abstract!Next, Abstract!Insert
  <2>3. ASSUME NEW t \in Threads, ~failed, FailToSplit(t) PROVE Abstract!Next
    <3>1. Indexed' = Indexed /\ failed' = TRUE
      BY <2>3 DEF FailToSplit, tree, Indexed, Allocated
    <3>2. series[t] \in Series /\ series[t] \in Pending(t)
      <4>1. series[t] \in Series /\ series[t] < stop_id[t]
        BY <2>3, AtWork DEF FailToSplit, IInv
      <4> QED BY <2>3, <4>1 DEF Pending, FailToSplit, IInv, TypeOK
    <3>3. series[t] \notin Indexed
      <4>1. Carried(series[t])
        BY <3>2 DEF Carried
      <4>2. ~Stored(series[t])
        BY <3>2, <4>1, NotBoth
      <4> QED BY <4>2 DEF Indexed, Stored
    <3> QED
      BY <2>3, <3>1, <3>2, <3>3 DEF Abstract!Next, Abstract!GiveUp
  <2>4. ASSUME NEW t \in Threads, SplitNode(t) PROVE UNCHANGED <<Indexed, failed>>
    <3>1. PICK s \in SplitSegments(parent[t]) \ {NoSegment} : Divide(parent[t], s)
      BY <2>4 DEF SplitNode
    <3> DEFINE p    == node[t]
               l    == LeftChild(p, s)
               r    == RightChild(p, s)
    <3>2. /\ p \in Allocated /\ l # r /\ l \notin Allocated /\ r \notin Allocated
          /\ Allocated' = Allocated \cup {l, r}
          /\ ids' = WithNew([ids EXCEPT ![p] = {}], l, ids[p] \ RightIds(p, s), r, RightIds(p, s))
      BY <2>4, <3>1, SplitEffect DEF SplitNode
    <3>3. /\ \A n \in Allocated : ids'[n] = IF n = p THEN {} ELSE ids[n]
          /\ ids'[l] = ids[p] \ RightIds(p, s) /\ ids'[r] = RightIds(p, s)
      BY <3>2 DEF WithNew, IInv, TypeOK
    <3>4. ids[p] = ids'[l] \cup ids'[r]
      BY <3>3 DEF RightIds
    <3>5. ASSUME NEW n \in Allocated', NEW i \in ids'[n] PROVE \E m \in Allocated : i \in ids[m]
      BY <3>2, <3>3, <3>4, <3>5
    <3>6. ASSUME NEW n \in Allocated, NEW i \in ids[n] PROVE \E m \in Allocated' : i \in ids'[m]
      <4>1. CASE n = p
        BY <3>2, <3>4, <3>6, <4>1
      <4>2. CASE n # p
        BY <3>2, <3>3, <3>6, <4>2
      <4> QED BY <4>1, <4>2
    <3>7. Indexed' = Indexed
      BY <3>5, <3>6 DEF Indexed
    <3> QED BY <2>4, <3>7 DEF SplitNode
  <2>5. ASSUME NEW t \in Threads, LockRoot(t) \/ LockChild(t) \/ UnlockParent(t) \/ Unlock(t)
        PROVE  UNCHANGED <<Indexed, failed>>
    BY <2>5 DEF LockRoot, LockNode, LockChild, UnlockParent, Unlock, Indexed, Allocated
  <2>6. ASSUME NEW t \in Threads, Claim(t) \/ Test(t) PROVE UNCHANGED <<Indexed, failed>>
    BY <2>1, <2>6 DEF Claim, BlockEnd, Test, tree
  <2>7. ASSUME UNCHANGED vars PROVE UNCHANGED <<Indexed, failed>>
    BY <2>1, <2>7 DEF vars, tree
  <2> QED
    BY <2>2, <2>3, <2>4, <2>5, <2>6, <2>7 DEF Next, Worker, Step, Terminated
<1> QED
  BY <1>1, <1>2, Invariance, PTL DEF Spec


\* A series that was stored stays in the subtree where it was stored.
THEOREM SeriesOnlyMoveDown == Spec => StoredSeriesOnlyMoveDown
<1> DEFINE MovesDown == \A n \in Allocated : \A i \in ids[n] :
                          \E m \in Allocated' : i \in ids'[m] /\ Within(m, n)
<1>1. IInv /\ [Next]_vars => MovesDown
  <2> SUFFICES ASSUME IInv, [Next]_vars, NEW n \in Allocated, NEW i \in ids[n]
               PROVE  \E m \in Allocated' : i \in ids'[m] /\ Within(m, n)
    OBVIOUS
  <2>1. n \in Node /\ Within(n, n)
    BY DEF IInv, TypeOK, Within, Node, Bits
  <2>2. ASSUME UNCHANGED ids, Allocated' = Allocated
        PROVE  \E m \in Allocated' : i \in ids'[m] /\ Within(m, n)
    BY <2>1, <2>2
  <2>3. ASSUME NEW t \in Threads, InsertNode(t)
        PROVE  \E m \in Allocated' : i \in ids'[m] /\ Within(m, n)
    BY <2>1, <2>3 DEF InsertNode, Allocated, IInv, TypeOK
  <2>4. ASSUME NEW t \in Threads, SplitNode(t)
        PROVE  \E m \in Allocated' : i \in ids'[m] /\ Within(m, n)
    <3>1. PICK s \in SplitSegments(parent[t]) \ {NoSegment} : Divide(parent[t], s)
      BY <2>4 DEF SplitNode
    <3> DEFINE p    == node[t]
               l    == LeftChild(p, s)
               r    == RightChild(p, s)
    <3>2. /\ p \in Allocated /\ p \in Node /\ Clean(p) /\ s \in Splittable(p)
          /\ l # r /\ l \notin Allocated /\ r \notin Allocated
          /\ Allocated' = Allocated \cup {l, r}
          /\ ids' = WithNew([ids EXCEPT ![p] = {}], l, ids[p] \ RightIds(p, s), r, RightIds(p, s))
      BY <2>4, <3>1, SplitEffect DEF SplitNode
    <3>3. /\ \A m \in Allocated : ids'[m] = IF m = p THEN {} ELSE ids[m]
          /\ ids'[l] = ids[p] \ RightIds(p, s) /\ ids'[r] = RightIds(p, s)
      BY <3>2 DEF WithNew, IInv, TypeOK
    <3>4. Within(l, p) /\ Within(r, p)
      BY <3>2, ChildrenOfNode
    <3>5. CASE n # p
      BY <2>1, <3>2, <3>3, <3>5
    <3>6. CASE n = p
      BY <3>2, <3>3, <3>4, <3>6
    <3> QED BY <3>5, <3>6
  <2>5. ASSUME NEW t \in Threads, LockRoot(t) \/ LockChild(t) \/ UnlockParent(t) \/ Unlock(t)
        PROVE  UNCHANGED ids /\ Allocated' = Allocated
    BY <2>5 DEF LockRoot, LockNode, LockChild, UnlockParent, Unlock, Allocated
  <2>6. ASSUME NEW t \in Threads, Claim(t) \/ Test(t) \/ FailToSplit(t)
        PROVE  UNCHANGED ids /\ Allocated' = Allocated
    BY <2>6 DEF Claim, BlockEnd, Test, FailToSplit, tree, Allocated
  <2>7. ASSUME UNCHANGED vars
        PROVE  UNCHANGED ids /\ Allocated' = Allocated
    BY <2>7 DEF vars, tree, Allocated
  <2> QED
    BY <2>2, <2>3, <2>4, <2>5, <2>6, <2>7 DEF Next, Worker, Step, Terminated
<1>2. IInv /\ [Next]_vars => [MovesDown]_vars
  BY <1>1
<1> QED
  BY <1>2, Invariance, PTL DEF Spec, StoredSeriesOnlyMoveDown

----------------------------------------------------------------------------
(* The sizes and capacities of leaves *)

Room == \A t \in Threads : pc[t] = "insert" => size[node[t]] < LeafSize

Counted ==
  \A n \in Allocated :
    size[n] = Cardinality(ids[n]) /\ size[n] <= capacity[n] /\ capacity[n] <= LeafSize

\* What one insertion does to a capacity that respected its bounds.
LEMMA CapacityGrows ==
  ASSUME NEW n, capacity[n] \in Nat, size[n] \in Nat,
         size[n] <= capacity[n], capacity[n] <= LeafSize, size[n] < LeafSize
  PROVE  LET c == CapacityAfterInsert(n, InitialLeafSize, LeafSize)
         IN  size[n] < c /\ c <= LeafSize
BY ConfigAssumption DEF CapacityAfterInsert

LEMMA FiniteContents ==
  ASSUME IInv, NEW n \in Allocated
  PROVE  IsFiniteSet(ids[n]) /\ Cardinality(ids[n]) \in Nat
<1>1. IsFiniteSet(Series)
  BY ConfigAssumption, FS_Interval DEF Series
<1>2. ids[n] \subseteq Series
  BY DEF IInv, TypeOK
<1> QED BY <1>1, <1>2, FS_Subset, FS_CardinalityType

LEMMA NextCounted ==
  ASSUME IInv, Counted, Room, [Next]_vars
  PROVE  Counted' /\ Room'
<1>1. ASSUME UNCHANGED <<ids, size, capacity>>, Allocated' = Allocated
      PROVE  Counted'
  BY <1>1 DEF Counted
<1>2. ASSUME UNCHANGED vars PROVE Counted' /\ Room'
  BY <1>1, <1>2 DEF vars, input, workers, tree, Allocated, Room
<1>3. ASSUME NEW t \in Threads, LockRoot(t) \/ LockChild(t) \/ UnlockParent(t) \/ Unlock(t)
      PROVE  Counted' /\ Room'
  <2>1. UNCHANGED <<ids, size, capacity>> /\ Allocated' = Allocated
    BY <1>3 DEF LockRoot, LockNode, LockChild, UnlockParent, Unlock, Allocated
  <2>2. \A u \in Threads : pc'[u] = "insert" => pc[u] = "insert" /\ node'[u] = node[u]
    BY <1>3 DEF LockRoot, LockNode, LockChild, UnlockParent, Unlock, Goto, IInv, TypeOK
  <2> QED BY <1>1, <2>1, <2>2 DEF Room
<1>4. ASSUME NEW t \in Threads, Claim(t) \/ FailToSplit(t)
      PROVE  Counted' /\ Room'
  <2>1. UNCHANGED <<ids, size, capacity>> /\ Allocated' = Allocated
    BY <1>4 DEF Claim, BlockEnd, FailToSplit, tree, Allocated
  <2>2. \A u \in Threads : pc'[u] = "insert" => pc[u] = "insert" /\ node'[u] = node[u]
    BY <1>4 DEF Claim, BlockEnd, FailToSplit, workers, Goto, IInv, TypeOK
  <2> QED BY <1>1, <2>1, <2>2 DEF Room
<1>5. ASSUME NEW t \in Threads, Test(t)
      PROVE  Counted' /\ Room'
  <2>1. UNCHANGED <<ids, size, capacity, node>> /\ Allocated' = Allocated
    BY <1>5 DEF Test, tree, Allocated
  <2>2. node[t] \in Allocated
    BY <1>5 DEF Test, IInv, LocksHeld, HoldsNode
  <2>3. size[node[t]] \in Nat /\ capacity[node[t]] \in Nat
        /\ size[node[t]] <= capacity[node[t]] /\ capacity[node[t]] <= LeafSize
    BY <2>2 DEF IInv, TypeOK, Counted
  <2>4. pc'[t] = "insert" => size[node[t]] < LeafSize
    BY <1>5, <2>3, ConfigAssumption DEF Test, Goto, IInv, TypeOK
  <2>5. \A u \in Threads : u # t => pc'[u] = pc[u]
    BY <1>5 DEF Test, Goto, IInv, TypeOK
  <2> QED BY <1>1, <2>1, <2>4, <2>5 DEF Room
<1>6. ASSUME NEW t \in Threads, InsertNode(t)
      PROVE  Counted' /\ Room'
  <2> DEFINE n == node[t]
             i == series[t]
             c == CapacityAfterInsert(n, InitialLeafSize, LeafSize)
  <2>1. /\ n \in Allocated /\ lock[n] = t /\ Allocated' = Allocated
        /\ capacity' = [capacity EXCEPT ![n] = c]
        /\ ids' = [ids EXCEPT ![n] = @ \cup {i}] /\ size' = [size EXCEPT ![n] = @ + 1]
        /\ pc' = [pc EXCEPT ![t] = "unlock"] /\ UNCHANGED node
    BY <1>6 DEF InsertNode, Goto, Allocated, IInv, LocksHeld, HoldsNode
  <2>2. i \notin ids[n]
    <3>1. i \in Series /\ i < stop_id[t]
      BY <1>6, AtWork DEF InsertNode, IInv
    <3>2. i \in Pending(t)
      BY <1>6, <3>1 DEF Pending, InsertNode, IInv, TypeOK
    <3>3. ~Stored(i)
      BY <3>1, <3>2, NotBoth DEF Carried
    <3> QED BY <2>1, <3>3 DEF Stored
  <2>3. Cardinality(ids[n] \cup {i}) = Cardinality(ids[n]) + 1
    BY <2>1, <2>2, FiniteContents, FS_AddElement
  <2>4. size[n] < c /\ c <= LeafSize
    BY <1>6, <2>1, CapacityGrows DEF Counted, Room, InsertNode, IInv, TypeOK
  <2>5. size[n] \in Nat /\ c \in Nat
    BY <2>1, ConfigAssumption DEF IInv, TypeOK, CapacityAfterInsert
  <2>6. Counted'
    BY <2>1, <2>3, <2>4, <2>5 DEF Counted, IInv, TypeOK
  <2>7. Room'
    <3>1. ASSUME NEW u \in Threads, pc'[u] = "insert"
          PROVE  u # t /\ pc[u] = "insert" /\ node[u] # n
      BY <2>1, <3>1 DEF IInv, TypeOK, LocksHeld, HoldsNode
    <3>2. \A m \in Allocated : m # n => size'[m] = size[m]
      BY <2>1 DEF IInv, TypeOK
    <3> QED
      BY <2>1, <3>1, <3>2 DEF Room, IInv, LocksHeld, HoldsNode
  <2> QED BY <2>6, <2>7
<1>7. ASSUME NEW t \in Threads, SplitNode(t)
      PROVE  Counted' /\ Room'
  <2>1. PICK s \in SplitSegments(parent[t]) \ {NoSegment} : Divide(parent[t], s)
    BY <1>7 DEF SplitNode
  <2> DEFINE p    == node[t]
             l    == LeftChild(p, s)
             r    == RightChild(p, s)
             to_r == RightIds(p, s)
             to_l == ids[p] \ to_r
             x    == IF to_l = {} THEN 0 ELSE capacity[p]
             y    == IF to_r = {} THEN 0 ELSE capacity[p]
  <2>2. /\ p = parent[t] /\ p \in Allocated /\ lock[p] = t
        /\ l # r /\ l \notin Allocated /\ r \notin Allocated
        /\ Allocated' = Allocated \cup {l, r}
        /\ ids' = WithNew([ids EXCEPT ![p] = {}], l, to_l, r, to_r)
        /\ size' = WithNew([size EXCEPT ![p] = 0], l, Cardinality(to_l), r, Cardinality(to_r))
    BY <1>7, <2>1, SplitEffect DEF SplitNode
  <2>3. capacity' = WithNew([capacity EXCEPT ![p] = 0], l, x, r, y)
    BY <2>1, <2>2 DEF Divide, LeftIds
  <2>4. /\ \A n \in Allocated : /\ ids'[n] = IF n = p THEN {} ELSE ids[n]
                                /\ size'[n] = IF n = p THEN 0 ELSE size[n]
                                /\ capacity'[n] = IF n = p THEN 0 ELSE capacity[n]
        /\ ids'[l] = to_l /\ size'[l] = Cardinality(to_l) /\ capacity'[l] = x
        /\ ids'[r] = to_r /\ size'[r] = Cardinality(to_r) /\ capacity'[r] = y
    BY <2>2, <2>3 DEF WithNew, IInv, TypeOK
  <2>5. ASSUME NEW moved \in SUBSET ids[p]
        PROVE  LET c == IF moved = {} THEN 0 ELSE capacity[p]
               IN  Cardinality(moved) <= c /\ c <= LeafSize
    <3>1. /\ Cardinality(moved) \in Nat /\ Cardinality(moved) <= Cardinality(ids[p])
          /\ Cardinality(ids[p]) \in Nat
      BY <2>2, FiniteContents, FS_Subset, FS_CardinalityType
    <3>2. Cardinality(ids[p]) <= capacity[p] /\ capacity[p] <= LeafSize /\ capacity[p] \in Nat
      BY <2>2 DEF Counted, IInv, TypeOK
    <3>3. moved = {} => Cardinality(moved) = 0
      BY FS_EmptySet
    <3> QED BY <3>1, <3>2, <3>3, ConfigAssumption
  <2>6. to_l \in SUBSET ids[p] /\ to_r \in SUBSET ids[p]
    BY DEF RightIds
  <2>7. Cardinality(to_l) <= x /\ x <= LeafSize /\ Cardinality(to_r) <= y /\ y <= LeafSize
    BY <2>5, <2>6
  <2>8. Counted'
    <3>1. ASSUME NEW n \in Allocated'
          PROVE  (size[n] = Cardinality(ids[n]) /\ size[n] <= capacity[n] /\ capacity[n] <= LeafSize)'
      <4>1. CASE n = p
        <5>1. ids'[p] = {} /\ size'[p] = 0 /\ capacity'[p] = 0
          BY <2>2, <2>4
        <5>2. Cardinality({}) = 0
          BY FS_EmptySet
        <5> QED BY <4>1, <5>1, <5>2, ConfigAssumption
      <4>2. CASE n \in Allocated /\ n # p
        BY <2>4, <4>2 DEF Counted
      <4>3. CASE n = l
        BY <2>4, <2>7, <4>3
      <4>4. CASE n = r
        BY <2>4, <2>7, <4>4
      <4> QED BY <2>2, <4>1, <4>2, <4>3, <4>4
    <3> QED BY <3>1 DEF Counted
  <2>9. Room'
    <3>1. ASSUME NEW u \in Threads, pc'[u] = "insert"
          PROVE  pc[u] = "insert" /\ node[u] \in Allocated /\ node[u] # p /\ node'[u] = node[u]
      BY <1>7, <2>2, <3>1 DEF SplitNode, Goto, IInv, TypeOK, LocksHeld, HoldsNode
    <3> QED BY <2>4, <3>1 DEF Room
  <2> QED BY <2>8, <2>9
<1> QED
  BY <1>2, <1>3, <1>4, <1>5, <1>6, <1>7 DEF Next, Worker, Step, Terminated

LEMMA InitCounted == ASSUME Init PROVE Counted /\ Room
BY FS_EmptySet, ConfigAssumption DEF Init, Counted, Room, Allocated

\* No leaf is written past its array or outgrows leaf_size (insertNode).
THEOREM LeavesStayWithinCapacity == Spec => []WithinCapacity
<1>1. Init => Counted /\ Room
  BY InitCounted
<1>2. IInv /\ (Counted /\ Room) /\ [Next]_vars => (Counted /\ Room)'
  BY NextCounted
<1>3. IInv /\ Counted /\ Room => WithinCapacity
  <2> SUFFICES ASSUME IInv, Counted, Room, NEW t \in Threads, pc[t] = "insert"
               PROVE  size[node[t]] < CapacityAfterInsert(node[t], InitialLeafSize, LeafSize)
    BY DEF WithinCapacity, Counted
  <2>1. node[t] \in Allocated
    BY DEF IInv, LocksHeld, HoldsNode
  <2> QED
    BY <2>1, CapacityGrows DEF Counted, Room, IInv, TypeOK
<1> QED
  BY <1>1, <1>2, <1>3, Invariance, PTL DEF Spec

----------------------------------------------------------------------------
(* Splits by the next bit *)

\* A split by the next bit that tells no series of n apart is the best there is.
LEMMA BestOrNone ==
  ASSUME IInv, Counted, NEW n \in Allocated, NEW s \in NextBitSegments(n),
         Cardinality(RightIds(n, s)) \in {0, size[n]}, NEW r \in Splittable(n)
  PROVE  Cardinality(RightIds(n, r)) \in {0, size[n]}
<1> DEFINE ones(q) == Cardinality(RightIds(n, q))
<1>1. size[n] \in Nat /\ size[n] = Cardinality(ids[n])
  BY DEF Counted, IInv, TypeOK
<1>2. ASSUME NEW q PROVE ones(q) \in Nat /\ ones(q) <= size[n]
  <2>1. RightIds(n, q) \subseteq ids[n]
    BY DEF RightIds
  <2>2. IsFiniteSet(ids[n])
    BY FiniteContents
  <2> QED BY <1>1, <2>1, <2>2, FS_Subset, FS_CardinalityType
<1>3. ASSUME NEW q
      PROVE  Difference(n, q) = IF 2 * ones(q) - size[n] < 0 THEN -(2 * ones(q) - size[n])
                                ELSE 2 * ones(q) - size[n]
  BY DEF Difference, RightIds
<1>4. Difference(n, s) <= Difference(n, r)
  <2>1. Difference(n, s) \in Int /\ Difference(n, r) \in Int
    BY <1>1, <1>2, <1>3
  <2>2. Beats(n, s, r)
    BY DEF NextBitSegments
  <2> QED BY <2>1, <2>2 DEF Beats
<1>5. Difference(n, s) = size[n]
  BY <1>1, <1>2, <1>3
<1> HIDE DEF ones
<1>6. ones(r) = 0 \/ ones(r) = size[n]
  BY <1>1, <1>2, <1>3, <1>4, <1>5
<1> QED BY <1>6 DEF ones

\* A split by the next bit leaves a child empty only if every segment would
\* (decideSplitSegmentByNextBit).
THEOREM EmptyChildren == Spec => EmptyChildOnlyIfInseparable
<1> DEFINE Sound ==
      \A n \in Allocated :
        IsLeaf(n) /\ segment'[n] # NoSegment /\ ~split_by_summarizations =>
          (Cardinality(RightIds(n, segment'[n])) \in {0, size[n]} =>
             \A s \in Splittable(n) : Cardinality(RightIds(n, s)) \in {0, size[n]})
<1>1. ASSUME IInv, Counted, [Next]_vars PROVE Sound
  <2> SUFFICES ASSUME NEW n \in Allocated, IsLeaf(n), segment'[n] # NoSegment,
                      ~split_by_summarizations,
                      Cardinality(RightIds(n, segment'[n])) \in {0, size[n]}
               PROVE  \A s \in Splittable(n) : Cardinality(RightIds(n, s)) \in {0, size[n]}
    OBVIOUS
  <2>1. segment'[n] # segment[n]
    BY DEF IsLeaf
  <2>2. PICK t \in Threads : SplitNode(t)
    <3>1. ASSUME NEW t \in Threads,
                 Claim(t) \/ LockRoot(t) \/ Test(t) \/ FailToSplit(t) \/ LockChild(t)
                 \/ UnlockParent(t) \/ InsertNode(t) \/ Unlock(t)
          PROVE  segment' = segment
      BY <3>1 DEF Claim, BlockEnd, LockRoot, LockNode, Test, FailToSplit, LockChild,
                  UnlockParent, InsertNode, Unlock, tree
    <3>2. UNCHANGED vars => segment' = segment
      BY DEF vars, tree
    <3> QED BY <1>1, <2>1, <3>1, <3>2 DEF Next, Worker, Step, Terminated
  <2>3. PICK s \in SplitSegments(parent[t]) \ {NoSegment} : Divide(parent[t], s)
    BY <2>2 DEF SplitNode
  <2> DEFINE p == node[t]
             l == LeftChild(p, s)
             r == RightChild(p, s)
  <2>4. /\ p = parent[t] /\ p \in Allocated
        /\ l # r /\ l \notin Allocated /\ r \notin Allocated
        /\ segment' = WithNew([segment EXCEPT ![p] = s], l, NoSegment, r, NoSegment)
    BY <1>1, <2>2, <2>3, SplitEffect DEF SplitNode
  <2>5. \A m \in Allocated : segment'[m] = IF m = p THEN s ELSE segment[m]
    BY <1>1, <2>4 DEF WithNew, IInv, TypeOK
  <2>6. n = p /\ segment'[n] = s
    BY <2>1, <2>5
  <2>7. s \in NextBitSegments(n)
    BY <2>3, <2>4, <2>6 DEF SplitSegments
  <2> QED BY <1>1, <2>6, <2>7, BestOrNone
<1>2. Init => Counted /\ Room
  BY InitCounted
<1>3. IInv /\ (Counted /\ Room) /\ [Next]_vars => (Counted /\ Room)'
  BY NextCounted
<1>4. IInv /\ Counted /\ [Next]_vars => [Sound]_vars
  BY <1>1
<1> QED
  BY <1>2, <1>3, <1>4, Invariance, PTL DEF Spec, EmptyChildOnlyIfInseparable

\* A worker that is about to split is at a full leaf.
Full == \A t \in Threads : pc[t] = "split" => size[node[t]] = LeafSize

LEMMA NextFull ==
  ASSUME IInv, Full, [Next]_vars
  PROVE  Full'
<1>1. ASSUME NEW t \in Threads,
             Claim(t) \/ LockRoot(t) \/ FailToSplit(t) \/ LockChild(t) \/ UnlockParent(t) \/ Unlock(t)
      PROVE  Full'
  <2>1. size' = size
    BY <1>1 DEF Claim, BlockEnd, LockRoot, FailToSplit, LockChild, UnlockParent, Unlock, tree
  <2>2. \A u \in Threads : pc'[u] = "split" => pc[u] = "split" /\ node'[u] = node[u]
    BY <1>1 DEF Claim, BlockEnd, LockRoot, LockNode, FailToSplit, LockChild, UnlockParent,
                Unlock, Goto, workers, IInv, TypeOK
  <2> QED BY <2>1, <2>2 DEF Full
<1>2. ASSUME NEW t \in Threads, Test(t) PROVE Full'
  <2>1. size' = size /\ node' = node
    BY <1>2 DEF Test, tree
  <2>2. \A u \in Threads : u # t => pc'[u] = pc[u]
    BY <1>2 DEF Test, Goto, IInv, TypeOK
  <2>3. pc'[t] = "split" => size[node[t]] = LeafSize
    BY <1>2 DEF Test, Goto, IInv, TypeOK
  <2> QED BY <2>1, <2>2, <2>3 DEF Full
<1>3. ASSUME NEW t \in Threads, InsertNode(t) PROVE Full'
  <2>1. ASSUME NEW u \in Threads, pc'[u] = "split"
        PROVE  pc[u] = "split" /\ node[u] \in Allocated /\ node[u] # node[t] /\ node'[u] = node[u]
    BY <1>3, <2>1 DEF InsertNode, Goto, IInv, TypeOK, LocksHeld, HoldsNode
  <2>2. \A m \in Allocated : m # node[t] => size'[m] = size[m]
    BY <1>3 DEF InsertNode, IInv, TypeOK
  <2> QED BY <2>1, <2>2 DEF Full
<1>4. ASSUME NEW t \in Threads, SplitNode(t) PROVE Full'
  <2>1. PICK s \in SplitSegments(parent[t]) \ {NoSegment} : Divide(parent[t], s)
    BY <1>4 DEF SplitNode
  <2> DEFINE p == node[t]
             l == LeftChild(p, s)
             r == RightChild(p, s)
  <2>2. /\ p \in Allocated /\ l \notin Allocated /\ r \notin Allocated /\ lock[p] = t
        /\ size' = WithNew([size EXCEPT ![p] = 0], l, Cardinality(ids[p] \ RightIds(p, s)),
                                                  r, Cardinality(RightIds(p, s)))
    BY <1>4, <2>1, SplitEffect DEF SplitNode
  <2>3. \A m \in Allocated : m # p => size'[m] = size[m]
    BY <2>2 DEF WithNew, IInv, TypeOK
  <2>4. ASSUME NEW u \in Threads, pc'[u] = "split"
        PROVE  pc[u] = "split" /\ node[u] \in Allocated /\ node[u] # p /\ node'[u] = node[u]
    BY <1>4, <2>2, <2>4 DEF SplitNode, Goto, IInv, TypeOK, LocksHeld, HoldsNode
  <2> QED BY <2>3, <2>4 DEF Full
<1>5. UNCHANGED vars => Full'
  BY DEF vars, workers, tree, Full
<1> QED
  BY <1>1, <1>2, <1>3, <1>4, <1>5 DEF Next, Worker, Step, Terminated

\* A node without a bit left to split on covers one word only.
LEMMA OneWord ==
  ASSUME NEW n \in Node, Splittable(n) = {}, NEW w \in Word, Covers(n, w)
  PROVE  w = n.sax
<1>1. \A q \in Segments : n.masks[q] = 0
  BY DEF Splittable
<1>2. \A q \in Segments : \A b \in Bits : w[q][b] = n.sax[q][b]
  BY <1>1, RegionsAssumption DEF Covers, Bits
<1>3. n.sax \in Word
  BY DEF Node
<1>4. \A q \in Segments : w[q] = n.sax[q]
  BY <1>2, <1>3 DEF Word
<1> QED BY <1>3, <1>4 DEF Word

\* Too many series of the same word.
Inevitable ==
  \E i \in Series : Cardinality({j \in Series : saxs[j] = saxs[i]}) > LeafSize

LEMMA GivingUp ==
  ASSUME IInv, Counted, Full, NEW t \in Threads, FailToSplit(t), ~split_by_summarizations
  PROVE  Inevitable
<1> DEFINE p == node[t]
           i == series[t]
           equals == {j \in Series : saxs[j] = saxs[i]}
<1>1. /\ p = parent[t] /\ p \in Allocated /\ p \in Node
      /\ size[p] = LeafSize /\ Cardinality(ids[p]) = LeafSize
  BY DEF FailToSplit, IInv, LocksHeld, HoldsNode, TypeOK, Full, Counted
<1>2. Splittable(p) = {}
  BY <1>1 DEF FailToSplit, SplitSegments, NextBitSegments, Splittable, Segments, NoSegment
<1>3. i \in Series /\ saxs[i] \in Word /\ i < stop_id[t]
  BY AtWork DEF FailToSplit, IInv
<1>4. i \notin ids[p]
  <2>1. i \in Pending(t)
    BY <1>3 DEF Pending, FailToSplit, IInv, TypeOK
  <2>2. ~Stored(i)
    BY <1>3, <2>1, NotBoth DEF Carried
  <2> QED BY <1>1, <2>2 DEF Stored
<1>5. Covers(p, saxs[i])
  BY DEF OnCourse, HoldsNode, FailToSplit, IInv
<1>6. saxs[i] = p.sax
  BY <1>1, <1>2, <1>3, <1>5, OneWord
<1>7. ASSUME NEW j \in ids[p] PROVE j \in equals
  <2>1. j \in Series /\ saxs[j] \in Word /\ Covers(p, saxs[j])
    BY <1>1 DEF IInv, TypeOK, FiledWhereRouted
  <2>2. saxs[j] = p.sax
    BY <1>1, <1>2, <2>1, OneWord
  <2> QED BY <1>6, <2>1, <2>2
<1>8. ids[p] \cup {i} \subseteq equals
  BY <1>3, <1>7
<1>9. Cardinality(ids[p] \cup {i}) = LeafSize + 1
  BY <1>1, <1>4, FiniteContents, FS_AddElement
<1>10. IsFiniteSet(equals)
  <2>1. IsFiniteSet(Series)
    BY ConfigAssumption, FS_Interval DEF Series
  <2> QED BY <2>1, FS_Subset
<1>11. Cardinality(equals) \in Nat /\ LeafSize + 1 <= Cardinality(equals)
  BY <1>8, <1>9, <1>10, FS_Subset, FS_CardinalityType
<1>12. Cardinality(equals) > LeafSize
  BY <1>11, ConfigAssumption
<1> QED BY <1>3, <1>12 DEF Inevitable

\* buildIndex by the next bit exits only on a database that no tree of its leaf
\* size can hold ("cannot find segment to split").
THEOREM FailuresAreInevitable == Spec => []FailsOnlyWhenInevitable
<1>1. Init => Counted /\ Room /\ Full /\ FailsOnlyWhenInevitable
  <2>1. Init => Counted /\ Room
    BY InitCounted
  <2>2. Init => Full /\ FailsOnlyWhenInevitable
    BY DEF Init, Full, FailsOnlyWhenInevitable
  <2> QED BY <2>1, <2>2
<1>2. IInv /\ (Counted /\ Room /\ Full /\ FailsOnlyWhenInevitable) /\ [Next]_vars
        => (Counted /\ Room /\ Full /\ FailsOnlyWhenInevitable)'
  <2> SUFFICES ASSUME IInv, Counted, Room, Full, FailsOnlyWhenInevitable, [Next]_vars
               PROVE  (Counted /\ Room /\ Full /\ FailsOnlyWhenInevitable)'
    OBVIOUS
  <2>1. (Counted /\ Room)' /\ Full'
    BY NextCounted, NextFull
  <2>2. UNCHANGED <<saxs, split_by_summarizations>>
    BY DEF Next, Worker, Step, Terminated, Claim, LockRoot, Test, SplitNode, FailToSplit,
           LockChild, UnlockParent, InsertNode, Unlock, input, vars
  <2>3. CASE \E t \in Threads : FailToSplit(t)
    <3>1. ~split_by_summarizations => Inevitable
      BY <2>3, GivingUp
    <3> QED BY <2>1, <2>2, <3>1 DEF FailsOnlyWhenInevitable, Inevitable
  <2>4. CASE ~\E t \in Threads : FailToSplit(t)
    <3>1. failed' = failed
      BY <2>4 DEF Next, Worker, Step, Terminated, Claim, LockRoot, Test, SplitNode,
           LockChild, UnlockParent, InsertNode, Unlock, vars
    <3> QED BY <2>1, <2>2, <3>1 DEF FailsOnlyWhenInevitable
  <2> QED BY <2>3, <2>4
<1> QED
  BY <1>1, <1>2, Invariance, PTL DEF Spec

=============================================================================

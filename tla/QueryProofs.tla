---------------------------- MODULE QueryProofs ----------------------------
(***************************************************************************)
(* Theorems about Query.  AnswerInv and LeavesInv are inductive whatever   *)
(* the distances are; SearchInv, and with it that an exact search finds    *)
(* the nearest series, needs bounds that are bounds.                       *)
(***************************************************************************)
EXTENDS Query, TLAPS, NaturalsInduction, WellFoundedInduction, FiniteSetTheorems

LEMMA ConstantFacts ==
  /\ DatabaseSize \in Nat \ {0} /\ NumLeaves \in Nat \ {0} /\ MaxThreads \in Nat \ {0}
  /\ K \in Nat \ {0} /\ VALUE_MAX \in Nat /\ QuerySize \in Nat
  /\ LeafBlockSize \in Nat \ {0} /\ QueryBlockSize \in Nat \ {0}
  /\ Main \in Scanners /\ \A t \in Threads : t \in Scanners /\ t # Main
  /\ 1 \in Threads
  /\ \A t \in Scanners : t # NoWriter /\ (t = Main \/ t \in Threads)
<1>1. 2 * MaxThreads \in Nat \ {0} /\ 8 * MaxThreads \in Nat \ {0}
  BY QueryAssumption
<1>2. NumLeaves \div (2 * MaxThreads) \in Nat /\ NumLeaves \div (8 * MaxThreads) \in Nat
  <2>1. \A n \in Nat, d \in Nat \ {0} : n \div d \in Nat
    OBVIOUS
  <2> QED BY <1>1, <2>1, QueryAssumption
<1>3. LeafBlockSize \in Nat \ {0} /\ QueryBlockSize \in Nat \ {0}
  BY <1>2 DEF LeafBlockSize, QueryBlockSize
<1> QED BY <1>3, QueryAssumption DEF Main, Threads, Scanners, NoWriter

LEMMA LeafFacts ==
  ASSUME NEW l \in Leaves
  PROVE  /\ l \in Nat /\ l + 1 \in 0 .. NumLeaves /\ l < NumLeaves
         /\ StartId[l] \in 0 .. DatabaseSize /\ StartId[l + 1] \in 0 .. DatabaseSize
         /\ StartId[l] < StartId[l + 1]
         /\ SeriesOf(l) \subseteq Series
         /\ \A s \in SeriesOf(l) : s \in Nat /\ StartId[l] <= s /\ s < StartId[l + 1]
         /\ \A s \in Series : StartId[l] <= s /\ s < StartId[l + 1] => s \in SeriesOf(l)
<1>1. l \in Nat /\ l + 1 \in 0 .. NumLeaves /\ l \in 0 .. NumLeaves /\ l < NumLeaves
  BY ConstantFacts DEF Leaves
<1>2. StartId[l] \in 0 .. DatabaseSize /\ StartId[l + 1] \in 0 .. DatabaseSize
      /\ StartId[l] < StartId[l + 1]
  BY <1>1, LeavesAssumption
<1> QED BY <1>1, <1>2, ConstantFacts DEF SeriesOf, Series

LEMMA QueryFacts ==
  ASSUME NEW q \in Queries
  PROVE  /\ q.l2Square \in [Series -> Distance] /\ q.l2SquareSAX \in [Series -> Distance]
         /\ q.leaf \in [Leaves -> Distance] /\ q.resident \in Leaves \cup {NoLeaf, EmptyLeaf}
         /\ \A s \in Series : q.l2Square[s] \in Nat /\ q.l2Square[s] < VALUE_MAX
         /\ \A l \in Leaves : q.leaf[l] \in Nat /\ q.leaf[l] < VALUE_MAX
         /\ VALUE_MAX # 0
<1>1. /\ q.l2Square \in [Series -> Distance] /\ q.l2SquareSAX \in [Series -> Distance]
      /\ q.leaf \in [Leaves -> Distance] /\ q.resident \in Leaves \cup {NoLeaf, EmptyLeaf}
  BY QueriesAssumption
<1>2. \A d \in Distance : d \in Nat /\ d < VALUE_MAX
  BY ConstantFacts DEF Distance
<1>3. 0 \in Series
  BY ConstantFacts DEF Series
<1>4. \A s \in Series : q.l2Square[s] \in Distance
  BY <1>1
<1>5. \A l \in Leaves : q.leaf[l] \in Distance
  BY <1>1
<1>6. VALUE_MAX # 0
  BY <1>2, <1>3, <1>4, ConstantFacts
<1> QED BY <1>1, <1>2, <1>4, <1>5, <1>6

\* The leaves cover all series: the last leaf that starts at s or before holds it.
LEMMA LeavesCover ==
  ASSUME NEW s \in Series
  PROVE  \E l \in Leaves : s \in SeriesOf(l)
<1> DEFINE After == {l \in 0 .. NumLeaves : StartId[l] > s}
<1>1. NumLeaves \in After
  BY ConstantFacts, LeavesAssumption DEF Series
<1>2. After \subseteq Nat /\ After # {}
  BY <1>1, ConstantFacts
<1>3. \E m \in After : \A l \in After : ~(<<l, m>> \in OpToRel(<, Nat))
  BY <1>2, WFMin, NatLessThanWellFounded
<1>4. PICK m \in After : \A l \in After : ~(<<l, m>> \in OpToRel(<, Nat))
  BY <1>3
<1>5. \A l \in After : ~(l < m)
  BY <1>2, <1>4 DEF OpToRel
<1>6. m \in Nat /\ m # 0 /\ m <= NumLeaves
  BY ConstantFacts, LeavesAssumption DEF Series
<1>7. m - 1 \in Leaves /\ m - 1 \in 0 .. NumLeaves /\ m - 1 < m
  BY <1>6, ConstantFacts DEF Leaves
<1>8. ~(StartId[m - 1] > s) /\ StartId[m - 1] \in 0 .. DatabaseSize
  BY <1>5, <1>7, LeavesAssumption
<1>9. StartId[m] > s /\ m = (m - 1) + 1
  BY <1>6
<1>10. StartId[m - 1] <= s /\ s < StartId[(m - 1) + 1]
  BY <1>8, <1>9, ConstantFacts, LeavesAssumption DEF Series
<1> QED BY <1>7, <1>10, LeafFacts

----------------------------------------------------------------------------
(* Types *)

\* A series that is looked at is one of the leaf's, and of the database's.
LEMMA SeriesInRange ==
  ASSUME TypeOK, InRange, NEW t \in Scanners, pc[t] \in Scanning
  PROVE  /\ LeafOf(t) \in Leaves
         /\ StartId[LeafOf(t)] <= series[t] /\ series[t] <= last[t]
         /\ last[t] = StartId[LeafOf(t) + 1]
         /\ series[t] \in 0 .. DatabaseSize /\ last[t] \in 0 .. DatabaseSize
         /\ series[t] < last[t] => /\ series[t] \in Series
                                   /\ series[t] \in SeriesOf(LeafOf(t))
                                   /\ query.l2Square[series[t]] \in Distance
<1>1. /\ LeafOf(t) \in Leaves
      /\ StartId[LeafOf(t)] <= series[t] /\ series[t] <= last[t]
      /\ last[t] = StartId[LeafOf(t) + 1]
  BY DEF InRange
<1>2. series[t] \in 0 .. DatabaseSize /\ last[t] \in 0 .. DatabaseSize /\ query \in Queries
  BY DEF TypeOK
<1>3. series[t] < last[t] => series[t] \in Series
  BY <1>2, ConstantFacts DEF Series
<1>4. series[t] < last[t] => series[t] \in SeriesOf(LeafOf(t))
  BY <1>1, <1>3, LeafFacts
<1>5. query.l2Square \in [Series -> Distance]
  BY <1>2, QueryFacts
<1> QED BY <1>1, <1>2, <1>3, <1>4, <1>5

\* What a step of a scan leaves alone.
LEMMA ScanFrame ==
  ASSUME TypeOK, NEW t \in Scanners, Scan(t)
  PROVE  /\ UNCHANGED <<main, leaves, shared_leaf_id, stop, thread_bsf, last>>
         /\ counted' \in Nat /\ counted' >= counted
         /\ CheckSeries(t) \/ counted' = counted
         /\ pc[t] \in Scanning
         /\ t = Main => UNCHANGED index
         /\ \A u \in Scanners \ {t} :
              /\ pc'[u] = pc[u] /\ index'[u] = index[u]
              /\ leaf_bsf'[u] = leaf_bsf[u] /\ series'[u] = series[u]
<1> USE DEF Scanning, TypeOK, scan
<1>0. Count \in Nat /\ Count >= counted
  BY QueryAssumption DEF Count
<1>1. CASE CheckSeries(t)
  BY <1>0, <1>1 DEF CheckSeries
<1>2. CASE LeaveLeaf(t)
  BY <1>2 DEF LeaveLeaf
<1>3. CASE AddAnswer(t)
  BY <1>3 DEF AddAnswer, Proceed
<1>4. CASE ReplaceAnswer(t)
  BY <1>4 DEF ReplaceAnswer
<1>5. CASE Heapify(t)
  BY <1>5 DEF Heapify, Proceed
<1>6. CASE KeepAnswers(t)
  BY <1>6 DEF KeepAnswers, Proceed
<1> QED BY <1>1, <1>2, <1>3, <1>4, <1>5, <1>6 DEF Scan

\* A step of a scan to the next series.
LEMMA ProceedType ==
  ASSUME TypeOK, InRange, NEW t \in Scanners, pc[t] \in {"update", "heapify"}, Proceed(t),
         top' \in Distance \cup {VALUE_MAX}
  PROVE  /\ pc' \in [Scanners -> Labels]
         /\ leaf_bsf' \in [Scanners -> Distance \cup {VALUE_MAX}]
         /\ series' \in [Scanners -> 0 .. DatabaseSize]
<1>1. pc[t] \in Scanning /\ pc[t] # "scan"
  BY DEF Scanning
<1>2. series[t] + 1 \in 0 .. DatabaseSize
  BY <1>1, SeriesInRange, ConstantFacts DEF InRange
<1> QED BY <1>2 DEF Proceed, TypeOK, Labels

LEMMA ScanType ==
  ASSUME TypeOK, InRange, NEW t \in Scanners, Scan(t)
  PROVE  TypeOK'
<1>1. /\ UNCHANGED <<main, leaves, shared_leaf_id, stop, thread_bsf, last>>
      /\ counted' \in Nat
      /\ pc[t] \in Scanning
  BY ScanFrame
<1>2. /\ UNCHANGED <<config, phase, query, asked, node, local_bsf, leaf_indices, leaf_distances>>
  BY <1>1 DEF main, leaves
<1> SUFFICES
      /\ held' \in SUBSET Series
      /\ size' \in 0 .. K
      /\ top' \in Distance \cup {VALUE_MAX}
      /\ writer' \in Scanners \cup {NoWriter}
      /\ pc' \in [Scanners -> Labels]
      /\ index' \in [Scanners -> 0 .. NumLeaves]
      /\ leaf_bsf' \in [Scanners -> Distance \cup {VALUE_MAX}]
      /\ series' \in [Scanners -> 0 .. DatabaseSize]
  BY <1>1, <1>2 DEF TypeOK
<1>3. pc[t] # "scan" => series[t] \in Series /\ query.l2Square[series[t]] \in Distance
  BY <1>1, SeriesInRange DEF InRange
<1>4. query \in Queries /\ \A s \in Series : query.l2Square[s] \in Distance
  BY QueryFacts DEF TypeOK
<1>5. CASE CheckSeries(t)
  <2>1. series[t] + 1 \in 0 .. DatabaseSize
    BY <1>1, <1>5, SeriesInRange, ConstantFacts DEF CheckSeries
  <2> QED BY <1>5, <2>1 DEF CheckSeries, answer, scan, TypeOK, Labels
<1>6. CASE LeaveLeaf(t)
  <2>1. t # Main => index[t] < stop[t] /\ stop[t] \in 0 .. NumLeaves /\ index[t] \in 0 .. NumLeaves
    BY <1>1, <1>6 DEF InRange, TypeOK, Scanners
  <2>2. t # Main => index[t] + 1 \in 0 .. NumLeaves
    BY <2>1, ConstantFacts
  <2> QED BY <1>6, <2>2 DEF LeaveLeaf, answer, scan, TypeOK, Labels
<1>7. CASE AddAnswer(t)
  <2>1. top' \in Distance \cup {VALUE_MAX}
    BY <1>3, <1>7 DEF AddAnswer, TopWith, TypeOK
  <2>2. size' \in 0 .. K /\ held' \in SUBSET Series
    BY <1>3, <1>7, ConstantFacts DEF AddAnswer, TypeOK
  <2>3. index' = index /\ writer' = writer
    BY <1>7 DEF AddAnswer, Proceed
  <2> QED BY <1>7, <2>1, <2>2, <2>3, ProceedType DEF AddAnswer, TypeOK
<1>8. CASE ReplaceAnswer(t)
  BY <1>3, <1>8 DEF ReplaceAnswer, scan, TypeOK, Labels
<1>9. CASE Heapify(t)
  <2>1. top' \in Distance \cup {VALUE_MAX}
    BY <1>4, <1>9 DEF Heapify, TypeOK
  <2>2. index' = index /\ writer' = NoWriter /\ size' = size /\ held' = held
    BY <1>9 DEF Heapify, Proceed
  <2> QED BY <1>9, <2>1, <2>2, ProceedType DEF Heapify, TypeOK
<1>10. CASE KeepAnswers(t)
  <2>1. index' = index /\ writer' = writer /\ size' = size /\ held' = held /\ top' = top
    BY <1>10 DEF KeepAnswers, Proceed, answer
  <2> QED BY <1>10, <2>1, ProceedType DEF KeepAnswers, TypeOK
<1> QED BY <1>5, <1>6, <1>7, <1>8, <1>9, <1>10 DEF Scan

\* What a step of leafThread or queryThread leaves alone.
LEMMA WorkFrame ==
  ASSUME TypeOK, NEW t \in Threads, Work(t)
  PROVE  /\ UNCHANGED <<main, leaf_indices, counted, answer, writer>>
         /\ pc[t] \in {"claim", "measure", "read", "test"}
         /\ pc[t] # "measure" => UNCHANGED leaf_distances
         /\ pc[t] # "claim" => UNCHANGED shared_leaf_id
         /\ \A u \in Scanners \ {t} :
              /\ pc'[u] = pc[u] /\ index'[u] = index[u] /\ stop'[u] = stop[u]
              /\ thread_bsf'[u] = thread_bsf[u] /\ leaf_bsf'[u] = leaf_bsf[u]
              /\ series'[u] = series[u] /\ last'[u] = last[u]
<1> USE DEF TypeOK, scan, leaves
<1>0. t \in Scanners
  BY ConstantFacts
<1>1. CASE ClaimLeaves(t)
  BY <1>0, <1>1 DEF ClaimLeaves, ClaimBlock
<1>2. CASE MeasureLeaf(t)
  BY <1>0, <1>2 DEF MeasureLeaf
<1>3. CASE ClaimIndices(t)
  BY <1>0, <1>3 DEF ClaimIndices, ClaimBlock
<1>4. CASE ReadBSF(t)
  BY <1>0, <1>4 DEF ReadBSF
<1>5. CASE EnterLeaf(t)
  BY <1>0, <1>5 DEF EnterLeaf, Enter
<1>6. CASE Return(t)
  BY <1>0, <1>6 DEF Return
<1>7. CASE SkipLeaf(t)
  BY <1>0, <1>7 DEF SkipLeaf
<1>8. CASE NextBlock(t)
  BY <1>0, <1>8 DEF NextBlock
<1> QED BY <1>1, <1>2, <1>3, <1>4, <1>5, <1>6, <1>7, <1>8 DEF Work

\* A block that is claimed is not empty and inside the leaves.
LEMMA BlockFacts ==
  ASSUME TypeOK, NEW t \in Threads, NEW block \in Nat \ {0}, NEW label \in Labels,
         ClaimBlock(t, block, label)
  PROVE  /\ shared_leaf_id' \in Nat /\ shared_leaf_id' = shared_leaf_id + block
         /\ pc[t] = "claim"
         /\ shared_leaf_id < NumLeaves =>
              /\ index'[t] = shared_leaf_id /\ pc'[t] = label
              /\ stop'[t] \in 0 .. NumLeaves /\ index'[t] < stop'[t]
              /\ stop'[t] <= shared_leaf_id'
              /\ \A p \in Leaves : shared_leaf_id <= p /\ p < shared_leaf_id' => p < stop'[t]
         /\ ~(shared_leaf_id < NumLeaves) => UNCHANGED <<index, stop>> /\ pc'[t] = "idle"
         /\ index' \in [Scanners -> 0 .. NumLeaves] /\ stop' \in [Scanners -> 0 .. NumLeaves]
         /\ pc' \in [Scanners -> Labels]
<1> USE DEF ClaimBlock
<1>1. shared_leaf_id' \in Nat /\ shared_leaf_id' = shared_leaf_id + block /\ t \in Scanners
  BY ConstantFacts DEF TypeOK
<1>2. CASE shared_leaf_id < NumLeaves
  <2>1. /\ BlockStop(block) \in 0 .. NumLeaves /\ shared_leaf_id < BlockStop(block)
        /\ BlockStop(block) <= shared_leaf_id'
        /\ \A p \in Leaves : p < shared_leaf_id' => p < BlockStop(block)
    <3>1. shared_leaf_id \in Nat /\ NumLeaves \in Nat
      BY ConstantFacts DEF TypeOK
    <3>2. shared_leaf_id < shared_leaf_id + block
      BY <3>1
    <3>3. BlockStop(block) = IF shared_leaf_id + block < NumLeaves THEN shared_leaf_id + block
                                                                   ELSE NumLeaves
      BY DEF BlockStop, Min
    <3>4. \A p \in Leaves : p \in Nat /\ p < NumLeaves
      BY <3>1 DEF Leaves
    <3> HIDE DEF ClaimBlock
    <3> QED BY <1>1, <1>2, <3>1, <3>2, <3>3, <3>4
  <2>2. index' = [index EXCEPT ![t] = shared_leaf_id] /\ stop' = [stop EXCEPT ![t] = BlockStop(block)]
        /\ pc' = [pc EXCEPT ![t] = label] /\ shared_leaf_id \in 0 .. NumLeaves
    BY <1>2, ConstantFacts DEF TypeOK
  <2> QED BY <1>1, <1>2, <2>1, <2>2 DEF TypeOK
<1>3. CASE ~(shared_leaf_id < NumLeaves)
  BY <1>1, <1>3 DEF TypeOK, Labels
<1> QED BY <1>2, <1>3

LEMMA WorkType ==
  ASSUME TypeOK, Placed, InRange, NEW t \in Threads, Work(t)
  PROVE  TypeOK'
<1>1. /\ UNCHANGED <<config, phase, query, asked, node, local_bsf, leaf_indices, counted,
                     held, size, top, writer>>
  BY WorkFrame DEF main, answer
<1>2. t \in Scanners /\ t # Main
  BY ConstantFacts
<1>3. query \in Queries /\ \A l \in Leaves : query.leaf[l] \in Distance
  BY QueryFacts DEF TypeOK
<1> SUFFICES
      /\ leaf_distances' \in [Leaves -> Distance \cup {VALUE_MAX}]
      /\ shared_leaf_id' \in Nat
      /\ pc' \in [Scanners -> Labels]
      /\ index' \in [Scanners -> 0 .. NumLeaves]
      /\ stop' \in [Scanners -> 0 .. NumLeaves]
      /\ thread_bsf' \in [Scanners -> Distance \cup {VALUE_MAX}]
      /\ leaf_bsf' \in [Scanners -> Distance \cup {VALUE_MAX}]
      /\ series' \in [Scanners -> 0 .. DatabaseSize]
      /\ last' \in [Scanners -> 0 .. DatabaseSize]
  BY <1>1 DEF TypeOK
<1> USE DEF scan, leaves
<1>4. CASE ClaimLeaves(t)
  BY <1>4, BlockFacts, ConstantFacts DEF ClaimLeaves, ClaimBlock, TypeOK, Labels
<1>5. CASE MeasureLeaf(t)
  <2>1. index[t] < stop[t] /\ index[t] \in 0 .. NumLeaves /\ stop[t] \in 0 .. NumLeaves
    BY <1>2, <1>5 DEF InRange, MeasureLeaf, TypeOK
  <2>2. index[t] \in Leaves /\ index[t] + 1 \in 0 .. NumLeaves
    BY <2>1, ConstantFacts DEF Leaves
  <2> QED BY <1>3, <1>5, <2>2 DEF MeasureLeaf, TypeOK, Labels
<1>6. CASE ClaimIndices(t)
  BY <1>6, BlockFacts, ConstantFacts DEF ClaimIndices, ClaimBlock, TypeOK, Labels
<1>7. CASE ReadBSF(t)
  BY <1>7 DEF ReadBSF, TypeOK, Labels
<1>8. CASE EnterLeaf(t)
  <2>1. index[t] \in Leaves
    BY <1>2, <1>8, ConstantFacts DEF EnterLeaf, TypeOK, Leaves
  <2>2. leaf_indices[index[t]] \in Leaves
    BY <2>1 DEF TypeOK
  <2> QED BY <1>8, <2>2, LeafFacts DEF EnterLeaf, Enter, TypeOK, Labels
<1>9. CASE Return(t)
  BY <1>9 DEF Return, TypeOK, Labels
<1>10. CASE SkipLeaf(t)
  <2>1. index[t] + 1 \in 0 .. NumLeaves
    BY <1>2, <1>10, ConstantFacts DEF SkipLeaf, TypeOK
  <2> QED BY <1>10, <2>1 DEF SkipLeaf, TypeOK
<1>11. CASE NextBlock(t)
  BY <1>11 DEF NextBlock, TypeOK, Labels
<1> QED BY <1>4, <1>5, <1>6, <1>7, <1>8, <1>9, <1>10, <1>11 DEF Work

\* The locals of threads that have just been created.
LEMMA StartThreadsFacts ==
  ASSUME StartThreads
  PROVE  /\ shared_leaf_id' = 0 /\ counted' = counted
         /\ pc' \in [Scanners -> Labels] /\ pc'[Main] = "idle"
         /\ \A t \in Threads : pc'[t] = "claim"
         /\ index' \in [Scanners -> 0 .. NumLeaves]
         /\ stop' \in [Scanners -> 0 .. NumLeaves]
         /\ thread_bsf' \in [Scanners -> Distance \cup {VALUE_MAX}]
         /\ leaf_bsf' \in [Scanners -> Distance \cup {VALUE_MAX}]
         /\ series' \in [Scanners -> 0 .. DatabaseSize]
         /\ last' \in [Scanners -> 0 .. DatabaseSize]
BY ConstantFacts DEF StartThreads, Labels

LEMMA EnterType ==
  ASSUME TypeOK, NEW t \in Scanners, NEW l \in Leaves, Enter(t, l)
  PROVE  /\ leaf_bsf' \in [Scanners -> Distance \cup {VALUE_MAX}]
         /\ series' \in [Scanners -> 0 .. DatabaseSize]
         /\ last' \in [Scanners -> 0 .. DatabaseSize]
BY LeafFacts DEF Enter, TypeOK

LEMMA ConductType ==
  ASSUME TypeOK, Placed, InRange, ConductQueries
  PROVE  TypeOK'
<1> USE DEF main, leaves, answer, scan, NoThreads
<1>0. Main \in Scanners /\ 0 \in Leaves /\ NumLeaves - 1 \in Leaves
  BY ConstantFacts DEF Leaves
<1>1. CASE StartQuery
  <2>1. node' \in Leaves \cup {NoLeaf, EmptyLeaf}
    BY <1>1, QueryFacts DEF StartQuery, TypeOK
  <2>2. node' \in Leaves =>
          /\ leaf_bsf' \in [Scanners -> Distance \cup {VALUE_MAX}]
          /\ series' \in [Scanners -> 0 .. DatabaseSize]
          /\ last' \in [Scanners -> 0 .. DatabaseSize]
          /\ pc' \in [Scanners -> Labels]
    BY <1>0, <1>1, EnterType DEF StartQuery, TypeOK, Labels
  <2> QED BY <1>1, <2>1, <2>2 DEF StartQuery, TypeOK, Phases
<1>2. CASE MeasureLeaves
  <2>1. CASE StartThreads /\ phase' = "leaves"
    BY <1>2, <2>1, StartThreadsFacts DEF MeasureLeaves, TypeOK, Phases
  <2>2. CASE NoThreads /\ phase' = "report"
    BY <1>2, <2>2 DEF MeasureLeaves, TypeOK, Phases
  <2> QED BY <1>2, <2>1, <2>2 DEF MeasureLeaves
<1>3. CASE JoinLeaves
  <2>1. \A f \in [Leaves -> Leaves] : [j \in Leaves |-> leaf_indices[f[j]]] \in [Leaves -> Leaves]
    BY DEF TypeOK
  <2>2. leaf_indices' \in [Leaves -> Leaves]
    BY <1>3, <2>1 DEF JoinLeaves, SortedIndices, TypeOK
  <2> QED BY <1>3, <2>2 DEF JoinLeaves, TypeOK, Phases
<1>4. CASE SearchNearestLeaf
  <2>1. leaf_indices[0] \in Leaves
    BY <1>0 DEF TypeOK
  <2>2. /\ leaf_bsf' \in [Scanners -> Distance \cup {VALUE_MAX}]
        /\ series' \in [Scanners -> 0 .. DatabaseSize]
        /\ last' \in [Scanners -> 0 .. DatabaseSize]
    BY <1>0, <1>4, <2>1, EnterType DEF SearchNearestLeaf
  <2>3. pc' \in [Scanners -> Labels] /\ phase' \in Phases
        /\ leaf_distances' \in [Leaves -> Distance \cup {VALUE_MAX}]
    BY <1>4 DEF SearchNearestLeaf, TypeOK, Labels, Phases
  <2> QED BY <1>4, <2>1, <2>2, <2>3 DEF SearchNearestLeaf, TypeOK
<1>5. CASE NearestLeafSearched
  <2>1. \A j \in Leaves : (IF j = NumLeaves - 1 THEN 0 ELSE j + 1) \in Leaves
    BY ConstantFacts DEF Leaves
  <2>2. leaf_indices' \in [Leaves -> Leaves]
    BY <1>5, <2>1 DEF NearestLeafSearched, TypeOK
  <2>0. UNCHANGED <<config, query, asked, node, local_bsf, leaf_distances, held, size, top, writer>>
    BY <1>5 DEF NearestLeafSearched, answer
  <2>3. CASE StartThreads /\ phase' = "exact"
    BY <2>0, <2>2, <2>3, StartThreadsFacts DEF TypeOK, Phases
  <2>4. CASE NoThreads /\ phase' = "report"
    BY <2>0, <2>2, <2>4 DEF NoThreads, scan, TypeOK, Phases
  <2> QED BY <1>5, <2>3, <2>4 DEF NearestLeafSearched, StartExact
<1>6. CASE SearchExactly
  <2>0. UNCHANGED <<config, query, asked, node, local_bsf, leaf_indices, leaf_distances,
                    held, size, top, writer>>
    BY <1>6 DEF SearchExactly, answer, leaves
  <2>1. CASE StartThreads /\ phase' = "exact"
    BY <2>0, <2>1, StartThreadsFacts DEF TypeOK, Phases
  <2>2. CASE NoThreads /\ phase' = "report"
    BY <2>0, <2>2 DEF NoThreads, scan, TypeOK, Phases
  <2> QED BY <1>6, <2>1, <2>2 DEF SearchExactly, StartExact
<1>7. CASE JoinQuery
  BY <1>7 DEF JoinQuery, TypeOK, Phases
<1>8. CASE Report
  <2>1. asked + 1 \in 0 .. QuerySize
    BY <1>8, ConstantFacts DEF Report, TypeOK, Placed
  <2> QED BY <1>8, <2>1, ConstantFacts DEF Report, TypeOK, Phases
<1> QED BY <1>1, <1>2, <1>3, <1>4, <1>5, <1>6, <1>7, <1>8 DEF ConductQueries

----------------------------------------------------------------------------
(* AnswerInv is inductive *)

\* Where a scan goes on.
LEMMA ScanTarget ==
  ASSUME TypeOK, NEW t \in Scanners, Scan(t)
  PROVE  /\ t = Main => pc'[t] \in Scanning \cup {"idle"}
         /\ t # Main => pc'[t] \in Scanning \cup {"test"}
<1> USE DEF Scanning, TypeOK
<1>1. CASE CheckSeries(t)
  BY <1>1 DEF CheckSeries
<1>2. CASE LeaveLeaf(t)
  BY <1>2 DEF LeaveLeaf
<1>3. CASE AddAnswer(t)
  BY <1>3 DEF AddAnswer, Proceed
<1>4. CASE ReplaceAnswer(t)
  BY <1>4 DEF ReplaceAnswer
<1>5. CASE Heapify(t)
  BY <1>5 DEF Heapify, Proceed
<1>6. CASE KeepAnswers(t)
  BY <1>6 DEF KeepAnswers, Proceed
<1> QED BY <1>1, <1>2, <1>3, <1>4, <1>5, <1>6 DEF Scan

\* Where leafThread and queryThread go on.
LEMMA WorkTarget ==
  ASSUME TypeOK, Placed, NEW t \in Threads, Work(t)
  PROVE  /\ phase \in {"leaves", "exact"}
         /\ phase = "leaves" => pc'[t] \in {"idle", "claim", "measure"}
         /\ phase = "exact" => pc'[t] \in {"idle", "claim"} \cup Busy
<1> USE DEF Scanning, Busy, TypeOK, Placed
<1>0. t \in Scanners
  BY ConstantFacts
<1>1. CASE ClaimLeaves(t)
  BY <1>0, <1>1 DEF ClaimLeaves, ClaimBlock
<1>2. CASE MeasureLeaf(t)
  BY <1>0, <1>2 DEF MeasureLeaf
<1>3. CASE ClaimIndices(t)
  BY <1>0, <1>3 DEF ClaimIndices, ClaimBlock
<1>4. CASE ReadBSF(t)
  BY <1>0, <1>4 DEF ReadBSF
<1>5. CASE EnterLeaf(t)
  BY <1>0, <1>5 DEF EnterLeaf
<1>6. CASE Return(t)
  BY <1>0, <1>6 DEF Return
<1>7. CASE SkipLeaf(t)
  BY <1>0, <1>7 DEF SkipLeaf
<1>8. CASE NextBlock(t)
  BY <1>0, <1>8 DEF NextBlock
<1> QED BY <1>1, <1>2, <1>3, <1>4, <1>5, <1>6, <1>7, <1>8 DEF Work

LEMMA ScanPlaced ==
  ASSUME TypeOK, Placed, NEW t \in Scanners, Scan(t)
  PROVE  Placed'
<1>1. /\ phase' = phase /\ asked' = asked
      /\ pc[t] \in Scanning
      /\ t = Main => pc'[t] \in Scanning \cup {"idle"}
      /\ t # Main => pc'[t] \in Scanning \cup {"test"}
      /\ \A u \in Scanners \ {t} : pc'[u] = pc[u]
  BY ScanFrame, ScanTarget DEF main
<1>2. t # Main => t \in Threads
  BY DEF Scanners
<1> QED BY <1>1, <1>2, ConstantFacts DEF Placed, Scanning, Busy

LEMMA WorkPlaced ==
  ASSUME TypeOK, Placed, NEW t \in Threads, Work(t)
  PROVE  Placed'
<1>1. /\ phase' = phase /\ asked' = asked
      /\ \A u \in Scanners \ {t} : pc'[u] = pc[u]
  BY WorkFrame DEF main
<1> QED BY <1>1, WorkTarget, ConstantFacts DEF Placed

\* Who is idle, by the phase.
LEMMA IdleByPhase ==
  ASSUME TypeOK, Placed
  PROVE  /\ phase \notin {"leaves", "exact"} => \A t \in Threads : pc[t] = "idle"
         /\ phase \notin {"resident", "nearest"} => pc[Main] = "idle"
BY DEF Placed

LEMMA ConductPlaced ==
  ASSUME TypeOK, Placed, ConductQueries
  PROVE  Placed'
<1> USE IdleByPhase, ConstantFacts DEF NoThreads, Placed, Scanning, Busy, Joined
<1>1. CASE StartQuery
  BY <1>1 DEF StartQuery, TypeOK
<1>2. CASE MeasureLeaves
  BY <1>2, StartThreadsFacts DEF MeasureLeaves
<1>3. CASE JoinLeaves
  BY <1>3 DEF JoinLeaves
<1>4. CASE SearchNearestLeaf
  BY <1>4 DEF SearchNearestLeaf, TypeOK
<1>5. CASE NearestLeafSearched
  BY <1>5, StartThreadsFacts DEF NearestLeafSearched, StartExact
<1>6. CASE SearchExactly
  BY <1>6, StartThreadsFacts DEF SearchExactly, StartExact
<1>7. CASE JoinQuery
  BY <1>7 DEF JoinQuery
<1>8. CASE Report
  BY <1>8 DEF Report
<1> QED BY <1>1, <1>2, <1>3, <1>4, <1>5, <1>6, <1>7, <1>8 DEF ConductQueries

LEMMA ScanInRange ==
  ASSUME TypeOK, InRange, NEW t \in Scanners, Scan(t)
  PROVE  InRange'
<1>1. /\ UNCHANGED <<node, leaf_indices, stop, last>>
      /\ pc[t] \in Scanning
      /\ t = Main => UNCHANGED index
      /\ t # Main => pc'[t] \in Scanning \cup {"test"}
      /\ \A u \in Scanners \ {t} : /\ pc'[u] = pc[u] /\ index'[u] = index[u]
                                   /\ series'[u] = series[u]
  BY ScanFrame, ScanTarget DEF main, leaves
<1>2. \A u \in Scanners \ {t} : LeafOf(u)' = LeafOf(u)
  BY <1>1 DEF LeafOf
<1>3. pc'[t] \in Scanning =>
        /\ index' = index
        /\ series[t] <= series'[t] /\ series'[t] <= last[t]
        /\ pc'[t] # "scan" => series'[t] < last[t]
  <2>1. series[t] \in Nat /\ last[t] \in Nat /\ series[t] <= last[t]
        /\ (pc[t] # "scan" => series[t] < last[t])
    BY <1>1, SeriesInRange DEF InRange
  <2> USE <2>1 DEF TypeOK, Scanning
  <2>2. CASE CheckSeries(t)
    BY <2>2 DEF CheckSeries
  <2>3. CASE LeaveLeaf(t)
    BY <2>3 DEF LeaveLeaf
  <2>4. CASE AddAnswer(t)
    BY <2>4 DEF AddAnswer, Proceed
  <2>5. CASE ReplaceAnswer(t)
    BY <2>5 DEF ReplaceAnswer, scan
  <2>6. CASE Heapify(t)
    BY <2>6 DEF Heapify, Proceed
  <2>7. CASE KeepAnswers(t)
    BY <2>7 DEF KeepAnswers, Proceed
  <2> QED BY <2>2, <2>3, <2>4, <2>5, <2>6, <2>7 DEF Scan
<1>4. pc'[t] \in Scanning => LeafOf(t)' = LeafOf(t)
  BY <1>1, <1>3 DEF LeafOf
<1>5. pc'[t] \in Scanning =>
        /\ LeafOf(t)' \in Leaves
        /\ StartId[LeafOf(t)'] <= series'[t] /\ series'[t] <= last'[t]
        /\ last'[t] = StartId[LeafOf(t)' + 1]
        /\ pc'[t] # "scan" => series'[t] < last'[t]
  <2>1. /\ LeafOf(t) \in Leaves
        /\ StartId[LeafOf(t)] <= series[t] /\ last[t] = StartId[LeafOf(t) + 1]
        /\ StartId[LeafOf(t)] \in Nat /\ series[t] \in Nat
    BY <1>1, SeriesInRange, LeafFacts
  <2>2. series'[t] \in Nat
    BY ScanType DEF TypeOK
  <2>3. pc'[t] \in Scanning => StartId[LeafOf(t)] <= series'[t]
    BY <1>3, <2>1, <2>2
  <2> QED BY <1>1, <1>3, <1>4, <2>1, <2>3
<1>6. \A u \in Threads : pc'[u] \in {"measure"} \cup Scanning => index'[u] < stop'[u]
  <2>1. t \in Threads /\ pc'[t] \in {"measure"} \cup Scanning => index'[t] < stop'[t]
    BY <1>1, <1>3, ConstantFacts DEF InRange, Scanning
  <2> QED BY <1>1, <2>1, ConstantFacts DEF InRange
<1> QED BY <1>1, <1>2, <1>5, <1>6 DEF InRange

LEMMA WorkInRange ==
  ASSUME TypeOK, InRange, NEW t \in Threads, Work(t)
  PROVE  InRange'
<1>0. t \in Scanners /\ t # Main
  BY ConstantFacts
<1>1. /\ UNCHANGED <<node, leaf_indices>>
      /\ pc[t] \notin Scanning
      /\ \A u \in Scanners \ {t} : /\ pc'[u] = pc[u] /\ index'[u] = index[u] /\ stop'[u] = stop[u]
                                   /\ series'[u] = series[u] /\ last'[u] = last[u]
  BY WorkFrame DEF main, Scanning
<1>2. \A u \in Scanners \ {t} : LeafOf(u)' = LeafOf(u)
  BY <1>1 DEF LeafOf
<1>3. /\ pc'[t] \in {"measure"} \cup Scanning => index'[t] < stop'[t]
      /\ pc'[t] \in Scanning =>
        /\ LeafOf(t)' \in Leaves
        /\ StartId[LeafOf(t)'] <= series'[t] /\ series'[t] <= last'[t]
        /\ last'[t] = StartId[LeafOf(t)' + 1]
        /\ pc'[t] = "scan"
  <2> USE <1>0 DEF TypeOK, Scanning
  <2>1. CASE ClaimLeaves(t)
    BY <2>1, BlockFacts, ConstantFacts DEF ClaimLeaves, Labels
  <2>2. CASE MeasureLeaf(t)
    BY <2>2 DEF MeasureLeaf
  <2>3. CASE ClaimIndices(t)
    BY <2>3, BlockFacts, ConstantFacts DEF ClaimIndices, Labels
  <2>4. CASE ReadBSF(t)
    BY <2>4 DEF ReadBSF
  <2>5. CASE EnterLeaf(t)
    <3>1. index[t] \in Leaves
      BY <2>5, ConstantFacts DEF EnterLeaf, Leaves
    <3>2. leaf_indices[index[t]] \in Leaves /\ LeafOf(t)' = leaf_indices[index[t]]
      BY <2>5, <3>1 DEF EnterLeaf, LeafOf, leaves
    <3>3. /\ pc'[t] = "scan" /\ index'[t] < stop'[t]
          /\ series'[t] = StartId[leaf_indices[index[t]]]
          /\ last'[t] = StartId[leaf_indices[index[t]] + 1]
      BY <2>5 DEF EnterLeaf, Enter
    <3> QED BY <3>2, <3>3, LeafFacts
  <2>6. CASE Return(t)
    BY <2>6 DEF Return
  <2>7. CASE SkipLeaf(t)
    BY <2>7 DEF SkipLeaf
  <2>8. CASE NextBlock(t)
    BY <2>8 DEF NextBlock
  <2> QED BY <2>1, <2>2, <2>3, <2>4, <2>5, <2>6, <2>7, <2>8 DEF Work
<1>4. \A u \in Threads : pc'[u] \in {"measure"} \cup Scanning => index'[u] < stop'[u]
  BY <1>1, <1>3, ConstantFacts DEF InRange
<1> QED BY <1>0, <1>1, <1>2, <1>3, <1>4 DEF InRange

\* The main thread enters a leaf while no other thread is at work.
LEMMA EnterInRange ==
  ASSUME TypeOK, NEW l \in Leaves, Enter(Main, l), node' = l,
         pc' = [pc EXCEPT ![Main] = "scan"], \A t \in Threads : pc[t] = "idle"
  PROVE  InRange'
<1>1. \A t \in Threads : pc'[t] = "idle"
  BY ConstantFacts DEF TypeOK
<1>2. LeafOf(Main)' = l
  BY DEF LeafOf
<1>3. series'[Main] = StartId[l] /\ last'[Main] = StartId[l + 1] /\ pc'[Main] = "scan"
  BY ConstantFacts DEF Enter, TypeOK
<1> QED BY <1>1, <1>2, <1>3, LeafFacts, ConstantFacts DEF InRange, Scanning

\* Nobody is at work.
LEMMA IdleInRange ==
  ASSUME \A t \in Scanners : pc[t] \in {"idle", "claim"}
  PROVE  InRange
BY ConstantFacts DEF InRange, Scanning

LEMMA ConductInRange ==
  ASSUME TypeOK, Placed, ConductQueries
  PROVE  InRange'
<1> DEFINE Quiet == \A t \in Scanners : pc[t] \in {"idle", "claim"}
<1>0. Quiet' => InRange'
  BY IdleInRange, ConstantFacts DEF InRange, Scanning
<1>1. CASE StartQuery
  <2>1. \A t \in Scanners : pc[t] = "idle"
    BY <1>1, IdleByPhase DEF StartQuery, Scanners
  <2>2. CASE node' \in Leaves
    BY <1>1, <2>1, <2>2, EnterInRange, ConstantFacts DEF StartQuery
  <2>3. CASE node' \notin Leaves
    BY <1>0, <1>1, <2>1, <2>3 DEF StartQuery
  <2> QED BY <2>2, <2>3
<1>2. CASE MeasureLeaves
  BY <1>0, <1>2, StartThreadsFacts DEF MeasureLeaves, NoThreads, Joined, Scanners
<1>3. CASE JoinLeaves
  BY <1>0, <1>3 DEF JoinLeaves, NoThreads, Joined
<1>4. CASE SearchNearestLeaf
  <2>1. leaf_indices[0] \in Leaves
    BY ConstantFacts DEF TypeOK, Leaves
  <2> QED BY <1>4, <2>1, IdleByPhase, EnterInRange DEF SearchNearestLeaf
<1>5. CASE NearestLeafSearched
  BY <1>0, <1>5, StartThreadsFacts DEF NearestLeafSearched, StartExact, NoThreads, Joined, Scanners
<1>6. CASE SearchExactly
  BY <1>0, <1>6, StartThreadsFacts, IdleByPhase DEF SearchExactly, StartExact, NoThreads, Scanners
<1>7. CASE JoinQuery
  BY <1>0, <1>7 DEF JoinQuery, NoThreads, Joined
<1>8. CASE Report
  BY <1>0, <1>8, IdleByPhase DEF Report, NoThreads, Scanners
<1> QED BY <1>1, <1>2, <1>3, <1>4, <1>5, <1>6, <1>7, <1>8 DEF ConductQueries

\* A step of a scan keeps or improves the nearest distance found: it removes a
\* series only for a nearer one.
LEMMA ScanKeepsNear ==
  ASSUME TypeOK, InRange, NEW t \in Scanners, Scan(t), NEW x \in Nat, Near(x)
  PROVE  Near(x)'
<1>1. query' = query /\ pc[t] \in Scanning
  BY ScanFrame DEF main
<1>2. PICK n \in held : query.l2Square[n] <= x
  BY DEF Near
<1>3. CASE CheckSeries(t) \/ LeaveLeaf(t) \/ KeepAnswers(t) \/ Heapify(t)
  BY <1>1, <1>2, <1>3 DEF CheckSeries, LeaveLeaf, KeepAnswers, Heapify, answer, Near
<1>4. CASE AddAnswer(t)
  BY <1>1, <1>2, <1>4 DEF AddAnswer, Near
<1>5. CASE ReplaceAnswer(t)
  <2>1. PICK worst \in Worst : held' = (held \ {worst}) \cup {series[t]}
    BY <1>5 DEF ReplaceAnswer
  <2>2. query.l2Square[worst] = top /\ query.l2Square[series[t]] < top
    BY <1>5, <2>1 DEF ReplaceAnswer, Worst
  <2>3. query.l2Square[series[t]] \in Nat /\ top \in Nat
    BY <1>1, <1>5, SeriesInRange, ConstantFacts DEF ReplaceAnswer, InRange, TypeOK, Distance
  <2>4. CASE n = worst
    BY <1>1, <1>2, <2>1, <2>2, <2>3, <2>4 DEF Near
  <2>5. CASE n # worst
    BY <1>1, <1>2, <2>1, <2>5 DEF Near
  <2> QED BY <2>4, <2>5
<1> QED BY <1>3, <1>4, <1>5 DEF Scan

\* What conductQueries leaves alone before it reports.
LEMMA ConductFrame ==
  ASSUME ConductQueries
  PROVE  /\ config' = config /\ writer' = writer
         /\ phase # "report" => UNCHANGED <<query, asked, answer>>
BY DEF ConductQueries, StartQuery, MeasureLeaves, JoinLeaves, SearchNearestLeaf,
       NearestLeafSearched, SearchExactly, JoinQuery, Report

\* While a query lasts, the nearest distance found never gets worse.
LEMMA NearKept ==
  ASSUME TypeOK, InRange, [Next]_vars, phase # "report", NEW x \in Nat, Near(x)
  PROVE  Near(x)'
<1>1. CASE ConductQueries
  BY <1>1, ConductFrame DEF answer, Near
<1>2. CASE UNCHANGED vars
  BY <1>2 DEF vars, main, answer, Near
<1>3. CASE \E t \in Scanners : Scan(t)
  BY <1>3, ScanKeepsNear
<1>4. CASE \E t \in Threads : Work(t)
  BY <1>4, WorkFrame DEF main, answer, Near
<1> QED BY <1>1, <1>2, <1>3, <1>4 DEF Next, Terminated

LEMMA ScanFresh ==
  ASSUME TypeOK, Placed, InRange, FreshAnswer, NEW t \in Scanners, Scan(t)
  PROVE  FreshAnswer'
<1>1. phase' = phase /\ local_bsf' = local_bsf /\ pc[t] \in Scanning
  BY ScanFrame DEF main
<1>2. phase # "start"
  BY <1>1, IdleByPhase DEF Scanning, Scanners
<1>3. size' = 0 <=> held' = {}
  <2>1. CASE CheckSeries(t) \/ LeaveLeaf(t) \/ KeepAnswers(t) \/ Heapify(t)
    BY <2>1 DEF CheckSeries, LeaveLeaf, KeepAnswers, Heapify, answer, FreshAnswer
  <2>2. CASE AddAnswer(t)
    BY <2>2 DEF AddAnswer, TypeOK
  <2>3. CASE ReplaceAnswer(t)
    BY <2>3, ConstantFacts DEF ReplaceAnswer, TypeOK
  <2> QED BY <2>1, <2>2, <2>3 DEF Scan
<1> QED BY <1>1, <1>2, <1>3 DEF FreshAnswer

LEMMA ConductFresh ==
  ASSUME TypeOK, FreshAnswer, BoundIsWorstHeld, ConductQueries
  PROVE  FreshAnswer'
<1>1. CASE StartQuery
  BY <1>1 DEF StartQuery, FreshAnswer, BoundIsWorstHeld, answer
<1>2. CASE Report
  BY <1>2 DEF Report, FreshAnswer
<1>3. CASE MeasureLeaves \/ JoinLeaves \/ SearchNearestLeaf \/ NearestLeafSearched
           \/ SearchExactly \/ JoinQuery
  BY <1>3 DEF MeasureLeaves, JoinLeaves, SearchNearestLeaf, NearestLeafSearched, SearchExactly,
              JoinQuery, StartExact, FreshAnswer, answer
<1> QED BY <1>1, <1>2, <1>3 DEF ConductQueries

LEMMA ScanWorstHeld ==
  ASSUME TypeOK, Placed, InRange, FreshAnswer, BoundIsWorstHeld, NEW t \in Scanners, Scan(t)
  PROVE  BoundIsWorstHeld'
<1>1. query' = query /\ pc[t] \in Scanning
  BY ScanFrame DEF main
<1>2. \A s \in held : query.l2Square[s] \in Nat
  BY QueryFacts DEF TypeOK
<1>3. CASE CheckSeries(t) \/ LeaveLeaf(t) \/ KeepAnswers(t)
  BY <1>1, <1>3 DEF CheckSeries, LeaveLeaf, KeepAnswers, answer, BoundIsWorstHeld
<1>4. CASE AddAnswer(t)
  <2> DEFINE distance == query.l2Square[series[t]]
  <2>1. distance \in Nat /\ top \in Nat
    BY <1>1, <1>4, SeriesInRange, ConstantFacts DEF AddAnswer, InRange, TypeOK, Distance
  <2>2. held' = held \cup {series[t]} /\ top' = TopWith(distance) /\ writer = NoWriter
    BY <1>4 DEF AddAnswer
  <2>3. CASE size = 0
    BY <1>1, <2>1, <2>2, <2>3 DEF TopWith, FreshAnswer, BoundIsWorstHeld
  <2>4. CASE size # 0
    <3>1. /\ \E s \in held : query.l2Square[s] = top
          /\ \A s \in held : query.l2Square[s] <= top
      BY <2>2, <2>4 DEF FreshAnswer, BoundIsWorstHeld
    <3>2. CASE top < distance
      BY <1>1, <1>2, <2>1, <2>2, <3>1, <3>2 DEF TopWith, BoundIsWorstHeld
    <3>3. CASE ~(top < distance)
      BY <1>1, <1>2, <2>1, <2>2, <2>4, <3>1, <3>3 DEF TopWith, BoundIsWorstHeld
    <3> QED BY <3>2, <3>3
  <2> QED BY <2>3, <2>4
<1>5. CASE ReplaceAnswer(t)
  BY <1>5, ConstantFacts DEF ReplaceAnswer, BoundIsWorstHeld
<1>6. CASE Heapify(t)
  <2>1. PICK worst \in held : /\ \A s \in held : query.l2Square[s] <= query.l2Square[worst]
                              /\ top' = query.l2Square[worst]
    BY <1>6 DEF Heapify
  <2> QED BY <1>1, <1>6, <2>1 DEF Heapify, BoundIsWorstHeld
<1> QED BY <1>3, <1>4, <1>5, <1>6 DEF Scan

LEMMA ConductWorstHeld ==
  ASSUME BoundIsWorstHeld, ConductQueries
  PROVE  BoundIsWorstHeld'
<1>1. CASE Report
  BY <1>1 DEF Report, BoundIsWorstHeld
<1>2. CASE ~Report
  BY <1>2, ConductFrame DEF ConductQueries, StartQuery, MeasureLeaves, JoinLeaves, SearchNearestLeaf,
       NearestLeafSearched, SearchExactly, JoinQuery, answer, BoundIsWorstHeld
<1> QED BY <1>1, <1>2

\* The top entry is known whoever reads it: its series is held.
LEMMA ScanTopKnown ==
  ASSUME TypeOK, InRange, Known(top), NEW t \in Scanners, Scan(t)
  PROVE  Known(top)'
<1>1. query' = query /\ pc[t] \in Scanning
  BY ScanFrame DEF main
<1>2. \A s \in held : query.l2Square[s] \in Nat
  BY QueryFacts DEF TypeOK
<1>3. /\ \A x \in Nat : Near(x) => Near(x)'
      /\ top \in Nat /\ (top # VALUE_MAX => Near(top))
  BY ScanKeepsNear, ConstantFacts DEF TypeOK, Known, Distance
<1>4. CASE CheckSeries(t) \/ LeaveLeaf(t) \/ KeepAnswers(t)
  BY <1>1, <1>4 DEF CheckSeries, LeaveLeaf, KeepAnswers, answer, Known, Near
<1>5. CASE AddAnswer(t) \/ ReplaceAnswer(t)
  <2>1. query.l2Square[series[t]] \in Nat /\ series[t] \in held'
    BY <1>1, <1>5, SeriesInRange, ConstantFacts
       DEF AddAnswer, ReplaceAnswer, InRange, TypeOK, Distance
  <2>2. top' = query.l2Square[series[t]] \/ top' = top
    BY <1>5 DEF AddAnswer, ReplaceAnswer, TopWith
  <2> QED BY <1>1, <1>3, <2>1, <2>2 DEF Known, Near
<1>6. CASE Heapify(t)
  BY <1>1, <1>2, <1>6 DEF Heapify, Known, Near
<1> QED BY <1>4, <1>5, <1>6 DEF Scan

LEMMA ScanKnown ==
  ASSUME TypeOK, Placed, InRange, BoundsKnown, NEW t \in Scanners, Scan(t)
  PROVE  BoundsKnown'
<1>1. /\ thread_bsf' = thread_bsf
      /\ pc[t] \in Scanning
      /\ t # Main => pc'[t] \in Scanning \cup {"test"}
      /\ \A u \in Scanners \ {t} : pc'[u] = pc[u] /\ leaf_bsf'[u] = leaf_bsf[u]
  BY ScanFrame, ScanTarget DEF main
<1>2. \A x \in Nat : Near(x) => Near(x)'
  BY ScanKeepsNear
<1>3. Known(top)'
  BY ScanTopKnown DEF BoundsKnown
<1>4. \A u \in Scanners : thread_bsf[u] \in Nat /\ leaf_bsf[u] \in Nat
  BY ConstantFacts DEF TypeOK, Distance
<1>5. \A u \in Threads : pc'[u] \in {"test"} \cup Scanning => Known(thread_bsf[u])'
  <2> SUFFICES ASSUME NEW u \in Threads, pc'[u] \in {"test"} \cup Scanning
               PROVE  Known(thread_bsf[u])'
    OBVIOUS
  <2>1. pc[u] \in {"test"} \cup Scanning
    BY <1>1, ConstantFacts
  <2>2. Known(thread_bsf[u])
    BY <2>1 DEF BoundsKnown
  <2> QED BY <1>1, <1>2, <1>4, <2>2, ConstantFacts DEF Known, Near
<1>6. \A u \in Scanners \ {t} : pc'[u] \in Scanning => Known(leaf_bsf[u])'
  BY <1>1, <1>2, <1>4 DEF BoundsKnown, Known, Near
<1>7. pc'[t] \in Scanning => Known(leaf_bsf[t])'
  <2>1. CASE CheckSeries(t) \/ LeaveLeaf(t) \/ ReplaceAnswer(t)
    BY <1>1, <1>2, <1>4, <2>1 DEF CheckSeries, LeaveLeaf, ReplaceAnswer, scan, BoundsKnown, Known, Near
  <2>2. CASE AddAnswer(t) \/ KeepAnswers(t) \/ Heapify(t)
    <3>1. leaf_bsf'[t] = top'
      BY <2>2 DEF AddAnswer, KeepAnswers, Heapify, Proceed, TypeOK
    <3> QED BY <1>3, <3>1 DEF Known, Near
  <2> QED BY <2>1, <2>2 DEF Scan
<1> QED BY <1>3, <1>5, <1>6, <1>7 DEF BoundsKnown

LEMMA WorkKnown ==
  ASSUME TypeOK, InRange, BoundsKnown, NEW t \in Threads, Work(t)
  PROVE  BoundsKnown'
<1>0. t \in Scanners /\ t # Main
  BY ConstantFacts
<1>1. /\ UNCHANGED <<query, held, top>>
      /\ \A u \in Scanners \ {t} : /\ pc'[u] = pc[u] /\ leaf_bsf'[u] = leaf_bsf[u]
                                   /\ thread_bsf'[u] = thread_bsf[u]
  BY WorkFrame DEF main, answer
<1>2. /\ Known(top)
      /\ pc'[t] \in {"test"} \cup Scanning => Known(thread_bsf[t])'
      /\ pc'[t] \in Scanning => Known(leaf_bsf[t])'
  <2> USE <1>0, <1>1 DEF TypeOK, Scanning, BoundsKnown, Known, Near
  <2>1. CASE ClaimLeaves(t)
    BY <2>1 DEF ClaimLeaves, ClaimBlock
  <2>2. CASE MeasureLeaf(t)
    BY <2>2 DEF MeasureLeaf
  <2>3. CASE ClaimIndices(t)
    BY <2>3 DEF ClaimIndices, ClaimBlock
  <2>4. CASE ReadBSF(t)
    BY <2>4 DEF ReadBSF
  <2>5. CASE EnterLeaf(t)
    BY <2>5 DEF EnterLeaf, Enter
  <2>6. CASE Return(t)
    BY <2>6 DEF Return
  <2>7. CASE SkipLeaf(t)
    BY <2>7 DEF SkipLeaf
  <2>8. CASE NextBlock(t)
    BY <2>8 DEF NextBlock
  <2> QED BY <2>1, <2>2, <2>3, <2>4, <2>5, <2>6, <2>7, <2>8 DEF Work
<1>3. \A u \in Scanners \ {t} : Known(leaf_bsf[u])' = Known(leaf_bsf[u])
                                /\ Known(thread_bsf[u])' = Known(thread_bsf[u])
  BY <1>1 DEF Known, Near
<1>4. Known(top)' = Known(top)
  BY <1>1 DEF Known, Near
<1> QED BY <1>0, <1>1, <1>2, <1>3, <1>4, ConstantFacts DEF BoundsKnown

LEMMA ConductKnown ==
  ASSUME TypeOK, Placed, BoundsKnown, ConductQueries
  PROVE  BoundsKnown'
<1> DEFINE Quiet == \A t \in Scanners : pc[t] \in {"idle", "claim"}
<1>0. Quiet' /\ Known(top)' => BoundsKnown'
  BY ConstantFacts DEF BoundsKnown, Scanning
<1>1. Known(top)'
  <2>1. CASE Report
    BY <2>1 DEF Report, Known
  <2>2. CASE ~Report
    BY <2>2, ConductFrame DEF ConductQueries, StartQuery, MeasureLeaves, JoinLeaves, SearchNearestLeaf,
       NearestLeafSearched, SearchExactly, JoinQuery, answer, BoundsKnown, Known, Near
  <2> QED BY <2>1, <2>2
<1>2. \A l \in Leaves : Enter(Main, l) /\ pc' = [pc EXCEPT ![Main] = "scan"] /\ top' = top
                          /\ (\A t \in Threads : pc[t] = "idle") => BoundsKnown'
  <2> SUFFICES ASSUME NEW l \in Leaves, Enter(Main, l), pc' = [pc EXCEPT ![Main] = "scan"],
                      top' = top, \A t \in Threads : pc[t] = "idle"
               PROVE  BoundsKnown'
    OBVIOUS
  <2>1. \A t \in Threads : pc'[t] = "idle"
    BY ConstantFacts DEF TypeOK
  <2>2. leaf_bsf'[Main] = top'
    BY ConstantFacts DEF Enter, TypeOK
  <2>3. Known(leaf_bsf[Main])'
    BY <1>1, <2>2 DEF Known, Near
  <2> QED BY <1>1, <2>1, <2>3, ConstantFacts DEF BoundsKnown, Scanning
<1>3. CASE StartQuery
  <2>1. \A t \in Scanners : pc[t] = "idle"
    BY <1>3, IdleByPhase DEF StartQuery, Scanners
  <2>2. CASE node' \in Leaves
    BY <1>2, <1>3, <2>1, <2>2, ConstantFacts DEF StartQuery, answer
  <2>3. CASE node' \notin Leaves
    BY <1>0, <1>1, <1>3, <2>1, <2>3 DEF StartQuery
  <2> QED BY <2>2, <2>3
<1>4. CASE MeasureLeaves
  BY <1>0, <1>1, <1>4, StartThreadsFacts DEF MeasureLeaves, NoThreads, Joined, Scanners
<1>5. CASE JoinLeaves
  BY <1>0, <1>1, <1>5 DEF JoinLeaves, NoThreads, Joined
<1>6. CASE SearchNearestLeaf
  <2>1. leaf_indices[0] \in Leaves
    BY ConstantFacts DEF TypeOK, Leaves
  <2> QED BY <1>2, <1>6, <2>1, IdleByPhase DEF SearchNearestLeaf, answer
<1>7. CASE NearestLeafSearched
  BY <1>0, <1>1, <1>7, StartThreadsFacts DEF NearestLeafSearched, StartExact, NoThreads, Joined, Scanners
<1>8. CASE SearchExactly
  BY <1>0, <1>1, <1>8, StartThreadsFacts, IdleByPhase DEF SearchExactly, StartExact, NoThreads, Scanners
<1>9. CASE JoinQuery
  BY <1>0, <1>1, <1>9 DEF JoinQuery, NoThreads, Joined
<1>10. CASE Report
  BY <1>0, <1>1, <1>10, IdleByPhase DEF Report, NoThreads, Scanners
<1> QED BY <1>3, <1>4, <1>5, <1>6, <1>7, <1>8, <1>9, <1>10 DEF ConductQueries

LEMMA AnswerInvInit ==
  Init => AnswerInv
<1> SUFFICES ASSUME Init PROVE AnswerInv
  OBVIOUS
<1>1. TypeOK
  BY ConstantFacts DEF Init, TypeOK, Phases, Labels
<1>2. Placed /\ FreshAnswer /\ BoundIsWorstHeld
  BY ConstantFacts DEF Init, Placed, FreshAnswer, BoundIsWorstHeld
<1>3. InRange /\ BoundsKnown
  BY ConstantFacts DEF Init, InRange, BoundsKnown, Known, Scanning
<1> QED BY <1>1, <1>2, <1>3 DEF AnswerInv

LEMMA AnswerInvNext ==
  AnswerInv /\ [Next]_vars => AnswerInv'
<1> SUFFICES ASSUME AnswerInv, [Next]_vars PROVE AnswerInv'
  OBVIOUS
<1> USE DEF AnswerInv
<1>1. CASE ConductQueries
  BY <1>1, ConductType, ConductPlaced, ConductInRange, ConductFresh, ConductWorstHeld, ConductKnown
<1>2. CASE UNCHANGED vars
  BY <1>2 DEF vars, main, leaves, answer, scan, TypeOK, Placed, InRange, LeafOf, FreshAnswer,
              BoundIsWorstHeld, BoundsKnown, Known, Near
<1>3. ASSUME NEW t \in Scanners, Scan(t) PROVE AnswerInv'
  BY <1>3, ScanType, ScanPlaced, ScanInRange, ScanFresh, ScanWorstHeld, ScanKnown
<1>4. ASSUME NEW t \in Threads, Work(t) PROVE AnswerInv'
  <2>1. TypeOK' /\ Placed' /\ InRange' /\ BoundsKnown'
    BY <1>4, WorkType, WorkPlaced, WorkInRange, WorkKnown
  <2>2. FreshAnswer' /\ BoundIsWorstHeld'
    BY <1>4, WorkFrame DEF main, answer, FreshAnswer, BoundIsWorstHeld
  <2> QED BY <2>1, <2>2
<1> QED BY <1>1, <1>2, <1>3, <1>4 DEF Next, Terminated

LEMMA AnswerInvHolds == Spec => []AnswerInv
BY AnswerInvInit, AnswerInvNext, PTL DEF Spec

\* Whatever the distances, the settings and the interleaving, the variables keep
\* their types, and the bound that queries read off the answer is the distance
\* of its worst series but between checkNUpdateBSF's two writes (answer.c).
THEOREM TypeCorrect == Spec => []TypeOK
BY AnswerInvHolds, PTL DEF AnswerInv

THEOREM BoundHolds == Spec => []BoundIsWorstHeld
BY AnswerInvHolds, PTL DEF AnswerInv

\* No thread, and no interleaving of threads, makes the nearest distance worse
\* before the query is reported: checkNUpdateBSF looks again under the lock.
THEOREM Improves == Spec => AnswersOnlyImprove
<1>1. AnswerInv /\ [Next]_vars =>
        \A s \in held : phase # "report" =>
          \E n \in held' : query.l2Square[n] <= query.l2Square[s]
  <2> SUFFICES ASSUME AnswerInv, [Next]_vars, NEW s \in held, phase # "report"
               PROVE  \E n \in held' : query.l2Square[n] <= query.l2Square[s]
    OBVIOUS
  <2>1. query.l2Square[s] \in Nat
    BY QueryFacts DEF AnswerInv, TypeOK
  <2>2. Near(query.l2Square[s])
    BY <2>1 DEF Near
  <2>3. \A x \in Nat : Near(x) => Near(x)'
    BY NearKept DEF AnswerInv
  <2>4. query' = query
    BY ConductFrame, ScanFrame, WorkFrame DEF AnswerInv, Next, Terminated, vars, main
  <2> QED BY <2>1, <2>2, <2>3, <2>4 DEF Near
<1>2. QED
  BY <1>1, AnswerInvHolds, PTL DEF Spec, AnswersOnlyImprove

----------------------------------------------------------------------------
(* LeavesInv is inductive *)

LEMMA LeavesInit ==
  Init => LeavesInv
<1> SUFFICES ASSUME Init PROVE LeavesInv
  OBVIOUS
<1>1. phase = "start" /\ \A l \in Leaves : leaf_indices[l] = l
  BY DEF Init
<1>2. IsOrder(leaf_indices)
  BY <1>1 DEF IsOrder
<1> QED BY <1>1, <1>2 DEF LeavesInv, LeavesMeasured, Ordered

LEMMA ScanLeaves ==
  ASSUME TypeOK, Placed, LeavesInv, NEW t \in Scanners, Scan(t)
  PROVE  LeavesInv'
<1>1. /\ UNCHANGED <<config, phase, query, node, leaf_indices, leaf_distances>>
      /\ pc[t] \in Scanning
  BY ScanFrame DEF main, leaves
<1>2. phase # "leaves"
  BY <1>1, ConstantFacts DEF Placed, Scanning
<1>3. \A l \in Leaves : Measured(l)' = Measured(l)
  BY <1>1 DEF Measured
<1> QED BY <1>1, <1>2, <1>3 DEF LeavesInv, LeavesMeasured, Ordered, IsOrder, Ascending

\* MeasureLeaf runs only while leaves are measured.
LEMMA MeasurePhase ==
  ASSUME TypeOK, Placed, NEW t \in Threads
  PROVE  /\ MeasureLeaf(t) => phase = "leaves"
         /\ Work(t) /\ phase = "leaves" => ClaimLeaves(t) \/ MeasureLeaf(t)
         /\ Work(t) /\ phase # "leaves" => UNCHANGED leaves
BY DEF Placed, Busy, Scanning, Work, MeasureLeaf, ClaimLeaves, ClaimIndices, ClaimBlock, ReadBSF,
       EnterLeaf, Return, SkipLeaf, NextBlock

LEMMA WorkMeasured ==
  ASSUME TypeOK, Placed, InRange, LeavesInv, NEW t \in Threads, Work(t)
  PROVE  LeavesMeasured'
<1>0. t \in Scanners
  BY ConstantFacts
<1>1. /\ UNCHANGED <<config, phase, query, node, leaf_indices>>
      /\ \A u \in Scanners \ {t} : pc'[u] = pc[u] /\ index'[u] = index[u] /\ stop'[u] = stop[u]
  BY WorkFrame DEF main
<1>2. CASE phase # "leaves"
  BY <1>1, <1>2, MeasurePhase DEF leaves, LeavesInv, LeavesMeasured, Measured
<1>3. CASE phase = "leaves" /\ ClaimLeaves(t)
  <2>1. /\ shared_leaf_id \in Nat /\ shared_leaf_id' \in Nat /\ shared_leaf_id < shared_leaf_id'
        /\ UNCHANGED leaf_distances /\ pc[t] = "claim"
        /\ shared_leaf_id < NumLeaves =>
              /\ index'[t] = shared_leaf_id /\ pc'[t] = "measure"
              /\ \A p \in Leaves : shared_leaf_id <= p /\ p < shared_leaf_id' => p < stop'[t]
        /\ ~(shared_leaf_id < NumLeaves) => pc'[t] = "idle"
    BY <1>3, BlockFacts, ConstantFacts DEF ClaimLeaves, Labels, TypeOK, ClaimBlock, leaves
  <2>2. \A l \in Leaves : Measured(l)' = Measured(l)
    BY <1>1, <2>1 DEF Measured
  <2>3. \A u \in Threads : pc'[u] = "idle" => shared_leaf_id' >= NumLeaves
    BY <1>0, <1>1, <1>3, <2>1, ConstantFacts DEF LeavesInv, LeavesMeasured
  <2>4. ASSUME NEW l \in Leaves
        PROVE  \/ Measured(l)' \/ l >= shared_leaf_id'
               \/ \E u \in Threads : pc'[u] = "measure" /\ index'[u] <= l /\ l < stop'[u]
    <3>0. l \in Nat /\ l < NumLeaves
      BY LeafFacts
    <3>1. CASE Measured(l)
      BY <2>2, <3>1
    <3>2. CASE l >= shared_leaf_id
      BY <2>1, <3>0, <3>2, ConstantFacts
    <3>3. CASE \E u \in Threads : pc[u] = "measure" /\ index[u] <= l /\ l < stop[u]
      <4>1. PICK u \in Threads : pc[u] = "measure" /\ index[u] <= l /\ l < stop[u]
        BY <3>3
      <4>2. u # t /\ u \in Scanners
        BY <2>1, <4>1, ConstantFacts
      <4> QED BY <1>1, <4>1, <4>2
    <3> QED BY <1>3, <3>1, <3>2, <3>3 DEF LeavesInv, LeavesMeasured
  <2> QED BY <1>1, <1>3, <2>3, <2>4 DEF LeavesMeasured
<1>4. CASE phase = "leaves" /\ MeasureLeaf(t)
  <2>1. /\ pc[t] = "measure" /\ index[t] \in Nat /\ stop[t] \in Nat /\ index[t] < stop[t]
        /\ index[t] \in Leaves
    BY <1>0, <1>4, ConstantFacts DEF MeasureLeaf, InRange, TypeOK, Leaves
  <2>2. /\ leaf_distances' = [leaf_distances EXCEPT ![index[t]] =
                                IF index[t] = node THEN VALUE_MAX ELSE query.leaf[index[t]]]
        /\ index'[t] = index[t] + 1 /\ stop' = stop /\ shared_leaf_id' = shared_leaf_id
        /\ pc'[t] = IF index[t] + 1 < stop[t] THEN "measure" ELSE "claim"
    BY <1>0, <1>4 DEF MeasureLeaf, TypeOK
  <2>3. \A l \in Leaves : Measured(l) => Measured(l)'
    BY <1>1, <2>1, <2>2 DEF Measured, TypeOK
  <2>4. Measured(index[t])'  = (leaf_distances'[index'[t]] =
                                 IF index'[t] = node' THEN VALUE_MAX ELSE query'.leaf[index'[t]])
    BY DEF Measured
  <2>5. \A l \in Leaves : l = index[t] => Measured(l)'
    BY <1>1, <2>1, <2>2 DEF Measured, TypeOK
  <2>6. ASSUME NEW l \in Leaves
        PROVE  \/ Measured(l)' \/ l >= shared_leaf_id'
               \/ \E u \in Threads : pc'[u] = "measure" /\ index'[u] <= l /\ l < stop'[u]
    <3>0. l \in Nat
      BY LeafFacts
    <3>1. CASE Measured(l) \/ l >= shared_leaf_id
      BY <2>2, <2>3, <3>1
    <3>2. CASE \E u \in Threads : pc[u] = "measure" /\ index[u] <= l /\ l < stop[u]
      <4>1. PICK u \in Threads : pc[u] = "measure" /\ index[u] <= l /\ l < stop[u]
        BY <3>2
      <4>2. CASE u = t /\ l = index[t]
        BY <2>5, <4>2
      <4>3. CASE u = t /\ l # index[t]
        <5>1. index[t] + 1 <= l /\ l < stop[t] /\ index[t] + 1 < stop[t]
          BY <2>1, <3>0, <4>1, <4>3
        <5> QED BY <2>2, <5>1
      <4>4. CASE u # t
        BY <1>1, <4>1, <4>4, ConstantFacts
      <4> QED BY <4>2, <4>3, <4>4
    <3> QED BY <1>4, <3>1, <3>2 DEF LeavesInv, LeavesMeasured
  <2>7. \A u \in Threads : pc'[u] = "idle" => shared_leaf_id' >= NumLeaves
    BY <1>1, <1>4, <2>2, ConstantFacts DEF LeavesInv, LeavesMeasured
  <2> QED BY <1>1, <1>4, <2>6, <2>7 DEF LeavesMeasured
<1> QED BY <1>2, <1>3, <1>4, MeasurePhase

LEMMA WorkLeaves ==
  ASSUME TypeOK, Placed, InRange, LeavesInv, NEW t \in Threads, Work(t)
  PROVE  LeavesInv'
<1>1. UNCHANGED <<config, phase, query, node, leaf_indices>>
  BY WorkFrame DEF main
<1>2. phase # "leaves" => UNCHANGED leaf_distances
  BY MeasurePhase DEF leaves
<1>3. Ordered'
  BY <1>1, <1>2 DEF LeavesInv, Ordered, IsOrder, Ascending
<1> QED BY <1>3, WorkMeasured DEF LeavesInv

\* The first position, moved to the end.
LEMMA RotationFacts ==
  ASSUME TypeOK, IsOrder(leaf_indices),
         leaf_indices' = [j \in Leaves |-> leaf_indices[IF j = NumLeaves - 1 THEN 0 ELSE j + 1]]
  PROVE  /\ IsOrder(leaf_indices)'
         /\ leaf_indices'[NumLeaves - 1] = leaf_indices[0]
         /\ \A j \in Leaves : j # NumLeaves - 1 =>
              j + 1 \in Leaves /\ leaf_indices'[j] = leaf_indices[j + 1]
<1> DEFINE rot(j) == IF j = NumLeaves - 1 THEN 0 ELSE j + 1
<1>1. \A j \in Leaves : rot(j) \in Leaves
  BY ConstantFacts DEF Leaves
<1>2. \A j, k \in Leaves : rot(j) = rot(k) => j = k
  BY ConstantFacts DEF Leaves
<1>3. \A l \in Leaves : \E j \in Leaves : rot(j) = l
  <2> SUFFICES ASSUME NEW l \in Leaves PROVE \E j \in Leaves : rot(j) = l
    OBVIOUS
  <2>1. CASE l = 0
    BY <2>1, ConstantFacts DEF Leaves
  <2>2. CASE l # 0
    <3>1. l - 1 \in Leaves /\ rot(l - 1) = l
      BY <2>2, ConstantFacts DEF Leaves
    <3> QED BY <3>1
  <2> QED BY <2>1, <2>2
<1>4. \A j \in Leaves : leaf_indices'[j] = leaf_indices[rot(j)]
  OBVIOUS
<1>5. NumLeaves - 1 \in Leaves
  BY ConstantFacts DEF Leaves
<1>6. \A j \in Leaves : j # NumLeaves - 1 =>
              j + 1 \in Leaves /\ leaf_indices'[j] = leaf_indices[j + 1]
  BY <1>1, <1>4
<1>7. leaf_indices'[NumLeaves - 1] = leaf_indices[0]
  BY <1>4, <1>5
<1>8. \A j, k \in Leaves : leaf_indices'[j] = leaf_indices'[k] => j = k
  <2> HIDE DEF rot
  <2> QED BY <1>1, <1>2, <1>4 DEF IsOrder
<1>9. ASSUME NEW l \in Leaves
      PROVE  \E j \in Leaves : leaf_indices'[j] = l
  <2> HIDE DEF rot
  <2>1. PICK k \in Leaves : leaf_indices[k] = l
    BY DEF IsOrder
  <2>2. PICK j \in Leaves : rot(j) = k
    BY <1>3
  <2> QED BY <1>4, <2>1, <2>2
<1> QED BY <1>6, <1>7, <1>8, <1>9 DEF IsOrder

LEMMA ConductLeaves ==
  ASSUME TypeOK, Placed, LeavesInv, ConductQueries
  PROVE  LeavesInv'
<1>0. config' = config /\ (phase # "report" => query' = query)
  BY ConductFrame
<1>1. CASE StartQuery \/ MeasureLeaves \/ JoinQuery \/ Report
  <2>1. /\ UNCHANGED <<leaf_indices, leaf_distances>> /\ phase' \in {"resident", "leaves", "report", "start"}
        /\ phase' = "leaves" => StartThreads
    BY <1>1 DEF StartQuery, MeasureLeaves, JoinQuery, Report, leaves
  <2>2. phase' = "leaves" => LeavesMeasured'
    <3>1. \A l \in Leaves : l >= 0
      BY LeafFacts
    <3> QED BY <2>1, <3>1, StartThreadsFacts DEF LeavesMeasured
  <2> QED BY <2>1, <2>2 DEF LeavesInv, LeavesMeasured, Ordered, IsOrder
<1>2. CASE JoinLeaves
  <2>1. 1 \in Threads /\ pc[1] = "idle" /\ phase = "leaves"
    BY <1>2, ConstantFacts DEF JoinLeaves, Joined
  <2>2. \A t \in Threads : pc[t] = "idle"
    BY <1>2, ConstantFacts DEF JoinLeaves, Joined
  <2>3. shared_leaf_id \in Nat /\ shared_leaf_id >= NumLeaves
    BY <2>1 DEF LeavesInv, LeavesMeasured, TypeOK
  <2>4. \A l \in Leaves : Measured(l)
    <3>1. \A l \in Leaves : ~(l >= shared_leaf_id)
      BY <2>3, LeafFacts, ConstantFacts
    <3> QED BY <2>1, <2>2, <3>1 DEF LeavesInv, LeavesMeasured
  <2>5. UNCHANGED <<node, leaf_distances>> /\ phase' = "sorted" /\ query' = query
    BY <1>2 DEF JoinLeaves
  <2>6. LeavesMeasured'
    BY <2>4, <2>5 DEF LeavesMeasured, Measured
  <2>7. CASE config.sort_leaves
    <3>1. leaf_indices' \in SortedIndices
      BY <1>2, <2>7 DEF JoinLeaves
    <3>2. IsOrder(leaf_indices')
      BY <3>1 DEF SortedIndices
    <3>3. \A j, k \in Leaves : 0 <= j /\ j < k =>
            leaf_distances[leaf_indices'[j]] <= leaf_distances[leaf_indices'[k]]
      BY <3>1 DEF SortedIndices, Ascending
    <3> QED BY <2>5, <2>6, <3>2, <3>3 DEF LeavesInv, Ordered, IsOrder, Ascending
  <2>8. CASE ~config.sort_leaves
    BY <1>0, <1>2, <2>5, <2>6, <2>8 DEF JoinLeaves, LeavesInv, Ordered, IsOrder
  <2> QED BY <2>7, <2>8
<1>3. CASE SearchNearestLeaf
  <2>0. 0 \in Leaves /\ leaf_indices[0] \in Leaves
    BY ConstantFacts DEF Leaves, TypeOK
  <2>1. /\ phase = "sorted" /\ node = NoLeaf /\ phase' = "nearest" /\ query' = query
        /\ node' = leaf_indices[0] /\ leaf_indices' = leaf_indices
        /\ leaf_distances' = [leaf_distances EXCEPT ![leaf_indices[0]] = VALUE_MAX]
    BY <1>3 DEF SearchNearestLeaf
  <2>2. \A l \in Leaves : Measured(l) /\ l # node
    BY <2>1, QueryAssumption DEF LeavesInv, LeavesMeasured
  <2>3. \A l \in Leaves : Measured(l)'
    BY <2>0, <2>1, <2>2 DEF Measured, TypeOK
  <2>4. \A j \in Leaves : 1 <= j => leaf_distances'[leaf_indices'[j]] = leaf_distances[leaf_indices[j]]
    BY <2>0, <2>1 DEF LeavesInv, Ordered, IsOrder, TypeOK
  <2>5. config.sort_leaves => Ascending(leaf_indices, 1)'
    <3>1. \A j \in Leaves : j \in Nat
      BY LeafFacts
    <3>2. config.sort_leaves => Ascending(leaf_indices, 0)
      BY <2>1 DEF LeavesInv, Ordered
    <3> QED BY <2>4, <3>1, <3>2 DEF Ascending
  <2> QED BY <1>0, <2>1, <2>3, <2>5 DEF LeavesInv, LeavesMeasured, Ordered, IsOrder
<1>4. CASE NearestLeafSearched
  <2>1. /\ phase = "nearest" /\ UNCHANGED <<node, leaf_distances, query>>
        /\ phase' \in {"exact", "report"}
    BY <1>4 DEF NearestLeafSearched, StartExact
  <2>2. /\ \A l \in Leaves : Measured(l) /\ Measured(l)'
        /\ LeavesMeasured' /\ node = leaf_indices[0] /\ IsOrder(leaf_indices)
    BY <2>1 DEF LeavesInv, LeavesMeasured, Measured, Ordered
  <2>3. node \in Leaves /\ node # NoLeaf
    <3>1. 0 \in Leaves
      BY ConstantFacts DEF Leaves
    <3> QED BY <2>2, <3>1, QueryAssumption DEF TypeOK
  <2>4. CASE config.sort_leaves
    <3>1. /\ IsOrder(leaf_indices)'
          /\ leaf_indices'[NumLeaves - 1] = leaf_indices[0]
          /\ \A j \in Leaves : j # NumLeaves - 1 =>
               j + 1 \in Leaves /\ leaf_indices'[j] = leaf_indices[j + 1]
      BY <1>4, <2>2, <2>4, RotationFacts DEF NearestLeafSearched
    <3>2. Ascending(leaf_indices, 1)
      BY <2>1, <2>4 DEF LeavesInv, Ordered
    <3>3. ASSUME NEW j \in Leaves, NEW k \in Leaves, j < k
          PROVE  leaf_distances[leaf_indices'[j]] <= leaf_distances[leaf_indices'[k]]
      <4>1. j \in Nat /\ k \in Nat /\ k < NumLeaves /\ j # NumLeaves - 1 /\ j + 1 \in Leaves
            /\ leaf_indices'[j] = leaf_indices[j + 1]
        BY <3>1, <3>3, LeafFacts, ConstantFacts
      <4>2. CASE k = NumLeaves - 1
        <5>1. leaf_distances[leaf_indices'[k]] = VALUE_MAX
          BY <2>2, <2>3, <3>1, <4>2 DEF Measured
        <5>2. leaf_distances[leaf_indices'[j]] \in Distance \cup {VALUE_MAX}
          BY <4>1 DEF TypeOK
        <5> QED BY <5>1, <5>2, ConstantFacts DEF Distance
      <4>3. CASE k # NumLeaves - 1
        <5>1. k + 1 \in Leaves /\ leaf_indices'[k] = leaf_indices[k + 1]
          BY <3>1, <4>3
        <5>2. 1 <= j + 1 /\ j + 1 < k + 1
          BY <3>3, <4>1
        <5> QED BY <3>2, <4>1, <5>1, <5>2 DEF Ascending
      <4> QED BY <4>2, <4>3
    <3>4. Ascending(leaf_indices, 0)'
      BY <2>1, <3>3 DEF Ascending
    <3> QED BY <2>1, <2>2, <2>3, <3>1, <3>4 DEF LeavesInv, Ordered
  <2>5. CASE ~config.sort_leaves
    BY <1>0, <1>4, <2>1, <2>2, <2>3, <2>5 DEF NearestLeafSearched, LeavesInv, Ordered, IsOrder
  <2> QED BY <2>4, <2>5
<1>5. CASE SearchExactly
  BY <1>0, <1>5 DEF SearchExactly, StartExact, leaves, LeavesInv, LeavesMeasured, Measured, Ordered,
                    IsOrder, Ascending
<1> QED BY <1>1, <1>2, <1>3, <1>4, <1>5 DEF ConductQueries

LEMMA LeavesInvHolds == Spec => [](AnswerInv /\ LeavesInv)
<1>1. AnswerInv /\ LeavesInv /\ [Next]_vars => LeavesInv'
  <2> SUFFICES ASSUME AnswerInv, LeavesInv, [Next]_vars PROVE LeavesInv'
    OBVIOUS
  <2>1. CASE UNCHANGED vars
    BY <2>1 DEF vars, main, leaves, LeavesInv, LeavesMeasured, Measured, Ordered, IsOrder, Ascending
  <2> QED BY <2>1, ScanLeaves, WorkLeaves, ConductLeaves DEF AnswerInv, Next, Terminated
<1> QED BY <1>1, LeavesInit, AnswerInvInit, AnswerInvNext, PTL DEF Spec

\* When an exact search starts to prune, every leaf has the bound of this query,
\* and the order is one of all leaves: no thread is still measuring, and the
\* rotation after the nearest leaf loses none (conductQueries).
THEOREM Prepared == Spec => []LeavesPrepared
<1>1. LeavesInv => LeavesPrepared
  BY DEF LeavesInv, LeavesMeasured, Measured, Ordered, IsOrder, LeavesPrepared
<1> QED BY <1>1, LeavesInvHolds, PTL

----------------------------------------------------------------------------
(* SearchInv is inductive if bounds are bounds *)

\* Any step before the report keeps what is settled.
LEMMA SettledKept ==
  ASSUME TypeOK, InRange, [Next]_vars, phase # "report"
  PROVE  /\ query' = query
         /\ \A s \in Series : Settled(s) => Settled(s)'
         /\ \A l \in Leaves : LeafSettled(l) => LeafSettled(l)'
<1>1. query' = query
  BY ConductFrame, ScanFrame, WorkFrame DEF Next, Terminated, vars, main
<1>2. \A s \in Series : query.l2Square[s] \in Nat
  BY QueryFacts DEF TypeOK
<1>3. \A x \in Nat : Near(x) => Near(x)'
  BY NearKept
<1>4. \A s \in Series : Settled(s) => Settled(s)'
  BY <1>1, <1>2, <1>3 DEF Settled, Near
<1> QED BY <1>1, <1>4, LeafFacts DEF LeafSettled

\* A bound that is known settles every series that is not below it.
LEMMA KnownSettles ==
  ASSUME TypeOK, NEW bound \in Nat, Known(bound), NEW s \in Series, query.l2Square[s] >= bound
  PROVE  Settled(s)
<1>1. query.l2Square[s] \in Nat /\ query.l2Square[s] < VALUE_MAX /\ VALUE_MAX \in Nat
  BY QueryFacts, ConstantFacts DEF TypeOK
<1>2. PICK n \in held : query.l2Square[n] <= bound
  BY <1>1 DEF Known, Near
<1>3. query.l2Square[n] \in Nat
  BY QueryFacts DEF TypeOK
<1> QED BY <1>1, <1>2, <1>3 DEF Settled, Near

\* A leaf whose bound is not below one that is known is settled: it is the one
\* searched already, or all its series are at least as far as its bound.
LEMMA BoundSettles ==
  ASSUME TypeOK, NEW l \in Leaves, Bounding(query), Measured(l),
         node \in Leaves => LeafSettled(node),
         NEW bound \in Nat, Known(bound), leaf_distances[l] >= bound
  PROVE  LeafSettled(l)
<1>1. CASE l = node
  BY <1>1
<1>2. CASE l # node
  <2>1. leaf_distances[l] = query.leaf[l]
    BY <1>2 DEF Measured
  <2>2. \A s \in SeriesOf(l) : /\ s \in Series /\ query.leaf[l] <= query.l2Square[s]
                               /\ query.leaf[l] \in Nat /\ query.l2Square[s] \in Nat
    BY LeafFacts, QueryFacts DEF TypeOK, Bounding
  <2>3. \A s \in SeriesOf(l) : s \in Series /\ query.l2Square[s] >= bound
    BY <2>1, <2>2
  <2> QED BY <2>3, KnownSettles DEF LeafSettled
<1> QED BY <1>1, <1>2

\* What one step of a scan settles: it passes a series only when one at least
\* as near is held.
LEMMA ScanSettles ==
  ASSUME AnswerInv, Bounding(query), ScansSettle, NEW t \in Scanners, Scan(t)
  PROVE  /\ pc'[t] \in Scanning =>
              /\ index' = index
              /\ \A s \in SeriesOf(LeafOf(t)) : s < series'[t] => Settled(s)'
              /\ pc'[t] = "heapify" => Settled(series[t])'
         /\ pc'[t] \notin Scanning =>
              /\ LeaveLeaf(t)
              /\ \A l \in Leaves : l = LeafOf(t) => LeafSettled(l)'
<1> USE DEF AnswerInv
<1>0. /\ pc[t] \in Scanning /\ query' = query /\ phase # "report" /\ [Next]_vars
      /\ leaf_bsf[t] \in Nat /\ top \in Nat /\ LeafOf(t) \in Leaves
  BY ScanFrame, SeriesInRange, IdleByPhase, ConstantFacts
     DEF main, Next, TypeOK, Scanning, Scanners, Distance
<1>1. \A s \in Series : Settled(s) => Settled(s)'
  BY <1>0, SettledKept
<1>2. /\ \A s \in SeriesOf(LeafOf(t)) : s < series[t] => Settled(s)'
      /\ \A s \in SeriesOf(LeafOf(t)) : s \in Nat /\ s \in Series
      /\ series[t] \in Nat
  BY <1>0, <1>1, LeafFacts, SeriesInRange DEF ScansSettle
<1>3. CASE CheckSeries(t)
  <2>1. series[t] \in Series /\ query.l2Square[series[t]] \in Nat
    BY <1>0, <1>3, SeriesInRange DEF CheckSeries, Distance
  <2>2. CASE Promising(t)
    BY <1>2, <1>3, <2>2 DEF CheckSeries, Scanning, TypeOK
  <2>3. CASE ~Promising(t)
    <3>1. query.l2SquareSAX[series[t]] \in Nat
          /\ query.l2SquareSAX[series[t]] <= query.l2Square[series[t]]
      BY <2>1, QueryFacts DEF Bounding, TypeOK, Distance
    <3>2. query.l2Square[series[t]] >= leaf_bsf[t]
      BY <1>0, <2>1, <2>3, <3>1 DEF Promising
    <3>3. Known(leaf_bsf[t])
      BY <1>0 DEF BoundsKnown
    <3>4. \A s \in Series : s = series[t] => Settled(s)'
      BY <1>0, <1>1, <2>1, <3>2, <3>3, KnownSettles
    <3> QED BY <1>2, <1>3, <2>3, <3>4 DEF CheckSeries, Scanning, TypeOK
  <2> QED BY <2>2, <2>3
<1>4. CASE LeaveLeaf(t)
  <2>1. series[t] = StartId[LeafOf(t) + 1] /\ pc'[t] \notin Scanning
    BY <1>0, <1>4, SeriesInRange DEF LeaveLeaf, Scanning, TypeOK
  <2>2. \A s \in SeriesOf(LeafOf(t)) : s < series[t]
    BY <1>0, <2>1, LeafFacts
  <2>3. ASSUME NEW l \in Leaves, l = LeafOf(t)
        PROVE  LeafSettled(l)'
    BY <1>2, <2>2, <2>3 DEF LeafSettled
  <2> QED BY <1>4, <2>1, <2>3
<1>5. CASE AddAnswer(t) \/ KeepAnswers(t) \/ Heapify(t)
  <2>1. series[t] \in Series /\ query.l2Square[series[t]] \in Nat
    BY <1>0, <1>5, SeriesInRange DEF AddAnswer, KeepAnswers, Heapify, Scanning, InRange, Distance
  <2>2. \A s \in Series : s = series[t] => Settled(s)'
    <3>1. CASE AddAnswer(t)
      BY <1>0, <2>1, <3>1 DEF AddAnswer, Settled, Near
    <3>2. CASE KeepAnswers(t)
      BY <1>0, <1>1, <2>1, <3>2, KnownSettles DEF KeepAnswers, BoundsKnown
    <3>3. CASE Heapify(t)
      BY <1>0, <1>1, <2>1, <3>3 DEF Heapify, ScansSettle
    <3> QED BY <1>5, <3>1, <3>2, <3>3
  <2>3. pc'[t] = "scan" /\ index' = index /\ series'[t] = series[t] + 1
    BY <1>5 DEF AddAnswer, KeepAnswers, Heapify, Proceed, TypeOK
  <2>4. \A s \in SeriesOf(LeafOf(t)) : s < series'[t] => s < series[t] \/ s = series[t]
    BY <1>2, <2>3
  <2> QED BY <1>2, <2>2, <2>3, <2>4 DEF Scanning
<1>6. CASE ReplaceAnswer(t)
  <2>1. series[t] \in held' /\ query.l2Square[series[t]] \in Nat
    BY <1>0, <1>6, SeriesInRange DEF ReplaceAnswer, InRange, Distance
  <2>2. pc'[t] = "heapify" /\ index' = index /\ series' = series
    BY <1>6 DEF ReplaceAnswer, TypeOK, scan
  <2>3. Settled(series[t])'
    BY <1>0, <2>1, <2>2 DEF Settled, Near
  <2> QED BY <1>2, <2>2, <2>3 DEF Scanning
<1> QED BY <1>3, <1>4, <1>5, <1>6 DEF Scan

\* A series that is looked at while nothing is held is good enough.
LEMMA ScanCounted ==
  ASSUME AnswerInv, SearchInv, NEW t \in Scanners, Scan(t)
  PROVE  CountedHeld'
<1> USE DEF AnswerInv, SearchInv
<1>1. /\ phase' = phase /\ phase # "start" /\ pc[t] \in Scanning
      /\ CheckSeries(t) \/ counted' = counted
      /\ \A u \in Scanners \ {t} : pc'[u] = pc[u]
  BY ScanFrame, IdleByPhase DEF main, Scanning, Scanners
<1>2. held # {} => held' # {}
  BY DEF Scan, CheckSeries, LeaveLeaf, AddAnswer, ReplaceAnswer, Heapify, KeepAnswers, answer
<1> SUFFICES ASSUME held = {} PROVE CountedHeld'
  BY <1>2 DEF CountedHeld
<1>3. CASE CheckSeries(t)
  <2>1. leaf_bsf[t] = VALUE_MAX
    BY <1>1 DEF BoundsKnown, Known, Near
  <2>2. series[t] \in Series
    BY <1>1, <1>3, SeriesInRange DEF CheckSeries
  <2>3. query.l2Square[series[t]] < VALUE_MAX /\ query.l2SquareSAX[series[t]] < VALUE_MAX
    BY <2>2, QueryFacts, ConstantFacts DEF TypeOK, Distance
  <2>4. pc'[t] = "update"
    BY <1>3, <2>1, <2>3 DEF CheckSeries, Promising, TypeOK
  <2> QED BY <2>4 DEF CountedHeld
<1>4. CASE AddAnswer(t) \/ ReplaceAnswer(t)
  BY <1>4 DEF AddAnswer, ReplaceAnswer, CountedHeld
<1>5. CASE KeepAnswers(t)
  BY <1>5, ConstantFacts DEF KeepAnswers, FreshAnswer
<1>6. CASE LeaveLeaf(t) \/ Heapify(t)
  <2>1. pc[t] # "update" /\ counted' = counted
    BY <1>6 DEF LeaveLeaf, Heapify, Proceed
  <2> QED BY <1>1, <2>1 DEF CountedHeld
<1> QED BY <1>3, <1>4, <1>5, <1>6 DEF Scan

\* What the main thread does between scans.
LEMMA QuietCounted ==
  ASSUME SearchInv, phase # "start", \A t \in Scanners : pc[t] = "idle",
         counted' = counted, held' = held
  PROVE  CountedHeld'
BY DEF SearchInv, CountedHeld

LEMMA ScanSearch ==
  ASSUME AnswerInv, LeavesInv, SearchInv, Bounding(query), NEW t \in Scanners, Scan(t)
  PROVE  SearchInv'
<1> USE DEF AnswerInv, SearchInv
<1>1. /\ UNCHANGED <<config, phase, query, node, leaf_indices, shared_leaf_id, stop>>
      /\ pc[t] \in Scanning
      /\ t = Main => UNCHANGED index /\ pc'[t] \in Scanning \cup {"idle"}
      /\ t # Main => pc'[t] \in Scanning \cup {"test"}
      /\ \A u \in Scanners \ {t} : /\ pc'[u] = pc[u] /\ index'[u] = index[u]
                                   /\ series'[u] = series[u]
  BY ScanFrame, ScanTarget DEF main, leaves
<1>2. phase # "report" /\ phase # "start" /\ [Next]_vars
  BY <1>1, IdleByPhase DEF Scanning, Scanners, Next
<1>3. /\ \A s \in Series : Settled(s) => Settled(s)'
      /\ \A l \in Leaves : LeafSettled(l) => LeafSettled(l)'
  BY <1>2, SettledKept
<1>4. /\ pc'[t] \in Scanning =>
              /\ index' = index
              /\ \A s \in SeriesOf(LeafOf(t)) : s < series'[t] => Settled(s)'
              /\ pc'[t] = "heapify" => Settled(series[t])'
      /\ pc'[t] \notin Scanning =>
              /\ LeaveLeaf(t)
              /\ \A l \in Leaves : l = LeafOf(t) => LeafSettled(l)'
  BY ScanSettles
<1>5. LeafOf(t) \in Leaves
  BY <1>1, SeriesInRange
<1>6. ScansSettle'
  <2>1. pc'[t] \in Scanning => LeafOf(t)' = LeafOf(t)
    BY <1>1, <1>4 DEF LeafOf
  <2>2. pc'[t] \in Scanning => /\ \A s \in SeriesOf(LeafOf(t)') : s < series'[t] => Settled(s)'
                               /\ pc'[t] = "heapify" => Settled(series[t])'
    BY <1>4, <2>1
  <2>3. ASSUME NEW u \in Scanners \ {t}, pc'[u] \in Scanning
        PROVE  /\ \A s \in SeriesOf(LeafOf(u)') : s < series'[u] => Settled(s)'
               /\ pc'[u] = "heapify" => Settled(series[u])'
    <3>1. pc[u] \in Scanning /\ LeafOf(u)' = LeafOf(u) /\ LeafOf(u) \in Leaves /\ series'[u] = series[u]
          /\ pc'[u] = pc[u]
      BY <1>1, <2>3, SeriesInRange DEF LeafOf
    <3>2. \A s \in SeriesOf(LeafOf(u)) : s \in Series
      BY <3>1, LeafFacts
    <3>3. \A s \in SeriesOf(LeafOf(u)') : s < series'[u] => Settled(s)'
      BY <1>3, <3>1, <3>2 DEF ScansSettle
    <3>4. pc'[u] = "heapify" => Settled(series[u])'
      <4>1. pc'[u] = "heapify" => series[u] \in Series
        BY <3>1, SeriesInRange DEF InRange
      <4>2. pc'[u] = "heapify" => \A s \in Series : s = series'[u] => Settled(s)'
        BY <1>3, <3>1, <4>1 DEF ScansSettle
      <4> QED BY <3>1, <4>1, <4>2 DEF Settled, Near
    <3> QED BY <3>3, <3>4
  <2> QED BY <2>2, <2>3 DEF ScansSettle
<1>7. NodeSettled'
  <2>1. CASE t = Main /\ pc'[Main] = "idle"
    BY <1>1, <1>4, <1>5, <2>1 DEF NodeSettled, LeafOf, Scanning
  <2>2. CASE t = Main /\ pc'[Main] # "idle"
    BY <2>2 DEF NodeSettled
  <2>3. CASE t # Main
    BY <1>1, <1>2, <1>3, <2>3, ConstantFacts DEF NodeSettled
  <2> QED BY <2>1, <2>2, <2>3
<1>8. Searched'
  <2>0. ~Limited' => ~Limited
    BY ScanFrame, QueryAssumption DEF Limited, main, TypeOK
  <2> SUFFICES ASSUME phase = "exact", ~Limited PROVE Searched'
    BY <1>1, <2>0 DEF Searched
  <2>1. t \in Threads /\ t # Main /\ pc'[t] \in Busy /\ index[t] < stop[t]
        /\ index[t] \in Nat /\ stop[t] \in Nat /\ LeafOf(t) = leaf_indices[index[t]]
    BY <1>1, ConstantFacts DEF Placed, Scanning, Scanners, Busy, InRange, TypeOK, LeafOf
  <2>2. \A p \in Leaves : leaf_indices[p] \in Leaves /\ p \in Nat
    BY LeafFacts DEF TypeOK
  <2>3. \/ index'[t] = index[t]
        \/ /\ index'[t] = index[t] + 1
           /\ \A p \in Leaves : p = index[t] => LeafSettled(leaf_indices[p])'
    <3>1. CASE pc'[t] \in Scanning
      BY <1>4, <3>1
    <3>2. CASE pc'[t] \notin Scanning
      <4>1. index'[t] = index[t] + 1
        BY <1>4, <2>1, <3>2 DEF LeaveLeaf, TypeOK
      <4>2. \A p \in Leaves : p = index[t] => LeafSettled(leaf_indices[p])'
        BY <1>1, <1>4, <1>5, <2>1, <3>2 DEF LeafSettled, Settled, Near
      <4> QED BY <4>1, <4>2
    <3> QED BY <3>1, <3>2
  <2>4. \A p \in Leaves : LeafSettled(leaf_indices[p]) => LeafSettled(leaf_indices[p])'
    BY <1>1, <1>3, <2>2 DEF LeafSettled
  <2>5. ASSUME NEW p \in Leaves
        PROVE  \/ LeafSettled(leaf_indices[p])' \/ p >= shared_leaf_id'
               \/ \E u \in Threads : pc'[u] \in Busy /\ index'[u] <= p /\ p < stop'[u]
    <3>1. CASE LeafSettled(leaf_indices[p]) \/ p >= shared_leaf_id
      BY <1>1, <2>4, <3>1
    <3>2. CASE \E u \in Threads : pc[u] \in Busy /\ index[u] <= p /\ p < stop[u]
      <4>1. PICK u \in Threads : pc[u] \in Busy /\ index[u] <= p /\ p < stop[u]
        BY <3>2
      <4>2. CASE u # t
        BY <1>1, <4>1, <4>2, ConstantFacts
      <4>3. CASE u = t /\ p = index[t]
        BY <1>1, <2>1, <2>3, <4>1, <4>3
      <4>4. CASE u = t /\ p # index[t]
        BY <1>1, <2>1, <2>2, <2>3, <4>1, <4>4
      <4> QED BY <4>2, <4>3, <4>4
    <3> QED BY <3>1, <3>2 DEF Searched
  <2>6. ASSUME NEW u \in Threads, pc'[u] = "idle", NEW p \in Leaves, p >= shared_leaf_id'
        PROVE  LeafSettled(leaf_indices[p])'
    BY <1>1, <2>1, <2>4, <2>6, ConstantFacts DEF Searched, Busy, Scanning
  <2>7. ASSUME NEW u \in Threads, pc'[u] \in Busy
        PROVE  stop'[u] <= shared_leaf_id'
    BY <1>1, <2>1, <2>7, ConstantFacts DEF Searched, Busy
  <2> QED BY <2>5, <2>6, <2>7 DEF Searched
<1>9. Reported'
  BY <1>1, <1>2 DEF Reported
<1> QED BY <1>6, <1>7, <1>8, <1>9, ScanCounted

\* A leaf that is not worthwhile is settled, and in sorted order all after it.
LEMMA NotWorthwhileSettled ==
  ASSUME AnswerInv, LeavesInv, SearchInv, Bounding(query), phase = "exact",
         NEW t \in Threads, pc[t] = "test", index[t] < stop[t], ~Worthwhile(t)
  PROVE  /\ index[t] \in Leaves
         /\ LeafSettled(leaf_indices[index[t]])
         /\ config.sort_leaves /\ config.lower_bounding =>
              \A p \in Leaves : p >= index[t] => LeafSettled(leaf_indices[p])
<1> USE DEF AnswerInv, SearchInv, LeavesInv
<1>1. /\ index[t] \in Leaves /\ index[t] \in Nat
      /\ thread_bsf[t] \in Nat /\ Known(thread_bsf[t])
  <2>1. t \in Scanners /\ index[t] \in 0 .. NumLeaves /\ stop[t] \in 0 .. NumLeaves
        /\ thread_bsf[t] \in Distance \cup {VALUE_MAX}
    BY ConstantFacts DEF TypeOK
  <2>2. Known(thread_bsf[t])
    BY DEF BoundsKnown
  <2> QED BY <2>1, <2>2, ConstantFacts DEF Leaves, Distance
<1>2. node \in Leaves => LeafSettled(node)
  BY IdleByPhase DEF NodeSettled
<1>3. \A l \in Leaves : Measured(l) /\ leaf_distances[l] \in Nat
                        /\ (leaf_distances[l] >= VALUE_MAX => l = node)
  <2>1. \A l \in Leaves : query.leaf[l] \in Nat /\ query.leaf[l] < VALUE_MAX
    BY QueryFacts DEF TypeOK
  <2> QED BY <2>1, ConstantFacts DEF LeavesMeasured, Measured
<1>4. \A p \in Leaves : leaf_indices[p] \in Leaves
  BY DEF TypeOK
<1>5. \A l \in Leaves : leaf_distances[l] >= thread_bsf[t] => LeafSettled(l)
  BY <1>1, <1>2, <1>3, BoundSettles
<1> DEFINE bound == leaf_distances[leaf_indices[index[t]]]
<1>6. bound \in Nat /\ bound >= thread_bsf[t]
  BY <1>1, <1>3, <1>4 DEF Worthwhile
<1>7. ASSUME config.sort_leaves, NEW p \in Leaves, p >= index[t]
      PROVE  LeafSettled(leaf_indices[p])
  <2>1. leaf_distances[leaf_indices[p]] \in Nat /\ p \in Nat
    BY <1>3, <1>4, LeafFacts
  <2>2. bound <= leaf_distances[leaf_indices[p]]
    <3>1. CASE p = index[t]
      BY <1>6, <3>1
    <3>2. CASE p # index[t]
      BY <1>1, <1>7, <2>1, <3>2 DEF Ordered, Ascending
    <3> QED BY <3>1, <3>2
  <2>3. leaf_distances[leaf_indices[p]] >= thread_bsf[t]
    BY <1>1, <1>6, <2>1, <2>2
  <2> QED BY <1>4, <1>5, <2>3
<1> QED BY <1>1, <1>4, <1>5, <1>6, <1>7

LEMMA WorkSearched ==
  ASSUME AnswerInv, LeavesInv, SearchInv, Bounding(query), NEW t \in Threads, Work(t),
         phase = "exact", ~Limited
  PROVE  Searched'
<1> USE DEF AnswerInv, SearchInv
<1>0. t \in Scanners /\ t # Main
  BY ConstantFacts
<1>1. /\ UNCHANGED <<config, phase, query, node, leaf_indices, held>>
      /\ \A u \in Scanners \ {t} : pc'[u] = pc[u] /\ index'[u] = index[u] /\ stop'[u] = stop[u]
  BY WorkFrame DEF main, answer
<1>2. /\ \A p \in Leaves : LeafSettled(leaf_indices[p])' = LeafSettled(leaf_indices[p])
      /\ \A p \in Leaves : leaf_indices[p] \in Leaves /\ p \in Nat /\ p < NumLeaves
  BY <1>1, LeafFacts DEF LeafSettled, Settled, Near, TypeOK
<1>3. /\ shared_leaf_id \in Nat /\ index[t] \in Nat /\ stop[t] \in Nat
      /\ \A u \in Threads : stop[u] \in Nat
  BY <1>0, ConstantFacts DEF TypeOK
<1>4. CASE ClaimIndices(t)
  <2>1. /\ shared_leaf_id' \in Nat /\ shared_leaf_id < shared_leaf_id'
        /\ pc[t] = "claim"
        /\ shared_leaf_id < NumLeaves =>
              /\ index'[t] = shared_leaf_id /\ pc'[t] = "read"
              /\ stop'[t] <= shared_leaf_id'
              /\ \A p \in Leaves : shared_leaf_id <= p /\ p < shared_leaf_id' => p < stop'[t]
        /\ ~(shared_leaf_id < NumLeaves) => pc'[t] = "idle"
    BY <1>3, <1>4, BlockFacts, ConstantFacts DEF ClaimIndices, Labels
  <2>2. ASSUME NEW p \in Leaves
        PROVE  \/ LeafSettled(leaf_indices[p])' \/ p >= shared_leaf_id'
               \/ \E u \in Threads : pc'[u] \in Busy /\ index'[u] <= p /\ p < stop'[u]
    <3>1. CASE LeafSettled(leaf_indices[p])
      BY <1>2, <3>1
    <3>2. CASE p >= shared_leaf_id
      <4>1. shared_leaf_id < NumLeaves
        BY <1>2, <1>3, <3>2, ConstantFacts
      <4>2. CASE p < shared_leaf_id'
        BY <1>2, <1>3, <2>1, <3>2, <4>1, <4>2 DEF Busy
      <4>3. CASE ~(p < shared_leaf_id')
        BY <1>2, <2>1, <4>3
      <4> QED BY <4>2, <4>3
    <3>3. CASE \E u \in Threads : pc[u] \in Busy /\ index[u] <= p /\ p < stop[u]
      <4>1. PICK u \in Threads : pc[u] \in Busy /\ index[u] <= p /\ p < stop[u]
        BY <3>3
      <4>2. u # t
        BY <2>1, <4>1 DEF Busy, Scanning
      <4> QED BY <1>1, <4>1, <4>2, ConstantFacts
    <3> QED BY <3>1, <3>2, <3>3 DEF Searched
  <2>3. ASSUME NEW u \in Threads, pc'[u] = "idle", NEW p \in Leaves, p >= shared_leaf_id'
        PROVE  LeafSettled(leaf_indices[p])'
    <3>1. p >= shared_leaf_id
      BY <1>2, <1>3, <2>1, <2>3
    <3>2. CASE u = t
      BY <1>2, <1>3, <2>1, <2>3, <3>1, <3>2, ConstantFacts
    <3>3. CASE u # t
      BY <1>1, <1>2, <2>3, <3>1, <3>3, ConstantFacts DEF Searched
    <3> QED BY <3>2, <3>3
  <2>4. ASSUME NEW u \in Threads, pc'[u] \in Busy
        PROVE  stop'[u] <= shared_leaf_id'
    <3>1. CASE u = t
      BY <2>1, <2>4, <3>1 DEF Busy, Scanning
    <3>2. CASE u # t
      <4>1. stop'[u] = stop[u] /\ stop[u] <= shared_leaf_id
        BY <1>1, <2>4, <3>2, ConstantFacts DEF Searched
      <4> QED BY <1>3, <2>1, <4>1
    <3> QED BY <3>1, <3>2
  <2> QED BY <2>2, <2>3, <2>4 DEF Searched
<1>5. CASE ~ClaimIndices(t)
  <2>1. /\ shared_leaf_id' = shared_leaf_id /\ stop' = stop
        /\ pc[t] \in Busy => pc'[t] \in Busy \cup {"idle", "claim"}
        /\ pc'[t] \in Busy => pc[t] \in Busy
        /\ pc'[t] = "idle" => /\ pc[t] \in Busy
                              /\ \A p \in Leaves : p >= index[t] => LeafSettled(leaf_indices[p])
        /\ \A p \in Leaves : pc[t] \in Busy /\ index[t] <= p /\ p < stop[t] =>
              LeafSettled(leaf_indices[p]) \/ (pc'[t] \in Busy /\ index'[t] <= p)
    <3> USE <1>0 DEF Busy, Scanning, TypeOK
    <3>1. CASE ClaimLeaves(t) \/ MeasureLeaf(t)
      BY <3>1, MeasurePhase DEF ClaimLeaves
    <3>2. CASE ReadBSF(t)
      BY <3>2 DEF ReadBSF
    <3>3. CASE EnterLeaf(t)
      BY <3>3 DEF EnterLeaf
    <3>4. CASE Return(t)
      BY <3>4, NotWorthwhileSettled DEF Return
    <3>5. CASE SkipLeaf(t)
      <4>1. LeafSettled(leaf_indices[index[t]]) /\ index[t] \in Leaves
        BY <3>5, NotWorthwhileSettled DEF SkipLeaf
      <4>2. index'[t] = index[t] + 1 /\ pc' = pc /\ stop' = stop /\ shared_leaf_id' = shared_leaf_id
            /\ pc[t] = "test"
        BY <3>5 DEF SkipLeaf
      <4>3. \A p \in Leaves : index[t] <= p => p = index[t] \/ index[t] + 1 <= p
        BY <1>2, <1>3
      <4>4. \A p \in Leaves : index[t] <= p => LeafSettled(leaf_indices[p]) \/ index'[t] <= p
        BY <4>1, <4>2, <4>3
      <4>5. pc'[t] = "test" /\ pc[t] = "test"
        BY <4>2
      <4>6. \A p \in Leaves : pc[t] \in Busy /\ index[t] <= p /\ p < stop[t] =>
              LeafSettled(leaf_indices[p]) \/ (pc'[t] \in Busy /\ index'[t] <= p)
        BY <4>4, <4>5
      <4>7. pc[t] \in Busy /\ pc'[t] \in Busy /\ pc'[t] # "idle"
        BY <4>5
      <4> QED BY <4>2, <4>6, <4>7
    <3>6. CASE NextBlock(t)
      <4>1. \A p \in Leaves : ~(index[t] <= p /\ p < stop[t])
        BY <1>2, <1>3, <3>6 DEF NextBlock
      <4> QED BY <3>6, <4>1 DEF NextBlock
    <3> QED BY <1>5, <3>1, <3>2, <3>3, <3>4, <3>5, <3>6 DEF Work
  <2>2. ASSUME NEW p \in Leaves
        PROVE  \/ LeafSettled(leaf_indices[p])' \/ p >= shared_leaf_id'
               \/ \E u \in Threads : pc'[u] \in Busy /\ index'[u] <= p /\ p < stop'[u]
    <3>1. CASE LeafSettled(leaf_indices[p]) \/ p >= shared_leaf_id
      BY <1>2, <2>1, <3>1
    <3>2. CASE \E u \in Threads : pc[u] \in Busy /\ index[u] <= p /\ p < stop[u]
      <4>1. PICK u \in Threads : pc[u] \in Busy /\ index[u] <= p /\ p < stop[u]
        BY <3>2
      <4>2. CASE u = t
        BY <1>2, <2>1, <4>1, <4>2
      <4>3. CASE u # t
        BY <1>1, <4>1, <4>3, ConstantFacts
      <4> QED BY <4>2, <4>3
    <3> QED BY <3>1, <3>2 DEF Searched
  <2>3. ASSUME NEW u \in Threads, pc'[u] = "idle", NEW p \in Leaves, p >= shared_leaf_id'
        PROVE  LeafSettled(leaf_indices[p])'
    <3>1. CASE u = t
      <4>1. stop[t] <= shared_leaf_id /\ index[t] <= stop[t]
        <5>1. stop[t] <= shared_leaf_id
          BY <2>1, <2>3, <3>1 DEF Searched
        <5>2. Return(t)
          BY <1>0, <1>5, <2>3, <3>1, MeasurePhase
             DEF Work, ClaimLeaves, ReadBSF, EnterLeaf, Return, SkipLeaf, NextBlock, TypeOK
        <5> QED BY <1>3, <5>1, <5>2 DEF Return
      <4>2. p >= index[t]
        BY <1>2, <1>3, <2>1, <2>3, <4>1
      <4> QED BY <1>2, <2>1, <2>3, <3>1, <4>2
    <3>2. CASE u # t
      BY <1>1, <1>2, <2>1, <2>3, <3>2, ConstantFacts DEF Searched
    <3> QED BY <3>1, <3>2
  <2>4. ASSUME NEW u \in Threads, pc'[u] \in Busy
        PROVE  stop'[u] <= shared_leaf_id'
    BY <1>1, <2>1, <2>4, ConstantFacts DEF Searched
  <2> QED BY <2>2, <2>3, <2>4 DEF Searched
<1> QED BY <1>4, <1>5

LEMMA WorkSearch ==
  ASSUME AnswerInv, LeavesInv, SearchInv, Bounding(query), NEW t \in Threads, Work(t)
  PROVE  SearchInv'
<1> USE DEF AnswerInv, SearchInv
<1>0. t \in Scanners /\ t # Main
  BY ConstantFacts
<1>1. /\ UNCHANGED <<config, phase, query, node, leaf_indices, held>>
      /\ pc[t] \notin Scanning
      /\ \A u \in Scanners \ {t} : /\ pc'[u] = pc[u] /\ index'[u] = index[u]
                                   /\ series'[u] = series[u]
      /\ phase \in {"leaves", "exact"}
  BY WorkFrame, WorkTarget DEF main, answer, Scanning
<1>2. ScansSettle'
  <2>1. \A u \in Scanners \ {t} : LeafOf(u)' = LeafOf(u)
    BY <1>1 DEF LeafOf
  <2>2. ASSUME NEW u \in Scanners \ {t}, pc'[u] \in Scanning
        PROVE  /\ \A s \in SeriesOf(LeafOf(u)') : s < series'[u] => Settled(s)'
               /\ pc'[u] = "heapify" => Settled(series[u])'
    BY <1>1, <2>1, <2>2 DEF ScansSettle, Settled, Near
  <2>3. pc'[t] \in Scanning => /\ pc'[t] = "scan"
                               /\ \A s \in SeriesOf(LeafOf(t)') : ~(s < series'[t])
    <3>1. pc'[t] \in Scanning => EnterLeaf(t)
      BY <1>0, <1>1 DEF Work, ClaimLeaves, ClaimIndices, ClaimBlock, MeasureLeaf, ReadBSF, Return,
                        SkipLeaf, NextBlock, Scanning, TypeOK
    <3>2. ASSUME EnterLeaf(t)
          PROVE  /\ pc'[t] = "scan"
                 /\ \A s \in SeriesOf(LeafOf(t)') : ~(s < series'[t])
      <4>1. index[t] \in Leaves
        BY <1>0, <3>2, ConstantFacts DEF EnterLeaf, TypeOK, Leaves
      <4>2. leaf_indices[index[t]] \in Leaves /\ LeafOf(t)' = leaf_indices[index[t]]
        BY <1>0, <3>2, <4>1 DEF EnterLeaf, LeafOf, leaves, TypeOK
      <4>3. pc'[t] = "scan" /\ series'[t] = StartId[leaf_indices[index[t]]]
        BY <1>0, <3>2 DEF EnterLeaf, Enter, TypeOK
      <4> QED BY <4>2, <4>3, LeafFacts
    <3> QED BY <3>1, <3>2
  <2> QED BY <2>2, <2>3 DEF ScansSettle
<1>3. NodeSettled'
  BY <1>0, <1>1, ConstantFacts DEF NodeSettled, LeafSettled, Settled, Near
<1>4. Searched'
  <2>1. Limited' = Limited
    BY <1>1, WorkFrame DEF Limited
  <2> QED BY <1>1, <2>1, WorkSearched DEF Searched
<1>5. Reported'
  BY <1>1 DEF Reported
<1>6. CountedHeld'
  <2>1. counted' = counted /\ \A u \in Scanners : pc[u] = "update" => pc'[u] = "update"
    BY <1>1, WorkFrame DEF Scanning
  <2> QED BY <1>1, <2>1 DEF CountedHeld
<1> QED BY <1>2, <1>3, <1>4, <1>5, <1>6

\* The main thread enters a leaf while no other thread is at work.
LEMMA EnterSearch ==
  ASSUME TypeOK, NEW l \in Leaves, Enter(Main, l), node' = l, phase' \in {"resident", "nearest"},
         pc' = [pc EXCEPT ![Main] = "scan"], \A t \in Threads : pc[t] = "idle", CountedHeld'
  PROVE  SearchInv'
<1>1. pc'[Main] = "scan" /\ \A t \in Threads : pc'[t] = "idle"
  BY ConstantFacts DEF TypeOK
<1>2. series'[Main] = StartId[l] /\ LeafOf(Main)' = l
  BY ConstantFacts DEF Enter, TypeOK, LeafOf
<1>3. \A s \in SeriesOf(l) : ~(s < StartId[l])
  BY LeafFacts
<1>4. ScansSettle'
  BY <1>1, <1>2, <1>3, ConstantFacts DEF ScansSettle, Scanning
<1> QED BY <1>1, <1>4 DEF SearchInv, NodeSettled, Searched, Reported

LEMMA ConductSearch ==
  ASSUME AnswerInv, LeavesInv, SearchInv, ConductQueries
  PROVE  SearchInv'
<1> USE DEF AnswerInv, SearchInv
<1> DEFINE Quiet == \A t \in Scanners : pc[t] \in {"idle", "claim"}
<1>0. Quiet' => ScansSettle'
  BY ConstantFacts DEF ScansSettle, Scanning
<1>1. config' = config /\ [Next]_vars
  BY ConductFrame DEF Next
<1>2. CASE StartQuery
  <2>0. CountedHeld'
    BY <1>2 DEF StartQuery, CountedHeld
  <2>1. \A t \in Scanners : pc[t] = "idle"
    BY <1>2, IdleByPhase DEF StartQuery, Scanners
  <2>2. CASE node' \in Leaves
    BY <1>2, <2>0, <2>1, <2>2, EnterSearch, ConstantFacts DEF StartQuery
  <2>3. CASE node' \notin Leaves
    BY <1>0, <1>2, <2>0, <2>1, <2>3 DEF StartQuery, NodeSettled, Searched, Reported
  <2> QED BY <2>2, <2>3
<1>3. CASE SearchNearestLeaf
  <2>1. leaf_indices[0] \in Leaves
    BY ConstantFacts DEF TypeOK, Leaves
  <2>2. CountedHeld'
    <3>1. \A t \in Scanners : pc[t] = "idle"
      BY <1>3, IdleByPhase DEF SearchNearestLeaf, Scanners
    <3> QED BY <1>3, <3>1, QuietCounted DEF SearchNearestLeaf, answer
  <2> QED BY <1>3, <2>1, <2>2, IdleByPhase, EnterSearch DEF SearchNearestLeaf
<1>4. CASE Report
  BY <1>0, <1>4, IdleByPhase DEF Report, NoThreads, Scanners, NodeSettled, Searched, Reported,
                                 CountedHeld
<1>5. CASE MeasureLeaves \/ JoinLeaves \/ NearestLeafSearched \/ SearchExactly \/ JoinQuery
  <2>1. /\ node' = node /\ phase # "start" /\ phase # "report" /\ phase' # "start"
        /\ phase' \in {"leaves", "sorted", "exact", "report"}
        /\ query' = query /\ held' = held /\ counted' = counted
    BY <1>5, StartThreadsFacts DEF NoThreads, MeasureLeaves, JoinLeaves, NearestLeafSearched, SearchExactly, JoinQuery, StartExact,
                answer
  <2>2. \A t \in Scanners : pc[t] = "idle"
    BY <1>5, IdleByPhase DEF MeasureLeaves, JoinLeaves, NearestLeafSearched, SearchExactly, JoinQuery,
                Joined, Scanners
  <2>3. StartThreads \/ NoThreads
    BY <1>5 DEF MeasureLeaves, JoinLeaves, NearestLeafSearched, SearchExactly, JoinQuery, StartExact
  <2>4. Quiet'
    BY <2>2, <2>3, StartThreadsFacts DEF NoThreads, Scanners
  <2>5. NodeSettled'
    BY <2>1, <2>2, ConstantFacts DEF NodeSettled, LeafSettled, Settled, Near
  <2>6. Searched'
    <3> SUFFICES ASSUME phase' = "exact" PROVE Searched'
      BY DEF Searched
    <3>1. StartThreads
      BY <1>5, <2>1 DEF MeasureLeaves, JoinLeaves, NearestLeafSearched, SearchExactly, JoinQuery,
                        StartExact
    <3>2. \A p \in Leaves : p >= 0
      BY LeafFacts
    <3> QED BY <3>1, <3>2, StartThreadsFacts DEF Searched, Busy, Scanning
  <2>7. Reported'
    <3> SUFFICES ASSUME phase' = "report" PROVE Reported'
      BY DEF Reported
    <3>1. Exact <=> config.exact_search
      <4>1. VALUE_MAX # 0 /\ local_bsf = VALUE_MAX /\ config.exact_search \in BOOLEAN
        BY <2>1, QueryFacts, QueryAssumption DEF FreshAnswer, TypeOK
      <4> QED BY <4>1 DEF Exact
    <3>2. CASE MeasureLeaves \/ SearchExactly
      BY <1>1, <2>1, <3>1, <3>2 DEF MeasureLeaves, SearchExactly, StartExact, Reported
    <3>3. CASE NearestLeafSearched
      <4>1. node \in Leaves
        BY <3>3, ConstantFacts DEF NearestLeafSearched, LeavesInv, Ordered, TypeOK, Leaves
      <4> QED BY <1>1, <2>1, <3>1, <3>3, <4>1, QueryAssumption
              DEF NearestLeafSearched, StartExact, Reported
    <3>4. CASE JoinQuery
      <4>1. 1 \in Threads /\ phase = "exact" /\ \A t \in Threads : pc[t] = "idle"
        BY <2>2, <3>4, ConstantFacts DEF JoinQuery
      <4>0. Limited' = Limited
        BY <1>1, <2>1 DEF Limited
      <4>2. ~Limited => \A p \in Leaves : LeafSettled(leaf_indices[p])
        BY <4>1 DEF Searched, Busy, Scanning
      <4>3. ~Limited => \A l \in Leaves : LeafSettled(l)
        BY <4>2 DEF LeavesInv, Ordered, IsOrder
      <4>4. ~Limited' => \A l \in Leaves : LeafSettled(l)'
        BY <2>1, <4>0, <4>3 DEF LeafSettled, Settled, Near
      <4> QED BY <2>1, <4>1, <4>4 DEF LeavesInv, Ordered, Reported
    <3> QED BY <1>5, <3>2, <3>3, <3>4 DEF JoinLeaves
  <2>8. CountedHeld'
    BY <2>1, <2>2, QuietCounted
  <2> QED BY <1>0, <2>4, <2>5, <2>6, <2>7, <2>8
<1> QED BY <1>2, <1>3, <1>4, <1>5 DEF ConductQueries

LEMMA SearchInit ==
  Init => SearchInv
BY ConstantFacts DEF Init, SearchInv, ScansSettle, NodeSettled, Searched, Reported, Scanning,
                  CountedHeld

LEMMA IInvHolds ==
  ASSUME \A q \in Queries : Bounding(q)
  PROVE  Spec => []IInv
<1>1. IInv /\ [Next]_vars => IInv'
  <2> SUFFICES ASSUME IInv, [Next]_vars PROVE IInv'
    OBVIOUS
  <2> USE DEF IInv
  <2>1. Bounding(query)
    BY DEF AnswerInv, TypeOK
  <2>2. AnswerInv'
    BY AnswerInvNext
  <2>3. LeavesInv'
    <3>1. CASE UNCHANGED vars
      BY <3>1 DEF vars, main, leaves, LeavesInv, LeavesMeasured, Measured, Ordered, IsOrder, Ascending
    <3> QED BY <3>1, ScanLeaves, WorkLeaves, ConductLeaves DEF AnswerInv, Next, Terminated
  <2>4. SearchInv'
    <3>1. CASE UNCHANGED vars
      BY <3>1 DEF vars, main, leaves, answer, scan, SearchInv, ScansSettle, NodeSettled, Searched,
                  Reported, LeafSettled, Settled, Near, LeafOf, Limited, CountedHeld
    <3> QED BY <2>1, <3>1, ScanSearch, WorkSearch, ConductSearch DEF Next, Terminated
  <2> QED BY <2>2, <2>3, <2>4
<1>2. Init => IInv
  BY AnswerInvInit, LeavesInit, SearchInit DEF IInv
<1> QED BY <1>1, <1>2, PTL DEF Spec

\* If distances to summaries bound those to series from below, an exact search
\* reports the nearest series: for every number of threads, leaves, series and
\* answers, every setting and every interleaving of conductQueries' threads.
THEOREM ExactSearchFindsNearest ==
  ASSUME \A q \in Queries : Bounding(q)
  PROVE  Spec => []NearestFound
<1>1. IInv => NearestFound
  <2> SUFFICES ASSUME IInv, phase = "report", config.exact_search, ~Limited, NEW s \in Series
               PROVE  \E n \in held : query.l2Square[n] <= query.l2Square[s]
    BY DEF NearestFound
  <2>1. PICK l \in Leaves : s \in SeriesOf(l)
    BY LeavesCover
  <2> QED BY <2>1 DEF IInv, SearchInv, Reported, LeafSettled, Settled, Near
<1> QED BY <1>1, IInvHolds, PTL

\* Under the same assumption every query is answered, but an approximate one
\* whose resident leaf is empty.
THEOREM EveryQueryAnswered ==
  ASSUME \A q \in Queries : Bounding(q)
  PROVE  Spec => []AnsweredUnlessLeafEmpty
<1>1. IInv => AnsweredUnlessLeafEmpty
  <2> SUFFICES ASSUME IInv, phase = "report", held = {}
               PROVE  ~config.exact_search /\ node = EmptyLeaf
    BY DEF AnsweredUnlessLeafEmpty
  <2> USE DEF IInv, AnswerInv, SearchInv
  <2>1. \A l \in Leaves : ~LeafSettled(l)
    <3>1. \A l \in Leaves : StartId[l] \in SeriesOf(l)
      BY LeafFacts DEF SeriesOf
    <3> QED BY <3>1 DEF LeafSettled, Settled, Near
  <2>0. ~Limited
    <3>1. \A t \in Scanners : pc[t] = "idle"
      BY IdleByPhase DEF Scanners
    <3>2. ~(counted > 0)
      BY <3>1 DEF CountedHeld
    <3>3. counted \in Nat /\ config.series_limitations \in Nat
      BY QueryAssumption DEF TypeOK
    <3> QED BY <3>2, <3>3 DEF Limited
  <2>2. ~config.exact_search
    BY <2>0, <2>1, ConstantFacts DEF Reported, Leaves
  <2>3. node \notin Leaves
    BY <2>1, IdleByPhase DEF NodeSettled
  <2> QED BY <2>2, <2>3 DEF Reported, TypeOK
<1> QED BY <1>1, IInvHolds, PTL

----------------------------------------------------------------------------
(* OnceInv is inductive *)

\* Leaves have no series in common: the first leaf that starts before the end
\* of one ahead of it does not exist.
LEMMA LeavesApart ==
  ASSUME NEW l \in Leaves, NEW m \in Leaves, l # m
  PROVE  SeriesOf(l) \cap SeriesOf(m) = {}
<1>1. ASSUME NEW a \in Leaves, NEW b \in Leaves, a < b
      PROVE  StartId[a + 1] <= StartId[b]
  <2> DEFINE Early == {c \in a + 1 .. NumLeaves : StartId[c] < StartId[a + 1]}
  <2>1. SUFFICES ASSUME ~(StartId[a + 1] <= StartId[b]) PROVE FALSE
    OBVIOUS
  <2>2. a \in Nat /\ b \in Nat /\ b < NumLeaves /\ a + 1 <= b
        /\ StartId[a + 1] \in Nat /\ StartId[b] \in Nat
    BY <1>1, LeafFacts, ConstantFacts
  <2>3. b \in Early
    BY <2>1, <2>2, ConstantFacts
  <2>4. Early \subseteq Nat /\ Early # {}
    BY <2>2, <2>3, ConstantFacts
  <2>5. PICK c \in Early : \A d \in Early : ~(<<d, c>> \in OpToRel(<, Nat))
    BY <2>4, WFMin, NatLessThanWellFounded
  <2>6. \A d \in Early : ~(d < c)
    BY <2>4, <2>5 DEF OpToRel
  <2>7. c \in Nat /\ a + 1 <= c /\ c <= NumLeaves /\ StartId[c] < StartId[a + 1]
    BY <2>2, ConstantFacts
  <2>8. c # a + 1
    BY <2>2, <2>7
  <2>9. c - 1 \in Leaves /\ c - 1 \in a + 1 .. NumLeaves /\ c - 1 < c /\ (c - 1) + 1 = c
    BY <2>2, <2>7, <2>8, ConstantFacts DEF Leaves
  <2>10. StartId[c - 1] < StartId[c] /\ StartId[c - 1] \in Nat /\ StartId[c] \in Nat
    BY <2>9, LeafFacts, ConstantFacts
  <2>11. c - 1 \in Early
    BY <2>2, <2>7, <2>9, <2>10
  <2> QED BY <2>6, <2>9, <2>11
<1>2. ASSUME NEW a \in Leaves, NEW b \in Leaves, a < b, NEW s \in SeriesOf(a), s \in SeriesOf(b)
      PROVE  FALSE
  <2>1. s \in Nat /\ s < StartId[a + 1] /\ StartId[b] <= s
    BY <1>2, LeafFacts
  <2>2. StartId[a + 1] \in Nat /\ StartId[b] \in Nat /\ StartId[a + 1] <= StartId[b]
    BY <1>1, <1>2, LeafFacts, ConstantFacts
  <2> QED BY <2>1, <2>2
<1>3. l < m \/ m < l
  BY LeafFacts
<1> QED BY <1>2, <1>3

\* Any part of the database is finite.
LEMMA HeldFinite ==
  ASSUME TypeOK
  PROVE  IsFiniteSet(held) /\ Cardinality(held) \in Nat
<1>1. IsFiniteSet(Series)
  BY ConstantFacts, FS_Interval DEF Series
<1> QED BY <1>1, FS_Subset, FS_CardinalityType DEF TypeOK

\* A step of a scan holds no series but its current one, and that one only once.
LEMMA ScanHeld ==
  ASSUME TypeOK, InRange, BoundIsWorstHeld, NoSeriesTwice, AheadFresh, NEW t \in Scanners, Scan(t)
  PROVE  /\ NoSeriesTwice'
         /\ held' \subseteq held \cup {series[t]}
         /\ held' \subseteq held \/ (series[t] \in SeriesOf(LeafOf(t)) /\ pc[t] = "update")
<1>1. CASE CheckSeries(t) \/ LeaveLeaf(t) \/ KeepAnswers(t) \/ Heapify(t)
  BY <1>1 DEF CheckSeries, LeaveLeaf, KeepAnswers, Heapify, answer, NoSeriesTwice
<1>2. ASSUME pc[t] = "update"
      PROVE  series[t] \in SeriesOf(LeafOf(t)) /\ series[t] \notin held
  <2>1. pc[t] \in Scanning /\ pc[t] # "scan" /\ pc[t] # "heapify"
    BY <1>2 DEF Scanning
  <2>2. series[t] \in SeriesOf(LeafOf(t))
    BY <2>1, SeriesInRange DEF InRange
  <2> QED BY <2>1, <2>2 DEF AheadFresh
<1>3. CASE AddAnswer(t)
  <2>1. held' = held \cup {series[t]} /\ size' = size + 1 /\ pc[t] = "update"
    BY <1>3 DEF AddAnswer
  <2>2. Cardinality(held \cup {series[t]}) = Cardinality(held) + 1
    BY <1>2, <2>1, HeldFinite, FS_AddElement
  <2> QED BY <1>2, <2>1, <2>2 DEF NoSeriesTwice
<1>4. CASE ReplaceAnswer(t)
  <2>1. PICK worst \in Worst : held' = (held \ {worst}) \cup {series[t]}
    BY <1>4 DEF ReplaceAnswer
  <2>2. worst \in held /\ size' = size /\ pc[t] = "update"
    BY <1>4 DEF ReplaceAnswer, Worst
  <2>3. IsFiniteSet(held \ {worst}) /\ Cardinality(held \ {worst}) = Cardinality(held) - 1
    BY <2>2, HeldFinite, FS_RemoveElement
  <2>4. series[t] \notin held \ {worst}
    BY <1>2, <2>2
  <2>5. Cardinality(held') = Cardinality(held \ {worst}) + 1
    BY <2>1, <2>3, <2>4, FS_AddElement
  <2>6. Cardinality(held) \in Nat
    BY HeldFinite
  <2>7. Cardinality(held') = Cardinality(held)
    BY <2>3, <2>5, <2>6
  <2> QED BY <1>2, <2>1, <2>2, <2>7 DEF NoSeriesTwice
<1> QED BY <1>1, <1>3, <1>4 DEF Scan

\* A scan is past its series when it has held it.
LEMMA ScanPasses ==
  ASSUME TypeOK, InRange, NEW t \in Scanners, Scan(t), pc'[t] \in Scanning
  PROVE  /\ series[t] \in Nat /\ series'[t] \in Nat
         /\ \/ series'[t] = series[t] /\ (held' = held \/ pc'[t] = "heapify")
               /\ (pc[t] = "heapify" => pc'[t] = "heapify")
            \/ series'[t] = series[t] + 1
         /\ LeafOf(t)' = LeafOf(t)
<1>1. /\ UNCHANGED <<node, leaf_indices>> /\ pc[t] \in Scanning
  BY ScanFrame DEF main, leaves
<1>2. series[t] \in Nat
  BY <1>1, SeriesInRange, ConstantFacts
<1> USE DEF TypeOK, LeafOf
<1>3. CASE CheckSeries(t)
  BY <1>1, <1>2, <1>3 DEF CheckSeries, answer
<1>4. CASE LeaveLeaf(t)
  BY <1>1, <1>4 DEF LeaveLeaf, Scanning
<1>5. CASE AddAnswer(t)
  BY <1>1, <1>2, <1>5 DEF AddAnswer, Proceed
<1>6. CASE ReplaceAnswer(t)
  BY <1>1, <1>2, <1>6 DEF ReplaceAnswer, scan
<1>7. CASE Heapify(t)
  BY <1>1, <1>2, <1>7 DEF Heapify, Proceed
<1>8. CASE KeepAnswers(t)
  BY <1>1, <1>2, <1>8 DEF KeepAnswers, Proceed
<1> QED BY <1>3, <1>4, <1>5, <1>6, <1>7, <1>8 DEF Scan

LEMMA ScanOnce ==
  ASSUME AnswerInv, LeavesInv, OnceInv, NEW t \in Scanners, Scan(t)
  PROVE  OnceInv'
<1> USE DEF AnswerInv, OnceInv
<1>0. t = Main \/ t \in Threads
  BY DEF Scanners
<1>1. /\ UNCHANGED <<phase, node, leaf_indices, shared_leaf_id, stop>>
      /\ pc[t] \in Scanning
      /\ t = Main => UNCHANGED index
      /\ \A u \in Scanners \ {t} : pc'[u] = pc[u] /\ index'[u] = index[u] /\ series'[u] = series[u]
  BY ScanFrame DEF main, leaves
<1>2. /\ NoSeriesTwice'
      /\ held' \subseteq held \cup {series[t]}
      /\ held' \subseteq held \/ (series[t] \in SeriesOf(LeafOf(t)) /\ pc[t] = "update")
  BY ScanHeld
<1>3. LeafOf(t) \in Leaves
  BY <1>1, SeriesInRange
<1>4. ASSUME NEW l \in Leaves, l # LeafOf(t), NEW s \in SeriesOf(l), s \notin held
      PROVE  s \notin held'
  BY <1>2, <1>3, <1>4, LeavesApart
<1>5. phase \in {"resident", "nearest"} => t = Main
  BY <1>0, <1>1 DEF Placed, Scanning
<1>6. t = Main => phase \in {"resident", "nearest"} /\ LeafOf(t) = node
  BY <1>1 DEF Placed, Scanning, LeafOf
<1>7. t \in Threads => phase = "exact" /\ index[t] \in Leaves /\ index[t] < stop[t]
                       /\ LeafOf(t) = leaf_indices[index[t]] /\ t # Main
  <2>1. ASSUME t \in Threads PROVE index[t] < stop[t] /\ index[t] \in 0 .. NumLeaves
                                   /\ stop[t] \in 0 .. NumLeaves
    BY <1>1, <2>1 DEF InRange, TypeOK
  <2>2. ASSUME t \in Threads PROVE index[t] \in Leaves
    BY <2>1, <2>2, ConstantFacts DEF Leaves
  <2> QED BY <1>1, <2>1, <2>2, ConstantFacts DEF Placed, Scanning, Busy, LeafOf
<1>8. ASSUME t \in Threads
      PROVE  /\ index'[t] \in Nat /\ index[t] \in Nat
             /\ index'[t] = index[t] \/ (index'[t] = index[t] + 1 /\ pc'[t] = "test")
             /\ pc'[t] \in Busy /\ pc'[t] \notin {"read"}
             /\ pc'[t] \in Scanning => index'[t] = index[t]
  <2>1. index[t] \in Nat /\ t # Main
    BY <1>7, <1>8, LeafFacts
  <2> USE DEF Busy, Scanning, TypeOK
  <2>2. CASE CheckSeries(t)
    BY <2>1, <2>2 DEF CheckSeries
  <2>3. CASE LeaveLeaf(t)
    BY <2>1, <2>3 DEF LeaveLeaf
  <2>4. CASE AddAnswer(t)
    BY <2>1, <2>4 DEF AddAnswer, Proceed
  <2>5. CASE ReplaceAnswer(t)
    BY <2>1, <2>5 DEF ReplaceAnswer
  <2>6. CASE Heapify(t)
    BY <2>1, <2>6 DEF Heapify, Proceed
  <2>7. CASE KeepAnswers(t)
    BY <2>1, <2>7 DEF KeepAnswers, Proceed
  <2> QED BY <2>2, <2>3, <2>4, <2>5, <2>6, <2>7 DEF Scan
<1>9. \A u \in Threads : u # t => pc'[u] = pc[u] /\ index'[u] = index[u]
  BY <1>1, ConstantFacts
<1>10. /\ shared_leaf_id \in Nat /\ \A u \in Threads : stop[u] \in Nat /\ index[u] \in Nat
       /\ \A p \in Leaves : p \in Nat
  BY LeafFacts, ConstantFacts DEF TypeOK
\* No other thread is in the same leaf.
<1>11. ASSUME NEW u \in Scanners, u # t, pc[u] \in Scanning
       PROVE  LeafOf(u) # LeafOf(t)
  <2>1. u = Main \/ u \in Threads
    BY DEF Scanners
  <2>2. u \in Threads /\ t \in Threads
    BY <1>0, <1>6, <1>7, <1>11, <2>1 DEF Placed, Scanning
  <2>3. index[u] < stop[u] /\ index[u] \in 0 .. NumLeaves /\ stop[u] \in 0 .. NumLeaves
    BY <1>11, <2>2 DEF InRange, TypeOK
  <2>4. index[u] \in Leaves
    BY <2>3, ConstantFacts DEF Leaves
  <2>5. stop[t] <= index[u] \/ stop[u] <= index[t]
    BY <1>1, <1>7, <1>11, <2>2 DEF BlocksDisjoint, Busy
  <2>6. index[u] # index[t]
    BY <1>7, <1>10, <2>2, <2>3, <2>5
  <2> QED BY <1>7, <2>2, <2>4, <2>6, ConstantFacts DEF LeavesInv, Ordered, IsOrder, LeafOf
<1>12. AheadFresh'
  <2> SUFFICES ASSUME NEW u \in Scanners, pc'[u] \in Scanning, NEW s \in SeriesOf(LeafOf(u)'),
                      s > series'[u] \/ (s = series'[u] /\ pc'[u] # "heapify")
               PROVE  s \notin held'
    BY DEF AheadFresh
  <2>1. CASE u = t
    <3>1. /\ series[t] \in Nat /\ series'[t] \in Nat
          /\ \/ series'[t] = series[t] /\ (held' = held \/ pc'[t] = "heapify")
                /\ (pc[t] = "heapify" => pc'[t] = "heapify")
             \/ series'[t] = series[t] + 1
          /\ LeafOf(t)' = LeafOf(t)
      BY <2>1, ScanPasses
    <3>2. s \in SeriesOf(LeafOf(t)) /\ s \in Nat
      BY <1>3, <2>1, <3>1, LeafFacts
    <3>3. CASE s > series[t]
      <4>1. s \notin held
        BY <1>1, <3>2, <3>3 DEF AheadFresh
      <4> QED BY <1>2, <3>1, <3>2, <3>3, <4>1
    <3>4. CASE ~(s > series[t])
      <4>1. series'[t] = series[t] /\ s = series[t] /\ pc'[t] # "heapify"
        BY <2>1, <3>1, <3>2, <3>4
      <4>2. held' = held /\ pc[t] # "heapify"
        BY <3>1, <4>1
      <4> QED BY <1>1, <3>2, <4>1, <4>2 DEF AheadFresh
    <3> QED BY <3>3, <3>4
  <2>2. CASE u # t
    <3>1. pc[u] \in Scanning /\ pc'[u] = pc[u] /\ series'[u] = series[u] /\ LeafOf(u)' = LeafOf(u)
      BY <1>1, <2>2 DEF LeafOf
    <3>2. LeafOf(u) \in Leaves /\ s \in SeriesOf(LeafOf(u)) /\ s \notin held
      BY <3>1, SeriesInRange DEF AheadFresh
    <3>3. LeafOf(u) # LeafOf(t)
      BY <1>11, <2>2, <3>1
    <3> QED BY <1>4, <3>2, <3>3
  <2> QED BY <2>1, <2>2
<1>13. BlocksDisjoint'
  <2> SUFFICES ASSUME phase = "exact" PROVE BlocksDisjoint'
    BY <1>1 DEF BlocksDisjoint
  <2>1. t \in Threads /\ pc[t] \in Busy
    BY <1>0, <1>1, <1>6 DEF Busy
  <2>2. \A u \in Threads : pc'[u] \in Busy => pc[u] \in Busy
    BY <1>9, <2>1
  <2>3. \A u \in Threads : index[u] <= index'[u] /\ index'[u] \in Nat
    BY <1>8, <1>9, <1>10, <2>1
  <2>4. ASSUME NEW u \in Threads, pc'[u] \in Busy
        PROVE  stop'[u] <= shared_leaf_id'
    BY <1>1, <2>2, <2>4 DEF BlocksDisjoint
  <2>5. ASSUME NEW u \in Threads, pc'[u] \in Busy, NEW v \in Threads, v # u, pc'[v] \in Busy
        PROVE  stop'[u] <= index'[v] \/ stop'[v] <= index'[u]
    <3>1. stop[u] <= index[v] \/ stop[v] <= index[u]
      BY <2>2, <2>5 DEF BlocksDisjoint
    <3> QED BY <1>1, <1>10, <2>3, <3>1
  <2> QED BY <2>4, <2>5 DEF BlocksDisjoint
<1>14. LeavesFresh'
  <2>1. ASSUME phase \in {"resident", "leaves", "sorted", "nearest"}, NEW l \in Leaves, l # node
        PROVE  Fresh(l)'
    <3>1. l # LeafOf(t) /\ Fresh(l)
      BY <1>0, <1>6, <1>7, <2>1 DEF LeavesFresh
    <3> QED BY <1>4, <3>1 DEF Fresh
  <2>2. ASSUME phase = "exact", NEW p \in Leaves, Ahead(p)', leaf_indices[p] # node
        PROVE  Fresh(leaf_indices[p])'
    <3>1. t \in Threads
      BY <1>0, <1>6, <2>2
    <3>2. Ahead(p) /\ p # index[t]
      <4>1. CASE p >= shared_leaf_id
        <5>1. stop[t] <= shared_leaf_id
          BY <1>1, <2>2, <3>1 DEF BlocksDisjoint, Busy
        <5> QED BY <1>7, <1>10, <3>1, <4>1, <5>1 DEF Ahead
      <4>2. CASE \E u \in Threads : BeforeIt(u, p)'
        <5>1. PICK u \in Threads : BeforeIt(u, p)'
          BY <4>2
        <5>2. CASE u = t
          <6>1. /\ pc[t] \in Busy /\ index'[t] <= p /\ p < stop[t]
                /\ pc'[t] \in Scanning => index'[t] # p
            BY <1>1, <5>1, <5>2 DEF BeforeIt, Busy
          <6>2. index[t] < p \/ (index[t] = p /\ pc'[t] \notin Scanning /\ index'[t] = index[t])
            BY <1>8, <1>10, <3>1, <6>1
          <6>3. pc'[t] \notin Scanning => index'[t] = index[t] + 1
            <7>1. pc'[t] \notin Scanning => LeaveLeaf(t)
              BY <3>1 DEF Scan, CheckSeries, AddAnswer, ReplaceAnswer, Heapify, KeepAnswers,
                          Proceed, Scanning, TypeOK
            <7> QED BY <1>7, <3>1, <7>1 DEF LeaveLeaf, TypeOK
          <6>4. index[t] < p
            BY <1>10, <3>1, <6>2, <6>3
          <6> QED BY <1>10, <3>1, <6>1, <6>4 DEF BeforeIt, Ahead
        <5>3. CASE u # t
          <6>1. BeforeIt(u, p)
            BY <1>1, <1>9, <5>1, <5>3 DEF BeforeIt
          <6>2. stop[t] <= index[u] \/ stop[u] <= index[t]
            BY <1>1, <2>2, <3>1, <5>3, <6>1 DEF BlocksDisjoint, Busy, BeforeIt
          <6> QED BY <1>7, <1>10, <3>1, <6>1, <6>2 DEF BeforeIt, Ahead
        <5> QED BY <5>2, <5>3
      <4> QED BY <1>1, <2>2, <4>1, <4>2 DEF Ahead
    <3>3. leaf_indices[p] \in Leaves /\ leaf_indices[p] # LeafOf(t)
      BY <1>7, <3>1, <3>2 DEF LeavesInv, Ordered, IsOrder, TypeOK
    <3>4. Fresh(leaf_indices[p])
      BY <2>2, <3>2 DEF LeavesFresh
    <3> QED BY <1>1, <1>4, <3>3, <3>4 DEF Fresh
  <2> QED BY <1>1, <2>1, <2>2 DEF LeavesFresh
<1>15. NodeApart'
  <2> SUFFICES ASSUME NEW u \in Threads, pc'[u] \in Scanning PROVE LeafOf(u)' # node'
    BY DEF NodeApart
  <2>1. pc[u] \in Scanning /\ LeafOf(u)' = LeafOf(u)
    BY <1>1, <1>8, <1>9 DEF LeafOf
  <2> QED BY <1>1, <2>1 DEF NodeApart
<1> QED BY <1>2, <1>12, <1>13, <1>14, <1>15

LEMMA WorkOnce ==
  ASSUME AnswerInv, LeavesInv, OnceInv, NEW t \in Threads, Work(t)
  PROVE  OnceInv'
<1> USE DEF AnswerInv, OnceInv
<1>0. t \in Scanners /\ t # Main
  BY ConstantFacts
<1>1. /\ UNCHANGED <<phase, node, leaf_indices, held, size>>
      /\ pc[t] \in {"claim", "measure", "read", "test"}
      /\ \A u \in Scanners \ {t} : /\ pc'[u] = pc[u] /\ index'[u] = index[u] /\ stop'[u] = stop[u]
                                   /\ series'[u] = series[u]
  BY WorkFrame DEF main, answer
<1>2. /\ shared_leaf_id \in Nat /\ \A u \in Threads : stop[u] \in Nat /\ index[u] \in Nat
      /\ \A p \in Leaves : p \in Nat /\ p < NumLeaves /\ leaf_indices[p] \in Leaves
      /\ \A u \in Threads : u # t => u \in Scanners \ {t}
  BY LeafFacts, ConstantFacts DEF TypeOK
<1>3. NoSeriesTwice'
  BY <1>1 DEF NoSeriesTwice
<1>4. \A l \in Leaves : Fresh(l)' <=> Fresh(l)
  BY <1>1 DEF Fresh
<1>5. ASSUME NEW u \in Scanners, u # t, pc[u] \in Scanning
      PROVE  LeafOf(u)' = LeafOf(u) /\ SeriesOf(LeafOf(u))' = SeriesOf(LeafOf(u))
  BY <1>1, <1>5 DEF LeafOf, SeriesOf
<1>6. CASE phase = "leaves"
  <2>1. \A u \in Scanners : pc'[u] \notin Scanning
    BY <1>6, <1>1, WorkPlaced DEF Placed, Scanning, Scanners
  <2>2. phase' = "leaves"
    BY <1>1, <1>6
  <2>3. AheadFresh'
    BY <2>1 DEF AheadFresh
  <2>4. BlocksDisjoint'
    BY <2>2, Zenon DEF BlocksDisjoint
  <2>5. LeavesFresh'
    <3>1. \A l \in Leaves : l # node => Fresh(l)'
      BY <1>4, <1>6 DEF LeavesFresh
    <3>2. node' = node
      BY <1>1
    <3> QED BY <2>2, <3>1, <3>2, Zenon DEF LeavesFresh
  <2>6. NodeApart'
    BY <2>1, ConstantFacts DEF NodeApart
  <2> QED BY <1>3, <2>3, <2>4, <2>5, <2>6
<1>7. CASE phase # "leaves"
  <2>0. phase = "exact" /\ pc[Main] = "idle"
    BY <1>7, WorkTarget DEF Placed
  <2>1. CASE ClaimIndices(t)
    <3>1. /\ shared_leaf_id' \in Nat /\ shared_leaf_id < shared_leaf_id' /\ pc[t] = "claim"
          /\ shared_leaf_id < NumLeaves =>
               index'[t] = shared_leaf_id /\ pc'[t] = "read" /\ stop'[t] <= shared_leaf_id'
          /\ ~(shared_leaf_id < NumLeaves) => pc'[t] = "idle"
          /\ index'[t] \in Nat /\ stop'[t] \in Nat
      BY <1>0, <1>2, <2>1, BlockFacts, ConstantFacts DEF ClaimIndices, Labels
    <3>2. pc'[t] \notin Scanning /\ (pc'[t] \in Busy => index'[t] = shared_leaf_id
                                                     /\ stop'[t] <= shared_leaf_id')
      BY <3>1 DEF Scanning, Busy
    <3>3. AheadFresh' /\ NodeApart'
      BY <1>1, <1>5, <3>2 DEF AheadFresh, NodeApart, Threads, Scanners, LeafOf
    <3>4. BlocksDisjoint'
      <4>1. ASSUME NEW u \in Threads, pc'[u] \in Busy
            PROVE  stop'[u] <= shared_leaf_id' /\ (u # t => stop'[u] <= shared_leaf_id)
        <5>1. CASE u = t
          BY <3>2, <4>1, <5>1
        <5>2. CASE u # t
          <6>1. stop'[u] = stop[u] /\ stop[u] <= shared_leaf_id
            BY <1>1, <1>2, <2>0, <4>1, <5>2 DEF BlocksDisjoint
          <6> QED BY <1>2, <3>1, <6>1
        <5> QED BY <5>1, <5>2
      <4>2. ASSUME NEW u \in Threads, pc'[u] \in Busy, NEW v \in Threads, v # u, pc'[v] \in Busy
            PROVE  stop'[u] <= index'[v] \/ stop'[v] <= index'[u]
        <5>1. CASE u = t
          BY <3>2, <4>1, <4>2, <5>1
        <5>2. CASE v = t
          BY <3>2, <4>1, <4>2, <5>2
        <5>3. CASE u # t /\ v # t
          BY <1>1, <1>2, <2>0, <4>2, <5>3 DEF BlocksDisjoint
        <5> QED BY <5>1, <5>2, <5>3
      <4> QED BY <4>1, <4>2 DEF BlocksDisjoint
    <3>5. LeavesFresh'
      <4>1. ASSUME NEW p \in Leaves, Ahead(p)' PROVE Ahead(p)
        <5>1. CASE p >= shared_leaf_id'
          BY <1>2, <3>1, <5>1 DEF Ahead
        <5>2. CASE \E u \in Threads : BeforeIt(u, p)'
          <6>1. PICK u \in Threads : BeforeIt(u, p)'
            BY <5>2
          <6>2. CASE u = t
            BY <3>2, <6>1, <6>2 DEF BeforeIt, Ahead
          <6>3. CASE u # t
            BY <1>1, <1>2, <6>1, <6>3 DEF BeforeIt, Ahead
          <6> QED BY <6>2, <6>3
        <5> QED BY <4>1, <5>1, <5>2 DEF Ahead
      <4> QED BY <1>1, <1>2, <1>4, <2>0, <4>1 DEF LeavesFresh
    <3> QED BY <1>3, <3>3, <3>4, <3>5
  <2>2. CASE ~ClaimIndices(t)
    <3>1. /\ shared_leaf_id' = shared_leaf_id /\ stop' = stop /\ pc[t] \in {"read", "test"}
          /\ index'[t] \in {index[t], index[t] + 1}
          /\ pc'[t] \in Scanning => EnterLeaf(t) /\ index' = index
      BY <1>0, <1>1, <2>0, <2>2 DEF Work, ClaimLeaves, MeasureLeaf, ReadBSF, EnterLeaf, Return,
           SkipLeaf, NextBlock, Placed, Busy, Scanning, TypeOK
    <3>2. ASSUME EnterLeaf(t)
          PROVE  /\ index[t] \in Leaves /\ LeafOf(t)' = leaf_indices[index[t]]
                 /\ leaf_indices[index[t]] # node /\ Fresh(leaf_indices[index[t]])
      <4>1. index[t] \in Leaves /\ index[t] < stop[t] /\ Worthwhile(t) /\ pc[t] = "test"
        <5>1. index[t] \in 0 .. NumLeaves /\ stop[t] \in 0 .. NumLeaves /\ index[t] < stop[t]
          BY <1>0, <3>2 DEF EnterLeaf, TypeOK
        <5> QED BY <3>2, <5>1, ConstantFacts DEF EnterLeaf, Leaves
      <4>2. leaf_indices[index[t]] # node
        <5>1. leaf_distances[leaf_indices[index[t]]] < VALUE_MAX
          <6>1. thread_bsf[t] \in Distance \cup {VALUE_MAX}
                /\ leaf_distances[leaf_indices[index[t]]] \in Distance \cup {VALUE_MAX}
            BY <1>0, <1>2, <4>1 DEF TypeOK
          <6>2. \A d \in Distance \cup {VALUE_MAX} : d \in Nat /\ d <= VALUE_MAX
            BY ConstantFacts DEF Distance
          <6> QED BY <4>1, <6>1, <6>2, ConstantFacts DEF Worthwhile
        <5>2. Measured(leaf_indices[index[t]])
          BY <1>2, <2>0, <4>1 DEF LeavesInv, LeavesMeasured
        <5> QED BY <5>1, <5>2, ConstantFacts DEF Measured
      <4>3. BeforeIt(t, index[t])
        BY <1>2, <4>1 DEF BeforeIt, Busy, Scanning
      <4>4. Fresh(leaf_indices[index[t]])
        BY <2>0, <4>1, <4>2, <4>3 DEF LeavesFresh, Ahead
      <4>5. LeafOf(t)' = leaf_indices[index[t]]
        BY <1>0, <1>1, <3>2 DEF LeafOf, EnterLeaf
      <4> QED BY <4>1, <4>2, <4>4, <4>5
    <3>3. AheadFresh'
      <4> SUFFICES ASSUME NEW u \in Scanners, pc'[u] \in Scanning, NEW s \in SeriesOf(LeafOf(u)'),
                          s > series'[u] \/ (s = series'[u] /\ pc'[u] # "heapify")
                   PROVE  s \notin held'
        BY DEF AheadFresh
      <4>1. CASE u = t
        BY <1>1, <3>1, <3>2, <4>1 DEF Fresh
      <4>2. CASE u # t
        BY <1>1, <1>5, <4>2 DEF AheadFresh
      <4> QED BY <4>1, <4>2
    <3>4. NodeApart'
      <4> SUFFICES ASSUME NEW u \in Threads, pc'[u] \in Scanning PROVE LeafOf(u)' # node'
        BY DEF NodeApart
      <4>1. CASE u = t
        BY <1>1, <3>1, <3>2, <4>1
      <4>2. CASE u # t
        BY <1>1, <1>2, <1>5, <4>2 DEF NodeApart
      <4> QED BY <4>1, <4>2
    <3>5. \A u \in Threads : /\ pc'[u] \in Busy => pc[u] \in Busy
                             /\ index[u] <= index'[u] /\ index'[u] \in Nat
      BY <1>1, <1>2, <3>1 DEF Busy
    <3>6. BlocksDisjoint'
      <4>1. ASSUME NEW u \in Threads, pc'[u] \in Busy PROVE stop'[u] <= shared_leaf_id'
        BY <2>0, <3>1, <3>5, <4>1 DEF BlocksDisjoint
      <4>2. ASSUME NEW u \in Threads, pc'[u] \in Busy, NEW v \in Threads, v # u, pc'[v] \in Busy
            PROVE  stop'[u] <= index'[v] \/ stop'[v] <= index'[u]
        <5>1. stop[u] <= index[v] \/ stop[v] <= index[u]
          BY <2>0, <3>5, <4>2 DEF BlocksDisjoint
        <5> QED BY <1>2, <3>1, <3>5, <5>1
      <4> QED BY <4>1, <4>2 DEF BlocksDisjoint
    <3>7. LeavesFresh'
      <4>1. ASSUME NEW p \in Leaves, Ahead(p)' PROVE Ahead(p)
        <5>1. CASE p >= shared_leaf_id'
          BY <3>1, <5>1 DEF Ahead
        <5>2. CASE \E u \in Threads : BeforeIt(u, p)'
          <6>1. PICK u \in Threads : BeforeIt(u, p)'
            BY <5>2
          <6>2. pc[u] \in Busy /\ index[u] <= p /\ p < stop[u]
            BY <1>2, <3>1, <3>5, <6>1 DEF BeforeIt
          <6>3. CASE u = t
            <7>1. pc[u] \notin Scanning
              BY <3>1, <6>3 DEF Scanning
            <7> QED BY <6>2, <7>1 DEF BeforeIt, Ahead
          <6>4. CASE u # t
            BY <1>1, <1>2, <6>1, <6>4 DEF BeforeIt, Ahead
          <6> QED BY <6>3, <6>4
        <5> QED BY <4>1, <5>1, <5>2 DEF Ahead
      <4> QED BY <1>1, <1>2, <1>4, <2>0, <4>1 DEF LeavesFresh
    <3> QED BY <1>3, <3>3, <3>4, <3>6, <3>7
  <2> QED BY <2>1, <2>2
<1> QED BY <1>6, <1>7

\* The main thread enters a leaf that is fresh.
LEMMA EnterOnce ==
  ASSUME TypeOK, NoSeriesTwice, NEW l \in Leaves, Enter(Main, l), node' = l,
         pc' = [pc EXCEPT ![Main] = "scan"], UNCHANGED <<held, size>>,
         phase' \in {"resident", "nearest"}, \A t \in Threads : pc[t] = "idle",
         \A m \in Leaves : Fresh(m)
  PROVE  OnceInv'
<1>1. \A t \in Threads : pc'[t] = "idle"
  BY ConstantFacts DEF TypeOK
<1>2. LeafOf(Main)' = l /\ \A m \in Leaves : Fresh(m)'
  BY DEF LeafOf, Fresh
<1>3. NoSeriesTwice'
  BY DEF NoSeriesTwice
<1>4. AheadFresh'
  <2> SUFFICES ASSUME NEW u \in Scanners, pc'[u] \in Scanning, NEW s \in SeriesOf(LeafOf(u)')
               PROVE  s \notin held'
    BY DEF AheadFresh
  <2>1. u = Main
    BY <1>1 DEF Scanners, Scanning
  <2> QED BY <1>2, <2>1 DEF Fresh
<1> QED BY <1>1, <1>2, <1>3, <1>4
       DEF OnceInv, BlocksDisjoint, LeavesFresh, NodeApart, Scanning

LEMMA ConductOnce ==
  ASSUME AnswerInv, LeavesInv, OnceInv, ConductQueries
  PROVE  OnceInv'
<1> USE DEF AnswerInv, OnceInv
<1> DEFINE Quiet == \A t \in Scanners : pc[t] \in {"idle", "claim"}
<1>0. Quiet' => AheadFresh' /\ BlocksDisjoint' /\ NodeApart'
  BY ConstantFacts DEF AheadFresh, BlocksDisjoint, NodeApart, Scanning, Busy
<1>1. CASE StartQuery
  <2>1. /\ \A t \in Scanners : pc[t] = "idle" /\ held = {}
        /\ UNCHANGED <<held, size>> /\ phase' = "resident"
    BY <1>1, IdleByPhase DEF StartQuery, Scanners, FreshAnswer, answer
  <2>2. \A m \in Leaves : Fresh(m) /\ Fresh(m)'
    BY <2>1, ConstantFacts DEF Fresh
  <2>3. CASE node' \in Leaves
    BY <1>1, <2>1, <2>2, <2>3, EnterOnce, ConstantFacts DEF StartQuery
  <2>4. CASE node' \notin Leaves
    <3>1. Quiet' /\ NoSeriesTwice'
      BY <1>1, <2>1, <2>4 DEF StartQuery, NoSeriesTwice
    <3>2. LeavesFresh'
      BY <2>1, <2>2 DEF LeavesFresh
    <3> QED BY <1>0, <3>1, <3>2
  <2> QED BY <2>3, <2>4
<1>2. CASE SearchNearestLeaf
  <2>1. leaf_indices[0] \in Leaves
    BY ConstantFacts DEF TypeOK, Leaves
  <2>2. \A m \in Leaves : Fresh(m)
    BY <1>2, QueryAssumption DEF SearchNearestLeaf, LeavesFresh
  <2>3. /\ \A t \in Threads : pc[t] = "idle"
        /\ UNCHANGED <<held, size>> /\ phase' = "nearest"
    BY <1>2, IdleByPhase DEF SearchNearestLeaf, answer
  <2> QED BY <1>2, <2>1, <2>2, <2>3, EnterOnce DEF SearchNearestLeaf
<1>3. CASE Report
  <2>1. Quiet' /\ held' = {} /\ size' = 0 /\ phase' = "start"
    BY <1>3, IdleByPhase DEF Report, NoThreads, Scanners
  <2>2. NoSeriesTwice'
    BY <2>1, FS_EmptySet DEF NoSeriesTwice
  <2> QED BY <1>0, <2>1, <2>2 DEF LeavesFresh
<1>4. CASE MeasureLeaves \/ JoinLeaves \/ NearestLeafSearched \/ SearchExactly \/ JoinQuery
  <2>1. /\ UNCHANGED <<node, held, size>>
        /\ phase' \in {"leaves", "sorted", "exact", "report"}
        /\ phase' # "report" => phase \in {"resident", "leaves", "sorted", "nearest"}
        /\ StartThreads \/ NoThreads
    BY <1>4 DEF MeasureLeaves, JoinLeaves, NearestLeafSearched, SearchExactly, JoinQuery, StartExact,
                answer
  <2>2. \A t \in Scanners : pc[t] = "idle"
    BY <1>4, IdleByPhase DEF MeasureLeaves, JoinLeaves, NearestLeafSearched, SearchExactly, JoinQuery,
                Joined, Scanners
  <2>3. Quiet' /\ NoSeriesTwice'
    BY <2>1, <2>2, StartThreadsFacts DEF NoThreads, Scanners, NoSeriesTwice
  <2>4. TypeOK'
    BY ConductType
  <2>5. LeavesFresh'
    <3>1. phase' # "report" => \A l \in Leaves : l # node' => Fresh(l)'
      BY <2>1 DEF LeavesFresh, Fresh
    <3>2. \A p \in Leaves : leaf_indices'[p] \in Leaves
      BY <2>4 DEF TypeOK
    <3> QED BY <2>1, <3>1, <3>2 DEF LeavesFresh
  <2> QED BY <1>0, <2>3, <2>5
<1> QED BY <1>1, <1>2, <1>3, <1>4 DEF ConductQueries

\* No series is answered twice: not by the main thread and a thread that searches
\* its leaf again, and not by two threads (queryThread's claims by fetch-and-add).
THEOREM AnswersAreDistinct == Spec => []NoSeriesTwice
<1>1. Init => OnceInv
  <2> SUFFICES ASSUME Init PROVE OnceInv
    OBVIOUS
  <2>1. NoSeriesTwice
    BY FS_EmptySet DEF Init, NoSeriesTwice
  <2> QED BY <2>1, ConstantFacts DEF Init, OnceInv, AheadFresh, BlocksDisjoint, LeavesFresh,
                                     NodeApart, Scanning
<1>2. AnswerInv /\ LeavesInv /\ OnceInv /\ [Next]_vars => OnceInv'
  <2> SUFFICES ASSUME AnswerInv, LeavesInv, OnceInv, [Next]_vars PROVE OnceInv'
    OBVIOUS
  <2>1. CASE UNCHANGED vars
    BY <2>1 DEF vars, main, leaves, answer, scan, OnceInv, NoSeriesTwice, AheadFresh, BlocksDisjoint,
                LeavesFresh, NodeApart, LeafOf, Fresh, Ahead, BeforeIt
  <2> QED BY <2>1, ScanOnce, WorkOnce, ConductOnce DEF Next, Terminated
<1>3. OnceInv => NoSeriesTwice
  BY DEF OnceInv
<1> QED BY <1>1, <1>2, <1>3, LeavesInvHolds, PTL DEF Spec
=============================================================================

------------------------------- MODULE Query -------------------------------
(***************************************************************************)
(* Answering queries: conductQueries with queryNode, leafThread and        *)
(* queryThread (src/src/query/query_engine.c), which share the answer of   *)
(* answer.c.                                                               *)
(*                                                                         *)
(* The tree enters by what queries see of it: the non-empty leaves, each   *)
(* the series from its start_id on (Finalize), and for each query, its     *)
(* resident leaf and the distances from it.  The answer is the set of      *)
(* series whose distances the heap holds, and its top entry; what the heap *)
(* functions do to the other entries is Answer's subject.  queryNode is    *)
(* the loop of queryNodeThreadCore for the main thread, which needs no     *)
(* lock.  The build has PROFILING, without which nothing is limited.       *)
(***************************************************************************)
EXTENDS Integers, FiniteSets

CONSTANTS DatabaseSize,   \* index->database_size
          NumLeaves,      \* index->num_leaves
          StartId,        \* per leaf, its start_id; that of NumLeaves is the end
          MaxThreads,     \* config->max_threads
          K,              \* config->k
          QuerySize,      \* querySet->query_size
          Queries,        \* the queries that may be asked
          Configs,        \* the settings of config's flags
          VALUE_MAX,      \* the macro of globals.h
          NoLeaf,         \* the root of the query's word was freed: node = NULL
          EmptyLeaf       \* the resident leaf has no series

Series   == 0 .. DatabaseSize - 1
Leaves   == 0 .. NumLeaves - 1
Distance == 0 .. VALUE_MAX - 1
SeriesOf(l) == StartId[l] .. StartId[l + 1] - 1

ASSUME QueryAssumption ==
  /\ DatabaseSize \in Nat \ {0} /\ NumLeaves \in Nat \ {0}
  /\ MaxThreads \in Nat \ {0} /\ K \in Nat \ {0} /\ QuerySize \in Nat
  /\ Configs \subseteq [exact_search : BOOLEAN, sort_leaves : BOOLEAN, lower_bounding : BOOLEAN,
                        series_limitations : Nat]
  /\ VALUE_MAX \in Nat
  /\ NoLeaf \notin Leaves /\ EmptyLeaf \notin Leaves /\ NoLeaf # EmptyLeaf

\* Finalize: the leaves' series are consecutive (LeavesAreContiguous).
ASSUME LeavesAssumption ==
  /\ StartId \in [0 .. NumLeaves -> 0 .. DatabaseSize]
  /\ StartId[0] = 0 /\ StartId[NumLeaves] = DatabaseSize
  /\ \A l \in Leaves : StartId[l] < StartId[l + 1]

\* Per query: the squared distances to the series, to their SAX words and to the
\* squeezed leaves, and where the descent along its own word ends.
ASSUME QueriesAssumption ==
  \A q \in Queries :
    /\ q.l2Square \in [Series -> Distance]
    /\ q.l2SquareSAX \in [Series -> Distance]
    /\ q.leaf \in [Leaves -> Distance]
    /\ q.resident \in Leaves \cup {NoLeaf, EmptyLeaf}

\* Distances to summaries bound those to series from below.
Bounding(q) ==
  /\ \A s \in Series : q.l2SquareSAX[s] <= q.l2Square[s]
  /\ \A l \in Leaves : \A s \in SeriesOf(l) : q.leaf[l] <= q.l2Square[s]

Main     == 0
Threads  == 1 .. MaxThreads
Scanners == Threads \cup {Main}
NoWriter == -1

LeafBlockSize  == 1 + NumLeaves \div (2 * MaxThreads)
QueryBlockSize == 2 + NumLeaves \div (8 * MaxThreads)

VARIABLES
  config,           \* exact_search, sort_leaves, lower_bounding, series_limitations
  phase,            \* where conductQueries is
  query,            \* the query it is at,
  asked,            \*   i, the number of queries before it,
  node, local_bsf,  \*   node and local_bsf
  leaf_indices, leaf_distances,
  shared_leaf_id,   \* the counter the threads fetch-and-add
  counted,          \* sum2sax_counter_profiling, or l2square_counter_profiling
  held, size, top,  \* the answer: series held, size and distances[0]
  writer,           \* the thread that holds the write lock
  pc,               \* per thread: where it is,
  index, stop,      \*   index_id and stop_index_id,
  thread_bsf,       \*   queryThread's local_bsf,
  leaf_bsf,         \*   queryNodeThreadCore's local_bsf,
  series, last      \*   current_series and the end of the leaf

main    == <<config, phase, query, asked, node, local_bsf>>
leaves  == <<leaf_indices, leaf_distances>>
answer  == <<held, size, top>>
scan    == <<leaf_bsf, series, last>>
vars    == <<main, leaves, shared_leaf_id, counted, answer, writer, pc, index, stop,
             thread_bsf, scan>>

Phases == {"start", "resident", "leaves", "sorted", "nearest", "exact", "report"}
Labels == {"idle", "claim", "measure", "read", "test", "scan", "update", "heapify"}

TypeOK ==
  /\ config \in Configs
  /\ phase \in Phases
  /\ query \in Queries
  /\ asked \in 0 .. QuerySize
  /\ node \in Leaves \cup {NoLeaf, EmptyLeaf}
  /\ local_bsf \in Distance \cup {VALUE_MAX}
  /\ leaf_indices \in [Leaves -> Leaves]
  /\ leaf_distances \in [Leaves -> Distance \cup {VALUE_MAX}]
  /\ shared_leaf_id \in Nat /\ counted \in Nat
  /\ held \in SUBSET Series
  /\ size \in 0 .. K
  /\ top \in Distance \cup {VALUE_MAX}
  /\ writer \in Scanners \cup {NoWriter}
  /\ pc \in [Scanners -> Labels]
  /\ index \in [Scanners -> 0 .. NumLeaves]
  /\ stop \in [Scanners -> 0 .. NumLeaves]
  /\ thread_bsf \in [Scanners -> Distance \cup {VALUE_MAX}]
  /\ leaf_bsf \in [Scanners -> Distance \cup {VALUE_MAX}]
  /\ series \in [Scanners -> 0 .. DatabaseSize]
  /\ last \in [Scanners -> 0 .. DatabaseSize]

\* leaf_distances is not initialised; VALUE_MAX stands for what it may hold.
Init ==
  /\ config \in Configs
  /\ phase = "start" /\ query \in Queries /\ asked = 0
  /\ node = NoLeaf /\ local_bsf = VALUE_MAX
  /\ leaf_indices = [l \in Leaves |-> l]
  /\ leaf_distances = [l \in Leaves |-> VALUE_MAX]
  /\ shared_leaf_id = 0 /\ counted = 0
  /\ held = {} /\ size = 0 /\ top = VALUE_MAX
  /\ writer = NoWriter
  /\ pc = [t \in Scanners |-> "idle"]
  /\ index = [t \in Scanners |-> 0] /\ stop = [t \in Scanners |-> 0]
  /\ thread_bsf = [t \in Scanners |-> VALUE_MAX]
  /\ leaf_bsf = [t \in Scanners |-> VALUE_MAX]
  /\ series = [t \in Scanners |-> 0] /\ last = [t \in Scanners |-> 0]

Min(a, b) == IF a < b THEN a ELSE b

----------------------------------------------------------------------------
(* queryNode, queryNodeThreadCore and their NotBounding forms *)

\* t enters leaf l: getBSF is called without the lock, and sees distances[0]
\* as it is at this moment, in the middle of another thread's update too.
Enter(t, l) ==
  /\ leaf_bsf' = [leaf_bsf EXCEPT ![t] = top]
  /\ series' = [series EXCEPT ![t] = StartId[l]]
  /\ last' = [last EXCEPT ![t] = StartId[l + 1]]

\* Two distances have to be below the bound; l2SquareEarly gives up on a series
\* only above it.
Promising(t) ==
  /\ config.lower_bounding => query.l2SquareSAX[series[t]] < leaf_bsf[t]
  /\ query.l2Square[series[t]] < leaf_bsf[t]

\* Every series is counted, by one counter or the other; beyond the limit only that
\* it is exceeded matters.
Count == IF counted > config.series_limitations THEN counted ELSE counted + 1

CheckSeries(t) ==
  /\ pc[t] = "scan" /\ series[t] < last[t]
  /\ counted' = Count
  /\ IF Promising(t)
     THEN pc' = [pc EXCEPT ![t] = "update"] /\ UNCHANGED series
     ELSE series' = [series EXCEPT ![t] = @ + 1] /\ UNCHANGED pc
  /\ UNCHANGED <<main, leaves, shared_leaf_id, answer, writer, index, stop,
                 thread_bsf, leaf_bsf, last>>

LeaveLeaf(t) ==
  /\ pc[t] = "scan" /\ series[t] = last[t]
  /\ IF t = Main
     THEN pc' = [pc EXCEPT ![t] = "idle"] /\ UNCHANGED index
     ELSE pc' = [pc EXCEPT ![t] = "test"] /\ index' = [index EXCEPT ![t] = @ + 1]
  /\ UNCHANGED <<main, leaves, shared_leaf_id, counted, answer, writer, stop, thread_bsf, scan>>

\* getBSF under the write lock, and on to the next series.
Proceed(t) ==
  /\ leaf_bsf' = [leaf_bsf EXCEPT ![t] = top']
  /\ series' = [series EXCEPT ![t] = @ + 1]
  /\ pc' = [pc EXCEPT ![t] = "scan"]
  /\ UNCHANGED <<main, leaves, shared_leaf_id, counted, index, stop, thread_bsf, last>>

\* distances[0] when one more distance has moved up from the end of the heap.
TopWith_NotHeapified(distance) == IF size = 0 THEN distance ELSE top
TopWith(distance) == IF size = 0 \/ top < distance THEN distance ELSE top

\* The series that distances[0] belongs to; equals are interchangeable.
Worst_IsBest == {n \in held : \A m \in held : query.l2Square[n] <= query.l2Square[m]}
Worst == {n \in held : query.l2Square[n] = top}

\* checkNUpdateBSF, answer not full: a new entry moves up as far as it must.
AddAnswer(t) ==
  LET distance == query.l2Square[series[t]]
  IN  /\ pc[t] = "update" /\ writer = NoWriter /\ size < K
      /\ held' = held \cup {series[t]}
      /\ size' = size + 1
      /\ top' = TopWith(distance)
      /\ Proceed(t)
      /\ UNCHANGED writer

\* checkNUpdateBSF, answer full: distances[0] is overwritten ...
ReplaceAnswer(t) ==
  LET distance == query.l2Square[series[t]]
  IN  /\ pc[t] = "update" /\ writer = NoWriter /\ size = K /\ distance < top
      /\ \E worst \in Worst : held' = (held \ {worst}) \cup {series[t]}
      /\ top' = distance
      /\ writer' = t
      /\ pc' = [pc EXCEPT ![t] = "heapify"]
      /\ UNCHANGED <<main, leaves, shared_leaf_id, counted, size, index, stop, thread_bsf, scan>>

\* ... and sinks, so that the largest entry is on top again.
Heapify(t) ==
  /\ pc[t] = "heapify"
  /\ \E worst \in held :
       /\ \A s \in held : query.l2Square[s] <= query.l2Square[worst]
       /\ top' = query.l2Square[worst]
  /\ writer' = NoWriter
  /\ Proceed(t)
  /\ UNCHANGED <<held, size>>

\* checkNUpdateBSF, not good enough any more.
KeepAnswers(t) ==
  /\ pc[t] = "update" /\ writer = NoWriter /\ size = K /\ query.l2Square[series[t]] >= top
  /\ UNCHANGED <<answer, writer>>
  /\ Proceed(t)

Scan(t) ==
  \/ CheckSeries(t) \/ LeaveLeaf(t)
  \/ AddAnswer(t) \/ ReplaceAnswer(t) \/ Heapify(t) \/ KeepAnswers(t)

----------------------------------------------------------------------------
(* leafThread *)

\* The end of the block that is claimed next.
BlockStop(block_size) == Min(shared_leaf_id + block_size, NumLeaves)

\* __sync_fetch_and_add of a block and the test of the outer loop.
ClaimBlock(t, block_size, label) ==
  /\ pc[t] = "claim"
  /\ shared_leaf_id' = shared_leaf_id + block_size
  /\ IF shared_leaf_id < NumLeaves
     THEN /\ index' = [index EXCEPT ![t] = shared_leaf_id]
          /\ stop' = [stop EXCEPT ![t] = BlockStop(block_size)]
          /\ pc' = [pc EXCEPT ![t] = label]
     ELSE pc' = [pc EXCEPT ![t] = "idle"] /\ UNCHANGED <<index, stop>>
  /\ UNCHANGED <<main, leaves, counted, answer, writer, thread_bsf, scan>>

ClaimLeaves(t) == phase = "leaves" /\ ClaimBlock(t, LeafBlockSize, "measure")

\* The resident leaf was searched already: no bound is below VALUE_MAX.
MeasureLeaf_ResidentToo(t) ==
  /\ pc[t] = "measure"
  /\ leaf_distances' = [leaf_distances EXCEPT ![index[t]] = query.leaf[index[t]]]
  /\ index' = [index EXCEPT ![t] = @ + 1]
  /\ pc' = [pc EXCEPT ![t] = IF index[t] + 1 < stop[t] THEN "measure" ELSE "claim"]
  /\ UNCHANGED <<main, leaf_indices, shared_leaf_id, counted, answer, writer, stop, thread_bsf,
                 scan>>
MeasureLeaf(t) ==
  /\ pc[t] = "measure"
  /\ leaf_distances' = [leaf_distances EXCEPT ![index[t]] =
                          IF index[t] = node THEN VALUE_MAX ELSE query.leaf[index[t]]]
  /\ index' = [index EXCEPT ![t] = @ + 1]
  /\ pc' = [pc EXCEPT ![t] = IF index[t] + 1 < stop[t] THEN "measure" ELSE "claim"]
  /\ UNCHANGED <<main, leaf_indices, shared_leaf_id, counted, answer, writer, stop, thread_bsf,
                 scan>>

----------------------------------------------------------------------------
(* queryThread *)

ClaimIndices(t) == phase = "exact" /\ ClaimBlock(t, QueryBlockSize, "read")

\* getBSF under the read lock, once per block.
ReadBSF(t) ==
  /\ pc[t] = "read" /\ writer = NoWriter
  /\ thread_bsf' = [thread_bsf EXCEPT ![t] = top]
  /\ pc' = [pc EXCEPT ![t] = "test"]
  /\ UNCHANGED <<main, leaves, shared_leaf_id, counted, answer, writer, index, stop, scan>>

\* The leaf's bound admits a nearer series than those known when its block began.
Worthwhile(t) ==
  LET bound == leaf_distances[leaf_indices[index[t]]]
  IN  bound < thread_bsf[t] \/ (~config.lower_bounding /\ bound < VALUE_MAX)

\* More series were looked at than series_limitations allows, if it limits them.
Limited == config.series_limitations # 0 /\ counted > config.series_limitations

EnterLeaf(t) ==
  /\ pc[t] = "test" /\ index[t] < stop[t] /\ Worthwhile(t) /\ ~Limited
  /\ Enter(t, leaf_indices[index[t]])
  /\ pc' = [pc EXCEPT ![t] = "scan"]
  /\ UNCHANGED <<main, leaves, shared_leaf_id, counted, answer, writer, index, stop, thread_bsf>>

\* The thread returns and drops what it has claimed: in sorted order no later leaf
\* is better, or it gives up.
Return(t) ==
  /\ pc[t] = "test" /\ index[t] < stop[t]
  /\ IF Worthwhile(t) THEN Limited ELSE config.sort_leaves /\ config.lower_bounding
  /\ pc' = [pc EXCEPT ![t] = "idle"]
  /\ UNCHANGED <<main, leaves, shared_leaf_id, counted, answer, writer, index, stop, thread_bsf,
                 scan>>

SkipLeaf(t) ==
  /\ pc[t] = "test" /\ index[t] < stop[t] /\ ~Worthwhile(t)
  /\ ~(config.sort_leaves /\ config.lower_bounding)
  /\ index' = [index EXCEPT ![t] = @ + 1]
  /\ UNCHANGED <<main, leaves, shared_leaf_id, counted, answer, writer, pc, stop, thread_bsf, scan>>

NextBlock_NotClaimed(t) ==
  /\ pc[t] = "test" /\ index[t] = stop[t]
  /\ pc' = [pc EXCEPT ![t] = "read"]
  /\ UNCHANGED <<main, leaves, shared_leaf_id, counted, answer, writer, index, stop, thread_bsf,
                 scan>>
NextBlock(t) ==
  /\ pc[t] = "test" /\ index[t] = stop[t]
  /\ pc' = [pc EXCEPT ![t] = "claim"]
  /\ UNCHANGED <<main, leaves, shared_leaf_id, counted, answer, writer, index, stop, thread_bsf,
                 scan>>

Work(t) ==
  \/ ClaimLeaves(t) \/ MeasureLeaf(t)
  \/ ClaimIndices(t) \/ ReadBSF(t) \/ EnterLeaf(t) \/ Return(t) \/ SkipLeaf(t) \/ NextBlock(t)

----------------------------------------------------------------------------
(* conductQueries *)

\* The descent ends in the resident leaf, which the main thread searches.
\* local_bsf is read before it does.
StartQuery_CountsOn ==
  /\ phase = "start" /\ asked < QuerySize
  /\ node' = query.resident
  /\ local_bsf' = top
  /\ phase' = "resident"
  /\ IF node' \in Leaves
     THEN Enter(Main, node') /\ pc' = [pc EXCEPT ![Main] = "scan"]
     ELSE UNCHANGED <<pc, scan>>
  /\ UNCHANGED <<config, query, asked, leaves, shared_leaf_id, counted, answer, writer, index,
                 stop, thread_bsf>>
StartQuery ==
  /\ phase = "start" /\ asked < QuerySize
  /\ node' = query.resident
  /\ local_bsf' = top
  /\ counted' = 0
  /\ phase' = "resident"
  /\ IF node' \in Leaves
     THEN Enter(Main, node') /\ pc' = [pc EXCEPT ![Main] = "scan"]
     ELSE UNCHANGED <<pc, scan>>
  /\ UNCHANGED <<config, query, asked, leaves, shared_leaf_id, answer, writer, index, stop,
                 thread_bsf>>

Exact_WhenNotFull == config.exact_search /\ ~(size = K)
Exact == config.exact_search /\ ~(local_bsf = 0 /\ size = K)

\* pthread_create of all threads, each with locals of its own.
StartThreads_CounterKept ==
  /\ pc' = [t \in Scanners |-> IF t = Main THEN "idle" ELSE "claim"]
  /\ UNCHANGED <<shared_leaf_id, counted>>
  /\ index' = [t \in Scanners |-> 0] /\ stop' = [t \in Scanners |-> 0]
  /\ thread_bsf' = [t \in Scanners |-> VALUE_MAX]
  /\ leaf_bsf' = [t \in Scanners |-> VALUE_MAX]
  /\ series' = [t \in Scanners |-> 0] /\ last' = [t \in Scanners |-> 0]
StartThreads ==
  /\ pc' = [t \in Scanners |-> IF t = Main THEN "idle" ELSE "claim"]
  /\ shared_leaf_id' = 0 /\ UNCHANGED counted
  /\ index' = [t \in Scanners |-> 0] /\ stop' = [t \in Scanners |-> 0]
  /\ thread_bsf' = [t \in Scanners |-> VALUE_MAX]
  /\ leaf_bsf' = [t \in Scanners |-> VALUE_MAX]
  /\ series' = [t \in Scanners |-> 0] /\ last' = [t \in Scanners |-> 0]

Joined == \A t \in Scanners : pc[t] = "idle"

NoThreads == UNCHANGED <<shared_leaf_id, counted, pc, index, stop, thread_bsf, scan>>

MeasureLeaves ==
  /\ phase = "resident" /\ Joined
  /\ IF Exact \/ node = NoLeaf
     THEN phase' = "leaves" /\ StartThreads
     ELSE phase' = "report" /\ NoThreads
  /\ UNCHANGED <<config, query, asked, node, local_bsf, leaves, answer, writer>>

IsOrder(p) ==
  /\ \A j, k \in Leaves : p[j] = p[k] => j = k
  /\ \A l \in Leaves : \E j \in Leaves : p[j] = l

\* From position from on, bounds do not get smaller.
Ascending(p, from) ==
  \A j, k \in Leaves : from <= j /\ j < k => leaf_distances[p[j]] <= leaf_distances[p[k]]

\* What qSortFirstHalfIndicesBy may make of leaf_indices: with local_bsf at
\* VALUE_MAX, which no bound exceeds, it sorts all of them.
SortedIndices ==
  {p \in {[j \in Leaves |-> leaf_indices[f[j]]] : f \in [Leaves -> Leaves]} :
     IsOrder(p) /\ Ascending(p, 0)}

JoinLeaves ==
  /\ phase = "leaves" /\ Joined
  /\ leaf_indices' \in IF config.sort_leaves THEN SortedIndices ELSE {leaf_indices}
  /\ phase' = "sorted"
  /\ NoThreads
  /\ UNCHANGED <<config, query, asked, node, local_bsf, leaf_distances, answer, writer>>

\* Without a resident leaf the main thread searches the first one.
SearchNearestLeaf ==
  /\ phase = "sorted" /\ node = NoLeaf
  /\ node' = leaf_indices[0]
  /\ leaf_distances' = [leaf_distances EXCEPT ![leaf_indices[0]] = VALUE_MAX]
  /\ phase' = "nearest"
  /\ Enter(Main, leaf_indices[0])
  /\ pc' = [pc EXCEPT ![Main] = "scan"]
  /\ UNCHANGED <<config, query, asked, local_bsf, leaf_indices, shared_leaf_id, counted, answer,
                 writer,
                 index, stop, thread_bsf>>

StartExact ==
  IF Exact THEN phase' = "exact" /\ StartThreads
           ELSE phase' = "report" /\ NoThreads

\* In sorted order the leaf searched goes to where its new bound belongs: behind
\* all others, as local_bsf is not below any of them.
NearestLeafSearched ==
  /\ phase = "nearest" /\ Joined
  /\ leaf_indices' =
       IF config.sort_leaves
       THEN [j \in Leaves |-> leaf_indices[IF j = NumLeaves - 1 THEN 0 ELSE j + 1]]
       ELSE leaf_indices
  /\ StartExact
  /\ UNCHANGED <<config, query, asked, node, local_bsf, leaf_distances, answer, writer>>

SearchExactly ==
  /\ phase = "sorted" /\ node # NoLeaf
  /\ StartExact
  /\ UNCHANGED <<config, query, asked, node, local_bsf, leaves, answer, writer>>

JoinQuery ==
  /\ phase = "exact" /\ Joined
  /\ phase' = "report"
  /\ NoThreads
  /\ UNCHANGED <<config, query, asked, node, local_bsf, leaves, answer, writer>>

\* logAnswer, cleanAnswer and the next query.
Report ==
  /\ phase = "report"
  /\ held' = {} /\ size' = 0 /\ top' = VALUE_MAX
  /\ asked' = asked + 1
  /\ phase' = "start"
  /\ query' \in IF asked + 1 < QuerySize THEN Queries ELSE {query}
  /\ NoThreads
  /\ UNCHANGED <<config, node, local_bsf, leaves, writer>>

ConductQueries ==
  \/ StartQuery \/ MeasureLeaves \/ JoinLeaves \/ SearchNearestLeaf \/ NearestLeafSearched
  \/ SearchExactly \/ JoinQuery \/ Report

Terminated == phase = "start" /\ asked = QuerySize /\ UNCHANGED vars

Next ==
  \/ ConductQueries \/ Terminated
  \/ \E t \in Scanners : Scan(t)
  \/ \E t \in Threads : Work(t)

\* Every thread that can go on does; the rwlock is free again after one step.
Spec ==
  /\ Init /\ [][Next]_vars
  /\ WF_vars(ConductQueries)
  /\ \A t \in Scanners : WF_vars(Scan(t))
  /\ \A t \in Threads : WF_vars(Work(t))

----------------------------------------------------------------------------
(* Properties *)

\* An exact search reports the nearest series, whatever the threads prune by
\* bounds that are stale or read in the middle of an update, and for every k; also
\* one with series_limitations, as long as the limit is not exceeded.
NearestFound ==
  phase = "report" /\ config.exact_search /\ ~Limited =>
    \A s \in Series : \E n \in held : query.l2Square[n] <= query.l2Square[s]

\* Every query gets an answer, an approximate one from the nearest leaf if the
\* root of its word does not exist; only an empty resident leaf leaves an
\* approximate search without one.  Threads that give up have found something.
AnsweredUnlessLeafEmpty ==
  phase = "report" /\ held = {} => ~config.exact_search /\ node = EmptyLeaf

\* No series is answered twice: the resident leaf is not searched again, and no
\* two threads search the same leaf.
NoSeriesTwice == size = Cardinality(held)

\* The bound is the distance of the worst series held, but for the moment
\* between the two writes to distances[0].
BoundIsWorstHeld ==
  /\ held = {} => top = VALUE_MAX
  /\ held # {} /\ writer = NoWriter =>
       /\ \E s \in held : query.l2Square[s] = top
       /\ \A s \in held : query.l2Square[s] <= top

\* When pruning starts all leaf distances belong to this query, none to the one
\* before; the order is a permutation of all leaves, sorted if it has to be,
\* and the leaf searched already is the one that no bound lets in.
LeavesPrepared ==
  phase = "exact" =>
    /\ \A l \in Leaves : leaf_distances[l] = IF l = node THEN VALUE_MAX ELSE query.leaf[l]
    /\ \A l \in Leaves : \E j \in Leaves : leaf_indices[j] = l
    /\ config.sort_leaves => Ascending(leaf_indices, 0)

\* The nearest distance found never gets worse while a query lasts.
AnswersOnlyImprove ==
  [][\A s \in held : phase # "report" =>
       \E n \in held' : query.l2Square[n] <= query.l2Square[s]]_vars

\* All queries are answered.
Termination == <>(phase = "start" /\ asked = QuerySize)

Answered == {query.l2Square[s] : s \in held}
Nearer(s) == {n \in Series : query.l2Square[n] < query.l2Square[s]}

\* kNN: an exact search reports k series (all, if there are not that many), and
\* none that is not reported is nearer than one that is.
KNearestFound ==
  phase = "report" /\ config.exact_search =>
    /\ size = Min(K, DatabaseSize)
    /\ \A s \in held : Cardinality(Nearer(s)) < K

\* The same of an answer that came out full.
FullAnswerIsKNearest ==
  phase = "report" /\ config.exact_search /\ size = K =>
    \A s \in held : Cardinality(Nearer(s)) < K

----------------------------------------------------------------------------
(* The inductive invariants behind the theorems of QueryProofs *)

Scanning == {"scan", "update", "heapify"}
Busy     == {"read", "test"} \cup Scanning

\* Which threads are at work in which phase, and that there is a query then.
Placed ==
  /\ phase # "start" => asked < QuerySize
  /\ pc[Main] \in Scanning \cup {"idle"}
  /\ pc[Main] # "idle" => phase \in {"resident", "nearest"}
  /\ \A t \in Threads :
       /\ pc[t] # "idle" => phase \in {"leaves", "exact"}
       /\ phase = "leaves" => pc[t] \in {"idle", "claim", "measure"}
       /\ phase = "exact" => pc[t] \in {"idle", "claim"} \cup Busy

\* The leaf that a scanning thread is in.
LeafOf(t) == IF t = Main THEN node ELSE leaf_indices[index[t]]

\* Threads at work are inside their block and inside their leaf.
InRange ==
  /\ \A t \in Threads : pc[t] \in {"measure"} \cup Scanning => index[t] < stop[t]
  /\ \A t \in Scanners : pc[t] \in Scanning =>
       /\ LeafOf(t) \in Leaves
       /\ StartId[LeafOf(t)] <= series[t] /\ series[t] <= last[t]
       /\ last[t] = StartId[LeafOf(t) + 1]
       /\ pc[t] # "scan" => series[t] < last[t]

\* A query starts with an empty answer, so that local_bsf says nothing.
FreshAnswer ==
  /\ phase = "start" => held = {}
  /\ phase # "start" => local_bsf = VALUE_MAX
  /\ size = 0 <=> held = {}

\* Some series held is no farther than x.
Near(x) == \E n \in held : query.l2Square[n] <= x

\* A bound that was read off the answer and may be stale.
Known(bound) == bound = VALUE_MAX \/ Near(bound)

BoundsKnown ==
  /\ Known(top)
  /\ \A t \in Threads : pc[t] \in {"test"} \cup Scanning => Known(thread_bsf[t])
  /\ \A t \in Scanners : pc[t] \in Scanning => Known(leaf_bsf[t])

AnswerInv == TypeOK /\ Placed /\ InRange /\ FreshAnswer /\ BoundIsWorstHeld /\ BoundsKnown

Measured(l) == leaf_distances[l] = IF l = node THEN VALUE_MAX ELSE query.leaf[l]

\* leafThread has measured all leaves but those in blocks still being worked on.
LeavesMeasured ==
  /\ phase \in {"sorted", "nearest", "exact"} => \A l \in Leaves : Measured(l)
  /\ phase = "leaves" =>
       /\ \A l \in Leaves : \/ Measured(l) \/ l >= shared_leaf_id
                            \/ \E t \in Threads : pc[t] = "measure" /\ index[t] <= l /\ l < stop[t]
       /\ \A t \in Threads : pc[t] = "idle" => shared_leaf_id >= NumLeaves

\* The leaf searched as the nearest one is the first until it is moved back.
Ordered ==
  /\ IsOrder(leaf_indices)
  /\ config.sort_leaves /\ phase \in {"sorted", "exact"} => Ascending(leaf_indices, 0)
  /\ config.sort_leaves /\ phase = "nearest" => Ascending(leaf_indices, 1)
  /\ phase = "nearest" => node = leaf_indices[0]
  /\ phase = "exact" => node # NoLeaf

LeavesInv == LeavesMeasured /\ Ordered

\* Series s needs no look any more: one at least as near is held.
Settled(s)     == Near(query.l2Square[s])
LeafSettled(l) == \A s \in SeriesOf(l) : Settled(s)

\* A scan has settled its leaf up to the current series.
ScansSettle ==
  \A t \in Scanners : pc[t] \in Scanning =>
    /\ \A s \in SeriesOf(LeafOf(t)) : s < series[t] => Settled(s)
    /\ pc[t] = "heapify" => Settled(series[t])

\* The leaf searched by the main thread is settled once that is done.
NodeSettled ==
  node \in Leaves /\ phase # "start" /\ pc[Main] = "idle" => LeafSettled(node)

\* queryThread has settled all leaves but those in blocks still being worked
\* on and, until a thread has come to an end, those not claimed yet.
Searched ==
  phase = "exact" /\ ~Limited =>
    /\ \A p \in Leaves : \/ LeafSettled(leaf_indices[p]) \/ p >= shared_leaf_id
                         \/ \E t \in Threads : pc[t] \in Busy /\ index[t] <= p /\ p < stop[t]
    /\ \A t \in Threads : pc[t] = "idle" =>
         \A p \in Leaves : p >= shared_leaf_id => LeafSettled(leaf_indices[p])
    /\ \A t \in Threads : pc[t] \in Busy => stop[t] <= shared_leaf_id

Reported ==
  phase = "report" =>
    /\ config.exact_search /\ ~Limited => \A l \in Leaves : LeafSettled(l)
    /\ node # NoLeaf

\* The first series counted is held as soon as its thread has updated the answer.
CountedHeld ==
  phase # "start" /\ counted > 0 => held # {} \/ \E t \in Scanners : pc[t] = "update"

SearchInv == ScansSettle /\ NodeSettled /\ Searched /\ Reported /\ CountedHeld

IInv == AnswerInv /\ LeavesInv /\ SearchInv

\* None of the leaf's series is held.
Fresh(l) == held \cap SeriesOf(l) = {}

\* What a scan has still before it is not held.
AheadFresh ==
  \A t \in Scanners : pc[t] \in Scanning =>
    \A s \in SeriesOf(LeafOf(t)) :
      s > series[t] \/ (s = series[t] /\ pc[t] # "heapify") => s \notin held

\* Blocks are claimed once, and what is at or behind the counter is nobody's.
BlocksDisjoint ==
  phase = "exact" =>
    \A t \in Threads : pc[t] \in Busy =>
      /\ stop[t] <= shared_leaf_id
      /\ \A u \in Threads :
           u # t /\ pc[u] \in Busy => stop[t] <= index[u] \/ stop[u] <= index[t]

\* The leaf at position p may still be entered.
BeforeIt(t, p) ==
  pc[t] \in Busy /\ index[t] <= p /\ p < stop[t] /\ (pc[t] \in Scanning => index[t] # p)
Ahead(p) == p >= shared_leaf_id \/ \E t \in Threads : BeforeIt(t, p)

\* Only the main thread's leaf has been searched, or those passed by.
LeavesFresh ==
  /\ phase \in {"resident", "leaves", "sorted", "nearest"} =>
       \A l \in Leaves : l # node => Fresh(l)
  /\ phase = "exact" =>
       \A p \in Leaves : Ahead(p) /\ leaf_indices[p] # node => Fresh(leaf_indices[p])

\* No thread enters the leaf of the main thread.
NodeApart == \A t \in Threads : pc[t] \in Scanning => LeafOf(t) # node

OnceInv == NoSeriesTwice /\ AheadFresh /\ BlocksDisjoint /\ LeavesFresh /\ NodeApart
=============================================================================

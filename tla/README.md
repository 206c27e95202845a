# A verification project for isax-modularized

isax-modularized answers nearest-neighbour queries over a database of data
series. It summarises every series by a SAX word, builds a binary tree over the
words (an iSAX index) with many threads, reorders the data so that every leaf is
contiguous, and answers queries by searching one leaf and then pruning the others
by lower bounds, again with many threads. The TLA+ modules in this directory model
that, TLC checks them on small instances, and TLAPS proves, for all values of the
constants, every safety property that the passing runs check; liveness is left to TLC.

Paths such as `index_engine.c:191` are below `src/` of the repository.

## 1. Inventory

The program (`main.c:40-78`) runs five phases one after another:
`initializeIndex`, `buildIndex`, `finalizeIndex`, `initializeQuery`,
`conductQueries`. There is no persistence and no network; concurrency exists
within a phase, between threads that the main thread creates and joins.

| Component | State | Operations | Interaction |
|---|---|---|---|
| Configuration (`utils/config.c`) | `Config`, constant after start; the processors of the process | parse, assert, `initializeThreads`, log | read by all |
| Index (`index/index.c`) | `values`, `summarizations`, `saxs`, `breakpoints`, `roots` | `initializeIndex`, `freeIndex` | owns what the phases share |
| Query set (`query/query.c`) | values, summarizations and words of the queries | `initializeQuery`, `freeQuery` | made with the breakpoints of the index |
| PAA (`paa/paa.c`) | summarizations | `piecewiseAggregate`, block workers | input of SAX and of the queries' bounds |
| Breakpoints (`sax/breakpoints.c`) | breakpoint table | normal or ad hoc, segment workers | input of SAX and of the bounds |
| SAX words (`sax/sax.c`) | `index->saxs` | `summarizations2SAX16`, lower bound distances | words route insertions and queries |
| Nodes (`index/node.c`) | `ids`, `size`, `capacity`, `sax`, `masks`, `left`, `right`, `lock` | `insertNode`, `inspectNode`, `freeNode` | shared by all construction workers, one mutex each |
| Construction (`index/index_engine.c:21-274`) | the tree, `shared_start_id` | `buildIndexThread`, `splitNode`, `route` | workers share the tree and a fetch-and-add counter |
| Finalisation (`index/index_engine.c:277-436`) | `start_id`, `permutation`, `values`, `saxs`, `squeezed_masks` | `fetchPermutation`, `permute`, `squeezeNode` | one thread; its result is read-only afterwards |
| Answer (`query/answer.c`) | max-heap `distances`, `size`, read-write lock | `checkNUpdateBSF`, `getBSF`, `cleanAnswer` | shared by all query threads |
| Queries (`query/query_engine.c`) | `leaf_indices`, `leaf_distances`, `shared_leaf_id`, `local_bsf` | `conductQueries`, `leafThread`, `queryThread`, `queryNode` | one query at a time, its threads share order, bounds and answer |
| Sorting (`utils/sort.c`) | `leaf_indices` | `qSortIndicesBy`, `qSortFirstHalfIndicesBy`, `bSearchByIndicesFloor` | called between the two groups of query threads |
| Distances (`utils/distance.c`) | none | L2 kernels | called by scans |
| Logging, timing, profiling (`clog.h`, `globals.h`) | counters | logging | counters decide something only with `series_limitations` |

What makes each of them correct:

- *Preparation*: every mean is that of its own segment, breakpoints and words are
  made of complete data, and the region of a word contains its series, so that
  distances to words bound those to series.
- *Configuration*: what the assertions accept is what the phases rely on, and every
  thread has a processor of its own.
- *Nodes*: masks and words that nodes share are freed once, after their last use, and
  no leaf overwrites a word that another one is bounded by.
- *Distances*: the kernels agree, and one that gives up early does so only when the
  series is not nearer than the bound.
- *Sorting*: no index is lost, no scan leaves the array, and the order is good
  enough to prune by.
- *Construction*: every series ends up in exactly one leaf, the one that its word
  leads to; the leaves partition the words; no array is overrun; nobody blocks.
- *Finalisation*: the leaves' series become consecutive, with values and words in
  step; the squeezed region of a leaf bounds exactly the words in it.
- *Answer*: the heap holds the k smallest distances offered since it was cleaned.
- *Queries*: an exact search reports the nearest series, whatever was pruned by
  stale bounds; nothing of one query leaks into the next; all queries end.

The hard behaviours are listed in `PROJECT.json` under `hazards`, each at its
line: hand-over-hand locking with a split in between, fetch-and-add claims that
run past the end, an in-place permutation that marks entries by their sign,
partitions whose scans test no bound, breakpoints that have to nest, memory that siblings, roots, parents and children
share, bounds read once and used while others improve them, one read without a lock,
a limit on work that threads notice late, buffers that live from one query to the next.

## 2. Modules

| Module | Models | Extends or instantiates |
|---|---|---|
| `Configuration` | `initializeConfig` and `initializeThreads` | |
| `Preparation` | `initializeIndex` and `initializeQuery` from values to words: the threads of `paa.c`, `breakpoints.c` and `sax.c` | `Configuration`, `Sums` |
| `Distances` | the distances of `distance.c` | `Sums` |
| `Summaries` | `extractBreakpoints8`, `bSearchFloor`, the distances of `sax.c`, `scale_factor`, and how a leaf scan uses both kinds of distances | `Distances` |
| `Sums` | the sum of a function over a finite set, for loops that add up an array | |
| `Regions` | words, masks, regions of nodes, children, `route`, what `squeezeNode` does to one segment | |
| `IndexBuild` | `buildIndexThread`, `splitNode`, both split policies, `insertNode` | `Regions`; implements `IndexAbstract` |
| `IndexAbstract` | what construction promises: series get indexed, one at a time, or it fails | |
| `Nodes` | the memory of the tree from `initializeIndex` to `freeIndex`: `initializeNode`, `freeNode`, and the walks `fetchPermutation`, `squeezeNode`, `inspectNode`, `enqueueLeaf` | `Sums` |
| `Finalize` | `fetchPermutation`, the assertion, `permute` | |
| `Squeeze` | all of `finalizeIndex`: `squeezeNode` on every leaf, after `permute` has moved the words | `Finalize`, `Regions` |
| `Answer` | `answer.c` | implements `AnswerAbstract` |
| `AnswerAbstract` | the bag of the K smallest distances | |
| `Query` | `conductQueries`, `leafThread`, `queryThread`, the leaf scans | |
| `Sort` | `qSortFirstHalfIndicesBy`, `qSortIndicesBy`, `bSearchByIndicesFloor` | |
| `MCPreparation`, `MCSummaries`, `MCIndexBuild`, `MCFinalize`, `MCSqueeze`, `MCQuery`, `MCSort` | inputs for TLC | the module they are named after |
| `MCSqueezedQuery` | a query whose bounds come from squeezed regions | `Query`, `Regions` |
| `PreparationProofs`, `SummariesProofs`, `IndexBuildProofs`, `NodesProofs`, `QueryProofs`, `SumsProofs` | theorems and proofs | the module they are named after |
| `FinalizeProofs` | theorems and proofs about `Finalize` and `Squeeze` | `Squeeze` |
| `SortAnswerProofs` | theorems and proofs about `Sort` and `Answer` | `Sort`, `Answer` |

A definition `Name_Slip` is a mutant of `Name`: the form that `Name` would have
with the named slip. No module uses the mutants; each one shows that a property
would notice the slip.

### How state and actions correspond to the code

The phases of `main` are chained by `Preparation` (command line, index, queries) and
by `Nodes` (tree, permutation, leaves, queries, teardown); what a phase does inside is
the subject of the other modules. What one module takes as a constant another one
shows: consecutive places of leaves (`Query`'s `StartId`) are `LeavesAreContiguous` of
`Finalize` and `LeavesInOrder` of `Nodes`; that bounds are bounds is `LowerBounding`
of `Summaries`; that a distance given up early is still above the bound is
`NearerSeriesGetThrough`.

**`Configuration`.** A command line is a sequence of options, each the field that it
sets and the value; `ParseOption` is one turn of the loop over `getopt_long`. `Accept`
and `Abort` are the assertions, `initializeThreads` the mask of processors. Numbers do
not overflow `int`, texts that are no numbers do not occur, and an option that does not
exist, which makes the program exit before anything else, is left out.

**`Preparation`.** `phase` is where the program is, `set` whether it prepares the
database or the queries, `pc[t]` whether thread `t`
is about to claim a block, at work on one, or gone. `Claim` is the fetch-and-add
with the cut of the last block; a thread then takes one value (`AddValue`), one
segment (`ExtractBreakpoints`) or one series (`FindWord`) per action, each of which
writes one place that no other thread writes (`BlocksApart`). Data are represented
by where they come from: a mean by the interval of values summed and the length
divided by, breakpoints by the column they are quantiles of. Means that are read
from a file are their places in it. So "the mean of its own
segment" and "made of complete data" can be said without arithmetic on reals.

**`Summaries`.** One series, one query and one leaf. `breakpoints[b]` are those of
`b` bits; the table in memory is one entry shorter than it is read, and what lies
behind is any value. `vector` is the number of lanes, eight in the code and two to
four here, so that four segments are one vector, two, or one and a tail. Distances
are multiplied by `sax_length` to keep them integers; `scale_factor` has its default.
`Measure` computes the twelve distances of one pair: to leaf and word, plain and
vectorised, and between series, each in full or given up early at any threshold.
The plain kernels add the part of a segment in which the query is below the region or else
the one in which it is above (`Gap`), the vectorised ones add both (`GapSIMD`), which is the
same only if breakpoints are in order. `bSearchFloor` is a recursive function over ranges.

**`Distances`.** A vector register is a function from eight lanes; `HAdd` is
`_mm256_hadd_ps`, which adds within halves, and lanes 0 and 4 are what the code reads.

**`Sort`.** A scan is two actions per turn, the step and the read, since reading
outside the range is what could go wrong. `calls` holds the ranges that the
recursion still has to sort; the leftmost one is next, as the recursion has it.
Distances are integers compared up to `EPSILON`, which need not be 0: the
comparison is not transitive, as in the code.

**`Regions`.** A word is a function from segments to functions from bits to 0 or
1, so that masks (`1u << b`) become bit numbers and "the masked bits agree"
becomes a quantifier. A node is named by its region `[sax, masks]`.

**`IndexBuild`.** `pc[t]` is a worker's place between two accesses of shared
state. `Claim` is the fetch-and-add and the cut of the last block, `LockRoot` and
`LockChild` wait for a mutex, `Test` is the condition of the inner `while` and of
the `if` in it, `SplitNode` and `FailToSplit` are the two ends of `splitNode`,
`InsertNode` is `insertNode`, and `Unlock` ends the turn of the `for` loop. Reads
and writes of a node's fields between lock and unlock are one action each; the
invariant `MutualExclusion` justifies that. Pointers `left` and `right` are
represented by the segment the node was split on, as both children follow from it.
`decideSplitSegmentByNextBit` is computed exactly; `decideSplitSegmentByDistribution`
compares floating point scores that depend on data the model does not have (and
that may be NaN when all values of a segment are equal), so any segment with a bit
left, or none, may come out. Which of the two is used is chosen at the start.

**`Nodes`.** A node is named by its root and its turns, a block of memory by its kind
and the node it was allocated for; `live` is the set of blocks that are allocated. An
insertion or a split is one action, as the mutexes make it, and how a split divides the
series is left open. Recursive functions keep the calls they have still to make in
`todo`, so that the order in which `freeNode` frees children, masks, words and the node
itself is kept. `content` says which leaf's first word a `sax` block holds, since
`squeezeNode` copies a word into memory that a leaf may share with its ancestors.

**`Finalize`.** A series' values and its word are represented by the identifier
the series had before. `FetchLeaf` is `fetchPermutation` at a leaf, `MoveNext` one
turn of `permute`'s inner loop, `NextCycle` its end. Memory of `aligned_alloc` is
represented by -1 until it is written.

**`Squeeze`.** `EnterLeaf` is `squeezeNode` at a leaf up to the loop over its series,
whose turns are `SqueezeSeries`, with the loop over bits in `Regions!Squeezed`. Words are
read where `permute` has put them, `saxs[start_id + q]`, so that a word moved wrongly is
one squeezed by wrongly. `Built` is what construction may hand over: leaves, their nodes
and the words of their series. Below, *ExactSearch* explains what its bound
means for queries.

**`Answer`.** `heapifyBottomUp` and `heapifyTopDown` are recursive functions over the
entry they are at; what such a function has for an entry is a function on heaps. Distances
are integers, which are equal or further apart than `VALUE_EPSILON`.

**`Query`.** The main thread's place in `conductQueries` is `phase`, each thread's
is `pc[t]`. The tree is what queries see of it: leaves with consecutive series,
for each query the distances to series, words and leaves, and the leaf where its
descent ends (a leaf, `EmptyLeaf`, or `NoLeaf` when the root was freed). Two
accesses of the answer are separate actions where the lock does not make them one:
`Enter` reads `distances[0]` without the lock, and `ReplaceAnswer` and `Heapify`
are the two writes inside `checkNUpdateBSF` that such a read can come between. The
answer is the set of series held, its size and `distances[0]`; what the heap does
to the other entries is `Answer`'s subject. The three flags `exact_search`,
`sort_leaves` and `lower_bounding` and `series_limitations` are chosen at the start.
`counted` is the profiling counter that `series_limitations` is compared with; it is
added to at the end of a leaf, inside the lock, and read without it (the build defines
`PROFILING`, `globals.h:50`). `VALUE_MAX` is above
all distances (`globals.h:66`; `1e7` in `query_engine.c:150` is the same number).

## 3. Runs

| Run | Instance | What it shows |
|---|---|---|
| `preparation` | 7 series and 2 queries of 8 values, 3 segments, 1 or 2 threads, means loaded or not, ad hoc breakpoints or not; 46 other command lines | every phase shares out its work once and is complete before the next; threads get processors |
| `summaries` | 16 values in 4 segments of 3 bits, 7 quantiles, vectors of 2, 3, 4 lanes | regions contain their series, distances are lower bounds, vectorised and plain ones agree, a scan lets through what is nearer |
| `index` | 2 workers, 5 series, blocks of 2, leaves of 3, capacities from 1, 2 segments of 2 bits, 64 databases, both ways of splitting | all interleavings of claims, locks, splits and insertions; capping of capacities, failure, termination, refinement |
| `nodes` | 3 roots, 5 series, leaves of 2, paths split up to twice | every tree through all walks of `main`: memory is shared, used and freed as it should be |
| `finalize` | 5 series, all orders, three leaves | `permute` on every permutation of five, empty leaves included |
| `squeeze` | 4 series in leaves of 3, of 1 and of none, in two orders, 2 segments of 4 bits, 3 depths | permuting and squeezing end to end: what squeezed masks mean |
| `answer` | k = 6, distances 0 to 3 | the heap is the bag of the six smallest |
| `query_sequence` | 3 leaves, 4 series, 2 threads, k = 2, 2 queries, 8 settings of the flags, with and without a limit on series | nothing is carried over; everything else about queries |
| `sort` | 6 indices, distances 0 to 3, `EPSILON` 1, two orders, two pivots | array bounds, recursion, order |
| `squeezed_bounds` | 2 leaves, one segment of 3 bits | finding 1 |
| `unlocked_bound` | 4 leaves, 5 series, 2 threads, k = 2 | finding 2 |
| `adhoc_breakpoints` | 2 segments of 3 bits, a column of 43 means | finding 3 |

Why the bounds are enough. The index run needs a leaf that overflows, a split of
which one half stays empty, a second split below the first, a word at another root
and a database that no tree can hold: the words of `DatabasesOfWords` give all of
them, and two workers on one path give every overlap of hand-over-hand locking,
which involves two nodes at a time. Capping needs a leaf size that doubling
misses (3), and blocks of 2 make the last of three blocks a cut one. `nodes` needs a
root without series before and after one with series, a leaf that stays empty on either
side of a split, and a left child of a left child, which shares the word of its
grandparent: three roots, and paths split twice. `permute` on five positions has every cycle
structure of up to five, fixed points and the entry 0 in every place. Six heap entries
reach three levels with a node that has only a left child. A query needs a leaf that is
pruned, one that is searched while another thread improves the answer, and, for the block
size of 2, a block that is cut: three leaves and two threads. Nothing in the code
distinguishes a third thread from the second. Seven series make blocks of one and
two for means and of two and four for words, so that a last block is cut and a
thread claims several; eight values in three segments leave a remainder. The other
command lines lie on both sides of each limit that an assertion has for processors. Sixteen
values are two vectors, between which a sum may be given up. Six indices
reach ranges of five, from which on a pivot is kept between the ends; four distances
with an `EPSILON` of 1 have equal ones, ones that only compare as equal, and chains
of these. Three bits give two levels of breakpoints that have to nest in the finest.

Some properties are stated in the modules and left out of the runs, as a theorem or
another property covers what is difficult about them: the types of all modules, the
inductive invariants that the proofs use (`IInv`, `MeansInv`, `SqueezeInv`, `SummariesInv`
and others), `SettledSeriesStay` and `NothingOverwritten` of `Finalize`, `FloorFound` of
`Sort` (all proved), `Termination` of `IndexBuild`, which `ImplementsAbstractIndex` implies,
and the termination of the sequential `Squeeze` and `Sort`. TLC confirms them when they are
added to the `.cfg`.

There are no state constraints and no symmetry. Deadlock is checked in all runs:
the systems that end have a stuttering action `Terminated`.

**Fairness.** `IndexBuild` assumes weak fairness of every worker, i.e. that the
operating system runs a thread that can go on. Weak fairness is enough: a mutex
may be taken by others again and again, but only finitely often, as the database
is finite. `Query` assumes weak fairness of the main thread and of every thread's
scan and work, for the same reason. `Preparation` assumes weak fairness of the main
thread and of each worker. `Finalize`, `Squeeze` and `Sort` have one thread.
`Summaries` and `Nodes` state no liveness.

### Findings

1. **`squeezeNode` leaves out the last bit kept (*ExactSearch*).** With
   `k < BITS_BY_MASK[squeezed_masks]` (`index_engine.c:355`) the last bit that
   `squeezed_masks` keeps is never compared. What holds is `AgreeAboveLastBit`
   (proved); the same with `>=` does not hold. In `query_sequence` the bounds are
   inputs that are right (`Bounding`), and `NearestFound` holds; with bounds from
   the squeezed regions, `squeezed_bounds` finds an exact search that prunes the
   leaf of the nearest series.
2. **The bound is read without the lock** on entering a leaf (`query_engine.c:40`
   and `:75`). For k = 1 and for the nearest series this is harmless, as
   `NearestFound` shows: the value read is always the distance of some series held.
   For k of 2 and more a series of the answer may be skipped: `unlocked_bound`.
3. **Breakpoints of a database do not nest.** `range_length` is rounded for every
   number of bits by itself (`breakpoints.c:99`). With the 255 quantiles of the
   normal distribution the breakpoints of few bits are among those of eight; with
   `--adhoc_breakpoints` they are only if `database_size` is 255 modulo 256. A word
   found with eight bits and cut to fewer then has a region without the series:
   `adhoc_breakpoints`, against `LowerBounding`, which `summaries` shows of the
   normal table. The entry of that table that is read behind its end does no harm.

Also seen while modelling, without a statement in the repository to hold it
against: `local_bsf` is read before the resident leaf is searched
(`query_engine.c:375`), so it is always `VALUE_MAX` in the conditions of lines 401
and 467 and in the sort (`FreshAnswer`, part of `Query`'s `AnswerInv`, says so). Pruning
by the top of a heap that is not full may leave it so, which a comment concedes
(`query_engine.c:147-149`): `KNearestFound` fails under `MCQueryKNearest.cfg` with
k = 2, and `FullAnswerIsKNearest` therefore speaks of full answers only. If
`sax_length` does not divide `series_length` (the assertion is commented out,
`config.c:193`) one `scale_factor` weighs the shorter segments too much, and
`LowerBounding` fails under `MCSummariesUnequal.cfg`; the run `summaries` has
segments of equal length. The assertion on `sax_length` (`config.c:196`) is true of every
number, as it has `||` for `&&`. A series shorter than its number of segments is
therefore accepted (`series_length` 8 with the default `sax_length` of 16): a segment
without values is never completed, and means behind it stay unset; the run `preparation`
has values in each segment. `k` may be 0 (`config.c:203`), although `distances[0]` is then
outside the array. With two memory nodes and `numa_id` 1 the last of 32 processors is number 32
(`ThreadsPlaced` allows it). The locks of nodes and of the answer are initialised inside
`assert` (`node.c:26`, `answer.c:81`), so that `NDEBUG` removes their initialisation.
An empty leaf that is the last one has `database_size` for `start_id`, and
`squeezeNode` copies a word from behind `saxs`; that leaf is never enqueued, so nothing
comes of it. The `Index` itself is never freed, and summarizations that are computed replace
(`index.c:97`) a buffer allocated at `index.c:88`. `MCQuery.cfg` is a larger instance of `NearestFound` for
one query, with every placement of distances. These three are to be run by hand.

## 4. Proofs

All theorems hold for every value of the constants that satisfies the assumptions
named in the modules:

- the assertions of `initializeConfig`, as far as a module needs them: `ConfigAssumption`,
  `QueryAssumption`, `AnswerAssumption`, `NodesAssumption`, `SummariesAssumption`. Two go
  beyond what it asserts: `k` is not 0, and in `SummariesAssumption` the assertion on
  `sax_length` is read with `&&`, as it must be meant;
- shapes of inputs: `ConfigurationAssumption`, `PreparationAssumption`, `RegionsAssumption`,
  `DatabasesAssumption`, `NoNodeAssumption`, `NullAssumption`, `SizeAssumption`,
  `SortAssumption`, `InputsAssumption`, `QueriesAssumption`, `SourcesAssumption`,
  `DeviationsAssumption`;
- what an earlier phase is proved to guarantee: `LeavesAssumption` of `Finalize` and of
  `Query`, `BuiltAssumption` of `Squeeze`.

Hypotheses that are not true of every run of the program are not assumptions of a module
but stand in the theorems that need them: `Bounding` (*Queries*), `HasValues` (*Means*),
`Nested` and `EqualSegments` (*Summaries*).

**Sums** (`SumsProofs`). `SumOver` is a fold, which takes elements in an order that nothing
is known about. The lemmas show that its result does not depend on that order: a sum can
be started with any element (`SumOfElement`), from which follow the sums of disjoint sets,
of equal functions, of intervals. The library's induction theorems cannot be used, as they
have an operator for a parameter; the proofs take the smallest counterexample instead.

**Preparation** (`PreparationProofs`). The phases share one invariant: `BlocksClaimed`
says that blocks end below the shared counter, in the unit of the phase (values or
items), and that no thread is left when the counter has not passed the end;
`BlocksApart` that blocks at work do not overlap; `BlocksDone` that every item not
written yet is unclaimed or in a block at work (`Open`). When all threads are gone no item is
open, so the phase is complete before the next one reads. Proved for any command line and
any number of threads: `BlocksApart`, `NothingReadEarly` and, because processors picked at
equal distances are distinct ones (`EquallySpaced`), `ThreadsPlaced`.

**Means** (`PreparationProofs`). `piecewiseAggregateThread` counts the values of a segment
and knows neither series nor places. `MeansInv` says where it must be: a thread that is at
the c-th value of a segment has added up the c values before it, and its block ends where a
series does (`AtValue`, `MeansDone`), so that the mean it writes is that of one segment of
one series (`MeansAreOfSegments`). This needs a value in every segment (`HasValues`), which
the assertions do not demand; see *Also seen* above.

**Summaries** (`SummariesProofs`). `SummariesInv` says which breakpoints have been made and
that the word is the one found with them. What is proved beyond it is about operators. The
vectorised kernels are the plain ones: horizontal additions add up all lanes (`LanesAdd`),
and a sum over steps of eight is the sum over all values (`VectorsCompute`). A word's region
contains its series at every number of bits, because the cell found among the finest
breakpoints lies within the coarser ones if the breakpoints nest; then the gap to a region is
at most the gap to a mean inside, and the square of a mean's distance times the length at
most the sum of squares of the values' distances (`LowerBound`), and a leaf scan lets through
exactly the series nearer than its bound (`NearerGetThrough`). The table need not be in order
for that. `LowerBound` and `NearerGetThrough` assume a number of quantiles that makes
breakpoints nest (`Nested`, 255 for the normal table) and `EqualSegments`; without either
they are false, as `adhoc_breakpoints` and `MCSummariesUnequal.cfg` show. `VectorsCompute`
needs breakpoints that nest or are in order. That the recursive functions `Cells` and
`Search` exist, without which nothing could be said about their values, is proved by
smallest counterexample.

**Construction** (`IndexBuildProofs`). The lemmas of the
first part are about regions only: a root covers a word, a split divides the
region of a leaf into two disjoint ones, `route` picks the one that covers the
word. The inductive invariant `IInv` has these parts besides types.
`LocksHeld` says which mutexes a worker owns at which label: without it nothing
can be said about interleaved splits. `ClaimsBounded` bounds claimed ranges by the
shared counter. `OnCourse` says that a worker is at a node that covers its series
and knows whether it is a leaf as long as it holds the mutex. `Shape` says that
inner nodes are empty and have both children, and that any other node is disjoint
from a leaf or strictly above it. This is what makes two children of a split new
nodes. From these follow `MutualExclusion`, `EverySeriesOnce`, `BuiltIsComplete`,
`LeavesPartitionWords` and `FiledWhereRouted`; a second invariant about sizes
gives `WithinCapacity`, and steps of `IInv` give `StoredSeriesOnlyMoveDown` and
the safety part of the refinement of `IndexAbstract`. When a split by the next bit is
decided, the series of the full leaf and the one to be added are `LeafSize + 1` different
ones (`Full`). If the split leaves a child empty, no segment separates the series in the leaf
(`EmptyChildOnlyIfInseparable`); if there is no segment to split, they and the new one share
one word (`FailsOnlyWhenInevitable`).

**Nodes** (`NodesProofs`). A walk is described by the calls that it has still to make: they
are in the order of the tree and leave no gap (`Chained`), so that the first of them tells
which nodes are done (`Done`). `Fits` says of each call what it may free: a node's `sax` if
the node is a root or a right child, its masks likewise or, for roots, once. `Shared` tells
whose `sax` and masks a node points to. With this, `Memory` says of every block whether it is
allocated: exactly if its owner is `Standing`, i.e. not freed yet, and an inner node's masks
as long as its right child stands. Since a child is freed before its parent and a left child
before a right one, what a standing node points to has an owner that stands, too
(`NoDanglingPointer`); at the end nothing stands (`NoLeak`). `LeavesDone` and `Counts` are
sums over the nodes done, which make the leaves' places consecutive in the order in which
they are enqueued (`LeavesAreInOrder`), and say whose word every shared block holds
(`TreeStaysIntact`). Proved for trees of any depth and number of roots.

**Permutation** (`FinalizeProofs`). While leaves are fetched, their places are
consecutive and below the counter (`Fetched`). When all are, the places are a
permutation (`IsPermutation`): that the counter reaches `database_size` needs
cardinalities, from the library's theorems. `Cycles` describes the in-place moves:
moved series are in place and form closed cycles, except for the one being
followed, which runs from `i` to `next`, and whose series waits at `i`.

**Squeezing** (`FinalizeProofs`). From the series that construction filed in a leaf to its
squeezed region: what `permute` has moved to the leaf's places are the words of its series,
by the theorems before. `SqueezeInv` says that the leaves entered have the first word for
their `sax`, that all words compared agree with it above the squeezed mask, and that flags
tell which segments have bits left. Per segment, the squeezed mask is either the topmost bit
that some word differs in, plus one, or nothing was given up; the first differing bit exists
by well-foundedness.

**Queries** (`QueryProofs`). Two parts of the invariant hold whatever the distances
are. `AnswerInv` describes the answer: who writes it, that `distances[0]` is the
largest distance held or about to become so. `LeavesInv` describes the leaves:
claimed blocks do not overlap and cover all leaves below the counter, the order is a
permutation, and distances measured are those of this query. `SearchInv` needs that
bounds are bounds (`Bounding`). It says that every bound a thread keeps, however
stale, is `VALUE_MAX` or at least the distance of some series held (`Near`,
`Known`), that steps can only improve what is held, and that every leaf below a
thread's place holds nothing nearer than that (`Settled`). The early return in
sorted order is right because the order is ascending and a thread's block lies
ahead of it. From these follows `NearestFound`, for any number of threads.
That no series is in the answer twice (`NoSeriesTwice`) needs no `Bounding`, only that every
leaf is scanned once: what a scan has before it is not held (`AheadFresh`), claimed blocks are
disjoint (`BlocksDisjoint`), leaves that may still be entered hold nothing of the answer
(`LeavesFresh`), and the leaf that the main thread searched is not entered again, for its
distance is `VALUE_MAX` (`NodeApart`).

**Sorting** (`SortAnswerProofs`). A scan stops because a value that stops it lies ahead:
at first the pivot's own or an end's (`StopsUp`, `StopsDown`), after an exchange the
value just put there. Ranges waiting to be sorted are disjoint (`Apart`); between
two of them, and around the position where a partition ended, values are in order up
to `EPSILON` on each side of the pivot, which makes twice `EPSILON` in the result.

**Answer** (`SortAnswerProofs`). A recursive function whose values depend on ones of smaller
rank exists (`Recursion`, for any rank), and what holds of an entry if it holds of those of
smaller rank holds of all (`ByRank`); with these the two heap functions can be unfolded.
While an entry is sifted, the order of the heap is broken only above it or only below it
(`LiftedOrder`, `SunkOrder`), and every exchange keeps how often a value occurs
(`ExchangeKeeps`). So the heap is in order whenever a call ends (`HeapStaysInOrder`), its top
is its largest entry (`TopIsLargest`), and, read as a bag whose size is a sum of
counts, it goes through the steps of `AnswerAbstract`: `HoldsKNearest` is a refinement proved
in full, as `AnswerAbstract` assumes no fairness.

Only model-checked:

- `Termination` of every component, and the fairness in `ImplementsAbstractIndex`, whose
  initial states and steps are proved (`ImplementsAbstract`): temporal reasoning under
  fairness is out of the prover's reach;
- the three findings: a theorem cannot be about a property that does not hold.

## 5. Not modelled, and the plan

Left out on purpose: rounding of floating point numbers (a bound that is too large by a
rounding error is outside these models), files (reading one succeeds), `clog.h`,
which is third-party and writes a log, timing, `getCompactness`, a figure for the log, and
how texts become numbers. The one test of the repository compares a SIMD kernel with a plain one,
which `VectorsAgree` does for all kernels.

Done so far: configuration, preparation of database and queries, summaries and
distances, construction, ownership of nodes, finalisation end to end, answer, queries with
all settings, sorting; all their safety properties are proved. What is left is one
composition: construction, permutation and search over words, in which the leaves of `Query`
come from `IndexBuild` and its distances from `Summaries`, so that what `Query` assumes of
its leaves and bounds is derived and not repeated.

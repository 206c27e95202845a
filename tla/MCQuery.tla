------------------------------ MODULE MCQuery ------------------------------
(* Small indexes and queries for Query.                                      *)
EXTENDS Query

\* The first leaf has all series that the others, of one series, do not have.
LeafStarts ==
  [l \in 0 .. NumLeaves |-> IF l = 0 THEN 0 ELSE DatabaseSize - NumLeaves + l]

Nearest(d, l) == CHOOSE x \in {d[s] : s \in SeriesOf(l)} : \A s \in SeriesOf(l) : x <= d[s]

\* A query whose bounds are as tight as they can be for the given leaves and
\* series, and 0 for all others.
QueryOf(d, tight_leaves, tight_series, r) ==
  [l2Square    |-> d,
   l2SquareSAX |-> [s \in Series |-> IF s \in tight_series THEN d[s] ELSE 0],
   leaf        |-> [l \in Leaves |-> IF l \in tight_leaves THEN Nearest(d, l) ELSE 0],
   resident    |-> r]

\* Every placement of three distances, the first series in the middle: nearest
\* series in any leaf, ties, tight and loose bounds, with and without resident.
AllPlacements ==
  {QueryOf(d, t, Series, r) : d \in {f \in [Series -> {1, 2, 3}] : f[0] = 2},
                              t \in {{0, 1}, Leaves}, r \in {2, NoLeaf}}

\* Few queries, to be asked one after another.  The resident leaf may fill an
\* answer of two with series that are not the nearest, or hold a nearest one.
Mixed ==
  {QueryOf([s \in Series |-> 1 + ((x + 2 * s) % 3)], t, {1, 2}, r) :
     x \in {0, 2}, t \in {{1}, Leaves}, r \in {0, NoLeaf, EmptyLeaf}}

\* The resident leaf holds the two series farthest away, each of the others one
\* that is nearer than both.
NearerElsewhere ==
  {QueryOf([s \in Series |-> DatabaseSize - s], {}, {}, 0)}

\* The three flags in all combinations, and limits of 0 (none) and 1 for exact search.
AllConfigs ==
  {c \in [exact_search : BOOLEAN, sort_leaves : BOOLEAN, lower_bounding : BOOLEAN,
          series_limitations : {0, 1}] : c.exact_search \/ c.series_limitations = 0}

SortedExact == {[exact_search |-> TRUE, sort_leaves |-> TRUE, lower_bounding |-> TRUE,
                 series_limitations |-> 0]}
=============================================================================

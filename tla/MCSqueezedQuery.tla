-------------------------- MODULE MCSqueezedQuery --------------------------
(* Queries whose leaf bounds come from the regions that squeezeNode computes: *)
(* one segment of three bits, in which series and query are positions on a    *)
(* line, four to a cell.                                                      *)
EXTENDS MCQuery

R == INSTANCE Regions WITH NumSegments <- 1, SaxCardinality <- 3

WordOf(p) == [s \in 1 .. 1 |-> [b \in 0 .. 2 |-> ((p \div 4) \div (2 ^ b)) % 2]]

\* The interval of the cells that share the bits from b up with position p.
Low(p, b)  == ((p \div 4) \div (2 ^ b)) * (2 ^ b) * 4
High(p, b) == Low(p, b) + 4 * (2 ^ b)
SquareToInterval(x, low, high) ==
  IF x < low THEN (low - x) * (low - x)
  ELSE IF x > high THEN (x - high) * (x - high) ELSE 0

\* A leaf of the series at u and v below the root of the lower half, squeezed;
\* and the resident leaf of the query at 16, with the series at w.
Squeezed(u, v) == R!Squeezed([s \in 1 .. 1 |-> 2], WordOf(u), WordOf(v), 0, 1)

SqueezedQuery(u, v, w) ==
  LET position == <<u, v, w>>
  IN  [l2Square    |-> [s \in Series |-> (position[s + 1] - 16) * (position[s + 1] - 16)],
       l2SquareSAX |-> [s \in Series |->
         SquareToInterval(16, Low(position[s + 1], 0), High(position[s + 1], 0))],
       leaf |-> [l \in Leaves |->
         IF l = 0 THEN SquareToInterval(16, Low(u, Squeezed(u, v)), High(u, Squeezed(u, v)))
         ELSE 0],
       resident |-> 1]

SqueezedQueries ==
  {SqueezedQuery(u, v, w) : u \in {1, 5, 9, 14}, v \in {1, 5, 9, 14}, w \in {19, 25}}

TwoLeaves == [l \in 0 .. 2 |-> IF l = 0 THEN 0 ELSE l + 1]
=============================================================================

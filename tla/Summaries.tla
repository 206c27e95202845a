----------------------------- MODULE Summaries -----------------------------
(***************************************************************************)
(* What a word says about a series: extractBreakpoints8                    *)
(* (src/src/sax/breakpoints.c), the search for a symbol, and the distances *)
(* of a query to the region of a word, l2SquareValue2SAXByMask and its     *)
(* vectorised form (src/src/sax/sax.c), with the scale_factor of           *)
(* initializeConfig (src/src/utils/config.c); and what the scan of a leaf  *)
(* makes of them and of Distances.  Values, means and breakpoints are      *)
(* integers, equal or further apart than VALUE_EPSILON; distances to words *)
(* are multiplied by sax_length, so that scale_factor is series_length.    *)
(***************************************************************************)
EXTENDS Distances

CONSTANTS SaxCardinality,   \* config->sax_cardinality: bits of a symbol
          SeriesLength,     \* config->series_length
          SaxLength,        \* config->sax_length
          Sources,          \* what breakpoints may be extracted from
          Means,            \* the summarizations of series
          Queries,          \* the summarizations of queries
          Masks,            \* per segment, how many bits a node keeps
          VectorLengths,    \* how many segments a vector holds
          Deviations,       \* of the series' values from their means
          Thresholds,       \* values of local_bsf
          VALUE_MIN, VALUE_MAX

Segments == 0 .. SaxLength - 1
Bits     == 1 .. SaxCardinality

Places   == 0 .. SeriesLength - 1

\* The number of symbols of b bits.
Cells[b \in 0 .. SaxCardinality] == IF b = 0 THEN 1 ELSE 2 * Cells[b - 1]

\* Segments have the lengths that piecewiseAggregate (src/src/paa/paa.c) gives them.
SegmentLength(g) ==
  SeriesLength \div SaxLength + (IF g < SeriesLength % SaxLength THEN 1 ELSE 0)
segment_lengths == [g \in Segments |-> SegmentLength(g)]
SegmentEnd(g)   == SumOver(segment_lengths, 0 .. g)
SegmentOf       == [i \in Places |-> Cardinality({g \in Segments : SegmentEnd(g) <= i})]

RangeLength_FromBits(length, b) == length \div Cells[b]
RangeLength(length, b) == 1 + length \div Cells[b]

\* A source is an array of length values and, in memory, what lies behind it.
ASSUME SourcesAssumption ==
  \A s \in Sources : /\ s.length \in Nat
                     /\ \A b \in Bits : \A m \in 1 .. Cells[b] - 1 :
                          s.memory[m * RangeLength(s.length, b)] \in Int

ASSUME SummariesAssumption ==
  /\ SaxCardinality \in Nat \ {0} /\ SaxLength \in Nat \ {0}
  /\ SeriesLength \in Nat \ {0} /\ SeriesLength % 8 = 0     \* asserted by initializeConfig
  /\ VALUE_MIN \in Int /\ VALUE_MAX \in Int
  /\ Means \subseteq [Segments -> VALUE_MIN .. VALUE_MAX - 1]
  /\ Queries \subseteq [Segments -> VALUE_MIN .. VALUE_MAX]
  /\ Masks \subseteq [Segments -> Bits]
  \* assert(config->sax_length >= 8 || config->sax_length <= 16), as it is meant
  /\ \A n \in VectorLengths : n \in Nat /\ n <= SaxLength /\ SaxLength <= 2 * n

\* Deviations from a mean add up to nothing in each segment.
ASSUME DeviationsAssumption ==
  /\ Deviations \in [Places -> Int] /\ Thresholds \subseteq Nat
  /\ \A g \in Segments : SumOver(Deviations, {i \in Places : SegmentOf[i] = g}) = 0

VARIABLES
  breakpoints,     \* per number of bits, the bounds of the symbols
  vector,          \* the number of lanes
  means, sax,      \* a series: its means and its word
  query, masks,    \* a query, and the masks of a node that the word belongs to
  distance,        \* from the query to word and series, as eight functions compute it
  pc

vars == <<breakpoints, vector, means, sax, query, masks, distance, pc>>

Init ==
  /\ breakpoints = << >>
  /\ vector \in VectorLengths
  /\ means \in Means /\ query \in Queries /\ masks \in Masks
  /\ sax = << >> /\ distance = << >>
  /\ pc = "breakpoints"

-----------------------------------------------------------------------------
(* extractBreakpoints8: every range_length-th value, per number of bits. *)

extractBreakpoints8(memory, length) ==
  [b \in Bits |-> [m \in 0 .. Cells[b] |->
     IF m = 0 THEN VALUE_MIN
     ELSE IF m = Cells[b] THEN VALUE_MAX
     ELSE memory[m * RangeLength(length, b)]]]

ExtractBreakpoints ==
  /\ pc = "breakpoints"
  /\ \E s \in Sources : breakpoints' = extractBreakpoints8(s.memory, s.length)
  /\ pc' = "word"
  /\ UNCHANGED <<vector, means, sax, query, masks, distance>>

-----------------------------------------------------------------------------
(* summarizations2SAX16Thread: the symbol of a segment by bSearchFloor. *)

bSearchFloor(value, sorted, first_inclusive, last_inclusive) ==
  LET Ends == first_inclusive .. last_inclusive
      Search[range \in Ends \X Ends] ==
        LET first == range[1]
            last  == range[2]
            mid   == (first + last) \div 2
        IN  IF first + 1 < last
            THEN Search[IF value < sorted[mid] THEN <<first, mid>> ELSE <<mid, last>>]
            ELSE first
  IN  Search[<<first_inclusive, last_inclusive>>]

FindWord ==
  /\ pc = "word"
  /\ sax' = [g \in Segments |->
               bSearchFloor(means[g], breakpoints[SaxCardinality], 0, Cells[SaxCardinality])]
  /\ pc' = "distance"
  /\ UNCHANGED <<breakpoints, vector, means, query, masks, distance>>

-----------------------------------------------------------------------------
(* Distances from the query to a word whose masks keep b bits. *)

Symbol(g, b) == sax[g] \div Cells[SaxCardinality - b]

Floor(g, b)   == breakpoints[b][Symbol(g, b)]
Ceiling(g, b) == breakpoints[b][Symbol(g, b) + 1]

Below(g, b) == IF query[g] < Floor(g, b) THEN Floor(g, b) - query[g] ELSE 0
Above(g, b) == IF query[g] > Ceiling(g, b) THEN query[g] - Ceiling(g, b) ELSE 0

\* if and else if; both indicators are computed for a vector, and their parts added.
Gap(g, b)     == IF query[g] < Floor(g, b) THEN Below(g, b) ELSE Above(g, b)
GapSIMD(g, b) == Below(g, b) + Above(g, b)

\* SaxLength times a distance: scale_factor is SeriesLength / SaxLength.
Scaled(sum) == SeriesLength * sum

GapSquares(bits)     == [g \in Segments |-> Gap(g, bits[g]) * Gap(g, bits[g])]
GapSquaresSIMD(bits) == [g \in Segments |-> GapSIMD(g, bits[g]) * GapSIMD(g, bits[g])]

l2SquareValue2SAXByMask == Scaled(SumOver(GapSquares(masks), Segments))

\* One vector, then either a second one, or the other segments one by one.
SumByVectors_NoTail(bits) ==
  SumOver(GapSquaresSIMD(bits), 0 .. vector - 1)
  + IF SaxLength = 2 * vector THEN SumOver(GapSquaresSIMD(bits), vector .. 2 * vector - 1) ELSE 0
SumByVectors(bits) ==
  SumOver(GapSquaresSIMD(bits), 0 .. vector - 1)
  + IF SaxLength = 2 * vector THEN SumOver(GapSquaresSIMD(bits), vector .. 2 * vector - 1)
    ELSE IF SaxLength = vector THEN 0
    ELSE SumOver(GapSquares(bits), vector .. SaxLength - 1)

l2SquareValue2SAXByMaskSIMD == Scaled(SumByVectors(masks))

AllBits == [g \in Segments |-> SaxCardinality]
l2SquareValue2SAX8     == Scaled(SumOver(GapSquares(AllBits), Segments))
l2SquareValue2SAX8SIMD == Scaled(SumByVectors(AllBits))

\* The values of the series and of the query with these means.
Values      == [i \in Places |-> means[SegmentOf[i]] + Deviations[i]]
QueryValues == [i \in Places |-> query[SegmentOf[i]]]

Measured ==
  [leaf      |-> l2SquareValue2SAXByMask, leafSIMD |-> l2SquareValue2SAXByMaskSIMD,
   series    |-> l2SquareValue2SAX8, seriesSIMD |-> l2SquareValue2SAX8SIMD,
   full      |-> l2Square(SeriesLength, QueryValues, Values),
   fullSIMD  |-> l2SquareSIMD(SeriesLength, QueryValues, Values),
   early     |-> [t \in Thresholds |-> l2SquareEarly(SeriesLength, QueryValues, Values, t)],
   earlySIMD |-> [t \in Thresholds |-> l2SquareEarlySIMD(SeriesLength, QueryValues, Values, t)]]

Measure ==
  /\ pc = "distance"
  /\ distance' = Measured
  /\ pc' = "measured"
  /\ UNCHANGED <<breakpoints, vector, means, sax, query, masks>>

Terminated == pc = "measured" /\ UNCHANGED vars

Next == ExtractBreakpoints \/ FindWord \/ Measure \/ Terminated

Spec == Init /\ [][Next]_vars

-----------------------------------------------------------------------------
\* SaxLength times the least squared distance of two series with these means: a
\* segment's values are all equal to its mean.
LeastDistance ==
  SaxLength * SumOver([g \in Segments |->
    SegmentLength(g) * ((query[g] - means[g]) * (query[g] - means[g]))], Segments)

\* Lower bounding: neither the distance to a word nor that to a leaf it belongs to
\* is above that to the series.  Pruning by them loses no answer (Bounding in Query).
LowerBounding ==
  pc = "measured" => distance.leaf <= LeastDistance /\ distance.series <= LeastDistance

\* The vectorised distances are the plain ones, for every number of segments that one
\* vector or two can hold, and give up in the same cases.
VectorsAgree ==
  pc = "measured" =>
    /\ distance.leafSIMD = distance.leaf /\ distance.seriesSIMD = distance.series
    /\ distance.fullSIMD = distance.full
    /\ \A t \in Thresholds : distance.earlySIMD[t] > t <=> distance.early[t] > t

\* The scan of a leaf, queryNodeThreadCore: a series gets through both its tests, of
\* the distance to its word and of one that may have been given up early, exactly if
\* it is nearer than local_bsf; and then with its full distance (Promising in Query).
NearerSeriesGetThrough ==
  pc = "measured" =>
    \A local_bsf \in Thresholds :
      LET through == /\ distance.seriesSIMD < SaxLength * local_bsf
                     /\ distance.earlySIMD[local_bsf] < local_bsf
      IN  /\ through <=> distance.full < local_bsf
          /\ through => distance.earlySIMD[local_bsf] = distance.full

-----------------------------------------------------------------------------
(* The invariant behind the theorems of SummariesProofs *)

SummariesInv ==
  /\ vector \in VectorLengths /\ means \in Means /\ query \in Queries /\ masks \in Masks
  /\ pc \in {"breakpoints", "word", "distance", "measured"}
  /\ pc # "breakpoints" =>
       \E s \in Sources : breakpoints = extractBreakpoints8(s.memory, s.length)
  /\ pc \in {"distance", "measured"} =>
       sax = [g \in Segments |->
                bSearchFloor(means[g], breakpoints[SaxCardinality], 0, Cells[SaxCardinality])]
  /\ pc = "measured" => distance = Measured

\* The breakpoints of a source are in order, as those of a sorted column are.
InOrder(s) ==
  \A b \in Bits : \A m \in 0 .. Cells[b] - 1 :
    LET bounds == extractBreakpoints8(s.memory, s.length)[b] IN bounds[m] <= bounds[m + 1]

\* As for NORMAL_BREAKPOINTS_8, which has 255 entries: those of few bits are among those
\* of more.
Nested(length) == length % Cells[SaxCardinality] = Cells[SaxCardinality] - 1

EqualSegments == SeriesLength % SaxLength = 0
=============================================================================

---------------------------- MODULE MCSummaries ----------------------------
(***************************************************************************)
(* Breakpoints, series and queries for TLC, with symbols of three bits.    *)
(* MCNormal is a table like NORMAL_BREAKPOINTS_8: one entry less than      *)
(* there are symbols, and anything behind it, which the last breakpoint    *)
(* is read from.  MCAdhoc is the sorted column of a database of 43 means,  *)
(* all different, and reads nothing behind its end.                        *)
(***************************************************************************)
EXTENDS Summaries

MCValueMin == -100

MCNormal ==
  {[length |-> 7, memory |-> [i \in 0 .. 7 |-> IF i = 7 THEN behind ELSE 2 * i + 1]] :
     behind \in {-9, 14, 19}}

MCMeans   == {[g \in Segments |-> IF g % 2 = 0 THEN a ELSE b] : a \in 0 .. 16, b \in {0, 7}}
MCQueries == {[g \in Segments |-> CASE g = 0 -> a [] g = 1 -> b [] OTHER -> c] :
                a \in {0, 6, 9, 15}, b \in {2, 12}, c \in {1, 16}}
MCMasks   == {[g \in Segments |-> IF g = 0 THEN a ELSE b] : a \in Bits, b \in Bits}

MCAdhoc == {[length |-> 43, memory |-> [i \in 0 .. 42 |-> i]]}

MCColumnMeans   == [Segments -> {0, 20, 21, 22, 23, 24, 42}]
MCColumnQueries == [Segments -> {0, 22, 24, 30}]

\* Values around the mean of a segment of even length, and values equal to it.
MCAround == [i \in 0 .. SeriesLength - 1 |-> IF i % 2 = 0 THEN 2 ELSE -2]
MCFlat   == [i \in 0 .. SeriesLength - 1 |-> 0]

MCUnequalMeans   == [Segments -> {4, 6}]
MCUnequalQueries == [Segments -> {4, 6, 16}]

=============================================================================

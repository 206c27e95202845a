----------------------------- MODULE MCSqueeze -----------------------------
(* Three leaves, one of three series, one of one and an empty one, over two  *)
(* segments of four bits.                                                    *)
EXTENDS Squeeze, TLC

\* A cell of a segment as its four bits.
Cell(n) == [b \in Bits |-> (n \div (2 ^ b)) % 2]

\* The first segment was never split on, the second once or twice, down to
\* where it has one bit or none left to squeeze.
MCNodes ==
  {[sax |-> [s \in Segments |-> Cell(0)], masks |-> <<3, m>>] : m \in {0, 1, 2}}

MCWords(n) ==
  {w \in {<<Cell(a), Cell(c)>> : a \in 0 .. 7, c \in {0, 2}} : Covers(n, w)}

\* The leaf of one series, and the one that is empty.
Other == [sax |-> <<Cell(8), Cell(0)>>, masks |-> <<3, 3>>]

MCLayout(list, n, chosen) ==
  [leaves |-> list,
   nodes  |-> [l \in DOMAIN list |-> IF Len(list[l]) = 3 THEN n ELSE Other],
   words  |-> chosen @@ [s \in Series |-> <<Cell(12), Cell(5)>>]]

\* The empty leaf begins where the leaf of one series does.
MCMiddle == << <<2, 3, 1>>, <<>>, <<0>> >>
\* It begins behind all words.
MCBehind == << <<3>>, <<2, 0, 1>>, <<>> >>
MCLists  == {MCMiddle, MCBehind}

MCBuilt ==
  UNION {{MCLayout(MCMiddle, n, chosen) : chosen \in [{1, 2, 3} -> MCWords(n)]} : n \in MCNodes}
  \cup UNION {{MCLayout(MCBehind, n, chosen) :
                 chosen \in [{0, 1, 2} -> {<<Cell(a), Cell(0)>> : a \in {0, 3, 6}}]} : n \in MCNodes}
=============================================================================

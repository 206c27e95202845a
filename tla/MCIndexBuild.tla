---------------------------- MODULE MCIndexBuild ----------------------------
(* Databases for IndexBuild: which words the series have.                   *)
EXTENDS IndexBuild

\* A word of two segments of two bits, written high bit first.
W(a, b, c, d) == <<[x \in 0 .. 1 |-> IF x = 1 THEN a ELSE b],
                   [x \in 0 .. 1 |-> IF x = 1 THEN c ELSE d]>>

\* Three words of one root and one of another.
Words == {W(0, 0, 0, 0), W(0, 0, 0, 1), W(0, 1, 0, 0), W(1, 0, 0, 1)}

\* Databases of five series that need no split, one or two, in which equal words
\* fill a leaf or overfill it, and which differ in who inserts what and when.
DatabasesOfWords ==
  {f \in [Series -> Words] :
     /\ f[0] = W(0, 0, 0, 0)
     /\ f[1] \in {W(0, 0, 0, 0), W(0, 1, 0, 0)}
     /\ f[2] \in {W(0, 0, 0, 0), W(0, 0, 0, 1)}}
=============================================================================

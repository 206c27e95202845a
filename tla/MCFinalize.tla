----------------------------- MODULE MCFinalize -----------------------------
(* Databases laid out in three leaves, which may be empty.                    *)
EXTENDS Finalize, FiniteSets

Orders ==
  {p \in [1 .. DatabaseSize -> Series] : \A a, b \in 1 .. DatabaseSize : p[a] = p[b] => a = b}

\* Every order of the series, cut at two places; one leaf may come out empty.
ThreeLeaves ==
  {<<SubSeq(p, 1, c), SubSeq(p, c + 1, d), SubSeq(p, d + 1, DatabaseSize)>> :
     p \in Orders, c \in {1, 3}, d \in {3, DatabaseSize}}
=============================================================================

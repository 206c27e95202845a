--------------------------- MODULE AnswerAbstract ---------------------------
(***************************************************************************)
(* What the answer to a query promises to hold: the K smallest of the      *)
(* distances offered to it since it was last cleaned, however often a      *)
(* distance was offered.  The heap of answer.c (Answer here) implements it *)
(* and has to name the largest of them.                                    *)
(***************************************************************************)
EXTENDS Integers, Bags

CONSTANTS K,              \* answer->k
          Distances,      \* the distances that may be offered
          Unbounded       \* the bound before anything is held, above them all

VARIABLES nearest,        \* the bag of distances held
          bsf             \* what getBSF returns

vars == <<nearest, bsf>>

Worst(bag) == CHOOSE d \in BagToSet(bag) : \A e \in BagToSet(bag) : e <= d

Init == nearest = EmptyBag /\ bsf = Unbounded

\* One more distance; the worst one goes when there are more than K.
Offer(d) ==
  LET more == nearest (+) SetToBag({d})
  IN  /\ nearest' = IF BagCardinality(more) > K
                    THEN more (-) SetToBag({Worst(more)}) ELSE more
      /\ bsf' = Worst(nearest')

Clean == nearest' = EmptyBag /\ bsf' = Unbounded

Next == Clean \/ \E d \in Distances : Offer(d)

Spec == Init /\ [][Next]_vars
=============================================================================

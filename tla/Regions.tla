------------------------------ MODULE Regions ------------------------------
(***************************************************************************)
(* iSAX words and the regions of them that tree nodes stand for: what the  *)
(* sax and masks arrays of a Node mean (include/index/node.h), how a root  *)
(* is found for a word, how a node is divided in two and how a word is     *)
(* routed to one of the halves.  In this module and in the ones below,     *)
(* Name_Slip is a mutant of Name: what Name would be with the slip named.  *)
(*                                                                         *)
(* A SAXWord is, per segment, the function from its bits to 0 or 1; a      *)
(* SAXMask (1u << b) is its bit b: the bits from b up are significant.     *)
(***************************************************************************)
EXTENDS Integers

CONSTANTS NumSegments,      \* config->sax_length
          SaxCardinality    \* config->sax_cardinality, the bits of a segment

ASSUME RegionsAssumption ==
  /\ NumSegments \in Nat \ {0}
  /\ SaxCardinality \in Nat \ {0}

Segments == 1 .. NumSegments
Bits     == 0 .. SaxCardinality - 1
TopBit   == SaxCardinality - 1
Word     == [Segments -> [Bits -> {0, 1}]]
Node     == [sax : Word, masks : [Segments -> Bits]]

NoSegment == 0

\* rootSAX2ID followed by rootID2SAX: the top bit of every segment.
RootOf(w) ==
  [sax   |-> [s \in Segments |-> [b \in Bits |-> IF b = TopBit THEN w[s][b] ELSE 0]],
   masks |-> [s \in Segments |-> TopBit]]

Roots == {RootOf(w) : w \in Word}

\* Both children get the mask of the split segment moved down by one bit; the
\* left one keeps the parent's sax, the right one sets the bit gained.
ChildMasks(p, s) == [p.masks EXCEPT ![s] = @ - 1]

LeftChild(p, s)  == [sax |-> p.sax, masks |-> ChildMasks(p, s)]

RightChild_BitNotSet(p, s) == [sax |-> p.sax, masks |-> ChildMasks(p, s)]
RightChild(p, s) ==
  [sax   |-> [p.sax EXCEPT ![s] = [@ EXCEPT ![p.masks[s] - 1] = 1]],
   masks |-> ChildMasks(p, s)]

\* A segment whose mask is 1u has no bit left to split on (masks[i] ^ 1u).
Splittable_LastIgnored(n) == {s \in Segments \ {NumSegments} : n.masks[s] # 0}
Splittable(n) == {s \in Segments : n.masks[s] # 0}

\* The region of n contains the word w.
Covers(n, w) ==
  \A s \in Segments : \A b \in Bits : b >= n.masks[s] => w[s][b] = n.sax[s][b]

\* The region of m is contained in that of n.
Within(m, n) ==
  \A s \in Segments :
    /\ m.masks[s] <= n.masks[s]
    /\ \A b \in Bits : b >= n.masks[s] => m.sax[s][b] = n.sax[s][b]

\* No bit below the mask is set: what lets the left child keep the sax word.
Clean(n) == \A s \in Segments : \A b \in Bits : b < n.masks[s] => n.sax[s][b] = 0

\* Some bit that is significant in both tells m and n apart.
Disjoint(m, n) ==
  \E s \in Segments : \E b \in Bits :
    b >= m.masks[s] /\ b >= n.masks[s] /\ m.sax[s][b] # n.sax[s][b]

\* The one segment in which the children's masks differ from their parent's
\* is the segment s the parent was split on; its new bit decides.
Route(p, s, w) ==
  IF w[s][p.masks[s] - 1] = 1 THEN RightChild(p, s) ELSE LeftChild(p, s)

\* squeezeNode on one segment of a leaf with the given masks: the bits between
\* masks and the bit current are compared to those of the first word.  The first
\* one that differs, from the top, is the first one dropped; that ends the loop.
Differing_StartsLate(masks, first, w, current, s) ==
  {b \in Bits : current < b /\ b < masks[s] - 1 /\ w[s][b] # first[s][b]}
Differing(masks, first, w, current, s) ==
  {b \in Bits : current < b /\ b < masks[s] /\ w[s][b] # first[s][b]}

Squeezed_OneTooMany(masks, first, w, current, s) ==
  LET differing == Differing(masks, first, w, current, s)
  IN  IF differing = {} THEN current
      ELSE 2 + CHOOSE b \in differing : \A c \in differing : c <= b
Squeezed_ToLeafMask(masks, first, w, current, s) ==
  IF Differing(masks, first, w, current, s) = {} THEN current ELSE masks[s]
Squeezed(masks, first, w, current, s) ==
  LET differing == Differing(masks, first, w, current, s)
  IN  IF differing = {} THEN current
      ELSE 1 + CHOOSE b \in differing : \A c \in differing : c <= b
=============================================================================

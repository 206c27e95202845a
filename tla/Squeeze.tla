------------------------------ MODULE Squeeze ------------------------------
(***************************************************************************)
(* The whole of finalizeIndex (src/src/index/index_engine.c): Finalize     *)
(* moves series and words into leaf order, then squeezeNode walks the same *)
(* leaves and narrows the region of each to what its series have in        *)
(* common.  The leaf's sax becomes the word found at its start_id, and     *)
(* squeezed_masks says how many bits of it, per segment, bound the leaf    *)
(* in queries.                                                             *)
(*                                                                         *)
(* MASKS_BY_BITS[k] with growing k is a bit b going down: the loop over k  *)
(* from BITS_BY_MASK[masks] + 1 to below BITS_BY_MASK[squeezed_masks]      *)
(* compares the bits below masks and above squeezed_masks.                 *)
(***************************************************************************)
EXTENDS Finalize, Regions

CONSTANT Built     \* what was built: leaves, the node of each and the word of each series

\* What construction guarantees (IndexBuildProofs, SeriesAreFiled).
ASSUME BuiltAssumption ==
  \A b \in Built :
    /\ b.leaves \in LeafLists
    /\ b.nodes \in [DOMAIN b.leaves -> Node] /\ b.words \in [Series -> Word]
    /\ \A l \in DOMAIN b.leaves : \A q \in DOMAIN b.leaves[l] :
         Covers(b.nodes[l], b.words[b.leaves[l][q]])

VARIABLES nodes,             \* per leaf, its node as it was built
          words,             \* the words of all series
          at,                \* the leaf squeezeNode is at
          sax,               \* per leaf, node->sax
          squeezed_masks,    \* per leaf, node->squeezed_masks
          segment_flags,     \* the segments that may have to give up bits
          entry              \* of the leaf, the one that is compared next

squeezing == <<nodes, words, at, sax, squeezed_masks, segment_flags, entry>>
all == <<vars, squeezing>>

SqueezeInit ==
  /\ Init
  /\ \E b \in Built : leaves = b.leaves /\ nodes = b.nodes /\ words = b.words
  /\ at = 0 /\ entry = 1
  /\ sax = [l \in DOMAIN leaves |-> nodes[l].sax]
  /\ squeezed_masks = [l \in DOMAIN leaves |-> nodes[l].masks]
  /\ segment_flags = [s \in Segments |-> FALSE]

\* segments_nonsqueezable < index->sax_length
Squeezable == \E s \in Segments : segment_flags[s]

LeafDone == at > 0 => entry > Len(leaves[at]) \/ ~Squeezable
AllDone  == at = Len(leaves) /\ LeafDone

\* All bits of the word at start_id, for a start.  At the end of saxs, where an empty
\* leaf may begin, there is anything.
EnterLeaf ==
  LET first == start_id[at + 1]
  IN  /\ pc = "done" /\ at < Len(leaves) /\ LeafDone
      /\ at' = at + 1
      /\ \E w \in Word : /\ first < DatabaseSize => w = words[saxs[first]]
                         /\ sax' = [sax EXCEPT ![at + 1] = w]
      /\ squeezed_masks' = [squeezed_masks EXCEPT ![at + 1] = [s \in Segments |-> 0]]
      /\ segment_flags' = IF Len(leaves[at + 1]) > 1
                          THEN [s \in Segments |-> s \in Splittable(nodes[at + 1])]
                          ELSE segment_flags
      /\ entry' = 2
      /\ UNCHANGED <<vars, nodes, words>>

\* The word of the next entry against the first one's.
WordAt(q) == words[saxs[start_id[at] + q - 1]]

SqueezeSeries ==
  /\ ~LeafDone
  /\ squeezed_masks' = [squeezed_masks EXCEPT ![at] = [s \in Segments |->
       IF segment_flags[s] THEN Squeezed(nodes[at].masks, sax[at], WordAt(entry), @[s], s)
       ELSE @[s]]]
  /\ segment_flags' = [s \in Segments |->
       segment_flags[s] /\ squeezed_masks'[at][s] # nodes[at].masks[s]]
  /\ entry' = entry + 1
  /\ UNCHANGED <<vars, nodes, words, at, sax>>

Finalized == (pc = "aborted" \/ (pc = "done" /\ AllDone)) /\ UNCHANGED all

SqueezeNext == (Move /\ UNCHANGED squeezing) \/ EnterLeaf \/ SqueezeSeries \/ Finalized

SqueezeSpec == SqueezeInit /\ [][SqueezeNext]_all /\ WF_all(SqueezeNext)

----------------------------------------------------------------------------
(* Properties *)

Region(l) == [sax |-> sax[l], masks |-> squeezed_masks[l]]

\* A squeezed region never extends beyond the region that its leaf was built with,
\* although the loop stops as soon as no segment has a bit left to keep.
SqueezedWithinLeaf ==
  \A l \in DOMAIN leaves : l <= at /\ leaves[l] # <<>> => Within(Region(l), nodes[l])

\* Above the last bit kept, all series that construction filed in a leaf agree with
\* its sax, although their words were moved in between.  The last bit kept itself is
\* never compared: see ExactSearch in the README for what follows.
AgreeAboveLastBit ==
  \A l \in DOMAIN leaves : l < at \/ (l = at /\ LeafDone) =>
    \A q \in DOMAIN leaves[l] : \A s \in Segments : \A b \in Bits :
      b > squeezed_masks[l][s] => words[leaves[l][q]][s][b] = sax[l][s][b]

\* No bit is given up that all series of the leaf agree on, from the top down
\* to it: squeezing is as tight as its comparisons allow.
NoBitGivenUpInVain ==
  \A l \in DOMAIN leaves : l <= at =>
    \A s \in Segments : squeezed_masks[l][s] > 0 =>
      \E q \in DOMAIN leaves[l] :
        words[leaves[l][q]][s][squeezed_masks[l][s] - 1] # sax[l][s][squeezed_masks[l][s] - 1]

----------------------------------------------------------------------------
(* The inductive invariant behind the theorems of FinalizeProofs *)

SqueezeTypeOK ==
  /\ nodes \in [DOMAIN leaves -> Node] /\ words \in [Series -> Word]
  /\ at \in 0 .. Len(leaves) /\ entry \in Nat
  /\ sax \in [DOMAIN leaves -> Word]
  /\ squeezed_masks \in [DOMAIN leaves -> [Segments -> Bits]]
  /\ segment_flags \in [Segments -> BOOLEAN]

WordOf(l, q) == words[leaves[l][q]]

Filed == \A l \in DOMAIN leaves : \A q \in DOMAIN leaves[l] : Covers(nodes[l], WordOf(l, q))

Agrees(l, q) ==
  \A s \in Segments : \A b \in Bits :
    squeezed_masks[l][s] < b => WordOf(l, q)[s][b] = sax[l][s][b]

\* The leaves entered, the one squeezeNode is at up to the entry before this one.
Compared ==
  \A l \in DOMAIN leaves : l <= at /\ leaves[l] # <<>> =>
    /\ sax[l] = WordOf(l, 1)
    /\ \A s \in Segments : squeezed_masks[l][s] <= nodes[l].masks[s]
    /\ \A q \in DOMAIN leaves[l] : l < at \/ q < entry => Agrees(l, q)

\* Flags tell which segments have bits left.
Flagged ==
  at > 0 =>
    /\ pc = "done" /\ entry > 1
    /\ Len(leaves[at]) > 1 =>
         \A s \in Segments : segment_flags[s] <=> squeezed_masks[at][s] # nodes[at].masks[s]

SqueezeInv == SqueezeTypeOK /\ Filed /\ Compared /\ Flagged /\ NoBitGivenUpInVain
=============================================================================

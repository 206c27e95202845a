------------------------------- MODULE Nodes -------------------------------
(***************************************************************************)
(* Who owns the memory of the tree, from initializeIndex to freeIndex      *)
(* (src/src/index/index.c, node.c), through the phases of main             *)
(* (src/main.c).  The roots share one array of masks, two siblings share   *)
(* another, and a left child shares the sax of its parent; freeNode is     *)
(* told by flags what to free.  A node is named by its root and the turns  *)
(* to it, a block of memory by what it is and the node it was allocated    *)
(* for.  One insertion and one split are one step each: the locks of       *)
(* IndexBuild make them so.  The recursive walks keep their pending calls  *)
(* in todo.                                                                *)
(***************************************************************************)
EXTENDS Sequences, Sums

CONSTANTS RootsSize,      \* index->roots_size
          DatabaseSize,   \* index->database_size
          LeafSize,       \* config->leaf_size
          MaxDepth,       \* how often one path can be split: its bits
          NULL

ASSUME NodesAssumption ==
  /\ RootsSize \in Nat \ {0} /\ DatabaseSize \in Nat \ {0}
  /\ LeafSize \in Nat \ {0} /\ MaxDepth \in Nat

\* What a block of memory holds.
Kinds == {"node", "lock", "sax", "masks", "ids", "squeezed_masks"}

\* A null pointer is neither that of a node nor that of a block.
ASSUME NullAssumption == NULL \notin Seq(Nat) /\ NULL \notin Kinds \X Seq(Nat)

Roots    == 0 .. RootsSize - 1
Left(n)  == Append(n, 0)
Right(n) == Append(n, 1)

VARIABLES
  phase,        \* where main is
  root,         \* i, the next root of the walk
  todo,         \* the calls the walk has still to make, the next one first
  roots,        \* index->roots
  nodes,        \* the fields of every node that was allocated
  live,         \* the blocks allocated and not freed
  content,      \* per sax block, the first series of the leaf squeezed into it
  counter,      \* of fetchPermutation
  num_leaves,   \* index->num_leaves
  leaves        \* the array that enqueueLeaf fills

memory == <<roots, nodes, live, content>>
vars   == <<phase, root, todo, memory, counter, num_leaves, leaves>>

\* What initializeNode allocates for n, besides the sax it may be given.
Blocks(n) == {<<"node", n>>, <<"lock", n>>}
RootMasks == <<"masks", << >>>>

initializeNode(sax, masks) ==
  [sax |-> sax, masks |-> masks, squeezed_masks |-> NULL, ids |-> NULL,
   start_id |-> 0, size |-> 0, left |-> NULL, right |-> NULL]

Init ==
  /\ phase = "build" /\ root = 0 /\ todo = << >>
  /\ roots = [i \in Roots |-> <<i>>]
  /\ nodes = [n \in {<<i>> : i \in Roots} |-> initializeNode(<<"sax", n>>, RootMasks)]
  /\ live = {RootMasks} \cup UNION {Blocks(<<i>>) \cup {<<"sax", <<i>>>>} : i \in Roots}
  /\ content = << >>
  /\ counter = 0 /\ num_leaves = 0 /\ leaves = << >>

-----------------------------------------------------------------------------
(* buildIndex: insertNode and splitNode *)

sizes     == [n \in DOMAIN nodes |-> nodes[n].size]
Inserted  == SumOver(sizes, DOMAIN nodes)
IsLeaf(n) == nodes[n].left = NULL

\* ids is allocated by the first insertion, and reallocated in its place.
Filled(node, n, size) ==
  IF size = 0 THEN node ELSE [node EXCEPT !.ids = <<"ids", n>>, !.size = size]
IdsOf(n, size) == IF size = 0 THEN {} ELSE {<<"ids", n>>}

InsertNode(n) ==
  /\ phase = "build" /\ Inserted < DatabaseSize
  /\ IsLeaf(n) /\ nodes[n].size < LeafSize
  /\ nodes' = [nodes EXCEPT ![n] = Filled(@, n, @.size + 1)]
  /\ live' = live \cup {<<"ids", n>>}
  /\ UNCHANGED <<phase, root, todo, roots, content, counter, num_leaves, leaves>>

\* The children share their masks; the left one has the parent's sax, the right
\* one has its own.
RightSax_Parents(n) == nodes[n].sax
RightSax(n) == <<"sax", Right(n)>>

\* A full leaf is split by a worker that has one more series for it; any part of
\* its series goes to the right, none and all included.
SplitNode(n) ==
  /\ phase = "build" /\ Inserted < DatabaseSize
  /\ IsLeaf(n) /\ nodes[n].size = LeafSize /\ Len(n) <= MaxDepth
  /\ \E right \in 0 .. LeafSize :
       LET l == Left(n)
           r == Right(n)
           masks == <<"masks", n>>
           parent == [nodes[n] EXCEPT !.left = l, !.right = r, !.size = 0, !.ids = NULL]
           left_node  == Filled(initializeNode(nodes[n].sax, masks), l, LeafSize - right)
           right_node == Filled(initializeNode(RightSax(n), masks), r, right)
       IN  /\ nodes' = [m \in DOMAIN nodes \cup {l, r} |->
                          CASE m = n -> parent [] m = l -> left_node
                            [] m = r -> right_node [] OTHER -> nodes[m]]
           /\ live' = (live \ {nodes[n].ids}) \cup {masks, RightSax(n)} \cup Blocks(l)
                        \cup Blocks(r) \cup IdsOf(l, LeafSize - right) \cup IdsOf(r, right)
  /\ UNCHANGED <<phase, root, todo, roots, content, counter, num_leaves, leaves>>

-----------------------------------------------------------------------------
(* The walks over the tree.  Head(todo) is the call that is made next. *)

Call(function, n) == [function |-> function, node |-> n]
FreeCall(n, free_mask, free_sax) ==
  [function |-> "freeNode", node |-> n, free_mask |-> free_mask, free_sax |-> free_sax]

Calling(function) == todo # << >> /\ Head(todo).function = function
Callee    == Head(todo).node
Return    == todo' = Tail(todo)
Recurse   == todo' = <<[Head(todo) EXCEPT !.node = nodes[Callee].left],
                       [Head(todo) EXCEPT !.node = nodes[Callee].right]>> \o Tail(todo)

FetchPermutation ==
  /\ Calling("fetchPermutation")
  /\ IF IsLeaf(Callee)
     THEN /\ nodes' = [nodes EXCEPT ![Callee].start_id = counter, ![Callee].ids = NULL]
          /\ live' = live \ {nodes[Callee].ids}
          /\ counter' = counter + nodes[Callee].size
          /\ Return
     ELSE Recurse /\ UNCHANGED <<nodes, live, counter>>
  /\ UNCHANGED <<phase, root, roots, content, num_leaves, leaves>>

\* The first word of the leaf overwrites its sax, which its ancestors share.
SqueezeNode ==
  /\ Calling("squeezeNode")
  /\ IF IsLeaf(Callee)
     THEN /\ nodes' = [nodes EXCEPT ![Callee].squeezed_masks = <<"squeezed_masks", Callee>>]
          /\ live' = live \cup {<<"squeezed_masks", Callee>>}
          /\ content' = [b \in DOMAIN content \cup {nodes[Callee].sax} |->
                           IF b = nodes[Callee].sax THEN nodes[Callee].start_id ELSE content[b]]
          /\ Return
     ELSE Recurse /\ UNCHANGED <<nodes, live, content>>
  /\ UNCHANGED <<phase, root, roots, counter, num_leaves, leaves>>

InspectNode ==
  /\ Calling("inspectNode")
  /\ IF nodes[Callee].size # 0 THEN num_leaves' = num_leaves + 1 /\ Return
     ELSE /\ IF IsLeaf(Callee) THEN Return ELSE Recurse
          /\ UNCHANGED num_leaves
  /\ UNCHANGED <<phase, root, memory, counter, leaves>>

EnqueueLeaf_Empty ==
  /\ Calling("enqueueLeaf")
  /\ IF IsLeaf(Callee) THEN leaves' = Append(leaves, Callee) /\ Return
     ELSE Recurse /\ UNCHANGED leaves
  /\ UNCHANGED <<phase, root, memory, counter, num_leaves>>
EnqueueLeaf ==
  /\ Calling("enqueueLeaf")
  /\ IF nodes[Callee].size # 0 THEN leaves' = Append(leaves, Callee) /\ Return
     ELSE /\ IF IsLeaf(Callee) THEN Return ELSE Recurse
          /\ UNCHANGED leaves
  /\ UNCHANGED <<phase, root, memory, counter, num_leaves>>

\* freeNode frees the children first: the left one has nothing of its own, the
\* right one the masks of both and its sax.
FreeChildren_LeftSax(n) ==
  IF IsLeaf(n) THEN << >>
  ELSE <<FreeCall(nodes[n].left, FALSE, TRUE), FreeCall(nodes[n].right, TRUE, TRUE)>>
FreeChildren(n) ==
  IF IsLeaf(n) THEN << >>
  ELSE <<FreeCall(nodes[n].left, FALSE, FALSE), FreeCall(nodes[n].right, TRUE, TRUE)>>

FreeNode ==
  /\ Calling("freeNode")
  /\ todo' = FreeChildren(Callee) \o <<[Head(todo) EXCEPT !.function = "free"]>> \o Tail(todo)
  /\ UNCHANGED <<phase, root, memory, counter, num_leaves, leaves>>

\* What remains of freeNode when the children are gone.
Freed(call) ==
  LET node == nodes[call.node]
  IN  Blocks(call.node) \cup ({node.squeezed_masks, node.ids} \ {NULL})
        \cup (IF call.free_mask THEN {node.masks} ELSE {})
        \cup (IF call.free_sax THEN {node.sax} ELSE {})

Free ==
  /\ Calling("free")
  /\ live' = live \ Freed(Head(todo))
  /\ Return
  /\ UNCHANGED <<phase, root, roots, nodes, content, counter, num_leaves, leaves>>

Walk ==
  FetchPermutation \/ SqueezeNode \/ InspectNode \/ EnqueueLeaf \/ FreeNode \/ Free

-----------------------------------------------------------------------------
(* main: one loop over the roots after another *)

\* finalizeIndex frees a root that nothing was inserted below, but not the masks
\* that the other roots share.
FinalizeRoot(n) ==
  IF nodes[n].size = 0 /\ IsLeaf(n)
  THEN todo' = <<FreeCall(n, FALSE, TRUE)>> /\ roots' = [roots EXCEPT ![root] = NULL]
  ELSE todo' = <<Call("fetchPermutation", n)>> /\ UNCHANGED roots

\* freeIndex: the masks of all roots go with the first root that is left.
FirstRoot_IsRootZero(i) == i = 0
FirstRoot(i) == \A j \in 0 .. i - 1 : roots[j] = NULL

NextRoot ==
  /\ todo = << >> /\ root < RootsSize
  /\ phase \in {"fetch", "squeeze", "inspect", "enqueue", "free"}
  /\ root' = root + 1
  /\ IF phase = "fetch" THEN FinalizeRoot(roots[root])
     ELSE /\ todo' = IF roots[root] = NULL THEN << >>
                     ELSE CASE phase = "squeeze" -> <<Call("squeezeNode", roots[root])>>
                            [] phase = "inspect" -> <<Call("inspectNode", roots[root])>>
                            [] phase = "enqueue" -> <<Call("enqueueLeaf", roots[root])>>
                            [] phase = "free"    -> <<FreeCall(roots[root], FirstRoot(root), TRUE)>>
          /\ UNCHANGED roots
  /\ UNCHANGED <<phase, nodes, live, content, counter, num_leaves, leaves>>

Following ==
  [build |-> "fetch", fetch |-> "squeeze", squeeze |-> "inspect", inspect |-> "enqueue",
   enqueue |-> "query", query |-> "free", free |-> "done"]

PhaseDone ==
  CASE phase = "build" -> Inserted = DatabaseSize
    [] phase = "query" -> TRUE
    [] phase = "done"  -> FALSE
    [] OTHER           -> todo = << >> /\ root = RootsSize

NextPhase ==
  /\ PhaseDone
  /\ phase' = Following[phase]
  /\ root' = 0
  /\ UNCHANGED <<todo, memory, counter, num_leaves, leaves>>

\* A path without a bit left may end the program (FailToSplit in IndexBuild).
Terminated ==
  /\ \/ phase = "done"
     \/ phase = "build" /\ \E n \in DOMAIN nodes : nodes[n].size = LeafSize /\ Len(n) > MaxDepth
  /\ UNCHANGED vars

Next ==
  \/ \E n \in DOMAIN nodes : InsertNode(n) \/ SplitNode(n)
  \/ Walk \/ NextRoot \/ NextPhase \/ Terminated

Spec == Init /\ [][Next]_vars

-----------------------------------------------------------------------------
(* Properties *)

\* The blocks that a call reads, writes or frees before it calls others.
Touched(call) ==
  LET node == nodes[call.node]
  IN  {<<"node", call.node>>} \cup
      CASE call.function = "fetchPermutation" -> {node.ids} \ {NULL}
        [] call.function = "squeezeNode" /\ IsLeaf(call.node) -> {node.sax, node.masks}
        [] call.function = "free" -> Freed(call)
        [] OTHER -> {}

\* No walk reads, writes or frees what was freed before: not the sax of a parent
\* after its left child, not the masks of a sibling or of another root.
NothingDangling == todo # << >> => Touched(Head(todo)) \subseteq live

InTree(n) == roots[n[1]] # NULL

\* While queries run every node below a root that is left can be read, and what
\* bounds a leaf is its own: no other leaf has overwritten the sax it shares.
TreeIntact ==
  phase = "query" =>
    \A n \in DOMAIN nodes : InTree(n) =>
      /\ {<<"node", n>>, nodes[n].sax, nodes[n].masks} \subseteq live
      /\ IsLeaf(n) => nodes[n].squeezed_masks \in live
      /\ nodes[n].size # 0 => content[nodes[n].sax] = nodes[n].start_id

\* The array of leaves, allocated by the count of inspectNode, holds all that
\* enqueueLeaf writes, and its leaves have the database among them, one behind the
\* other: what the assertion on num_leaves and LeavesAssumption of Query say.
LeavesInOrder ==
  phase \in {"enqueue", "query"} =>
    /\ Len(leaves) <= num_leaves
    /\ \A j \in 1 .. Len(leaves) :
         nodes[leaves[j]].start_id =
           IF j = 1 THEN 0 ELSE nodes[leaves[j - 1]].start_id + nodes[leaves[j - 1]].size
    /\ phase = "query" =>
         /\ Len(leaves) = num_leaves
         /\ nodes[leaves[num_leaves]].start_id + nodes[leaves[num_leaves]].size = DatabaseSize

\* freeIndex leaves nothing of the tree behind.
NothingLeaked == phase = "done" => live = {}

-----------------------------------------------------------------------------
(* The inductive invariant behind the theorems of NodesProofs *)

Below(n) == {m \in DOMAIN nodes : Len(n) <= Len(m) /\ \A i \in 1 .. Len(n) : m[i] = n[i]}
Above(n) == {m \in DOMAIN nodes : Len(m) < Len(n) /\ \A i \in 1 .. Len(m) : m[i] = n[i]}

\* Nodes that a walk, which goes to the left first, has been at before it is at n;
\* those above n aside.
LeftOf(n) ==
  {m \in DOMAIN nodes : \E j \in 1 .. Len(n) :
     j <= Len(m) /\ m[j] < n[j] /\ \A i \in 1 .. j - 1 : m[i] = n[i]}

Before(n)  == LeftOf(n) \cup Above(n)
Earlier(i) == {n \in DOMAIN nodes : n[1] < i}

\* Nodes are done when a walk is through with them, and freed after those below.
Frees(call) == call.function \in {"freeNode", "free"}
Begin(call) ==
  CASE call.function = "freeNode" -> LeftOf(call.node)
    [] call.function = "free"     -> LeftOf(call.node) \cup (Below(call.node) \ {call.node})
    [] OTHER                      -> Before(call.node)
End(call) ==
  LeftOf(call.node) \cup Below(call.node)
    \cup IF Frees(call) THEN {} ELSE Above(call.node)

Reached(calls) == IF calls = << >> THEN Earlier(root) ELSE Begin(Head(calls))
Done           == Reached(todo)

Walks == [fetch |-> "fetchPermutation", squeeze |-> "squeezeNode", inspect |-> "inspectNode",
          enqueue |-> "enqueueLeaf", free |-> "freeNode"]

Calls == [function : {Walks[p] : p \in DOMAIN Walks \ {"free"}}, node : DOMAIN nodes]
           \cup [function : {"freeNode", "free"}, node : DOMAIN nodes,
                 free_mask : BOOLEAN, free_sax : BOOLEAN]

OrNull(block) == {NULL, block}
NodeTyped(n, node) ==
  node \in [sax : Kinds \X Seq(Nat), masks : Kinds \X Seq(Nat),
            squeezed_masks : OrNull(<<"squeezed_masks", n>>), ids : OrNull(<<"ids", n>>),
            start_id : Int, size : Nat, left : OrNull(Left(n)), right : OrNull(Right(n))]

IsPath(n) ==
  n \in Seq(Nat) /\ n # << >> /\ n[1] \in Roots /\ \A i \in 2 .. Len(n) : n[i] \in {0, 1}

Typed ==
  /\ phase \in DOMAIN Following \cup {"done"} /\ root \in 0 .. RootsSize
  /\ IsFiniteSet(DOMAIN nodes) /\ \A i \in Roots : <<i>> \in DOMAIN nodes
  /\ \A n \in DOMAIN nodes : IsPath(n) /\ NodeTyped(n, nodes[n])
  /\ roots \in [Roots -> Seq(Nat) \cup {NULL}] /\ \A i \in Roots : roots[i] \in {<<i>>, NULL}
  /\ todo \in Seq(Calls) /\ leaves \in Seq(DOMAIN nodes) /\ num_leaves \in Nat /\ counter \in Int

\* Inner nodes have two children and no series; below leaves there is nothing.
Shape ==
  \A n \in DOMAIN nodes :
    /\ ~IsLeaf(n) => /\ nodes[n].left = Left(n) /\ nodes[n].right = Right(n)
                     /\ {Left(n), Right(n)} \subseteq DOMAIN nodes /\ nodes[n].size = 0
    /\ IsLeaf(n) => \A m \in Below(n) : m = n

OwnsSax(n) == Len(n) = 1 \/ n[Len(n)] = 1

\* A sax is that of a root or a right child, and of those to the left below it.
Shares(n, r) ==
  r \in DOMAIN nodes /\ OwnsSax(r) /\ n \in Below(r) /\ \A i \in Len(r) + 1 .. Len(n) : n[i] = 0

Shared ==
  \A n \in DOMAIN nodes :
    /\ \E r \in DOMAIN nodes : nodes[n].sax = <<"sax", r>> /\ Shares(n, r)
    /\ IF Len(n) = 1 THEN nodes[n].masks = RootMasks
       ELSE \E p \in DOMAIN nodes : /\ ~IsLeaf(p) /\ n \in {Left(p), Right(p)}
                                    /\ nodes[n].masks = <<"masks", p>>

\* What a call has to do with the phase and the root that the loop is at.
Fits(call) ==
  LET n == call.node
  IN  /\ n[1] = root - 1
      /\ Frees(call) <=> phase = "free" \/ (phase = "fetch" /\ ~InTree(n))
      /\ ~Frees(call) => call.function = Walks[phase] /\ InTree(n)
      /\ phase = "free" => InTree(n)
      /\ Frees(call) =>
           /\ call.free_sax <=> OwnsSax(n)
           /\ call.free_mask <=> IF Len(n) = 1 THEN phase = "free" /\ FirstRoot(n[1])
                                 ELSE n[Len(n)] = 1

\* The calls come in the order of the tree, without a gap.
Chained(calls) ==
  \A j \in 1 .. Len(calls) :
    End(calls[j]) = IF j = Len(calls) THEN Earlier(root) ELSE Begin(calls[j + 1])

Stack ==
  /\ phase \notin DOMAIN Walks => todo = << >>
  /\ todo # << >> => root > 0
  /\ \A j \in 1 .. Len(todo) : Fits(todo[j])
  /\ Chained(todo)

\* Only roots without series are dropped, in the walk that fetches.
Dropped ==
  /\ phase = "build" => \A i \in Roots : roots[i] # NULL
  /\ phase = "fetch" => \A i \in Roots : roots[i] = NULL => i < root
  /\ \A i \in Roots : roots[i] = NULL => IsLeaf(<<i>>) /\ nodes[<<i>>].size = 0

\* What is not freed yet.
Standing ==
  {n \in DOMAIN nodes : /\ phase \notin {"done"}
                        /\ phase = "free" => n \notin Done
                        /\ InTree(n) \/ (phase = "fetch" /\ n \notin Done)}

RootMasksLive ==
  /\ phase # "done"
  /\ phase = "free" => \A i \in Roots : InTree(<<i>>) /\ <<i>> \in Done => ~FirstRoot(i)

Memory ==
  /\ live \subseteq (Kinds \X DOMAIN nodes) \cup {RootMasks}
  /\ RootMasks \in live <=> RootMasksLive
  /\ \A n \in DOMAIN nodes :
       /\ <<"node", n>> \in live <=> n \in Standing
       /\ <<"lock", n>> \in live <=> n \in Standing
       /\ <<"sax", n>> \in live <=> n \in Standing /\ OwnsSax(n)
       /\ <<"masks", n>> \in live <=> ~IsLeaf(n) /\ Right(n) \in Standing
       /\ <<"ids", n>> \in live <=> n \in Standing /\ nodes[n].ids # NULL
       /\ <<"squeezed_masks", n>> \in live <=> n \in Standing /\ nodes[n].squeezed_masks # NULL

\* Whether the walk of a phase has been at n.
After(p) ==
  {"inspect", "enqueue", "query", "free", "done"} \cup IF p = "fetch" THEN {"squeeze"} ELSE {}
Passed(p, n) == phase \in After(p) \/ (phase = p /\ n \in Done)

LeavesDone ==
  \A n \in DOMAIN nodes : IsLeaf(n) /\ InTree(n) =>
    /\ Passed("fetch", n) => nodes[n].start_id = SumOver(sizes, Before(n))
    /\ Passed("squeeze", n) => /\ nodes[n].squeezed_masks # NULL /\ nodes[n].sax \in DOMAIN content
                               /\ content[nodes[n].sax] = nodes[n].start_id

Filed(S) == {n \in S : nodes[n].size # 0}
EndOf(n) == nodes[n].start_id + nodes[n].size

Counts ==
  /\ phase # "build" => Inserted = DatabaseSize
  /\ phase = "build" => counter = 0 /\ num_leaves = 0 /\ leaves = << >>
  /\ phase = "fetch" => counter = SumOver(sizes, Done)
  /\ phase \in {"fetch", "squeeze"} => num_leaves = 0
  /\ phase = "inspect" => num_leaves = Cardinality(Filed(Done))
  /\ phase \in {"enqueue", "query"} => num_leaves = Cardinality(Filed(DOMAIN nodes))
  /\ phase \in {"fetch", "squeeze", "inspect"} => leaves = << >>
  /\ phase \in {"enqueue", "query"} =>
       LET done == IF phase = "query" THEN DOMAIN nodes ELSE Done
       IN  /\ Len(leaves) = Cardinality(Filed(done))
           /\ SumOver(sizes, done) = IF leaves = << >> THEN 0 ELSE EndOf(leaves[Len(leaves)])
           /\ \A j \in 1 .. Len(leaves) :
                nodes[leaves[j]].start_id = IF j = 1 THEN 0 ELSE EndOf(leaves[j - 1])

IInv == Typed /\ Shape /\ Shared /\ Dropped /\ Stack /\ Memory /\ LeavesDone /\ Counts
=============================================================================

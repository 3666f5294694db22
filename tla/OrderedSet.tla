----------------------------- MODULE OrderedSet -----------------------------
(***************************************************************************)
(* justOrderedSet (src/dataStructures/orderedSet.c, orderedSet.h): an AVL  *)
(* tree on the heap or in a linear allocator.  The comparison is the order *)
(* of numbers.  A tree is Nil or a node with its subtrees; a node is an    *)
(* address, so a rotation moves nodes and a removal may move data.  The    *)
(* node at which a caller keeps a pointer from justOrderedSetFind is held. *)
(***************************************************************************)
EXTENDS Integers, Sequences, FiniteSets

CONSTANTS
  Elements,
  Watched,     \* bound: the elements a caller keeps a pointer to
  Nil,
  ArenaNodes,  \* nodes that fit in the linear allocator
  MaxLost      \* bound: insertions for which there is no memory

ASSUME SetAssumption ==
  /\ Elements \subseteq Int /\ Watched \subseteq Elements
  /\ ArenaNodes \in Nat /\ MaxLost \in Nat

VARIABLES
  root, size,
  allocator,  \* "heap" or "arena"
  nodes,      \* nodes allocated and not freed
  lost,       \* history: insertions without memory since the set was empty
  kept,       \* history: what the caller found through its pointer, or Nil
  out         \* what the last call reported

vars == <<root, size, allocator, nodes, lost, kept, out>>

\* justOrderedSetCreate
Init ==
  /\ root = Nil /\ size = 0
  /\ allocator \in {"heap", "arena"}
  /\ nodes = 0 /\ lost = 0
  /\ kept = Nil /\ out = <<>>

-----------------------------------------------------------------------------
(* Trees *)

nodeHeight(t) == IF t = Nil THEN 0 ELSE t.height

getBalance(t) == IF t = Nil THEN 0 ELSE nodeHeight(t.left) - nodeHeight(t.right)

\* t with its height recomputed from its children's.
Measured(t) ==
  [t EXCEPT !.height = 1 + IF nodeHeight(t.left) > nodeHeight(t.right)
                             THEN nodeHeight(t.left) ELSE nodeHeight(t.right)]

\* Mutant: the upper node stays where it is and the data change places.
rotateRightByData(y) ==
  LET lower == Measured([y EXCEPT !.left = y.left.right])
  IN  Measured([y EXCEPT !.data = y.left.data, !.left = y.left.left,
                         !.right = [lower EXCEPT !.held = y.left.held]])

rotateRight(y) ==
  Measured([y.left EXCEPT !.right = Measured([y EXCEPT !.left = y.left.right])])

rotateLeft(x) ==
  Measured([x.right EXCEPT !.left = Measured([x EXCEPT !.right = x.right.left])])

createNode(v) == [data |-> v, height |-> 1, left |-> Nil, right |-> Nil, held |-> FALSE]

\* The four cases of insertRecursive, told apart by where v went.
RebalancedAfterInsert(t, v) ==
  CASE getBalance(t) > 1 /\ v < t.left.data   -> rotateRight(t)
    [] getBalance(t) < -1 /\ v > t.right.data -> rotateLeft(t)
    [] getBalance(t) > 1 /\ v > t.left.data   ->
         rotateRight([t EXCEPT !.left = rotateLeft(t.left)])
    [] getBalance(t) < -1 /\ v < t.right.data ->
         rotateLeft([t EXCEPT !.right = rotateRight(t.right)])
    [] OTHER -> t

\* insertRecursive: the new subtree, and whether it says so.  Without memory
\* createNode returns Nil, and the answer is TRUE nevertheless.
RECURSIVE insertRecursive(_, _, _)
insertRecursive(t, v, memory) ==
  IF t = Nil THEN [tree |-> IF memory THEN createNode(v) ELSE Nil, inserted |-> TRUE]
  ELSE IF v = t.data THEN [tree |-> t, inserted |-> FALSE]
  ELSE LET below == insertRecursive(IF v < t.data THEN t.left ELSE t.right, v, memory)
           above == IF v < t.data THEN [t EXCEPT !.left = below.tree]
                    ELSE [t EXCEPT !.right = below.tree]
       IN  [tree |-> RebalancedAfterInsert(Measured(above), v), inserted |-> below.inserted]

\* Mutant: the loop to the left is missing.
minValueRoot(t) == t

RECURSIVE minValueNode(_)
minValueNode(t) == IF t.left = Nil THEN t ELSE minValueNode(t.left)

\* Mutant: a left subtree that leans to the right is rotated only once.
RebalancedOnce(t) ==
  CASE getBalance(t) > 1  -> rotateRight(t)
    [] getBalance(t) < -1 -> rotateLeft(t)
    [] OTHER -> t

\* The four cases of removeRecursive, told apart by the higher child.
RebalancedAfterRemove(t) ==
  CASE getBalance(t) > 1 /\ getBalance(t.left) >= 0   -> rotateRight(t)
    [] getBalance(t) > 1 /\ getBalance(t.left) < 0    ->
         rotateRight([t EXCEPT !.left = rotateLeft(t.left)])
    [] getBalance(t) < -1 /\ getBalance(t.right) <= 0 -> rotateLeft(t)
    [] getBalance(t) < -1 /\ getBalance(t.right) > 0  ->
         rotateLeft([t EXCEPT !.right = rotateRight(t.right)])
    [] OTHER -> t

\* removeRecursive: the new subtree, and whether v was there; then one node,
\* not always the one that held v, is freed.
RECURSIVE removeRecursive(_, _)
removeRecursive(t, v) ==
  IF t = Nil THEN [tree |-> Nil, removed |-> FALSE]
  ELSE IF v = t.data /\ t.left = Nil /\ t.right = Nil THEN [tree |-> Nil, removed |-> TRUE]
  ELSE LET only  == IF t.left # Nil THEN t.left ELSE t.right
           heir  == minValueNode(t.right)
           below == CASE v < t.data -> removeRecursive(t.left, v)
                      [] v > t.data -> removeRecursive(t.right, v)
                      [] OTHER -> IF t.left # Nil /\ t.right # Nil
                                    THEN removeRecursive(t.right, heir.data)
                                    ELSE [tree |-> only, removed |-> TRUE]
           above == CASE v < t.data -> [t EXCEPT !.left = below.tree]
                      [] v > t.data -> [t EXCEPT !.right = below.tree]
                      [] OTHER -> IF t.left # Nil /\ t.right # Nil
                                    THEN [t EXCEPT !.data = heir.data, !.right = below.tree]
                                    ELSE [t EXCEPT !.data = only.data, !.left = only.left,
                                                   !.right = only.right, !.height = only.height]
       IN  [tree |-> RebalancedAfterRemove(Measured(above)), removed |-> below.removed]

\* The path of justOrderedSetFind: the node with v, or Nil.
RECURSIVE Search(_, _)
Search(t, v) ==
  IF t = Nil \/ t.data = v THEN t ELSE Search(IF v < t.data THEN t.left ELSE t.right, v)

\* The order in which inorderRecursive visits.
RECURSIVE inorderRecursive(_)
inorderRecursive(t) ==
  IF t = Nil THEN <<>>
  ELSE inorderRecursive(t.left) \o <<t.data>> \o inorderRecursive(t.right)

\* The tree with the caller's pointer at the node of v, or at none.
RECURSIVE Pointed(_, _)
Pointed(t, v) ==
  IF t = Nil THEN Nil
  ELSE [t EXCEPT !.held = (t.data = v), !.left = Pointed(@, v), !.right = Pointed(@, v)]

-----------------------------------------------------------------------------
(* Operations *)

Reported(yes, v) == IF yes THEN <<v>> ELSE <<>>

\* Has createNode memory?  The arena until it is full, the heap as it likes.
Memory == IF allocator = "arena" THEN {nodes < ArenaNodes} ELSE BOOLEAN

Insert(v) ==
  \E memory \in Memory :
    LET r   == insertRecursive(root, v, memory)
        new == r.inserted
    IN  /\ new /\ ~memory => lost < MaxLost
        /\ root' = r.tree
        /\ size' = IF new THEN size + 1 ELSE size
        /\ out' = Reported(new, v)
        /\ nodes' = IF new /\ memory THEN nodes + 1 ELSE nodes
        /\ lost' = IF new /\ ~memory THEN lost + 1 ELSE lost
        /\ UNCHANGED <<allocator, kept>>

\* Arena nodes are never given back.
NodesAfterFreeing(n) == IF allocator = "arena" THEN nodes ELSE nodes - n

\* Pointers into the set are void once something has been removed.
Remove(v) ==
  LET r == removeRecursive(root, v)
  IN  /\ size' = IF r.removed THEN size - 1 ELSE size
      /\ out' = Reported(r.removed, v)
      /\ root' = IF r.removed THEN Pointed(r.tree, Nil) ELSE r.tree
      /\ kept' = IF r.removed THEN Nil ELSE kept
      /\ nodes' = IF r.removed THEN NodesAfterFreeing(1) ELSE nodes
      /\ UNCHANGED <<allocator, lost>>

\* justOrderedSetFind and Contains.
Find(v) ==
  /\ out' = Reported(Search(root, v) # Nil, v)
  /\ UNCHANGED <<root, size, allocator, nodes, lost, kept>>

\* A caller keeps the pointer.
FindAndKeep(v) ==
  /\ Search(root, v) # Nil
  /\ kept' = v
  /\ root' = Pointed(root, v)
  /\ out' = <<v>>
  /\ UNCHANGED <<size, allocator, nodes, lost>>

TraverseInorder ==
  /\ out' = inorderRecursive(root)
  /\ UNCHANGED <<root, size, allocator, nodes, lost, kept>>

RECURSIVE Count(_)
Count(t) == IF t = Nil THEN 0 ELSE 1 + Count(t.left) + Count(t.right)

\* justOrderedSetClear, and justOrderedSetDestroy: destroySubtree frees every
\* node it reaches.
Clear ==
  /\ root' = Nil /\ size' = 0
  /\ nodes' = NodesAfterFreeing(Count(root))
  /\ lost' = 0 /\ kept' = Nil /\ out' = <<>>
  /\ UNCHANGED allocator

Next ==
  \/ TraverseInorder \/ Clear
  \/ \E v \in Elements : Insert(v) \/ Remove(v) \/ Find(v)
  \/ \E v \in Watched : FindAndKeep(v)

Spec == Init /\ [][Next]_vars

-----------------------------------------------------------------------------
(* Properties *)

RECURSIVE SubtreeOK(_)
SubtreeOK(t) ==
  t # Nil =>
    /\ SubtreeOK(t.left) /\ SubtreeOK(t.right)
    /\ t.height = Measured(t).height
    /\ getBalance(t) \in -1 .. 1

Balanced == SubtreeOK(root)

\* The size is the number of nodes but for the insertions that found no
\* memory and were counted all the same, and the heap holds no other nodes.
SizeAndNodes ==
  /\ size = Count(root) + lost
  /\ allocator = "heap" => nodes = Count(root)

\* Whatever was inserted and removed, and in which order: every height is
\* right, and no two subtrees of a node differ by more than one, which keeps
\* the recursion shallow and the searches short; no node is lost or freed
\* twice, and the size is wrong only by the insertions without memory.
TreeSound == Balanced /\ SizeAndNodes

RECURSIVE DataOf(_)
DataOf(t) == IF t = Nil THEN {} ELSE {t.data} \cup DataOf(t.left) \cup DataOf(t.right)

Members == DataOf(root)

RECURSIVE ReadsAt(_)
ReadsAt(t) ==
  IF t = Nil THEN {}
  ELSE (IF t.held THEN {t.data} ELSE {}) \cup ReadsAt(t.left) \cup ReadsAt(t.right)

\* A pointer that Find returned goes on to show the element it was asked for,
\* through any number of insertions and the rotations they cause.
PointersSurviveInserts == kept # Nil => ReadsAt(root) = {kept}

\* The tree is a set, and a search from the root misses no member.
Abstract == INSTANCE SortedSet WITH members <- Members
ImplementsSet == Abstract!Spec
=============================================================================

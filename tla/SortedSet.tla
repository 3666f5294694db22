------------------------------ MODULE SortedSet ------------------------------
(***************************************************************************)
(* What justOrderedSet promises: a set, told apart by its members only,    *)
(* whatever the order they came in; a traversal visits them in order.      *)
(* Every call reports elements: the one it inserted, removed or found, or  *)
(* none, or those it visited.                                              *)
(***************************************************************************)
EXTENDS Integers, Sequences, FiniteSets

CONSTANT Elements

VARIABLES members, out

vars == <<members, out>>

Init == members = {} /\ out = <<>>

Insert(v) ==
  /\ out' = IF v \in members THEN <<>> ELSE <<v>>
  /\ members' = members \cup {v}

\* No memory: the set stays as it is.  What is reported is left open.
InsertFails(v) ==
  /\ v \notin members
  /\ out' \in {<<>>, <<v>>}
  /\ UNCHANGED members

Remove(v) ==
  /\ out' = IF v \in members THEN <<v>> ELSE <<>>
  /\ members' = members \ {v}

Find(v) ==
  /\ out' = IF v \in members THEN <<v>> ELSE <<>>
  /\ UNCHANGED members

\* Each member once, in ascending order.
Traverse ==
  /\ Len(out') = Cardinality(members)
  /\ \A i \in 1 .. Len(out') : out'[i] \in members
  /\ \A i \in 1 .. Len(out') - 1 : out'[i] < out'[i + 1]
  /\ UNCHANGED members

Clear == members' = {} /\ out' = <<>>

Next ==
  \/ Traverse \/ Clear
  \/ \E v \in Elements : Insert(v) \/ InsertFails(v) \/ Remove(v) \/ Find(v)

Spec == Init /\ [][Next]_vars
=============================================================================

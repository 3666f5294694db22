-------------------------------- MODULE Lifo --------------------------------
(***************************************************************************)
(* What justDynamicArray and justStack promise: a sequence that grows and  *)
(* shrinks at its end, and whose elements stay as they were written.       *)
(***************************************************************************)
EXTENDS Sequences, SequencesExt

CONSTANTS Values, Junk, Null

VARIABLES items,
          out     \* the value the last Pop or Peek handed out, or Null

vars == <<items, out>>

Init == items = <<>> /\ out = Null

\* A push of some elements, all of them or none.
PushRange(n) ==
  /\ Len(items') = Len(items) + n /\ IsPrefix(items, items')
  /\ UNCHANGED out

\* The owner of the elements writes one of them.
Store(i) ==
  /\ DOMAIN items' = DOMAIN items
  /\ \A j \in DOMAIN items \ {i} : items'[j] = items[j]
  /\ UNCHANGED out

Pop ==
  /\ items # <<>>
  /\ items' = Front(items)
  /\ out' = Last(items)

Peek ==
  /\ out' = IF items = <<>> THEN Null ELSE Last(items)
  /\ UNCHANGED items

Clear == items' = <<>> /\ out' \in {out, Null}

Next ==
  \/ Pop \/ Peek \/ Clear
  \/ \E n \in 1 .. Len(items') : PushRange(n)
  \/ \E i \in DOMAIN items : Store(i)

Spec == Init /\ [][Next]_vars
=============================================================================

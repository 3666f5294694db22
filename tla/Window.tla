------------------------------- MODULE Window -------------------------------
(***************************************************************************)
(* What justRingBuffer promises: a FIFO of at most width items.  With      *)
(* overwrite a push on a full one drops the oldest item, without it the    *)
(* push is refused.                                                        *)
(***************************************************************************)
EXTENDS Naturals, Sequences

CONSTANTS Values, NoValue

VARIABLES items, width, overwrite, out

vars == <<items, width, overwrite, out>>

Init == items = <<>> /\ width = 0 /\ overwrite = FALSE /\ out = NoValue

\* The ring is created or destroyed.
Reset ==
  /\ items = <<>> \/ width' = 0
  /\ items' = <<>>
  /\ width' \in Nat /\ overwrite' \in BOOLEAN
  /\ out' = out

Push(v) ==
  /\ width > 0
  /\ \/ Len(items) < width /\ items' = Append(items, v)
     \/ Len(items) = width /\ overwrite /\ items' = Append(Tail(items), v)
  /\ UNCHANGED <<width, overwrite, out>>

Pop ==
  /\ items # <<>>
  /\ out' = Head(items)
  /\ items' = Tail(items)
  /\ UNCHANGED <<width, overwrite>>

Clear == items' = <<>> /\ UNCHANGED <<width, overwrite, out>>

Next == Reset \/ Pop \/ Clear \/ \E v \in Values : Push(v)

Spec == Init /\ [][Next]_vars
=============================================================================

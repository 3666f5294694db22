-------------------------------- MODULE Fifo --------------------------------
(***************************************************************************)
(* What justQueue promises: a sequence that items join at the back and     *)
(* leave from the front.                                                   *)
(***************************************************************************)
EXTENDS Sequences

CONSTANTS Values, NoValue

VARIABLES items,  \* the queue, front first
          out     \* the item the last dequeue handed out, or NoValue

vars == <<items, out>>

Init == items = <<>> /\ out = NoValue

Enqueue(v) == items' = Append(items, v) /\ UNCHANGED out

Dequeue ==
  /\ items # <<>>
  /\ out' = Head(items)
  /\ items' = Tail(items)

\* Clear, and the destruction of the queue.
Clear == items' = <<>> /\ out' \in {out, NoValue}

Next == (\E v \in Values : Enqueue(v)) \/ Dequeue \/ Clear

Spec == Init /\ [][Next]_vars
=============================================================================

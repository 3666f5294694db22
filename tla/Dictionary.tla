----------------------------- MODULE Dictionary -----------------------------
(***************************************************************************)
(* What justHashMap promises: a function from keys to values, with NoValue *)
(* for the keys that are absent.                                           *)
(***************************************************************************)
CONSTANTS Keys, Values, NoValue

VARIABLE map

Init == map = [k \in Keys |-> NoValue]

Set(k, v) == map' = [map EXCEPT ![k] = v]

Remove(k) ==
  /\ map[k] # NoValue
  /\ map' = [map EXCEPT ![k] = NoValue]

\* Clear and Destroy.
Clear == map' = [k \in Keys |-> NoValue]

Next ==
  \/ \E k \in Keys : Remove(k) \/ \E v \in Values : Set(k, v)
  \/ Clear

Spec == Init /\ [][Next]_map
=============================================================================

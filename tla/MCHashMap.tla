----------------------------- MODULE MCHashMap -----------------------------
(* HashMap with tables of 4 and 8 slots.  k1 and k2 have the same hash; with *)
(* k4 and k3, which start behind them, they form a chain that runs around    *)
(* the end of either table.                                                  *)
EXTENDS HashMap, TLC

CONSTANTS k1, k2, k3, k4, v1, v2

AllKeys    == {k1, k2, k3, k4}
Colliding  == [k \in Keys |-> IF k \in {k1, k2} THEN 6 ELSE IF k = k4 THEN 7 ELSE 8]
BothValues == {v1, v2}
TwoSizes   == {1, 5}

\* Values are only copied, and keys of the same hash only compared.
Symmetry == {v @@ k : v \in Permutations(Values), k \in Permutations({k1, k2})}
=============================================================================

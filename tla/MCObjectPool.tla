---------------------------- MODULE MCObjectPool ----------------------------
(* A pool of three slots, two callers' sets (one as large as the pool, one  *)
(* with room for one more) and words of two bits.                           *)
EXTENDS PoolAudit

CONSTANTS seen, other

TwoSets == {seen, other}
UnequalCapacities == [x \in TwoSets |-> IF x = seen THEN 3 ELSE 4]
=============================================================================

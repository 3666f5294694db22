----------------------------- MODULE PowersOfTwo -----------------------------
(***************************************************************************)
(* The capacities of the queue, the ring buffer and the hash map are       *)
(* powers of two.                                                          *)
(***************************************************************************)
EXTENDS Naturals

\* Every divisor but 1 is even.
Powers == {p \in Nat \ {0} : \A d \in 2 .. p : p % d = 0 => d % 2 = 0}

\* The least power of two that is not below n > 0.
PowerAtLeast(n) == CHOOSE p \in n .. 2 * n - 1 : p \in Powers
=============================================================================

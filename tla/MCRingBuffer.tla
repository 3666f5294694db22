---------------------------- MODULE MCRingBuffer ----------------------------
(* RingBuffer with rings of one, two and four slots.                         *)
EXTENDS RingBuffer

CONSTANTS a, b

TwoValues  == {a, b}
ThreeSizes == {1, 2, 3}
=============================================================================

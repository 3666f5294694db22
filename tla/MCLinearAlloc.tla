--------------------------- MODULE MCLinearAlloc ---------------------------
(* LinearAlloc on a buffer of eight bytes, in sizes of five bits.  The       *)
(* buffer lies at an odd address, as a user's may in the release build.      *)
EXTENDS LinearAlloc

SmallSizes == {1, 2, 3}
Boundaries == {1, 2, 4}
=============================================================================

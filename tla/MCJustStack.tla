---------------------------- MODULE MCJustStack ----------------------------
(* Arrays and stacks of up to four elements, grown by two when empty.        *)
EXTENDS JustStack

CONSTANTS a, b

TwoValues  == {a, b}
FewSizes   == {0, 1, 3, 5}
FewRanges  == {<<a>>, <<a, b>>, <<b, a, b>>}
=============================================================================

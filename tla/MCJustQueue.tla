---------------------------- MODULE MCJustQueue ----------------------------
(* JustQueue with rings of up to eight slots.  MinCap stands for the eight   *)
(* slots a queue starts with; two are enough for every ring to wrap.         *)
EXTENDS JustQueue

CONSTANTS a, b

TwoValues   == {a, b}
FewTargets  == {0, 1, 3, 4, 5}
=============================================================================

----------------------------- MODULE MCTracker -----------------------------
(* Tracker on a machine with three blocks and sizes of four bits.            *)
EXTENDS Tracker, TLC

CONSTANTS x, y, b1, b2, b3, ui, longTag, longCut

OneThread   == {x}
TwoThreads  == {x, y}
TwoBlocks   == {b1, b2}
ThreeBlocks == {b1, b2, b3}
OneTag      == {Unknown}
AllTags     == {Unknown, ui, longTag}
CutTags     == [t \in Tags |-> IF t = longTag THEN longCut ELSE t]
SmallSizes  == {1, 2}
OneSize     == {1}
TightLimits == {3}
NoLimits    == {}

BlockSymmetry == Permutations(Blocks)
=============================================================================

SPECIFICATION LinearSpec
CONSTANTS
  Base = 3
  TotalSize = 8
  Word = 32
  Requests <- SmallSizes
  Alignments <- Boundaries
  MaxBlocks = 4
INVARIANTS
  BlocksInside
  BlocksAligned
  BlocksDisjoint

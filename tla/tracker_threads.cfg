SPECIFICATION Spec
CONSTANTS
  x = x
  y = y
  b1 = b1
  b2 = b2
  b3 = b3
  ui = ui
  longTag = longTag
  longCut = longCut
  Null = Null
  Unknown = Unknown
  Threads <- TwoThreads
  Blocks <- TwoBlocks
  Tags <- OneTag
  Cut <- CutTags
  TagLimit = 2
  DefaultLimit = 4
  Word = 16
  Align = 2
  Overhead = 3
  Memory = 10
  Requests <- OneSize
  Limits <- NoLimits
INVARIANTS
  AllocationsListed

SPECIFICATION Spec
CONSTANTS
  x = x
  y = y
  b1 = b1
  b2 = b2
  b3 = b3
  ui = ui
  longTag = longTag
  longCut = longCut
  Null = Null
  Unknown = Unknown
  Threads <- OneThread
  Blocks <- ThreeBlocks
  Tags <- AllTags
  Cut <- CutTags
  TagLimit = 3
  DefaultLimit = 4
  Word = 16
  Align = 2
  Overhead = 3
  Memory = 10
  Requests <- SmallSizes
  Limits <- TightLimits
SYMMETRY BlockSymmetry
INVARIANTS
  AllocationsListed
  CountersExact
PROPERTIES
  GrowthWithinLimit

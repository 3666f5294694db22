SPECIFICATION StackSpec
CONSTANTS
  a = a
  b = b
  Junk = Junk
  Null = Null
  Values <- TwoValues
  HeapCells = 4
  ArenaCells = 6
  DEFAULT_GROWTH = 2
  Capacities <- FewSizes
  Ranges <- FewRanges
INVARIANT BufferOwned
PROPERTIES
  PushCopiesSource
  ImplementsLifo

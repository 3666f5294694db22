SPECIFICATION Spec
CONSTANTS
  a = a
  b = b
  NoValue = NoValue
  Values <- TwoValues
  MinCap = 2
  MaxCap = 8
  Targets <- FewTargets
INVARIANTS
  RingShape
PROPERTY ImplementsFifo

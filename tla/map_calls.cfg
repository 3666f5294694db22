SPECIFICATION Spec
CONSTANTS
  k1 = k1
  k2 = k2
  k3 = k3
  k4 = k4
  v1 = v1
  v2 = v2
  NoValue = NoValue
  Keys <- AllKeys
  Values <- BothValues
  Hash <- Colliding
  Word = 1024
  DefaultCapacity = 4
  Targets <- TwoSizes
SYMMETRY Symmetry
INVARIANTS
  CountersTrusted
  KeysReachable
PROPERTY ImplementsDictionary

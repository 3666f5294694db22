SPECIFICATION AuditSpec
CONSTANTS
  Capacity = 3
  End = End
  WordBits = 2
  seen = seen
  other = other
  Sets <- TwoSets
  SetCapacity <- UnequalCapacities
INVARIANTS
  FreeListExact
  AuditExact
  EqualsIsEquality

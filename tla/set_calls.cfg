SPECIFICATION Spec
CONSTANTS
  Nil = Nil
  Elements <- SomeElements
  Watched <- OneWatched
  ArenaNodes = 4
  MaxLost = 1
INVARIANTS
  TreeSound
  PointersSurviveInserts
PROPERTY ImplementsSet

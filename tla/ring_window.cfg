SPECIFICATION RingSpec
CONSTANTS
  a = a
  b = b
  NoValue = NoValue
  Values <- TwoValues
  Targets <- ThreeSizes
PROPERTY ImplementsWindow

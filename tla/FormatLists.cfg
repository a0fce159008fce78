SPECIFICATION Spec
CONSTANTS
  TICKS = 2
  SPAN = 2
  OLD = 0
  MaxTime = 5
  MaxSamples = 5
INVARIANTS
  OrderedBySecond
  NoFault
PROPERTIES
  NeverEmptied
  TakenIsPaired

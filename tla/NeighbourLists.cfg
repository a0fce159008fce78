SPECIFICATION NeighboursSpec
CONSTANTS
  Name = {a, b, c, d}
  NoName = NoName
  AGE = 1
  MaxTime = 2
  MaxSamples = 7
INVARIANTS
  ListIsWellFormed
  FreshAreListed
  OldAreHalved
PROPERTIES
  FaultsAreOfStations
SYMMETRY Interchangeable

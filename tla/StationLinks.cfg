SPECIFICATION LinksSpec
CONSTANTS
  Station = {a, b}
  NoStation = NoStation
  TEN = 2
  IWAMOUNT = 4
  PerSec = 2
  MinGap = 2
  FirstTick = 6
  LastTick = 19
  Steps = {1, 6}
INVARIANTS
  OneWindowPerStation
  WindowInOrder
PROPERTIES
  RecentKeepsWindow
  RatesAreRecent
SYMMETRY Interchangeable

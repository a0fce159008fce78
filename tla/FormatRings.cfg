SPECIFICATION FairSpec
CONSTANTS
  THUNDRED = 3
  MaxSec = 2
  EarlierSec = {0, 2}
  MaxTimes = 4
INVARIANTS
  RetransOnce
  NoMoreThanStored
PROPERTIES
  NeverBack
  FirstLapIsRead

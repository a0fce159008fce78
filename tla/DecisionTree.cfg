SPECIFICATION FairSpec
CONSTANTS
  Parameter = {a, b}
  Leaf = Leaf
  Unfilled = {b}
  Thresholds = {0}
  Values = {0, 1}
  MaxRows = 5
INVARIANTS
  AnswerIsTheLeaf
  NullIsMalformed
PROPERTIES
  SearchEnds

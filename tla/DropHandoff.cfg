SPECIFICATION FairSpec
CONSTANT
  MaxDrops = 5
INVARIANTS
  HandoverIsSafe
  ReportedInOrder
  DeleteExcludesWalk
PROPERTIES
  ImplementsReport
  DropsReported

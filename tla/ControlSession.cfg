SPECIFICATION FairSpec
CONSTANTS
  TEN = 3
  Station = {a, b}
  Flow = {f}
  None = None
  MaxSessions = 2
INVARIANTS
  AnswersAreFresh
  NothingLeftBehind
  LinksAreTheTable
  CommandsAreTheSlots
PROPERTIES
  SessionEnds

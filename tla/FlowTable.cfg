SPECIFICATION Spec
CONSTANTS
  Flow = {f, g, h}
  None = None
  Slots = 3
  Wrap = 64
  Half = 4
  Start = 10
  End = 14
  MaxPackets = 3
INVARIANTS
  OnlyRecentFlows
  NeverOvercounted
  CountIsLow
PROPERTIES
  RecentStays
  PacketIsTracked
CHECK_DEADLOCK FALSE

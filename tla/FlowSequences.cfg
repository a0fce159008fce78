SPECIFICATION Spec
CONSTANTS
  Connection = {c}
  None = None
  SEQLIST = 2
  MINUS1 = 3
  AckAge = 0
  Times = {1, 2}
  Sent = {0, 1, 2, 3}
  Acked = {1, 2}
INVARIANTS
  UnusedIsBlank
PROPERTIES
  ImplementsLog
  OnlyHandshakesDouble
